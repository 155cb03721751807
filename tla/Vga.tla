-------------------------------- MODULE Vga --------------------------------
(***************************************************************************)
(* The text screen, drivers/vga.c, as operators on a screen s: its cells   *)
(* and the cursor.  Colours are left out.                                  *)
(***************************************************************************)
EXTENDS Integers, Sequences

CONSTANTS
    VgaWidth, VgaHeight

Blank == " "   \* "newline", "return" and "backspace" are \n, \r and \b

vga_clear == [cell |-> [i \in 0..VgaWidth * VgaHeight - 1 |-> Blank], row |-> 0, column |-> 0]

vga_putchar_at(s, c, x, y) == [s EXCEPT !.cell[y * VgaWidth + x] = c]

vga_scroll(s) ==
    [s EXCEPT !.cell = [i \in DOMAIN @ |->
                          IF i + VgaWidth \in DOMAIN @ THEN @[i + VgaWidth] ELSE Blank],
              !.row = VgaHeight - 1]

\* The character itself, before the cursor is brought back onto the screen.
Write(s, c) ==
    CASE c = "newline" -> [s EXCEPT !.column = 0, !.row = @ + 1]
      [] c = "return" -> [s EXCEPT !.column = 0]
      [] c = "backspace" /\ s.column > 0 ->
            vga_putchar_at([s EXCEPT !.column = @ - 1], Blank, s.column - 1, s.row)
      [] c = "backspace" /\ s.column = 0 -> s
      [] OTHER -> vga_putchar_at([s EXCEPT !.column = @ + 1], c, s.column, s.row)

\* Mutant of Wrap: a full line does not go on in the next row.
WrapSameRow(s) == IF s.column >= VgaWidth THEN [s EXCEPT !.column = 0] ELSE s

Wrap(s) == IF s.column >= VgaWidth THEN [s EXCEPT !.column = 0, !.row = @ + 1] ELSE s

vga_putchar(s, c) ==
    LET w == Wrap(Write(s, c))
    IN  IF w.row >= VgaHeight THEN vga_scroll(w) ELSE w

vga_print(s, text) ==
    LET after[n \in 0..Len(text)] == IF n = 0 THEN s ELSE vga_putchar(after[n - 1], text[n])
    IN  after[Len(text)]

=============================================================================

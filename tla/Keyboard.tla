------------------------------ MODULE Keyboard ------------------------------
(***************************************************************************)
(* The keyboard driver, drivers/keyboard.c: the interrupt handler turns    *)
(* scan codes into characters in a ring buffer, keyboard_getchar takes     *)
(* them out in process context.                                            *)
(*                                                                         *)
(* A key press is the run of codes the controller sends for it, one        *)
(* interrupt each; the codes of one key are not mixed with another's.  An  *)
(* arrow key sends E0 before its codes, and with NumLock on it also sends  *)
(* a shift code nobody pressed, before and after, each behind an E0.       *)
(***************************************************************************)
EXTENDS Integers, Sequences, SequencesExt

CONSTANTS
    BufferSize,     \* KEYBOARD_BUFFER_SIZE
    MaxCodes        \* bound on the scan codes sent

ASSUME KeyboardAssumption == BufferSize \in Nat \ {0} /\ MaxCodes \in Nat

VARIABLES
    ring,           \* keyboard_buffer
    buffer_start, buffer_end,
    shift_pressed, extended_mode,
    sending,        \* codes of the current key the controller has yet to send
    pressed,        \* history: the keys pressed
    typed,          \* history: the characters put into the ring
    reads           \* history: calls of keyboard_getchar that returned

keyboardVars == <<ring, buffer_start, buffer_end, shift_pressed, extended_mode,
                  sending, pressed, typed, reads>>

\* The codes each key sends, make and break.
Codes == [letter |-> <<"letter", "break">>,
          enter |-> <<"enter", "break">>,
          backspace |-> <<"backspace", "break">>,
          up |-> <<"E0", "up", "E0", "break">>,
          down |-> <<"E0", "down", "E0", "break">>,
          numlock_up |-> <<"E0", "shift", "E0", "up", "E0", "break", "E0", "unshift">>,
          capital |-> <<"shift", "letter", "break", "unshift">>]
Keys == DOMAIN Codes
CodesSent == FoldSeq(LAMBDA key, n : n + Len(Codes[key]), 0, pressed)

None == "none"

\* Mutant of Ascii: the shift tables are swapped.
AsciiSwapped(code) ==
    CASE extended_mode -> IF code \in {"up", "down"} THEN code ELSE None
      [] ~extended_mode /\ code = "letter" -> IF shift_pressed THEN "a" ELSE "A"
      [] ~extended_mode /\ code \in {"enter", "backspace"} -> code
      [] OTHER -> None

(***************************************************************************)
(* The character of a make code: up and down, 0x48 and 0x50, are past the  *)
(* end of the plain tables; behind an E0 nothing else has one.             *)
(***************************************************************************)
Ascii(code) ==
    CASE extended_mode -> IF code \in {"up", "down"} THEN code ELSE None
      [] ~extended_mode /\ code = "letter" -> IF shift_pressed THEN "A" ELSE "a"
      [] ~extended_mode /\ code \in {"enter", "backspace"} -> code
      [] OTHER -> None

Unchanged == UNCHANGED <<ring, buffer_end, typed>>

\* Mutant of Put: the index is not wrapped at the last slot.
PutPastEnd(char) ==
    /\ ring' = [ring EXCEPT ![buffer_end] = char]
    /\ buffer_end' = IF buffer_end = BufferSize - 1 THEN buffer_end ELSE buffer_end + 1
    /\ typed' = Append(typed, char)

\* No test for a full ring.
Put(char) ==
    /\ ring' = [ring EXCEPT ![buffer_end] = char]
    /\ buffer_end' = (buffer_end + 1) % BufferSize
    /\ typed' = Append(typed, char)

keyboard_handler ==
    /\ sending # <<>>
    /\ LET code == Head(sending)
       IN  /\ \/ code = "E0" /\ extended_mode' = TRUE /\ UNCHANGED shift_pressed /\ Unchanged
              \/ code = "shift" /\ shift_pressed' = TRUE /\ UNCHANGED extended_mode /\ Unchanged
              \/ code = "unshift" /\ shift_pressed' = FALSE /\ UNCHANGED extended_mode /\ Unchanged
              \/ code = "break" /\ extended_mode' = FALSE /\ UNCHANGED shift_pressed /\ Unchanged
              \/ /\ code \notin {"E0", "shift", "unshift", "break"}
                 /\ extended_mode' = FALSE
                 /\ UNCHANGED shift_pressed
                 /\ \/ Ascii(code) = None /\ Unchanged
                    \/ Ascii(code) # None /\ Put(Ascii(code))
           /\ sending' = Tail(sending)
    /\ UNCHANGED <<buffer_start, pressed, reads>>

Press(key) ==
    /\ sending = <<>> /\ CodesSent + Len(Codes[key]) <= MaxCodes
    /\ pressed' = Append(pressed, key)
    /\ sending' = Codes[key]
    /\ UNCHANGED <<ring, buffer_start, buffer_end, shift_pressed, extended_mode, typed, reads>>

\* The loop around hlt ends when there is a character.
keyboard_available == buffer_start # buffer_end
NextChar == ring[buffer_start]

keyboard_getchar ==
    /\ keyboard_available
    /\ buffer_start' = (buffer_start + 1) % BufferSize
    /\ reads' = reads + 1
    /\ UNCHANGED <<ring, buffer_end, shift_pressed, extended_mode, sending, pressed, typed>>

KeyboardInit ==
    /\ ring = [i \in 0..BufferSize - 1 |-> None]
    /\ buffer_start = 0 /\ buffer_end = 0
    /\ shift_pressed = FALSE /\ extended_mode = FALSE
    /\ sending = <<>>
    /\ pressed = <<>> /\ typed = <<>> /\ reads = 0

=============================================================================

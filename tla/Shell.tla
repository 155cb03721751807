------------------------------- MODULE Shell -------------------------------
(***************************************************************************)
(* The console: the line editor of kernel/shell.c between the keyboard's   *)
(* ring and the text screen.                                               *)
(*                                                                         *)
(* shell_run takes one character at a time; keyboard interrupts come       *)
(* between any two, also while a command runs.  What the commands do to    *)
(* the rest of the kernel is in the modules of those parts; here a command *)
(* prints a line or clears the screen.                                     *)
(***************************************************************************)
EXTENDS Keyboard, Vga

CONSTANTS
    CmdBufferSize,  \* CMD_BUFFER_SIZE
    HistorySize,    \* HISTORY_SIZE
    Prompt,         \* "ValcOS> "
    RedrawPrompt    \* "more> ValcOS> "

ASSUME ShellAssumption ==
    /\ CmdBufferSize \in Nat \ {0} /\ HistorySize \in Nat \ {0}
    /\ Prompt \in Seq(STRING) /\ RedrawPrompt \in Seq(STRING)
    /\ VgaWidth \in Nat \ {0} /\ VgaHeight \in Nat
    /\ CmdBufferSize <= VgaWidth * (VgaHeight - 1)   \* the line fits what scrolling leaves

VARIABLES
    line,           \* cmd_buffer up to cmd_pos
    history,        \* the first history_count lines
    history_idx,
    screen,
    entered,        \* history: the lines entered
    astray          \* history: a backspace at column 0 since the line was last drawn

shellVars == <<line, history, history_idx, screen, entered, astray>>
vars == <<ring, buffer_start, buffer_end, shift_pressed, extended_mode,
          sending, pressed, typed, reads,
          line, history, history_idx, screen, entered, astray>>

-----------------------------------------------------------------------------
\* '\r', two columns less than a row of spaces, '\r', prompt and line.
shell_refresh_line(s, text) ==
    vga_print(s, <<"return">> \o [i \in 1..VgaWidth - 2 |-> Blank] \o <<"return">>
                   \o RedrawPrompt \o text)

\* Mutant of shell_add_history: a full history loses its newest line.
AddHistoryKeepsOld(cmd) ==
    CASE cmd = <<>> -> history
      [] cmd # <<>> /\ Len(history) < HistorySize -> Append(history, cmd)
      [] OTHER -> Append(Front(history), cmd)

\* An empty line is not kept; a full history is shifted.
shell_add_history(cmd) ==
    CASE cmd = <<>> -> history
      [] cmd # <<>> /\ Len(history) < HistorySize -> Append(history, cmd)
      [] OTHER -> Append(Tail(history), cmd)

\* Every branch of shell_execute_command prints lines, the last two as any
\* other, but "clear" (shell.c:160); an empty line has only the newline.
shell_execute_command(s, cmd) ==
    IF cmd = <<>> THEN {vga_putchar(s, "newline")}
    ELSE {vga_putchar(s, "newline"), vga_clear}

-----------------------------------------------------------------------------
(***************************************************************************)
(* shell_run, by the character it has got.                                 *)
(***************************************************************************)
EnterLine ==
    /\ NextChar = "enter"
    /\ \E after \in shell_execute_command(vga_putchar(screen, "newline"), line) :
          screen' = vga_print(after, Prompt)
    /\ history' = shell_add_history(line)
    /\ history_idx' = Len(history')
    /\ line' = <<>>
    /\ entered' = IF line = <<>> THEN entered ELSE Append(entered, line)
    /\ astray' = FALSE

EraseChar ==
    /\ NextChar = "backspace"
    /\ line' = IF line = <<>> THEN line ELSE Front(line)
    /\ screen' = IF line = <<>> THEN screen ELSE vga_putchar(screen, "backspace")
    /\ astray' = (astray \/ (line # <<>> /\ screen.column = 0))
    /\ UNCHANGED <<history, history_idx, entered>>

\* strcpy of a line of the history, or of none past its end, and a redraw.
Show(idx) ==
    /\ history_idx' = idx
    /\ line' = IF idx = Len(history) THEN <<>> ELSE history[idx + 1]
    /\ screen' = shell_refresh_line(screen, line')
    /\ astray' = FALSE
    /\ UNCHANGED <<history, entered>>

Older ==
    /\ NextChar = "up"
    /\ \/ history_idx > 0 /\ Show(history_idx - 1)
       \/ history_idx = 0 /\ UNCHANGED shellVars

Newer ==
    /\ NextChar = "down"
    /\ \/ history_idx < Len(history) /\ Show(history_idx + 1)
       \/ history_idx = Len(history) /\ UNCHANGED shellVars

\* One byte is left for the terminator.
Room == Len(line) < CmdBufferSize - 1

InsertChar ==
    /\ NextChar \in {"a", "A"}
    /\ \/ /\ Room
          /\ line' = Append(line, NextChar)
          /\ screen' = vga_putchar(screen, NextChar)
          /\ UNCHANGED <<history, history_idx, entered, astray>>
       \/ ~Room /\ UNCHANGED shellVars

shell_run ==
    /\ keyboard_getchar
    /\ EnterLine \/ EraseChar \/ Older \/ Newer \/ InsertChar

-----------------------------------------------------------------------------
Init ==
    /\ KeyboardInit
    /\ line = <<>> /\ history = <<>> /\ history_idx = 0
    /\ screen = vga_print(vga_clear, Prompt)
    /\ entered = <<>> /\ astray = FALSE

Next ==
    \/ (keyboard_handler \/ \E key \in Keys : Press(key)) /\ UNCHANGED shellVars
    \/ shell_run

Spec == Init /\ [][Next]_vars

-----------------------------------------------------------------------------
(***************************************************************************)
(* Properties.                                                             *)
(***************************************************************************)

(***************************************************************************)
(* The ring has no test for being full and the handler may run between     *)
(* any two reads: still, what keyboard_getchar has yet to return are the   *)
(* newest characters typed, in order, and what is lost is a multiple of    *)
(* the ring's size.                                                        *)
(***************************************************************************)
RingHoldsNewest ==
    LET unread == (Len(typed) - reads) % BufferSize
    IN  /\ (buffer_end - buffer_start) % BufferSize = unread
        /\ \A i \in 1..unread :
              ring[(buffer_start + i - 1) % BufferSize] = typed[Len(typed) - unread + i]

Meant == [letter |-> "a", capital |-> "A", enter |-> "enter", backspace |-> "backspace",
          up |-> "up", down |-> "down", numlock_up |-> "up"]

\* The key after an arrow key with NumLock on, unless it is an arrow key too.
Eaten(keys, i) ==
    /\ i > 1 /\ keys[i - 1] = "numlock_up"
    /\ keys[i] \notin {"up", "down", "numlock_up"}

Intended(keys) ==
    LET first[n \in 0..Len(keys)] ==
            IF n = 0 THEN <<>>
            ELSE IF Eaten(keys, n) THEN first[n - 1]
            ELSE Append(first[n - 1], Meant[keys[n]])
    IN  first[Len(keys)]

(***************************************************************************)
(* Every key types what it was meant to, once and in order.  The one       *)
(* exception: with NumLock on an arrow key ends in a shift code behind an  *)
(* E0, which the handler takes without clearing extended_mode, and the     *)
(* next key is taken for an extended one and types nothing.                *)
(***************************************************************************)
KeysTyped == sending = <<>> => typed = Intended(pressed)

(***************************************************************************)
(* The screen shows the line being edited, right up to the cursor, through *)
(* wrapping, scrolling, the arrows' redrawing and commands that clear the  *)
(* screen - unless a backspace was typed with the cursor in column 0.      *)
(***************************************************************************)
ScreenShowsLine ==
    ~astray =>
        LET cursor == screen.row * VgaWidth + screen.column
        IN  \A k \in 1..Len(line) :
                /\ cursor - Len(line) + k - 1 \in DOMAIN screen.cell
                /\ screen.cell[cursor - Len(line) + k - 1] = line[k]

(***************************************************************************)
(* The history is the last HISTORY_SIZE lines entered that were not empty, *)
(* every line fits cmd_buffer with its terminator, and history_idx stays   *)
(* among the lines.                                                        *)
(***************************************************************************)
HistoryKept ==
    /\ history = SubSeq(entered, Max({1, Len(entered) - HistorySize + 1}), Len(entered))
    /\ Len(line) < CmdBufferSize
    /\ history_idx \in 0..Len(history)

=============================================================================

---------------------------- MODULE TerminalScreen ----------------------------
(***************************************************************************)
(* The terminal as the user meets it: every key goes to the ring of        *)
(* Terminal and is echoed on the screen of Console, between the output of  *)
(* programs and of the kernel.  Sources: sys/keyboard_intr.c,              *)
(* sys/terminal.c, sys/kprintf.c, sys/syscalls.c.                          *)
(***************************************************************************)
EXTENDS Terminal, Console

CONSTANTS
  Texts,      \* what programs print
  Messages    \* what the kernel prints

\* Only Enter gives a return (none of the programs and messages has one), and
\* the characters that stand for the status row are its own.
Marks == {"t", "k"}
ASSUME TextsAssumption ==
  /\ Chars \cap (Marks \cup {Return}) = {}
  /\ \A text \in Texts \cup Messages :
       text \in Seq(STRING) /\ \A i \in DOMAIN text : text[i] \notin Marks \cup {Return}

allvars == <<vars, screen>>

Show(con) == array_pointer' = con.ptr /\ video' = con.video /\ moved' = con.moved
ShowWithKey(con) ==
  array_pointer' = con.ptr /\ video' = print_key(con.video) /\ moved' = con.moved

(***************************************************************************)
(* One limit more, which the code does not check: programs and the kernel  *)
(* print while no line is being typed.                                     *)
(***************************************************************************)
Quiet == PartialLine = <<>>

-----------------------------------------------------------------------------
\* A key with a character.
KeyChar(c) ==
  /\ TypeChar(c)
  /\ ShowWithKey(print_to_console(Console, <<c>>))

\* Enter: terminal_handler for the newline and for the return, each echoed.
KeyEnter ==
  /\ Enter
  /\ ShowWithKey(print_to_console(print_to_console(Console, <<NewLine>>), <<Return>>))

\* Control-h.
KeyErase ==
  /\ Erase
  /\ ShowWithKey(erased(print_to_console(Console, <<"h">>)))

ReadLine ==
  /\ \E other \in Chars \cup {NUL} : read_buffer(other)
  /\ moved' = 0
  /\ UNCHANGED <<array_pointer, video>>

ProgramPrints(text) ==
  /\ Quiet
  /\ Show(printf(Console, text))
  /\ UNCHANGED vars

\* kprintf: a message of any length, with newlines anywhere in it.
KernelPrints(text) ==
  /\ Quiet
  /\ Show(print_to_console(Console, text))
  /\ UNCHANGED vars

\* timer_int, once a second.
Second ==
  /\ video' = print_time(video)
  /\ moved' = 0
  /\ UNCHANGED <<vars, array_pointer>>

ScreenInit ==
  /\ Init
  /\ array_pointer = 0 /\ moved = 0
  /\ video = [i \in TextCells \cup StatusCells |-> Blank]

ScreenNext ==
  \/ \E c \in Chars : KeyChar(c)
  \/ KeyEnter \/ KeyErase \/ ReadLine \/ Second
  \/ \E text \in Texts : ProgramPrints(text)
  \/ \E text \in Messages : KernelPrints(text)

ScreenSpec == ScreenInit /\ [][ScreenNext]_allvars

-----------------------------------------------------------------------------
(* Properties. *)

\* What the user sees before the cursor is the line that Enter will deliver,
\* across scrolling, the end of a row, control-h and the end of the ring: the
\* characters of the ring not yet ended by a newline.
EchoShowsLine ==
  LET n == Len(PartialLine)
      begin == array_pointer - n
  IN  begin >= 0 /\ \A i \in 1 .. n : video[begin + i - 1] = PartialLine[i]

\* A message that ends in the row where it begins, with a newline or without,
\* and one that does not, which kprintf prints as well.
Fits(text) ==
  /\ (scroll(Console).ptr % Cols) + Len(text) <= Cols
  /\ \A i \in 1 .. Len(text) - 1 : text[i] # NewLine
RunsOver == \E text \in Messages : KernelPrints(text) /\ ~Fits(text)

\* The status row and the text run into each other in one way only.  The
\* scrolling loop reads one cell of the status row, print_to_console scrolls
\* only before its first character and control-h goes back twice; yet the row
\* below is written, and the cursor sent behind the end of the text, by no keys
\* and by no output of programs, however long, but by a message of the kernel
\* that does not end in its row.  The next output brings the cursor back, and
\* nothing of the status row is ever moved into the text.
StatusApart ==
  [][/\ \A i \in TextCells : video'[i] \notin Marks
     /\ \/ /\ \A i \in StatusCells : video'[i] \in {video[i]} \cup Marks
           /\ array_pointer' \in 0 .. Rows * Cols \/ UNCHANGED array_pointer
        \/ RunsOver]_allvars

\* Text above the cursor is never changed, only moved up, all of it by the same
\* number of rows, and the control-h of a user takes back no more than its line.
\* This is about the rows of text: what a message of the kernel has written into
\* the status row is not text, and the next scrolling leaves it where it is.
TextMovesUpWhole ==
  [][\A i \in TextCells :
       i + moved' * Cols < array_pointer - Len(PartialLine) /\ i + moved' * Cols \in TextCells =>
         video'[i] = video[i + moved' * Cols]]_allvars

\* The digits that num and pointer write mean the number: in base 10 for every
\* int but the least, in base 16 for those not negative, and for every pointer.
DigitOf(ch) == IF ch >= LetterA THEN ch - LetterA + 10 ELSE ch - Digit0
Value(string, base) == FoldLeft(LAMBDA v, ch : base * v + DigitOf(ch), 0, string)
Unpadded(string) == IF Last(string) = 0 THEN Front(string) ELSE string
NumbersReadBack ==
  (term_buff = [i \in Cells |-> NUL] /\ array_pointer = 0) =>
    /\ \A n \in 0 .. 2 ^ (Width - 1) - 1, base \in {10, 16} : Value(Unpadded(num(n, base)), base) = n
    /\ \A n \in 1 .. 2 ^ (Width - 1) - 1 :
         num(-n, 10)[1] = Minus /\ Value(Tail(num(-n, 10)), 10) = n
    /\ \A n \in 0 .. 2 ^ Width - 1 :
         SubSeq(pointer(n), 1, 2) = <<Digit0, LetterX>> /\ Value(SubSeq(pointer(n), 3, Len(pointer(n))), 16) = n

=============================================================================

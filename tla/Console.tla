------------------------------- MODULE Console -------------------------------
(***************************************************************************)
(* The console: the cells of the text screen and the place of the next     *)
(* character.  Sources: sys/kprintf.c, write_to_console in sys/syscalls.c, *)
(* libc/printf.c.                                                          *)
(*                                                                         *)
(* A cell is a character; array_pointer counts cells (two bytes each in    *)
(* the code).  Row number Rows lies below the text and holds the time and  *)
(* the last key.  Everything that prints runs with IF=0, so each call is   *)
(* one step.                                                               *)
(***************************************************************************)
EXTENDS Integers, Sequences, SequencesExt

CONSTANTS
  Rows,   \* rows of text: 24
  Cols,   \* characters in a row: 80
  Width   \* bits of an int: 32

ASSUME RowsAssumption == Rows \in Nat \ {0}
ASSUME ColsAssumption == Cols \in Nat /\ Cols >= 2
ASSUME WidthAssumption == Width \in Nat \ {0}

VARIABLES
  array_pointer,
  video,
  moved       \* history: rows that the last step moved the text up

screen == <<array_pointer, video, moved>>

NewLine == "newline"
Return == "return"
Blank == " "
TextCells == 0 .. Rows * Cols - 1
StatusCells == Rows * Cols .. (Rows + 1) * Cols - 1

Console == [ptr |-> array_pointer, video |-> video, moved |-> 0]

\* A store to video memory, which goes on behind the status row.
Poke(v, i, ch) == [j \in DOMAIN v |-> IF j = i THEN ch ELSE v[j]]

-----------------------------------------------------------------------------
(* print_to_console. *)

\* Mutant: the last column stays where it is.
copied_up_short(v) ==
  [i \in DOMAIN v |-> IF i <= (Rows - 1) * Cols /\ i % Cols # Cols - 1 THEN v[i + Cols] ELSE v[i]]

\* The loop over the screen; its last cell is the first of the status row.
copied_up(v) == [i \in DOMAIN v |-> IF i <= (Rows - 1) * Cols THEN v[i + Cols] ELSE v[i]]

\* Mutant: the last row is left as it is.
last_row_cleared_not(v) == v

last_row_cleared(v) == [i \in DOMAIN v |-> IF i \in (Rows - 1) * Cols .. Rows * Cols - 1 THEN Blank ELSE v[i]]

full(con) == con.ptr >= Rows * Cols

scroll(con) ==
  IF full(con)
  THEN [ptr |-> (Rows - 1) * Cols, video |-> last_row_cleared(copied_up(con.video)),
        moved |-> con.moved + 1]
  ELSE con

\* One turn of the loop over the buffer: a newline or a return makes the loop
\* pass over the character that follows it.
put(s, ch) ==
  IF s.skip THEN [s EXCEPT !.skip = FALSE]
  ELSE LET row == s.con.ptr \div Cols IN
       CASE ch = NewLine -> [con |-> [s.con EXCEPT !.ptr = Cols * (row + 1)], skip |-> TRUE]
         [] ch = Return  -> [con |-> [s.con EXCEPT !.ptr = Cols * row], skip |-> TRUE]
         [] OTHER -> [con  |-> [s.con EXCEPT !.ptr = @ + 1, !.video = Poke(@, s.con.ptr, ch)],
                      skip |-> FALSE]

\* The screen scrolls only before the first character of the buffer.
print_to_console(con, text) ==
  FoldLeft(put, [con |-> scroll(con), skip |-> FALSE], text).con

\* write_to_console: a kprintf("%c") for every character.
write_to_console(con, text) ==
  FoldLeft(LAMBDA c, ch : print_to_console(c, <<ch>>), con, text)

\* printf of libc: the text and the zero byte behind it, through write.
ZeroByte == "nul"
printf(con, text) == write_to_console(con, Append(text, ZeroByte))

-----------------------------------------------------------------------------
(* The status row. *)

\* print_time writes the time and print_key the key, with "^" before it when
\* control was held: one cell each stands for what they write.
print_time(v) == Poke(v, Rows * Cols, "t")
print_key(v) == Poke(v, Rows * Cols + 1, "k")

\* Mutant: only the h is taken back.
erased_one(con) == [con EXCEPT !.ptr = @ - 1, !.video = Poke(@, con.ptr - 1, Blank)]

\* print_key, control-h: back over the h and over the character before it.
erased(con) ==
  IF con.ptr > 0
  THEN [con EXCEPT !.ptr = @ - 2, !.video = Poke(Poke(@, con.ptr - 1, Blank), con.ptr - 2, Blank)]
  ELSE con

-----------------------------------------------------------------------------
(* The conversions of kprintf and printf.  Characters are numbers here.     *)

Digit0 == 48
Minus == 45
LetterA == 97
LetterX == 120

Wrap(n) == ((n + 2 ^ (Width - 1)) % 2 ^ Width) - 2 ^ (Width - 1)

\* The quotient and the remainder of C: towards zero.
Quot(n, b) == IF n >= 0 THEN n \div b ELSE -((-n) \div b)
Rem(n, b) == n - b * Quot(n, b)

convert_num_to_char(n) == IF n <= 9 THEN Digit0 + n ELSE LetterA + (n - 10)

\* The loop: digits of number, the last one first.
digits(number, base) ==
  LET step(s) == [rest |-> Quot(s.rest, base), out |-> Append(s.out, convert_num_to_char(Rem(s.rest, base)))]
      s[i \in 0 .. Width] ==
        IF i = 0 THEN [rest |-> number, out |-> <<>>]
        ELSE IF s[i - 1].rest = 0 THEN s[i - 1] ELSE step(s[i - 1])
  IN  s[Width].out

\* Mutant: the two ends are not exchanged.
reverse_inner(string) ==
  [i \in DOMAIN string |-> IF i \in {1, Len(string)} THEN string[i] ELSE string[Len(string) + 1 - i]]

reverse(string) == [i \in DOMAIN string |-> string[Len(string) + 1 - i]]

\* num: what is written to the buffer, as long as the length returned.  Zero
\* takes two places; a negative number in base 16 loses 0xffffffff and gains 1.
num(number, base) ==
  LET n == IF number >= 0 THEN number
           ELSE IF base = 16 THEN Wrap(Wrap(number - (2 ^ Width - 1)) + 1) ELSE Wrap(-number)
  IN  IF number = 0 THEN <<Digit0, 0>>
      ELSE reverse(digits(n, base) \o (IF number < 0 /\ base # 16 THEN <<Minus>> ELSE <<>>))

pointer(number) ==
  IF number = 0 THEN <<Digit0, LetterX, Digit0>>
  ELSE reverse(digits(number, 16) \o <<LetterX, Digit0>>)

=============================================================================

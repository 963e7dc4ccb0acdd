------------------------------ MODULE Terminal -------------------------------
(***************************************************************************)
(* The terminal's ring of characters: keyboard_intr and terminal_handler   *)
(* write it, read_buffer takes a line out of it.  Sources: sys/terminal.c, *)
(* sys/keyboard_intr.c, print_key in sys/kprintf.c.  Waking and waiting    *)
(* readers are in Tasks.                                                   *)
(*                                                                         *)
(* The handlers run with IF=0, so each is one step.  A cell outside the    *)
(* array is memory of something else: reading it may give any character,   *)
(* writing it changes nothing here.                                        *)
(***************************************************************************)
EXTENDS Integers, Sequences, SequencesExt, FiniteSetsExt

CONSTANTS
  BUFF_SIZE,  \* 2048 in include/sys/terminal.h
  ReadSize,   \* the size argument of read(); libc's gets passes 100
  Chars,      \* the characters that keys give
  Limits      \* the limits (below) that the user keeps to

ASSUME BUFF_SIZEAssumption == BUFF_SIZE \in Nat /\ BUFF_SIZE >= 2
ASSUME ReadSizeAssumption == ReadSize \in Nat /\ ReadSize >= 1

NL == "newline"
NUL == "nul"

\* Only Enter gives a newline.
ASSUME CharsAssumption == NL \notin Chars

Cells == 0..(BUFF_SIZE - 1)

VARIABLES
  term_buff, r_buff_ptr, w_buff_ptr, terminal_line_count,
  buffer      \* the characters that the last read copied to its caller

vars == <<term_buff, r_buff_ptr, w_buff_ptr, terminal_line_count, buffer>>

\* The cells written and not yet read, in order.
Unread == LET n == (w_buff_ptr - r_buff_ptr) % BUFF_SIZE
          IN  [i \in 1..n |-> term_buff[(r_buff_ptr + i - 1) % BUFF_SIZE]]

\* Where the newlines are among the unread characters, and what follows the last.
LineEnds == {i \in 1..Len(Unread) : Unread[i] = NL}
PartialLine == SubSeq(Unread, Max({0} \cup LineEnds) + 1, Len(Unread))

-----------------------------------------------------------------------------
(***************************************************************************)
(* What a user should keep to, and the code does not check:                *)
(*   length    a line fits the buffer of the reader                        *)
(*   room      the characters not read yet fit the ring                    *)
(*   lastcell  no newline falls into the last cell of the ring             *)
(*   erase     only characters of the present line are erased, and not     *)
(*             across the end of the ring                                  *)
(***************************************************************************)
AllLimits == {"length", "room", "lastcell", "erase"}

ASSUME LimitsAssumption == Limits \subseteq AllLimits

HasRoom == "room" \in Limits => Len(Unread) < BUFF_SIZE - 1
MayType == HasRoom /\ ("length" \in Limits => Len(PartialLine) < ReadSize - 1)
MayEnter == HasRoom /\ ("lastcell" \in Limits => w_buff_ptr # BUFF_SIZE - 1)
MayErase == HasRoom /\ ("erase" \in Limits => /\ PartialLine # <<>>
                                             /\ w_buff_ptr \in 1..(BUFF_SIZE - 1))

\* Bound: how far the pointers of a user without limits are followed.
InReach == w_buff_ptr >= -1 /\ terminal_line_count < BUFF_SIZE

\* terminal_handler, before it stores a character.
wrapped(w) == IF w > BUFF_SIZE - 2 THEN w % BUFF_SIZE ELSE w

\* term_buff[i] = c, where i may lie outside.
Stored(buff, i, c) == [j \in Cells |-> IF j = i THEN c ELSE buff[j]]

\* A key with a character: terminal_handler(c).
TypeChar(c) ==
  /\ MayType /\ InReach
  /\ term_buff' = Stored(term_buff, wrapped(w_buff_ptr), c)
  /\ w_buff_ptr' = wrapped(w_buff_ptr) + 1
  /\ UNCHANGED <<r_buff_ptr, terminal_line_count, buffer>>

\* Enter: terminal_handler('\n'), then terminal_handler('\r'), which stores
\* nothing but wraps the write position.
Enter ==
  /\ MayEnter /\ InReach
  /\ terminal_line_count' = terminal_line_count + 1
  /\ term_buff' = Stored(term_buff, wrapped(w_buff_ptr), NL)
  /\ w_buff_ptr' = wrapped(wrapped(w_buff_ptr) + 1)
  /\ UNCHANGED <<r_buff_ptr, buffer>>

dec_term(buff, w) ==
  [buff |-> Stored(Stored(buff, w, NUL), w - 1, NUL), w |-> w - 2]

\* Control-h: the h is stored as any character, then print_key calls dec_term,
\* which takes back the h (so its cell is cleared again) and the character
\* before it.
Erase ==
  /\ MayErase /\ InReach
  /\ LET d == dec_term(term_buff, wrapped(w_buff_ptr) + 1)
     IN  term_buff' = d.buff /\ w_buff_ptr' = d.w
  /\ UNCHANGED <<r_buff_ptr, terminal_line_count, buffer>>

\* Cells that read_buffer passes before it stops: up to the first newline, at
\* most ReadSize - 1.  after[i] is the read position after i characters.
CellAt(r, other) == IF r \in Cells THEN term_buff[r] ELSE other
After(i) == IF i = 0 THEN r_buff_ptr ELSE (r_buff_ptr + i) % BUFF_SIZE
LineLength(other) ==
  Min({i \in 0..(ReadSize - 1) : i = ReadSize - 1 \/ CellAt(After(i), other) = NL})

\* Mutant: the last character is lost to the terminator.
copied_short(n, other) == [i \in 1..(n - 1) |-> CellAt(After(i - 1), other)]

copied(n, other) == [i \in 1..n |-> CellAt(After(i - 1), other)]

\* Mutant: the newline itself stays in the ring.
past_newline_not(r) == r

\* r_buff_ptr++, without the remainder.
past_newline(r) == r + 1

\* Mutant: the counter of lines is not looked at.
read_buffer_always(other) ==
  LET n == LineLength(other) IN
  /\ buffer' = copied(n, other)
  /\ r_buff_ptr' = past_newline(After(n))
  /\ terminal_line_count' = terminal_line_count - 1
  /\ UNCHANGED <<term_buff, w_buff_ptr>>

read_buffer(other) ==
  /\ terminal_line_count # 0
  /\ LET n == LineLength(other) IN
     /\ buffer' = copied(n, other)
     /\ r_buff_ptr' = past_newline(After(n))
  /\ terminal_line_count' = terminal_line_count - 1
  /\ UNCHANGED <<term_buff, w_buff_ptr>>

Init ==
  /\ term_buff = [i \in Cells |-> NUL]
  /\ r_buff_ptr = 0 /\ w_buff_ptr = 0 /\ terminal_line_count = 0
  /\ buffer = <<>>

Next ==
  \/ \E c \in Chars : TypeChar(c)
  \/ Enter \/ Erase
  \/ \E other \in Chars \cup {NUL} : read_buffer(other)

Spec == Init /\ [][Next]_vars

-----------------------------------------------------------------------------
(* Properties. *)

\* Type invariant: the read position and the counter of lines are never negative.
TypeOK ==
  /\ term_buff \in [Cells -> Chars \cup {NL, NUL}]
  /\ r_buff_ptr \in Nat /\ w_buff_ptr \in Int /\ terminal_line_count \in Nat
  /\ buffer \in Seq(Chars \cup {NL, NUL})

\* Within the limits, terminal_line_count is the number of newlines
\* in the ring between the two pointers: a reader that sees a count finds a
\* line, and no line is left behind.
CountMatchesRing == terminal_line_count = Cardinality(LineEnds)

(***************************************************************************)
(* Within the limits the ring is a queue of lines: readers get them whole, *)
(* in order, once, across any number of turns of the ring.                 *)
(***************************************************************************)
Lines == [k \in 1..Cardinality(LineEnds) |->
            LET end == CHOOSE e \in LineEnds : Cardinality({a \in LineEnds : a < e}) = k - 1
                before == {0} \cup {a \in LineEnds : a < end}
            IN  SubSeq(Unread, Max(before) + 1, end - 1)]
Queue == INSTANCE LineQueue WITH queue <- Lines, line <- PartialLine, got <- buffer
ImplementsLineQueue == Queue!QueueSpec

=============================================================================

------------------------------ MODULE LineQueue ------------------------------
(***************************************************************************)
(* What the terminal promises a reader: lines arrive whole, in the order   *)
(* they were typed, each once.                                             *)
(***************************************************************************)
EXTENDS Sequences, SequencesExt

CONSTANT Chars

VARIABLES
  queue,    \* lines typed and not yet read
  line,     \* what has been typed of the next one
  got       \* what the last read returned

QueueInit == queue = <<>> /\ line = <<>> /\ got = <<>>

TypeChar(c) == line' = Append(line, c) /\ UNCHANGED <<queue, got>>
EraseChar == line # <<>> /\ line' = Front(line) /\ UNCHANGED <<queue, got>>
EndLine == queue' = Append(queue, line) /\ line' = <<>> /\ UNCHANGED got
ReadLine == queue # <<>> /\ got' = Head(queue) /\ queue' = Tail(queue) /\ UNCHANGED line

QueueNext == (\E c \in Chars : TypeChar(c)) \/ EraseChar \/ EndLine \/ ReadLine

QueueSpec == QueueInit /\ [][QueueNext]_<<queue, line, got>>

=============================================================================

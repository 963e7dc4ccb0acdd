----------------------------- MODULE ShellProofs ------------------------------
(***************************************************************************)
(* Proofs about Shell, for every number of processes, every script and     *)
(* every line that a user may type.                                        *)
(***************************************************************************)
EXTENDS Shell, SequenceTheorems, ProofFacts, TLAPS

-----------------------------------------------------------------------------
(* Children and waits. *)

\* The fields that decide who is whose child and who is woken.
FamilyTypes ==
  /\ kind \in [Pids -> {"none", "shell", "program", "zombie"}]
  /\ pc \in [Pids -> {"read", "run", "child", "wait"}]
  /\ parent \in [Pids -> Pids \cup {0}]
  /\ parent_task \in [Pids -> Pids \cup {0}]
  /\ scan \in [Pids -> {"first", "asleep", "second"}]
  /\ jobs \in [Pids -> Nat]

\* A process has the parent that forked it or the init task for its parent.
Links ==
  \A c \in Pids : IF kind[c] = "none" THEN parent_task[c] = 0
                                      ELSE parent[c] \in {0, parent_task[c]}

\* A shell's own family: as many children as background commands, and one more
\* while it waits; whoever was forked by it is its child; and when it has been
\* woken in wait, there is a zombie to collect.
OwnFamily(p) ==
  /\ Cardinality(Children(p)) = jobs[p] + (IF pc[p] = "wait" THEN 1 ELSE 0)
  /\ \A c \in Pids : parent_task[c] = p => parent[c] = p
  /\ pc[p] = "wait" /\ scan[p] = "second" => Collectable(p) # {}

(***************************************************************************)
(* The inductive invariant.  The two pointers that fork sets are needed    *)
(* side by side: sys_exit wakes by parent_task, and wait collects by       *)
(* parent.  On a PCB that no process of an earlier owner points to, they   *)
(* agree, so that a shell is woken only for a child of its own.            *)
(***************************************************************************)
FamilyInv ==
  /\ FamilyTypes
  /\ Links
  /\ \A p \in Pids \ haunted : kind[p] = "shell" => OwnFamily(p)

LEMMA PidFacts == 0 \notin Pids /\ Pids \in SUBSET Nat /\ Min(Pids) \in Pids
BY PidsAssumption, MinOfSet

LEMMA ChildrenFinite == \A p : IsFiniteSet(Children(p)) /\ Cardinality(Children(p)) \in Nat
<1>1. \A p : Children(p) \subseteq Pids
  BY DEF Children
<1> QED BY <1>1, PidsAssumption, FS_Subset, FS_CardinalityType

\* A shell that takes no part in a step keeps its family.
LEMMA SameFamily ==
  ASSUME NEW p \in Pids, OwnFamily(p),
         Children(p)' = Children(p), jobs'[p] = jobs[p],
         pc'[p] = "wait" <=> pc[p] = "wait",
         \A c \in Pids : parent_task'[c] = p => parent'[c] = p,
         pc'[p] = "wait" /\ scan'[p] = "second" => Collectable(p)' # {}
  PROVE  OwnFamily(p)'
<1>1. Cardinality(Children(p)') = jobs'[p] + (IF pc'[p] = "wait" THEN 1 ELSE 0)
  BY DEF OwnFamily
<1> QED BY <1>1 DEF OwnFamily

LEMMA FamilyInit == Init => FamilyInv
<1> SUFFICES ASSUME Init PROVE FamilyInv
  OBVIOUS
<1>1. FamilyTypes
  BY DEF Init, FamilyTypes
<1>2. \A p \in Pids : Children(p) = {} /\ jobs[p] = 0 /\ pc[p] = "read"
                      /\ \A c \in Pids : parent_task[c] # p
  BY PidFacts DEF Init, Children
<1>3. Links
  BY DEF Init, Links
<1> QED BY <1>1, <1>2, <1>3, FS_EmptySet DEF FamilyInv, OwnFamily

\* exit leaves the others' children alone and wakes its parent for itself.
LEMMA ExitFamily ==
  ASSUME FamilyInv, NEW p \in Pids, kind[p] # "none", exit(p), UNCHANGED <<pc, jobs>>
  PROVE  FamilyInv'
<1>1. /\ kind' = [kind EXCEPT ![p] = "zombie"]
      /\ scan' = woken(p)
      /\ UNCHANGED <<parent_task, haunted>>
  BY DEF exit
<1>2. /\ \A c \in Pids : kind'[c] = IF c = p THEN "zombie" ELSE kind[c]
      /\ kind' \in [Pids -> {"none", "shell", "program", "zombie"}]
  BY <1>1 DEF FamilyInv, FamilyTypes
<1>3. PICK blocked : parent' = [c \in Pids |->
          IF parent[c] = p /\ (NotReady(c) \/ c \in blocked) THEN 0 ELSE parent[c]]
  BY DEF exit
<1>4. \A c \in Pids : parent'[c] = parent[c] \/ (parent[c] = p /\ parent'[c] = 0)
  BY <1>3
<1>5. parent' \in [Pids -> Pids \cup {0}]
  BY <1>3 DEF FamilyInv, FamilyTypes
<1>6. /\ scan' \in [Pids -> {"first", "asleep", "second"}]
      /\ \A q \in Pids : scan'[q] = scan[q] \/ q = parent_task[p]
  BY <1>1 DEF woken, FamilyInv, FamilyTypes
<1>7. FamilyTypes'
  BY <1>1, <1>2, <1>5, <1>6 DEF FamilyInv, FamilyTypes
<1>8. Links'
  BY <1>1, <1>2, <1>4 DEF FamilyInv, Links
<1>9. ASSUME NEW q \in Pids \ haunted', kind'[q] = "shell" PROVE OwnFamily(q)'
  <2>1. q # p /\ q # 0 /\ q \in Pids \ haunted /\ kind[q] = "shell"
    BY <1>1, <1>2, <1>9, PidFacts
  <2>2. OwnFamily(q)
    BY <2>1 DEF FamilyInv
  <2>3. Children(q)' = Children(q)
    BY <1>2, <1>4, <2>1 DEF Children
  <2>4. \A c \in Pids : parent_task'[c] = q => parent'[c] = q
    BY <1>1, <1>4, <2>1, <2>2 DEF OwnFamily
  <2>5. ASSUME pc'[q] = "wait", scan'[q] = "second" PROVE Collectable(q)' # {}
    <3>1. CASE scan[q] = "second"
      <4>1. PICK c : c \in Children(q) /\ kind[c] = "zombie" /\ c \in Pids
        BY <2>2, <2>5, <3>1 DEF OwnFamily, Collectable, Children
      <4> QED BY <1>2, <2>3, <4>1 DEF Collectable
    <3>2. CASE scan[q] # "second"
      <4>1. q = parent_task[p]
        BY <1>6, <2>1, <2>5, <3>2
      <4>2. parent[p] = q
        BY <2>2, <4>1 DEF OwnFamily
      <4>3. p \in Children(q)
        BY <4>2 DEF Children
      <4> QED BY <1>2, <2>3, <4>3 DEF Collectable
    <3> QED BY <3>1, <3>2
  <2> QED BY <2>1, <2>2, <2>3, <2>4, <2>5, SameFamily
<1> QED BY <1>7, <1>8, <1>9 DEF FamilyInv

\* A zombie is collected: whoever had it for a child has one less.
LEMMA CollectFamily ==
  ASSUME FamilyInv, NEW c \in Pids, kind[c] = "zombie", Collect(c)
  PROVE  /\ kind' \in [Pids -> {"none", "shell", "program", "zombie"}]
         /\ parent' \in [Pids -> Pids \cup {0}] /\ jobs' \in [Pids -> Nat]
         /\ parent_task' \in [Pids -> Pids \cup {0}] /\ haunted' = haunted
         /\ \A q \in Pids : Children(q)' = Children(q) \ {c}
         /\ \A q \in Pids : q # c => kind'[q] = kind[q] /\ jobs'[q] = jobs[q]
         /\ \A q \in Pids : q # c => parent'[q] = parent[q] /\ parent_task'[q] = parent_task[q]
         /\ kind'[c] = "none" /\ parent_task'[c] = 0
         /\ Links'
<1>1. /\ kind' = [kind EXCEPT ![c] = "none"] /\ parent' = [parent EXCEPT ![c] = 0]
      /\ jobs' = [jobs EXCEPT ![c] = 0] /\ parent_task' = [parent_task EXCEPT ![c] = 0]
      /\ haunted' = haunted
  BY DEF Collect
<1>2. /\ kind' \in [Pids -> {"none", "shell", "program", "zombie"}]
      /\ parent' \in [Pids -> Pids \cup {0}] /\ jobs' \in [Pids -> Nat]
      /\ parent_task' \in [Pids -> Pids \cup {0}]
      /\ \A q \in Pids : q # c => kind'[q] = kind[q] /\ jobs'[q] = jobs[q]
      /\ \A q \in Pids : q # c => parent'[q] = parent[q] /\ parent_task'[q] = parent_task[q]
      /\ kind'[c] = "none" /\ parent_task'[c] = 0
  BY <1>1 DEF FamilyInv, FamilyTypes
<1>3. \A q \in Pids : Children(q)' = Children(q) \ {c}
  BY <1>2 DEF Children
<1>4. Links'
  BY <1>2 DEF FamilyInv, Links
<1> QED BY <1>1, <1>2, <1>3, <1>4

\* The shells whose child was not the one that was collected.
LEMMA CollectOthers ==
  ASSUME FamilyInv, NEW c \in Pids, kind[c] = "zombie", Collect(c),
         NEW q \in Pids \ haunted, q # c, kind[q] = "shell", parent[c] # q,
         pc'[q] = pc[q], scan'[q] = scan[q]
  PROVE  OwnFamily(q)'
<1>1. OwnFamily(q)
  BY DEF FamilyInv
<1>2. /\ jobs'[q] = jobs[q]
      /\ Children(q)' = Children(q) \ {c}
      /\ \A d \in Pids : d # c => /\ parent'[d] = parent[d] /\ parent_task'[d] = parent_task[d]
                                  /\ kind'[d] = kind[d]
      /\ parent_task'[c] = 0
  BY CollectFamily
<1>3. Children(q)' = Children(q)
  BY <1>2 DEF Children
<1>4. \A d \in Pids : parent_task'[d] = q => parent'[d] = q
  BY <1>1, <1>2, PidFacts DEF OwnFamily
<1>5. ASSUME pc'[q] = "wait", scan'[q] = "second" PROVE Collectable(q)' # {}
  <2>1. PICK d : d \in Children(q) /\ kind[d] = "zombie" /\ d \in Pids
    BY <1>1, <1>5 DEF OwnFamily, Collectable, Children
  <2>2. d # c
    BY <2>1 DEF Children
  <2> QED BY <1>2, <1>3, <2>1, <2>2 DEF Collectable
<1> QED BY <1>1, <1>2, <1>3, <1>4, <1>5, SameFamily

\* A wait that collects a child.
LEMMA WaitCollects ==
  ASSUME FamilyInv, NEW p \in Pids, kind[p] = "shell", pc[p] = "wait",
         NEW c \in Collectable(p), Collect(c),
         scan' = [scan EXCEPT ![p] = "first", ![c] = "first"],
         pc' = [pc EXCEPT ![p] = "read", ![c] = "read"]
  PROVE  FamilyInv'
<1>1. c \in Pids /\ kind[c] = "zombie" /\ c \in Children(p) /\ c # p /\ parent[c] = p
  BY DEF Collectable, Children
<1>2. /\ kind' \in [Pids -> {"none", "shell", "program", "zombie"}]
      /\ parent' \in [Pids -> Pids \cup {0}] /\ jobs' \in [Pids -> Nat]
      /\ parent_task' \in [Pids -> Pids \cup {0}] /\ haunted' = haunted
      /\ \A q \in Pids : Children(q)' = Children(q) \ {c}
      /\ \A q \in Pids : q # c => kind'[q] = kind[q] /\ jobs'[q] = jobs[q]
      /\ \A q \in Pids : q # c => parent'[q] = parent[q] /\ parent_task'[q] = parent_task[q]
      /\ kind'[c] = "none" /\ parent_task'[c] = 0
      /\ Links'
  BY <1>1, CollectFamily
<1>3. /\ pc' \in [Pids -> {"read", "run", "child", "wait"}]
      /\ scan' \in [Pids -> {"first", "asleep", "second"}]
      /\ pc'[p] = "read"
      /\ \A q \in Pids : q # p /\ q # c => pc'[q] = pc[q] /\ scan'[q] = scan[q]
  BY <1>1 DEF FamilyInv, FamilyTypes
<1>4. ASSUME p \notin haunted PROVE OwnFamily(p)'
  <2>1. OwnFamily(p) /\ jobs[p] \in Nat
    BY <1>4 DEF FamilyInv, FamilyTypes
  <2>2. Cardinality(Children(p)) = jobs[p] + 1
    BY <2>1 DEF OwnFamily
  <2>3. Cardinality(Children(p) \ {c}) = Cardinality(Children(p)) - 1
    BY <1>1, ChildrenFinite, Counting
  <2>4. Children(p)' = Children(p) \ {c} /\ jobs'[p] = jobs[p]
    BY <1>1, <1>2
  <2>5. Cardinality(Children(p)') = Cardinality(Children(p)) - 1
    BY <2>3, <2>4
  <2>6. Cardinality(Children(p)') = jobs'[p]
    BY <2>1, <2>2, <2>4, <2>5
  <2>7. \A d \in Pids : parent_task'[d] = p => parent'[d] = p
    BY <1>2, <2>1, PidFacts DEF OwnFamily
  <2>8. jobs'[p] \in Nat
    BY <2>1, <2>4
  <2> QED BY <1>3, <2>6, <2>7, <2>8 DEF OwnFamily
<1>5. ASSUME NEW q \in Pids \ haunted', kind'[q] = "shell" PROVE OwnFamily(q)'
  <2>1. q # c /\ kind[q] = "shell" /\ q \in Pids \ haunted
    BY <1>2, <1>5
  <2>2. CASE q = p
    BY <1>4, <2>1, <2>2
  <2>3. CASE q # p
    BY <1>1, <1>3, <2>1, <2>3, CollectOthers
  <2> QED BY <2>2, <2>3
<1> QED BY <1>2, <1>3, <1>5 DEF FamilyInv, FamilyTypes

LEMMA WaitFamily ==
  ASSUME FamilyInv, NEW p \in Pids, waitpid(p)
  PROVE  FamilyInv'
<1>0. kind[p] = "shell" /\ pc[p] = "wait"
  BY DEF waitpid
<1>1. ASSUME NEW c \in Collectable(p), Collect(c),
             scan' = [scan EXCEPT ![p] = "first", ![c] = "first"],
             pc' = [pc EXCEPT ![p] = "read", ![c] = "read"]
      PROVE  FamilyInv'
  BY <1>0, <1>1, WaitCollects
<1>2. ASSUME scan' = [scan EXCEPT ![p] = "asleep"],
             UNCHANGED <<kind, pc, parent, parent_task, jobs, haunted>>
      PROVE  FamilyInv'
  <2>1. scan' \in [Pids -> {"first", "asleep", "second"}] /\ scan'[p] = "asleep"
        /\ \A q \in Pids : q # p => scan'[q] = scan[q]
    BY <1>2 DEF FamilyInv, FamilyTypes
  <2>2. \A q \in Pids : Children(q)' = Children(q) /\ Collectable(q)' = Collectable(q)
    BY <1>2 DEF Children, Collectable
  <2> QED BY <1>2, <2>1, <2>2 DEF FamilyInv, FamilyTypes, Links, OwnFamily
<1>3. ASSUME scan[p] = "second", Collectable(p) = {},
             scan' = [scan EXCEPT ![p] = "first"], pc' = [pc EXCEPT ![p] = "read"],
             UNCHANGED <<kind, parent, parent_task, jobs, haunted>>
      PROVE  FamilyInv'
  <2>1. p \in haunted
    BY <1>0, <1>3 DEF FamilyInv, OwnFamily
  <2>2. /\ scan' \in [Pids -> {"first", "asleep", "second"}]
        /\ pc' \in [Pids -> {"read", "run", "child", "wait"}]
        /\ \A q \in Pids : q # p => scan'[q] = scan[q] /\ pc'[q] = pc[q]
    BY <1>3 DEF FamilyInv, FamilyTypes
  <2>3. \A q \in Pids : Children(q)' = Children(q) /\ Collectable(q)' = Collectable(q)
    BY <1>3 DEF Children, Collectable
  <2> QED BY <1>3, <2>1, <2>2, <2>3 DEF FamilyInv, FamilyTypes, Links, OwnFamily
<1> QED BY <1>1, <1>2, <1>3 DEF waitpid, own

LEMMA InitCollectsFamily ==
  ASSUME FamilyInv, NEW c \in Pids, InitCollects(c)
  PROVE  FamilyInv'
<1>1. /\ kind[c] = "zombie" /\ parent[c] = 0 /\ Collect(c)
      /\ pc' = [pc EXCEPT ![c] = "read"] /\ scan' = [scan EXCEPT ![c] = "first"]
  BY DEF InitCollects
<1>2. /\ kind' \in [Pids -> {"none", "shell", "program", "zombie"}]
      /\ parent' \in [Pids -> Pids \cup {0}] /\ jobs' \in [Pids -> Nat]
      /\ parent_task' \in [Pids -> Pids \cup {0}] /\ haunted' = haunted
      /\ \A q \in Pids : q # c => kind'[q] = kind[q]
      /\ kind'[c] = "none"
      /\ Links'
  BY <1>1, CollectFamily
<1>3. /\ pc' \in [Pids -> {"read", "run", "child", "wait"}]
      /\ scan' \in [Pids -> {"first", "asleep", "second"}]
      /\ \A q \in Pids : q # c => pc'[q] = pc[q] /\ scan'[q] = scan[q]
  BY <1>1 DEF FamilyInv, FamilyTypes
<1>4. ASSUME NEW q \in Pids \ haunted', kind'[q] = "shell" PROVE OwnFamily(q)'
  BY <1>1, <1>2, <1>3, <1>4, PidFacts, CollectOthers
<1> QED BY <1>2, <1>3, <1>4 DEF FamilyInv, FamilyTypes

\* fork: one child more, and either a job or a wait more.
LEMMA ForkFamily ==
  ASSUME FamilyInv, NEW p \in Pids, NEW c \in Pids, run_command(p, c)
  PROVE  FamilyInv'
<1> DEFINE bg == Background(words[p])
<1>1. kind[p] = "shell" /\ pc[p] = "run" /\ kind[c] = "none" /\ c # p
  <2>1. c \in Free
    BY MinOfSet, PidFacts DEF run_command, Free
  <2> QED BY <2>1 DEF run_command, Free
<1>2. /\ kind' = [kind EXCEPT ![c] = "shell"] /\ parent' = [parent EXCEPT ![c] = p]
      /\ parent_task' = [parent_task EXCEPT ![c] = p]
      /\ scan' = [scan EXCEPT ![p] = "first", ![c] = "first"]
      /\ haunted' = IF \E o \in Pids : parent_task[o] = c THEN haunted \cup {c} ELSE haunted \ {c}
      /\ pc' = [pc EXCEPT ![c] = "child", ![p] = IF bg THEN "read" ELSE "wait"]
      /\ jobs' = [jobs EXCEPT ![p] = IF bg THEN @ + 1 ELSE @, ![c] = 0]
  BY DEF run_command, after_fork
<1> HIDE DEF bg
<1>3. /\ FamilyTypes'
      /\ kind'[c] = "shell" /\ pc'[c] = "child" /\ jobs'[c] = 0
      /\ parent'[c] = p /\ parent_task'[c] = p
      /\ scan'[p] = "first" /\ scan'[c] = "first"
      /\ pc'[p] = (IF bg THEN "read" ELSE "wait") /\ jobs'[p] = (IF bg THEN jobs[p] + 1 ELSE jobs[p])
      /\ \A q \in Pids : q # c => /\ kind'[q] = kind[q] /\ parent'[q] = parent[q]
                                  /\ parent_task'[q] = parent_task[q]
      /\ \A q \in Pids : q # c /\ q # p => /\ pc'[q] = pc[q] /\ jobs'[q] = jobs[q]
                                           /\ scan'[q] = scan[q]
  BY <1>1, <1>2 DEF FamilyInv, FamilyTypes
<1>4. /\ Children(p)' = Children(p) \cup {c} /\ c \notin Children(p)
      /\ \A q \in Pids : q # p => Children(q)' = Children(q)
  BY <1>1, <1>3 DEF Children
<1>5. Links'
  BY <1>3 DEF FamilyInv, Links
<1>6. ASSUME p \notin haunted PROVE OwnFamily(p)'
  <2>1. Cardinality(Children(p)) = jobs[p] /\ jobs[p] \in Nat
    BY <1>1, <1>6 DEF FamilyInv, FamilyTypes, OwnFamily
  <2>2. Cardinality(Children(p) \cup {c}) = Cardinality(Children(p)) + 1
    BY <1>4, ChildrenFinite, Counting
  <2>3. Cardinality(Children(p)') = jobs[p] + 1
    BY <1>4, <2>1, <2>2
  <2>4. Cardinality(Children(p)') = jobs'[p] + (IF pc'[p] = "wait" THEN 1 ELSE 0)
    BY <1>3, <2>1, <2>3
  <2>5. \A d \in Pids : parent_task'[d] = p => parent'[d] = p
    BY <1>1, <1>3, <1>6 DEF FamilyInv, OwnFamily
  <2> QED BY <1>3, <2>4, <2>5 DEF OwnFamily
<1>7. ASSUME c \notin haunted' PROVE OwnFamily(c)'
  <2>1. \A o \in Pids : parent_task[o] # c
    BY <1>2, <1>7
  <2>2. Children(c) = {}
    BY <2>1, PidFacts DEF FamilyInv, Links, Children
  <2>3. Children(c)' = {}
    BY <1>1, <1>4, <2>2
  <2>4. \A o \in Pids : parent_task'[o] # c
    BY <1>1, <1>3, <2>1
  <2> QED BY <1>3, <2>3, <2>4, FS_EmptySet DEF OwnFamily
<1>8. ASSUME NEW q \in Pids \ haunted', kind'[q] = "shell" PROVE OwnFamily(q)'
  <2>1. CASE q = c
    BY <1>7, <1>8, <2>1
  <2>2. CASE q # c
    <3>1. q \in Pids \ haunted /\ kind[q] = "shell"
      BY <1>2, <1>3, <1>8, <2>2
    <3>2. OwnFamily(q)
      BY <3>1 DEF FamilyInv
    <3>3. CASE q = p
      BY <1>6, <3>1, <3>3
    <3>4. CASE q # p
      <4>1. Children(q)' = Children(q) /\ jobs'[q] = jobs[q] /\ pc'[q] = pc[q] /\ scan'[q] = scan[q]
        BY <1>3, <1>4, <2>2, <3>4
      <4>2. \A d \in Pids : parent_task'[d] = q => parent'[d] = q
        BY <1>3, <3>2, <3>4 DEF OwnFamily
      <4>3. ASSUME pc'[q] = "wait", scan'[q] = "second" PROVE Collectable(q)' # {}
        <5>1. PICK d : d \in Children(q) /\ kind[d] = "zombie" /\ d \in Pids
          BY <3>2, <4>1, <4>3 DEF OwnFamily, Collectable, Children
        <5>2. d # c
          BY <1>1, <5>1
        <5> QED BY <1>3, <4>1, <5>1, <5>2 DEF Collectable
      <4> QED BY <3>2, <4>1, <4>2, <4>3, SameFamily
    <3> QED BY <3>3, <3>4
  <2> QED BY <2>1, <2>2
<1> QED BY <1>3, <1>5, <1>8 DEF FamilyInv

\* A shell goes from one place of its loop to another, forking nothing.
LEMMA LoopFamily ==
  ASSUME FamilyInv, NEW p \in Pids, NEW v \in {"read", "run"}, pc[p] # "wait",
         pc' = [pc EXCEPT ![p] = v], UNCHANGED <<kind, family, jobs>>
  PROVE  FamilyInv'
<1>0. UNCHANGED <<parent, parent_task, scan, haunted>>
  BY DEF family
<1>1. /\ pc' \in [Pids -> {"read", "run", "child", "wait"}]
      /\ pc'[p] = v /\ \A q \in Pids : q # p => pc'[q] = pc[q]
  BY DEF FamilyInv, FamilyTypes
<1>2. \A q \in Pids : /\ Children(q)' = Children(q) /\ Collectable(q)' = Collectable(q)
                      /\ pc'[q] = "wait" <=> pc[q] = "wait"
  BY <1>0, <1>1 DEF Children, Collectable
<1>3. \A q \in Pids : OwnFamily(q) => OwnFamily(q)'
  BY <1>0, <1>2 DEF OwnFamily
<1> QED BY <1>0, <1>1, <1>3 DEF FamilyInv, FamilyTypes, Links

LEMMA ExecFamily ==
  ASSUME FamilyInv, NEW p \in Pids, execvp(p)
  PROVE  FamilyInv'
<1>1. kind[p] = "shell" /\ pc[p] = "child" /\ jobs' = jobs
  BY DEF execvp
<1>2. CASE kind' = [kind EXCEPT ![p] = "program"] /\ UNCHANGED <<pc, family>>
  <2>0. UNCHANGED <<parent, parent_task, scan, haunted>>
    BY <1>2 DEF family
  <2>1. /\ FamilyTypes' /\ kind'[p] = "program" /\ \A q \in Pids : q # p => kind'[q] = kind[q]
    BY <1>1, <1>2, <2>0 DEF FamilyInv, FamilyTypes
  <2>2. \A q \in Pids : Children(q)' = Children(q) /\ Collectable(q)' = Collectable(q)
    BY <1>1, <2>0, <2>1 DEF Children, Collectable
  <2>3. Links'
    BY <1>1, <2>0, <2>1 DEF FamilyInv, Links
  <2>4. \A q \in Pids : OwnFamily(q) => OwnFamily(q)'
    BY <1>1, <1>2, <2>0, <2>2 DEF OwnFamily
  <2> QED BY <2>0, <2>1, <2>3, <2>4 DEF FamilyInv
<1>3. CASE pc' = [pc EXCEPT ![p] = "read"] /\ UNCHANGED <<kind, family>>
  BY <1>1, <1>3, LoopFamily
<1>4. CASE exit(p) /\ UNCHANGED pc
  BY <1>1, <1>4, ExitFamily
<1> QED BY <1>2, <1>3, <1>4 DEF execvp

LEMMA FamilyStep == FamilyInv /\ [Next]_vars => FamilyInv'
<1> SUFFICES ASSUME FamilyInv, [Next]_vars PROVE FamilyInv'
  OBVIOUS
<1>1. ASSUME NEW p \in Pids, NEW line \in TypedLines, ReadTyped(p, line) PROVE FamilyInv'
  <2>1. \E v \in {"read", "run"} : pc' = [pc EXCEPT ![p] = v]
    BY <1>1 DEF ReadTyped, family
  <2>2. pc[p] # "wait" /\ UNCHANGED <<kind, family, jobs>>
    BY <1>1 DEF ReadTyped, family
  <2> QED BY <2>1, <2>2, LoopFamily
<1>2. ASSUME NEW p \in Pids, ReadScript(p) PROVE FamilyInv'
  <2>1. \E v \in {"read", "run"} : pc' = [pc EXCEPT ![p] = v]
    BY <1>2 DEF ReadScript, family
  <2>2. pc[p] # "wait" /\ UNCHANGED <<kind, family, jobs>>
    BY <1>2 DEF ReadScript, family
  <2> QED BY <2>1, <2>2, LoopFamily
<1>3. ASSUME NEW p \in Pids, EndOfScript(p) PROVE FamilyInv'
  BY <1>3, ExitFamily DEF EndOfScript
<1>4. ASSUME NEW p \in Pids, Builtin(p) PROVE FamilyInv'
  <2>1. kind[p] = "shell" /\ pc[p] = "run" /\ jobs' = jobs
    BY <1>4 DEF Builtin
  <2>2. CASE exit(p) /\ UNCHANGED pc
    BY <2>1, <2>2, ExitFamily
  <2>3. CASE pc' = [pc EXCEPT ![p] = "read"] /\ UNCHANGED <<kind, family>>
    BY <2>1, <2>3, LoopFamily
  <2> QED BY <1>4, <2>2, <2>3 DEF Builtin
<1>5. ASSUME NEW p \in Pids, NEW c \in Pids, run_command(p, c) PROVE FamilyInv'
  BY <1>5, ForkFamily
<1>6. ASSUME NEW p \in Pids, execvp(p) PROVE FamilyInv'
  BY <1>6, ExecFamily
<1>7. ASSUME NEW p \in Pids, ProgramEnds(p) PROVE FamilyInv'
  BY <1>7, ExitFamily DEF ProgramEnds
<1>8. ASSUME NEW p \in Pids, waitpid(p) PROVE FamilyInv'
  BY <1>8, WaitFamily
<1>9. ASSUME NEW p \in Pids, InitCollects(p) PROVE FamilyInv'
  BY <1>9, InitCollectsFamily
<1>10. CASE UNCHANGED vars
  <2>1. UNCHANGED <<kind, pc, parent, parent_task, scan, haunted, jobs>>
    BY <1>10 DEF vars, own, family
  <2>2. \A q \in Pids : Children(q)' = Children(q) /\ Collectable(q)' = Collectable(q)
    BY <2>1 DEF Children, Collectable
  <2> QED BY <2>1, <2>2 DEF FamilyInv, FamilyTypes, Links, OwnFamily
<1> QED BY <1>1, <1>2, <1>3, <1>4, <1>5, <1>6, <1>7, <1>8, <1>9, <1>10 DEF Next, Step

\* At its prompt a shell has exactly as many children as it started in the
\* background: every foreground command has been collected, with any number of
\* processes, scripts within scripts and commands that do not exist, on every
\* PCB that no process of an earlier owner had for its parent_task when the
\* shell got it.
THEOREM ForegroundIsCollected == Spec => []OneWaitPerForeground
<1>1. FamilyInv => OneWaitPerForeground
  BY DEF FamilyInv, FamilyTypes, OwnFamily, OneWaitPerForeground
<1> QED BY <1>1, FamilyInit, FamilyStep, PTL DEF Spec

-----------------------------------------------------------------------------
(* What split_and_count returns: the fold of its definition has a value, by *)
(* extending the one for a shorter line.                                    *)

SplitStart == [words |-> <<>>, cur |-> <<>>, found |-> FALSE, letter |-> FALSE]

\* g gives the state of the loop for the characters at the positions s.
Splits(line, d, n, g) ==
  g = [s \in SUBSET (1..n) |->
         IF s = {} THEN SplitStart ELSE split_step(g[s \ {Max(s)}], line[Max(s)], d)]

LEMMA MaxOfPositions ==
  ASSUME NEW n \in Nat, NEW s \in SUBSET (1..n), s # {}
  PROVE  Max(s) \in s /\ \A y \in s : y <= Max(s)
<1>1. IsFiniteSet(1..n)
  BY FS_Interval
<1>2. IsFiniteSet(s)
  BY <1>1, FS_Subset
<1>3. s \in SUBSET Nat
  OBVIOUS
<1> QED BY <1>2, <1>3, MaxOfSet

LEMMA SplitsExist == \A n \in Nat : \A line, d : \E g : Splits(line, d, n, g)
<1> DEFINE Bad == {n \in Nat : \E line, d : \A g : ~Splits(line, d, n, g)}
<1> SUFFICES ASSUME Bad # {} PROVE FALSE
  OBVIOUS
<1>1. PICK n \in Bad : \A m \in Bad : n <= m
  BY LeastElement
<1>2. n \in Nat
  BY <1>1
<1>3. PICK line, d : \A g : ~Splits(line, d, n, g)
  BY <1>1
<1>4. CASE n = 0
  <2> DEFINE g == [s \in SUBSET (1..0) |-> SplitStart]
  <2>1. \A s \in SUBSET (1..0) : s = {}
    OBVIOUS
  <2>2. g = [s \in SUBSET (1..0) |->
               IF s = {} THEN SplitStart ELSE split_step(g[s \ {Max(s)}], line[Max(s)], d)]
    BY <2>1
  <2> HIDE DEF g
  <2>3. Splits(line, d, 0, g)
    BY <2>2 DEF Splits
  <2> QED BY <1>3, <1>4, <2>3
<1>5. CASE n # 0
  <2>1. n - 1 \in Nat /\ n - 1 \notin Bad
    BY <1>1, <1>2, <1>5
  <2>2. PICK g : Splits(line, d, n - 1, g)
    BY <2>1
  <2> DEFINE e == [s \in SUBSET (1..n) |->
                     IF n \in s THEN split_step(g[s \ {n}], line[n], d) ELSE g[s]]
  <2>3. \A s \in SUBSET (1..(n - 1)) :
          g[s] = IF s = {} THEN SplitStart ELSE split_step(g[s \ {Max(s)}], line[Max(s)], d)
    BY <2>2 DEF Splits
  <2>4. \A s \in SUBSET (1..(n - 1)) : s \in SUBSET (1..n) /\ n \notin s /\ e[s] = g[s]
    BY <1>2, <1>5
  <2>5. \A s \in SUBSET (1..n) : s \ {n} \in SUBSET (1..(n - 1))
    BY <1>2
  <2>6. ASSUME NEW s \in SUBSET (1..n)
        PROVE  e[s] = IF s = {} THEN SplitStart ELSE split_step(e[s \ {Max(s)}], line[Max(s)], d)
    <3>1. CASE n \in s
      <4>1. Max(s) \in s /\ \A y \in s : y <= Max(s)
        BY <1>2, <3>1, MaxOfPositions
      <4>2. Max(s) = n
        <5>1. Max(s) \in 1..n /\ n <= Max(s)
          BY <3>1, <4>1
        <5> QED BY <1>2, <5>1
      <4>3. e[s] = split_step(g[s \ {n}], line[n], d)
        BY <3>1
      <4>4. e[s \ {n}] = g[s \ {n}]
        BY <2>4, <2>5
      <4> HIDE DEF e
      <4> QED BY <3>1, <4>2, <4>3, <4>4
    <3>2. CASE n \notin s
      <4>1. s \in SUBSET (1..(n - 1))
        BY <2>5, <3>2
      <4>2. s # {} => s \ {Max(s)} \in SUBSET (1..(n - 1))
        BY <4>1
      <4>3. e[s] = g[s] /\ (s # {} => e[s \ {Max(s)}] = g[s \ {Max(s)}])
        BY <2>4, <4>1, <4>2
      <4> HIDE DEF e
      <4> QED BY <2>3, <4>1, <4>3
    <3> QED BY <3>1, <3>2
  <2>7. e = [s \in SUBSET (1..n) |->
               IF s = {} THEN SplitStart ELSE split_step(e[s \ {Max(s)}], line[Max(s)], d)]
    BY <2>6
  <2> HIDE DEF e
  <2>8. Splits(line, d, n, e)
    BY <2>7 DEF Splits
  <2> QED BY <1>3, <2>8
<1> QED BY <1>4, <1>5

\* The value of the fold.
LEMMA SplitValue ==
  ASSUME NEW line, NEW d, Len(line) \in Nat, DOMAIN line = 1..Len(line)
  PROVE  \E g : /\ Splits(line, d, Len(line), g)
                /\ split_and_count(line, d) = Append(g[1..Len(line)].words, g[1..Len(line)].cur)
<1> DEFINE g == CHOOSE g : Splits(line, d, Len(line), g)
<1>1. Splits(line, d, Len(line), g)
  BY SplitsExist
<1>2. split_and_count(line, d) = Append(g[1..Len(line)].words, g[1..Len(line)].cur)
  BY DEF split_and_count, FoldLeft, MapThenFoldSet, Splits, SplitStart
<1> QED BY <1>1, <1>2

\* The loop over a prefix, one character more.
LEMMA SplitSteps ==
  ASSUME NEW line, NEW d, NEW n \in Nat, NEW g, Splits(line, d, n, g)
  PROVE  /\ g[1..0] = SplitStart
         /\ \A k \in 1..n : g[1..k] = split_step(g[1..(k - 1)], line[k], d)
<1>1. \A s \in SUBSET (1..n) :
        g[s] = IF s = {} THEN SplitStart ELSE split_step(g[s \ {Max(s)}], line[Max(s)], d)
  BY DEF Splits
<1>2. 1..0 = {} /\ 1..0 \in SUBSET (1..n)
  OBVIOUS
<1>3. ASSUME NEW k \in 1..n PROVE g[1..k] = split_step(g[1..(k - 1)], line[k], d)
  <2>1. 1..k \in SUBSET (1..n) /\ k \in Nat /\ k \in 1..k /\ 1..k # {} /\ 1..k \in SUBSET (1..k)
    OBVIOUS
  <2>2. Max(1..k) \in 1..k /\ \A y \in 1..k : y <= Max(1..k)
    BY <2>1, MaxOfPositions
  <2>3. Max(1..k) = k
    BY <2>1, <2>2
  <2>4. (1..k) \ {k} = 1..(k - 1)
    BY <2>1
  <2> QED BY <1>1, <2>1, <2>3, <2>4
<1> QED BY <1>1, <1>2, <1>3

\* What the loop builds are sequences of the line's characters.
SplitState(C) ==
  [words : Seq(Seq(C)), cur : Seq(C), found : BOOLEAN, letter : BOOLEAN]

LEMMA SplitStepType ==
  ASSUME NEW C, NEW s \in SplitState(C), NEW ch \in C, NEW d
  PROVE  split_step(s, ch, d) \in SplitState(C)
<1> DEFINE letter == s.letter \/ ch # " "
           found == s.found \/ (ch = d /\ letter)
           cut == found /\ ch # d
           ws == IF cut THEN Append(s.words, s.cur) ELSE s.words
           cur == IF (cut \/ ~found) /\ letter THEN Append(IF cut THEN <<>> ELSE s.cur, ch) ELSE s.cur
<1>1. s.words \in Seq(Seq(C)) /\ s.cur \in Seq(C)
  BY DEF SplitState
<1>2. ws \in Seq(Seq(C))
  <2>1. Append(s.words, s.cur) \in Seq(Seq(C))
    BY <1>1, AppendProperties
  <2> HIDE DEF cut
  <2> QED BY <1>1, <2>1
<1>3. cur \in Seq(C)
  <2>1. <<>> \in Seq(C) /\ Append(s.cur, ch) \in Seq(C)
    BY <1>1, AppendProperties
  <2>2. Append(<<>>, ch) \in Seq(C)
    BY <2>1, AppendProperties
  <2> HIDE DEF cut, found, letter
  <2> QED BY <1>1, <2>1, <2>2
<1>4. (found /\ ~cut) \in BOOLEAN /\ letter \in BOOLEAN
  OBVIOUS
<1>5. split_step(s, ch, d) = [words |-> ws, cur |-> cur, found |-> found /\ ~cut, letter |-> letter]
  BY DEF split_step
<1> HIDE DEF letter, found, cut, ws, cur
<1> QED BY <1>2, <1>3, <1>4, <1>5 DEF SplitState

LEMMA SplitType ==
  ASSUME NEW C, NEW n \in Nat, NEW line, \A i \in 1..n : line[i] \in C, NEW d, NEW g, Splits(line, d, n, g)
  PROVE  \A k \in 0..n : g[1..k] \in SplitState(C)
<1> DEFINE Bad == {k \in 0..n : g[1..k] \notin SplitState(C)}
<1> SUFFICES ASSUME Bad # {} PROVE FALSE
  OBVIOUS
<1>1. PICK k \in Bad : \A m \in Bad : k <= m
  <2>1. Bad \in SUBSET Nat
    OBVIOUS
  <2> QED BY <2>1, LeastElement
<1>2. SplitStart \in SplitState(C)
  BY DEF SplitStart, SplitState
<1>3. k # 0
  BY <1>1, <1>2, SplitSteps
<1>4. k \in 1..n /\ k - 1 \in 0..n /\ k - 1 \notin Bad
  BY <1>1, <1>3
<1>5. g[1..(k - 1)] \in SplitState(C)
  BY <1>4
<1>6. g[1..k] = split_step(g[1..(k - 1)], line[k], d)
  BY <1>4, SplitSteps
<1>7. g[1..k] \in SplitState(C)
  BY <1>4, <1>5, <1>6, SplitStepType
<1> QED BY <1>1, <1>7

\* There is always a word, be it empty: args[0] exists.
LEMMA SplitIsNotEmpty ==
  ASSUME NEW line, Len(line) \in Nat, DOMAIN line = 1..Len(line), NEW d
  PROVE  split_and_count(line, d) # <<>>
<1> DEFINE C == {line[i] : i \in 1..Len(line)}
<1>1. PICK g : /\ Splits(line, d, Len(line), g)
               /\ split_and_count(line, d) = Append(g[1..Len(line)].words, g[1..Len(line)].cur)
  BY SplitValue
<1>2. \A i \in 1..Len(line) : line[i] \in C
  OBVIOUS
<1>3. Len(line) \in 0..Len(line)
  OBVIOUS
<1> HIDE DEF C
<1>4. g[1..Len(line)] \in SplitState(C)
  BY <1>1, <1>2, <1>3, SplitType
<1>5. PICK ws \in Seq(Seq(C)), cur \in Seq(C) : split_and_count(line, d) = Append(ws, cur)
  BY <1>1, <1>4 DEF SplitState
<1>6. Len(Append(ws, cur)) = Len(ws) + 1 /\ Len(ws) \in Nat /\ Len(<<>>) = 0
  OBVIOUS
<1> QED BY <1>5, <1>6

-----------------------------------------------------------------------------
(* The type invariant. *)

TypeInv == TypeOK /\ script \in Scripts /\ words = [p \in Pids |-> words[p]]

\* The conjuncts of TypeOK about parents and children.
KinOK ==
  /\ parent \in [Pids -> Pids \cup {0}]
  /\ parent_task \in [Pids -> Pids \cup {0}]
  /\ scan \in [Pids -> {"first", "asleep", "second"}]
  /\ haunted \subseteq Pids

LEMMA TypeInit == Init => TypeInv
<1> SUFFICES ASSUME Init PROVE TypeInv
  OBVIOUS
<1>1. Len(script) \in Nat
  BY LinesAssumption DEF Init
<1> QED BY <1>1, BoundsAssumption DEF Init, TypeInv, TypeOK

LEMMA TypeStep == TypeInv /\ [Next]_vars => TypeInv'
<1> SUFFICES ASSUME TypeInv, [Next]_vars PROVE TypeInv'
  OBVIOUS
<1>0. /\ kind \in [Pids -> {"none", "shell", "program", "zombie"}]
      /\ mode \in [Pids -> {"terminal", "script"}]
      /\ pc \in [Pids -> {"read", "run", "child", "wait"}]
      /\ ptr1 \in [Pids -> 0 .. Len(script)]
      /\ KinOK
      /\ waited \in [Pids -> Pids \cup {0}]
      /\ jobs \in [Pids -> Nat]
      /\ typed \in 0 .. MaxTyped
      /\ \A p \in Pids : pc[p] \in {"run", "child"} => words[p] # <<>>
      /\ script \in Scripts /\ words = [p \in Pids |-> words[p]]
      /\ Len(script) \in Nat /\ DOMAIN script = 1..Len(script) /\ MaxTyped \in Nat
  BY LinesAssumption, BoundsAssumption DEF TypeInv, TypeOK, KinOK
<1>k. UNCHANGED family => KinOK'
  BY <1>0 DEF family, KinOK
<1>1. ASSUME NEW p \in Pids, NEW line \in TypedLines, ReadTyped(p, line) PROVE TypeInv'
  <2>1. split_and_count(line, " ") # <<>>
    BY LinesAssumption, SplitIsNotEmpty
  <2> HIDE DEF split_and_count
  <2>2. /\ words' = [words EXCEPT ![p] = split_and_count(line, " ")]
        /\ pc' \in [Pids -> {"read", "run", "child", "wait"}]
        /\ \A q \in Pids : q # p => pc'[q] = pc[q] /\ words'[q] = words[q]
        /\ words'[p] # <<>>
    BY <1>0, <1>1, <2>1 DEF ReadTyped
  <2>3. typed' \in 0 .. MaxTyped
    <3>1. typed < MaxTyped /\ typed' = typed + 1 /\ typed \in 0 .. MaxTyped /\ MaxTyped \in Nat
      BY <1>0, <1>1 DEF ReadTyped
    <3> QED BY ONLY <3>1
  <2>4. \A q \in Pids : pc'[q] \in {"run", "child"} => words'[q] # <<>>
    BY <1>0, <2>2
  <2>5. words' = [q \in Pids |-> words'[q]]
    BY <1>0, <2>2
  <2>6. UNCHANGED <<family, kind, mode, ptr1, waited, jobs, script>>
    BY <1>1 DEF ReadTyped
  <2>7. KinOK'
    BY <1>k, <2>6
  <2> QED BY <1>0, <2>2, <2>3, <2>4, <2>5, <2>6, <2>7 DEF TypeInv, TypeOK, KinOK
<1>2. ASSUME NEW p \in Pids, ReadScript(p) PROVE TypeInv'
  <2> DEFINE line == script[ptr1[p] + 1]
  <2>1. ptr1[p] + 1 \in 1..Len(script) /\ ptr1[p] \in Nat
    <3>1. ptr1[p] < Len(script) /\ ptr1[p] \in 0 .. Len(script) /\ Len(script) \in Nat
      BY <1>0, <1>2 DEF ReadScript
    <3> QED BY ONLY <3>1
  <2>2. split_and_count(line, " ") # <<>>
    BY <1>0, <2>1, LinesAssumption, SplitIsNotEmpty
  <2>3. /\ words' = [words EXCEPT ![p] = split_and_count(line, " ")]
        /\ ptr1' = [ptr1 EXCEPT ![p] = @ + 1]
        /\ \E v \in {"read", "run"} : pc' = [pc EXCEPT ![p] = v]
        /\ UNCHANGED <<family, kind, mode, waited, jobs, script, typed>>
    BY <1>2 DEF ReadScript
  <2> HIDE DEF line
  <2>4. ptr1' \in [Pids -> 0 .. Len(script)]
    <3>1. ptr1[p] + 1 \in 0 .. Len(script)
      BY ONLY <2>1
    <3>2. ptr1 \in [Pids -> 0 .. Len(script)] /\ ptr1' = [ptr1 EXCEPT ![p] = ptr1[p] + 1]
      BY <1>0, <2>3
    <3> QED BY ONLY <3>1, <3>2
  <2>5. /\ pc' \in [Pids -> {"read", "run", "child", "wait"}]
        /\ \A q \in Pids : q # p => pc'[q] = pc[q] /\ words'[q] = words[q]
        /\ words'[p] # <<>> /\ words' = [q \in Pids |-> words'[q]]
    BY <1>0, <2>2, <2>3, ZenonT(60)
  <2>6. \A q \in Pids : pc'[q] \in {"run", "child"} => words'[q] # <<>>
    BY <1>0, <2>5
  <2>7. KinOK'
    BY <1>k, <2>3
  <2> QED BY <1>0, <2>3, <2>4, <2>5, <2>6, <2>7 DEF TypeInv, TypeOK, KinOK
<1>3. ASSUME NEW p \in Pids, exit(p) PROVE /\ kind' \in [Pids -> {"none", "shell", "program", "zombie"}]
                                            /\ KinOK'
  <2>1. /\ kind' = [kind EXCEPT ![p] = "zombie"] /\ scan' = woken(p)
        /\ UNCHANGED <<parent_task, haunted>>
    BY <1>3 DEF exit
  <2>2. PICK blocked : parent' = [c \in Pids |->
          IF parent[c] = p /\ (NotReady(c) \/ c \in blocked) THEN 0 ELSE parent[c]]
    BY <1>3 DEF exit
  <2>3. parent' \in [Pids -> Pids \cup {0}]
    BY <1>0, <2>2 DEF KinOK
  <2>4. scan' \in [Pids -> {"first", "asleep", "second"}]
    BY <1>0, <2>1 DEF woken, KinOK
  <2> QED BY <1>0, <2>1, <2>3, <2>4 DEF KinOK
<1>4. ASSUME NEW p \in Pids, EndOfScript(p) PROVE TypeInv'
  BY <1>0, <1>3, <1>4 DEF EndOfScript, TypeInv, TypeOK, KinOK
<1>5. ASSUME NEW p \in Pids, Builtin(p) PROVE TypeInv'
  <2>1. UNCHANGED <<mode, ptr1, words, waited, jobs, script, typed>>
    BY <1>5 DEF Builtin
  <2>2. CASE exit(p) /\ UNCHANGED pc
    BY <1>0, <1>3, <2>1, <2>2 DEF TypeInv, TypeOK, KinOK
  <2>3. CASE pc' = [pc EXCEPT ![p] = "read"] /\ UNCHANGED <<kind, family>>
    <3>1. /\ pc' \in [Pids -> {"read", "run", "child", "wait"}]
          /\ \A q \in Pids : pc'[q] \in {"run", "child"} => words'[q] # <<>>
      BY <1>0, <2>1, <2>3
    <3>2. KinOK'
      BY <1>k, <2>3
    <3> QED BY <1>0, <2>1, <2>3, <3>1, <3>2 DEF TypeInv, TypeOK, KinOK
  <2> QED BY <1>5, <2>2, <2>3 DEF Builtin
<1>6. ASSUME NEW p \in Pids, NEW c \in Pids, run_command(p, c) PROVE TypeInv'
  <2> DEFINE bg == Background(words[p])
  <2>1. /\ kind[p] = "shell" /\ pc[p] = "run"
        /\ kind' = [kind EXCEPT ![c] = "shell"] /\ mode' = [mode EXCEPT ![c] = mode[p]]
        /\ ptr1' = [ptr1 EXCEPT ![c] = ptr1[p]] /\ words' = [words EXCEPT ![c] = words[p]]
        /\ parent' = [parent EXCEPT ![c] = p] /\ parent_task' = [parent_task EXCEPT ![c] = p]
        /\ scan' = [scan EXCEPT ![p] = "first", ![c] = "first"]
        /\ haunted' \in {haunted \cup {c}, haunted \ {c}}
        /\ pc' = [pc EXCEPT ![c] = "child", ![p] = IF bg THEN "read" ELSE "wait"]
        /\ waited' = [waited EXCEPT ![p] = IF bg THEN 0 ELSE c, ![c] = 0]
        /\ jobs' = [jobs EXCEPT ![p] = IF bg THEN @ + 1 ELSE @, ![c] = 0]
        /\ UNCHANGED <<script, typed>>
    BY <1>6 DEF run_command, after_fork
  <2> HIDE DEF bg
  <2>2. /\ kind' \in [Pids -> {"none", "shell", "program", "zombie"}]
        /\ mode' \in [Pids -> {"terminal", "script"}]
        /\ ptr1' \in [Pids -> 0 .. Len(script)]
        /\ words' = [q \in Pids |-> words'[q]]
    BY <1>0, <2>1
  <2>7. KinOK'
    BY <1>0, <2>1 DEF KinOK
  <2>3. pc' \in [Pids -> {"read", "run", "child", "wait"}]
    BY <1>0, <2>1
  <2>4. waited' \in [Pids -> Pids \cup {0}]
    BY <1>0, <2>1
  <2>5. jobs' \in [Pids -> Nat]
    <3>1. jobs \in [Pids -> Nat] /\ jobs' = [jobs EXCEPT ![p] = IF bg THEN @ + 1 ELSE @, ![c] = 0]
      BY <1>0, <2>1
    <3>2. PICK v \in Nat : jobs' = [jobs EXCEPT ![p] = v, ![c] = 0]
      <4>1. jobs[p] \in Nat /\ jobs[p] + 1 \in Nat
        BY <3>1
      <4> QED BY <3>1, <4>1
    <3> QED BY ONLY <3>1, <3>2
  <2>6. \A q \in Pids : pc'[q] \in {"run", "child"} => words'[q] # <<>>
    BY <1>0, <2>1
  <2> QED BY <1>0, <2>1, <2>2, <2>3, <2>4, <2>5, <2>6, <2>7 DEF TypeInv, TypeOK, KinOK
<1>7. ASSUME NEW p \in Pids, execvp(p) PROVE TypeInv'
  <2>1. UNCHANGED <<words, waited, jobs, script, typed>> /\ pc[p] = "child"
    BY <1>7 DEF execvp
  <2>2. CASE kind' = [kind EXCEPT ![p] = "program"] /\ UNCHANGED <<mode, pc, ptr1, family>>
    <3>1. KinOK'
      BY <1>k, <2>2
    <3> QED BY <1>0, <2>1, <2>2, <3>1 DEF TypeInv, TypeOK, KinOK
  <2>3. CASE exit(p) /\ UNCHANGED <<mode, pc, ptr1>>
    BY <1>0, <1>3, <2>1, <2>3 DEF TypeInv, TypeOK, KinOK
  <2>4. CASE /\ mode' = [mode EXCEPT ![p] = "script"] /\ ptr1' = [ptr1 EXCEPT ![p] = 0]
             /\ pc' = [pc EXCEPT ![p] = "read"] /\ UNCHANGED <<kind, family>>
    <3>1. /\ mode' \in [Pids -> {"terminal", "script"}] /\ ptr1' \in [Pids -> 0 .. Len(script)]
          /\ pc' \in [Pids -> {"read", "run", "child", "wait"}]
          /\ \A q \in Pids : pc'[q] \in {"run", "child"} => words'[q] # <<>>
      BY <1>0, <2>1, <2>4
    <3>2. KinOK'
      BY <1>k, <2>4
    <3> QED BY <1>0, <2>1, <2>4, <3>1, <3>2 DEF TypeInv, TypeOK, KinOK
  <2>5. CASE /\ ptr1' = [ptr1 EXCEPT ![p] = ptr1[p]]
             /\ pc' = [pc EXCEPT ![p] = "read"] /\ UNCHANGED <<kind, mode, family>>
    <3>1. /\ ptr1' \in [Pids -> 0 .. Len(script)]
          /\ pc' \in [Pids -> {"read", "run", "child", "wait"}]
          /\ \A q \in Pids : pc'[q] \in {"run", "child"} => words'[q] # <<>>
      BY <1>0, <2>1, <2>5
    <3>2. KinOK'
      BY <1>k, <2>5
    <3> QED BY <1>0, <2>1, <2>5, <3>1, <3>2 DEF TypeInv, TypeOK, KinOK
  <2> QED BY <1>7, <2>2, <2>3, <2>4, <2>5 DEF execvp, ptr_after_failed_exec
<1>8. ASSUME NEW p \in Pids, ProgramEnds(p) PROVE TypeInv'
  BY <1>0, <1>3, <1>8 DEF ProgramEnds, TypeInv, TypeOK, KinOK
<1>9. ASSUME NEW c \in Pids, Collect(c)
      PROVE  /\ kind' \in [Pids -> {"none", "shell", "program", "zombie"}]
             /\ mode' \in [Pids -> {"terminal", "script"}] /\ ptr1' \in [Pids -> 0 .. Len(script)]
             /\ parent' \in [Pids -> Pids \cup {0}] /\ jobs' \in [Pids -> Nat]
             /\ parent_task' \in [Pids -> Pids \cup {0}] /\ haunted' \subseteq Pids
             /\ script' = script /\ typed' = typed
  BY <1>0, <1>9 DEF Collect, KinOK
<1>10. ASSUME NEW p \in Pids, waitpid(p) PROVE TypeInv'
  <2>1. ASSUME NEW c \in Collectable(p), Collect(c),
               scan' = [scan EXCEPT ![p] = "first", ![c] = "first"],
               waited' = [waited EXCEPT ![p] = 0, ![c] = 0],
               words' = [words EXCEPT ![p] = <<>>, ![c] = <<>>],
               pc' = [pc EXCEPT ![p] = "read", ![c] = "read"]
        PROVE  TypeInv'
    <3>1. c \in Pids
      BY DEF Collectable, Children
    <3>2. /\ waited' \in [Pids -> Pids \cup {0}]
          /\ pc' \in [Pids -> {"read", "run", "child", "wait"}]
          /\ scan' \in [Pids -> {"first", "asleep", "second"}]
          /\ words' = [q \in Pids |-> words'[q]]
          /\ \A q \in Pids : pc'[q] \in {"run", "child"} => words'[q] # <<>>
      BY <1>0, <2>1, <3>1 DEF KinOK
    <3> QED BY <1>0, <1>9, <2>1, <3>1, <3>2, ZenonT(60) DEF TypeInv, TypeOK
  <2>2. ASSUME scan' = [scan EXCEPT ![p] = "asleep"],
               UNCHANGED <<kind, mode, pc, ptr1, words, waited, jobs, parent, parent_task, haunted,
                           script, typed>>
        PROVE  TypeInv'
    <3>1. KinOK'
      BY <1>0, <2>2 DEF KinOK
    <3> QED BY <1>0, <2>2, <3>1 DEF TypeInv, TypeOK, KinOK
  <2>3. ASSUME scan' = [scan EXCEPT ![p] = "first"], waited' = [waited EXCEPT ![p] = 0],
               words' = [words EXCEPT ![p] = <<>>], pc' = [pc EXCEPT ![p] = "read"],
               UNCHANGED <<kind, mode, ptr1, jobs, parent, parent_task, haunted, script, typed>>
        PROVE  TypeInv'
    <3>1. KinOK'
      BY <1>0, <2>3 DEF KinOK
    <3>2. /\ waited' \in [Pids -> Pids \cup {0}]
          /\ pc' \in [Pids -> {"read", "run", "child", "wait"}]
          /\ words' = [q \in Pids |-> words'[q]]
          /\ \A q \in Pids : pc'[q] \in {"run", "child"} => words'[q] # <<>>
      BY <1>0, <2>3
    <3> QED BY <1>0, <2>3, <3>1, <3>2 DEF TypeInv, TypeOK, KinOK
  <2> QED BY <1>10, <2>1, <2>2, <2>3 DEF waitpid, own
<1>11. ASSUME NEW c \in Pids, InitCollects(c) PROVE TypeInv'
  <2>1. /\ Collect(c)
        /\ scan' = [scan EXCEPT ![c] = "first"]
        /\ waited' = [waited EXCEPT ![c] = 0]
        /\ words' = [words EXCEPT ![c] = <<>>]
        /\ pc' = [pc EXCEPT ![c] = "read"]
    BY <1>11 DEF InitCollects
  <2>2. /\ waited' \in [Pids -> Pids \cup {0}]
        /\ pc' \in [Pids -> {"read", "run", "child", "wait"}]
        /\ scan' \in [Pids -> {"first", "asleep", "second"}]
        /\ words' = [q \in Pids |-> words'[q]]
        /\ \A q \in Pids : pc'[q] \in {"run", "child"} => words'[q] # <<>>
    BY <1>0, <2>1 DEF KinOK
  <2> QED BY <1>0, <1>9, <2>1, <2>2 DEF TypeInv, TypeOK
<1>12. CASE UNCHANGED vars
  BY <1>12 DEF vars, own, family, TypeInv, TypeOK
<1> QED
  BY <1>1, <1>2, <1>4, <1>5, <1>6, <1>7, <1>8, <1>10, <1>11, <1>12 DEF Next, Step

\* Every process keeps to its script and to processes that exist, and a command
\* that is run or handed to exec always has a first word.
THEOREM TypeCorrect == Spec => []TypeOK
<1>1. TypeInv => TypeOK
  BY DEF TypeInv
<1> QED BY <1>1, TypeInit, TypeStep, PTL DEF Spec

-----------------------------------------------------------------------------
(* split_and_count finds the words of a line. *)

\* The parts of WordsOf.
BlankAt(line, i) == i \notin DOMAIN line \/ line[i] = " "
Begins(line) == {i \in DOMAIN line : ~BlankAt(line, i) /\ BlankAt(line, i - 1)}
EndOf(line, b) == Min({j \in b .. Len(line) : BlankAt(line, j + 1)})
WordAt(line, b) == SubSeq(line, b, EndOf(line, b))
Rank(line, b) == Cardinality({a \in Begins(line) : a < b})

\* How many words have begun among the first k characters.
Begun(line, k) == Cardinality({a \in Begins(line) : a <= k})

LEMMA BeginsFinite ==
  ASSUME NEW C, NEW line \in Seq(C)
  PROVE  /\ Begins(line) \in SUBSET (1..Len(line))
         /\ \A S \in SUBSET Begins(line) : IsFiniteSet(S) /\ Cardinality(S) \in Nat
<1>1. Begins(line) \in SUBSET (1..Len(line)) /\ Len(line) \in Nat
  BY DEF Begins
<1>2. IsFiniteSet(1..Len(line))
  BY <1>1, FS_Interval
<1>3. \A S \in SUBSET Begins(line) : IsFiniteSet(S)
  BY <1>1, <1>2, FS_Subset
<1> QED BY <1>1, <1>3, FS_CardinalityType

LEMMA BegunAndRank ==
  ASSUME NEW C, NEW line \in Seq(C)
  PROVE  /\ Begun(line, 0) = 0
         /\ \A k \in Nat : Begun(line, k) \in Nat
         /\ \A k \in Nat : k + 1 \notin Begins(line) => Begun(line, k + 1) = Begun(line, k)
         /\ \A k \in Nat : k + 1 \in Begins(line) =>
              Begun(line, k + 1) = Begun(line, k) + 1 /\ Rank(line, k + 1) = Begun(line, k)
         /\ \A b \in Begins(line) : \A k \in Nat :
              b <= k => Rank(line, b) \in 0 .. Begun(line, k) - 1
         /\ \A a, b \in Begins(line) : Rank(line, a) = Rank(line, b) => a = b
         /\ Begun(line, Len(line)) = Cardinality(Begins(line))
<1> DEFINE B == Begins(line)
           U(k) == {a \in B : a <= k}
           L(b) == {a \in B : a < b}
<1>1. Len(line) \in Nat /\ \A a \in B : a \in Nat /\ 1 <= a /\ a <= Len(line)
  BY BeginsFinite
<1>2. \A k : U(k) \in SUBSET B /\ IsFiniteSet(U(k)) /\ Cardinality(U(k)) \in Nat
  BY BeginsFinite
<1>3. \A k : L(k) \in SUBSET B /\ IsFiniteSet(L(k)) /\ Cardinality(L(k)) \in Nat
  BY BeginsFinite
<1> HIDE DEF B
<1>4. Begun(line, 0) = 0
  <2>1. U(0) = {}
    BY <1>1
  <2> QED BY <2>1, FS_EmptySet DEF Begun, B
<1>5. \A k \in Nat : k + 1 \notin B => Begun(line, k + 1) = Begun(line, k)
  <2>1. \A k \in Nat : k + 1 \notin B => U(k + 1) = U(k)
    BY <1>1
  <2> QED BY <2>1 DEF Begun, B
<1>6. ASSUME NEW k \in Nat, k + 1 \in B
      PROVE  Begun(line, k + 1) = Begun(line, k) + 1 /\ Rank(line, k + 1) = Begun(line, k)
  <2>1. U(k + 1) = U(k) \cup {k + 1} /\ k + 1 \notin U(k) /\ L(k + 1) = U(k)
    BY <1>1, <1>6
  <2>2. Cardinality(U(k) \cup {k + 1}) = Cardinality(U(k)) + 1
    BY <1>2, <2>1, Counting
  <2>3. Cardinality(U(k + 1)) = Cardinality(U(k)) + 1 /\ Cardinality(L(k + 1)) = Cardinality(U(k))
    BY <2>1, <2>2
  <2> QED BY <2>3 DEF Begun, Rank, B
<1>7. ASSUME NEW b \in B, NEW k \in Nat, b <= k PROVE Rank(line, b) \in 0 .. Begun(line, k) - 1
  <2>1. L(b) \cup {b} \subseteq U(k) /\ b \notin L(b)
    BY <1>1, <1>7
  <2>2. Cardinality(L(b) \cup {b}) = Cardinality(L(b)) + 1
    BY <1>3, <2>1, Counting
  <2>3. Cardinality(L(b) \cup {b}) <= Cardinality(U(k))
    BY <1>2, <2>1, FS_Subset
  <2>4. Cardinality(L(b)) \in 0 .. Cardinality(U(k)) - 1
    <3>1. Cardinality(L(b)) \in Nat /\ Cardinality(U(k)) \in Nat
          /\ Cardinality(L(b)) + 1 <= Cardinality(U(k))
      BY <1>2, <1>3, <2>2, <2>3
    <3> QED BY ONLY <3>1
  <2> QED BY <2>4 DEF Begun, Rank, B
<1>8. ASSUME NEW a \in B, NEW b \in B, a < b PROVE Rank(line, a) < Rank(line, b)
  <2>1. L(a) \cup {a} \subseteq L(b) /\ a \notin L(a)
    BY <1>1, <1>8
  <2>2. Cardinality(L(a) \cup {a}) = Cardinality(L(a)) + 1
    BY <1>3, <2>1, Counting
  <2>3. Cardinality(L(a) \cup {a}) <= Cardinality(L(b))
    BY <1>3, <2>1, FS_Subset
  <2>4. Cardinality(L(a)) < Cardinality(L(b))
    <3>1. Cardinality(L(a)) \in Nat /\ Cardinality(L(b)) \in Nat
          /\ Cardinality(L(a)) + 1 <= Cardinality(L(b))
      BY <1>3, <2>2, <2>3
    <3> QED BY ONLY <3>1
  <2> QED BY <2>4 DEF Rank, B
<1>9. \A a, b \in B : Rank(line, a) = Rank(line, b) => a = b
  <2> SUFFICES ASSUME NEW a \in B, NEW b \in B, a # b PROVE Rank(line, a) # Rank(line, b)
    OBVIOUS
  <2>1. a < b \/ b < a
    BY <1>1
  <2>2. Rank(line, a) \in Nat /\ Rank(line, b) \in Nat
    BY <1>3 DEF Rank, B
  <2> QED BY <1>8, <2>1, <2>2
<1>10. Begun(line, Len(line)) = Cardinality(B)
  <2>1. U(Len(line)) = B
    BY <1>1
  <2> QED BY <2>1 DEF Begun, B
<1>11. \A k \in Nat : Begun(line, k) \in Nat
  BY <1>2 DEF Begun, B
<1> QED BY <1>4, <1>5, <1>6, <1>7, <1>9, <1>10, <1>11 DEF B

\* Where a word that began at b ends.
LEMMA EndOfWord ==
  ASSUME NEW C, NEW line \in Seq(C), NEW b \in 1..Len(line), NEW k \in b..Len(line),
         BlankAt(line, k + 1), \A j \in b..k : ~BlankAt(line, j)
  PROVE  EndOf(line, b) = k
<1> DEFINE J == {j \in b .. Len(line) : BlankAt(line, j + 1)}
<1>1. k \in J /\ J \in SUBSET Nat /\ b \in Nat /\ Len(line) \in Nat /\ k \in Nat
  OBVIOUS
<1>2. \A j \in J : k <= j
  <2> SUFFICES ASSUME NEW j \in J, ~(k <= j) PROVE FALSE
    OBVIOUS
  <2>1. j + 1 \in b..k
    BY <1>1
  <2> QED BY <2>1
<1>3. Min(J) \in J /\ \A j \in J : Min(J) <= j
  BY <1>1, MinOfSet
<1>4. Min(J) = k
  BY <1>1, <1>2, <1>3
<1> QED BY <1>4 DEF EndOf

(***************************************************************************)
(* The invariant of the loop after k characters: before the first word it  *)
(* has done nothing; then the words that have ended are in their places,   *)
(* in order, the last one that began is in hand, and found_flag says       *)
(* whether it has ended.                                                   *)
(***************************************************************************)
Scanned(line, k, s) ==
  LET m == Begun(line, k) IN
  /\ m = 0 => BlankAt(line, k) /\ s = SplitStart
  /\ m # 0 => s.letter /\ (s.found <=> BlankAt(line, k)) /\ Len(s.words) = m - 1
  /\ \A b \in Begins(line) : b <= k =>
       /\ Rank(line, b) < m - 1 => s.words[Rank(line, b) + 1] = WordAt(line, b)
       /\ Rank(line, b) = m - 1 =>
            /\ BlankAt(line, k) => s.cur = WordAt(line, b)
            /\ ~BlankAt(line, k) => /\ s.cur = SubSeq(line, b, k)
                                    /\ \A j \in b .. k : ~BlankAt(line, j)
  /\ \A j \in 0 .. m - 1 : \E b \in Begins(line) : b <= k /\ Rank(line, b) = j

\* What one turn of the loop does with a blank and with another character.
LEMMA SplitStepCases ==
  ASSUME NEW C, NEW s \in SplitState(C), NEW ch \in C
  PROVE  LET t == split_step(s, ch, " ") IN
         /\ ch = " " /\ s = SplitStart => t = SplitStart
         /\ ch = " " /\ s.letter => t.letter /\ t.found /\ t.words = s.words /\ t.cur = s.cur
         /\ ch # " " => t.letter /\ ~t.found
         /\ ch # " " /\ s.found => t.words = Append(s.words, s.cur) /\ t.cur = <<ch>>
         /\ ch # " " /\ ~s.found => t.words = s.words /\ t.cur = Append(s.cur, ch)
<1> DEFINE t == split_step(s, ch, " ")
<1>0. s.letter \in BOOLEAN /\ s.found \in BOOLEAN /\ s.cur \in Seq(C)
  BY DEF SplitState
<1>1. ASSUME ch = " ", s = SplitStart PROVE t = SplitStart
  BY <1>1 DEF split_step, SplitStart
<1>2. ASSUME ch = " ", s.letter
      PROVE  t.letter /\ t.found /\ t.words = s.words /\ t.cur = s.cur
  BY <1>0, <1>2 DEF split_step
<1>3. ASSUME ch # " ", s.found
      PROVE  t.letter /\ ~t.found /\ t.words = Append(s.words, s.cur) /\ t.cur = <<ch>>
  <2>1. Append(<<>>, ch) = <<ch>>
    OBVIOUS
  <2> QED BY <1>0, <1>3, <2>1 DEF split_step
<1>4. ASSUME ch # " ", ~s.found
      PROVE  t.letter /\ ~t.found /\ t.words = s.words /\ t.cur = Append(s.cur, ch)
  BY <1>0, <1>4 DEF split_step
<1> HIDE DEF t
<1>5. /\ ch = " " /\ s = SplitStart => t = SplitStart
      /\ ch = " " /\ s.letter => t.letter /\ t.found /\ t.words = s.words /\ t.cur = s.cur
      /\ ch # " " => t.letter /\ ~t.found
      /\ ch # " " /\ s.found => t.words = Append(s.words, s.cur) /\ t.cur = <<ch>>
      /\ ch # " " /\ ~s.found => t.words = s.words /\ t.cur = Append(s.cur, ch)
  BY <1>1, <1>2, <1>3, <1>4
<1> QED BY <1>5 DEF t

LEMMA ScanStep ==
  ASSUME NEW C, NEW line \in Seq(C), NEW k \in 0 .. Len(line) - 1, NEW s \in SplitState(C),
         Scanned(line, k, s)
  PROVE  Scanned(line, k + 1, split_step(s, line[k + 1], " "))
<1> DEFINE m == Begun(line, k)
           mm == Begun(line, k + 1)
           ch == line[k + 1]
           t == split_step(s, ch, " ")
<1>1. /\ k \in Nat /\ Len(line) \in Nat /\ k + 1 \in 1..Len(line) /\ ch \in C /\ DOMAIN line = 1..Len(line)
      /\ m \in Nat /\ mm \in Nat
  BY BegunAndRank, SMTT(60)
<1>2. BlankAt(line, k + 1) <=> ch = " "
  BY <1>1 DEF BlankAt
<1>3. k + 1 \in Begins(line) <=> ch # " " /\ BlankAt(line, k)
  <2>1. (k + 1) - 1 = k
    BY <1>1
  <2> HIDE DEF ch
  <2>2. k + 1 \in Begins(line) <=> k + 1 \in DOMAIN line /\ ~BlankAt(line, k + 1) /\ BlankAt(line, (k + 1) - 1)
    BY DEF Begins
  <2>3. BlankAt(line, (k + 1) - 1) <=> BlankAt(line, k)
    BY <2>1
  <2>4. k + 1 \in DOMAIN line
    BY <1>1
  <2> QED BY <1>2, <2>2, <2>3, <2>4
<1>4. \A b \in Begins(line) : b \in 1..Len(line) /\ b \in Nat /\ (b <= k => Rank(line, b) \in 0 .. m - 1)
  <2> TAKE b \in Begins(line)
  <2>1. b \in 1..Len(line)
    BY BeginsFinite
  <2>2. b <= k => Rank(line, b) \in 0 .. m - 1
    BY <1>1, BegunAndRank
  <2> QED BY <1>1, <2>1, <2>2
<1>5. /\ ch = " " /\ s = SplitStart => t = SplitStart
      /\ ch = " " /\ s.letter => t.letter /\ t.found /\ t.words = s.words /\ t.cur = s.cur
      /\ ch # " " => t.letter /\ ~t.found
      /\ ch # " " /\ s.found => t.words = Append(s.words, s.cur) /\ t.cur = <<ch>>
      /\ ch # " " /\ ~s.found => t.words = s.words /\ t.cur = Append(s.cur, ch)
  BY <1>1, SplitStepCases, ZenonT(60)
<1>6. s.words \in Seq(Seq(C)) /\ s.cur \in Seq(C) /\ s.found \in BOOLEAN
  BY DEF SplitState
<1>7. /\ m = 0 => BlankAt(line, k) /\ s = SplitStart
      /\ m # 0 => s.letter /\ (s.found <=> BlankAt(line, k)) /\ Len(s.words) = m - 1
      /\ \A b \in Begins(line) : b <= k =>
           /\ Rank(line, b) < m - 1 => s.words[Rank(line, b) + 1] = WordAt(line, b)
           /\ Rank(line, b) = m - 1 =>
                /\ BlankAt(line, k) => s.cur = WordAt(line, b)
                /\ ~BlankAt(line, k) => /\ s.cur = SubSeq(line, b, k)
                                        /\ \A j \in b .. k : ~BlankAt(line, j)
      /\ \A j \in 0 .. m - 1 : \E b \in Begins(line) : b <= k /\ Rank(line, b) = j
  BY DEF Scanned
<1> HIDE DEF t, ch, m, mm
\* No word begins here.
<1>8. ASSUME k + 1 \notin Begins(line)
      PROVE  /\ mm = m
             /\ \A b \in Begins(line) : b <= k + 1 => b <= k
             /\ \A j \in 0 .. mm - 1 : \E b \in Begins(line) : b <= k + 1 /\ Rank(line, b) = j
  <2>1. mm = m
    BY <1>1, <1>8, BegunAndRank DEF m, mm
  <2>2. ASSUME NEW b \in Begins(line), b <= k + 1 PROVE b <= k
    <3>1. b # k + 1 /\ b \in Nat
      BY <1>4, <1>8
    <3> QED BY <1>1, <2>2, <3>1
  <2>3. ASSUME NEW j \in 0 .. mm - 1 PROVE \E b \in Begins(line) : b <= k + 1 /\ Rank(line, b) = j
    <3>1. PICK b \in Begins(line) : b <= k /\ Rank(line, b) = j
      BY <1>7, <2>1
    <3>2. b <= k + 1
      BY <1>1, <1>4, <3>1
    <3> QED BY <3>1, <3>2
  <2> QED BY <2>1, <2>2, <2>3
<1>9. CASE ch = " " /\ m = 0
  <2>1. t = SplitStart /\ mm = 0 /\ BlankAt(line, k + 1)
    BY <1>2, <1>3, <1>5, <1>7, <1>8, <1>9
  <2>2. \A b \in Begins(line) : ~(b <= k + 1)
    <3> SUFFICES ASSUME NEW b \in Begins(line), b <= k + 1 PROVE FALSE
      OBVIOUS
    <3>1. Rank(line, b) \in 0 .. m - 1
      BY <1>3, <1>4, <1>8, <1>9
    <3>2. m = 0
      BY <1>9
    <3> QED BY ONLY <3>1, <3>2
  <2>3. Scanned(line, k + 1, t)
    BY <2>1, <2>2 DEF Scanned, mm
  <2> QED BY <2>3 DEF t, ch
<1>10. CASE ch = " " /\ m # 0
  <2>1. t.letter /\ t.found /\ t.words = s.words /\ t.cur = s.cur /\ BlankAt(line, k + 1)
    BY <1>2, <1>5, <1>7, <1>10
  <2>2. /\ mm = m
        /\ \A b \in Begins(line) : b <= k + 1 => b <= k
        /\ \A j \in 0 .. mm - 1 : \E b \in Begins(line) : b <= k + 1 /\ Rank(line, b) = j
    BY <1>3, <1>8, <1>10
  <2>3. ASSUME NEW b \in Begins(line), b <= k + 1, Rank(line, b) = m - 1 PROVE t.cur = WordAt(line, b)
    <3>1. CASE BlankAt(line, k)
      BY <1>7, <2>1, <2>2, <2>3, <3>1
    <3>2. CASE ~BlankAt(line, k)
      <4>1. s.cur = SubSeq(line, b, k) /\ \A j \in b .. k : ~BlankAt(line, j)
        BY <1>7, <2>2, <2>3, <3>2
      <4>2. b <= k /\ b \in 1..Len(line) /\ b \in Nat
        BY <1>4, <2>2, <2>3
      <4>3. k \in b .. Len(line)
        BY <1>1, <4>2
      <4>4. EndOf(line, b) = k
        BY <2>1, <4>1, <4>2, <4>3, EndOfWord
      <4> QED BY <2>1, <4>1, <4>4 DEF WordAt
    <3> QED BY <3>1, <3>2
  <2>4. \A b \in Begins(line) : b <= k + 1 /\ Rank(line, b) < m - 1 => t.words[Rank(line, b) + 1] = WordAt(line, b)
    BY <1>7, <2>1, <2>2
  <2>5. Len(t.words) = m - 1
    BY <1>7, <1>10, <2>1
  <2>6. Scanned(line, k + 1, t)
    BY <1>10, <2>1, <2>2, <2>3, <2>4, <2>5 DEF Scanned, mm
  <2> QED BY <2>6 DEF t, ch
\* A word begins here: the one in hand, if any, is put away.
<1>11. CASE ch # " " /\ BlankAt(line, k)
  <2>1. k + 1 \in Begins(line) /\ mm = m + 1 /\ Rank(line, k + 1) = m /\ ~BlankAt(line, k + 1)
    BY <1>1, <1>2, <1>3, <1>11, BegunAndRank DEF m, mm
  <2>2. t.letter /\ ~t.found
    BY <1>5, <1>11
  <2>3. t.cur = <<ch>> /\ Len(t.words) = m
        /\ \A b \in Begins(line) : b <= k => t.words[Rank(line, b) + 1] = WordAt(line, b)
    <3>1. CASE m = 0
      <4>1. s.words = <<>> /\ s.cur = <<>> /\ ~s.found
        BY <1>7, <3>1 DEF SplitStart
      <4>2. Append(<<>>, ch) = <<ch>> /\ Len(<<>>) = 0
        OBVIOUS
      <4>3. \A b \in Begins(line) : ~(b <= k)
        <5> SUFFICES ASSUME NEW b \in Begins(line), b <= k PROVE FALSE
          OBVIOUS
        <5>1. Rank(line, b) \in 0 .. m - 1
          BY <1>4
        <5> QED BY <3>1, <5>1
      <4> QED BY <1>5, <1>11, <3>1, <4>1, <4>2, <4>3
    <3>2. CASE m # 0
      <4>1. t.words = Append(s.words, s.cur) /\ t.cur = <<ch>> /\ Len(s.words) = m - 1
        BY <1>5, <1>7, <1>11, <3>2
      <4>2. /\ Len(t.words) = Len(s.words) + 1
            /\ \A i \in 1 .. Len(s.words) : t.words[i] = s.words[i]
            /\ t.words[Len(s.words) + 1] = s.cur
        BY <1>6, <4>1, AppendProperties
      <4>3. Len(t.words) = m
        BY <1>1, <4>1, <4>2
      <4>4. ASSUME NEW b \in Begins(line), b <= k PROVE t.words[Rank(line, b) + 1] = WordAt(line, b)
        <5>1. Rank(line, b) \in 0 .. m - 1
          BY <1>4, <4>4
        <5>2. CASE Rank(line, b) = m - 1
          <6>1. Rank(line, b) + 1 = Len(s.words) + 1
            BY <4>1, <5>2
          <6>2. s.cur = WordAt(line, b)
            BY <1>7, <1>11, <4>4, <5>2
          <6> QED BY <4>2, <6>1, <6>2
        <5>3. CASE Rank(line, b) # m - 1
          <6>1. Rank(line, b) < m - 1 /\ Rank(line, b) + 1 \in 1 .. m - 1
            BY <1>1, <5>1, <5>3
          <6> QED BY <1>7, <4>1, <4>2, <4>4, <6>1
        <5> QED BY <5>2, <5>3
      <4> QED BY <4>1, <4>3, <4>4
    <3> QED BY <3>1, <3>2
  <2>4. <<ch>> = SubSeq(line, k + 1, k + 1)
    <3> DEFINE w == SubSeq(line, k + 1, k + 1)
    <3>1. k + 1 \in Int /\ \A i \in (k + 1) .. (k + 1) : line[i] \in C
      BY <1>1
    <3>2. w \in Seq(C) /\ Len(w) = (IF k + 1 <= k + 1 THEN (k + 1) - (k + 1) + 1 ELSE 0)
          /\ \A i \in 1 .. (k + 1) - (k + 1) + 1 : w[i] = line[(k + 1) + i - 1]
      BY <3>1, SubSeqProperties
    <3>3. (k + 1) - (k + 1) + 1 = 1 /\ k + 1 <= k + 1 /\ (k + 1) + 1 - 1 = k + 1
      BY <1>1
    <3> HIDE DEF w
    <3>4. w \in Seq(C) /\ Len(w) = 1 /\ w[1] = line[k + 1]
      BY <3>2, <3>3, SMTT(60)
    <3>5. w = <<line[k + 1]>>
      BY <3>4
    <3> QED BY <3>5 DEF ch, w
  <2>5. ASSUME NEW b \in Begins(line), b <= k + 1
        PROVE  /\ Rank(line, b) < mm - 1 => t.words[Rank(line, b) + 1] = WordAt(line, b)
               /\ Rank(line, b) = mm - 1 => /\ t.cur = SubSeq(line, b, k + 1)
                                            /\ \A j \in b .. k + 1 : ~BlankAt(line, j)
    <3>1. CASE b = k + 1
      <4>1. \A j \in (k + 1) .. (k + 1) : j = k + 1
        BY <1>1
      <4>2. ~(m < mm - 1)
        BY <1>1, <2>1
      <4> QED BY <2>1, <2>3, <2>4, <3>1, <4>1, <4>2
    <3>2. CASE b # k + 1
      <4>1. b <= k
        BY <1>1, <1>4, <2>5, <3>2
      <4>2. Rank(line, b) \in 0 .. m - 1
        BY <1>4, <4>1
      <4>3. Rank(line, b) # mm - 1
        BY <1>1, <2>1, <4>2
      <4> QED BY <2>3, <4>1, <4>3
    <3> QED BY <3>1, <3>2
  <2>6. ASSUME NEW j \in 0 .. mm - 1 PROVE \E b \in Begins(line) : b <= k + 1 /\ Rank(line, b) = j
    <3>1. CASE j = m
      BY <1>1, <2>1, <3>1
    <3>2. CASE j # m
      <4>1. j \in 0 .. m - 1
        BY <1>1, <2>1, <3>2
      <4>2. PICK b \in Begins(line) : b <= k /\ Rank(line, b) = j
        BY <1>7, <4>1
      <4>3. b <= k + 1
        BY <1>1, <1>4, <4>2
      <4> QED BY <4>2, <4>3
    <3> QED BY <3>1, <3>2
  <2>7. mm # 0 /\ Len(t.words) = mm - 1
    BY <1>1, <2>1, <2>3
  <2>8. Scanned(line, k + 1, t)
    BY <2>1, <2>2, <2>5, <2>6, <2>7 DEF Scanned, mm
  <2> QED BY <2>8 DEF t, ch
\* The word in hand goes on.
<1>12. CASE ch # " " /\ ~BlankAt(line, k)
  <2>1. m # 0 /\ ~s.found /\ ~BlankAt(line, k + 1)
    BY <1>2, <1>7, <1>12
  <2>2. t.letter /\ ~t.found /\ t.words = s.words /\ t.cur = Append(s.cur, ch)
    BY <1>5, <1>12, <2>1
  <2>3. /\ mm = m
        /\ \A b \in Begins(line) : b <= k + 1 => b <= k
        /\ \A j \in 0 .. mm - 1 : \E b \in Begins(line) : b <= k + 1 /\ Rank(line, b) = j
    BY <1>3, <1>8, <1>12
  <2>4. ASSUME NEW b \in Begins(line), b <= k + 1, Rank(line, b) = m - 1
        PROVE  /\ t.cur = SubSeq(line, b, k + 1)
               /\ \A j \in b .. k + 1 : ~BlankAt(line, j)
    <3>1. s.cur = SubSeq(line, b, k) /\ \A j \in b .. k : ~BlankAt(line, j)
      BY <1>7, <1>12, <2>3, <2>4
    <3>2. b \in Nat /\ 1 <= b /\ b <= k
      BY <1>4, <2>3, <2>4
    <3>3. \A j \in b .. k + 1 : j \in b .. k \/ j = k + 1
      BY <1>1, <3>2
    <3>4. Append(SubSeq(line, b, k), line[k + 1]) = SubSeq(line, b, k + 1)
      <4>1. SubSeq(line, b, k) \in Seq(C) /\ Len(SubSeq(line, b, k)) = k - b + 1
            /\ \A i \in 1 .. k - b + 1 : SubSeq(line, b, k)[i] = line[b + i - 1]
        BY <1>1, <3>2, SubSeqProperties
      <4>2. SubSeq(line, b, k + 1) \in Seq(C) /\ Len(SubSeq(line, b, k + 1)) = k + 1 - b + 1
            /\ \A i \in 1 .. k + 1 - b + 1 : SubSeq(line, b, k + 1)[i] = line[b + i - 1]
        BY <1>1, <3>2, SubSeqProperties
      <4> DEFINE u == SubSeq(line, b, k)
                 v == SubSeq(line, b, k + 1)
      <4>3. u \in Seq(C) /\ v \in Seq(C) /\ Len(v) = Len(u) + 1
            /\ \A i \in 1 .. Len(u) : v[i] = u[i]
        BY <1>1, <3>2, <4>1, <4>2
      <4>4. v[Len(u) + 1] = line[k + 1]
        <5>1. Len(u) + 1 \in 1 .. k + 1 - b + 1 /\ b + (Len(u) + 1) - 1 = k + 1
          BY <1>1, <3>2, <4>1
        <5> DEFINE n == Len(u) + 1
        <5>2. n \in 1 .. k + 1 - b + 1 /\ b + n - 1 = k + 1
          BY <5>1
        <5> HIDE DEF n, v
        <5>3. v[n] = line[b + n - 1]
          BY <4>2, <5>2 DEF v
        <5>4. v[n] = line[k + 1]
          BY <5>2, <5>3
        <5> QED BY <5>4 DEF n
      <4>5. line[k + 1] \in C
        BY <1>1
      <4> HIDE DEF u, v
      <4>6. Append(u, line[k + 1]) \in Seq(C) /\ Len(Append(u, line[k + 1])) = Len(v)
            /\ \A i \in 1 .. Len(v) : Append(u, line[k + 1])[i] = v[i]
        BY <4>3, <4>4, <4>5, AppendProperties
      <4>7. Append(u, line[k + 1]) = v
        BY <4>3, <4>6, SeqEqual
      <4> QED BY <4>7 DEF u, v
    <3> QED BY <2>1, <2>2, <3>1, <3>3, <3>4 DEF ch
  <2>5. \A b \in Begins(line) : b <= k + 1 /\ Rank(line, b) < m - 1 => t.words[Rank(line, b) + 1] = WordAt(line, b)
    BY <1>7, <2>2, <2>3
  <2>6. Len(t.words) = m - 1
    BY <1>7, <2>1, <2>2
  <2>7. Scanned(line, k + 1, t)
    BY <2>1, <2>2, <2>3, <2>4, <2>5, <2>6 DEF Scanned, mm
  <2> QED BY <2>7 DEF t, ch
<1> QED BY <1>9, <1>10, <1>11, <1>12


LEMMA ScanAll ==
  ASSUME NEW C, NEW line \in Seq(C), NEW g
  PROVE  Splits(line, " ", Len(line), g) =>
           \A k \in 0 .. Len(line) : Scanned(line, k, g[1..k])
<1>0. Len(line) \in Nat /\ \A i \in 1..Len(line) : line[i] \in C
  OBVIOUS
<1>1. ASSUME Splits(line, " ", Len(line), g)
      PROVE  /\ g[1..0] = SplitStart
             /\ \A k \in 1..Len(line) : g[1..k] = split_step(g[1..(k - 1)], line[k], " ")
             /\ \A k \in 0..Len(line) : g[1..k] \in SplitState(C)
  BY <1>0, <1>1, SplitSteps, SplitType, ZenonT(60)
<1>2. Scanned(line, 0, SplitStart)
  <2>1. Begun(line, 0) = 0
    BY BegunAndRank
  <2>2. BlankAt(line, 0)
    <3>1. 0 \notin 1..Len(line) /\ DOMAIN line = 1..Len(line)
      BY <1>0
    <3> QED BY <3>1 DEF BlankAt
  <2>3. \A b \in Begins(line) : ~(b <= 0)
    BY BeginsFinite
  <2>4. 0 .. 0 - 1 = {}
    OBVIOUS
  <2> QED BY <2>1, <2>2, <2>3, <2>4 DEF Scanned
<1>3. ASSUME g[1..0] = SplitStart,
             \A k \in 1..Len(line) : g[1..k] = split_step(g[1..(k - 1)], line[k], " "),
             \A k \in 0..Len(line) : g[1..k] \in SplitState(C)
      PROVE  \A k \in 0 .. Len(line) : Scanned(line, k, g[1..k])
  <2> DEFINE Bad == {k \in 0 .. Len(line) : ~Scanned(line, k, g[1..k])}
  <2>1. Bad \in SUBSET Nat
    BY <1>0
  <2>2. ASSUME NEW k \in Bad, \A j \in Bad : k <= j PROVE FALSE
    <3>1. k # 0
      BY <1>2, <1>3
    <3>2. k \in 0 .. Len(line) /\ ~Scanned(line, k, g[1..k])
      OBVIOUS
    <3>3. k \in 1..Len(line) /\ k - 1 \in 0 .. Len(line) - 1 /\ k - 1 \in 0 .. Len(line)
          /\ (k - 1) + 1 = k /\ ~(k <= k - 1)
      BY <1>0, <3>1, <3>2
    <3>4. k - 1 \notin Bad
      BY <2>2, <3>3
    <3>5. Scanned(line, k - 1, g[1..(k - 1)])
      BY <3>3, <3>4
    <3>6. g[1..(k - 1)] \in SplitState(C)
      BY <1>3, <3>3
    <3>7. Scanned(line, (k - 1) + 1, split_step(g[1..(k - 1)], line[(k - 1) + 1], " "))
      BY <3>3, <3>5, <3>6, ScanStep
    <3>8. g[1..k] = split_step(g[1..(k - 1)], line[k], " ")
      BY <1>3, <3>3
    <3>9. Scanned(line, k, g[1..k])
      BY <3>3, <3>7, <3>8
    <3> QED BY <3>2, <3>9
  <2>3. Bad = {}
    BY <2>1, <2>2, LeastElement
  <2> QED BY <2>3
<1> QED BY <1>1, <1>3

\* WordsOf in terms of its parts.
LEMMA WordsOfParts ==
  ASSUME NEW line
  PROVE  WordsOf(line) =
           [k \in 1 .. Cardinality(Begins(line)) |->
              WordAt(line, CHOOSE b \in Begins(line) : Rank(line, b) = k - 1)]
BY DEF WordsOf, Begins, Rank, WordAt, EndOf, BlankAt

\* split_and_count finds the words of every line, whatever its length.
LEMMA SplitFindsWords ==
  ASSUME NEW C, NEW line \in Seq(C)
  PROVE  split_and_count(line, " ") =
           IF WordsOf(line) = <<>> THEN << <<>> >> ELSE WordsOf(line)
<1> DEFINE n == Len(line)
           B == Begins(line)
           m == Cardinality(B)
<1>1. n \in Nat /\ DOMAIN line = 1..n /\ (\A i \in 1..n : line[i] \in C) /\ n \in 0..n
  OBVIOUS
<1>2. PICK g : /\ Splits(line, " ", n, g)
               /\ split_and_count(line, " ") = Append(g[1..n].words, g[1..n].cur)
  BY <1>1, SplitValue
<1> DEFINE s == g[1..n]
<1>3. s \in SplitState(C)
  BY <1>1, <1>2, SplitType
<1>4. Scanned(line, n, s)
  BY <1>1, <1>2, ScanAll
<1>5. s.words \in Seq(Seq(C)) /\ s.cur \in Seq(C)
  BY <1>3 DEF SplitState
<1>6. Begun(line, n) = m /\ m \in Nat
  BY <1>1, BegunAndRank
<1>7. \A b \in B : b \in 1..n
  BY BeginsFinite
<1> DEFINE W == [k \in 1 .. m |-> WordAt(line, CHOOSE b \in B : Rank(line, b) = k - 1)]
<1>8. WordsOf(line) = W
  BY WordsOfParts
<1> HIDE DEF s, n, B, m
<1>9. CASE m = 0
  <2>1. W = <<>>
    BY <1>9
  <2>2. s = SplitStart
    BY <1>4, <1>6, <1>9 DEF Scanned
  <2>3. Append(s.words, s.cur) = << <<>> >>
    BY <2>2 DEF SplitStart
  <2> QED BY <1>2, <1>8, <2>1, <2>3 DEF s, n
<1>10. CASE m # 0
  <2>1. Len(s.words) = m - 1
    BY <1>4, <1>6, <1>10 DEF Scanned
  <2> DEFINE A == Append(s.words, s.cur)
  <2>2. A \in Seq(Seq(C)) /\ Len(A) = m /\ DOMAIN A = 1..m
    BY <1>5, <1>6, <2>1
  <2>3. ASSUME NEW b \in B, Rank(line, b) = m - 1 PROVE s.cur = WordAt(line, b)
    <3>1. b \in Nat /\ 1 <= b /\ b <= n
      BY <1>1, <1>7
    <3>2. CASE BlankAt(line, n)
      BY <1>4, <1>6, <2>3, <3>1, <3>2 DEF Scanned, B
    <3>3. CASE ~BlankAt(line, n)
      <4>1. s.cur = SubSeq(line, b, n) /\ \A j \in b .. n : ~BlankAt(line, j)
        BY <1>4, <1>6, <2>3, <3>1, <3>3 DEF Scanned, B
      <4>2. BlankAt(line, n + 1)
        <5>1. n + 1 \notin 1..n
          BY <1>1
        <5> QED BY <1>1, <5>1 DEF BlankAt
      <4>3. EndOf(line, b) = n
        <5>1. b \in 1..n /\ n \in b..n
          BY <1>1, <3>1
        <5> QED BY <4>1, <4>2, <5>1, EndOfWord DEF n
      <4> QED BY <4>1, <4>3 DEF WordAt
    <3> QED BY <3>2, <3>3
  <2>4. ASSUME NEW k \in 1..m PROVE A[k] = W[k]
    <3> DEFINE b == CHOOSE b \in B : Rank(line, b) = k - 1
    <3>1. k - 1 \in 0 .. m - 1
      BY <1>6
    <3>2. \E c \in B : Rank(line, c) = k - 1
      <4> DEFINE j == k - 1
      <4>1. j \in 0 .. Begun(line, n) - 1
        BY <1>6, <3>1
      <4> HIDE DEF j
      <4>2. \E c \in B : c <= n /\ Rank(line, c) = j
        BY <1>4, <4>1 DEF Scanned, B
      <4> QED BY <4>2 DEF j
    <3>3. b \in B /\ Rank(line, b) = k - 1
      BY <3>2
    <3>4. W[k] = WordAt(line, b)
      OBVIOUS
    <3> HIDE DEF b, W
    <3>5. CASE k = m
      <4>1. A[m] = s.cur
        BY <1>5, <1>6, <2>1, AppendProperties
      <4>2. Rank(line, b) = m - 1
        BY <3>3, <3>5
      <4> QED BY <2>3, <3>3, <3>4, <3>5, <4>1, <4>2
    <3>6. CASE k # m
      <4>1. k \in 1 .. m - 1 /\ k - 1 < m - 1 /\ (k - 1) + 1 = k
        BY <1>6, <3>6
      <4>2. A[k] = s.words[k]
        BY <1>5, <2>1, <4>1, AppendProperties
      <4>3. b <= n
        BY <1>1, <1>7, <3>3
      <4>4. s.words[Rank(line, b) + 1] = WordAt(line, b)
        <5>1. Rank(line, b) < Begun(line, n) - 1
          BY <1>6, <3>3, <4>1
        <5> QED BY <1>4, <3>3, <4>3, <5>1 DEF Scanned, B
      <4> QED BY <3>3, <3>4, <4>1, <4>2, <4>4
    <3> QED BY <3>5, <3>6
  <2>5. A = W
    <3>1. W = [k \in 1..m |-> W[k]]
      OBVIOUS
    <3>2. A = [k \in 1..m |-> A[k]]
      BY <2>2
    <3> HIDE DEF A, W
    <3> QED BY <2>4, <3>1, <3>2
  <2>6. A # <<>>
    BY <1>6, <1>10, <2>2
  <2> HIDE DEF A, W
  <2> QED BY <1>2, <1>8, <2>5, <2>6 DEF s, A, n
<1> QED BY <1>9, <1>10

\* Wherever the blanks stand, a command line is cut into its maximal runs of
\* other characters, in order, with none lost, split or joined (strings.c,
\* split_and_count); a line of blanks is one empty word.  SplitFindsWords is the
\* same for lines of any length and any characters.
THEOREM SplittingIsExact == Spec => []WordsAreWords
<1>1. WordsAreWords
  <2>1. \A line \in SeqOf({"a", "b", " "}, MaxLine) : line \in Seq({"a", "b", " "})
    <3> DEFINE K == {"a", "b", " "}
    <3> HIDE DEF K
    <3>1. \A m \in 0 .. MaxLine : \A line \in [1 .. m -> K] : line \in Seq(K)
      BY BoundsAssumption
    <3>2. \A line \in SeqOf(K, MaxLine) : line \in Seq(K)
      BY <3>1 DEF SeqOf
    <3> QED BY <3>2 DEF K
  <2> QED BY <2>1, SplitFindsWords DEF WordsAreWords
<1> QED BY <1>1, PTL DEF Spec

-----------------------------------------------------------------------------
(***************************************************************************)
(* How often a line of the script is run.  A shell that will still come to *)
(* line i has a chance for every set of unknown commands on its way: at    *)
(* each of them it may go on as the parent or as the child whose exec      *)
(* fails.  A start of line i uses up a chance and a fork shares those of   *)
(* the parent, so that starts and chances together never exceed what the   *)
(* starts of the script have brought.                                      *)
(***************************************************************************)

\* The lines that p has behind it.
Behind(p) == IF pc[p] = "run" THEN ptr1[p] - 1 ELSE ptr1[p]

\* A child comes to line i only if its own line is an unknown command.
ComesTo(p, i) ==
  /\ kind[p] = "shell" /\ mode[p] = "script" /\ Behind(p) < i
  /\ pc[p] = "child" => ptr1[p] \in UnknownBefore(i)

Chances(i) ==
  {t \in Pids \X SUBSET UnknownBefore(i) : ComesTo(t[1], i) /\ \A k \in t[2] : k > Behind(t[1])}

All(i) == Cardinality(SUBSET UnknownBefore(i))

\* The words in hand are those of the line last read.
LineInHand ==
  \A p \in Pids : kind[p] = "shell" /\ mode[p] = "script" /\ pc[p] \in {"run", "child"} =>
    /\ ptr1[p] >= 2 /\ script[ptr1[p]] # <<>>
    /\ words[p] = split_and_count(script[ptr1[p]], " ")
    /\ pc[p] = "child" => words[p][1] \notin Builtins

ChancesCounted ==
  \A i \in DOMAIN script : started[i] + Cardinality(Chances(i)) <= runs * All(i)

Histories == runs \in Nat /\ started \in [DOMAIN script -> Nat]

ScriptInv == TypeInv /\ Histories /\ LineInHand /\ ChancesCounted

LEMMA Products == \A a, b \in Nat : a * b \in Nat /\ (a + 1) * b = a * b + b
OBVIOUS

LEMMA ScriptKnown ==
  ASSUME TypeInv
  PROVE  Len(script) \in Nat /\ DOMAIN script = 1 .. Len(script)
BY LinesAssumption DEF TypeInv

LEMMA ChancesFinite ==
  ASSUME NEW i \in Nat
  PROVE  /\ IsFiniteSet(UnknownBefore(i)) /\ IsFiniteSet(Pids \X SUBSET UnknownBefore(i))
         /\ IsFiniteSet(Chances(i)) /\ Cardinality(Chances(i)) \in Nat
         /\ All(i) \in Nat /\ All(i) = 2 ^ Cardinality(UnknownBefore(i))
<1>1. IsFiniteSet(2 .. i - 1)
  BY FS_Interval
<1>2. UnknownBefore(i) \in SUBSET (2 .. i - 1)
  BY DEF UnknownBefore
<1>3. IsFiniteSet(UnknownBefore(i))
  BY <1>1, <1>2, FS_Subset
<1>4. IsFiniteSet(SUBSET UnknownBefore(i)) /\ All(i) = 2 ^ Cardinality(UnknownBefore(i))
  BY <1>3, FS_SUBSET DEF All
<1>5. All(i) \in Nat
  BY <1>4, FS_CardinalityType DEF All
<1>6. IsFiniteSet(Pids \X SUBSET UnknownBefore(i))
  BY <1>4, PidsAssumption, FS_Product
<1>7. Chances(i) \in SUBSET (Pids \X SUBSET UnknownBefore(i))
  BY DEF Chances
<1>8. IsFiniteSet(Chances(i))
  BY <1>6, <1>7, FS_Subset
<1>9. Cardinality(Chances(i)) \in Nat
  BY <1>8, FS_CardinalityType
<1> QED BY <1>3, <1>4, <1>5, <1>6, <1>8, <1>9

\* The script stays, and with it what is unknown.
LEMMA SameScript ==
  ASSUME script' = script
  PROVE  \A i : UnknownBefore(i)' = UnknownBefore(i) /\ All(i)' = All(i)
BY DEF UnknownBefore, All

\* A step that brings no process closer to a line.
LEMMA NoNewChances ==
  ASSUME script' = script, NEW i \in Nat,
         \A p \in Pids : ComesTo(p, i)' =>
           ComesTo(p, i) /\ Behind(p) \in Int /\ Behind(p)' \in Int /\ Behind(p) <= Behind(p)'
  PROVE  Chances(i)' \subseteq Chances(i)
<1> SUFFICES ASSUME NEW t \in Chances(i)' PROVE t \in Chances(i)
  OBVIOUS
<1>1. UnknownBefore(i)' = UnknownBefore(i)
  BY SameScript
<1>2. t \in Pids \X SUBSET UnknownBefore(i)
  BY <1>1 DEF Chances
<1>3. PICK p \in Pids, s \in SUBSET UnknownBefore(i) : t = <<p, s>>
  BY <1>2
<1>4. t[1] = p /\ t[2] = s
  BY <1>3
<1>5. ComesTo(p, i)' /\ \A k \in s : k > Behind(p)'
  BY <1>4 DEF Chances
<1>6. \A k \in s : k \in Int
  <2>1. \A k \in UnknownBefore(i) : k \in 2 .. i - 1
    BY DEF UnknownBefore
  <2> QED BY <1>3, <2>1
<1>7. \A k \in s : k > Behind(p)
  BY <1>5, <1>6
<1> QED BY <1>2, <1>4, <1>5, <1>7 DEF Chances

LEMMA QuietStep ==
  ASSUME TypeInv, Histories, ChancesCounted, script' = script, runs' = runs, started' = started,
         \A i \in DOMAIN script : Chances(i)' \subseteq Chances(i)
  PROVE  Histories' /\ ChancesCounted'
<1>1. Histories'
  BY DEF Histories
<1>2. ASSUME NEW i \in DOMAIN script
      PROVE  started'[i] + Cardinality(Chances(i)') <= runs' * All(i)'
  <2>1. i \in Nat /\ All(i)' = All(i)
    BY ScriptKnown, SameScript
  <2>2. IsFiniteSet(Chances(i)) /\ Cardinality(Chances(i)) \in Nat
    BY <2>1, ChancesFinite
  <2>3. Cardinality(Chances(i)') <= Cardinality(Chances(i)) /\ Cardinality(Chances(i)') \in Nat
    BY <2>2, FS_Subset, FS_CardinalityType
  <2>4. started[i] \in Nat /\ started[i] + Cardinality(Chances(i)) <= runs * All(i)
    BY DEF Histories, ChancesCounted
  <2>5. runs * All(i) \in Nat
    <3>1. All(i) \in Nat /\ runs \in Nat
      BY <2>1, ChancesFinite DEF Histories
    <3> QED BY <3>1, Products
  <2> DEFINE a == runs * All(i)
  <2>6. started'[i] = started[i] /\ runs' * All(i)' = a
    BY <2>1
  <2> HIDE DEF a
  <2> QED BY <2>2, <2>3, <2>4, <2>5, <2>6 DEF a
<1> QED BY <1>1, <1>2 DEF ChancesCounted

\* The types that the steps need.
LEMMA ProcessTypes ==
  ASSUME TypeInv
  PROVE  /\ kind \in [Pids -> {"none", "shell", "program", "zombie"}]
         /\ mode \in [Pids -> {"terminal", "script"}]
         /\ pc \in [Pids -> {"read", "run", "child", "wait"}]
         /\ ptr1 \in [Pids -> 0 .. Len(script)]
         /\ words = [p \in Pids |-> words[p]]
         /\ Len(script) \in Nat
         /\ \A p \in Pids : ptr1[p] \in Nat /\ Behind(p) \in Int /\ Behind(p) <= ptr1[p]
                            /\ (pc[p] # "run" => Behind(p) = ptr1[p])
                            /\ (pc[p] = "run" => Behind(p) = ptr1[p] - 1)
<1>1. /\ kind \in [Pids -> {"none", "shell", "program", "zombie"}]
      /\ mode \in [Pids -> {"terminal", "script"}]
      /\ pc \in [Pids -> {"read", "run", "child", "wait"}]
      /\ ptr1 \in [Pids -> 0 .. Len(script)]
      /\ words = [p \in Pids |-> words[p]]
  BY DEF TypeInv, TypeOK
<1>2. Len(script) \in Nat
  BY ScriptKnown
<1>3. \A p \in Pids : ptr1[p] \in Nat
  BY <1>1, <1>2
<1>4. \A p \in Pids : Behind(p) = IF pc[p] = "run" THEN ptr1[p] - 1 ELSE ptr1[p]
  BY DEF Behind
<1> HIDE DEF Behind
<1>5. ASSUME NEW p \in Pids
      PROVE  /\ Behind(p) \in Int /\ Behind(p) <= ptr1[p]
             /\ (pc[p] # "run" => Behind(p) = ptr1[p]) /\ (pc[p] = "run" => Behind(p) = ptr1[p] - 1)
  <2>1. CASE pc[p] = "run"
    BY <1>3, <1>4, <2>1
  <2>2. CASE pc[p] # "run"
    BY <1>3, <1>4, <2>2
  <2> QED BY <2>1, <2>2
<1> QED BY <1>1, <1>2, <1>3, <1>5

\* Most steps change one process, p: it is no shell with the script any more,
\* or has not come closer.
StaysOrEnds(q) ==
  \/ kind'[q] # "shell"
  \/ /\ kind'[q] = kind[q] /\ mode'[q] = mode[q] /\ pc'[q] = pc[q] /\ ptr1'[q] = ptr1[q]
     /\ words'[q] = words[q]
NotCloser(p) ==
  \/ kind'[p] # "shell" \/ mode'[p] # "script"
  \/ /\ kind[p] = "shell" /\ mode[p] = "script" /\ pc[p] # "child"
     /\ Behind(p) <= Behind(p)'
     /\ pc'[p] # "child"
     /\ pc'[p] = "run" => /\ ptr1'[p] >= 2 /\ script[ptr1'[p]] # <<>>
                          /\ words'[p] = split_and_count(script[ptr1'[p]], " ")

LEMMA NextTypes ==
  ASSUME TypeInv, TypeInv', script' = script
  PROVE  \A q \in Pids : /\ ptr1'[q] \in Nat /\ Behind(q) \in Int /\ Behind(q)' \in Int
                         /\ (pc'[q] # "run" => Behind(q)' = ptr1'[q])
                         /\ (pc'[q] = "run" => Behind(q)' = ptr1'[q] - 1)
<1>1. ptr1' \in [Pids -> 0 .. Len(script)] /\ Len(script) \in Nat
  BY ScriptKnown DEF TypeInv, TypeOK
<1>2. \A q \in Pids : ptr1'[q] \in Nat
  BY ONLY <1>1
<1>3. \A q \in Pids : Behind(q)' = IF pc'[q] = "run" THEN ptr1'[q] - 1 ELSE ptr1'[q]
  BY DEF Behind
<1>4. \A q \in Pids : Behind(q) \in Int
  BY ProcessTypes
<1> QED BY <1>2, <1>3, <1>4

LEMMA LineNumber ==
  ASSUME TypeInv, NEW i \in DOMAIN script
  PROVE  i \in Nat /\ i \in 1 .. Len(script)
BY ScriptKnown

LEMMA OneMoves ==
  ASSUME ScriptInv, TypeInv', NEW p \in Pids, script' = script, runs' = runs, started' = started,
         \A q \in Pids : q # p => StaysOrEnds(q), NotCloser(p)
  PROVE  ScriptInv'
<1>1. TypeInv /\ Histories /\ LineInHand /\ ChancesCounted
  BY DEF ScriptInv
<1>2. \A q \in Pids : Behind(q) \in Int /\ Behind(q)' \in Int
  BY <1>1, NextTypes
<1>3. ASSUME NEW i \in DOMAIN script PROVE Chances(i)' \subseteq Chances(i)
  <2>0. i \in Nat
    BY <1>1, LineNumber
  <2>1. ASSUME NEW q \in Pids, ComesTo(q, i)' PROVE ComesTo(q, i) /\ Behind(q) <= Behind(q)'
    <3>0. UnknownBefore(i)' = UnknownBefore(i)
      BY SameScript
    <3>1. /\ kind'[q] = "shell" /\ mode'[q] = "script" /\ Behind(q)' < i
          /\ pc'[q] = "child" => ptr1'[q] \in UnknownBefore(i)
      BY <2>1, <3>0 DEF ComesTo
    <3>2. CASE q = p
      <4>1. /\ kind[p] = "shell" /\ mode[p] = "script" /\ pc[p] # "child"
            /\ Behind(p) <= Behind(p)'
        BY <3>1, <3>2 DEF NotCloser
      <4> DEFINE a == Behind(p)
                 b == Behind(p)'
      <4>2. a \in Int /\ b \in Int /\ a <= b /\ b < i
        BY <1>2, <3>1, <3>2, <4>1
      <4> HIDE DEF a, b
      <4>3. a < i
        BY <2>0, <4>2
      <4> QED BY <3>2, <4>1, <4>3 DEF ComesTo, a
    <3>3. CASE q # p
      <4>1. kind'[q] = kind[q] /\ mode'[q] = mode[q] /\ pc'[q] = pc[q] /\ ptr1'[q] = ptr1[q]
        BY <3>1, <3>3 DEF StaysOrEnds
      <4>2. Behind(q)' = Behind(q) /\ Behind(q) \in Int
        BY <1>2, <4>1 DEF Behind
      <4>3. Behind(q) <= Behind(q)'
        <5> DEFINE a == Behind(q)
        <5>1. a \in Int /\ Behind(q)' = a
          BY <4>2
        <5> HIDE DEF a
        <5>2. a <= a
          BY <5>1
        <5> QED BY <5>1, <5>2 DEF a
      <4>4. ComesTo(q, i)
        BY <3>1, <4>1, <4>2 DEF ComesTo
      <4> QED BY <4>3, <4>4
    <3> QED BY <3>2, <3>3
  <2>2. \A q \in Pids : ComesTo(q, i)' =>
          ComesTo(q, i) /\ Behind(q) \in Int /\ Behind(q)' \in Int /\ Behind(q) <= Behind(q)'
    BY <1>2, <2>1
  <2> QED BY <2>0, <2>2, NoNewChances
<1>4. Histories' /\ ChancesCounted'
  BY <1>1, <1>3, QuietStep
<1>5. LineInHand'
  <2> SUFFICES ASSUME NEW q \in Pids, kind'[q] = "shell", mode'[q] = "script", pc'[q] \in {"run", "child"}
      PROVE  /\ ptr1'[q] >= 2 /\ script[ptr1'[q]] # <<>>
             /\ words'[q] = split_and_count(script[ptr1'[q]], " ")
             /\ pc'[q] = "child" => words'[q][1] \notin Builtins
    BY DEF LineInHand
  <2>1. CASE q = p
    BY <2>1 DEF NotCloser
  <2>2. CASE q # p
    <3>1. /\ kind'[q] = kind[q] /\ mode'[q] = mode[q] /\ pc'[q] = pc[q] /\ ptr1'[q] = ptr1[q]
          /\ words'[q] = words[q]
      BY <2>2 DEF StaysOrEnds
    <3>2. /\ ptr1[q] >= 2 /\ script[ptr1[q]] # <<>>
          /\ words[q] = split_and_count(script[ptr1[q]], " ")
          /\ pc[q] = "child" => words[q][1] \notin Builtins
      BY <1>1, <3>1 DEF LineInHand
    <3> QED BY <3>1, <3>2
  <2> QED BY <2>1, <2>2
<1> QED BY <1>4, <1>5 DEF ScriptInv

LEMMA ScriptInit == Init => ScriptInv
<1> SUFFICES ASSUME Init PROVE ScriptInv
  OBVIOUS
<1>1. TypeInv
  BY TypeInit
<1>2. \A p \in Pids : mode[p] = "terminal" /\ pc[p] = "read"
  BY DEF Init
<1>3. runs = 0 /\ started = [i \in DOMAIN script |-> 0]
  BY DEF Init
<1>4. Histories
  BY <1>3 DEF Histories
<1>5. LineInHand
  BY <1>2 DEF LineInHand
<1>6. ASSUME NEW i \in DOMAIN script PROVE started[i] + Cardinality(Chances(i)) <= runs * All(i)
  <2>1. Chances(i) = {}
    BY <1>2 DEF Chances, ComesTo
  <2>2. Cardinality(Chances(i)) = 0
    BY <2>1, FS_EmptySet
  <2>3. All(i) \in Nat
    BY <1>1, LineNumber, ChancesFinite
  <2> DEFINE a == All(i)
  <2> HIDE DEF a
  <2>4. 0 * a = 0
    BY <2>3 DEF a
  <2> QED BY <1>3, <2>2, <2>4 DEF a
<1> QED BY <1>1, <1>4, <1>5, <1>6 DEF ScriptInv, ChancesCounted

\* The places of a shell with the script that read its next line.
LEMMA ReadScriptLines ==
  ASSUME ScriptInv, TypeInv', NEW p \in Pids, ReadScript(p)
  PROVE  ScriptInv'
<1> USE DEF ScriptInv
<1> DEFINE line == script[ptr1[p] + 1]
<1>1. /\ kind \in [Pids -> {"none", "shell", "program", "zombie"}]
      /\ pc \in [Pids -> {"read", "run", "child", "wait"}]
      /\ ptr1 \in [Pids -> 0 .. Len(script)]
      /\ words = [q \in Pids |-> words[q]]
      /\ ptr1[p] \in Nat
      /\ Behind(p) = ptr1[p]
  BY ProcessTypes DEF ReadScript
<1>2. /\ kind[p] = "shell" /\ mode[p] = "script" /\ pc[p] = "read"
      /\ UNCHANGED <<kind, mode, script, runs, started>>
      /\ ptr1' = [ptr1 EXCEPT ![p] = @ + 1]
      /\ words' = [words EXCEPT ![p] = split_and_count(line, " ")]
      /\ pc' = [pc EXCEPT ![p] = IF ptr1[p] = 0 \/ line = <<>> THEN "read" ELSE "run"]
  BY DEF ReadScript
<1> HIDE DEF line
<1>3. /\ ptr1'[p] = ptr1[p] + 1 /\ words'[p] = split_and_count(line, " ")
      /\ pc'[p] \in {"read", "run"} /\ (pc'[p] = "run" => ptr1[p] # 0 /\ line # <<>>)
      /\ \A q \in Pids : q # p => pc'[q] = pc[q] /\ ptr1'[q] = ptr1[q] /\ words'[q] = words[q]
  BY <1>1, <1>2
<1>4. \A q \in Pids : q # p => StaysOrEnds(q)
  BY <1>2, <1>3 DEF StaysOrEnds
<1>5. (pc'[p] # "run" => Behind(p)' = ptr1'[p]) /\ (pc'[p] = "run" => Behind(p)' = ptr1'[p] - 1)
  BY <1>2, NextTypes
<1>6. Behind(p) <= Behind(p)'
  <2> DEFINE a == Behind(p)
             b == Behind(p)'
             x == ptr1[p]
             y == ptr1'[p]
  <2>1. a = x /\ x \in Nat /\ y = x + 1 /\ (b = y \/ b = y - 1)
    BY <1>1, <1>3, <1>5
  <2> HIDE DEF a, b, x, y
  <2>2. a <= b
    BY <2>1
  <2> QED BY <2>2 DEF a, b
<1>7. pc'[p] = "run" => ptr1'[p] >= 2 /\ script[ptr1'[p]] = line
  <2>1. ptr1'[p] = ptr1[p] + 1 /\ ptr1[p] \in Nat /\ (pc'[p] = "run" => ptr1[p] # 0)
    BY <1>1, <1>3
  <2>2. pc'[p] = "run" => ptr1'[p] >= 2
    BY ONLY <2>1
  <2> QED BY <2>1, <2>2 DEF line
<1>8. NotCloser(p)
  BY <1>2, <1>3, <1>6, <1>7 DEF NotCloser
<1> QED BY <1>2, <1>4, <1>8, OneMoves

\* A process that is no shell any more.
LEMMA NoShellAnyMore ==
  ASSUME ScriptInv, TypeInv', NEW p \in Pids, NEW v \in {"program", "zombie"},
         kind' = [kind EXCEPT ![p] = v], UNCHANGED <<mode, pc, ptr1, words, script, runs, started>>
  PROVE  ScriptInv'
<1>1. kind \in [Pids -> {"none", "shell", "program", "zombie"}]
  BY ProcessTypes DEF ScriptInv
<1>2. kind'[p] # "shell" /\ \A q \in Pids : q # p => kind'[q] = kind[q]
  BY <1>1
<1>3. NotCloser(p) /\ \A q \in Pids : q # p => StaysOrEnds(q)
  BY <1>2 DEF NotCloser, StaysOrEnds
<1> QED BY <1>3, OneMoves

LEMMA TypedLinesApart ==
  ASSUME ScriptInv, TypeInv', NEW p \in Pids, NEW line, ReadTyped(p, line)
  PROVE  ScriptInv'
<1>1. /\ kind[p] = "shell" /\ mode[p] = "terminal"
      /\ UNCHANGED <<kind, mode, ptr1, script, runs, started>>
      /\ words' = [words EXCEPT ![p] = split_and_count(line, " ")]
      /\ pc' = [pc EXCEPT ![p] = IF line = <<>> THEN "read" ELSE "run"]
  BY DEF ReadTyped
<1>2. pc \in [Pids -> {"read", "run", "child", "wait"}] /\ words = [q \in Pids |-> words[q]]
  BY ProcessTypes DEF ScriptInv
<1>3. \A q \in Pids : q # p => pc'[q] = pc[q] /\ words'[q] = words[q]
  BY <1>1, <1>2
<1>4. NotCloser(p) /\ \A q \in Pids : q # p => StaysOrEnds(q)
  BY <1>1, <1>3 DEF NotCloser, StaysOrEnds
<1> QED BY <1>1, <1>4, OneMoves

\* Back to the loop: with a line done, or with a child collected.
LEMMA BackToReading ==
  ASSUME ScriptInv, TypeInv', NEW p \in Pids, kind[p] = "shell", pc[p] \in {"run", "wait"},
         kind'[p] = kind[p], mode'[p] = mode[p], ptr1'[p] = ptr1[p], pc'[p] = "read",
         script' = script, runs' = runs, started' = started,
         \A q \in Pids : q # p => StaysOrEnds(q)
  PROVE  ScriptInv'
<1>1. Behind(p)' = ptr1[p]
  BY NextTypes DEF ScriptInv
<1>2. Behind(p) <= ptr1[p]
  BY ProcessTypes DEF ScriptInv
<1>3. NotCloser(p)
  BY <1>1, <1>2 DEF NotCloser
<1> QED BY <1>3, OneMoves

LEMMA BuiltinLines ==
  ASSUME ScriptInv, TypeInv', NEW p \in Pids, Builtin(p)
  PROVE  ScriptInv'
<1>1. kind[p] = "shell" /\ pc[p] = "run" /\ UNCHANGED <<mode, ptr1, words, script, runs, started>>
  BY DEF Builtin
<1>2. CASE kind' = [kind EXCEPT ![p] = "zombie"] /\ pc' = pc
  BY <1>1, <1>2, NoShellAnyMore
<1>3. CASE kind' = kind /\ pc' = [pc EXCEPT ![p] = "read"]
  <2>1. pc \in [Pids -> {"read", "run", "child", "wait"}]
    BY ProcessTypes DEF ScriptInv
  <2>2. pc'[p] = "read" /\ \A q \in Pids : q # p => pc'[q] = pc[q]
    BY <1>3, <2>1
  <2>3. \A q \in Pids : q # p => StaysOrEnds(q)
    BY <1>1, <1>3, <2>2 DEF StaysOrEnds
  <2> QED BY <1>1, <1>3, <2>2, <2>3, BackToReading
<1> QED BY <1>2, <1>3 DEF Builtin, exit

\* Nothing that counts for the lines of the script changes.
LEMMA SameLines ==
  ASSUME ScriptInv, TypeInv', UNCHANGED <<kind, mode, pc, ptr1, words, script, runs, started>>
  PROVE  ScriptInv'
<1>1. UNCHANGED <<Histories, LineInHand>> /\ \A i : Chances(i)' = Chances(i) /\ All(i)' = All(i)
  BY DEF Histories, LineInHand, Chances, ComesTo, Behind, UnknownBefore, All
<1>2. ChancesCounted'
  BY <1>1 DEF ScriptInv, ChancesCounted
<1> QED BY <1>1, <1>2 DEF ScriptInv

LEMMA CollectedLines ==
  ASSUME ScriptInv, TypeInv', NEW p \in Pids, waitpid(p) \/ InitCollects(p)
  PROVE  ScriptInv'
<1>0. ScriptInv /\ TypeInv'
  OBVIOUS
<1>1. /\ kind \in [Pids -> {"none", "shell", "program", "zombie"}]
      /\ mode \in [Pids -> {"terminal", "script"}]
      /\ pc \in [Pids -> {"read", "run", "child", "wait"}]
      /\ ptr1 \in [Pids -> 0 .. Len(script)]
      /\ words = [q \in Pids |-> words[q]]
  BY ProcessTypes DEF ScriptInv
<1>2. CASE waitpid(p)
  <2>0. kind[p] = "shell" /\ pc[p] = "wait"
    BY <1>2 DEF waitpid
  <2>1. ASSUME NEW c \in Collectable(p), Collect(c),
               words' = [words EXCEPT ![p] = <<>>, ![c] = <<>>],
               pc' = [pc EXCEPT ![p] = "read", ![c] = "read"]
        PROVE  ScriptInv'
    <3>2. c \in Pids /\ kind[c] = "zombie" /\ c # p
      BY <2>0 DEF Collectable, Children
    <3>3. /\ kind' = [kind EXCEPT ![c] = "none"] /\ mode' = [mode EXCEPT ![c] = "terminal"]
          /\ ptr1' = [ptr1 EXCEPT ![c] = 0] /\ UNCHANGED <<script, runs, started>>
      BY <2>1 DEF Collect
    <3>4. /\ kind'[c] = "none" /\ pc'[p] = "read" /\ kind'[p] = kind[p] /\ mode'[p] = mode[p]
          /\ ptr1'[p] = ptr1[p]
          /\ \A q \in Pids : q # p /\ q # c =>
               /\ kind'[q] = kind[q] /\ mode'[q] = mode[q] /\ pc'[q] = pc[q]
               /\ ptr1'[q] = ptr1[q] /\ words'[q] = words[q]
      BY <1>1, <2>1, <3>2, <3>3
    <3>5. \A q \in Pids : q # p => StaysOrEnds(q)
      BY <3>4 DEF StaysOrEnds
    <3> QED BY <2>0, <3>3, <3>4, <3>5, BackToReading
  <2>2. ASSUME UNCHANGED <<own, script, runs, started>> PROVE ScriptInv'
    BY <1>0, <2>2, SameLines DEF own
  <2>3. ASSUME words' = [words EXCEPT ![p] = <<>>], pc' = [pc EXCEPT ![p] = "read"],
               UNCHANGED <<kind, mode, ptr1, script, runs, started>>
        PROVE  ScriptInv'
    <3>1. pc'[p] = "read" /\ \A q \in Pids : q # p => pc'[q] = pc[q] /\ words'[q] = words[q]
      BY <1>1, <2>3
    <3>2. \A q \in Pids : q # p => StaysOrEnds(q)
      BY <2>3, <3>1 DEF StaysOrEnds
    <3> QED BY <2>0, <2>3, <3>1, <3>2, BackToReading
  <2> QED BY <1>2, <2>1, <2>2, <2>3 DEF waitpid
<1>3. CASE InitCollects(p)
  <2>1. /\ kind' = [kind EXCEPT ![p] = "none"] /\ mode' = [mode EXCEPT ![p] = "terminal"]
        /\ ptr1' = [ptr1 EXCEPT ![p] = 0] /\ UNCHANGED <<script, runs, started>>
        /\ words' = [words EXCEPT ![p] = <<>>] /\ pc' = [pc EXCEPT ![p] = "read"]
    BY <1>3 DEF InitCollects, Collect
  <2>2. /\ kind'[p] = "none"
        /\ \A q \in Pids : q # p =>
             /\ kind'[q] = kind[q] /\ mode'[q] = mode[q] /\ pc'[q] = pc[q] /\ ptr1'[q] = ptr1[q]
             /\ words'[q] = words[q]
    BY <1>1, <2>1
  <2>3. NotCloser(p) /\ \A q \in Pids : q # p => StaysOrEnds(q)
    BY <2>2 DEF NotCloser, StaysOrEnds
  <2> QED BY <2>1, <2>3, OneMoves
<1> QED BY <1>2, <1>3

LEMMA SameProcess ==
  ASSUME script' = script, NEW q,
         kind'[q] = kind[q], mode'[q] = mode[q], pc'[q] = pc[q], ptr1'[q] = ptr1[q]
  PROVE  Behind(q)' = Behind(q) /\ \A i : ComesTo(q, i)' = ComesTo(q, i)
<1>1. Behind(q)' = Behind(q)
  BY DEF Behind
<1>2. \A i : UnknownBefore(i)' = UnknownBefore(i)
  BY SameScript
<1> QED BY <1>1, <1>2 DEF ComesTo

LEMMA OneChance ==
  ASSUME script' = script, NEW i, NEW t \in Chances(i)'
  PROVE  \E q \in Pids, s \in SUBSET UnknownBefore(i) :
           /\ t = <<q, s>> /\ ComesTo(q, i)'
           /\ \A k \in s : k > Behind(q)'
<1>1. UnknownBefore(i)' = UnknownBefore(i)
  BY SameScript
<1>2. PICK q \in Pids, s \in SUBSET UnknownBefore(i) : t = <<q, s>>
  BY <1>1 DEF Chances
<1>3. t[1] = q /\ t[2] = s
  BY <1>2
<1>4. ComesTo(q, i)' /\ \A k \in s : k > Behind(q)'
  BY <1>3 DEF Chances
<1> QED BY <1>2, <1>4

LEMMA IsChance ==
  ASSUME NEW i, NEW q \in Pids, NEW s \in SUBSET UnknownBefore(i), ComesTo(q, i),
         \A k \in s : k > Behind(q)
  PROVE  <<q, s>> \in Chances(i)
BY DEF Chances

\* A child whose exec fails knows why: its line is an unknown command.
LEMMA FailedExecLines ==
  ASSUME ScriptInv, TypeInv', NEW p \in Pids, kind[p] = "shell", mode[p] = "script", pc[p] = "child",
         Command(words[p]) \notin Programs \cup {RunScript, NULL},
         pc' = [pc EXCEPT ![p] = "read"], ptr1' = ptr1,
         UNCHANGED <<kind, mode, words, script, runs, started>>
  PROVE  ScriptInv'
<1>0. TypeInv /\ Histories /\ LineInHand /\ ChancesCounted
  BY DEF ScriptInv
<1>1. pc'[p] = "read" /\ \A q \in Pids : q # p => pc'[q] = pc[q]
  BY <1>0, ProcessTypes
<1>2. /\ ptr1[p] \in Nat /\ ptr1[p] >= 2 /\ script[ptr1[p]] # <<>>
      /\ words[p] = split_and_count(script[ptr1[p]], " ")
      /\ words[p][1] \notin Builtins
  BY <1>0, ProcessTypes DEF LineInHand
<1>8. ptr1[p] \in Nat /\ ptr1[p] >= 2
  BY <1>2
<1>3. Command(words[p]) \notin Programs \cup Builtins \cup {RunScript, NULL}
  BY <1>2 DEF Command
<1>4. Behind(p) = ptr1[p] /\ Behind(p)' = ptr1[p]
  BY <1>0, <1>1, ProcessTypes, NextTypes
<1>5. ASSUME NEW i \in DOMAIN script PROVE Chances(i)' \subseteq Chances(i)
  <2>0. i \in Nat
    BY <1>0, LineNumber
  <2>1. ASSUME NEW q \in Pids, ComesTo(q, i)'
        PROVE  ComesTo(q, i) /\ Behind(q) \in Int /\ Behind(q)' \in Int /\ Behind(q) <= Behind(q)'
    <3>1. CASE q = p
      <4>1. ptr1[p] < i
        BY <1>4, <2>1, <3>1 DEF ComesTo
      <4>2. ptr1[p] \in 2 .. i - 1
        BY ONLY <1>8, <2>0, <4>1
      <4>3. ptr1[p] \in UnknownBefore(i)
        BY <1>2, <1>3, <4>2 DEF UnknownBefore
      <4>4. ComesTo(p, i)
        BY <1>4, <4>1, <4>3 DEF ComesTo
      <4>5. ptr1[p] \in Int /\ ptr1[p] <= ptr1[p]
        BY ONLY <1>8
      <4> QED BY <1>4, <3>1, <4>4, <4>5
    <3>2. CASE q # p
      <4>1. Behind(q)' = Behind(q) /\ ComesTo(q, i)' = ComesTo(q, i)
        BY <1>1, <3>2, SameProcess
      <4>2. Behind(q) \in Int
        BY <1>0, ProcessTypes
      <4>3. \A a \in Int : a <= a
        OBVIOUS
      <4> QED BY <2>1, <4>1, <4>2, <4>3
    <3> QED BY <3>1, <3>2
  <2> QED BY <2>0, <2>1, NoNewChances
<1>6. Histories' /\ ChancesCounted'
  BY <1>0, <1>5, QuietStep
<1>7. LineInHand'
  BY <1>0, <1>1 DEF LineInHand
<1> QED BY <1>6, <1>7 DEF ScriptInv

\* A shell that is started with the script brings all its chances with it.
LEMMA NewScriptLines ==
  ASSUME ScriptInv, TypeInv', NEW p \in Pids, kind[p] = "shell",
         runs' = runs + 1, mode' = [mode EXCEPT ![p] = "script"], ptr1' = [ptr1 EXCEPT ![p] = 0],
         pc' = [pc EXCEPT ![p] = "read"], UNCHANGED <<kind, words, script, started>>
  PROVE  ScriptInv'
<1>0. TypeInv /\ Histories /\ LineInHand /\ ChancesCounted
  BY DEF ScriptInv
<1>1. /\ pc'[p] = "read"
      /\ \A q \in Pids : q # p => pc'[q] = pc[q] /\ ptr1'[q] = ptr1[q] /\ mode'[q] = mode[q]
  BY <1>0, ProcessTypes
<1>2. ASSUME NEW i \in DOMAIN script
      PROVE  started'[i] + Cardinality(Chances(i)') <= runs' * All(i)'
  <2> DEFINE U == UnknownBefore(i)
             C == Chances(i)
             D == Chances(i)'
             N == {p} \X SUBSET U
             n == All(i)
             r == runs * n
             k == started[i]
  <2>0. i \in Nat
    BY <1>0, LineNumber
  <2>1. /\ IsFiniteSet(U) /\ IsFiniteSet(C) /\ Cardinality(C) \in Nat /\ n \in Nat
        /\ n = Cardinality(SUBSET U) /\ All(i)' = n
    BY <2>0, ChancesFinite, SameScript DEF All
  <2>2. D \subseteq C \cup N
    <3> SUFFICES ASSUME NEW t \in D PROVE t \in C \cup N
      OBVIOUS
    <3>1. PICK q \in Pids, s \in SUBSET U :
            t = <<q, s>> /\ ComesTo(q, i)' /\ \A m \in s : m > Behind(q)'
      BY OneChance
    <3>2. CASE q = p
      BY <3>1, <3>2
    <3>3. CASE q # p
      <4>1. Behind(q)' = Behind(q) /\ ComesTo(q, i)' = ComesTo(q, i)
        BY <1>1, <3>3, SameProcess
      <4>2. ComesTo(q, i) /\ \A m \in s : m > Behind(q)
        BY <3>1, <4>1
      <4> QED BY <3>1, <4>2, IsChance
    <3> QED BY <3>2, <3>3
  <2>3. k \in Nat /\ k + Cardinality(C) <= r /\ runs \in Nat
    BY <1>0 DEF Histories, ChancesCounted
  <2>4. r \in Nat /\ (runs + 1) * n = r + n
    BY <2>1, <2>3, Products
  <2> HIDE DEF U, C, D, n, r, k
  <2>5. IsFiniteSet(N) /\ Cardinality(N) = n
    <3>1. IsFiniteSet(SUBSET U) /\ IsFiniteSet({p}) /\ Cardinality({p}) = 1
      BY <2>1, FS_SUBSET, FS_Singleton
    <3>2. IsFiniteSet(N) /\ Cardinality(N) = 1 * n
      BY <2>1, <3>1, FS_Product
    <3> QED BY <2>1, <3>2
  <2> HIDE DEF N
  <2>6. /\ IsFiniteSet(C \cup N) /\ Cardinality(C \cap N) \in Nat
        /\ Cardinality(C \cup N) = Cardinality(C) + Cardinality(N) - Cardinality(C \cap N)
    <3>1. (C \cap N) \in SUBSET C
      OBVIOUS
    <3>2. IsFiniteSet(C \cap N)
      BY ONLY <2>1, <3>1, FS_Subset
    <3>3. Cardinality(C \cap N) \in Nat
      BY <3>2, FS_CardinalityType
    <3> QED BY <2>1, <2>5, <3>3, FS_Union
  <2>7. D \in SUBSET (C \cup N)
    BY <2>2
  <2>8. Cardinality(D) \in Nat /\ Cardinality(D) <= Cardinality(C \cup N)
    BY ONLY <2>6, <2>7, FS_Subset, FS_CardinalityType
  <2>9. k + Cardinality(D) <= r + n
    BY ONLY <2>1, <2>3, <2>4, <2>5, <2>6, <2>8
  <2> QED BY <2>1, <2>4, <2>9 DEF k, D
<1>3. LineInHand'
  BY <1>0, <1>1, ZenonT(60) DEF LineInHand
<1>4. Histories'
  BY <1>0 DEF Histories
<1> QED BY <1>2, <1>3, <1>4 DEF ScriptInv, ChancesCounted

\* What fork does to the two processes.
Forks(p, c) ==
  /\ c # p /\ kind[p] = "shell" /\ pc[p] = "run" /\ kind'[p] = "shell" /\ kind'[c] = "shell"
  /\ mode'[p] = mode[p] /\ mode'[c] = mode[p] /\ ptr1'[p] = ptr1[p] /\ ptr1'[c] = ptr1[p]
  /\ words'[c] = words[p] /\ words[p][1] \notin Builtins
  /\ pc'[c] = "child" /\ pc'[p] \in {"read", "wait"}
  /\ \A q \in Pids : q # p /\ q # c =>
       /\ kind'[q] = kind[q] /\ mode'[q] = mode[q] /\ pc'[q] = pc[q] /\ ptr1'[q] = ptr1[q]
       /\ words'[q] = words[q]

LEMMA ForkParts ==
  ASSUME TypeInv, NEW p \in Pids, NEW c \in Pids, run_command(p, c)
  PROVE  /\ Forks(p, c) /\ script' = script /\ runs' = runs
         /\ started' = IF mode[p] = "script" THEN [started EXCEPT ![ptr1[p]] = @ + 1] ELSE started
<1>1. kind[p] = "shell" /\ pc[p] = "run" /\ words[p][1] \notin Builtins /\ kind[c] = "none" /\ c # p
  <2>1. c \in Free
    BY MinOfSet, PidFacts DEF run_command, Free
  <2> QED BY <2>1 DEF run_command, Free
<1>2. /\ kind' = [kind EXCEPT ![c] = "shell"] /\ mode' = [mode EXCEPT ![c] = mode[p]]
      /\ ptr1' = [ptr1 EXCEPT ![c] = ptr1[p]] /\ words' = [words EXCEPT ![c] = words[p]]
      /\ \E v \in {"read", "wait"} : pc' = [pc EXCEPT ![c] = "child", ![p] = v]
  BY DEF run_command, after_fork
<1>3. /\ kind \in [Pids -> {"none", "shell", "program", "zombie"}]
      /\ mode \in [Pids -> {"terminal", "script"}]
      /\ pc \in [Pids -> {"read", "run", "child", "wait"}]
      /\ ptr1 \in [Pids -> 0 .. Len(script)]
      /\ words = [q \in Pids |-> words[q]]
  BY ProcessTypes
<1>4. Forks(p, c)
  BY <1>1, <1>2, <1>3 DEF Forks
<1>5. /\ script' = script /\ runs' = runs
      /\ started' = IF mode[p] = "script" THEN [started EXCEPT ![ptr1[p]] = @ + 1] ELSE started
  BY DEF run_command
<1> QED BY <1>4, <1>5

LEMMA ForkedLines ==
  ASSUME LineInHand, NEW p \in Pids, NEW c \in Pids, Forks(p, c), script' = script
  PROVE  LineInHand'
<1> SUFFICES ASSUME NEW q \in Pids, kind'[q] = "shell", mode'[q] = "script", pc'[q] \in {"run", "child"}
    PROVE  /\ ptr1'[q] >= 2 /\ script[ptr1'[q]] # <<>>
           /\ words'[q] = split_and_count(script[ptr1'[q]], " ")
           /\ pc'[q] = "child" => words'[q][1] \notin Builtins
  BY DEF LineInHand
<1>1. q # p
  BY DEF Forks
<1>2. CASE q = c
  BY <1>2 DEF Forks, LineInHand
<1>3. CASE q # c
  BY <1>1, <1>3 DEF Forks, LineInHand
<1> QED BY <1>2, <1>3

\* Where the two processes of a fork are in the script.
LEMMA ForkPlaces ==
  ASSUME TypeInv, TypeInv', NEW p \in Pids, NEW c \in Pids, Forks(p, c), script' = script
  PROVE  /\ ptr1[p] \in Nat /\ Behind(p) = ptr1[p] - 1
         /\ Behind(p)' = ptr1[p] /\ Behind(c)' = ptr1[p]
         /\ \A q \in Pids : q # p /\ q # c =>
              Behind(q)' = Behind(q) /\ \A i : ComesTo(q, i)' = ComesTo(q, i)
<1>1. ptr1[p] \in Nat /\ Behind(p) = ptr1[p] - 1
  BY ProcessTypes DEF Forks
<1>2. Behind(p)' = ptr1[p] /\ Behind(c)' = ptr1[p]
  BY NextTypes DEF Forks
<1>3. ASSUME NEW q \in Pids, q # p, q # c
      PROVE  Behind(q)' = Behind(q) /\ \A i : ComesTo(q, i)' = ComesTo(q, i)
  BY <1>3, SameProcess DEF Forks
<1> QED BY <1>1, <1>2, <1>3

\* A fork at a line that was typed leaves the script alone.
LEMMA TypedForkLines ==
  ASSUME ScriptInv, TypeInv', NEW p \in Pids, NEW c \in Pids, Forks(p, c), mode[p] # "script",
         script' = script, runs' = runs, started' = started
  PROVE  ScriptInv'
<1>0. TypeInv /\ Histories /\ LineInHand /\ ChancesCounted
  BY DEF ScriptInv
<1>1. ASSUME NEW i \in DOMAIN script PROVE Chances(i)' \subseteq Chances(i)
  <2>1. ASSUME NEW q \in Pids, ComesTo(q, i)'
        PROVE  ComesTo(q, i) /\ Behind(q) \in Int /\ Behind(q)' \in Int /\ Behind(q) <= Behind(q)'
    <3>1. q # p /\ q # c
      BY <2>1 DEF ComesTo, Forks
    <3>2. Behind(q)' = Behind(q) /\ ComesTo(q, i)' = ComesTo(q, i)
      BY <1>0, <3>1, ForkPlaces
    <3>3. Behind(q) \in Int
      BY <1>0, ProcessTypes
    <3>4. \A a \in Int : a <= a
      OBVIOUS
    <3> QED BY <2>1, <3>2, <3>3, <3>4
  <2>2. i \in Nat
    BY <1>0, LineNumber
  <2> QED BY <2>1, <2>2, NoNewChances
<1>2. Histories' /\ ChancesCounted'
  BY <1>0, <1>1, QuietStep
<1> QED BY <1>0, <1>2, ForkedLines DEF ScriptInv

\* The line that is started has been a chance of p, and is none of c's.
LEMMA ForkUsesChance ==
  ASSUME TypeInv, TypeInv', NEW p \in Pids, NEW c \in Pids, Forks(p, c), script' = script,
         mode[p] = "script", NEW j \in Nat, j = ptr1[p]
  PROVE  /\ Cardinality(Chances(j)') \in Nat
         /\ Cardinality(Chances(j)') + 1 <= Cardinality(Chances(j))
<1> DEFINE C == Chances(j)
           D == Chances(j)'
<1>1. j \in Nat /\ Behind(p) = j - 1 /\ Behind(p)' = j /\ Behind(c)' = j
  BY ForkPlaces
<1>2. <<p, {}>> \in C
  <2>1. Behind(p) < j
    <3> DEFINE b == Behind(p)
    <3>1. b = j - 1 /\ j \in Nat
      BY <1>1
    <3> HIDE DEF b
    <3>2. b < j
      BY <3>1
    <3> QED BY <3>2 DEF b
  <2>2. ComesTo(p, j)
    BY <2>1 DEF ComesTo, Forks
  <2> QED BY <2>2, IsChance
<1>3. D \subseteq C \ {<<p, {}>>}
  <2> SUFFICES ASSUME NEW t \in D PROVE t \in C /\ t # <<p, {}>>
    OBVIOUS
  <2>1. PICK q \in Pids, s \in SUBSET UnknownBefore(j) :
          t = <<q, s>> /\ ComesTo(q, j)' /\ \A m \in s : m > Behind(q)'
    BY OneChance
  <2>2. q # p /\ q # c
    <3>1. Behind(q)' < j
      BY <2>1 DEF ComesTo
    <3>2. ~(j < j)
      BY <1>1
    <3> QED BY <1>1, <3>1, <3>2
  <2>3. Behind(q)' = Behind(q) /\ ComesTo(q, j)' = ComesTo(q, j)
    BY <2>2, ForkPlaces
  <2>4. ComesTo(q, j) /\ \A m \in s : m > Behind(q)
    BY <2>1, <2>3
  <2>5. <<q, s>> \in C
    BY <2>4, IsChance
  <2> QED BY <2>1, <2>2, <2>5
<1>4. IsFiniteSet(C) /\ Cardinality(C) \in Nat
  BY <1>1, ChancesFinite
<1> HIDE DEF C, D
<1>5. IsFiniteSet(C \ {<<p, {}>>}) /\ Cardinality(C \ {<<p, {}>>}) = Cardinality(C) - 1
  BY <1>2, <1>4, FS_RemoveElement
<1>6. IsFiniteSet(D) /\ Cardinality(D) \in Nat /\ Cardinality(D) <= Cardinality(C \ {<<p, {}>>})
  BY ONLY <1>3, <1>5, FS_Subset, FS_CardinalityType
<1>7. Cardinality(D) + 1 <= Cardinality(C)
  BY ONLY <1>4, <1>5, <1>6
<1> QED BY <1>6, <1>7 DEF C, D

\* To any other line parent and child come with the chances that the parent had:
\* those of the child are the ones in which the line fails.
LEMMA ForkSharesChances ==
  ASSUME TypeInv, TypeInv', NEW p \in Pids, NEW c \in Pids, Forks(p, c), script' = script,
         mode[p] = "script", NEW i \in Nat
  PROVE  /\ Cardinality(Chances(i)') \in Nat
         /\ Cardinality(Chances(i)') <= Cardinality(Chances(i))
<1> DEFINE j == ptr1[p]
           C == Chances(i)
           D == Chances(i)'
           Back(t) == IF t[1] = c THEN <<p, t[2] \cup {j}>> ELSE t
           f == [t \in D |-> Back(t)]
<1>0. c # p
  BY DEF Forks
<1>1. j \in Nat /\ Behind(p) = j - 1 /\ Behind(p)' = j /\ Behind(c)' = j
  BY ForkPlaces
<1>2. \A k \in UnknownBefore(i) : k \in Nat
  <2>1. \A k \in UnknownBefore(i) : k \in 2 .. i - 1
    BY DEF UnknownBefore
  <2>2. \A k \in 2 .. i - 1 : k \in Nat
    OBVIOUS
  <2> QED BY <2>1, <2>2
<1>3. ASSUME NEW t \in D
      PROVE  \E q \in Pids, s \in SUBSET UnknownBefore(i) :
               /\ t = <<q, s>> /\ Back(t) \in C
               /\ q \in {p, c} => j \notin s
  <2>1. PICK q \in Pids, s \in SUBSET UnknownBefore(i) :
          t = <<q, s>> /\ ComesTo(q, i)' /\ \A m \in s : m > Behind(q)'
    BY OneChance
  <2>2. ASSUME q \in {p, c}
        PROVE  /\ j \notin s /\ ComesTo(p, i) /\ \A m \in s \cup {j} : m > Behind(p)
    <3>1. Behind(q)' = j
      BY <1>1, <2>2
    <3>2. j < i /\ \A m \in s : m \in Nat /\ m > j
      BY <1>2, <2>1, <3>1 DEF ComesTo
    <3> DEFINE b == Behind(p)
    <3>3. b = j - 1 /\ j \in Nat
      BY <1>1
    <3> HIDE DEF b, j
    <3>4. b < i /\ j > b /\ j \notin s /\ \A m \in s : m > b
      BY <3>2, <3>3
    <3>5. ComesTo(p, i)
      BY <3>4 DEF ComesTo, Forks, b
    <3> QED BY <3>4, <3>5 DEF b
  <2>3. CASE q = c
    <3>1. j \in UnknownBefore(i)
      <4>1. UnknownBefore(i)' = UnknownBefore(i)
        BY SameScript
      <4> QED BY <2>1, <2>3, <4>1 DEF ComesTo, Forks
    <3>2. s \cup {j} \in SUBSET UnknownBefore(i)
      BY <3>1
    <3>3. Back(t) = <<p, s \cup {j}>>
      BY <2>1, <2>3
    <3>4. <<p, s \cup {j}>> \in C
      BY <2>2, <2>3, <3>2, IsChance
    <3> QED BY <2>1, <2>2, <2>3, <3>3, <3>4
  <2>4. CASE q = p
    <3>1. <<p, s>> \in C
      BY <2>2, <2>4, IsChance
    <3> QED BY <1>0, <2>1, <2>2, <2>4, <3>1
  <2>5. CASE q # p /\ q # c
    <3>1. Behind(q)' = Behind(q) /\ ComesTo(q, i)' = ComesTo(q, i)
      BY <2>5, ForkPlaces
    <3>2. ComesTo(q, i) /\ \A m \in s : m > Behind(q)
      BY <2>1, <3>1
    <3>3. <<q, s>> \in C
      BY <3>2, IsChance
    <3> QED BY <2>1, <2>5, <3>3
  <2> QED BY <2>3, <2>4, <2>5
<1>4. IsFiniteSet(C)
  BY ChancesFinite
<1> HIDE DEF C, D, j
<1>5. ASSUME NEW t \in D, NEW u \in D, Back(t) = Back(u) PROVE t = u
  <2>1. PICK q \in Pids, s \in SUBSET UnknownBefore(i) : t = <<q, s>> /\ (q \in {p, c} => j \notin s)
    BY <1>3
  <2>2. PICK r \in Pids, w \in SUBSET UnknownBefore(i) : u = <<r, w>> /\ (r \in {p, c} => j \notin w)
    BY <1>3
  <2>3. /\ Back(t) = IF q = c THEN <<p, s \cup {j}>> ELSE <<q, s>>
        /\ Back(u) = IF r = c THEN <<p, w \cup {j}>> ELSE <<r, w>>
    BY <2>1, <2>2
  <2>4. CASE q = c /\ r = c
    <3>1. s \cup {j} = w \cup {j}
      BY <1>5, <2>3, <2>4
    <3>2. j \notin s /\ j \notin w
      BY <2>1, <2>2, <2>4
    <3>3. s = w
      BY <3>1, <3>2
    <3> QED BY <2>1, <2>2, <2>4, <3>3
  <2>5. CASE q = c /\ r # c
    <3>1. r = p /\ w = s \cup {j}
      BY <1>5, <2>3, <2>5
    <3> QED BY <2>2, <3>1
  <2>6. CASE q # c /\ r = c
    <3>1. q = p /\ s = w \cup {j}
      BY <1>5, <2>3, <2>6
    <3> QED BY <2>1, <3>1
  <2>7. CASE q # c /\ r # c
    BY <1>5, <2>1, <2>2, <2>3, <2>7
  <2> QED BY <2>4, <2>5, <2>6, <2>7
<1>6. f \in Injection(D, C)
  <2>1. \A t \in D : Back(t) \in C
    BY <1>3
  <2>2. \A t, u \in D : Back(t) = Back(u) => t = u
    BY <1>5
  <2> HIDE DEF Back
  <2> QED BY <2>1, <2>2 DEF Injection, IsInjective
<1> HIDE DEF f
<1>7. IsFiniteSet(D) /\ Cardinality(D) <= Cardinality(C)
  BY <1>4, <1>6, FS_Injection
<1>8. Cardinality(D) \in Nat
  BY <1>7, FS_CardinalityType
<1> QED BY <1>7, <1>8 DEF C, D

LEMMA ScriptForkLines ==
  ASSUME ScriptInv, TypeInv', NEW p \in Pids, NEW c \in Pids, Forks(p, c), mode[p] = "script",
         script' = script, runs' = runs, started' = [started EXCEPT ![ptr1[p]] = @ + 1]
  PROVE  ScriptInv'
<1>0. TypeInv /\ Histories /\ LineInHand /\ ChancesCounted
  BY DEF ScriptInv
<1>1. /\ Histories'
      /\ \A i \in DOMAIN script : started[i] \in Nat
                                  /\ started'[i] = IF i = ptr1[p] THEN started[i] + 1 ELSE started[i]
  <2> DEFINE j == ptr1[p]
             S == DOMAIN script
  <2>1. started \in [S -> Nat] /\ started' = [started EXCEPT ![j] = started[j] + 1] /\ runs \in Nat
    BY <1>0 DEF Histories
  <2> HIDE DEF j, S
  <2>3. /\ \A i \in S : started'[i] = IF i = j THEN started[i] + 1 ELSE started[i]
        /\ \A i \in S : started[i] \in Nat /\ started[i] + 1 \in Nat
        /\ started' = [i \in S |-> started'[i]]
    <3>1. \A i \in S : started[i] \in Nat /\ started[i] + 1 \in Nat
      BY ONLY <2>1
    <3>2. DOMAIN started = S
      BY ONLY <2>1
    <3>3. started' = [i \in S |-> IF i = j THEN started[j] + 1 ELSE started[i]]
      BY ONLY <2>1, <3>2
    <3>4. \A i \in S : started'[i] = IF i = j THEN started[i] + 1 ELSE started[i]
      BY ONLY <3>3
    <3>5. started' = [i \in S |-> started'[i]]
      BY ONLY <3>3
    <3> QED BY ONLY <3>1, <3>4, <3>5
  <2>2. started' \in [S -> Nat] /\ \A i \in S : started[i] \in Nat
    BY ONLY <2>3
  <2> QED BY <2>1, <2>2, <2>3 DEF Histories, j, S
<1>2. ASSUME NEW i \in DOMAIN script
      PROVE  started'[i] + Cardinality(Chances(i)') <= runs' * All(i)'
  <2> DEFINE a == Cardinality(Chances(i))
             b == Cardinality(Chances(i)')
             r == runs * All(i)
  <2>0. i \in Nat
    BY <1>0, LineNumber
  <2>1. started[i] + a <= r
    BY <1>0 DEF ChancesCounted
  <2>2. a \in Nat /\ r \in Nat /\ runs' * All(i)' = r
    <3>1. a \in Nat /\ All(i) \in Nat /\ runs \in Nat /\ All(i)' = All(i)
      BY <1>0, <2>0, ChancesFinite, SameScript DEF Histories
    <3> QED BY <3>1, Products
  <2>3. b \in Nat /\ b <= a /\ (i = ptr1[p] => b + 1 <= a)
    BY <1>0, <2>0, ForkUsesChance, ForkSharesChances
  <2> HIDE DEF a, b, r
  <2>4. started'[i] + b <= r
    <3> DEFINE x == started[i]
               y == started'[i]
    <3>1. x \in Nat /\ (y = x \/ (y = x + 1 /\ b + 1 <= a)) /\ x + a <= r
      BY <1>1, <2>1, <2>3
    <3> HIDE DEF x, y
    <3>2. y + b <= r
      BY <2>2, <2>3, <3>1
    <3> QED BY <3>2 DEF y
  <2> QED BY <2>2, <2>4 DEF b
<1> QED BY <1>0, <1>1, <1>2, ForkedLines DEF ScriptInv, ChancesCounted

LEMMA ExecLines ==
  ASSUME ScriptInv, TypeInv', NEW p \in Pids, execvp(p)
  PROVE  ScriptInv'
<1>0. /\ kind[p] = "shell" /\ pc[p] = "child" /\ UNCHANGED <<words, script, started>>
  BY DEF execvp
<1>1. CASE /\ kind' = [kind EXCEPT ![p] = "program"] \/ kind' = [kind EXCEPT ![p] = "zombie"]
           /\ UNCHANGED <<mode, pc, ptr1, runs>>
  BY <1>0, <1>1, NoShellAnyMore
<1>2. CASE /\ runs' = runs + 1 /\ mode' = [mode EXCEPT ![p] = "script"]
           /\ ptr1' = [ptr1 EXCEPT ![p] = 0] /\ pc' = [pc EXCEPT ![p] = "read"]
           /\ UNCHANGED kind
  BY <1>0, <1>2, NewScriptLines
<1>3. CASE /\ Command(words[p]) \notin Programs \cup {RunScript, NULL}
           /\ ptr1' = [ptr1 EXCEPT ![p] = ptr1[p]] /\ pc' = [pc EXCEPT ![p] = "read"]
           /\ UNCHANGED <<kind, mode, runs>>
  <2>1. /\ ptr1' = ptr1 /\ mode[p] \in {"terminal", "script"} /\ pc'[p] = "read"
        /\ \A q \in Pids : q # p => pc'[q] = pc[q]
    BY <1>3, ProcessTypes DEF ScriptInv
  <2>2. CASE mode[p] = "script"
    BY <1>0, <1>3, <2>1, <2>2, FailedExecLines
  <2>3. CASE mode[p] = "terminal"
    <3>1. NotCloser(p) /\ \A q \in Pids : q # p => StaysOrEnds(q)
      BY <1>0, <1>3, <2>1, <2>3 DEF NotCloser, StaysOrEnds
    <3> QED BY <1>0, <1>3, <3>1, OneMoves
  <2> QED BY <2>1, <2>2, <2>3
<1> QED BY <1>1, <1>2, <1>3 DEF execvp, exit, ptr_after_failed_exec

LEMMA ScriptStep == ScriptInv /\ [Next]_vars => ScriptInv'
<1> SUFFICES ASSUME ScriptInv, [Next]_vars PROVE ScriptInv'
  OBVIOUS
<1>0. TypeInv /\ TypeInv'
  BY TypeStep DEF ScriptInv
<1>1. ASSUME NEW p \in Pids, NEW line \in TypedLines, ReadTyped(p, line) PROVE ScriptInv'
  BY <1>0, <1>1, TypedLinesApart
<1>2. ASSUME NEW p \in Pids, ReadScript(p) PROVE ScriptInv'
  BY <1>0, <1>2, ReadScriptLines
<1>3. ASSUME NEW p \in Pids, EndOfScript(p) \/ ProgramEnds(p) PROVE ScriptInv'
  <2>1. /\ kind' = [kind EXCEPT ![p] = "zombie"]
        /\ UNCHANGED <<mode, pc, ptr1, words, script, runs, started>>
    BY <1>3 DEF EndOfScript, ProgramEnds, exit
  <2> QED BY <1>0, <2>1, NoShellAnyMore
<1>4. ASSUME NEW p \in Pids, Builtin(p) PROVE ScriptInv'
  BY <1>0, <1>4, BuiltinLines
<1>5. ASSUME NEW p \in Pids, NEW c \in Pids, run_command(p, c) PROVE ScriptInv'
  <2>1. /\ Forks(p, c) /\ script' = script /\ runs' = runs
        /\ started' = IF mode[p] = "script" THEN [started EXCEPT ![ptr1[p]] = @ + 1] ELSE started
    BY <1>0, <1>5, ForkParts
  <2>2. CASE mode[p] = "script"
    BY <1>0, <2>1, <2>2, ScriptForkLines
  <2>3. CASE mode[p] # "script"
    BY <1>0, <2>1, <2>3, TypedForkLines
  <2> QED BY <2>2, <2>3
<1>6. ASSUME NEW p \in Pids, execvp(p) PROVE ScriptInv'
  BY <1>0, <1>6, ExecLines
<1>7. ASSUME NEW p \in Pids, waitpid(p) \/ InitCollects(p) PROVE ScriptInv'
  BY <1>0, <1>7, CollectedLines
<1>8. CASE UNCHANGED vars
  <2>1. /\ UNCHANGED <<kind, mode, pc, ptr1, words, script, runs, started>>
    BY <1>8 DEF vars, own
  <2> QED BY <1>0, <2>1, SameLines
<1> QED
  BY <1>1, <1>2, <1>3, <1>4, <1>5, <1>6, <1>7, <1>8 DEF Next, Step

\* A child whose exec fails goes on with the script beside its parent: each
\* unknown command doubles the shells that come to the lines behind it, and
\* nothing else makes a line run more often than the script was started.  No
\* line of any script is run more often than that.
THEOREM LinesBounded == Spec => []LinesRunAtMost
<1>1. ScriptInv => LinesRunAtMost
  <2> SUFFICES ASSUME ScriptInv, NEW i \in DOMAIN script
      PROVE  started[i] <= runs * 2 ^ Cardinality(UnknownBefore(i))
    BY DEF LinesRunAtMost
  <2>1. i \in Nat
    BY LineNumber DEF ScriptInv
  <2>2. /\ Cardinality(Chances(i)) \in Nat /\ All(i) \in Nat
        /\ All(i) = 2 ^ Cardinality(UnknownBefore(i))
    BY <2>1, ChancesFinite
  <2>3. started[i] \in Nat /\ runs \in Nat /\ started[i] + Cardinality(Chances(i)) <= runs * All(i)
    BY DEF ScriptInv, Histories, ChancesCounted
  <2>4. runs * All(i) \in Nat
    BY <2>2, <2>3, Products
  <2> DEFINE k == started[i]
             n == Cardinality(Chances(i))
             r == runs * All(i)
  <2>5. k \in Nat /\ n \in Nat /\ r \in Nat /\ k + n <= r
    BY <2>2, <2>3, <2>4
  <2> HIDE DEF k, n, r
  <2>6. k <= r
    BY <2>5
  <2> QED BY <2>2, <2>6 DEF k, r
<1> QED BY <1>1, ScriptInit, ScriptStep, PTL DEF Spec

=============================================================================

-------------------------- MODULE LsapiPreforkProofs --------------------------
(***************************************************************************)
(* Proofs about the prefork server, for every number of process ids and    *)
(* every setting of its limits.                                            *)
(***************************************************************************)
EXTENDS LsapiPrefork, FiniteSetTheorems, WellFoundedInduction, TLAPS

----------------------------------------------------------------------------
(* The inductive invariant *)

\* Where the parent is, and what it holds there: between the decision to fork
\* and the record of the new child there is room for one more, the slot that
\* find_child_status(0) has reserved is marked with -1, and only there a child
\* may exist that is not in the table.
ParentInv ==
  /\ parent \in {"accept", "find", "fork", "record"} => cur < Limit
  /\ parent # "record" => forking.pid = 0
  /\ parent = "record" =>
       forking.pid \in Children /\ slot[forking.pid] = forking.slot
  /\ parent \in {"fork", "record"} =>
       forking.slot \in Slots /\ table[forking.slot].pid = -1
  /\ parent = "fork" => table[forking.slot].state = "IDLE"

\* lsapi_check_child_status() counts a slot once.
CheckInv ==
  /\ parent \in {"check", "kill"} => check.idle + check.dying < check.i
  /\ parent = "kill" => check.i <= check.last

\* A child and its slot belong to each other.  ChildrenTracked says it from the
\* side of the children; a step of the parent starts from the slot.
SlotInv ==
  /\ \A p \in Children : slot[p] \in Slots
  /\ \A p \in Recorded : table[slot[p]].pid = p
  /\ \A s \in Slots : table[s].pid \in Pids =>
       table[s].pid \in Recorded /\ slot[table[s].pid] = s
  /\ \A s \in Slots : table[s].pid = -1 =>
       parent \in {"fork", "record"} /\ s = forking.slot

\* The slots in use are those up to m_pChildrenStatusCur.
RangeInv == \A s \in Slots : table[s].pid # 0 => s <= statusCur

\* m_state is what the child has announced, wherever it is in its loop.
StateInv ==
  \A p \in Children :
    /\ table[slot[p]].state = "CONNECTED" <=>
         at[p] \in {"connecting", "connected", "handling", "closing"}
    /\ table[slot[p]].state = "ACCEPTING" <=>
         at[p] \in {"announced", "selecting", "back_ready", "back_timeout"}

\* m_iCurChildren counts the children on the books.
CurInv == cur = Cardinality(Recorded)

PreforkInv ==
  /\ TypeOK /\ ParentInv /\ CheckInv /\ SlotInv /\ RangeInv /\ StateInv
  /\ CurInv /\ CountersExact

----------------------------------------------------------------------------
(* Operators *)

\* A set of natural numbers has a smallest one.
LEMMA SmallestExists ==
  ASSUME NEW T \in SUBSET Nat, T # {}
  PROVE  \E x \in T : \A y \in T : x <= y
  <1>1. PICK x \in T : \A y \in T : ~(<<y, x>> \in OpToRel(<, Nat))
    BY NatLessThanWellFounded, WFMin, Zenon
  <1>2. ASSUME NEW y \in T PROVE ~(y < x)
    <2>1. y \in Nat /\ x \in Nat
      OBVIOUS
    <2> QED
      BY <1>1, <2>1, Zenon DEF OpToRel
  <1>3. \A y \in T : x <= y
    BY <1>2
  <1> QED
    BY <1>3

\* The numbers above a, up to b.
LEMMA AboveInRange ==
  \A a, b, r \in Nat : r <= b /\ r > a => r \in (a + 1)..b
  OBVIOUS

\* A set of slots has a last one.
LEMMA LargestExists ==
  ASSUME NEW n \in Nat, NEW S \in SUBSET (1..n), S # {}
  PROVE  \E k \in S : \A s \in S : s <= k
  <1> DEFINE T == {n - s : s \in S}
  <1>1. T \in SUBSET Nat
    OBVIOUS
  <1>2. T # {}
    <2>1. PICK s \in S : TRUE
      OBVIOUS
    <2>2. n - s \in T
      BY <2>1
    <2> QED
      BY <2>2
  <1> HIDE DEF T
  <1>3. PICK x \in T : \A y \in T : x <= y
    BY <1>1, <1>2, SmallestExists
  <1>4. PICK k \in S : x = n - k
    BY DEF T
  <1>5. ASSUME NEW s \in S PROVE s <= k
    <2>1. n - s \in T
      BY DEF T
    <2>2. n - k <= n - s
      BY <1>3, <1>4, <2>1
    <2> QED
      BY <2>2
  <1> QED
    BY <1>5

\* Cutting off the free slots at the end (lsapilib.c:2968-2970) leaves a last
\* slot within the old one, and cuts off free slots only.
LEMMA ShrunkType ==
  ASSUME NEW t, NEW n \in Nat
  PROVE  /\ Shrunk(t, n) \in 0..n
         /\ \A s \in (Shrunk(t, n) + 1)..n : t[s].pid = 0
  <1> DEFINE used == {s \in 1..n : t[s].pid # 0}
             cut(k) == /\ \A s \in (k + 1)..n : t[s].pid = 0
                       /\ k > 0 => t[k].pid # 0
  <1>1. \E k \in 0..n : cut(k)
    <2>1. CASE used = {}
      <3>1. cut(0)
        BY <2>1
      <3> QED
        BY <3>1
    <2>2. CASE used # {}
      <3>1. PICK k \in used : \A s \in used : s <= k
        BY <2>2, LargestExists
      <3>2. cut(k)
        BY <3>1
      <3>3. k \in 0..n
        OBVIOUS
      <3> QED
        BY <3>2, <3>3
    <2> QED
      BY <2>1, <2>2
  <1>2. Shrunk(t, n) = CHOOSE k \in 0..n : cut(k)
    BY DEF Shrunk
  <1>3. Shrunk(t, n) \in 0..n /\ cut(Shrunk(t, n))
    <2> HIDE DEF cut
    <2> QED
      BY <1>1, <1>2, Zenon
  <1> QED
    BY <1>3

\* The limits are numbers and a process id is neither 0 nor -1.
LEMMA Limits ==
  /\ Limit \in Nat /\ KillLimit \in Nat /\ MaxBacklog \in Nat
  /\ 0 \notin Pids /\ -1 \notin Pids
  /\ IsFiniteSet(Pids)
  /\ \A S \in SUBSET Pids : IsFiniteSet(S) /\ Cardinality(S) \in Nat
  <1>1. \A S \in SUBSET Pids : IsFiniteSet(S)
    BY PreforkAssumption, FS_Subset
  <1>2. \A S \in SUBSET Pids : Cardinality(S) \in Nat
    BY <1>1, FS_CardinalityType
  <1> QED
    BY <1>1, <1>2, PreforkAssumption DEF Limit

\* The table of the children.
Table == [Slots -> ChildStatus]

\* A field of a slot may be set to any value of its type.
LEMMA SetField ==
  ASSUME NEW t \in Table, NEW s \in Slots
  PROVE  /\ \A v \in {"IDLE", "CONNECTED", "ACCEPTING"} :
              [t EXCEPT ![s].state = v] \in Table
         /\ \A b \in BOOLEAN : [t EXCEPT ![s].inProcess = b] \in Table
         /\ \A k \in 0..(KillLimit + 1) : [t EXCEPT ![s].iKillSent = k] \in Table
         /\ \A q \in Pids \cup {0, -1} : [t EXCEPT ![s].pid = q] \in Table
  BY DEF Table, ChildStatus

----------------------------------------------------------------------------
(* What the larger steps do, in the terms of the invariant *)

\* A step of lsapi_check_child_status() that does not call kill().
LEMMA CheckFacts ==
  ASSUME TypeOK, CheckInv, CheckSlot
  PROVE  /\ parent = "check" /\ parent' \in {"check", "kill"}
         /\ table' \in Table
         /\ \A s \in Slots : /\ table'[s].pid = table[s].pid
                             /\ table'[s].state = table[s].state
         /\ check' \in [i : 0..(Limit + 1), last : 0..Limit, idle : 0..Limit,
                        dying : 0..Limit, sig : {"none", "TERM", "KILL"}]
         /\ check'.idle + check'.dying < check'.i
         /\ parent' = "kill" => check'.i <= check'.last
  <1> DEFINE CheckType == [i : 0..(Limit + 1), last : 0..Limit,
                           idle : 0..Limit, dying : 0..Limit,
                           sig : {"none", "TERM", "KILL"}]
             i == check.i
  <1>1. /\ parent = "check" /\ i \in Nat /\ i <= check.last /\ i <= Limit
        /\ check.idle + check.dying < i /\ Limit \in Nat
        /\ check.idle \in Nat /\ check.dying \in Nat /\ check.last \in 0..Limit
        /\ check \in CheckType
    BY Limits DEF CheckSlot, CheckInv, TypeOK
  <1>2. i \in Slots /\ table \in Table
    BY <1>1 DEF Slots, TypeOK, Table
  <1>3. ASSUME check' = [check EXCEPT !.i = @ + 1]
        PROVE  check' \in CheckType /\ check'.idle + check'.dying < check'.i
    BY <1>1, <1>3
  <1>4. CASE /\ check' = [check EXCEPT !.i = @ + 1]
             /\ UNCHANGED <<table, parent>>
    BY <1>1, <1>2, <1>3, <1>4
  <1>5. ASSUME NEW waited \in BOOLEAN,
               table' = [table EXCEPT
                 ![i].iKillSent = IF TooMany \/ waited THEN KillSent(@) ELSE @],
               check' = [check EXCEPT
                 !.i = @ + 1,
                 !.idle = @ + IF table'[i].iKillSent = 0 THEN 1 ELSE 0],
               UNCHANGED parent
        PROVE  /\ table' \in Table /\ parent' = "check"
               /\ \A s \in Slots : /\ table'[s].pid = table[s].pid
                                   /\ table'[s].state = table[s].state
               /\ check' \in CheckType
               /\ check'.idle + check'.dying < check'.i
    <2>1. table[i].iKillSent \in 0..(KillLimit + 1)
      BY <1>2 DEF Table, ChildStatus
    <2>2. (IF TooMany \/ waited THEN KillSent(table[i].iKillSent)
                                ELSE table[i].iKillSent) \in 0..(KillLimit + 1)
      BY <2>1, Limits DEF KillSent
    <2>3. table' \in Table
      BY <1>2, <1>5, <2>2, SetField
    <2>4. \A s \in Slots : /\ table'[s].pid = table[s].pid
                           /\ table'[s].state = table[s].state
      BY <1>2, <1>5 DEF Table, ChildStatus
    <2>5. check' \in CheckType /\ check'.idle + check'.dying < check'.i
      <3> DEFINE more == IF table'[i].iKillSent = 0 THEN 1 ELSE 0
      <3>1. more \in {0, 1}
        OBVIOUS
      <3> HIDE DEF more
      <3>2. check' = [check EXCEPT !.i = check.i + 1, !.idle = check.idle + more]
        BY <1>1, <1>5 DEF more
      <3>3. /\ check.i + 1 \in 0..(Limit + 1) /\ check.idle + more \in 0..Limit
            /\ (check.idle + more) + check.dying < check.i + 1
        BY <1>1, <3>1
      <3>4. check' = [i |-> check.i + 1, last |-> check.last,
                      idle |-> check.idle + more, dying |-> check.dying,
                      sig |-> check.sig]
        BY <1>1, <3>2
      <3> QED
        BY <1>1, <3>3, <3>4
    <2> QED
      BY <1>1, <1>5, <2>3, <2>4, <2>5
  <1>6. ASSUME NEW late \in BOOLEAN,
               check' = IF late
                        THEN [check EXCEPT !.sig =
                                IF table[i].iKillSent > KillLimit THEN "KILL"
                                                                  ELSE "TERM"]
                        ELSE [check EXCEPT !.i = @ + 1],
               parent' = IF late THEN "kill" ELSE "check",
               UNCHANGED table
        PROVE  /\ parent' \in {"check", "kill"} /\ check' \in CheckType
               /\ check'.idle + check'.dying < check'.i
               /\ parent' = "kill" => check'.i <= check'.last
    BY <1>1, <1>6
  <1> QED
    BY <1>1, <1>2, <1>4, <1>5, <1>6 DEF CheckSlot

\* kill() and what follows it.
LEMMA KillFacts ==
  ASSUME TypeOK, CheckInv, KillChild \/ KillGroup
  PROVE  /\ parent = "kill" /\ parent' \in {"check", "exited"}
         /\ table' \in Table
         /\ \A s \in Slots : /\ table'[s].pid = table[s].pid
                             /\ table'[s].state = table[s].state
         /\ check' \in [i : 0..(Limit + 1), last : 0..Limit, idle : 0..Limit,
                        dying : 0..Limit, sig : {"none", "TERM", "KILL"}]
         /\ check'.idle + check'.dying < check'.i
         /\ UNCHANGED <<busy, accepting, cur, statusCur, forking, at, slot,
                        backlog, torn>>
         /\ life' \in [Pids -> {"none", "alive", "zombie"}]
         /\ \A p \in Pids : life[p] = "none" <=> life'[p] = "none"
         /\ processed' \in [Pids -> BOOLEAN]
  <1> USE DEF childVars
  <1> DEFINE i == check.i
  <1>1. /\ parent = "kill" /\ parent' \in {"check", "exited"}
        /\ i \in Nat /\ i <= check.last /\ i <= Limit
        /\ check.idle + check.dying < i /\ Limit \in Nat
        /\ check.idle \in Nat /\ check.dying \in Nat
        /\ check.last \in 0..Limit
    BY Limits DEF KillChild, KillGroup, CheckInv, TypeOK
  <1>2. i \in Slots /\ table \in Table
    BY <1>1 DEF Slots, TypeOK, Table
  <1>3. /\ table' = [table EXCEPT ![i].iKillSent = KillSent(@)]
        /\ check' = [check EXCEPT !.i = @ + 1, !.dying = @ + 1, !.sig = "none"]
        /\ UNCHANGED <<busy, accepting, cur, statusCur, forking, at, slot,
                       backlog, torn>>
    BY DEF KillChild, KillGroup, Dies
  <1>4. KillSent(table[i].iKillSent) \in 0..(KillLimit + 1)
    BY <1>2, Limits DEF KillSent, Table, ChildStatus
  <1>5. /\ table' \in Table
        /\ \A s \in Slots : /\ table'[s].pid = table[s].pid
                            /\ table'[s].state = table[s].state
    <2>1. table' \in Table
      BY <1>2, <1>3, <1>4, SetField
    <2> QED
      BY <1>2, <1>3, <2>1 DEF Table, ChildStatus
  <1>6. /\ check' \in [i : 0..(Limit + 1), last : 0..Limit, idle : 0..Limit,
                       dying : 0..Limit, sig : {"none", "TERM", "KILL"}]
        /\ check'.idle + check'.dying < check'.i
    <2>1. check' = [i |-> check.i + 1, last |-> check.last,
                    idle |-> check.idle, dying |-> check.dying + 1,
                    sig |-> "none"]
      BY <1>3 DEF TypeOK
    <2>2. /\ check.i + 1 \in 0..(Limit + 1) /\ check.dying + 1 \in 0..Limit
          /\ check.idle + (check.dying + 1) < check.i + 1
      BY <1>1
    <2> QED
      BY <1>1, <2>1, <2>2 DEF TypeOK
  <1>7. /\ life' \in [Pids -> {"none", "alive", "zombie"}]
        /\ \A p \in Pids : life[p] = "none" <=> life'[p] = "none"
    BY DEF KillChild, KillGroup, Dies, TypeOK
  <1>8. processed' \in [Pids -> BOOLEAN]
    BY DEF KillChild, KillGroup, Dies, TypeOK
  <1> QED
    BY <1>1, <1>3, <1>5, <1>6, <1>7, <1>8

\* kill() has found no such process.
LEMMA KillGoneFacts ==
  ASSUME TypeOK, CheckInv, KillGone
  PROVE  /\ parent = "kill" /\ parent' \in {"check", "exited"}
         /\ table' \in Table
         /\ \A s \in Slots : /\ table'[s].pid = table[s].pid
                             /\ table'[s].state = table[s].state
         /\ check' \in [i : 0..(Limit + 1), last : 0..Limit, idle : 0..Limit,
                        dying : 0..Limit, sig : {"none", "TERM", "KILL"}]
         /\ check'.idle + check'.dying < check'.i
         /\ UNCHANGED <<busy, accepting, cur, statusCur, forking, at, slot,
                        backlog, torn>>
         /\ life' \in [Pids -> {"none", "alive", "zombie"}]
         /\ \A p \in Pids : life[p] = "none" <=> life'[p] = "none"
         /\ processed' \in [Pids -> BOOLEAN]
  <1>1. /\ check.i \in Nat /\ check.i <= check.last
        /\ check.idle + check.dying < check.i /\ Limit \in Nat
        /\ check.idle \in 0..Limit /\ check.dying \in 0..Limit
        /\ check.last \in 0..Limit
    BY Limits DEF KillGone, CheckInv, TypeOK
  <1>2. check' = [i |-> check.i + 1, last |-> check.last, idle |-> check.idle,
                  dying |-> check.dying, sig |-> "none"]
    BY DEF KillGone, TypeOK
  <1>3. check.i + 1 \in 0..(Limit + 1)
        /\ check.idle + check.dying < check.i + 1
    BY <1>1
  <1>4. /\ check' \in [i : 0..(Limit + 1), last : 0..Limit, idle : 0..Limit,
                       dying : 0..Limit, sig : {"none", "TERM", "KILL"}]
        /\ check'.idle + check'.dying < check'.i
    BY <1>1, <1>2, <1>3
  <1> QED
    BY <1>4 DEF KillGone, TypeOK, Table, childVars

\* find_child_status(0) finds a free slot: fewer children than slots are on the
\* books, and a slot that is in use belongs to one of them.
LEMMA FreeSlotExists ==
  ASSUME TypeOK, ParentInv, SlotInv, CurInv, parent = "find"
  PROVE  SlotsOf(0) # {}
  <1> SUFFICES ASSUME SlotsOf(0) = {} PROVE FALSE
    OBVIOUS
  <1> DEFINE f == [p \in Recorded |-> slot[p]]
  <1>1. \A s \in Slots : table[s].pid \in Recorded /\ slot[table[s].pid] = s
    <2>1. \A s \in Slots : table[s].pid \in Pids \cup {0, -1}
      BY DEF TypeOK, ChildStatus
    <2>2. \A s \in Slots : table[s].pid # 0
      BY DEF SlotsOf
    <2> QED
      BY <2>1, <2>2 DEF SlotInv
  <1>2. \A p \in Recorded : slot[p] \in Slots
    BY DEF SlotInv, Recorded
  <1>3. f \in Surjection(Recorded, Slots)
    BY <1>1, <1>2 DEF Surjection
  <1>4. IsFiniteSet(Recorded) /\ Cardinality(Recorded) \in Nat
    BY Limits DEF Recorded, Children
  <1>5. Cardinality(Slots) <= Cardinality(Recorded)
    BY <1>3, <1>4, FS_Surjection
  <1>6. Cardinality(Slots) = Limit
    BY Limits, FS_Interval DEF Slots
  <1> QED
    BY <1>5, <1>6, Limits DEF CurInv, ParentInv, TypeOK

\* The slot that is reserved for the next child was free, and no child uses it.
LEMMA FindFacts ==
  ASSUME TypeOK, ParentInv, SlotInv, CurInv, FindSlot
  PROVE  \E s \in Slots :
           /\ table[s].pid = 0
           /\ table' \in Table /\ table'[s].pid = -1 /\ table'[s].state = "IDLE"
           /\ \A r \in Slots : r # s => table'[r] = table[r]
           /\ statusCur' = IF s > statusCur THEN s ELSE statusCur
           /\ forking' = [slot |-> s, pid |-> 0]
           /\ Children' = Children /\ Recorded' = Recorded
           /\ \A p \in Children : slot[p] \in Slots /\ slot[p] # s
  <1> DEFINE s == CHOOSE s \in SlotsOf(0) : \A r \in SlotsOf(0) : s <= r
  <1>1. SlotsOf(0) # {}
    BY FreeSlotExists DEF FindSlot
  <1>2. SlotsOf(0) \in SUBSET Nat
    BY Limits DEF SlotsOf, Slots
  <1>3. \E x \in SlotsOf(0) : \A y \in SlotsOf(0) : x <= y
    BY <1>1, <1>2, SmallestExists
  <1>4. s \in SlotsOf(0)
    BY <1>3, Zenon
  <1>5. /\ table' = [table EXCEPT ![s] = [FreeSlot EXCEPT !.pid = -1]]
        /\ statusCur' = IF s > statusCur THEN s ELSE statusCur
        /\ forking' = [slot |-> s, pid |-> 0]
    BY <1>1, Zenon DEF FindSlot
  <1> HIDE DEF s
  <1>6. s \in Slots /\ table[s].pid = 0
    BY <1>4 DEF SlotsOf
  <1>7. FreeSlot \in ChildStatus
    <2>1. 0 \in 0..(KillLimit + 1)
      BY Limits
    <2> QED
      BY <2>1, Zenon DEF FreeSlot, ChildStatus
  <1>8. [FreeSlot EXCEPT !.pid = -1] \in ChildStatus
    BY <1>7 DEF ChildStatus
  <1>9. /\ table' \in Table /\ table'[s].pid = -1 /\ table'[s].state = "IDLE"
        /\ \A r \in Slots : r # s => table'[r] = table[r]
    <2>1. /\ [FreeSlot EXCEPT !.pid = -1].pid = -1
          /\ [FreeSlot EXCEPT !.pid = -1].state = "IDLE"
      BY DEF FreeSlot
    <2>2. table'[s] = [FreeSlot EXCEPT !.pid = -1]
      BY <1>5, <1>6 DEF TypeOK
    <2> QED
      BY <1>5, <1>6, <1>8, <2>1, <2>2 DEF TypeOK, Table
  <1>10. Children' = Children /\ Recorded' = Recorded
    <2>1. forking.pid = 0 /\ UNCHANGED life
      BY DEF FindSlot, ParentInv, childVars
    <2>2. forking'.pid = 0
      BY <1>5
    <2> QED
      BY <2>1, <2>2 DEF Children, Recorded
  <1>11. \A p \in Children : slot[p] \in Slots /\ slot[p] # s
    <2>1. forking.pid = 0
      BY DEF FindSlot, ParentInv
    <2>2. \A p \in Children : p \in Recorded /\ p # 0
      BY <2>1, Limits DEF Children, Recorded
    <2> QED
      BY <1>6, <2>2 DEF SlotInv
  <1> QED
    BY <1>5, <1>6, <1>9, <1>10, <1>11

\* lsapi_sigchild() finds the child, in its own slot, and leaves the slots of
\* the other children alone.
LEMMA ReapFacts ==
  ASSUME TypeOK, ParentInv, SlotInv, RangeInv, NEW p \in Pids,
         lsapi_sigchild(p)
  PROVE  /\ p \in Recorded /\ forking.pid = 0 /\ parent # "record"
         /\ slot[p] \in Slots /\ table[slot[p]].pid = p
         /\ Release(slot[p]) /\ cur' = cur - 1
         /\ table' \in Table /\ table'[slot[p]].pid = 0
         /\ \A s \in Slots : s # slot[p] => table'[s] = table[s]
         /\ \A s \in Slots : table'[s].pid # 0 => s <= statusCur'
         /\ Children' = Children \ {p} /\ Recorded' = Recorded \ {p}
         /\ \A q \in Children' : /\ slot'[q] = slot[q] /\ at'[q] = at[q]
                                 /\ slot[q] \in Slots /\ slot[q] # slot[p]
         /\ UNCHANGED <<forking, parent>>
  <1>1. life[p] = "zombie" /\ parent # "record"
    BY DEF lsapi_sigchild, Blocked
  <1>2. forking.pid = 0 /\ p \in Recorded
    BY <1>1, Limits DEF ParentInv, Recorded, Children
  <1>3. slot[p] \in Slots /\ table[slot[p]].pid = p /\ p # 0
    BY <1>2, Limits DEF SlotInv, Recorded
  <1>4. SlotsOf(p) = {slot[p]}
    <2>1. \A s \in Slots : table[s].pid = p => s = slot[p]
      BY DEF SlotInv
    <2> QED
      BY <1>3, <2>1 DEF SlotsOf
  <1> DEFINE s == CHOOSE s \in SlotsOf(p) : \A r \in SlotsOf(p) : s <= r
  <1>5. s = slot[p]
    <2>1. slot[p] <= slot[p]
      BY <1>3, Limits DEF Slots
    <2> QED
      BY <1>4, <2>1
  <1>6. Release(s) /\ cur' = cur - 1
    <2>1. SlotsOf(p) # {}
      BY <1>4
    <2> QED
      BY <2>1, Zenon DEF lsapi_sigchild, OneLess
  <1> HIDE DEF s
  <1>7. Release(slot[p])
    BY <1>5, <1>6
  <1>8. table \in Table
    BY DEF TypeOK, Table
  <1>9. table' \in Table
    BY <1>3, <1>7, <1>8, SetField DEF Release
  <1>10. /\ table'[slot[p]].pid = 0
         /\ \A r \in Slots : r # slot[p] => table'[r] = table[r]
    BY <1>3, <1>7, <1>8 DEF Release, Table, ChildStatus
  <1>11. ASSUME NEW r \in Slots, table'[r].pid # 0 PROVE r <= statusCur'
    <2>1. /\ statusCur' \in 0..statusCur /\ statusCur \in Nat
          /\ \A k \in (statusCur' + 1)..statusCur : table'[k].pid = 0
      BY ShrunkType DEF lsapi_sigchild, TypeOK
    <2>2. r # slot[p] /\ table'[r] = table[r]
      BY <1>10, <1>11
    <2>3. r <= statusCur /\ r \in Nat
      BY <1>11, <2>2, Limits DEF RangeInv, Slots
    <2>4. r > statusCur' => r \in (statusCur' + 1)..statusCur
      <3>1. statusCur' \in Nat /\ statusCur \in Nat
        BY <2>1
      <3> QED
        BY <2>3, <3>1, AboveInRange
    <2>5. ~(r > statusCur')
      BY <1>11, <2>1, <2>4
    <2>6. r \in Nat /\ statusCur' \in Nat
      BY <2>1, <2>3
    <2> QED
      BY <2>5, <2>6
  <1>12. /\ \A q \in Pids : q # p => /\ slot'[q] = slot[q] /\ at'[q] = at[q]
                                     /\ life'[q] = life[q]
         /\ life'[p] = "none" /\ UNCHANGED <<forking, parent>>
    BY DEF lsapi_sigchild, TypeOK
  <1>13. Children' = Children \ {p} /\ Recorded' = Recorded \ {p}
    <2>1. Children' = Children \ {p}
      BY <1>12 DEF Children
    <2> QED
      BY <1>12, <2>1 DEF Recorded
  <1>14. ASSUME NEW q \in Children'
         PROVE  slot[q] \in Slots /\ slot[q] # slot[p]
    <2>1. q \in Recorded /\ q # p
      BY <1>2, <1>13, Limits DEF Recorded, Children
    <2> QED
      BY <1>3, <2>1 DEF SlotInv, Recorded
  <1>15. \A q \in Children' : slot'[q] = slot[q] /\ at'[q] = at[q]
    BY <1>12, <1>13 DEF Children
  <1> QED
    BY <1>1, <1>2, <1>3, <1>6, <1>7, <1>9, <1>10, <1>11, <1>12, <1>13, <1>14,
       <1>15

\* Every step keeps the types, and m_iCurChildren within the limit.
LEMMA TypeOKStep ==
  ASSUME PreforkInv, [Next]_vars
  PROVE  TypeOK'
  <1> USE Limits DEF parentVars, childVars
  <1> /\ TypeOK /\ ParentInv /\ CheckInv /\ SlotInv /\ RangeInv /\ StateInv
      /\ CurInv
    BY DEF PreforkInv
  <1>1. CASE Connect
    BY <1>1 DEF Connect, TypeOK, CheckInv, ParentInv
  <1>2. CASE Exit
    BY <1>2 DEF Exit, TypeOK, CheckInv, ParentInv
  <1>3. CASE Top
    <2>1. check' \in [i : 0..(Limit + 1), last : 0..Limit, idle : 0..Limit,
                       dying : 0..Limit, sig : {"none", "TERM", "KILL"}]
      <3>1. CASE UNCHANGED check
        BY <3>1 DEF TypeOK
      <3>2. CASE check' = [NoCheck EXCEPT !.i = 1, !.last = statusCur]
        <4>1. check' = [i |-> 1, last |-> statusCur, idle |-> 0, dying |-> 0,
                        sig |-> "none"]
          BY <3>2 DEF NoCheck
        <4> QED
          BY <4>1 DEF TypeOK
      <3> QED
        BY <1>3, <3>1, <3>2 DEF Top
    <2> QED
      BY <1>3, <2>1 DEF Top, TypeOK
  <1>4. CASE CheckSlot
    BY <1>4, CheckFacts DEF CheckSlot, TypeOK, Table
  <1>5. CASE KillChild
    <2>1. UNCHANGED s_stop
      BY <1>5 DEF KillChild
    <2> QED
      BY <1>5, <2>1, KillFacts DEF TypeOK, Table
  <1>6. CASE KillGroup \/ KillGone
    <2>1. s_stop' \in BOOLEAN
      BY <1>6, Zenon DEF KillGroup, KillGone, TypeOK
    <2> QED
      BY <1>6, <2>1, KillFacts, KillGoneFacts DEF TypeOK, Table
  <1>7. CASE CheckDone
    BY <1>7 DEF CheckDone, NoCheck, TypeOK, CheckInv, ParentInv
  <1>8. CASE Select
    BY <1>8 DEF Select, AtLimit, TypeOK, CheckInv, ParentInv
  <1>9. CASE Accept
    BY <1>9 DEF Accept, TypeOK, CheckInv, ParentInv
  <1>10. CASE FindSlot
    <2>1. PICK s \in Slots :
            /\ table' \in Table
            /\ statusCur' = IF s > statusCur THEN s ELSE statusCur
            /\ forking' = [slot |-> s, pid |-> 0]
      BY <1>10, FindFacts
    <2>2. s \in 0..Limit
      BY DEF Slots
    <2>3. /\ statusCur' \in 0..Limit
          /\ forking' \in [slot : 0..Limit, pid : Pids \cup {0}]
      BY <2>1, <2>2 DEF TypeOK
    <2> QED
      BY <1>10, <2>1, <2>3 DEF FindSlot, TypeOK, Table
  <1>11. CASE Fork
    BY <1>11 DEF Fork, TypeOK, CheckInv, ParentInv
  <1>12. CASE ForkFails
    <2>1. table \in Table /\ forking.slot \in Slots
      BY <1>12 DEF ForkFails, TypeOK, Table, ParentInv
    <2>2. table' \in Table
      BY <1>12, <2>1, SetField DEF ForkFails
    <2>3. forking' \in [slot : 0..Limit, pid : Pids \cup {0}]
      BY <1>12 DEF ForkFails
    <2> QED
      BY <1>12, <2>2, <2>3 DEF ForkFails, TypeOK, Table
  <1>13. CASE Record
    <2>1. table \in Table /\ forking.slot \in Slots /\ forking.pid \in Pids
      BY <1>13 DEF Record, TypeOK, Table, ParentInv, Children
    <2>2. table' \in Table
      BY <1>13, <2>1, SetField DEF Record
    <2>3. forking' \in [slot : 0..Limit, pid : Pids \cup {0}]
      BY <1>13 DEF Record
    <2>4. cur' \in 0..Limit
      BY <1>13 DEF Record, TypeOK, ParentInv
    <2> QED
      BY <1>13, <2>2, <2>3, <2>4 DEF Record, TypeOK, Table
  <1>14. ASSUME NEW p \in Pids, lsapi_sigchild(p) PROVE TypeOK'
    <2>1. /\ slot[p] \in Slots /\ table \in Table /\ Release(slot[p])
          /\ cur' = cur - 1 /\ p \in Recorded
      BY <1>14, ReapFacts DEF TypeOK, Table
    <2>2. table' \in Table /\ busy' \in Int /\ accepting' \in Int
      <3>1. table' \in Table
        BY <1>14, ReapFacts
      <3>2. busy' \in Int /\ accepting' \in Int
        BY <2>1 DEF Release, TypeOK
      <3> QED
        BY <3>1, <3>2
    <2>3. cur' \in 0..Limit
      <3>1. cur # 0
        BY <2>1, FS_EmptySet DEF CurInv, Recorded, Children
      <3> QED
        BY <2>1, <3>1 DEF TypeOK
    <2>4. statusCur' \in 0..Limit
      <3>1. Shrunk(table', statusCur) \in 0..statusCur
        BY ShrunkType DEF TypeOK
      <3> QED
        BY <1>14, <3>1 DEF lsapi_sigchild, TypeOK
    <2>5. torn' \in [busy : Nat, accepting : Nat]
      <3> DEFINE b == IF TornBusy(p) THEN 1 ELSE 0
                 a == IF TornAccepting(p) THEN 1 ELSE 0
      <3>1. a \in Nat /\ b \in Nat
        OBVIOUS
      <3>2. torn' = [torn EXCEPT !.busy = @ + b, !.accepting = @ + a]
        BY <1>14 DEF lsapi_sigchild
      <3> HIDE DEF a, b
      <3>3. torn' = [busy |-> torn.busy + b, accepting |-> torn.accepting + a]
        BY <3>2 DEF TypeOK
      <3> QED
        BY <3>1, <3>3 DEF TypeOK
    <2> QED
      BY <1>14, <2>2, <2>3, <2>4, <2>5 DEF lsapi_sigchild, TypeOK, Table
  <1>15. ASSUME NEW p \in Pids, ChildDies(p) PROVE TypeOK'
    BY <1>15 DEF ChildDies, Dies, TypeOK, CheckInv, ParentInv
  <1>16. ASSUME NEW p \in Pids, SetConnected(p) PROVE TypeOK'
    <2>1. slot[p] \in Slots /\ table \in Table
      BY <1>16 DEF SetConnected, Moves, SlotInv, Children, TypeOK, Table
    <2>2. table' \in Table
      BY <1>16, <2>1, SetField DEF SetConnected
    <2> QED
      BY <1>16, <2>2 DEF SetConnected, Moves, TypeOK, Table
  <1>17. ASSUME NEW p \in Pids, CountBusy(p) PROVE TypeOK'
    BY <1>17 DEF CountBusy, Moves, TypeOK, CheckInv, ParentInv
  <1>18. ASSUME NEW p \in Pids, Request(p) PROVE TypeOK'
    <2>1. slot[p] \in Slots /\ table \in Table
      BY <1>18 DEF Request, Moves, SlotInv, Children, TypeOK, Table
    <2>2. table' \in Table
      <3> DEFINE t == [table EXCEPT ![slot[p]].iKillSent = 0]
      <3>1. t \in Table
        <4>1. 0 \in 0..(KillLimit + 1)
          OBVIOUS
        <4> QED
          BY <2>1, <4>1, SetField
      <3>2. table' = [t EXCEPT ![slot[p]].inProcess = TRUE]
        BY <1>18 DEF Request
      <3> QED
        BY <2>1, <3>1, <3>2, SetField
    <2> QED
      BY <1>18, <2>2 DEF Request, Moves, TypeOK, Table
  <1>19. ASSUME NEW p \in Pids, Finish(p) PROVE TypeOK'
    BY <1>19 DEF Finish, Moves, TypeOK, CheckInv, ParentInv
  <1>20. ASSUME NEW p \in Pids, NoRequest(p) PROVE TypeOK'
    <2>1. slot[p] \in Slots /\ table \in Table
      BY <1>20 DEF NoRequest, Moves, SlotInv, Children, TypeOK, Table
    <2>2. table' \in Table
      BY <1>20, <2>1, SetField DEF NoRequest
    <2> QED
      BY <1>20, <2>2 DEF NoRequest, Moves, TypeOK, Table
  <1>21. ASSUME NEW p \in Pids, CloseCount(p) PROVE TypeOK'
    BY <1>21 DEF CloseCount, Moves, TypeOK, CheckInv, ParentInv
  <1>22. ASSUME NEW p \in Pids, CloseState(p) PROVE TypeOK'
    <2>1. slot[p] \in Slots /\ table \in Table
      BY <1>22 DEF CloseState, Moves, SlotInv, Children, TypeOK, Table
    <2>2. table' \in Table
      BY <1>22, <2>1, SetField DEF CloseState
    <2> QED
      BY <1>22, <2>2 DEF CloseState, Moves, TypeOK, Table
  <1>23. ASSUME NEW p \in Pids, Announce(p) PROVE TypeOK'
    <2>1. slot[p] \in Slots /\ table \in Table
      BY <1>23 DEF Announce, Moves, SlotInv, Children, TypeOK, Table
    <2>2. table' \in Table
      BY <1>23, <2>1, SetField DEF Announce
    <2> QED
      BY <1>23, <2>2 DEF Announce, Moves, TypeOK, Table
  <1>24. ASSUME NEW p \in Pids, CountAccepting(p) PROVE TypeOK'
    BY <1>24 DEF CountAccepting, Moves, TypeOK, CheckInv, ParentInv
  <1>25. ASSUME NEW p \in Pids, SelectReturns(p) PROVE TypeOK'
    BY <1>25 DEF SelectReturns, Moves, TypeOK, CheckInv, ParentInv
  <1>26. ASSUME NEW p \in Pids, BackReady(p) PROVE TypeOK'
    <2>1. slot[p] \in Slots /\ table \in Table
      BY <1>26 DEF BackReady, Moves, SlotInv, Children, TypeOK, Table
    <2>2. table' \in Table
      BY <1>26, <2>1, SetField DEF BackReady
    <2> QED
      BY <1>26, <2>2 DEF BackReady, Moves, TypeOK, Table
  <1>27. ASSUME NEW p \in Pids, BackTimeout(p) PROVE TypeOK'
    <2>1. slot[p] \in Slots /\ table \in Table
      BY <1>27 DEF BackTimeout, Moves, SlotInv, Children, TypeOK, Table
    <2>2. table' \in Table
      BY <1>27, <2>1, SetField DEF BackTimeout
    <2> QED
      BY <1>27, <2>2 DEF BackTimeout, Moves, TypeOK, Table
  <1>28. ASSUME NEW p \in Pids, ChildAccept(p) PROVE TypeOK'
    BY <1>28 DEF ChildAccept, Moves, TypeOK, CheckInv, ParentInv
  <1>29. ASSUME NEW p \in Pids, Leave(p) PROVE TypeOK'
    BY <1>29 DEF Leave, TypeOK, CheckInv, ParentInv
  <1>30. CASE UNCHANGED vars
    BY <1>30 DEF vars, TypeOK, CheckInv, ParentInv
  <1> QED
    BY <1>1, <1>2, <1>3, <1>4, <1>5, <1>6, <1>7, <1>8, <1>9, <1>10, <1>11,
       <1>12, <1>13, <1>14, <1>15, <1>16, <1>17, <1>18, <1>19, <1>20, <1>21,
       <1>22, <1>23, <1>24, <1>25, <1>26, <1>27, <1>28, <1>29, <1>30,
       Zenon DEF Next, Parent, Child

\* Nothing takes the room or the slot of the next child away: while the parent
\* is on its way to fork(), lsapi_sigchild() only makes more room.
LEMMA ParentInvStep ==
  ASSUME PreforkInv, [Next]_vars
  PROVE  ParentInv'
  <1> USE Limits DEF parentVars, childVars
  <1> /\ TypeOK /\ ParentInv /\ CheckInv /\ SlotInv /\ RangeInv /\ StateInv
      /\ CurInv
    BY DEF PreforkInv
  <1>1. CASE Connect
    BY <1>1 DEF Connect, ParentInv, TypeOK, SlotInv, Children, Recorded
  <1>2. CASE Exit
    BY <1>2 DEF Exit, ParentInv, TypeOK, SlotInv, Children, Recorded
  <1>3. CASE Top
    BY <1>3 DEF Top, NoCheck, ParentInv, TypeOK, SlotInv, Children, Recorded
  <1>4. CASE CheckSlot
    BY <1>4, CheckFacts DEF CheckSlot, ParentInv, Children, TypeOK
  <1>5. CASE KillChild
    BY <1>5, KillFacts DEF ParentInv, Children, TypeOK
  <1>6. CASE KillGroup \/ KillGone
    BY <1>6, KillFacts, KillGoneFacts DEF ParentInv, Children, TypeOK
  <1>7. CASE CheckDone
    BY <1>7 DEF CheckDone, NoCheck, ParentInv, TypeOK, SlotInv, Children,
       Recorded
  <1>8. CASE Select
    BY <1>8 DEF Select, AtLimit, ParentInv, TypeOK, SlotInv, Children, Recorded
  <1>9. CASE Accept
    BY <1>9 DEF Accept, ParentInv, TypeOK, SlotInv, Children, Recorded
  <1>10. CASE FindSlot
    <2>1. PICK s \in Slots :
            /\ table'[s].pid = -1 /\ table'[s].state = "IDLE"
            /\ forking' = [slot |-> s, pid |-> 0]
      BY <1>10, FindFacts
    <2>2. forking'.slot = s /\ forking'.pid = 0
      BY <2>1
    <2> QED
      BY <1>10, <2>1, <2>2 DEF FindSlot, ParentInv
  <1>11. CASE Fork
    BY <1>11 DEF Fork, ParentInv, TypeOK, SlotInv, Children, Recorded
  <1>12. CASE ForkFails
    BY <1>12 DEF ForkFails, ParentInv, TypeOK, SlotInv, Children, Recorded
  <1>13. CASE Record
    BY <1>13 DEF Record, ParentInv, TypeOK, SlotInv, Children, Recorded
  <1>14. ASSUME NEW p \in Pids, lsapi_sigchild(p) PROVE ParentInv'
    <2>1. UNCHANGED <<forking, parent>> /\ parent # "record" /\ forking.pid = 0
      BY <1>14, ReapFacts
    <2>2. cur < Limit => cur' < Limit
      BY <1>14, ReapFacts DEF TypeOK
    <2>3. parent = "fork" => table'[forking.slot] = table[forking.slot]
      BY <1>14, ReapFacts DEF ParentInv
    <2> QED
      BY <2>1, <2>2, <2>3 DEF ParentInv
  <1>15. ASSUME NEW p \in Pids, ChildDies(p) PROVE ParentInv'
    BY <1>15 DEF ChildDies, Dies, ParentInv, TypeOK, SlotInv, Children,
       Recorded
  <1>16. ASSUME NEW p \in Pids, SetConnected(p) PROVE ParentInv'
    BY <1>16 DEF SetConnected, Moves, ParentInv, TypeOK, SlotInv, Children,
       Recorded
  <1>17. ASSUME NEW p \in Pids, CountBusy(p) PROVE ParentInv'
    BY <1>17 DEF CountBusy, Moves, ParentInv, TypeOK, SlotInv, Children,
       Recorded
  <1>18. ASSUME NEW p \in Pids, Request(p) PROVE ParentInv'
    BY <1>18 DEF Request, Moves, ParentInv, TypeOK, SlotInv, Children, Recorded
  <1>19. ASSUME NEW p \in Pids, Finish(p) PROVE ParentInv'
    BY <1>19 DEF Finish, Moves, ParentInv, TypeOK, SlotInv, Children, Recorded
  <1>20. ASSUME NEW p \in Pids, NoRequest(p) PROVE ParentInv'
    BY <1>20 DEF NoRequest, Moves, ParentInv, TypeOK, SlotInv, Children,
       Recorded
  <1>21. ASSUME NEW p \in Pids, CloseCount(p) PROVE ParentInv'
    BY <1>21 DEF CloseCount, Moves, ParentInv, TypeOK, SlotInv, Children,
       Recorded
  <1>22. ASSUME NEW p \in Pids, CloseState(p) PROVE ParentInv'
    BY <1>22 DEF CloseState, Moves, ParentInv, TypeOK, SlotInv, Children,
       Recorded
  <1>23. ASSUME NEW p \in Pids, Announce(p) PROVE ParentInv'
    BY <1>23 DEF Announce, Moves, ParentInv, TypeOK, SlotInv, Children,
       Recorded
  <1>24. ASSUME NEW p \in Pids, CountAccepting(p) PROVE ParentInv'
    BY <1>24 DEF CountAccepting, Moves, ParentInv, TypeOK, SlotInv, Children,
       Recorded
  <1>25. ASSUME NEW p \in Pids, SelectReturns(p) PROVE ParentInv'
    BY <1>25 DEF SelectReturns, Moves, ParentInv, TypeOK, SlotInv, Children,
       Recorded
  <1>26. ASSUME NEW p \in Pids, BackReady(p) PROVE ParentInv'
    BY <1>26 DEF BackReady, Moves, ParentInv, TypeOK, SlotInv, Children,
       Recorded
  <1>27. ASSUME NEW p \in Pids, BackTimeout(p) PROVE ParentInv'
    BY <1>27 DEF BackTimeout, Moves, ParentInv, TypeOK, SlotInv, Children,
       Recorded
  <1>28. ASSUME NEW p \in Pids, ChildAccept(p) PROVE ParentInv'
    BY <1>28 DEF ChildAccept, Moves, ParentInv, TypeOK, SlotInv, Children,
       Recorded
  <1>29. ASSUME NEW p \in Pids, Leave(p) PROVE ParentInv'
    BY <1>29 DEF Leave, ParentInv, TypeOK, SlotInv, Children, Recorded
  <1>30. CASE UNCHANGED vars
    BY <1>30 DEF vars, ParentInv, TypeOK, SlotInv, Children, Recorded
  <1> QED
    BY <1>1, <1>2, <1>3, <1>4, <1>5, <1>6, <1>7, <1>8, <1>9, <1>10, <1>11,
       <1>12, <1>13, <1>14, <1>15, <1>16, <1>17, <1>18, <1>19, <1>20, <1>21,
       <1>22, <1>23, <1>24, <1>25, <1>26, <1>27, <1>28, <1>29, <1>30,
       Zenon DEF Next, Parent, Child

\* lsapi_check_child_status() counts a slot once.
LEMMA CheckInvStep ==
  ASSUME PreforkInv, [Next]_vars
  PROVE  CheckInv'
  <1> USE Limits DEF parentVars, childVars
  <1> /\ TypeOK /\ ParentInv /\ CheckInv /\ SlotInv /\ RangeInv /\ StateInv
      /\ CurInv
    BY DEF PreforkInv
  <1>1. CASE Connect
    BY <1>1 DEF Connect, CheckInv, TypeOK
  <1>2. CASE Exit
    BY <1>2 DEF Exit, CheckInv, TypeOK
  <1>3. CASE Top
    <2>1. \/ parent' = "wait"
          \/ parent' = "check" /\ check'.i = 1 /\ check'.idle = 0
               /\ check'.dying = 0
      BY <1>3 DEF Top, NoCheck
    <2> QED
      BY <2>1 DEF CheckInv
  <1>4. CASE CheckSlot
    BY <1>4, CheckFacts DEF CheckInv
  <1>5. CASE KillChild
    BY <1>5, KillFacts DEF CheckInv
  <1>6. CASE KillGroup \/ KillGone
    BY <1>6, KillFacts, KillGoneFacts DEF CheckInv
  <1>7. CASE CheckDone
    BY <1>7 DEF CheckDone, NoCheck, CheckInv, TypeOK
  <1>8. CASE Select
    BY <1>8 DEF Select, AtLimit, CheckInv, TypeOK
  <1>9. CASE Accept
    BY <1>9 DEF Accept, CheckInv, TypeOK
  <1>10. CASE FindSlot
    BY <1>10 DEF FindSlot, FreeSlot, CheckInv, TypeOK
  <1>11. CASE Fork
    BY <1>11 DEF Fork, CheckInv, TypeOK
  <1>12. CASE ForkFails
    BY <1>12 DEF ForkFails, CheckInv, TypeOK
  <1>13. CASE Record
    BY <1>13 DEF Record, CheckInv, TypeOK
  <1>14. ASSUME NEW p \in Pids, lsapi_sigchild(p) PROVE CheckInv'
    BY <1>14 DEF lsapi_sigchild, CheckInv, TypeOK
  <1>15. ASSUME NEW p \in Pids, ChildDies(p) PROVE CheckInv'
    BY <1>15 DEF ChildDies, Dies, CheckInv, TypeOK
  <1>16. ASSUME NEW p \in Pids, SetConnected(p) PROVE CheckInv'
    BY <1>16 DEF SetConnected, Moves, CheckInv, TypeOK
  <1>17. ASSUME NEW p \in Pids, CountBusy(p) PROVE CheckInv'
    BY <1>17 DEF CountBusy, Moves, CheckInv, TypeOK
  <1>18. ASSUME NEW p \in Pids, Request(p) PROVE CheckInv'
    BY <1>18 DEF Request, Moves, CheckInv, TypeOK
  <1>19. ASSUME NEW p \in Pids, Finish(p) PROVE CheckInv'
    BY <1>19 DEF Finish, Moves, CheckInv, TypeOK
  <1>20. ASSUME NEW p \in Pids, NoRequest(p) PROVE CheckInv'
    BY <1>20 DEF NoRequest, Moves, CheckInv, TypeOK
  <1>21. ASSUME NEW p \in Pids, CloseCount(p) PROVE CheckInv'
    BY <1>21 DEF CloseCount, Moves, CheckInv, TypeOK
  <1>22. ASSUME NEW p \in Pids, CloseState(p) PROVE CheckInv'
    BY <1>22 DEF CloseState, Moves, CheckInv, TypeOK
  <1>23. ASSUME NEW p \in Pids, Announce(p) PROVE CheckInv'
    BY <1>23 DEF Announce, Moves, CheckInv, TypeOK
  <1>24. ASSUME NEW p \in Pids, CountAccepting(p) PROVE CheckInv'
    BY <1>24 DEF CountAccepting, Moves, CheckInv, TypeOK
  <1>25. ASSUME NEW p \in Pids, SelectReturns(p) PROVE CheckInv'
    BY <1>25 DEF SelectReturns, Moves, CheckInv, TypeOK
  <1>26. ASSUME NEW p \in Pids, BackReady(p) PROVE CheckInv'
    BY <1>26 DEF BackReady, Moves, CheckInv, TypeOK
  <1>27. ASSUME NEW p \in Pids, BackTimeout(p) PROVE CheckInv'
    BY <1>27 DEF BackTimeout, Moves, CheckInv, TypeOK
  <1>28. ASSUME NEW p \in Pids, ChildAccept(p) PROVE CheckInv'
    BY <1>28 DEF ChildAccept, Moves, CheckInv, TypeOK
  <1>29. ASSUME NEW p \in Pids, Leave(p) PROVE CheckInv'
    BY <1>29 DEF Leave, CheckInv, TypeOK
  <1>30. CASE UNCHANGED vars
    BY <1>30 DEF vars, CheckInv, TypeOK
  <1> QED
    BY <1>1, <1>2, <1>3, <1>4, <1>5, <1>6, <1>7, <1>8, <1>9, <1>10, <1>11,
       <1>12, <1>13, <1>14, <1>15, <1>16, <1>17, <1>18, <1>19, <1>20, <1>21,
       <1>22, <1>23, <1>24, <1>25, <1>26, <1>27, <1>28, <1>29, <1>30,
       Zenon DEF Next, Parent, Child

\* A child and its slot keep belonging to each other.
LEMMA SlotInvStep ==
  ASSUME PreforkInv, [Next]_vars
  PROVE  SlotInv'
  <1> USE Limits DEF parentVars, childVars
  <1> /\ TypeOK /\ ParentInv /\ CheckInv /\ SlotInv /\ RangeInv /\ StateInv
      /\ CurInv
    BY DEF PreforkInv
  <1>1. CASE Connect
    BY <1>1 DEF Connect, SlotInv, TypeOK, ParentInv, Children, Recorded
  <1>2. CASE Exit
    BY <1>2 DEF Exit, SlotInv, TypeOK, ParentInv, Children, Recorded
  <1>3. CASE Top
    BY <1>3 DEF Top, NoCheck, SlotInv, TypeOK, ParentInv, Children, Recorded
  <1>4. CASE CheckSlot
    BY <1>4, CheckFacts DEF CheckSlot, SlotInv, SlotInv, Children, Recorded,
       TypeOK
  <1>5. CASE KillChild
    BY <1>5, KillFacts DEF SlotInv, SlotInv, ParentInv, Children, Recorded,
       TypeOK
  <1>6. CASE KillGroup \/ KillGone
    BY <1>6, KillFacts, KillGoneFacts DEF SlotInv, SlotInv, ParentInv, Children, Recorded,
       TypeOK
  <1>7. CASE CheckDone
    BY <1>7 DEF CheckDone, NoCheck, SlotInv, TypeOK, ParentInv, Children,
       Recorded
  <1>8. CASE Select
    BY <1>8 DEF Select, AtLimit, SlotInv, TypeOK, ParentInv, Children, Recorded
  <1>9. CASE Accept
    BY <1>9 DEF Accept, SlotInv, TypeOK, ParentInv, Children, Recorded
  <1>10. CASE FindSlot
    <2>1. PICK s \in Slots :
            /\ table[s].pid = 0 /\ table'[s].pid = -1
            /\ \A r \in Slots : r # s => table'[r] = table[r]
            /\ forking' = [slot |-> s, pid |-> 0]
            /\ Children' = Children /\ Recorded' = Recorded
            /\ \A p \in Children : slot[p] \in Slots /\ slot[p] # s
      BY <1>10, FindFacts
    <2>2. forking'.slot = s /\ parent' = "fork" /\ parent = "find" /\ UNCHANGED slot
      BY <1>10, <2>1 DEF FindSlot
    <2>3. \A p \in Recorded : p \in Children
      BY DEF Recorded
    <2> QED
      BY <2>1, <2>2, <2>3 DEF SlotInv
  <1>11. CASE Fork
    BY <1>11 DEF Fork, SlotInv, TypeOK, ParentInv, Children, Recorded
  <1>12. CASE ForkFails
    BY <1>12 DEF ForkFails, SlotInv, TypeOK, ParentInv, Children, Recorded
  <1>13. CASE Record
    BY <1>13 DEF Record, SlotInv, TypeOK, ParentInv, Children, Recorded
  <1>14. ASSUME NEW p \in Pids, lsapi_sigchild(p) PROVE SlotInv'
    <2>1. \A q \in Recorded' : q \in Children'
      BY DEF Recorded
    <2>2. \A s \in Slots : s # slot[p] /\ table[s].pid \in Pids =>
            table[s].pid # p /\ table[s].pid \in Recorded'
      BY <1>14, ReapFacts DEF SlotInv
    <2> QED
      BY <1>14, <2>1, <2>2, ReapFacts DEF SlotInv
  <1>15. ASSUME NEW p \in Pids, ChildDies(p) PROVE SlotInv'
    BY <1>15 DEF ChildDies, Dies, SlotInv, TypeOK, ParentInv, Children,
       Recorded
  <1>16. ASSUME NEW p \in Pids, SetConnected(p) PROVE SlotInv'
    BY <1>16 DEF SetConnected, Moves, SlotInv, TypeOK, ParentInv, Children,
       Recorded
  <1>17. ASSUME NEW p \in Pids, CountBusy(p) PROVE SlotInv'
    BY <1>17 DEF CountBusy, Moves, SlotInv, TypeOK, ParentInv, Children,
       Recorded
  <1>18. ASSUME NEW p \in Pids, Request(p) PROVE SlotInv'
    BY <1>18 DEF Request, Moves, SlotInv, TypeOK, ParentInv, Children, Recorded
  <1>19. ASSUME NEW p \in Pids, Finish(p) PROVE SlotInv'
    BY <1>19 DEF Finish, Moves, SlotInv, TypeOK, ParentInv, Children, Recorded
  <1>20. ASSUME NEW p \in Pids, NoRequest(p) PROVE SlotInv'
    BY <1>20 DEF NoRequest, Moves, SlotInv, TypeOK, ParentInv, Children,
       Recorded
  <1>21. ASSUME NEW p \in Pids, CloseCount(p) PROVE SlotInv'
    BY <1>21 DEF CloseCount, Moves, SlotInv, TypeOK, ParentInv, Children,
       Recorded
  <1>22. ASSUME NEW p \in Pids, CloseState(p) PROVE SlotInv'
    BY <1>22 DEF CloseState, Moves, SlotInv, TypeOK, ParentInv, Children,
       Recorded
  <1>23. ASSUME NEW p \in Pids, Announce(p) PROVE SlotInv'
    BY <1>23 DEF Announce, Moves, SlotInv, TypeOK, ParentInv, Children,
       Recorded
  <1>24. ASSUME NEW p \in Pids, CountAccepting(p) PROVE SlotInv'
    BY <1>24 DEF CountAccepting, Moves, SlotInv, TypeOK, ParentInv, Children,
       Recorded
  <1>25. ASSUME NEW p \in Pids, SelectReturns(p) PROVE SlotInv'
    BY <1>25 DEF SelectReturns, Moves, SlotInv, TypeOK, ParentInv, Children,
       Recorded
  <1>26. ASSUME NEW p \in Pids, BackReady(p) PROVE SlotInv'
    BY <1>26 DEF BackReady, Moves, SlotInv, TypeOK, ParentInv, Children,
       Recorded
  <1>27. ASSUME NEW p \in Pids, BackTimeout(p) PROVE SlotInv'
    BY <1>27 DEF BackTimeout, Moves, SlotInv, TypeOK, ParentInv, Children,
       Recorded
  <1>28. ASSUME NEW p \in Pids, ChildAccept(p) PROVE SlotInv'
    BY <1>28 DEF ChildAccept, Moves, SlotInv, TypeOK, ParentInv, Children,
       Recorded
  <1>29. ASSUME NEW p \in Pids, Leave(p) PROVE SlotInv'
    BY <1>29 DEF Leave, SlotInv, TypeOK, ParentInv, Children, Recorded
  <1>30. CASE UNCHANGED vars
    BY <1>30 DEF vars, SlotInv, TypeOK, ParentInv, Children, Recorded
  <1> QED
    BY <1>1, <1>2, <1>3, <1>4, <1>5, <1>6, <1>7, <1>8, <1>9, <1>10, <1>11,
       <1>12, <1>13, <1>14, <1>15, <1>16, <1>17, <1>18, <1>19, <1>20, <1>21,
       <1>22, <1>23, <1>24, <1>25, <1>26, <1>27, <1>28, <1>29, <1>30,
       Zenon DEF Next, Parent, Child

\* lsapi_sigchild() cuts off only slots that are free.
LEMMA RangeInvStep ==
  ASSUME PreforkInv, [Next]_vars
  PROVE  RangeInv'
  <1> USE Limits DEF parentVars, childVars
  <1> /\ TypeOK /\ ParentInv /\ CheckInv /\ SlotInv /\ RangeInv /\ StateInv
      /\ CurInv
    BY DEF PreforkInv
  <1>1. CASE Connect
    BY <1>1 DEF Connect, RangeInv, TypeOK, SlotInv
  <1>2. CASE Exit
    BY <1>2 DEF Exit, RangeInv, TypeOK, SlotInv
  <1>3. CASE Top
    BY <1>3 DEF Top, NoCheck, RangeInv, TypeOK, SlotInv
  <1>4. CASE CheckSlot
    BY <1>4, CheckFacts DEF CheckSlot, RangeInv, SlotInv, Children, Recorded,
       TypeOK
  <1>5. CASE KillChild
    BY <1>5, KillFacts DEF RangeInv, SlotInv, ParentInv, Children, Recorded,
       TypeOK
  <1>6. CASE KillGroup \/ KillGone
    BY <1>6, KillFacts, KillGoneFacts DEF RangeInv, SlotInv, ParentInv, Children, Recorded,
       TypeOK
  <1>7. CASE CheckDone
    BY <1>7 DEF CheckDone, NoCheck, RangeInv, TypeOK, SlotInv
  <1>8. CASE Select
    BY <1>8 DEF Select, AtLimit, RangeInv, TypeOK, SlotInv
  <1>9. CASE Accept
    BY <1>9 DEF Accept, RangeInv, TypeOK, SlotInv
  <1>10. CASE FindSlot
    <2>1. PICK s \in Slots :
            /\ \A r \in Slots : r # s => table'[r] = table[r]
            /\ statusCur' = IF s > statusCur THEN s ELSE statusCur
      BY <1>10, FindFacts
    <2>2. statusCur \in Nat /\ \A r \in Slots : r \in Nat
      BY DEF TypeOK, Slots
    <2> QED
      BY <2>1, <2>2 DEF RangeInv
  <1>11. CASE Fork
    BY <1>11 DEF Fork, RangeInv, TypeOK, SlotInv
  <1>12. CASE ForkFails
    BY <1>12 DEF ForkFails, RangeInv, TypeOK, SlotInv
  <1>13. CASE Record
    BY <1>13 DEF Record, RangeInv, TypeOK, ParentInv
  <1>14. ASSUME NEW p \in Pids, lsapi_sigchild(p) PROVE RangeInv'
    BY <1>14, ReapFacts DEF RangeInv
  <1>15. ASSUME NEW p \in Pids, ChildDies(p) PROVE RangeInv'
    BY <1>15 DEF ChildDies, Dies, RangeInv, TypeOK, SlotInv
  <1>16. ASSUME NEW p \in Pids, SetConnected(p) PROVE RangeInv'
    BY <1>16 DEF SetConnected, Moves, RangeInv, TypeOK, SlotInv
  <1>17. ASSUME NEW p \in Pids, CountBusy(p) PROVE RangeInv'
    BY <1>17 DEF CountBusy, Moves, RangeInv, TypeOK, SlotInv
  <1>18. ASSUME NEW p \in Pids, Request(p) PROVE RangeInv'
    BY <1>18 DEF Request, Moves, RangeInv, TypeOK, SlotInv
  <1>19. ASSUME NEW p \in Pids, Finish(p) PROVE RangeInv'
    BY <1>19 DEF Finish, Moves, RangeInv, TypeOK, SlotInv
  <1>20. ASSUME NEW p \in Pids, NoRequest(p) PROVE RangeInv'
    BY <1>20 DEF NoRequest, Moves, RangeInv, TypeOK, SlotInv
  <1>21. ASSUME NEW p \in Pids, CloseCount(p) PROVE RangeInv'
    BY <1>21 DEF CloseCount, Moves, RangeInv, TypeOK, SlotInv
  <1>22. ASSUME NEW p \in Pids, CloseState(p) PROVE RangeInv'
    BY <1>22 DEF CloseState, Moves, RangeInv, TypeOK, SlotInv
  <1>23. ASSUME NEW p \in Pids, Announce(p) PROVE RangeInv'
    BY <1>23 DEF Announce, Moves, RangeInv, TypeOK, SlotInv
  <1>24. ASSUME NEW p \in Pids, CountAccepting(p) PROVE RangeInv'
    BY <1>24 DEF CountAccepting, Moves, RangeInv, TypeOK, SlotInv
  <1>25. ASSUME NEW p \in Pids, SelectReturns(p) PROVE RangeInv'
    BY <1>25 DEF SelectReturns, Moves, RangeInv, TypeOK, SlotInv
  <1>26. ASSUME NEW p \in Pids, BackReady(p) PROVE RangeInv'
    BY <1>26 DEF BackReady, Moves, RangeInv, TypeOK, SlotInv
  <1>27. ASSUME NEW p \in Pids, BackTimeout(p) PROVE RangeInv'
    BY <1>27 DEF BackTimeout, Moves, RangeInv, TypeOK, SlotInv
  <1>28. ASSUME NEW p \in Pids, ChildAccept(p) PROVE RangeInv'
    BY <1>28 DEF ChildAccept, Moves, RangeInv, TypeOK, SlotInv
  <1>29. ASSUME NEW p \in Pids, Leave(p) PROVE RangeInv'
    BY <1>29 DEF Leave, RangeInv, TypeOK, SlotInv
  <1>30. CASE UNCHANGED vars
    BY <1>30 DEF vars, RangeInv, TypeOK, SlotInv
  <1> QED
    BY <1>1, <1>2, <1>3, <1>4, <1>5, <1>6, <1>7, <1>8, <1>9, <1>10, <1>11,
       <1>12, <1>13, <1>14, <1>15, <1>16, <1>17, <1>18, <1>19, <1>20, <1>21,
       <1>22, <1>23, <1>24, <1>25, <1>26, <1>27, <1>28, <1>29, <1>30,
       Zenon DEF Next, Parent, Child

\* m_state keeps in step with the child.
LEMMA StateInvStep ==
  ASSUME PreforkInv, [Next]_vars
  PROVE  StateInv'
  <1> USE Limits DEF parentVars, childVars
  <1> /\ TypeOK /\ ParentInv /\ CheckInv /\ SlotInv /\ RangeInv /\ StateInv
      /\ CurInv
    BY DEF PreforkInv
  <1>1. CASE Connect
    BY <1>1 DEF Connect, StateInv, TypeOK, SlotInv, ParentInv, Children,
       Recorded
  <1>2. CASE Exit
    BY <1>2 DEF Exit, StateInv, TypeOK, SlotInv, ParentInv, Children, Recorded
  <1>3. CASE Top
    BY <1>3 DEF Top, NoCheck, StateInv, TypeOK, SlotInv, ParentInv, Children,
       Recorded
  <1>4. CASE CheckSlot
    BY <1>4, CheckFacts DEF CheckSlot, StateInv, SlotInv, Children, Recorded,
       TypeOK
  <1>5. CASE KillChild
    BY <1>5, KillFacts DEF StateInv, SlotInv, ParentInv, Children, Recorded,
       TypeOK
  <1>6. CASE KillGroup \/ KillGone
    BY <1>6, KillFacts, KillGoneFacts DEF StateInv, SlotInv, ParentInv, Children, Recorded,
       TypeOK
  <1>7. CASE CheckDone
    BY <1>7 DEF CheckDone, NoCheck, StateInv, TypeOK, SlotInv, ParentInv,
       Children, Recorded
  <1>8. CASE Select
    BY <1>8 DEF Select, AtLimit, StateInv, TypeOK, SlotInv, ParentInv,
       Children, Recorded
  <1>9. CASE Accept
    BY <1>9 DEF Accept, StateInv, TypeOK, SlotInv, ParentInv, Children,
       Recorded
  <1>10. CASE FindSlot
    <2>1. PICK s \in Slots :
            /\ \A r \in Slots : r # s => table'[r] = table[r]
            /\ Children' = Children
            /\ \A p \in Children : slot[p] \in Slots /\ slot[p] # s
      BY <1>10, FindFacts
    <2>2. UNCHANGED <<slot, at>>
      BY <1>10 DEF FindSlot
    <2> QED
      BY <2>1, <2>2 DEF StateInv
  <1>11. CASE Fork
    BY <1>11 DEF Fork, StateInv, TypeOK, SlotInv, ParentInv, Children, Recorded
  <1>12. CASE ForkFails
    BY <1>12 DEF ForkFails, StateInv, TypeOK, SlotInv, ParentInv, Children,
       Recorded
  <1>13. CASE Record
    BY <1>13 DEF Record, StateInv, TypeOK, SlotInv, ParentInv, Children,
       Recorded
  <1>14. ASSUME NEW p \in Pids, lsapi_sigchild(p) PROVE StateInv'
    BY <1>14, ReapFacts DEF StateInv
  <1>15. ASSUME NEW p \in Pids, ChildDies(p) PROVE StateInv'
    BY <1>15 DEF ChildDies, Dies, StateInv, TypeOK, SlotInv, ParentInv,
       Children, Recorded
  <1>16. ASSUME NEW p \in Pids, SetConnected(p) PROVE StateInv'
    BY <1>16 DEF SetConnected, Moves, StateInv, TypeOK, SlotInv, ParentInv,
       Children, Recorded
  <1>17. ASSUME NEW p \in Pids, CountBusy(p) PROVE StateInv'
    BY <1>17 DEF CountBusy, Moves, StateInv, TypeOK, SlotInv, ParentInv,
       Children, Recorded
  <1>18. ASSUME NEW p \in Pids, Request(p) PROVE StateInv'
    BY <1>18 DEF Request, Moves, StateInv, TypeOK, SlotInv, ParentInv,
       Children, Recorded
  <1>19. ASSUME NEW p \in Pids, Finish(p) PROVE StateInv'
    BY <1>19 DEF Finish, Moves, StateInv, TypeOK, SlotInv, ParentInv,
       Children, Recorded
  <1>20. ASSUME NEW p \in Pids, NoRequest(p) PROVE StateInv'
    BY <1>20 DEF NoRequest, Moves, StateInv, TypeOK, SlotInv, ParentInv,
       Children, Recorded
  <1>21. ASSUME NEW p \in Pids, CloseCount(p) PROVE StateInv'
    BY <1>21 DEF CloseCount, Moves, StateInv, TypeOK, SlotInv, ParentInv,
       Children, Recorded
  <1>22. ASSUME NEW p \in Pids, CloseState(p) PROVE StateInv'
    BY <1>22 DEF CloseState, Moves, StateInv, TypeOK, SlotInv, ParentInv,
       Children, Recorded
  <1>23. ASSUME NEW p \in Pids, Announce(p) PROVE StateInv'
    BY <1>23 DEF Announce, Moves, StateInv, TypeOK, SlotInv, ParentInv,
       Children, Recorded
  <1>24. ASSUME NEW p \in Pids, CountAccepting(p) PROVE StateInv'
    BY <1>24 DEF CountAccepting, Moves, StateInv, TypeOK, SlotInv, ParentInv,
       Children, Recorded
  <1>25. ASSUME NEW p \in Pids, SelectReturns(p) PROVE StateInv'
    BY <1>25 DEF SelectReturns, Moves, StateInv, TypeOK, SlotInv, ParentInv,
       Children, Recorded
  <1>26. ASSUME NEW p \in Pids, BackReady(p) PROVE StateInv'
    BY <1>26 DEF BackReady, Moves, StateInv, TypeOK, SlotInv, ParentInv,
       Children, Recorded
  <1>27. ASSUME NEW p \in Pids, BackTimeout(p) PROVE StateInv'
    BY <1>27 DEF BackTimeout, Moves, StateInv, TypeOK, SlotInv, ParentInv,
       Children, Recorded
  <1>28. ASSUME NEW p \in Pids, ChildAccept(p) PROVE StateInv'
    BY <1>28 DEF ChildAccept, Moves, StateInv, TypeOK, SlotInv, ParentInv,
       Children, Recorded
  <1>29. ASSUME NEW p \in Pids, Leave(p) PROVE StateInv'
    BY <1>29 DEF Leave, StateInv, TypeOK, SlotInv, ParentInv, Children,
       Recorded
  <1>30. CASE UNCHANGED vars
    BY <1>30 DEF vars, StateInv, TypeOK, SlotInv, ParentInv, Children, Recorded
  <1> QED
    BY <1>1, <1>2, <1>3, <1>4, <1>5, <1>6, <1>7, <1>8, <1>9, <1>10, <1>11,
       <1>12, <1>13, <1>14, <1>15, <1>16, <1>17, <1>18, <1>19, <1>20, <1>21,
       <1>22, <1>23, <1>24, <1>25, <1>26, <1>27, <1>28, <1>29, <1>30,
       Zenon DEF Next, Parent, Child

----------------------------------------------------------------------------
(* The counters *)

\* A step that neither starts nor ends a child.
SameChildren == Children' = Children /\ Recorded' = Recorded

\* Which children there are changes only when one is reaped, forked or put on
\* the books.
LEMMA ChildrenStep ==
  ASSUME PreforkInv, [Next]_vars
  PROVE  \/ SameChildren /\ cur' = cur
         \/ \E p \in Pids : lsapi_sigchild(p)
         \/ Fork \/ Record
  <1> USE Limits DEF SameChildren, Children, Recorded, parentVars, childVars
  <1> TypeOK /\ ParentInv /\ CheckInv /\ SlotInv /\ CurInv
    BY DEF PreforkInv
  <1>1. CASE Connect
    BY <1>1 DEF Connect, TypeOK, ParentInv
  <1>2. CASE Exit
    BY <1>2 DEF Exit, TypeOK, ParentInv
  <1>3. CASE Top
    BY <1>3 DEF Top, TypeOK, ParentInv
  <1>4. CASE CheckSlot
    BY <1>4 DEF CheckSlot
  <1>5. CASE KillChild
    BY <1>5, KillFacts DEF TypeOK
  <1>6. CASE KillGroup \/ KillGone
    BY <1>6, KillFacts, KillGoneFacts DEF TypeOK
  <1>7. CASE CheckDone
    BY <1>7 DEF CheckDone, TypeOK, ParentInv
  <1>8. CASE Select
    BY <1>8 DEF Select, TypeOK, ParentInv
  <1>9. CASE Accept
    BY <1>9 DEF Accept, TypeOK, ParentInv
  <1>10. CASE FindSlot
    BY <1>10, FindFacts DEF FindSlot
  <1>11. CASE ForkFails
    BY <1>11 DEF ForkFails, TypeOK, ParentInv
  <1>12. ASSUME NEW p \in Pids, ChildDies(p) PROVE SameChildren /\ cur' = cur
    BY <1>12 DEF ChildDies, Dies, TypeOK, ParentInv
  <1>13. ASSUME NEW p \in Pids, SetConnected(p) PROVE SameChildren /\ cur' = cur
    BY <1>13 DEF SetConnected, Moves, TypeOK, ParentInv
  <1>14. ASSUME NEW p \in Pids, CountBusy(p) PROVE SameChildren /\ cur' = cur
    BY <1>14 DEF CountBusy, Moves, TypeOK, ParentInv
  <1>15. ASSUME NEW p \in Pids, Request(p) PROVE SameChildren /\ cur' = cur
    BY <1>15 DEF Request, Moves, TypeOK, ParentInv
  <1>16. ASSUME NEW p \in Pids, Finish(p) PROVE SameChildren /\ cur' = cur
    BY <1>16 DEF Finish, Moves, TypeOK, ParentInv
  <1>17. ASSUME NEW p \in Pids, NoRequest(p) PROVE SameChildren /\ cur' = cur
    BY <1>17 DEF NoRequest, Moves, TypeOK, ParentInv
  <1>18. ASSUME NEW p \in Pids, CloseCount(p) PROVE SameChildren /\ cur' = cur
    BY <1>18 DEF CloseCount, Moves, TypeOK, ParentInv
  <1>19. ASSUME NEW p \in Pids, CloseState(p) PROVE SameChildren /\ cur' = cur
    BY <1>19 DEF CloseState, Moves, TypeOK, ParentInv
  <1>20. ASSUME NEW p \in Pids, Announce(p) PROVE SameChildren /\ cur' = cur
    BY <1>20 DEF Announce, Moves, TypeOK, ParentInv
  <1>21. ASSUME NEW p \in Pids, CountAccepting(p) PROVE SameChildren /\ cur' = cur
    BY <1>21 DEF CountAccepting, Moves, TypeOK, ParentInv
  <1>22. ASSUME NEW p \in Pids, SelectReturns(p) PROVE SameChildren /\ cur' = cur
    BY <1>22 DEF SelectReturns, Moves, TypeOK, ParentInv
  <1>23. ASSUME NEW p \in Pids, BackReady(p) PROVE SameChildren /\ cur' = cur
    BY <1>23 DEF BackReady, Moves, TypeOK, ParentInv
  <1>24. ASSUME NEW p \in Pids, BackTimeout(p) PROVE SameChildren /\ cur' = cur
    BY <1>24 DEF BackTimeout, Moves, TypeOK, ParentInv
  <1>25. ASSUME NEW p \in Pids, ChildAccept(p) PROVE SameChildren /\ cur' = cur
    BY <1>25 DEF ChildAccept, Moves, TypeOK, ParentInv
  <1>26. ASSUME NEW p \in Pids, Leave(p) PROVE SameChildren /\ cur' = cur
    BY <1>26 DEF Leave, TypeOK, ParentInv
  <1>27. CASE UNCHANGED vars
    BY <1>27 DEF vars, TypeOK, ParentInv
  <1> QED
    BY <1>1, <1>2, <1>3, <1>4, <1>5, <1>6, <1>7, <1>8, <1>9, <1>10, <1>11,
       <1>12, <1>13, <1>14, <1>15, <1>16, <1>17, <1>18, <1>19, <1>20, <1>21,
       <1>22, <1>23, <1>24, <1>25, <1>26, <1>27, Zenon DEF Next, Parent, Child

\* m_iCurChildren is counted up and down with the children on the books.
LEMMA CurInvStep ==
  ASSUME PreforkInv, [Next]_vars
  PROVE  CurInv'
  <1> TypeOK /\ ParentInv /\ SlotInv /\ RangeInv /\ CurInv
    BY DEF PreforkInv
  <1>1. IsFiniteSet(Recorded) /\ cur = Cardinality(Recorded)
    BY Limits DEF Recorded, Children, CurInv
  <1>2. CASE SameChildren /\ cur' = cur
    BY <1>2 DEF SameChildren, CurInv
  <1>3. ASSUME NEW p \in Pids, lsapi_sigchild(p) PROVE CurInv'
    <2>1. p \in Recorded /\ Recorded' = Recorded \ {p} /\ cur' = cur - 1
      BY <1>3, ReapFacts
    <2>2. Cardinality(Recorded \ {p}) = Cardinality(Recorded) - 1
      BY <1>1, <2>1, FS_RemoveElement
    <2> QED
      BY <1>1, <2>1, <2>2 DEF CurInv
  <1>4. CASE Fork
    <2>1. PICK p \in Pids : /\ life[p] = "none"
                            /\ life' = [life EXCEPT ![p] = "alive"]
                            /\ forking' = [forking EXCEPT !.pid = p]
      BY <1>4 DEF Fork
    <2>2. forking.pid = 0 /\ forking'.pid = p /\ UNCHANGED cur
      BY <1>4, <2>1 DEF Fork, ParentInv, TypeOK
    <2>3. Recorded' = Recorded
      BY <2>1, <2>2, Limits DEF Recorded, Children, TypeOK
    <2> QED
      BY <2>2, <2>3 DEF CurInv
  <1>5. CASE Record
    <2>1. /\ forking.pid \in Children /\ forking'.pid = 0 /\ UNCHANGED life
          /\ cur' = cur + 1
      BY <1>5 DEF Record, ParentInv, childVars
    <2>2. Recorded' = Recorded \cup {forking.pid}
      BY <2>1, Limits DEF Recorded, Children
    <2>3. forking.pid \notin Recorded
      BY DEF Recorded
    <2>4. Cardinality(Recorded \cup {forking.pid}) = Cardinality(Recorded) + 1
      BY <1>1, <2>3, FS_AddElement
    <2> QED
      BY <1>1, <2>1, <2>2, <2>4 DEF CurInv
  <1> QED
    BY <1>2, <1>3, <1>4, <1>5, ChildrenStep

\* A step that leaves the two counters, and where the children are, alone.
SameCounts ==
  /\ UNCHANGED <<busy, accepting, torn>>
  /\ CountedBusy' = CountedBusy /\ CountedAccepting' = CountedAccepting

\* Only these steps count.
LEMMA CountedStep ==
  ASSUME PreforkInv, [Next]_vars
  PROVE  \/ SameCounts
         \/ \E p \in Pids : \/ lsapi_sigchild(p) \/ CountBusy(p) \/ CloseCount(p)
                            \/ CountAccepting(p) \/ SelectReturns(p)
  <1> USE Limits DEF SameCounts, CountedBusy, CountedAccepting, Children,
         parentVars, childVars
  <1> TypeOK /\ ParentInv /\ CheckInv /\ SlotInv /\ CurInv
    BY DEF PreforkInv
  <1>1. CASE Connect
    BY <1>1 DEF Connect, TypeOK, ParentInv
  <1>2. CASE Exit
    BY <1>2 DEF Exit, TypeOK, ParentInv
  <1>3. CASE Top
    BY <1>3 DEF Top, TypeOK, ParentInv
  <1>4. CASE CheckSlot
    BY <1>4 DEF CheckSlot
  <1>5. CASE KillChild
    BY <1>5, KillFacts DEF TypeOK
  <1>6. CASE KillGroup \/ KillGone
    BY <1>6, KillFacts, KillGoneFacts DEF TypeOK
  <1>7. CASE CheckDone
    BY <1>7 DEF CheckDone, TypeOK, ParentInv
  <1>8. CASE Select
    BY <1>8 DEF Select, TypeOK, ParentInv
  <1>9. CASE Accept
    BY <1>9 DEF Accept, TypeOK, ParentInv
  <1>10. CASE FindSlot
    BY <1>10, FindFacts DEF FindSlot
  <1>11. CASE Fork
    BY <1>11 DEF Fork, TypeOK, ParentInv
  <1>12. CASE ForkFails
    BY <1>12 DEF ForkFails, TypeOK, ParentInv
  <1>13. CASE Record
    BY <1>13 DEF Record, TypeOK, ParentInv
  <1>14. ASSUME NEW p \in Pids, ChildDies(p) PROVE SameCounts
    BY <1>14 DEF ChildDies, Dies, TypeOK, ParentInv
  <1>15. ASSUME NEW p \in Pids, SetConnected(p) PROVE SameCounts
    BY <1>15 DEF SetConnected, Moves, TypeOK, ParentInv
  <1>16. ASSUME NEW p \in Pids, Request(p) PROVE SameCounts
    BY <1>16 DEF Request, Moves, TypeOK, ParentInv
  <1>17. ASSUME NEW p \in Pids, Finish(p) PROVE SameCounts
    BY <1>17 DEF Finish, Moves, TypeOK, ParentInv
  <1>18. ASSUME NEW p \in Pids, NoRequest(p) PROVE SameCounts
    BY <1>18 DEF NoRequest, Moves, TypeOK, ParentInv
  <1>19. ASSUME NEW p \in Pids, CloseState(p) PROVE SameCounts
    BY <1>19 DEF CloseState, Moves, TypeOK, ParentInv
  <1>20. ASSUME NEW p \in Pids, Announce(p) PROVE SameCounts
    BY <1>20 DEF Announce, Moves, TypeOK, ParentInv
  <1>21. ASSUME NEW p \in Pids, BackReady(p) PROVE SameCounts
    BY <1>21 DEF BackReady, Moves, TypeOK, ParentInv
  <1>22. ASSUME NEW p \in Pids, BackTimeout(p) PROVE SameCounts
    BY <1>22 DEF BackTimeout, Moves, TypeOK, ParentInv
  <1>23. ASSUME NEW p \in Pids, ChildAccept(p) PROVE SameCounts
    BY <1>23 DEF ChildAccept, Moves, TypeOK, ParentInv
  <1>24. ASSUME NEW p \in Pids, Leave(p) PROVE SameCounts
    BY <1>24 DEF Leave, TypeOK, ParentInv
  <1>25. CASE UNCHANGED vars
    BY <1>25 DEF vars, TypeOK, ParentInv
  <1> QED
    BY <1>1, <1>2, <1>3, <1>4, <1>5, <1>6, <1>7, <1>8, <1>9, <1>10, <1>11,
       <1>12, <1>13, <1>14, <1>15, <1>16, <1>17, <1>18, <1>19, <1>20, <1>21,
       <1>22, <1>23, <1>24, <1>25, Zenon DEF Next, Parent, Child

\* s_busy_workers and s_accepting_workers are counted up and down with the
\* children, and what a child that has died had counted is taken back.
LEMMA CountersStep ==
  ASSUME PreforkInv, [Next]_vars
  PROVE  CountersExact'
  <1> /\ TypeOK /\ ParentInv /\ SlotInv /\ RangeInv /\ StateInv
      /\ CountersExact
    BY DEF PreforkInv
  <1>1. /\ IsFiniteSet(CountedBusy) /\ Cardinality(CountedBusy) \in Nat
        /\ IsFiniteSet(CountedAccepting)
        /\ Cardinality(CountedAccepting) \in Nat
        /\ torn.busy \in Nat /\ torn.accepting \in Nat
        /\ busy \in Int /\ accepting \in Int
    <2>1. CountedBusy \in SUBSET Pids /\ CountedAccepting \in SUBSET Pids
      BY DEF CountedBusy, CountedAccepting, Children
    <2>2. torn.busy \in Nat /\ torn.accepting \in Nat
      BY DEF TypeOK
    <2>3. busy \in Int /\ accepting \in Int
      BY DEF TypeOK
    <2> QED
      BY <2>1, <2>2, <2>3, Limits
  <1>2. CASE SameCounts
    BY <1>2 DEF SameCounts, CountersExact
  <1>3. ASSUME NEW p \in Pids, CountBusy(p) PROVE CountersExact'
    <2>1. /\ p \in Children /\ p \notin CountedBusy /\ busy' = busy + 1
          /\ CountedBusy' = CountedBusy \cup {p}
          /\ CountedAccepting' = CountedAccepting
          /\ UNCHANGED <<accepting, torn>>
      BY <1>3 DEF CountBusy, Moves, CountedBusy, CountedAccepting, Children,
         TypeOK
    <2>2. Cardinality(CountedBusy \cup {p}) = Cardinality(CountedBusy) + 1
      BY <1>1, <2>1, FS_AddElement
    <2> QED
      BY <1>1, <2>1, <2>2 DEF CountersExact
  <1>4. ASSUME NEW p \in Pids, CloseCount(p) PROVE CountersExact'
    <2>1. /\ p \in CountedBusy /\ busy' = busy - 1
          /\ CountedBusy' = CountedBusy \ {p}
          /\ CountedAccepting' = CountedAccepting
          /\ UNCHANGED <<accepting, torn>>
      BY <1>4 DEF CloseCount, Moves, CountedBusy, CountedAccepting, Children,
         TypeOK
    <2>2. Cardinality(CountedBusy \ {p}) = Cardinality(CountedBusy) - 1
      BY <1>1, <2>1, FS_RemoveElement
    <2> QED
      BY <1>1, <2>1, <2>2 DEF CountersExact
  <1>5. ASSUME NEW p \in Pids, CountAccepting(p) PROVE CountersExact'
    <2>1. /\ p \notin CountedAccepting /\ accepting' = accepting + 1
          /\ CountedAccepting' = CountedAccepting \cup {p}
          /\ CountedBusy' = CountedBusy
          /\ UNCHANGED <<busy, torn>>
      BY <1>5 DEF CountAccepting, Moves, CountedBusy, CountedAccepting,
         Children, TypeOK
    <2>2. Cardinality(CountedAccepting \cup {p}) =
            Cardinality(CountedAccepting) + 1
      BY <1>1, <2>1, FS_AddElement
    <2> QED
      BY <1>1, <2>1, <2>2 DEF CountersExact
  <1>6. ASSUME NEW p \in Pids, SelectReturns(p) PROVE CountersExact'
    <2>1. /\ p \in CountedAccepting /\ accepting' = accepting - 1
          /\ CountedAccepting' = CountedAccepting \ {p}
          /\ CountedBusy' = CountedBusy
          /\ UNCHANGED <<busy, torn>>
      BY <1>6 DEF SelectReturns, Moves, CountedBusy, CountedAccepting,
         Children, TypeOK
    <2>2. Cardinality(CountedAccepting \ {p}) =
            Cardinality(CountedAccepting) - 1
      BY <1>1, <2>1, FS_RemoveElement
    <2> QED
      BY <1>1, <2>1, <2>2 DEF CountersExact
  <1>7. ASSUME NEW p \in Pids, lsapi_sigchild(p) PROVE CountersExact'
    <2> DEFINE b == IF TornBusy(p) THEN 1 ELSE 0
               a == IF TornAccepting(p) THEN 1 ELSE 0
    <2>1. torn'.busy = torn.busy + b /\ torn'.accepting = torn.accepting + a
      <3>1. torn' = [torn EXCEPT !.busy = @ + b, !.accepting = @ + a]
        BY <1>7 DEF lsapi_sigchild
      <3> HIDE DEF a, b
      <3> QED
        BY <3>1 DEF TypeOK
    <2>2. p \in Children /\ Release(slot[p])
      BY <1>7, ReapFacts DEF Recorded
    <2>3. /\ CountedBusy' = CountedBusy \ {p}
          /\ CountedAccepting' = CountedAccepting \ {p}
      <3>1. Children' = Children \ {p} /\ \A q \in Children' : at'[q] = at[q]
        BY <1>7, ReapFacts
      <3> QED
        BY <3>1 DEF CountedBusy, CountedAccepting
    <2>4. /\ Cardinality(CountedBusy') =
               Cardinality(CountedBusy) - (IF p \in CountedBusy THEN 1 ELSE 0)
          /\ Cardinality(CountedAccepting') =
               Cardinality(CountedAccepting)
                 - (IF p \in CountedAccepting THEN 1 ELSE 0)
      <3>1. Cardinality(CountedBusy \ {p}) =
              IF p \in CountedBusy THEN Cardinality(CountedBusy) - 1
                                   ELSE Cardinality(CountedBusy)
        BY <1>1, FS_RemoveElement
      <3>2. Cardinality(CountedAccepting \ {p}) =
              IF p \in CountedAccepting THEN Cardinality(CountedAccepting) - 1
                                        ELSE Cardinality(CountedAccepting)
        BY <1>1, FS_RemoveElement
      <3> QED
        BY <1>1, <2>3, <3>1, <3>2
    <2>5. /\ busy' = busy - (IF p \in CountedBusy THEN 1 ELSE 0) - b
          /\ accepting' = accepting
                            - (IF p \in CountedAccepting THEN 1 ELSE 0) - a
      <3>1. /\ table[slot[p]].state = "CONNECTED" <=>
                 p \in CountedBusy \/ TornBusy(p)
            /\ ~(p \in CountedBusy /\ TornBusy(p))
        BY <2>2 DEF StateInv, CountedBusy, TornBusy
      <3>2. /\ table[slot[p]].state = "ACCEPTING" <=>
                 p \in CountedAccepting \/ TornAccepting(p)
            /\ ~(p \in CountedAccepting /\ TornAccepting(p))
        BY <2>2 DEF StateInv, CountedAccepting, TornAccepting
      <3> QED
        BY <1>1, <2>2, <3>1, <3>2 DEF Release
    <2>6. a \in Nat /\ b \in Nat
      OBVIOUS
    <2> HIDE DEF a, b
    <2> QED
      BY <1>1, <2>1, <2>4, <2>5, <2>6 DEF CountersExact
  <1> QED
    BY <1>2, <1>3, <1>4, <1>5, <1>6, <1>7, CountedStep

----------------------------------------------------------------------------
(* The theorems *)

\* A server that has just started has no children.
LEMMA PreforkInit == Init => PreforkInv
  <1> SUFFICES ASSUME Init PROVE PreforkInv
    OBVIOUS
  <1> USE Limits
  <1>1. FreeSlot \in ChildStatus
    <2>1. 0 \in 0..(KillLimit + 1)
      OBVIOUS
    <2> QED
      BY <2>1, Zenon DEF FreeSlot, ChildStatus
  <1>2. TypeOK
    <2>1. /\ table \in [Slots -> ChildStatus]
          /\ s_stop \in BOOLEAN /\ processed \in [Pids -> BOOLEAN]
      BY <1>1, Zenon DEF Init
    <2>2. /\ check \in [i : 0..(Limit + 1), last : 0..Limit, idle : 0..Limit,
                        dying : 0..Limit, sig : {"none", "TERM", "KILL"}]
          /\ forking \in [slot : 0..Limit, pid : Pids \cup {0}]
          /\ torn \in [busy : Nat, accepting : Nat]
      BY DEF Init, NoCheck
    <2> QED
      BY <2>1, <2>2 DEF Init, TypeOK
  <1>3. Children = {} /\ Recorded = {}
    BY DEF Init, Children, Recorded
  <1>4. ParentInv /\ CheckInv
    BY DEF Init, ParentInv, CheckInv
  <1>5. \A s \in Slots : table[s].pid = 0
    BY DEF Init, FreeSlot
  <1>6. SlotInv /\ RangeInv /\ StateInv
    BY <1>3, <1>5 DEF SlotInv, RangeInv, StateInv
  <1>7. CurInv
    BY <1>3, FS_EmptySet DEF Init, CurInv
  <1>8. CountersExact
    <2>1. CountedBusy = {} /\ CountedAccepting = {}
      BY <1>3 DEF CountedBusy, CountedAccepting
    <2> QED
      BY <2>1, FS_EmptySet DEF Init, CountersExact
  <1> QED
    BY <1>2, <1>4, <1>6, <1>7, <1>8 DEF PreforkInv

\* The inductive invariant holds throughout.
THEOREM PreforkInvariant == SafeSpec => []PreforkInv
  <1>1. PreforkInv /\ [Next]_vars => PreforkInv'
    BY TypeOKStep, ParentInvStep, CheckInvStep, SlotInvStep, RangeInvStep,
       StateInvStep, CurInvStep, CountersStep DEF PreforkInv
  <1> QED
    BY <1>1, PreforkInit, PTL DEF SafeSpec

\* Every variable has its type and m_iCurChildren stays within the limit (see
\* TypeOK), with any number of children, deaths and signals.
THEOREM PreforkTypeCorrect == SafeSpec => []TypeOK
  <1>1. PreforkInv => TypeOK
    BY DEF PreforkInv
  <1> QED
    BY <1>1, PreforkInvariant, PTL

\* The table knows the children whatever the order of fork(), death and
\* SIGCHLD (see ChildrenTracked).
THEOREM PreforkTracksChildren == SafeSpec => []ChildrenTracked
  <1>1. PreforkInv => ChildrenTracked
    <2> SUFFICES ASSUME TypeOK, ParentInv, SlotInv, RangeInv, CurInv
                 PROVE  ChildrenTracked
      BY DEF PreforkInv
    <2>1. \A p \in Recorded : slot[p] \in Slots /\ table[slot[p]].pid = p
      BY DEF SlotInv, Recorded
    <2>2. ASSUME NEW p \in Children, NEW q \in Children, p # q
          PROVE  slot[p] # slot[q]
      <3>1. CASE p \in Recorded /\ q \in Recorded
        BY <2>1, <2>2, <3>1
      <3>2. ASSUME NEW x \in Children, NEW y \in Recorded, x \notin Recorded
            PROVE  slot[x] # slot[y]
        <4>1. x = forking.pid /\ parent = "record"
          BY <3>2, Limits DEF Recorded, Children, ParentInv
        <4>2. table[slot[x]].pid = -1 /\ table[slot[y]].pid = y
          BY <2>1, <4>1 DEF ParentInv
        <4> QED
          BY <4>2, Limits DEF Recorded, Children
      <3>3. p \in Recorded \/ q \in Recorded
        BY <2>2 DEF Recorded
      <3> QED
        BY <3>1, <3>2, <3>3
    <2>3. \A s \in Slots : table[s].pid \in Recorded \cup {0, -1}
      BY DEF SlotInv, TypeOK, ChildStatus
    <2> QED
      BY <2>1, <2>2, <2>3 DEF ChildrenTracked, CurInv, RangeInv
  <1> QED
    BY <1>1, PreforkInvariant, PTL

\* There is a slot for every child that is forked, and there are never more
\* children than the limits allow (see RoomForChild): AtLimit, tested before
\* accept() and fork(), still holds when the child is recorded.
THEOREM PreforkHasRoom == SafeSpec => []RoomForChild
  <1>1. PreforkInv => RoomForChild
    <2> SUFFICES ASSUME TypeOK, ParentInv, CurInv PROVE RoomForChild
      BY DEF PreforkInv
    <2>1. parent \in {"fork", "record"} => forking.slot # 0
      BY Limits DEF ParentInv, Slots
    <2>2. IsFiniteSet(Recorded) /\ cur \in Nat /\ cur <= Limit
      BY Limits DEF Recorded, Children, TypeOK
    <2>3. CASE parent = "record"
      <3>1. Children = Recorded \cup {forking.pid} /\ cur < Limit
        BY <2>3 DEF Recorded, ParentInv
      <3>2. Cardinality(Children) <= Cardinality(Recorded) + 1
        <4>1. Cardinality(Recorded \cup {forking.pid}) =
                IF forking.pid \in Recorded THEN Cardinality(Recorded)
                                            ELSE Cardinality(Recorded) + 1
          BY <2>2, FS_AddElement
        <4>2. Cardinality(Recorded) \in Nat
          BY <2>2, FS_CardinalityType
        <4> QED
          BY <3>1, <4>1, <4>2
      <3>3. Cardinality(Children) \in Nat
        BY Limits DEF Children
      <3> QED
        BY <2>1, <2>2, <3>1, <3>2, <3>3, Limits DEF RoomForChild, CurInv
    <2>4. CASE parent # "record"
      <3>1. Children = Recorded
        BY <2>4, Limits DEF Recorded, Children, ParentInv
      <3> QED
        BY <2>1, <2>2, <3>1 DEF RoomForChild, CurInv
    <2> QED
      BY <2>3, <2>4
  <1> QED
    BY <1>1, PreforkInvariant, PTL

\* The shared counters are exact up to the children that died between two
\* updates (see CountersExact).
THEOREM PreforkCounts == SafeSpec => []CountersExact
  <1>1. PreforkInv => CountersExact
    BY DEF PreforkInv
  <1> QED
    BY <1>1, PreforkInvariant, PTL
===============================================================================

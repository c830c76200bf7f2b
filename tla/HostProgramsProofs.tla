------------------------- MODULE HostProgramsProofs -------------------------
(***************************************************************************)
(* Proofs about the programs without a window, for every value of their    *)
(* constants.                                                              *)
(*                                                                         *)
(* The MEX file's handle table, for any objects and bounds: the commands   *)
(* that open and close a session are first summarised by what they do to   *)
(* the table (CloseLeaves, OpenAdds); each action then has a lemma, with   *)
(* one step for each part of the inductive invariant.                      *)
(*                                                                         *)
(* The command-line tool, for any limits of the number types in their      *)
(* order, and any command line.                                            *)
(***************************************************************************)
EXTENDS MexHandles, CaptureTool, FiniteSetTheorems, TLAPS

-----------------------------------------------------------------------------
(* The MATLAB binding *)

\* A deleted object holds no handle.
DeletedAreClosed == \A o \in deleted : handle[o] = 0

\* Copies are of handles already given out, by this loading or an earlier one.
CopiesAreOld ==
    \A c \in copies :
        c.load <= load /\ (c.load = load => c.handle < next)

\* Unless a script meddles, no two objects hold the same handle.
HandlesDiffer ==
    ~meddled => \A o, p \in Objects :
        o # p /\ handle[o] # 0 => handle[o] # handle[p]

\* The inductive invariant.
MexInv ==
    /\ TypeOK
    /\ NoConnectionLost
    /\ StaleHandlesRefused
    /\ ObjectsKeepTheirs
    /\ SessionsReachable
    /\ DeletedAreClosed
    /\ CopiesAreOld
    /\ HandlesDiffer

TypeMex ==
    /\ Open \subseteq 1..(next - 1)
    /\ table \in [Open -> Slot]
    /\ next \in 1..(opens + 1) /\ locks \in Nat
    /\ opens \in 0..MaxOpens /\ faults \in 0..MaxFaults
    /\ stuck \in 0..faults
    /\ unnamed \subseteq Sessions /\ orphans \in Nat

-----------------------------------------------------------------------------
(* The table *)

LEMMA OpenIsFinite ==
    ASSUME TypeOK
    PROVE  IsFiniteSet(Open) /\ Cardinality(Open) \in Nat
  <1>1. next - 1 \in Int /\ Open \in SUBSET (1..(next - 1))
    BY MexAssumption DEF TypeOK
  <1>2. IsFiniteSet(1..(next - 1))
    BY <1>1, FS_Interval
  <1> QED BY <1>1, <1>2, FS_Subset, FS_CardinalityType

\* What command_close leaves: a table within the old one, and its locks.
Left(t, l) ==
    /\ DOMAIN t \subseteq Open
    /\ IsFiniteSet(DOMAIN t) /\ Cardinality(DOMAIN t) \in Nat
    /\ t \in [DOMAIN t -> Slot]
    /\ \A k \in DOMAIN t : t[k] = table[k]
    /\ l = Cardinality(DOMAIN t) + stuck

LEMMA NothingClosed ==
    ASSUME TypeOK, LocksAreSessions
    PROVE  Left(table, locks)
  BY OpenIsFinite DEF Left, LocksAreSessions, TypeOK, Open

LEMMA CloseLeaves ==
    ASSUME TypeOK, LocksAreSessions, NEW h
    PROVE  /\ Left(Without(table, h), Unlocked(table, locks, h))
           /\ DOMAIN Without(table, h) = Open \ {h}
  <1> DEFINE t == Without(table, h)
             l == Unlocked(table, locks, h)
  <1>1. DOMAIN t = Open \ {h} /\ \A k \in DOMAIN t : t[k] = table[k]
    BY DEF Without, Open
  <1>2. t \in [DOMAIN t -> Slot]
    BY <1>1 DEF TypeOK, Without, Open
  <1>3. /\ IsFiniteSet(Open \ {h})
        /\ Cardinality(Open \ {h}) =
             IF h \in Open THEN Cardinality(Open) - 1 ELSE Cardinality(Open)
    BY OpenIsFinite, FS_RemoveElement
  <1>4. Cardinality(Open \ {h}) \in Nat
    BY <1>3, FS_CardinalityType
  <1>5. stuck \in Nat
    BY MexAssumption DEF TypeOK
  <1>6. l = Cardinality(Open \ {h}) + stuck
    BY <1>3, <1>4, <1>5, OpenIsFinite DEF Unlocked, LocksAreSessions, Open
  <1> QED BY <1>1, <1>2, <1>3, <1>4, <1>6 DEF Left, Open

\* The ways command_open can end.
OpenEnds(t, l) ==
    Opened(t, l) \/ Refused(t, l) \/ NoSlot(t, l) \/ NoResult(t, l)

\* A new session's handle is new, and its slot stands beside those left.
LEMMA EmplacedFacts ==
    ASSUME TypeOK, NEW t, NEW l, Left(t, l), opens < MaxOpens
    PROVE  /\ DOMAIN Emplaced(t, next) = DOMAIN t \cup {next}
           /\ Emplaced(t, next) \in [DOMAIN t \cup {next} -> Slot]
           /\ \A k \in DOMAIN t : Emplaced(t, next)[k] = table[k]
           /\ Emplaced(t, next)[next].id = opens + 1
           /\ next \notin Open
           /\ Cardinality(DOMAIN t \cup {next}) = Cardinality(DOMAIN t) + 1
  <1>1. next \notin Open
    BY MexAssumption DEF TypeOK
  <1>2. next \notin DOMAIN t
    BY <1>1 DEF Left
  <1>3. NewSlot \in Slot
    BY MexAssumption DEF TypeOK, NewSlot, Slot, Sessions, Channels
  <1>4. Cardinality(DOMAIN t \cup {next}) = Cardinality(DOMAIN t) + 1
    BY <1>2, FS_AddElement DEF Left
  <1>5. Emplaced(t, next) \in [DOMAIN t \cup {next} -> Slot]
    BY <1>3 DEF Emplaced, Left
  <1>6. Emplaced(t, next)[next].id = opens + 1
    BY DEF Emplaced, NewSlot
  <1>7. \A k \in DOMAIN t : Emplaced(t, next)[k] = table[k]
    BY <1>2 DEF Emplaced, Left
  <1> QED BY <1>1, <1>4, <1>5, <1>6, <1>7 DEF Emplaced

\* Handles of the table are old and their sessions stay, or are the new one.
Grows(t) ==
    /\ DOMAIN t \subseteq Open' /\ next \notin Open
    /\ next \in Nat /\ next' \in Nat /\ next <= next'
    /\ \A k \in Open' :
         \/ k \in DOMAIN t /\ table'[k] = table[k]
         \/ k = next /\ next < next' /\ table'[k].id = opens + 1

LEMMA TwoChannels == Cardinality(Channels) = 2
  <1>1. Channels = {"control"} \cup {"data"}
    BY DEF Channels
  <1>2. IsFiniteSet({"control"}) /\ Cardinality({"control"}) = 1
    BY FS_Singleton
  <1>3. "data" \notin {"control"}
    OBVIOUS
  <1>4. Cardinality({"control"} \cup {"data"}) = Cardinality({"control"}) + 1
    BY <1>2, <1>3, FS_AddElement
  <1> QED BY <1>1, <1>2, <1>4

LEMMA OpenAdds ==
    ASSUME TypeOK, NoConnectionLost, NEW t, NEW l, Left(t, l), OpenEnds(t, l)
    PROVE  TypeMex' /\ NoConnectionLost' /\ Grows(t)
  <1>0. /\ stuck \in Nat /\ next \in Nat /\ opens \in Nat /\ faults \in Nat
        /\ next <= opens + 1 /\ l \in Nat
        /\ orphans = stuck * 2 /\ orphans \in Nat
    <2>1. stuck \in Nat /\ opens \in Nat /\ faults \in Nat
      BY MexAssumption DEF TypeOK
    <2>2. next \in Nat /\ next <= opens + 1
      BY <2>1 DEF TypeOK
    <2>3. l \in Nat
      BY <2>1 DEF Left
    <2>4. orphans = stuck * 2 /\ orphans \in Nat
      BY TwoChannels DEF TypeOK, NoConnectionLost
    <2> QED BY <2>1, <2>2, <2>3, <2>4
  <1>a. next \notin Open
    BY <1>0 DEF TypeOK
  <1>b. DOMAIN t \subseteq 1..(next - 1) /\ t \in [DOMAIN t -> Slot]
    BY DEF TypeOK, Left
  <1>1. CASE Refused(t, l)
    <2>1. TypeMex'
      BY <1>1, <1>0, <1>b DEF Refused, TypeOK, TypeMex, Open
    <2>2. NoConnectionLost'
      BY <1>1 DEF Refused, NoConnectionLost, LocksAreSessions, Left, Open
    <2>3. Grows(t)
      BY <1>1, <1>a, <1>0 DEF Refused, Grows, Left, Open
    <2> QED BY <2>1, <2>2, <2>3
  <1>p. ASSUME Numbered, table' = Emplaced(t, next)
        PROVE  /\ Open' = DOMAIN t \cup {next}
               /\ Open' \subseteq 1..(next' - 1)
               /\ table' \in [Open' -> Slot]
               /\ next' \in 1..(opens' + 1) /\ opens' \in 0..MaxOpens
               /\ Cardinality(Open') = Cardinality(DOMAIN t) + 1
               /\ Grows(t)
    <2>1. opens < MaxOpens /\ opens' = opens + 1 /\ next' = next + 1
      BY <1>p DEF Numbered
    <2>2. /\ Open' = DOMAIN t \cup {next}
          /\ table' \in [Open' -> Slot]
          /\ \A k \in DOMAIN t : table'[k] = table[k]
          /\ table'[next].id = opens + 1
          /\ Cardinality(Open') = Cardinality(DOMAIN t) + 1
      BY <1>p, <2>1, EmplacedFacts DEF Open
    <2>3. next' \in 1..(opens' + 1) /\ opens' \in 0..MaxOpens
      BY <1>0, <2>1, MexAssumption DEF TypeOK
    <2>4. Open' \subseteq 1..(next' - 1)
      BY <1>0, <1>b, <2>1, <2>2 DEF TypeOK
    <2>5. Grows(t)
      BY <1>0, <1>a, <2>1, <2>2 DEF Grows
    <2> QED BY <2>2, <2>3, <2>4, <2>5
  <1>2. CASE Opened(t, l)
    <2>1. TypeMex'
      BY <1>2, <1>0, <1>p DEF Opened, TypeOK, TypeMex
    <2>2. NoConnectionLost'
      BY <1>2, <1>0, <1>p
         DEF Opened, NoConnectionLost, LocksAreSessions, Left
    <2> QED BY <1>2, <1>p, <2>1, <2>2 DEF Opened
  <1>f. ASSUME Fault PROVE faults' \in 0..MaxFaults
    BY <1>f, <1>0, MexAssumption DEF Fault
  <1>3. CASE NoSlot(t, l)
    <2>1. stuck' = stuck + 1 /\ orphans' = orphans + 2 /\ locks' = l + 1
      BY <1>3, TwoChannels DEF NoSlot
    <2>2. stuck' \in 0..faults'
      BY <1>3, <2>1, <1>0, MexAssumption DEF NoSlot, Fault, TypeOK
    <2>3. opens' = opens + 1 /\ next' = next + 1 /\ opens < MaxOpens
      BY <1>3 DEF NoSlot, Numbered
    <2>4. table' = t
      BY <1>3 DEF NoSlot
    <2>5. Open' \subseteq 1..(next' - 1) /\ table' \in [Open' -> Slot]
      BY <1>0, <1>b, <2>3, <2>4 DEF Open
    <2>6. next' \in 1..(opens' + 1) /\ opens' \in 0..MaxOpens
      BY <1>0, <2>3, MexAssumption DEF TypeOK
    <2>7. TypeMex'
      <3>1. faults' \in 0..MaxFaults /\ unnamed' \subseteq Sessions
        BY <1>3, <1>f DEF NoSlot, TypeOK
      <3>2. locks' \in Nat /\ orphans' \in Nat
        BY <2>1, <1>0
      <3> QED BY <2>2, <2>5, <2>6, <3>1, <3>2 DEF TypeMex
    <2>8. NoConnectionLost'
      <3>1. LocksAreSessions'
        BY <2>1, <2>4, <1>0 DEF LocksAreSessions, Left, Open
      <3>2. orphans' = stuck' * 2
        BY <2>1, <1>0
      <3> QED BY <3>1, <3>2, TwoChannels DEF NoConnectionLost
    <2>9. Grows(t)
      BY <2>3, <2>4, <1>a, <1>0 DEF Grows, Left, Open
    <2> QED BY <2>7, <2>8, <2>9
  <1>4. CASE NoResult(t, l)
    <2>1. unnamed' \subseteq Sessions
      BY <1>4, <1>0, MexAssumption DEF NoResult, Numbered, TypeOK, Sessions
    <2>2. TypeMex'
      <3>1. faults' \in 0..MaxFaults /\ stuck' \in 0..faults'
        BY <1>4, <1>0, <1>f DEF NoResult, Fault, TypeOK
      <3>2. locks' \in Nat /\ orphans' \in Nat
        BY <1>4, <1>0 DEF NoResult
      <3> QED BY <1>4, <1>p, <2>1, <3>1, <3>2 DEF NoResult, TypeMex
    <2>3. NoConnectionLost'
      BY <1>4, <1>0, <1>p
         DEF NoResult, NoConnectionLost, LocksAreSessions, Left
    <2> QED BY <1>4, <1>p, <2>2, <2>3 DEF NoResult
  <1> QED BY <1>1, <1>2, <1>3, <1>4 DEF OpenEnds

-----------------------------------------------------------------------------
(* The steps *)

LEMMA ObjectOpenInv ==
    ASSUME MexInv, NEW o \in Objects, ObjectOpen(o)
    PROVE  MexInv'
  <1> DEFINE t == Without(table, handle[o])
             l == Unlocked(table, locks, handle[o])
  <1>1. /\ OpenEnds(t, l) /\ Live(o)
        /\ UNCHANGED <<load, deleted, copies, meddled>>
    BY DEF ObjectOpen, OpenEnds
  <1>2. \/ /\ Opened(t, l)
           /\ handle' = [handle EXCEPT ![o] = next]
           /\ mine' = [mine EXCEPT ![o] = opens + 1]
        \/ /\ Refused(t, l) \/ NoSlot(t, l) \/ NoResult(t, l)
           /\ handle' = [handle EXCEPT ![o] = 0] /\ mine' = mine
    BY DEF ObjectOpen
  <1>3. Left(t, l) /\ DOMAIN t = Open \ {handle[o]}
    BY CloseLeaves DEF MexInv, NoConnectionLost
  <1>4. TypeMex' /\ NoConnectionLost' /\ Grows(t)
    BY <1>1, <1>3, OpenAdds DEF MexInv
  <1>5. ASSUME Opened(t, l)
        PROVE  /\ next \in Open' /\ table'[next].id = opens + 1
               /\ opens' = opens + 1 /\ next \in Handles
               /\ opens + 1 \in Sessions
    <2>1. opens < MaxOpens /\ opens' = opens + 1 /\ table' = Emplaced(t, next)
      BY <1>5 DEF Opened, Numbered
    <2>2. next \in Handles /\ opens + 1 \in Sessions
      BY <2>1, MexAssumption DEF MexInv, TypeOK, Handles, Sessions
    <2> QED BY <2>1, <2>2, <1>3, EmplacedFacts DEF MexInv, Open
  <1>6. TypeOK'
    <2>1. handle' \in [Objects -> Handles \cup {0}]
      BY <1>2, <1>5 DEF MexInv, TypeOK
    <2>2. mine' \in [Objects -> Sessions \cup {0}]
      BY <1>2, <1>5 DEF MexInv, TypeOK
    <2> QED BY <1>1, <1>4, <2>1, <2>2 DEF MexInv, TypeOK, TypeMex
  <1>7. StaleHandlesRefused' /\ CopiesAreOld'
    BY <1>1, <1>3, <1>4
       DEF MexInv, TypeOK, Copy, Handles, StaleHandlesRefused, CopiesAreOld,
           Grows
  <1>8. ObjectsKeepTheirs' /\ HandlesDiffer'
    <2> SUFFICES ASSUME ~meddled
                 PROVE  ObjectsKeepTheirs' /\ HandlesDiffer'
      BY <1>1 DEF ObjectsKeepTheirs, HandlesDiffer
    <2>1. ASSUME NEW p \in Objects, p # o, handle[p] # 0
          PROVE  /\ handle[p] \in Open' /\ handle[p] # next
                 /\ table'[handle[p]].id = mine[p]
      <3>1. handle[p] \in Open /\ handle[p] # handle[o]
        BY <2>1 DEF MexInv, ObjectsKeepTheirs, HandlesDiffer
      <3>2. handle[p] \in DOMAIN t /\ table[handle[p]].id = mine[p]
        BY <3>1, <1>3, <2>1 DEF MexInv, ObjectsKeepTheirs
      <3> QED BY <3>1, <3>2, <1>4 DEF Grows
    <2>2. \A p \in Objects : p # o =>
              handle'[p] = handle[p] /\ mine'[p] = mine[p]
      BY <1>2 DEF MexInv, TypeOK
    <2>3. \/ handle'[o] = 0
          \/ handle'[o] = next /\ mine'[o] = opens + 1 /\ Opened(t, l)
      BY <1>2 DEF MexInv, TypeOK
    <2>4. ObjectsKeepTheirs'
      BY <2>1, <2>2, <2>3, <1>5 DEF ObjectsKeepTheirs
    <2>5. HandlesDiffer'
      BY <2>1, <2>2, <2>3 DEF MexInv, HandlesDiffer
    <2> QED BY <2>4, <2>5
  <1>9. DeletedAreClosed'
    BY <1>1, <1>2 DEF MexInv, TypeOK, DeletedAreClosed, Live
  <1>10. SessionsReachable'
    <2> SUFFICES ASSUME NEW h \in Open'
                 PROVE  \/ \E p \in Objects : handle'[p] = h /\ Live(p)'
                        \/ \E c \in copies' : c.handle = h /\ c.load = load'
                        \/ table'[h].id \in unnamed'
      BY DEF SessionsReachable
    <2>1. unnamed \subseteq unnamed'
      BY <1>1 DEF OpenEnds, Opened, Refused, NoSlot, NoResult
    <2>2. CASE h \in DOMAIN t /\ table'[h] = table[h]
      <3>1. h # handle[o] /\ h \in Open
        BY <2>2, <1>3
      <3>2. CASE \E p \in Objects : handle[p] = h /\ Live(p)
        <4>1. PICK p \in Objects : handle[p] = h /\ Live(p)
          BY <3>2
        <4>2. p # o /\ handle'[p] = handle[p]
          BY <4>1, <3>1, <1>2 DEF MexInv, TypeOK
        <4> QED BY <4>1, <4>2, <1>1 DEF Live
      <3>3. CASE table[h].id \in unnamed
        BY <3>3, <2>1, <2>2
      <3>4. CASE \E c \in copies : c.handle = h /\ c.load = load
        BY <3>4, <1>1
      <3> QED BY <3>1, <3>2, <3>3, <3>4 DEF MexInv, SessionsReachable
    <2>3. CASE h = next /\ next < next' /\ table'[h].id = opens + 1
      <3>1. CASE Opened(t, l) /\ handle' = [handle EXCEPT ![o] = next]
        <4>1. handle'[o] = next
          BY <3>1 DEF MexInv, TypeOK
        <4> QED BY <4>1, <2>3, <1>1 DEF Live
      <3>2. CASE Refused(t, l)
        BY <2>3, <3>2, <1>4 DEF Refused, Grows
      <3>3. CASE NoSlot(t, l)
        BY <2>3, <3>3, <1>3, <1>4 DEF NoSlot, Grows, Open
      <3>4. CASE NoResult(t, l)
        BY <2>3, <3>4 DEF NoResult
      <3> QED BY <1>2, <3>1, <3>2, <3>3, <3>4
    <2> QED BY <1>4, <2>2, <2>3 DEF Grows
  <1> QED BY <1>4, <1>6, <1>7, <1>8, <1>9, <1>10 DEF MexInv

LEMMA CloseHandleInv ==
    ASSUME MexInv, NEW o \in Objects, CloseHandle(o),
           deleted' \in {deleted, deleted \cup {o}}
    PROVE  MexInv'
  <1> DEFINE t == Without(table, handle[o])
             l == Unlocked(table, locks, handle[o])
  <1>1. /\ table' = t /\ locks' = l
        /\ handle' = [handle EXCEPT ![o] = 0]
        /\ UNCHANGED <<next, load, opens, faults, copies, mine, meddled, stuck,
                       unnamed, orphans>>
    BY DEF CloseHandle, histVars
  <1>2. Left(t, l) /\ Open' = Open \ {handle[o]}
    BY <1>1, CloseLeaves DEF MexInv, NoConnectionLost, Open
  <1>3. \A p \in Objects :
            handle'[p] = IF p = o THEN 0 ELSE handle[p]
    BY <1>1 DEF MexInv, TypeOK
  <1>4. TypeOK'
    <2>1. locks' \in Nat
      BY <1>1, <1>2 DEF Left, MexInv, TypeOK
    <2>2. Open' \subseteq 1..(next' - 1) /\ table' \in [Open' -> Slot]
      BY <1>1, <1>2 DEF Left, MexInv, TypeOK, Open
    <2>3. handle' \in [Objects -> Handles \cup {0}]
      BY <1>1 DEF MexInv, TypeOK
    <2>4. deleted' \subseteq Objects
      BY DEF MexInv, TypeOK
    <2> QED BY <1>1, <2>1, <2>2, <2>3, <2>4 DEF MexInv, TypeOK
  <1>5. NoConnectionLost'
    BY <1>1, <1>2
       DEF MexInv, NoConnectionLost, LocksAreSessions, Left, Open
  <1>6. StaleHandlesRefused' /\ CopiesAreOld'
    BY <1>1, <1>2 DEF MexInv, StaleHandlesRefused, CopiesAreOld, Left, Open
  <1>7. ObjectsKeepTheirs' /\ HandlesDiffer'
    BY <1>1, <1>2, <1>3
       DEF MexInv, ObjectsKeepTheirs, HandlesDiffer, Left, Open
  <1>8. DeletedAreClosed'
    BY <1>3 DEF MexInv, TypeOK, DeletedAreClosed
  <1>9. SessionsReachable'
    <2> SUFFICES ASSUME NEW h \in Open'
                 PROVE  \/ \E p \in Objects : handle'[p] = h /\ Live(p)'
                        \/ \E c \in copies' : c.handle = h /\ c.load = load'
                        \/ table'[h].id \in unnamed'
      BY DEF SessionsReachable
    <2>1. h \in Open /\ h # handle[o] /\ table'[h] = table[h]
      BY <1>1, <1>2 DEF Left, Open
    <2>2. ASSUME NEW p \in Objects, handle[p] = h, Live(p)
          PROVE  handle'[p] = h /\ Live(p)'
      BY <2>1, <2>2, <1>3 DEF Live
    <2> QED BY <2>1, <2>2, <1>1 DEF MexInv, SessionsReachable
  <1> QED BY <1>4, <1>5, <1>6, <1>7, <1>8, <1>9 DEF MexInv

LEMMA SessionCallInv ==
    ASSUME MexInv, NEW h, SessionCall(h)
    PROVE  MexInv'
  <1>1. PICK c \in Channels : table' = [table EXCEPT ![h].up = @ \ {c}]
    BY DEF SessionCall
  <1>2. UNCHANGED <<next, locks, load, handle, deleted, opens, faults, copies,
                    mine, meddled, stuck, unnamed, orphans>>
    BY DEF SessionCall, objVars, histVars
  <1>3. /\ Open' = Open /\ table' \in [Open -> Slot]
        /\ \A k \in Open : table'[k].id = table[k].id
    BY <1>1 DEF SessionCall, MexInv, TypeOK, Open, Slot
  <1>4. TypeOK'
    BY <1>2, <1>3 DEF MexInv, TypeOK
  <1>5. NoConnectionLost' /\ DeletedAreClosed' /\ CopiesAreOld'
    BY <1>2, <1>3 DEF MexInv, NoConnectionLost, LocksAreSessions,
       DeletedAreClosed, CopiesAreOld
  <1>6. StaleHandlesRefused' /\ ObjectsKeepTheirs' /\ HandlesDiffer'
    BY <1>2, <1>3
       DEF MexInv, StaleHandlesRefused, ObjectsKeepTheirs, HandlesDiffer
  <1>7. SessionsReachable'
    BY <1>2, <1>3 DEF MexInv, SessionsReachable, Live
  <1> QED BY <1>4, <1>5, <1>6, <1>7 DEF MexInv

LEMMA ReadHandleInv ==
    ASSUME MexInv, NEW o \in Objects, ReadHandle(o)
    PROVE  MexInv'
  <1> DEFINE n == Named(handle[o])
  <1>1. /\ handle[o] \in Open /\ copies' = copies \cup {n}
        /\ UNCHANGED <<table, next, locks, load, handle, deleted, opens,
                       faults, mine, meddled, stuck, unnamed, orphans>>
    BY DEF ReadHandle, mexVars, objVars
  <1>2. /\ n \in Copy /\ n.load = load /\ n.handle = handle[o]
        /\ n.handle < next /\ n.id = table[n.handle].id
    <2>1. handle[o] \in 1..(next - 1) /\ next \in Nat
      <3>1. next \in Nat
        BY MexAssumption DEF MexInv, TypeOK
      <3> QED BY <1>1, <3>1 DEF MexInv, TypeOK
    <2>2. handle[o] \in Handles
      <3>1. handle[o] \in Handles \cup {0}
        BY DEF MexInv, TypeOK
      <3> QED BY <2>1, <3>1
    <2>3. table[handle[o]].id \in Sessions
      BY <1>1 DEF MexInv, TypeOK, Slot
    <2>4. load \in 1..MaxLoads
      BY DEF MexInv, TypeOK
    <2> QED BY <2>1, <2>2, <2>3, <2>4 DEF Named, Copy
  <1>3. TypeOK'
    BY <1>1, <1>2 DEF MexInv, TypeOK, Open
  <1>4. NoConnectionLost' /\ DeletedAreClosed' /\ ObjectsKeepTheirs'
        /\ HandlesDiffer'
    BY <1>1 DEF MexInv, NoConnectionLost, LocksAreSessions, DeletedAreClosed,
       ObjectsKeepTheirs, HandlesDiffer, Open
  <1>5. StaleHandlesRefused' /\ CopiesAreOld'
    <2>1. load \in Nat
      BY MexAssumption DEF MexInv, TypeOK
    <2>2. CopiesAreOld'
      BY <1>1, <1>2, <2>1 DEF MexInv, CopiesAreOld
    <2>3. StaleHandlesRefused'
      BY <1>1, <1>2 DEF MexInv, StaleHandlesRefused, Open
    <2> QED BY <2>2, <2>3
  <1>6. SessionsReachable'
    BY <1>1 DEF MexInv, SessionsReachable, Live, Open
  <1> QED BY <1>3, <1>4, <1>5, <1>6 DEF MexInv

LEMMA ScriptOpenInv ==
    ASSUME MexInv, ScriptOpen
    PROVE  MexInv'
  <1> DEFINE n == [handle |-> next, load |-> load, id |-> opens + 1]
  <1>1. /\ OpenEnds(table, locks)
        /\ UNCHANGED <<load, handle, deleted, mine, meddled>>
    BY DEF ScriptOpen, OpenEnds, objVars
  <1>2. \/ Opened(table, locks) /\ copies' = copies \cup {n}
        \/ /\ NoSlot(table, locks) \/ NoResult(table, locks)
           /\ copies' = copies
    BY DEF ScriptOpen
  <1>3. TypeMex' /\ NoConnectionLost' /\ Grows(table)
    BY <1>1, NothingClosed, OpenAdds DEF MexInv, NoConnectionLost
  <1>4. ASSUME Opened(table, locks)
        PROVE  n \in Copy /\ table'[next].id = opens + 1 /\ next' = next + 1
    <2>1. /\ opens < MaxOpens /\ next' = next + 1
          /\ table' = Emplaced(table, next)
      BY <1>4 DEF Opened, Numbered
    <2>2. next \in Handles /\ opens + 1 \in Sessions /\ load \in 1..MaxLoads
      BY <2>1, MexAssumption DEF MexInv, TypeOK, Handles, Sessions
    <2>3. table'[next].id = opens + 1
      BY <2>1 DEF Emplaced, NewSlot
    <2> QED BY <2>1, <2>2, <2>3 DEF Copy
  <1>5. TypeOK'
    <2>1. copies' \subseteq Copy
      BY <1>2, <1>4 DEF MexInv, TypeOK
    <2> QED BY <1>1, <1>3, <2>1 DEF MexInv, TypeOK, TypeMex
  <1>6. \A k \in Open : k \in Open' /\ table'[k] = table[k]
    BY <1>3 DEF Grows, Open
  <1>7. StaleHandlesRefused' /\ CopiesAreOld'
    <2>0. \A c \in copies' : c.load <= load
      BY <1>1, <1>2 DEF MexInv, TypeOK, CopiesAreOld
    <2> SUFFICES ASSUME NEW c \in copies', c.load = load
                 PROVE  /\ c.handle < next'
                        /\ c.handle \in Open' => table'[c.handle].id = c.id
      BY <1>1, <2>0 DEF StaleHandlesRefused, CopiesAreOld
    <2>1. CASE c \in copies
      <3>1. c.handle < next /\ c.handle \in Nat
        BY <2>1 DEF MexInv, TypeOK, CopiesAreOld, Copy, Handles
      <3> QED BY <2>1, <3>1, <1>3
              DEF MexInv, StaleHandlesRefused, Grows, Open
    <2>2. CASE c = n /\ Opened(table, locks)
      BY <2>2, <1>3, <1>4 DEF Grows
    <2> QED BY <2>1, <2>2, <1>2
  <1>8. ObjectsKeepTheirs' /\ HandlesDiffer' /\ DeletedAreClosed'
    BY <1>1, <1>6
       DEF MexInv, ObjectsKeepTheirs, HandlesDiffer, DeletedAreClosed
  <1>9. SessionsReachable'
    <2> SUFFICES ASSUME NEW h \in Open'
                 PROVE  \/ \E p \in Objects : handle'[p] = h /\ Live(p)'
                        \/ \E c \in copies' : c.handle = h /\ c.load = load'
                        \/ table'[h].id \in unnamed'
      BY DEF SessionsReachable
    <2>1. unnamed \subseteq unnamed' /\ copies \subseteq copies'
      BY <1>1, <1>2 DEF OpenEnds, Opened, Refused, NoSlot, NoResult
    <2>2. CASE h \in Open /\ table'[h] = table[h]
      BY <2>1, <2>2, <1>1 DEF MexInv, SessionsReachable, Live
    <2>3. CASE h = next /\ h \notin Open /\ table'[h].id = opens + 1
      <3>1. CASE Opened(table, locks) /\ copies' = copies \cup {n}
        <4>1. n \in copies' /\ n.handle = h /\ n.load = load'
          BY <2>3, <3>1, <1>1
        <4> QED BY <4>1
      <3>2. CASE NoSlot(table, locks)
        BY <2>3, <3>2 DEF NoSlot, Open
      <3>3. CASE NoResult(table, locks)
        BY <2>3, <3>3 DEF NoResult
      <3> QED BY <1>2, <3>1, <3>2, <3>3
    <2> QED BY <1>3, <2>2, <2>3 DEF Grows, Open
  <1> QED BY <1>3, <1>5, <1>7, <1>8, <1>9 DEF MexInv

LEMMA ScriptCloseInv ==
    ASSUME MexInv, NEW c \in copies, ScriptClose(c)
    PROVE  MexInv'
  <1> DEFINE t == Without(table, c.handle)
             l == Unlocked(table, locks, c.handle)
  <1>1. /\ table' = t /\ locks' = l
        /\ meddled' = (meddled \/ \E o \in Objects : handle[o] = c.handle)
        /\ UNCHANGED <<next, load, handle, deleted, opens, faults, copies,
                       mine, stuck, unnamed, orphans>>
    BY DEF ScriptClose, objVars
  <1>2. Left(t, l) /\ Open' = Open \ {c.handle}
    BY <1>1, CloseLeaves DEF MexInv, NoConnectionLost, Open
  <1>3. TypeOK'
    <2>1. locks' \in Nat
      BY <1>1, <1>2 DEF Left, MexInv, TypeOK
    <2>2. Open' \subseteq 1..(next' - 1) /\ table' \in [Open' -> Slot]
      BY <1>1, <1>2 DEF Left, MexInv, TypeOK, Open
    <2>3. meddled' \in BOOLEAN
      BY <1>1
    <2> QED BY <1>1, <2>1, <2>2, <2>3 DEF MexInv, TypeOK
  <1>4. NoConnectionLost'
    BY <1>1, <1>2
       DEF MexInv, NoConnectionLost, LocksAreSessions, Left, Open
  <1>5. StaleHandlesRefused' /\ CopiesAreOld' /\ DeletedAreClosed'
    BY <1>1, <1>2
       DEF MexInv, StaleHandlesRefused, CopiesAreOld, DeletedAreClosed, Left,
           Open
  <1>6. ObjectsKeepTheirs' /\ HandlesDiffer'
    <2> SUFFICES ASSUME ~meddled'
                 PROVE  ObjectsKeepTheirs' /\ HandlesDiffer'
      BY DEF ObjectsKeepTheirs, HandlesDiffer
    <2>1. ~meddled /\ \A o \in Objects : handle[o] # c.handle
      BY <1>1
    <2> QED BY <2>1, <1>1, <1>2
            DEF MexInv, ObjectsKeepTheirs, HandlesDiffer, Left, Open
  <1>7. SessionsReachable'
    BY <1>1, <1>2 DEF MexInv, SessionsReachable, Live, Left, Open
  <1> QED BY <1>3, <1>4, <1>5, <1>6, <1>7 DEF MexInv

\* Only an empty table can be cleared away.
LEMMA ClearMexInv ==
    ASSUME MexInv, ClearMex
    PROVE  MexInv'
  <1>1. /\ locks = 0 /\ load < MaxLoads /\ load' = load + 1
        /\ table' = NoSessions /\ next' = 1
        /\ orphans' = orphans + Cardinality(Connections)
        /\ UNCHANGED <<locks, handle, deleted, opens, faults, copies, mine,
                       meddled, stuck, unnamed>>
    BY DEF ClearMex, objVars
  <1>2. Open = {} /\ stuck = 0
    <2>1. Cardinality(Open) = 0 /\ stuck = 0
      BY <1>1, OpenIsFinite, MexAssumption
         DEF MexInv, TypeOK, NoConnectionLost, LocksAreSessions
    <2> QED BY <2>1, OpenIsFinite, FS_EmptySet DEF MexInv
  <1>3. Cardinality(Connections) = 0
    <2>1. Connections = {}
      BY <1>2 DEF Connections
    <2> QED BY <2>1, FS_EmptySet
  <1>4. Open' = {}
    BY <1>1 DEF Open, NoSessions
  <1>5. TypeOK'
    <2>1. table' \in [Open' -> Slot]
      BY <1>1, <1>4 DEF NoSessions
    <2>2. next' \in 1..(opens' + 1) /\ load' \in 1..MaxLoads
      BY <1>1, MexAssumption DEF MexInv, TypeOK
    <2>3. orphans' \in Nat
      BY <1>1, <1>3 DEF MexInv, TypeOK
    <2> QED BY <1>1, <1>4, <2>1, <2>2, <2>3 DEF MexInv, TypeOK
  <1>6. NoConnectionLost'
    <2>1. orphans' = orphans
      BY <1>1, <1>3 DEF MexInv, TypeOK
    <2>2. Cardinality(Open') = 0
      BY <1>4, FS_EmptySet
    <2> QED BY <1>1, <1>2, <2>1, <2>2
            DEF MexInv, NoConnectionLost, LocksAreSessions
  <1>7. StaleHandlesRefused' /\ SessionsReachable'
    BY <1>4 DEF StaleHandlesRefused, SessionsReachable
  <1>8. CopiesAreOld'
    <2>1. load \in Nat /\ \A c \in copies : c.load \in Nat /\ c.load <= load
      BY MexAssumption DEF MexInv, TypeOK, CopiesAreOld, Copy
    <2>2. \A c \in copies' : c.load <= load' /\ c.load # load'
      BY <1>1, <2>1
    <2> QED BY <2>2 DEF CopiesAreOld
  <1>9. ObjectsKeepTheirs' /\ HandlesDiffer' /\ DeletedAreClosed'
    BY <1>1, <1>2
       DEF MexInv, ObjectsKeepTheirs, HandlesDiffer, DeletedAreClosed
  <1> QED BY <1>5, <1>6, <1>7, <1>8, <1>9 DEF MexInv

-----------------------------------------------------------------------------
(* The theorems *)

LEMMA MexInit == Init => MexInv
  <1> SUFFICES ASSUME Init PROVE MexInv
    OBVIOUS
  <1>1. Open = {} /\ Cardinality(Open) = 0
    BY FS_EmptySet DEF Init, Open, NoSessions
  <1>2. TypeOK
    <2>1. table \in [Open -> Slot]
      BY <1>1 DEF Init, NoSessions, Open
    <2>2. /\ next \in 1..(opens + 1) /\ load \in 1..MaxLoads
          /\ opens \in 0..MaxOpens /\ faults \in 0..MaxFaults
          /\ stuck \in 0..faults /\ locks \in Nat /\ orphans \in Nat
      BY MexAssumption DEF Init
    <2>3. /\ handle \in [Objects -> Handles \cup {0}]
          /\ mine \in [Objects -> Sessions \cup {0}]
          /\ copies \subseteq Copy /\ deleted \subseteq Objects
          /\ unnamed \subseteq Sessions /\ meddled \in BOOLEAN
      BY DEF Init
    <2> QED BY <1>1, <2>1, <2>2, <2>3 DEF TypeOK
  <1>3. NoConnectionLost
    BY <1>1, TwoChannels DEF Init, NoConnectionLost, LocksAreSessions
  <1> QED BY <1>1, <1>2, <1>3
          DEF Init, MexInv, StaleHandlesRefused, ObjectsKeepTheirs,
              SessionsReachable, DeletedAreClosed, CopiesAreOld, HandlesDiffer

LEMMA MexStep == MexInv /\ [Next]_vars => MexInv'
  <1> SUFFICES ASSUME MexInv, [Next]_vars PROVE MexInv'
    OBVIOUS
  <1>1. CASE UNCHANGED vars
    BY <1>1
       DEF vars, mexVars, objVars, histVars, MexInv, TypeOK, Open,
           NoConnectionLost, LocksAreSessions, StaleHandlesRefused,
           ObjectsKeepTheirs, SessionsReachable, DeletedAreClosed,
           CopiesAreOld, HandlesDiffer, Live
  <1>2. ASSUME NEW o \in Objects, ObjectStep(o) PROVE MexInv'
    <2>1. CASE ObjectOpen(o)
      BY <2>1, ObjectOpenInv
    <2>2. CASE ObjectClose(o)
      BY <2>2, CloseHandleInv DEF ObjectClose
    <2>3. CASE ObjectDelete(o)
      BY <2>3, CloseHandleInv DEF ObjectDelete
    <2>4. CASE ObjectCall(o)
      BY <2>4, SessionCallInv DEF ObjectCall
    <2>5. CASE ReadHandle(o)
      BY <2>5, ReadHandleInv
    <2> QED BY <1>2, <2>1, <2>2, <2>3, <2>4, <2>5 DEF ObjectStep
  <1>3. CASE ScriptStep
    <2>1. CASE ScriptOpen
      BY <2>1, ScriptOpenInv
    <2>2. ASSUME NEW c \in copies, ScriptClose(c) PROVE MexInv'
      BY <2>2, ScriptCloseInv
    <2>3. ASSUME NEW c \in copies, ScriptCall(c) PROVE MexInv'
      BY <2>3, SessionCallInv DEF ScriptCall
    <2> QED BY <1>3, <2>1, <2>2, <2>3 DEF ScriptStep
  <1>4. CASE ClearMex
    BY <1>4, ClearMexInv
  <1> QED BY <1>1, <1>2, <1>3, <1>4 DEF Next

THEOREM MexInductive == Spec => []MexInv
  BY MexInit, MexStep, PTL DEF Spec

\* Whatever objects and scripts do with their copies of handles, every
\* variable of the MEX file keeps its type and every handle is behind the
\* counter.
THEOREM MexTypes == Spec => []TypeOK
  BY MexInductive, PTL DEF MexInv

\* MATLAB can unload the MEX file only when its table is empty, and no
\* connection is lost except by an insertion that fails.
THEOREM ClearingLosesNothing == Spec => []NoConnectionLost
  BY MexInductive, PTL DEF MexInv

\* A stale copy of a handle never reaches another session while the file
\* stays loaded.
THEOREM HandlesAreNotReused == Spec => []StaleHandlesRefused
  BY MexInductive, PTL DEF MexInv

\* An object's handle is its own session's, unless a script has closed one.
THEOREM ObjectsOwnTheirSessions == Spec => []ObjectsKeepTheirs
  BY MexInductive, PTL DEF MexInv

\* Somebody can close every open session.
THEOREM EverySessionReachable == Spec => []SessionsReachable
  BY MexInductive, PTL DEF MexInv

-----------------------------------------------------------------------------
(* The command-line tool *)

-----------------------------------------------------------------------------
(* The inductive invariant *)

\* The names of the settings, and what the program keeps of each.
ToolTypes ==
    /\ tool \in {"cli", "example"} /\ long \in {W32, W64}
    /\ at \in {"args", "set", "write", "close", "exited"}
    /\ step \in 1..Len(Sets) + 1
    /\ typed \in [Small \cup Wide -> Texts \cup {Untyped}]
    /\ value \in [Small \cup Wide -> Nat]
    /\ output \in {"none", "path"}
    /\ file \in {"old", "part", "whole"} /\ helped \in BOOLEAN

\* The settings sent before the i-th, at the values of the command line.
SentBefore(i) == {<<Sets[j], value[Sets[j]]>> : j \in 1..i - 1}

\* Until it ends the program has no exit code, and what it has done so far is
\* told by where it is.
Progress ==
    /\ at # "exited" <=> exit = -1
    /\ at = "args" => step = 1 /\ up = {}
    /\ at \in {"args", "set"} =>
          board = SentBefore(step) /\ captured = {} /\ file = "old"
    /\ at \in {"write", "close"} => captured = SentBefore(Len(Sets) + 1)
    /\ at = "write" => file = "old"
    /\ at = "close" => file # "old"

\* A capture is taken with all of them sent.
Captured == captured # {} => captured = SentBefore(Len(Sets) + 1)

ToolInv ==
    ToolTypes /\ Progress /\ Captured /\ NumbersAsTyped
        /\ CliClosesChannels /\ FileFollowsCapture

-----------------------------------------------------------------------------
(* The operators the model is built from *)

\* The settings of either program are options' names; there are some.
LEMMA SetsAre ==
    ASSUME tool \in {"cli", "example"}
    PROVE  /\ Len(Sets) \in {3, 4} /\ DOMAIN Sets = 1..Len(Sets)
           /\ \A i \in 1..Len(Sets) : Sets[i] \in Small \cup Wide
  <1>1. CASE tool = "cli"
    BY <1>1 DEF Sets, Small, Wide, Ports
  <1>2. CASE tool = "example"
    BY <1>2 DEF Sets, Small, Wide, Ports
  <1> QED BY <1>1, <1>2

\* A number that is read and accepted is the one typed, or the largest of the
\* type when it is also the option's largest.
LEMMA ParsedIsTyped ==
    ASSUME long \in {W32, W64}, NEW o \in Small \cup Wide, NEW text \in Texts,
           Parsed(o, text).ok
    PROVE  /\ Parsed(o, text).value \in Nat
           /\ text.kind = "number" /\ text.n >= 0 =>
                \/ Parsed(o, text).value = text.n
                \/ /\ text.n >= Span(o)
                   /\ Parsed(o, text).value = Span(o) - 1
                   /\ Parsed(o, text).value = Limit(o)
  <1> DEFINE v == Strto(text, Span(o))
  <1>1. Parsed(o, text).value = v /\ v <= Limit(o)
    BY DEF Parsed
  <1>2. /\ 0 < Clocks /\ Clocks < W16 /\ W16 < W32 /\ W32 < W64
        /\ Clocks \in Nat /\ W16 \in Nat /\ W32 \in Nat /\ W64 \in Nat
    BY ToolAssumption
  <1>3. text.n \in Int
    <2>1. CASE text \in [kind : {"number"}, n : Numbers]
      BY <2>1, ToolAssumption
    <2>2. CASE text \in [kind : {"empty", "junk"}, n : {0}]
      BY <2>2
    <2> QED BY <2>1, <2>2 DEF Texts
  <1>4. Span(o) \in Nat /\ Span(o) > 0 /\ Limit(o) \in Nat
    BY <1>2 DEF Span, Limit
  <1>5. Span(o) - 1 <= Limit(o) => Span(o) - 1 = Limit(o)
    <2>1. CASE o \in Wide
      BY <1>2, <2>1 DEF Span, Limit, Wide, Ports
    <2>2. CASE o \notin Wide
      BY <1>2, <2>2 DEF Span, Limit, Wide, Small, Ports
    <2> QED BY <2>1, <2>2
  <1> DEFINE w == Span(o)
  <1>6. v = IF text.n >= w \/ text.n <= -w THEN w - 1 ELSE text.n % w
    BY DEF Strto
  <1> HIDE DEF v, w
  <1>7. w \in Nat /\ w > 0
    BY <1>4 DEF w
  <1>8. text.n % w \in 0..w - 1
    BY <1>3, <1>7
  <1>9. v \in Nat
    BY <1>6, <1>7, <1>8
  <1>10. ASSUME text.n >= 0
         PROVE  v = text.n \/ (text.n >= w /\ v = w - 1)
    <2>1. CASE text.n >= w
      BY <1>6, <2>1
    <2>2. CASE ~(text.n >= w)
      <3>1. text.n \in 0..w - 1
        BY <1>3, <1>7, <1>10, <2>2
      <3>2. text.n % w = text.n
        BY <1>7, <3>1
      <3> QED BY <1>3, <1>6, <1>7, <2>2, <3>1, <3>2
    <2> QED BY <2>1, <2>2
  <1>11. w = Span(o)
    BY DEF w
  <1> QED BY <1>1, <1>5, <1>9, <1>10, <1>11

-----------------------------------------------------------------------------
(* Every step keeps the invariant *)

\* The settings sent do not change once the command line is read.
LEMMA SameSent ==
    ASSUME UNCHANGED <<tool, value>>
    PROVE  Sets' = Sets /\ \A i : SentBefore(i)' = SentBefore(i)
  BY DEF SentBefore, Sets

\* A step that reads no number leaves the numbers as they are.
LEMMA SameNumbers ==
    ASSUME NumbersAsTyped, UNCHANGED <<tool, long, typed, value>>
    PROVE  NumbersAsTyped'
  BY DEF NumbersAsTyped, Options, Span, Limit

LEMMA UsageKept ==
    ASSUME ToolInv, Usage
    PROVE  ToolInv'
  <1>1. /\ Sets' = Sets /\ NumbersAsTyped'
        /\ \A i : SentBefore(i)' = SentBefore(i)
    BY SameSent, SameNumbers DEF Usage, ToolInv
  <1>2. ToolTypes' /\ Progress' /\ Captured'
    BY <1>1 DEF ToolInv, ToolTypes, Progress, Captured, Usage, Return, Small,
                Wide
  <1>3. CliClosesChannels' /\ FileFollowsCapture'
    BY DEF ToolInv, Progress, CliClosesChannels, FileFollowsCapture, Usage,
           Return
  <1> QED BY <1>1, <1>2, <1>3 DEF ToolInv

LEMMA ReadOptionKept ==
    ASSUME ToolInv, ReadOption
    PROVE  ToolInv'
  <1>1. /\ at = "args" /\ step = 1 /\ captured = {} /\ file = "old"
        /\ board = {} /\ up = {}
    BY DEF ToolInv, ToolTypes, Progress, SentBefore, ReadOption
  <1>2. /\ UNCHANGED <<tool, long, step, board, captured, file>>
        /\ Sets' = Sets
    BY DEF ReadOption, Sets
  <1>3. SentBefore(1)' = {}
    BY DEF SentBefore
  <1>4. CASE \E o \in Options, text \in Texts : NumberOption(o, text)
    <2>1. PICK o \in Options, text \in Texts : NumberOption(o, text)
      BY <1>4
    <2>2. o \in Small \cup Wide /\ Options' = Options
      BY <1>2 DEF Options, Small
    <2>3. /\ Parsed(o, text).ok
          /\ typed' = [typed EXCEPT ![o] = text]
          /\ value' = [value EXCEPT ![o] = Parsed(o, text).value]
          /\ UNCHANGED <<output, at, up, exit, helped>>
      BY <2>1 DEF NumberOption
    <2>4. /\ Parsed(o, text).value \in Nat
          /\ text.kind = "number" /\ text.n >= 0 =>
                \/ Parsed(o, text).value = text.n
                \/ /\ text.n >= Span(o)
                   /\ Parsed(o, text).value = Span(o) - 1
                   /\ Parsed(o, text).value = Limit(o)
      BY <2>2, <2>3, ParsedIsTyped DEF ToolInv, ToolTypes
    <2>5. ToolTypes'
      BY <1>2, <2>2, <2>3, <2>4 DEF ToolInv, ToolTypes
    <2>6. NumbersAsTyped'
      <3>1. ASSUME NEW p \in Options
            PROVE  /\ Span(p)' = Span(p) /\ Limit(p)' = Limit(p)
                   /\ p = o => typed'[p] = text
                               /\ value'[p] = Parsed(o, text).value
                   /\ p # o => typed'[p] = typed[p] /\ value'[p] = value[p]
        <4>1. p \in Small \cup Wide
          BY DEF Options, Small
        <4> QED BY <1>2, <2>2, <2>3, <4>1
                DEF ToolInv, ToolTypes, Span, Limit
      <3> HIDE DEF Options
      <3> QED BY <2>2, <2>4, <3>1 DEF ToolInv, NumbersAsTyped
    <2>7. Progress' /\ Captured'
      BY <1>1, <1>2, <1>3, <2>3 DEF ToolInv, Progress, Captured
    <2>8. CliClosesChannels' /\ FileFollowsCapture'
      BY <1>1, <1>2, <2>3
         DEF ToolInv, Progress, CliClosesChannels, FileFollowsCapture
    <2> QED BY <2>5, <2>6, <2>7, <2>8 DEF ToolInv
  <1>5. CASE OutputOption \/ BadOption \/ HelpOption
    <2>1. NumbersAsTyped'
      BY <1>2, <1>5, SameNumbers
         DEF ToolInv, OutputOption, BadOption, HelpOption
    <2>2. ToolTypes'
      BY <1>2, <1>5
         DEF ToolInv, ToolTypes, OutputOption, BadOption, HelpOption, Return
    <2>3. Progress' /\ Captured'
      BY <1>1, <1>2, <1>3, <1>5
         DEF ToolInv, Progress, Captured, OutputOption, BadOption, HelpOption,
             Return
    <2>4. CliClosesChannels' /\ FileFollowsCapture'
      BY <1>1, <1>2, <1>5
         DEF ToolInv, Progress, CliClosesChannels, FileFollowsCapture,
             OutputOption, BadOption, HelpOption, Return
    <2> QED BY <2>1, <2>2, <2>3, <2>4 DEF ToolInv
  <1> QED BY <1>4, <1>5 DEF ReadOption

\* The steps after the command line, but for the acknowledged setting.
LEMMA LaterKept ==
    ASSUME ToolInv,
           \/ Connect \/ SetFails \/ CaptureSucceeds \/ CaptureFails
           \/ Write \/ WriteFails \/ Close
    PROVE  ToolInv'
  <1> USE DEF Connect, SetFails, CaptureSucceeds, CaptureFails, Write,
              WriteFails, Close, Return
  <1>1. UNCHANGED <<tool, long, typed, value, step, output>>
    OBVIOUS
  <1>2. /\ Sets' = Sets /\ NumbersAsTyped'
        /\ \A i : SentBefore(i)' = SentBefore(i)
    BY <1>1, SameSent, SameNumbers DEF ToolInv
  <1>3. Len(Sets) \in {3, 4}
    BY SetsAre DEF ToolInv, ToolTypes
  <1>4. ToolTypes'
    BY <1>1, <1>2 DEF ToolInv, ToolTypes
  <1>5. step > Len(Sets) => step = Len(Sets) + 1
    BY <1>3 DEF ToolInv, ToolTypes
  <1>6. SentBefore(Len(Sets) + 1) # {}
    <2>1. 1 \in 1..(Len(Sets) + 1) - 1
      BY <1>3
    <2> QED BY <2>1 DEF SentBefore
  <1>7. Progress' /\ Captured'
    BY <1>1, <1>2, <1>5 DEF ToolInv, ToolTypes, Progress, Captured
  <1>8. CliClosesChannels'
    BY <1>1 DEF ToolInv, ToolTypes, Progress, CliClosesChannels
  <1>9. FileFollowsCapture'
    BY <1>1, <1>5, <1>6 DEF ToolInv, ToolTypes, Progress, FileFollowsCapture
  <1> QED BY <1>2, <1>4, <1>7, <1>8, <1>9 DEF ToolInv

LEMMA SetSucceedsKept ==
    ASSUME ToolInv, SetSucceeds
    PROVE  ToolInv'
  <1>1. /\ UNCHANGED <<tool, long, at, typed, value, output, up, exit,
                       captured, file, helped>>
        /\ at = "set" /\ step <= Len(Sets) /\ step' = step + 1
        /\ board' = board \cup {<<Sets[step], value[Sets[step]]>>}
    BY DEF SetSucceeds
  <1>2. /\ Sets' = Sets /\ NumbersAsTyped'
        /\ \A i : SentBefore(i)' = SentBefore(i)
    BY <1>1, SameSent, SameNumbers DEF ToolInv
  <1>3. Len(Sets) \in {3, 4}
    BY SetsAre DEF ToolInv, ToolTypes
  <1>4. ToolTypes'
    BY <1>1, <1>2, <1>3 DEF ToolInv, ToolTypes
  <1>5. board' = SentBefore(step + 1)
    <2>1. step \in Nat /\ board = SentBefore(step)
      BY <1>1, <1>3 DEF ToolInv, ToolTypes, Progress
    <2>2. 1..(step + 1) - 1 = 1..(step - 1) \cup {step}
      BY <2>1, <1>3 DEF ToolInv, ToolTypes
    <2> QED BY <1>1, <2>1, <2>2 DEF SentBefore
  <1>6. Progress' /\ Captured' /\ CliClosesChannels' /\ FileFollowsCapture'
    BY <1>1, <1>2, <1>5
       DEF ToolInv, Progress, Captured, CliClosesChannels, FileFollowsCapture
  <1> QED BY <1>2, <1>4, <1>6 DEF ToolInv

\* It holds in the initial states.
LEMMA ToolInitInv ==
    ASSUME ToolInit
    PROVE  ToolInv
  <1>1. Len(Sets) \in {3, 4}
    BY SetsAre, ToolAssumption DEF ToolInit
  <1>2. ToolTypes
    <2>1. /\ typed \in [Small \cup Wide -> Texts \cup {Untyped}]
          /\ value \in [Small \cup Wide -> Nat]
      BY DEF ToolInit
    <2>2. step \in 1..Len(Sets) + 1
      BY <1>1 DEF ToolInit
    <2> QED BY <2>1, <2>2, ToolAssumption DEF ToolInit, ToolTypes
  <1>3. SentBefore(1) = {}
    BY DEF SentBefore
  <1>4. NumbersAsTyped
    BY DEF ToolInit, NumbersAsTyped, Options, Untyped, Small
  <1>5. Progress /\ Captured /\ CliClosesChannels /\ FileFollowsCapture
    BY <1>3 DEF ToolInit, Progress, Captured, CliClosesChannels,
                FileFollowsCapture
  <1> QED BY <1>2, <1>4, <1>5 DEF ToolInv

\* It is inductive.
LEMMA ToolStep ==
    ASSUME ToolInv, [ToolNext]_toolVars
    PROVE  ToolInv'
  <1>1. CASE UNCHANGED toolVars
    <2>1. /\ Sets' = Sets /\ NumbersAsTyped'
          /\ \A i : SentBefore(i)' = SentBefore(i)
      BY <1>1, SameSent, SameNumbers DEF ToolInv, toolVars
    <2> QED BY <1>1, <2>1
            DEF ToolInv, ToolTypes, Progress, Captured, CliClosesChannels,
                FileFollowsCapture, toolVars
  <1> QED BY <1>1, UsageKept, ReadOptionKept, SetSucceedsKept, LaterKept
          DEF ToolNext

-----------------------------------------------------------------------------
(* The theorems *)

THEOREM ToolInvariant == ToolSpec => []ToolInv
  BY ToolInitInv, ToolStep, PTL DEF ToolSpec

\* A number a tool has accepted is the one typed, for any limits of the types
\* and either width of unsigned long.
THEOREM AcceptedAsTyped == ToolSpec => []NumbersAsTyped
  <1>1. ToolInv => NumbersAsTyped
    BY DEF ToolInv
  <1> QED BY <1>1, ToolInvariant, PTL

\* However a tool ends: dfone_cli has left no channel open, a capture was taken
\* with every setting as asked, success without a capture is only that of the
\* usage text, a file asked for has then been begun, and failure never leaves
\* the whole of it.
THEOREM ToolsEndAsReported == ToolSpec => []EndsAsReported
  <1>1. ToolInv => EndsAsReported
    <2> SUFFICES ASSUME ToolInv
                 PROVE  EndsAsReported
      OBVIOUS
    <2>1. Len(Sets) \in {3, 4} /\ DOMAIN Sets = 1..Len(Sets)
      BY SetsAre DEF ToolInv, ToolTypes
    <2>2. 1..(Len(Sets) + 1) - 1 = DOMAIN Sets
      BY <2>1
    <2>3. CapturedAsAsked
      BY <2>2 DEF ToolInv, Captured, SentBefore, CapturedAsAsked
    <2> QED BY <2>3 DEF ToolInv, EndsAsReported
  <1> QED BY <1>1, ToolInvariant, PTL
=============================================================================

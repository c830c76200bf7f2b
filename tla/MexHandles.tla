----------------------------- MODULE MexHandles -----------------------------
(***************************************************************************)
(* The MATLAB binding: the table of sessions the MEX file keeps            *)
(* (dfone_mex.cpp), the dfone.DfOne objects that hold handles into it      *)
(* (DfOne.m), and a script that calls the MEX file directly with handles   *)
(* it has opened itself or read from an object's Handle property.          *)
(*                                                                         *)
(* MATLAB runs one statement at a time and a command does not return       *)
(* before it is done, so each call is one step. What makes it hard is the  *)
(* number of copies of a handle: nothing tells their holders that the      *)
(* session is gone, or that the MEX file has been cleared and its counter  *)
(* has started again. A session's own calls are DfOneSession's: here they  *)
(* succeed or close one of the two channels.                               *)
(***************************************************************************)
EXTENDS Naturals, FiniteSets

CONSTANTS
    Objects,   \* the DfOne objects of the program
    MaxOpens,  \* bound: sessions opened
    MaxFaults, \* bound: allocations that fail in command_open
    MaxLoads   \* bound: times the MEX file is loaded

ASSUME MexAssumption ==
    /\ MaxOpens \in Nat
    /\ MaxFaults \in Nat
    /\ MaxLoads \in Nat \ {0}

VARIABLES
    \* the MEX file
    table,    \* sessions(): handle -> session
    next,     \* next_handle()
    locks,    \* MATLAB's count of mexLock calls
    load,     \* which loading of the file this is
    \* the objects
    handle,   \* the Handle property of each, 0 when closed
    deleted,  \* the objects deleted
    \* history, for the properties only
    opens,    \* sessions opened so far; they are numbered
    faults,
    copies,   \* the handles the script has a copy of
    mine,     \* the session each object opened last
    meddled,  \* the script has closed a session by a handle an object held
    stuck,    \* locks taken for sessions that never got into the table
    unnamed,  \* sessions in the table whose handle was never returned
    orphans   \* connections whose session was destroyed without disconnect()

mexVars == <<table, next, locks, load>>
objVars == <<handle, deleted>>
histVars == <<opens, faults, copies, mine, meddled, stuck, unnamed, orphans>>
vars == <<mexVars, objVars, histVars>>

Channels == {"control", "data"}
Handles == 1..MaxOpens
Sessions == 1..MaxOpens
Slot == [id : Sessions, up : SUBSET Channels]
Copy == [handle : Handles, load : 1..MaxLoads, id : Sessions]

NoSessions == [h \in {} |-> 0]
Open == DOMAIN table
Connected(h) == h \in Open /\ table[h].up = Channels
Connections == {hc \in Open \X Channels : hc[2] \in table[hc[1]].up}
Named(h) == [handle |-> h, load |-> load, id |-> table[h].id]

-----------------------------------------------------------------------------
(* The MEX file's commands *)

\* What is left of the table and of the locks when command_close has been
\* given h: disconnect(), erase, mexUnlock, or nothing for an unknown handle.
Without(t, h) == [k \in DOMAIN t \ {h} |-> t[k]]
Unlocked(t, l, h) == IF h \in DOMAIN t THEN l - 1 ELSE l

\* A session opened over table t with l locks. Nothing has happened when
\* connect fails. Then mexLock, next_handle()++ and emplace: a failed emplace
\* leaves the lock, and destroys the session without disconnect(); if it is the
\* result that cannot be allocated, the session is in the table for nobody.
Refused(t, l) ==
    /\ table' = t /\ locks' = l
    /\ UNCHANGED <<next, opens, faults, stuck, unnamed, orphans>>

Numbered == opens < MaxOpens /\ opens' = opens + 1 /\ next' = next + 1

NewSlot == [id |-> opens + 1, up |-> Channels]

\* t with a new session at handle h.
Emplaced(t, h) ==
    [k \in DOMAIN t \cup {h} |-> IF k = h THEN NewSlot ELSE t[k]]

\* Faulty variant of Opened: the handle is the number of sessions plus one.
Opened_CountsSlots(t, l) ==
    /\ opens < MaxOpens /\ opens' = opens + 1
    /\ next' = Cardinality(DOMAIN t) + 2
    /\ table' = Emplaced(t, Cardinality(DOMAIN t) + 1)
    /\ locks' = l + 1
    /\ UNCHANGED <<faults, stuck, unnamed, orphans>>

Opened(t, l) ==
    /\ Numbered
    /\ table' = Emplaced(t, next) /\ locks' = l + 1
    /\ UNCHANGED <<faults, stuck, unnamed, orphans>>

Fault == faults < MaxFaults /\ faults' = faults + 1

NoSlot(t, l) ==
    /\ Numbered /\ Fault
    /\ table' = t /\ locks' = l + 1
    /\ stuck' = stuck + 1
    /\ orphans' = orphans + Cardinality(Channels)
    /\ UNCHANGED unnamed

NoResult(t, l) ==
    /\ Numbered /\ Fault
    /\ table' = Emplaced(t, next) /\ locks' = l + 1
    /\ unnamed' = unnamed \cup {opens + 1}
    /\ UNCHANGED <<stuck, orphans>>

\* get_session: a handle that is not in the table is an error. A call that
\* fails in the session may have closed the channel it failed on; the slot
\* stays.
SessionCall(h) ==
    /\ h \in Open
    /\ \E c \in Channels : table' = [table EXCEPT ![h].up = @ \ {c}]
    /\ UNCHANGED <<next, locks, load, objVars, histVars>>

-----------------------------------------------------------------------------
(* An object *)

Live(o) == o \notin deleted

\* Faulty variant of ObjectOpen: an object that is open opens again at once.
ObjectOpen_KeepsOld(o) ==
    /\ Live(o)
    /\ Opened(table, locks)
    /\ handle' = [handle EXCEPT ![o] = next]
    /\ mine' = [mine EXCEPT ![o] = opens + 1]
    /\ UNCHANGED <<load, deleted, copies, meddled>>

\* open(): close(), then 'open'. Handle is assigned only when that returns.
ObjectOpen(o) ==
    LET t == Without(table, handle[o])
        l == Unlocked(table, locks, handle[o])
    IN /\ Live(o)
       /\ \/ /\ Opened(t, l)
             /\ handle' = [handle EXCEPT ![o] = next]
             /\ mine' = [mine EXCEPT ![o] = opens + 1]
          \/ /\ Refused(t, l) \/ NoSlot(t, l) \/ NoResult(t, l)
             /\ handle' = [handle EXCEPT ![o] = 0]
             /\ UNCHANGED mine
       /\ UNCHANGED <<load, deleted, copies, meddled>>

CloseHandle(o) ==
    /\ table' = Without(table, handle[o])
    /\ locks' = Unlocked(table, locks, handle[o])
    /\ handle' = [handle EXCEPT ![o] = 0]
    /\ UNCHANGED <<next, load, histVars>>

ObjectClose(o) ==
    /\ Live(o)
    /\ CloseHandle(o)
    /\ UNCHANGED deleted

\* delete(), by the program or because the last reference goes.
ObjectDelete(o) ==
    /\ Live(o)
    /\ CloseHandle(o)
    /\ deleted' = deleted \cup {o}

\* requireOpen() and then one of the commands.
ObjectCall(o) ==
    /\ Live(o)
    /\ Connected(handle[o])
    /\ SessionCall(handle[o])

-----------------------------------------------------------------------------
(* The script *)

\* x = obj.Handle
ReadHandle(o) ==
    /\ Live(o)
    /\ handle[o] \in Open
    /\ copies' = copies \cup {Named(handle[o])}
    /\ UNCHANGED <<mexVars, objVars>>
    /\ UNCHANGED <<opens, faults, mine, meddled, stuck, unnamed, orphans>>

ScriptOpen ==
    /\ \/ /\ Opened(table, locks)
          /\ copies' = copies \cup
                       {[handle |-> next, load |-> load, id |-> opens + 1]}
       \/ /\ NoSlot(table, locks) \/ NoResult(table, locks)
          /\ UNCHANGED copies
    /\ UNCHANGED <<load, objVars, mine, meddled>>

\* Faulty variant of ScriptClose: command_close unlocks for any handle.
ScriptClose_AlwaysUnlocks(c) ==
    /\ locks > 0
    /\ table' = Without(table, c.handle)
    /\ locks' = locks - 1
    /\ meddled' = (meddled \/ \E o \in Objects : handle[o] = c.handle)
    /\ UNCHANGED <<next, load, objVars>>
    /\ UNCHANGED <<opens, faults, copies, mine, stuck, unnamed, orphans>>

\* With any copy, however old.
ScriptClose(c) ==
    /\ table' = Without(table, c.handle)
    /\ locks' = Unlocked(table, locks, c.handle)
    /\ meddled' = (meddled \/ \E o \in Objects : handle[o] = c.handle)
    /\ UNCHANGED <<next, load, objVars>>
    /\ UNCHANGED <<opens, faults, copies, mine, stuck, unnamed, orphans>>

ScriptCall(c) == Connected(c.handle) /\ SessionCall(c.handle)

-----------------------------------------------------------------------------
(* MATLAB *)

\* Faulty variant of ClearMex: the lock is not looked at.
ClearMex_Unlocked ==
    /\ load < MaxLoads
    /\ load' = load + 1
    /\ table' = NoSessions /\ next' = 1
    /\ orphans' = orphans + Cardinality(Connections)
    /\ locks' = 0
    /\ UNCHANGED objVars
    /\ UNCHANGED <<opens, faults, copies, mine, meddled, stuck, unnamed>>

\* clear mex: a file that is locked stays. Otherwise cleanup() destroys the
\* sessions, without disconnect(), and the next command loads the file again
\* with its counter at the beginning.
ClearMex ==
    /\ locks = 0
    /\ load < MaxLoads
    /\ load' = load + 1
    /\ table' = NoSessions /\ next' = 1
    /\ orphans' = orphans + Cardinality(Connections)
    /\ UNCHANGED <<locks, objVars>>
    /\ UNCHANGED <<opens, faults, copies, mine, meddled, stuck, unnamed>>

Init ==
    /\ table = NoSessions /\ next = 1 /\ locks = 0 /\ load = 1
    /\ handle = [o \in Objects |-> 0] /\ deleted = {}
    /\ opens = 0 /\ faults = 0 /\ copies = {}
    /\ mine = [o \in Objects |-> 0]
    /\ meddled = FALSE /\ stuck = 0 /\ unnamed = {} /\ orphans = 0

ObjectStep(o) ==
    ObjectOpen(o) \/ ObjectClose(o) \/ ObjectDelete(o) \/ ObjectCall(o)
        \/ ReadHandle(o)
ScriptStep == ScriptOpen \/ \E c \in copies : ScriptClose(c) \/ ScriptCall(c)

Next == (\E o \in Objects : ObjectStep(o)) \/ ScriptStep \/ ClearMex

Spec == Init /\ [][Next]_vars

-----------------------------------------------------------------------------
(* Properties *)

\* Every variable keeps its type; handles in the table are behind the counter.
TypeOK ==
    /\ Open \subseteq 1..(next - 1)
    /\ table \in [Open -> Slot]
    /\ next \in 1..(opens + 1) /\ locks \in Nat /\ load \in 1..MaxLoads
    /\ handle \in [Objects -> Handles \cup {0}] /\ deleted \subseteq Objects
    /\ opens \in 0..MaxOpens /\ faults \in 0..MaxFaults
    /\ copies \subseteq Copy
    /\ mine \in [Objects -> Sessions \cup {0}]
    /\ meddled \in BOOLEAN /\ stuck \in 0..faults
    /\ unnamed \subseteq Sessions /\ orphans \in Nat

\* There is one lock for each session in the table, whatever was closed twice,
\* reopened or refused; the only others are those of failed insertions.
LocksAreSessions == locks = Cardinality(Open) + stuck

\* The lock does its work: MATLAB can clear or rebuild the MEX file exactly
\* when no session is open, so no connection is lost because the file went
\* away under its session; only a failed insertion loses one.
NoConnectionLost ==
    LocksAreSessions /\ orphans = stuck * Cardinality(Channels)

\* A handle is never used again while the file stays loaded: a stale copy is
\* refused and never reaches the session of somebody else.
StaleHandlesRefused ==
    \A c \in copies :
        c.load = load /\ c.handle \in Open => table[c.handle].id = c.id

\* What an object calls its handle is the session it opened itself, across
\* any number of clears, unless a script has closed a handle of an object.
\* (Then the counter may start again while the object keeps its number.)
ObjectsKeepTheirs ==
    ~meddled => \A o \in Objects :
        handle[o] # 0 => /\ handle[o] \in Open
                         /\ table[handle[o]].id = mine[o]

\* Every open session can still be closed: an object or the script has its
\* handle, except for one whose handle could not be returned.
SessionsReachable ==
    \A h \in Open :
        \/ \E o \in Objects : handle[o] = h /\ Live(o)
        \/ \E c \in copies : c.handle = h /\ c.load = load
        \/ table[h].id \in unnamed
=============================================================================

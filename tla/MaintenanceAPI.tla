--------------------------- MODULE MaintenanceAPI ---------------------------
(***************************************************************************)
(* What a DfOneMaintenance promises its caller, connections, packages and  *)
(* events left out: a call hands the board at most one piece of work. The  *)
(* board takes one piece at a time and carries it out once or not at all,  *)
(* maybe after a call that gave up waiting for it. A success says that the *)
(* work of this call has been carried out; a failure says nothing.         *)
(* Maintenance implements this (ImplementsMaintenanceAPI there), and there *)
(* it is that every call returns (EveryMaintenanceCallReturns).            *)
(***************************************************************************)
EXTENDS Naturals

CONSTANTS
    Calls,      \* the calls the user may make
    Default,    \* the board's first configuration
    Clean(_),   \* the text form can carry the configuration,
    Usable(_),  \* it can be read,
    Normal(_)   \* and what is read of it

VARIABLES
    busy,     \* a call is running
    request,  \* it, or the last one
    n,        \* its number
    outcome,  \* what the last call returned
    reading,  \* what get_network_config has read last
    work,     \* the last piece of work the board has taken, and its number
    open,     \* the board may still carry it out
    board,    \* the board's configuration
    flashed   \* the calls whose package it has flashed

apiVars == <<busy, request, n, outcome, reading, work, open, board, flashed>>

Init ==
    /\ ~busy /\ request = [op |-> "status"] /\ n = 0
    /\ outcome = FALSE /\ reading = Default
    /\ work = [call |-> request, n |-> 0] /\ ~open
    /\ board = Default /\ flashed = {}

Begin(c) ==
    /\ ~busy
    /\ busy' = TRUE
    /\ request' = c
    /\ n' = n + 1
    /\ UNCHANGED <<outcome, reading, work, open, board, flashed>>

\* Once in a call, and never while older work may still be carried out.
Take ==
    /\ busy
    /\ work.n # n /\ ~open
    /\ work' = [call |-> request, n |-> n]
    /\ open' = TRUE
    /\ UNCHANGED <<busy, request, n, outcome, reading, board, flashed>>

\* The work is carried out, or dropped.
Settle ==
    /\ open
    /\ open' = FALSE
    /\ \/ UNCHANGED <<board, flashed>>
       \/ /\ work.call.op = "setnet"
          /\ board' = work.call.config
          /\ UNCHANGED flashed
       \/ /\ work.call.op = "update"
          /\ flashed' = flashed \cup {work.n}
          /\ UNCHANGED board
    /\ UNCHANGED <<busy, request, n, outcome, reading, work>>

CarriedOut ==
    /\ work.n = n /\ ~open
    /\ request.op = "setnet" => board = request.config
    /\ request.op = "update" => n \in flashed

Succeed ==
    /\ busy
    /\ busy' = FALSE
    /\ outcome' = TRUE
    /\ CarriedOut
    /\ IF request.op = "getnet"
       THEN Clean(board) => Usable(board) /\ reading' = Normal(board)
       ELSE UNCHANGED reading
    /\ UNCHANGED <<request, n, work, open, board, flashed>>

Fail ==
    /\ busy
    /\ busy' = FALSE
    /\ outcome' = FALSE
    /\ UNCHANGED <<request, n, reading, work, open, board, flashed>>

Next ==
    \/ \E c \in Calls : Begin(c)
    \/ Take \/ Settle
    \/ Succeed \/ Fail

Spec == Init /\ [][Next]_apiVars

=============================================================================

----------------------------- MODULE SessionAPI -----------------------------
(***************************************************************************)
(* What a DfOneSession promises its caller, channels and board left out: a *)
(* call is made, and returns. The session is connected or not and holds a  *)
(* configuration; only a call that succeeds changes the configuration,     *)
(* only connect() connects, and a call that fails may cost the connection. *)
(* DfOneSession implements this (ImplementsAPI there).                     *)
(***************************************************************************)
EXTENDS Naturals

CONSTANTS
    Requests,  \* the calls the application may make
    Defaults   \* the configuration of a new session or connection

VARIABLES
    busy,       \* a call is running
    request,    \* it, or the last one
    outcome,    \* what the last call returned
    connected,  \* connected()
    settings,   \* config()
    mode        \* config().work_mode

apiVars == <<busy, request, outcome, connected, settings, mode>>

\* The configuration once a call has succeeded.
Applied(c) ==
    CASE c.op = "configure" -> c.cfg
      [] c.op = "set" -> [settings EXCEPT ![c.field] = c.val]
      [] c.op \in {"connect", "destroy"} -> Defaults
      [] OTHER -> settings

AppliedMode(c) ==
    CASE c.op \in {"configure", "mode"} -> c.mode
      [] c.op \in {"connect", "destroy"} -> "synchronized"
      [] OTHER -> mode

Offline == {"connect", "disconnect", "destroy", "mode"}

Init ==
    /\ ~busy
    /\ outcome = "ok"
    /\ request = [op |-> "disconnect"]
    /\ ~connected
    /\ settings = Defaults
    /\ mode = "synchronized"

\* A call that talks to the board. connect() first drops the old connection.
Begin(c) ==
    /\ ~busy
    /\ busy' = TRUE
    /\ c.op = "connect" \/ (c.op \notin Offline /\ connected)
    /\ request' = c
    /\ connected' = (connected /\ c.op # "connect")
    /\ UNCHANGED <<outcome, settings, mode>>

\* A call that is answered by the session itself: refused because there is
\* no connection or the independent mode was asked for, or one that only
\* changes the session.
Local(c) ==
    /\ ~busy
    /\ UNCHANGED busy
    /\ request' = c
    /\ \/ /\ c.op \in {"disconnect", "destroy", "mode"}
          /\ c.op = "mode" => c.mode # "independent"
          /\ outcome' = "ok"
          /\ connected' = (connected /\ c.op = "mode")
          /\ settings' = Applied(c)
          /\ mode' = AppliedMode(c)
       \/ /\ \/ c.op \notin Offline /\ ~connected
             \/ c.op \in {"mode", "configure"} /\ c.mode = "independent"
          /\ outcome' = "failed"
          /\ UNCHANGED <<connected, settings, mode>>

Succeed ==
    /\ busy
    /\ busy' = FALSE
    /\ outcome' = "ok"
    /\ connected \/ request.op = "connect"
    /\ connected' = TRUE
    /\ settings' = Applied(request)
    /\ mode' = AppliedMode(request)
    /\ UNCHANGED request

Fail ==
    /\ busy
    /\ busy' = FALSE
    /\ outcome' = "failed"
    /\ connected' \in {connected, FALSE}
    /\ UNCHANGED <<request, settings, mode>>

Next ==
    \/ \E c \in Requests : Begin(c) \/ Local(c)
    \/ Succeed
    \/ Fail

\* A call returns.
Return == Succeed \/ Fail

SafetySpec == Init /\ [][Next]_apiVars
Spec == SafetySpec /\ WF_apiVars(Return)

=============================================================================

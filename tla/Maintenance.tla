----------------------------- MODULE Maintenance -----------------------------
(***************************************************************************)
(* DfOneMaintenance (maintenance.cpp): requests to the board's maintenance *)
(* service, each over a connection of its own, and firmware updates, with  *)
(* the service at the other end. The service is not in the repository: it  *)
(* serves one connection at a time, runs the update script only on a whole *)
(* package, and the script prints "DFONE firmware update complete" exactly *)
(* when it has succeeded. It may refuse, stall, lose power, or reboot when *)
(* the script is over.                                                     *)
(***************************************************************************)
EXTENDS NetworkConfig

CONSTANTS
    Calls,      \* the calls the user makes, a subset of AllCalls
    Percents,   \* the percentages the board reports
    MaxCalls,   \* bound: calls
    MaxEvents,  \* bound: PROGRESS and LOG events of a script
    MaxResets   \* bound: power losses

Requests == {"id", "status", "getnet", "setnet"}
NoCall == [op |-> "status"]

ASSUME MaintenanceAssumption ==
    /\ \A c \in Calls :
           \/ c.op \in Requests \ {"setnet"}
           \/ c.op = "setnet" /\ c.config \in Configs
           \/ c.op = "update" /\ c.chunks \in Nat \ {0} /\ c.reboot \in BOOLEAN
    /\ Percents \subseteq Int
    /\ MaxCalls \in Nat /\ MaxEvents \in Nat /\ MaxResets \in Nat

VARIABLES
    \* the host
    pc, call,
    left,      \* chunks of the package still to send
    complete,  \* script_reported_complete
    fraction,  \* last_fraction, in percent
    ret,       \* what the call returned
    config,    \* the configuration get_network_config has read
    \* the connection
    link,      \* "none", "up", or "closed" by the board
    up,        \* chunks on their way
    down,      \* events on their way
    \* the board
    svc,       \* what the service does
    serving,   \* the call it does it for, and its number
    got,       \* chunks it has received
    stored,    \* the text of its network configuration
    \* bounds and history
    n, events, resets,
    shown,     \* the progress last reported to the callback
    flashed,   \* the updates whose script has succeeded
    storedOf,  \* the configuration stored was made from
    trouble,   \* what has happened to the connection of the call
    answered   \* the host has read an OK

hostVars == <<pc, call, left, complete, fraction, ret, config, shown, answered>>
linkVars == <<link, up, down>>
boardVars == <<svc, serving, got, stored, events, flashed, storedOf>>
vars == <<hostVars, linkVars, boardVars, n, resets, trouble>>

-----------------------------------------------------------------------------
(* The host *)

Return(r) == pc' = "idle" /\ ret' = r
\* SocketGuard's destructor, on every way out.
CloseSocket == link' = "none" /\ up' = 0 /\ down' = <<>>
KeepCall == UNCHANGED <<call, left, complete, fraction, config, shown, answered>>

Call ==
    /\ pc = "idle"
    /\ n < MaxCalls
    /\ n' = n + 1
    /\ \E c \in Calls : call' = c
    /\ pc' = "connect"
    /\ complete' = FALSE /\ fraction' = 0 /\ shown' = 0
    /\ left' = IF call'.op = "update" THEN call'.chunks ELSE 0
    /\ answered' = FALSE /\ trouble' = {}
    /\ UNCHANGED <<ret, config, linkVars, boardVars, resets>>

\* The package or the service cannot be reached.
ConnectFails ==
    /\ pc = "connect"
    /\ Return(FALSE)
    /\ KeepCall
    /\ UNCHANGED <<linkVars, boardVars, n, resets, trouble>>

Connect ==
    /\ pc = "connect"
    /\ svc = "idle"
    /\ link' = "up"
    /\ pc' = "send"
    /\ KeepCall
    /\ UNCHANGED <<ret, up, down, boardVars, n, resets, trouble>>

SendRequest ==
    /\ pc = "send"
    /\ link = "up"
    /\ svc' = IF call.op = "update" THEN "header" ELSE "request"
    /\ pc' = IF call.op = "update" THEN "upload" ELSE "reply"
    /\ serving' = [call |-> call, n |-> n]
    /\ got' = 0 /\ events' = 0
    /\ KeepCall
    /\ UNCHANGED <<ret, linkVars, stored, flashed, storedOf, n, resets, trouble>>

\* A send or a receive timeout, 30 s.
Stall == link = "up" /\ trouble' = trouble \cup {"timeout"}

SendFails ==
    /\ pc \in {"send", "upload"}
    /\ \/ link = "closed" /\ UNCHANGED trouble
       \/ Stall
    /\ Return(FALSE) /\ CloseSocket
    /\ KeepCall
    /\ UNCHANGED <<boardVars, n, resets>>

\* One pass of send_file_stream's loop.
SendChunk ==
    /\ pc = "upload"
    /\ link = "up"
    /\ left > 0
    /\ left' = left - 1
    /\ up' = up + 1
    /\ shown' = ((call.chunks - left') * 50) \div call.chunks
    /\ fraction' = Max({fraction, shown'})
    /\ pc' = IF left' = 0 THEN "events" ELSE "upload"
    /\ UNCHANGED <<call, complete, ret, config, answered, link, down>>
    /\ UNCHANGED <<boardVars, n, resets, trouble>>

ReadPackageFails ==
    /\ pc = "upload"
    /\ Return(FALSE) /\ CloseSocket
    /\ KeepCall
    /\ UNCHANGED <<boardVars, n, resets, trouble>>

\* Faulty variant of ReportProgress: not clamped.
ReportProgress_Unclamped(percent) ==
    /\ fraction' = Max({fraction, percent})
    /\ shown' = fraction'

\* Faulty variant of ReportProgress: the board's figure as it comes.
ReportProgress_Last(percent) ==
    /\ fraction' = Min({100, Max({0, percent})})
    /\ shown' = fraction'

\* report_progress: clamped, and never back.
ReportProgress(percent) ==
    /\ fraction' = Max({fraction, Min({100, Max({0, percent})})})
    /\ shown' = fraction'

\* Faulty variant of Accepted: a FAIL is a reply like any other.
Accepted_Failures(e) == e.kind \in {"OK", "FAIL"}

\* receive_sized_payload succeeds.
Accepted(e) == e.kind = "OK"

\* Each request's reply, and what it does with the payload.
ReadReply ==
    /\ pc = "reply"
    /\ down # <<>> /\ ~Head(down).torn
    /\ answered' = Accepted(Head(down))
    /\ IF ~Accepted(Head(down))
       THEN Return(FALSE) /\ UNCHANGED config
       ELSE CASE call.op = "getnet" ->
                     LET text == Head(down).text
                     IN  \/ /\ text = <<>>
                            /\ config' = Default /\ Return(TRUE)
                         \/ /\ text # <<>> /\ Parses(text)
                            /\ config' = Parsed(text) /\ Return(TRUE)
                         \/ /\ text # <<>> /\ ~Parses(text)
                            /\ Return(FALSE) /\ UNCHANGED config
              [] call.op = "id" ->
                     UNCHANGED config /\ \E r \in BOOLEAN : Return(r)
              [] OTHER -> UNCHANGED config /\ Return(TRUE)
    /\ CloseSocket
    /\ UNCHANGED <<call, left, complete, fraction, shown>>
    /\ UNCHANGED <<boardVars, n, resets, trouble>>

\* Nothing more comes: the board has closed, or is silent for too long.
NoMore ==
    /\ down # <<>> => Head(down).torn
    /\ \/ link = "closed" /\ UNCHANGED trouble
       \/ Stall

ReplyFails ==
    /\ pc = "reply"
    /\ NoMore
    /\ Return(FALSE) /\ CloseSocket
    /\ KeepCall
    /\ UNCHANGED <<boardVars, n, resets>>

ReadProgress ==
    /\ pc = "events"
    /\ down # <<>> /\ ~Head(down).torn
    /\ Head(down).kind = "PROGRESS"
    /\ ReportProgress(Head(down).percent)
    /\ down' = Tail(down)
    /\ UNCHANGED <<pc, call, left, complete, ret, config, answered, link, up>>
    /\ UNCHANGED <<boardVars, n, resets, trouble>>

\* Each text is searched on its own.
SeesComplete(text) == text = <<"complete">>

\* LOG, DONE and FAIL carry a text, which may be empty.
ReadText ==
    /\ pc = "events"
    /\ down # <<>> /\ ~Head(down).torn
    /\ LET e == Head(down)
       IN  /\ e.kind \in {"LOG", "DONE", "FAIL"}
           /\ complete' = (complete \/ SeesComplete(e.text))
           /\ IF e.kind = "DONE" THEN ReportProgress(100)
              ELSE fraction' = fraction
                   /\ shown' = IF e.text = <<>> THEN shown ELSE fraction
           /\ IF e.kind = "LOG"
              THEN /\ pc' = pc /\ down' = Tail(down)
                   /\ UNCHANGED <<ret, link, up>>
              ELSE Return(e.kind = "DONE") /\ CloseSocket
    /\ UNCHANGED <<call, left, config, answered, boardVars, n, resets, trouble>>

ReadError ==
    /\ pc = "events"
    /\ down # <<>> /\ ~Head(down).torn
    /\ Head(down).kind = "ERR"
    /\ Return(FALSE) /\ CloseSocket
    /\ KeepCall
    /\ UNCHANGED <<boardVars, n, resets, trouble>>

\* Faulty variant of ConnectionEnds: the end of the connection is a failure.
ConnectionEnds_Fails ==
    /\ pc = "events"
    /\ NoMore
    /\ Return(FALSE) /\ CloseSocket
    /\ KeepCall
    /\ UNCHANGED <<boardVars, n, resets>>

\* Faulty variant of ConnectionEnds: 100 % is taken for the end of the script.
ConnectionEnds_Trusts100 ==
    /\ pc = "events"
    /\ NoMore
    /\ Return(complete \/ fraction = 100) /\ CloseSocket
    /\ IF complete THEN ReportProgress(100) ELSE UNCHANGED <<fraction, shown>>
    /\ UNCHANGED <<call, left, complete, config, answered>>
    /\ UNCHANGED <<boardVars, n, resets>>

\* Faulty variant of ConnectionEnds: the host waits for more.
ConnectionEnds_Waits ==
    /\ pc = "events"
    /\ NoMore
    /\ UNCHANGED <<hostVars, linkVars, boardVars, n, resets>>

\* recv_line fails: a success once the script has announced one.
ConnectionEnds ==
    /\ pc = "events"
    /\ NoMore
    /\ Return(complete) /\ CloseSocket
    /\ IF complete THEN ReportProgress(100) ELSE UNCHANGED <<fraction, shown>>
    /\ UNCHANGED <<call, left, complete, config, answered>>
    /\ UNCHANGED <<boardVars, n, resets>>

\* recv_all fails in the middle of a text: a failure in any case.
TextCut ==
    /\ pc = "events"
    /\ down # <<>> /\ Head(down).text # <<>>
    /\ \/ Head(down).torn /\ UNCHANGED trouble
       \/ Stall
    /\ Return(FALSE) /\ CloseSocket
    /\ KeepCall
    /\ UNCHANGED <<boardVars, n, resets>>

-----------------------------------------------------------------------------
(* The board (external) *)

Running == {"script", "flashed", "half", "said", "saidInTwo"}

\* What the board sends to a host that has gone is lost.
Emit(e) == down' = IF link = "up" THEN Append(down, e) ELSE down
Event(kind, text, percent) ==
    [kind |-> kind, text |-> text, percent |-> percent, torn |-> FALSE]
\* The service closes the connection after its last event.
Closing == link' = IF link = "up" THEN "closed" ELSE link

Answer ==
    /\ svc = "request"
    /\ svc' = "idle"
    /\ \/ /\ stored' = IF serving.call.op = "setnet"
                       THEN Serialize(serving.call.config) ELSE stored
          /\ storedOf' = IF serving.call.op = "setnet"
                         THEN serving.call.config ELSE storedOf
          /\ Emit(Event("OK", stored', 0))
       \/ /\ \E kind \in {"FAIL", "ERR"} : Emit(Event(kind, <<>>, 0))
          /\ UNCHANGED <<stored, storedOf>>
    /\ Closing
    /\ UNCHANGED <<hostVars, up, serving, got, events, flashed, n, resets, trouble>>

RefuseUpdate ==
    /\ svc = "header"
    /\ svc' = "idle"
    /\ Emit(Event("ERR", <<>>, 0))
    /\ Closing
    /\ UNCHANGED <<hostVars, up, serving, got, stored, events, flashed, storedOf>>
    /\ UNCHANGED <<n, resets, trouble>>

\* A chunk arrives; the last one starts the script.
Receive ==
    /\ svc = "header"
    /\ up > 0
    /\ up' = up - 1
    /\ got' = got + 1
    /\ svc' = IF got' = serving.call.chunks THEN "script" ELSE svc
    /\ UNCHANGED <<hostVars, link, down, serving, stored, events, flashed, storedOf>>
    /\ UNCHANGED <<n, resets, trouble>>

\* The host has gone before its package was whole, or its request came.
NoPackage ==
    /\ svc = "header"
    /\ link = "none"
    /\ svc' = "idle"
    /\ UNCHANGED <<hostVars, linkVars, serving, got, stored, events, flashed, storedOf>>
    /\ UNCHANGED <<n, resets, trouble>>

Chatter ==
    /\ svc \in Running /\ link = "up"
    /\ events < MaxEvents
    /\ events' = events + 1
    /\ \/ \E p \in Percents : Emit(Event("PROGRESS", <<>>, p))
       \/ svc # "half" /\ Emit(Event("LOG", <<"plain">>, 0))
    /\ UNCHANGED <<hostVars, link, up, svc, serving, got, stored, flashed, storedOf>>
    /\ UNCHANGED <<n, resets, trouble>>

ScriptFails ==
    /\ svc = "script"
    /\ svc' = "idle"
    /\ \E text \in {<<>>, <<"plain">>} : Emit(Event("FAIL", text, 0))
    /\ Closing
    /\ UNCHANGED <<hostVars, up, serving, got, stored, events, flashed, storedOf>>
    /\ UNCHANGED <<n, resets, trouble>>

ScriptSucceeds ==
    /\ svc = "script"
    /\ svc' = "flashed"
    /\ flashed' = flashed \cup {serving.n}
    /\ UNCHANGED <<hostVars, linkVars, serving, got, stored, events, storedOf>>
    /\ UNCHANGED <<n, resets, trouble>>

\* The announcement, whole or in the texts of two events.
Announce ==
    /\ \/ svc = "flashed" /\ svc' = "said" /\ Emit(Event("LOG", <<"complete">>, 0))
       \/ svc = "flashed" /\ svc' = "half" /\ Emit(Event("LOG", <<"head">>, 0))
       \/ svc = "half" /\ svc' = "saidInTwo" /\ Emit(Event("LOG", <<"tail">>, 0))
    /\ UNCHANGED <<hostVars, link, up, serving, got, stored, events, flashed, storedOf>>
    /\ UNCHANGED <<n, resets, trouble>>

Done ==
    /\ svc \in {"said", "saidInTwo"}
    /\ svc' = "idle"
    /\ Emit(Event("DONE", <<>>, 0))
    /\ Closing
    /\ UNCHANGED <<hostVars, up, serving, got, stored, events, flashed, storedOf>>
    /\ UNCHANGED <<n, resets, trouble>>

\* The connection breaks: what is on its way may be lost, from some event on,
\* the middle of its text included.
Break(reasons) ==
    \/ /\ Closing
       /\ UNCHANGED down
       /\ trouble' = trouble \cup reasons
    \/ \E i \in 1..Len(down), torn \in BOOLEAN :
          /\ Closing
          /\ down' = IF torn THEN [SubSeq(down, 1, i) EXCEPT ![i].torn = TRUE]
                             ELSE SubSeq(down, 1, i - 1)
          /\ trouble' = trouble \cup reasons
                      \cup {IF torn /\ i = Len(down) THEN "torn" ELSE "lost"}

\* The update asked for a reboot: the board goes without a DONE.
RebootAfterUpdate ==
    /\ svc \in {"said", "saidInTwo"}
    /\ serving.call.reboot
    /\ svc' = "idle"
    /\ Break({"reboot"} \cup IF svc = "saidInTwo" THEN {"split"} ELSE {})
    /\ UNCHANGED <<hostVars, up, serving, got, stored, events, flashed, storedOf>>
    /\ UNCHANGED <<n, resets>>

PowerLoss ==
    /\ resets < MaxResets
    /\ resets' = resets + 1
    /\ svc' = "idle"
    /\ Break({"reset"})
    /\ UNCHANGED <<hostVars, up, serving, got, stored, events, flashed, storedOf, n>>

-----------------------------------------------------------------------------

Init ==
    /\ pc = "idle" /\ call = NoCall /\ left = 0
    /\ complete = FALSE /\ fraction = 0 /\ ret = FALSE /\ config = Default
    /\ link = "none" /\ up = 0 /\ down = <<>>
    /\ svc = "idle" /\ serving = [call |-> NoCall, n |-> 0] /\ got = 0 /\ stored = <<>>
    /\ n = 0 /\ events = 0 /\ resets = 0 /\ shown = 0
    /\ flashed = {} /\ storedOf = Default
    /\ trouble = {} /\ answered = FALSE

Host ==
    \/ ConnectFails \/ Connect \/ SendRequest \/ SendFails \/ SendChunk
    \/ ReadPackageFails \/ ReadReply \/ ReplyFails \/ ReadProgress
    \/ ReadText \/ ReadError \/ ConnectionEnds \/ TextCut

Board ==
    \/ Answer \/ RefuseUpdate \/ Receive \/ NoPackage \/ Chatter
    \/ ScriptFails \/ ScriptSucceeds \/ Announce \/ Done
    \/ RebootAfterUpdate \/ PowerLoss

Next == Call \/ Host \/ Board

\* The host's thread runs, and its sends and receives time out: nothing is
\* asked of the board.
Spec == Init /\ [][Next]_vars /\ WF_vars(Host)

-----------------------------------------------------------------------------
(* Properties *)

Notices == {"complete", "head", "tail", "plain"}
Kinds == {"OK", "FAIL", "ERR", "PROGRESS", "LOG", "DONE"}
Events == [kind : Kinds, text : Seq(Tokens \cup Notices), percent : Int, torn : BOOLEAN]

\* Every variable keeps its type; progress is a percentage.
TypeOK ==
    /\ pc \in {"idle", "connect", "send", "upload", "reply", "events"}
    /\ call \in Calls \cup {NoCall} /\ left \in Nat
    /\ complete \in BOOLEAN /\ ret \in BOOLEAN /\ answered \in BOOLEAN
    /\ fraction \in 0..100 /\ shown \in 0..100
    /\ config.mode \in Modes /\ storedOf.mode \in Modes
    /\ link \in {"none", "up", "closed"} /\ up \in Nat /\ got \in Nat
    /\ down \in Seq(Events) /\ stored \in Seq(Tokens)
    /\ svc \in {"idle", "request", "header"} \cup Running
    /\ serving \in [call : Calls \cup {NoCall}, n : 0..MaxCalls]
    /\ n \in 0..MaxCalls /\ events \in 0..MaxEvents /\ resets \in 0..MaxResets
    /\ flashed \subseteq 1..MaxCalls
    /\ trouble \subseteq {"timeout", "reset", "reboot", "split", "torn", "lost"}

UpdateEnded == pc = "idle" /\ call.op = "update" /\ n > 0

\* update_firmware returns true only for a package the board's script has
\* flashed, and then the last progress the callback has seen is 100 %.
SuccessIsReal == UpdateEnded /\ ret => n \in flashed /\ shown = 100

\* When nothing of what the board sent was lost, late or cut in two,
\* update_firmware says what happened on the board, though the connection
\* may end, by the reboot, before the script's DONE.
UndisturbedOutcome ==
    UpdateEnded /\ trouble \subseteq {"reboot"} => (ret <=> n \in flashed)

\* What update_firmware returns is what happened on the board.
OutcomeIsTheBoards == SuccessIsReal /\ UndisturbedOutcome

\* Within an update the progress shown never goes back, whatever figures the
\* board reports after the upload's own.
ProgressMonotone == [][shown' < shown => pc = "idle"]_vars

\* get_network_config reads back the configuration the board was last given,
\* even by a call that never heard of it; a static one without an address or
\* netmask, which set_network_config lets pass, cannot be read.
NetworkReadsBack ==
    pc = "idle" /\ call.op = "getnet" /\ answered /\ Clean(storedOf) =>
        IF Usable(storedOf)
        THEN ret /\ config = Normal(storedOf)
        ELSE ~ret

\* Every call returns, whatever the board does.
EveryMaintenanceCallReturns == pc # "idle" ~> pc = "idle"

-----------------------------------------------------------------------------
(* The client implements its interface *)

API == INSTANCE MaintenanceAPI WITH
    busy <- pc # "idle",
    request <- call,
    outcome <- ret,
    reading <- config,
    work <- serving,
    open <- svc \in {"request", "header", "script"},
    board <- storedOf

\* Seen from the caller, the client and the board's service are
\* MaintenanceAPI: true says that the work of this very call was carried out;
\* a request is carried out at most once, though perhaps after the call has
\* given up; what get_network_config reads changes with its success only, and
\* is then the board's configuration of that moment.
ImplementsMaintenanceAPI == API!Spec

-----------------------------------------------------------------------------
(* What the manual says *)

\* What the manual says of reboot_after (API_USAGE.md:341): once the update is
\* complete the board reboots, and losing the connection then is normal. Here:
\* after update_firmware has read the completion, the connection that the
\* reboot ends, in the middle of a text or not, is no failure of the update.
DisconnectIsNormal ==
    /\ UpdateEnded /\ complete /\ "reboot" \in trouble
    /\ trouble \subseteq {"reboot", "torn"}
    => ret

=============================================================================

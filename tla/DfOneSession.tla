---------------------------- MODULE DfOneSession ----------------------------
(***************************************************************************)
(* The DFONE host session: DfOneSession::Impl (session.cpp) with the       *)
(* ControlClient and the StreamClient it owns, talking to one board over a *)
(* TCP control channel (command frames out, responses in) and a TCP data   *)
(* channel (IQ and record packets in).                                     *)
(*                                                                         *)
(* A session is used by one caller at a time and every call blocks, so the *)
(* host is one sequential process: pc says where the running call is. The  *)
(* concurrency is with the board, which executes commands, answers,        *)
(* streams, is late or reboots between any two host steps. The board's     *)
(* firmware is not in the repository: its actions (Board) are what the     *)
(* host code and the manual expect of it, refusals and strays included.    *)
(***************************************************************************)
EXTENDS Naturals, Sequences

CONSTANTS
    Requests,    \* the API calls the application may make, a subset of Calls
    Defaults,    \* the settings of a default-constructed DfOneCaptureConfig
    PowerOn,     \* the board's settings after a boot
    SeqMod,      \* next_seq_ counts modulo this; 2^16 in the code
    MaxCalls,    \* bound: API calls made
    MaxReboots,  \* bound: board reboots
    MaxStrays    \* bound: data packets of a type the host does not expect

Settings == {"clk", "rate", "gain", "lo"}
Modes == {"synchronized", "independent"}
Captures == {"iq", "raw"}
ClockSources == 0..3
Config == {c \in [Settings -> Nat] : c["clk"] \in ClockSources}

\* A record request's channel mask and length are acceptable for every
\* storage ("ram"), only with an SSD ("ssd") or never; path: the output file
\* can be created; len: the length in units of 4 MB.
Calls ==
         [op : {"connect", "disconnect", "destroy", "ssd"} \cup Captures]
    \cup [op : {"mode"}, mode : Modes]
    \cup [op : {"configure"}, mode : Modes, cfg : Config]
    \cup [op : {"set"}, field : Settings \ {"clk"}, val : Nat]
    \cup [op : {"set"}, field : {"clk"}, val : ClockSources]
    \cup [op : {"record"}, fit : {"ram", "ssd", "never"}, path : BOOLEAN,
          len : Nat \ {0}]

ASSUME ConstantsAssumption ==
    /\ Requests \subseteq Calls
    /\ Defaults \in Config
    /\ PowerOn \in Config
    /\ SeqMod \in Nat \ {0, 1}
    /\ MaxCalls \in Nat
    /\ MaxReboots \in Nat
    /\ MaxStrays \in Nat

VARIABLES
    \* the running call
    calls,     \* how many calls were made, for MaxCalls
    pc,        \* idle, or where the call is
    call,      \* the request being executed, or the last one
    step,      \* index in Plan(call) of the command being exchanged
    result,    \* what the last call returned
    \* the session and the two clients
    ctlUp,     \* control_ exists and connected_
    stmUp,     \* stream_ exists and open_
    nextSeq,   \* next_seq_
    config,    \* config_, its four board settings
    workMode,  \* config_.work_mode
    sockets,   \* descriptors the process has open on the board
    orphans,   \* those whose owner was destroyed without closing them
    \* results of the exchange
    cmd,       \* the command frame last sent
    packet,    \* the capture packet being returned
    received,  \* received_bytes of the recording, in units of 4 MB
    file,      \* the commands whose record packets the output stream has taken
    whole,     \* what is left on the disk is the recording that was asked for
    \* the channels
    cmdQ,      \* command frames of this connection the board has not executed
    oldQ,      \* the same for connections the host has closed
    respQ,     \* responses the host has not read
    dataQ,     \* data packets the host has not read
    \* the board
    dev,       \* its settings
    rec,       \* the recording it is streaming
    link,      \* FALSE when it rebooted since the host connected
    reboots, strays,
    \* history, for the properties only
    owed,      \* responses of this connection the host stopped waiting for
    adrift,    \* on this connection the host abandoned a data exchange
    known      \* settings config_ must agree on with the board

callVars == <<calls, pc, call, step, result>>
sessVars == <<ctlUp, stmUp, nextSeq, config, workMode>>
sockVars == <<sockets, orphans>>
gotVars  == <<cmd, packet, received, file, whole>>
chanVars == <<cmdQ, oldQ, respQ, dataQ>>
devVars  == <<dev, rec, link, reboots, strays>>
histVars == <<owed, adrift, known>>
vars == <<callVars, sessVars, sockVars, gotVars, chanVars, devVars, histVars>>

-----------------------------------------------------------------------------
(* The commands of a call *)

\* set_ref_clock_source keeps the two low bits of the source.
Wire(field, val) == IF field = "clk" THEN val % 4 ELSE val

SetCommand(field, val) == [op |-> field, val |-> Wire(field, val)]

\* Faulty variant of Plan: configure forgets the gain.
Plan_SkipsGain(c) ==
    CASE c.op = "configure" ->
            <<SetCommand("clk", c.cfg["clk"]), SetCommand("rate", c.cfg["rate"]),
              SetCommand("lo", c.cfg["lo"])>>
      [] c.op = "set" -> <<SetCommand(c.field, c.val)>>
      [] c.op = "record" -> <<[op |-> "ssd", val |-> 0],
                              [op |-> "mask", val |-> 0],
                              [op |-> "start", val |-> c.len]>>
      [] OTHER -> <<[op |-> c.op, val |-> 0]>>

\* The command frames a call sends, in order.
Plan(c) ==
    CASE c.op = "configure" ->
            <<SetCommand("clk", c.cfg["clk"]), SetCommand("rate", c.cfg["rate"]),
              SetCommand("gain", c.cfg["gain"]), SetCommand("lo", c.cfg["lo"])>>
      [] c.op = "set" -> <<SetCommand(c.field, c.val)>>
      [] c.op = "record" -> <<[op |-> "ssd", val |-> 0],
                              [op |-> "mask", val |-> 0],
                              [op |-> "start", val |-> c.len]>>
      [] OTHER -> <<[op |-> c.op, val |-> 0]>>

NeedsConnection == {"configure", "set", "ssd", "record"} \cup Captures

\* Faulty variant of Connected: only the control channel is looked at.
Connected_ControlOnly == ctlUp

Connected == ctlUp /\ stmUp

NoRecording == [seq |-> 0, left |-> 0]

-----------------------------------------------------------------------------
(* Closing the channels *)

B(b) == IF b THEN 1 ELSE 0

\* The frames the board has not executed stay in its socket buffer.
LeaveFrames == cmdQ' = <<>> /\ oldQ' = oldQ \o cmdQ

CloseControl ==
    /\ ctlUp' = FALSE
    /\ sockets' = sockets - 1
    /\ LeaveFrames
    /\ respQ' = <<>>
    /\ UNCHANGED <<stmUp, dataQ, rec>>

\* The board cannot stream a recording to a closed data channel.
CloseStream ==
    /\ stmUp' = FALSE
    /\ sockets' = sockets - 1
    /\ dataQ' = <<>>
    /\ rec' = NoRecording
    /\ UNCHANGED <<ctlUp, cmdQ, oldQ, respQ>>

CloseBoth ==
    /\ ctlUp' = FALSE /\ stmUp' = FALSE
    /\ LeaveFrames
    /\ respQ' = <<>> /\ dataQ' = <<>>
    /\ rec' = NoRecording

Finish(r) ==
    /\ pc' = "idle"
    /\ result' = r
    /\ UNCHANGED <<calls, call, step>>

-----------------------------------------------------------------------------
(* The application calls the API *)

Issue(c) ==
    /\ pc = "idle"
    /\ calls < MaxCalls
    /\ c \in Requests
    /\ calls' = calls + 1
    /\ call' = c

SetWorkMode(c) ==
    /\ Issue(c)
    /\ c.op = "mode"
    /\ \/ /\ c.mode = "independent"
          /\ result' = "failed"
          /\ UNCHANGED workMode
       \/ /\ c.mode # "independent"
          /\ workMode' = c.mode
          /\ result' = "ok"
    /\ UNCHANGED <<pc, step, ctlUp, stmUp, nextSeq, config>>
    /\ UNCHANGED <<sockVars, gotVars, chanVars, devVars, histVars>>

\* require_connected, require_synchronized_mode and configure's own test.
Admitted(c) ==
    /\ Connected
    /\ c.op = "configure" => c.mode # "independent"
    /\ c.op \in Captures \cup {"record"} => workMode # "independent"

RejectCall(c) ==
    /\ Issue(c)
    /\ c.op \in NeedsConnection
    /\ ~Admitted(c)
    /\ result' = "failed"
    /\ UNCHANGED <<pc, step>>
    /\ UNCHANGED <<sessVars, sockVars, gotVars, chanVars, devVars, histVars>>

BeginCall(c) ==
    /\ Issue(c)
    /\ c.op \in NeedsConnection
    /\ Admitted(c)
    /\ pc' = "send"
    /\ step' = 1
    /\ UNCHANGED result
    /\ UNCHANGED <<sessVars, sockVars, gotVars, chanVars, devVars, histVars>>

\* Faulty variant of Disconnect: closes descriptors it does not hold.
Disconnect_Twice(c) ==
    /\ Issue(c)
    /\ c.op = "disconnect"
    /\ CloseBoth
    /\ sockets' = sockets - 2
    /\ result' = "ok"
    /\ UNCHANGED <<pc, step, nextSeq, config, workMode, orphans>>
    /\ UNCHANGED <<gotVars, dev, link, reboots, strays, histVars>>

Disconnect(c) ==
    /\ Issue(c)
    /\ c.op = "disconnect"
    /\ CloseBoth
    /\ sockets' = sockets - B(ctlUp) - B(stmUp)
    /\ result' = "ok"
    /\ UNCHANGED <<pc, step, nextSeq, config, workMode, orphans>>
    /\ UNCHANGED <<gotVars, dev, link, reboots, strays, histVars>>

\* The defaulted destructor: neither client has one of its own, so a session
\* destroyed while connected drops its descriptors without closing them. The
\* application goes on with a new session object.
Destroy(c) ==
    /\ Issue(c)
    /\ c.op = "destroy"
    /\ CloseBoth
    /\ orphans' = orphans + B(ctlUp) + B(stmUp)
    /\ config' = Defaults
    /\ workMode' = "synchronized"
    /\ result' = "ok"
    /\ known' = {}
    /\ UNCHANGED <<pc, step, nextSeq, sockets, owed, adrift>>
    /\ UNCHANGED <<gotVars, dev, link, reboots, strays>>

\* connect() disconnects first, whatever the session's state.
BeginConnect(c) ==
    /\ Issue(c)
    /\ c.op = "connect"
    /\ CloseBoth
    /\ sockets' = sockets - B(ctlUp) - B(stmUp)
    /\ pc' = "connect"
    /\ UNCHANGED <<step, result, nextSeq, config, workMode, orphans>>
    /\ UNCHANGED <<gotVars, dev, link, reboots, strays, histVars>>

\* next_control->connect(); a failure closes its own socket.
ConnectControl ==
    /\ pc = "connect"
    /\ \/ /\ pc' = "open"
          /\ sockets' = sockets + 1
          /\ link' = TRUE
          /\ UNCHANGED <<calls, call, step, result>>
       \/ /\ Finish("failed")
          /\ UNCHANGED <<sockets, link>>
    /\ UNCHANGED <<sessVars, orphans, gotVars, chanVars, histVars>>
    /\ UNCHANGED <<dev, rec, reboots, strays>>

OpenStream ==
    /\ pc = "open"
    /\ ctlUp' = TRUE /\ stmUp' = TRUE
    /\ sockets' = sockets + 1
    /\ nextSeq' = 0
    /\ config' = Defaults
    /\ workMode' = "synchronized"
    /\ owed' = 0 /\ adrift' = FALSE /\ known' = {}
    /\ Finish("ok")
    /\ UNCHANGED <<orphans, gotVars, chanVars, devVars>>

\* Faulty variant of OpenStreamFails: next_control is not disconnected.
OpenStreamFails_KeepsControl ==
    /\ pc = "open"
    /\ Finish("failed")
    /\ UNCHANGED <<sessVars, sockVars, gotVars, chanVars, devVars, histVars>>

\* The control connection just made is given up.
OpenStreamFails ==
    /\ pc = "open"
    /\ sockets' = sockets - 1
    /\ Finish("failed")
    /\ UNCHANGED <<sessVars, orphans, gotVars, chanVars, devVars, histVars>>

-----------------------------------------------------------------------------
(* The exchange of one command *)

Frame == LET c == Plan(call)[step]
         IN [seq |-> nextSeq, op |-> c.op, val |-> c.val]

\* A frame for a board that has rebooted is buffered and lost. What the
\* board's setting is becomes uncertain until the command is acknowledged.
SendFrame ==
    /\ pc = "send"
    /\ cmd' = Frame
    /\ nextSeq' = (nextSeq + 1) % SeqMod
    /\ cmdQ' = IF link THEN Append(cmdQ, Frame) ELSE cmdQ
    /\ pc' = IF Frame.op \in Captures THEN "data" ELSE "resp"
    /\ known' = known \ {Frame.op}
    /\ UNCHANGED <<calls, call, step, result>>
    /\ UNCHANGED <<ctlUp, stmUp, config, workMode, sockVars>>
    /\ UNCHANGED <<packet, received, file, whole, oldQ, respQ, dataQ, devVars>>
    /\ UNCHANGED <<owed, adrift>>

SendFrameFails ==
    /\ pc = "send"
    /\ nextSeq' = (nextSeq + 1) % SeqMod
    /\ CloseControl
    /\ Finish("failed")
    /\ UNCHANGED <<config, workMode, orphans, gotVars>>
    /\ UNCHANGED <<dev, link, reboots, strays, histVars>>

\* Faulty variant of ReadCapture: the response is not read after the packet.
ReadCapture_NoResponse ==
    /\ pc = "data"
    /\ dataQ # <<>>
    /\ dataQ' = Tail(dataQ)
    /\ packet' = Head(dataQ)
    /\ Finish(IF Head(dataQ).type \in Captures THEN "ok" ELSE "failed")
    /\ UNCHANGED <<sessVars, sockVars, cmd, received, file, whole>>
    /\ UNCHANGED <<cmdQ, oldQ, respQ, devVars, histVars>>

\* read_capture_packet: a packet of another type ends the call without
\* reading the response the board owes, and leaves both channels open.
ReadCapture ==
    /\ pc = "data"
    /\ dataQ # <<>>
    /\ dataQ' = Tail(dataQ)
    /\ \/ /\ Head(dataQ).type \in Captures
          /\ packet' = Head(dataQ)
          /\ pc' = "resp"
          /\ UNCHANGED <<calls, call, step, result, owed, adrift>>
       \/ /\ Head(dataQ).type \notin Captures
          /\ Finish("failed")
          /\ owed' = owed + 1
          /\ adrift' = TRUE
          /\ UNCHANGED packet
    /\ UNCHANGED <<sessVars, sockVars, cmd, received, file, whole>>
    /\ UNCHANGED <<cmdQ, oldQ, respQ, devVars, known>>

\* Faulty variants of ReadDataFails: the channel stays open after a timeout;
\* the read is tried again for ever.
ReadDataFails_KeepsOpen ==
    /\ pc \in {"data", "record"}
    /\ Finish("failed")
    /\ owed' = owed + B(pc = "data")
    /\ UNCHANGED <<sessVars, sockVars, gotVars, chanVars, devVars, adrift, known>>

ReadDataFails_Retries == pc \in {"data", "record"} /\ UNCHANGED vars

\* recv times out after 10 s, fails, or the peer closed: read_packet closes
\* the channel it was reading.
ReadDataFails ==
    /\ pc \in {"data", "record"}
    /\ CloseStream
    /\ Finish("failed")
    /\ owed' = owed + B(pc = "data")
    /\ UNCHANGED <<nextSeq, config, workMode, orphans, gotVars>>
    /\ UNCHANGED <<dev, link, reboots, strays, adrift, known>>

\* Faulty variant of ReadResponseFails: the command is sent again instead.
ReadResponseFails_Resends ==
    /\ pc = "resp"
    /\ pc' = "send"
    /\ UNCHANGED <<calls, call, step, result>>
    /\ UNCHANGED <<sessVars, sockVars, gotVars, chanVars, devVars, histVars>>

ReadResponseFails ==
    /\ pc = "resp"
    /\ CloseControl
    /\ Finish("failed")
    /\ UNCHANGED <<nextSeq, config, workMode, orphans, gotVars>>
    /\ UNCHANGED <<dev, link, reboots, strays, histVars>>

\* start_record's checks, made once the board has said whether it has an SSD.
RecordAdmitted(code) == call.fit = "ram" \/ (call.fit = "ssd" /\ code = 1)

\* A query accepts any code; every other command wants 0.
Accepted(code) ==
    IF cmd.op = "ssd" THEN call.op = "record" => RecordAdmitted(code)
                      ELSE code = 0

\* Faulty variant of NewConfig: the set_* calls do not store their value.
NewConfig_ConfigureOnly(c) == IF c.op = "configure" THEN c.cfg ELSE config

NewConfig(c) ==
    CASE c.op = "configure" -> c.cfg
      [] c.op = "set" -> [config EXCEPT ![c.field] = c.val]
      [] OTHER -> config

SettingsOf(c) ==
    CASE c.op = "configure" -> Settings
      [] c.op = "set" -> {c.field}
      [] OTHER -> {}

\* The next packet of the control channel is taken for the answer: its seq
\* is not looked at. (A packet that is not a response is skipped, which
\* changes nothing here.)
TakeResponse ==
    /\ pc = "resp"
    /\ respQ # <<>>
    /\ respQ' = Tail(respQ)
    /\ UNCHANGED <<ctlUp, stmUp, nextSeq, sockVars, gotVars>>
    /\ UNCHANGED <<cmdQ, oldQ, dataQ, devVars, owed, adrift>>

\* Faulty variant of CommandRefused: config_ is assigned before the test.
CommandRefused_Stores ==
    /\ TakeResponse
    /\ ~Accepted(Head(respQ).code)
    /\ Finish("failed")
    /\ config' = NewConfig(call)
    /\ UNCHANGED <<workMode, known>>

CommandRefused ==
    /\ TakeResponse
    /\ ~Accepted(Head(respQ).code)
    /\ Finish("failed")
    /\ UNCHANGED <<config, workMode, known>>

NextCommand ==
    /\ TakeResponse
    /\ Accepted(Head(respQ).code)
    /\ step < Len(Plan(call))
    /\ step' = step + 1
    /\ pc' = "send"
    /\ UNCHANGED <<calls, call, result, config, workMode, known>>

RecordStarted ==
    /\ TakeResponse
    /\ Accepted(Head(respQ).code)
    /\ step = Len(Plan(call))
    /\ call.op = "record"
    /\ pc' = "file"
    /\ UNCHANGED <<calls, call, step, result, config, workMode, known>>

\* Only a fully acknowledged call updates config_.
CallSucceeds ==
    /\ TakeResponse
    /\ Accepted(Head(respQ).code)
    /\ step = Len(Plan(call))
    /\ call.op # "record"
    /\ config' = NewConfig(call)
    /\ workMode' = IF call.op = "configure" THEN call.mode ELSE workMode
    /\ known' = IF owed = 0 /\ link THEN known \cup SettingsOf(call) ELSE known
    /\ Finish("ok")

-----------------------------------------------------------------------------
(* Receiving a recording: read_record_packets *)

\* Faulty variant of OpenRecordFile: the file is opened for appending.
OpenRecordFile_Appends ==
    /\ pc = "file"
    /\ call.path
    /\ pc' = "record"
    /\ received' = 0
    /\ whole' = FALSE
    /\ UNCHANGED <<calls, call, step, result, sessVars, sockVars>>
    /\ UNCHANGED <<cmd, packet, file, chanVars, devVars, histVars>>

OpenRecordFile ==
    /\ pc = "file"
    /\ call.path
    /\ pc' = "record"
    /\ received' = 0
    /\ file' = {}
    /\ whole' = FALSE
    /\ UNCHANGED <<calls, call, step, result, sessVars, sockVars>>
    /\ UNCHANGED <<cmd, packet, chanVars, devVars, histVars>>

\* The board is already recording: what it streams stays in the channel.
OpenRecordFileFails ==
    /\ pc = "file"
    /\ ~call.path
    /\ Finish("failed")
    /\ adrift' = TRUE
    /\ UNCHANGED <<sessVars, sockVars, gotVars, chanVars, devVars, owed, known>>

Fits(p) == p.type = "rec" /\ received + p.size <= call.len

\* The last bytes may still be in the stream's buffer: its destructor, after
\* "return true", writes them or fails, and nobody hears of it.
Recorded == Finish("ok") /\ whole' \in BOOLEAN

\* Faulty variant of ReadRecord: the loop stops one unit early.
ReadRecord_StopsEarly ==
    /\ pc = "record"
    /\ dataQ # <<>>
    /\ Fits(Head(dataQ))
    /\ dataQ' = Tail(dataQ)
    /\ received' = received + Head(dataQ).size
    /\ file' = file \cup {Head(dataQ).seq}
    /\ IF received' + 1 >= call.len
       THEN Recorded
       ELSE UNCHANGED <<callVars, whole>>
    /\ UNCHANGED <<sessVars, sockVars, cmd, packet, cmdQ, oldQ, respQ>>
    /\ UNCHANGED <<devVars, histVars>>

ReadRecord ==
    /\ pc = "record"
    /\ dataQ # <<>>
    /\ Fits(Head(dataQ))
    /\ dataQ' = Tail(dataQ)
    /\ received' = received + Head(dataQ).size
    /\ file' = file \cup {Head(dataQ).seq}
    /\ IF received' = call.len
       THEN Recorded
       ELSE UNCHANGED <<callVars, whole>>
    /\ UNCHANGED <<sessVars, sockVars, cmd, packet, cmdQ, oldQ, respQ>>
    /\ UNCHANGED <<devVars, histVars>>

\* Another type, an empty packet (both "other"), too long, or (any packet)
\* the file cannot be written: the call fails, both channels stay open and
\* the rest of the recording keeps coming.
ReadRecordFails ==
    /\ pc = "record"
    /\ dataQ # <<>>
    /\ dataQ' = Tail(dataQ)
    /\ adrift' = TRUE
    /\ Finish("failed")
    /\ UNCHANGED <<sessVars, sockVars, gotVars, cmdQ, oldQ, respQ>>
    /\ UNCHANGED <<devVars, owed, known>>

-----------------------------------------------------------------------------
(* The board. It serves one control connection at a time: frames left in   *)
(* the buffer of a closed connection are executed or dropped before those  *)
(* of the current one, and answered to nobody.                             *)

ServeOld ==
    /\ oldQ # <<>>
    /\ oldQ' = Tail(oldQ)
    /\ \/ UNCHANGED dev
       \/ /\ Head(oldQ).op \in Settings
          /\ dev' = [dev EXCEPT ![Head(oldQ).op] = Head(oldQ).val]
    /\ UNCHANGED <<callVars, sessVars, sockVars, gotVars>>
    /\ UNCHANGED <<cmdQ, respQ, dataQ, rec, link, reboots, strays, histVars>>

Answer(code) ==
    /\ oldQ = <<>>
    /\ cmdQ # <<>>
    /\ cmdQ' = Tail(cmdQ)
    /\ respQ' = Append(respQ, [seq |-> Head(cmdQ).seq, code |-> code])
    /\ UNCHANGED <<callVars, sessVars, sockVars, gotVars>>
    /\ UNCHANGED <<oldQ, link, reboots, histVars>>

\* A packet for a data channel the host has closed is lost.
Emit(type, size, seq) ==
    dataQ' = IF stmUp
             THEN Append(dataQ, [type |-> type, size |-> size, seq |-> seq,
                                 regs |-> IF type \in Captures
                                          THEN dev ELSE Defaults])
             ELSE dataQ

ServeSetting ==
    /\ Answer(0)
    /\ Head(cmdQ).op \in Settings
    /\ dev' = [dev EXCEPT ![Head(cmdQ).op] = Head(cmdQ).val]
    /\ UNCHANGED <<dataQ, rec, strays>>

\* A refusal; for a storage query the same answer means an SSD is present.
\* A refused capture may send no packet at all.
ServeRefuse ==
    /\ Answer(1)
    /\ UNCHANGED <<dataQ, dev, rec, strays>>

ServeQuery ==
    /\ Answer(0)
    /\ Head(cmdQ).op \in {"ssd", "mask"}
    /\ UNCHANGED <<dataQ, dev, rec, strays>>

ServeCapture(code) ==
    /\ Answer(code)
    /\ Head(cmdQ).op \in Captures
    /\ \/ /\ Emit(Head(cmdQ).op, 1, Head(cmdQ).seq)
          /\ UNCHANGED strays
       \/ /\ strays < MaxStrays
          /\ strays' = strays + 1
          /\ Emit("other", 1, Head(cmdQ).seq)
    /\ UNCHANGED <<dev, rec>>

ServeStart ==
    /\ Answer(0)
    /\ Head(cmdQ).op = "start"
    /\ rec' = IF stmUp THEN [seq |-> Head(cmdQ).seq, left |-> Head(cmdQ).val]
                       ELSE rec
    /\ UNCHANGED <<dataQ, dev, strays>>

StreamRecord ==
    /\ rec.left > 0
    /\ link
    /\ \E n \in 1..rec.left :
          /\ Emit("rec", n, rec.seq)
          /\ rec' = [rec EXCEPT !.left = @ - n]
    /\ UNCHANGED <<callVars, sessVars, sockVars, gotVars, cmdQ, oldQ, respQ>>
    /\ UNCHANGED <<dev, link, reboots, strays, histVars>>

StreamStray ==
    /\ rec.left > 0
    /\ link
    /\ strays < MaxStrays
    /\ strays' = strays + 1
    /\ Emit("other", 1, rec.seq)
    /\ UNCHANGED <<callVars, sessVars, sockVars, gotVars, cmdQ, oldQ, respQ>>
    /\ UNCHANGED <<dev, rec, link, reboots, histVars>>

\* A reboot loses everything but what already reached the host.
Reboot ==
    /\ reboots < MaxReboots
    /\ reboots' = reboots + 1
    /\ link' = FALSE
    /\ dev' = PowerOn
    /\ rec' = NoRecording
    /\ cmdQ' = <<>> /\ oldQ' = <<>>
    /\ known' = {}
    /\ UNCHANGED <<callVars, sessVars, sockVars, gotVars, respQ, dataQ>>
    /\ UNCHANGED <<strays, owed, adrift>>

-----------------------------------------------------------------------------

Init ==
    /\ calls = 0 /\ pc = "idle" /\ step = 1 /\ result = "ok"
    /\ call = [op |-> "disconnect"]
    /\ ctlUp = FALSE /\ stmUp = FALSE /\ nextSeq = 0
    /\ config = Defaults /\ workMode = "synchronized"
    /\ sockets = 0 /\ orphans = 0
    /\ cmd = [seq |-> 0, op |-> "ssd", val |-> 0]
    /\ packet = [type |-> "other", size |-> 1, seq |-> 0, regs |-> Defaults]
    /\ received = 0 /\ file = {} /\ whole = FALSE
    /\ cmdQ = <<>> /\ oldQ = <<>> /\ respQ = <<>> /\ dataQ = <<>>
    /\ dev = PowerOn /\ rec = NoRecording /\ link = FALSE
    /\ reboots = 0 /\ strays = 0
    /\ owed = 0 /\ adrift = FALSE /\ known = {}

Application ==
    \E c \in Requests :
        \/ SetWorkMode(c) \/ RejectCall(c) \/ BeginCall(c)
        \/ Disconnect(c) \/ Destroy(c) \/ BeginConnect(c)

\* The steps of a running call.
Host ==
    \/ ConnectControl \/ OpenStream \/ OpenStreamFails
    \/ SendFrame \/ SendFrameFails
    \/ ReadCapture \/ ReadDataFails \/ ReadResponseFails
    \/ CommandRefused \/ NextCommand \/ RecordStarted \/ CallSucceeds
    \/ OpenRecordFile \/ OpenRecordFileFails \/ ReadRecord \/ ReadRecordFails

Board ==
    \/ ServeOld \/ ServeSetting \/ ServeRefuse \/ ServeQuery
    \/ (\E code \in {0, 1} : ServeCapture(code))
    \/ ServeStart \/ StreamRecord \/ StreamStray \/ Reboot

Next == Application \/ Host \/ Board

\* The thread inside a call keeps running, and no socket call blocks it for
\* ever: both sockets have a 10 s timeout. Nothing is assumed of the board
\* or of the application.
Spec == Init /\ [][Next]_vars /\ WF_vars(Host)

-----------------------------------------------------------------------------
(* Properties *)

Ops == Settings \cup Captures \cup {"ssd", "mask", "start"}
Seqs == 0..SeqMod - 1
Commands == {c \in [seq : Seqs, op : Ops, val : Nat] :
                c.op = "clk" => c.val \in ClockSources}
Responses == [seq : Seqs, code : {0, 1}]
Packets == [type : Captures \cup {"rec", "other"}, size : Nat \ {0},
            seq : Seqs, regs : Config]

TypeCall ==
    /\ calls \in 0..MaxCalls
    /\ pc \in {"idle", "connect", "open", "send", "data", "resp", "file",
               "record"}
    /\ call \in Calls
    /\ step \in Nat \ {0}
    /\ result \in {"ok", "failed"}

TypeSession ==
    /\ ctlUp \in BOOLEAN /\ stmUp \in BOOLEAN
    /\ nextSeq \in Seqs
    /\ config \in Config /\ workMode \in Modes
    /\ sockets \in Nat /\ orphans \in Nat

TypeExchange ==
    /\ cmd \in Commands /\ packet \in Packets
    /\ received \in Nat /\ file \subseteq Seqs /\ whole \in BOOLEAN

TypeChannels ==
    /\ cmdQ \in Seq(Commands) /\ oldQ \in Seq(Commands)
    /\ respQ \in Seq(Responses) /\ dataQ \in Seq(Packets)

TypeBoard ==
    /\ dev \in Config
    /\ rec \in [seq : Seqs, left : Nat]
    /\ link \in BOOLEAN
    /\ reboots \in 0..MaxReboots /\ strays \in 0..MaxStrays

TypeHistory == owed \in Nat /\ adrift \in BOOLEAN /\ known \subseteq Settings

\* Every variable keeps its type; in particular no descriptor is closed that
\* the session does not hold (sockets), and every frame written is one of the
\* call's commands (cmdQ).
TypeOK ==
    /\ TypeCall /\ TypeSession /\ TypeExchange
    /\ TypeChannels /\ TypeBoard /\ TypeHistory

\* Where the running call is, and what it may rely on there.
CallShape ==
    /\ pc \in {"send", "data", "resp", "file", "record"} =>
         /\ Connected
         /\ call.op \in NeedsConnection
         /\ step <= Len(Plan(call))
    /\ pc \in {"connect", "open"} => ~ctlUp /\ ~stmUp
    /\ pc \in {"file", "record"} => call.op = "record"

\* Every descriptor the process has open belongs to the session, to the
\* connection attempt in progress or to a session destroyed while connected:
\* no failure path of connect, of a read or of a write loses one, and none
\* is closed twice.
SocketsOwned ==
    sockets = orphans + B(ctlUp) + B(stmUp) + B(pc = "open")

\* The control channel loses count only where a capture gives up on the data
\* channel (ReadCapture, ReadDataFails): each time, one response stays unread
\* for the rest of the connection, and if the session still works every later
\* command reads an older one's.
ResponsesAccountedFor ==
    /\ ctlUp /\ link =>
         Len(cmdQ) + Len(respQ) = owed + B(pc \in {"data", "resp"})
    /\ ~link => cmdQ = <<>>

\* While no exchange of this connection was abandoned, the response a call
\* is about to read answers the command it has just sent, although the code
\* never compares their sequence numbers.
ResponseIsOwn ==
    pc = "resp" /\ ~adrift /\ respQ # <<>> => Head(respQ).seq = cmd.seq

\* Between calls a connection with no abandoned exchange has nothing in
\* flight in either direction: the next call starts from a clean channel.
QuietBetweenCalls ==
    pc = "idle" /\ Connected /\ ~adrift =>
        cmdQ = <<>> /\ respQ = <<>> /\ dataQ = <<>> /\ rec.left = 0

\* A successful capture returns the packet its own command produced, of the
\* kind it asked for, while no exchange of this connection was abandoned.
CaptureIsOwn ==
    pc = "idle" /\ result = "ok" /\ call.op \in Captures /\ ~adrift =>
        packet.type = call.op /\ packet.seq = cmd.seq

\* A successful recording has written the requested length to its output
\* stream, and only what this recording streamed, while no exchange was
\* abandoned. (That it reached the disk is another matter:
\* RecordingAsDocumented.)
RecordingIsOwn ==
    pc = "idle" /\ result = "ok" /\ call.op = "record" /\ ~adrift =>
        received = call.len /\ file = {cmd.seq}

\* config_ tells the board's setting for every setting acknowledged on this
\* connection, in order, and not sent again since: neither the frames of an
\* earlier connection still being executed nor a refused or half-done
\* configure make it wrong.
SettingsAgree == \A f \in known : dev[f] = config[f]

\* A capture's sample rate and LO, which fill_capture copies from config_,
\* are those the board captured with when both settings are known.
MetadataIsTrue ==
    pc = "idle" /\ result = "ok" /\ call.op \in Captures /\ ~adrift =>
        \A f \in {"rate", "lo"} \cap known : packet.regs[f] = config[f]

\* A frame is written only while both channels are open: a session that lost
\* one of them stays silent until connect().
NoFrameOnHalfOpen ==
    [][nextSeq' # nextSeq => (ctlUp /\ stmUp) \/ pc = "open"]_vars

\* The steps a running call may still take after its present command: three
\* for each later one, then the file and at most one packet for each unit of
\* the recording.
Later ==
    3 * (Len(Plan(call)) - step) + IF call.op = "record" THEN call.len + 1 ELSE 0

\* The steps it may still take in all.
Ahead ==
    CASE pc = "idle" -> 0
      [] pc = "connect" -> 2
      [] pc = "open" -> 1
      [] pc = "send" -> Later + 3
      [] pc = "data" -> Later + 2
      [] pc = "resp" -> Later + 1
      [] pc = "file" -> call.len + 1
      [] pc = "record" -> call.len - received

\* A call never goes round in circles: whatever it reads, and whichever of
\* its steps fails, each one leaves fewer ahead of it. With the 10 s timeout
\* of every read this bounds the time of a call, but for the packets that
\* read_response skips.
EachStepIsNearer == [][Host => Ahead' \in 0..Ahead - 1]_vars

\* Every call returns: each read ends by a packet or by the socket's
\* timeout, and each step brings the call nearer to its end.
EveryCallReturns == pc # "idle" ~> pc = "idle"

-----------------------------------------------------------------------------
(* The session implements its interface *)

API == INSTANCE SessionAPI WITH
    busy <- pc # "idle",
    request <- call,
    outcome <- result,
    connected <- Connected,
    settings <- config,
    mode <- workMode

\* Seen from the caller, the session is SessionAPI: config_ changes only when
\* a call succeeds, and then to what was asked; a failed call leaves it as it
\* was; connected() becomes true only through connect(); every call returns.
ImplementsAPI == API!Spec

-----------------------------------------------------------------------------
(* What the manual says *)

\* PUBLIC_API_MANUAL.md:317: sample_rate_hz and rx_lo_hz of a capture are
\* the ones it was taken with.
MetadataAsDocumented ==
    pc = "idle" /\ result = "ok" /\ call.op \in Captures /\ link =>
        packet.regs["rate"] = config["rate"] /\ packet.regs["lo"] = config["lo"]

\* PUBLIC_API_MANUAL.md:245: a capture marked kCalibrated holds compensated
\* IQ, one marked kUncorrected raw IQ.
KindAsDocumented ==
    pc = "idle" /\ result = "ok" /\ call.op \in Captures =>
        packet.type = call.op

\* PUBLIC_API_MANUAL.md:568: record_iq receives length_mb of IQ and writes it
\* to output_path.
RecordingAsDocumented ==
    pc = "idle" /\ result = "ok" /\ call.op = "record" => whole

\* PUBLIC_API_MANUAL.md:378: the destructor releases the session's resources.
DestructorReleases == orphans = 0

=============================================================================

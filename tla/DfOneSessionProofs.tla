------------------------- MODULE DfOneSessionProofs -------------------------
(***************************************************************************)
(* Proofs about DfOneSession, for every value of its constants.            *)
(***************************************************************************)
EXTENDS DfOneSession, SequenceTheorems, TLAPS

PlanCommands == {c \in [op : Ops, val : Nat] :
                    c.op = "clk" => c.val \in ClockSources}

LEMMA WireType ==
    ASSUME NEW f, NEW v \in Nat
    PROVE  Wire(f, v) \in Nat /\ (f = "clk" => Wire(f, v) \in ClockSources)
  BY SMT DEF Wire, ClockSources

\* A configuration's settings are numbers.
LEMMA ConfigType ==
    ASSUME NEW c \in Config
    PROVE  /\ c \in [Settings -> Nat]
           /\ \A f \in Settings : c[f] \in Nat
  BY DEF Config

\* The parameters of a call have the types its kind gives them.
LEMMA CallParameters ==
    ASSUME NEW c \in Calls
    PROVE  /\ c.op = "configure" => c.cfg \in Config /\ c.mode \in Modes
           /\ c.op = "mode" => c.mode \in Modes
           /\ c.op = "set" => /\ c.field \in Settings
                              /\ c.val \in Nat
                              /\ c.field = "clk" => c.val \in ClockSources
           /\ c.op = "record" => c.len \in Nat \ {0} /\ c.path \in BOOLEAN
  <1>1. CASE c \in [op : {"connect", "disconnect", "destroy", "ssd"} \cup Captures]
    BY <1>1 DEF Captures
  <1>2. CASE c \in [op : {"mode"}, mode : Modes]
    BY <1>2
  <1>3. CASE c \in [op : {"configure"}, mode : Modes, cfg : Config]
    BY <1>3
  <1>4. CASE c \in [op : {"set"}, field : Settings \ {"clk"}, val : Nat]
    BY <1>4 DEF Settings
  <1>5. CASE c \in [op : {"set"}, field : {"clk"}, val : ClockSources]
    BY <1>5 DEF Settings, ClockSources
  <1>6. CASE c \in [op : {"record"}, fit : {"ram", "ssd", "never"},
                    path : BOOLEAN, len : Nat \ {0}]
    BY <1>6
  <1> QED BY <1>1, <1>2, <1>3, <1>4, <1>5, <1>6 DEF Calls

\* Every call that talks to the board has a plan, of well-formed commands.
LEMMA PlanType ==
    ASSUME NEW c \in Calls, c.op \in NeedsConnection
    PROVE  /\ Plan(c) \in Seq(PlanCommands)
           /\ Len(Plan(c)) \in Nat \ {0}
  <1>1. CASE c.op = "configure"
    BY <1>1, CallParameters, WireType, ConfigType
       DEF Plan, SetCommand, PlanCommands, Ops, Settings
  <1>2. CASE c.op = "set"
    BY <1>2, CallParameters, WireType
       DEF Plan, SetCommand, PlanCommands, Ops
  <1>3. CASE c.op = "record"
    BY <1>3, CallParameters DEF Plan, PlanCommands, Ops
  <1>4. CASE c.op \in {"ssd"} \cup Captures
    <2>1. Plan(c) = <<[op |-> c.op, val |-> 0]>>
      BY <1>4 DEF Plan, Captures
    <2>2. [op |-> c.op, val |-> 0] \in PlanCommands
      BY <1>4 DEF PlanCommands, Ops, Captures, ClockSources
    <2> QED BY <2>1, <2>2
  <1> QED BY <1>1, <1>2, <1>3, <1>4 DEF NeedsConnection

\* A setting command leaves the board with a configuration.
LEMMA ApplyType ==
    ASSUME NEW d \in Config, NEW c \in Commands, c.op \in Settings
    PROVE  [d EXCEPT ![c.op] = c.val] \in Config
  BY DEF Config, Commands, Settings

\* Reading a queue.
LEMMA QueueType ==
    ASSUME NEW S, NEW q \in Seq(S), q # <<>>
    PROVE  Head(q) \in S /\ Tail(q) \in Seq(S)
  BY HeadTailProperties

\* An accepted call leaves config_ a configuration.
LEMMA NewConfigType ==
    ASSUME NEW c \in Calls, config \in Config
    PROVE  NewConfig(c) \in Config
  <1>1. CASE c.op = "configure"
    BY <1>1, CallParameters DEF NewConfig
  <1>2. CASE c.op = "set"
    <2>1. c.field \in Settings /\ c.val \in Nat
          /\ (c.field = "clk" => c.val \in ClockSources)
      BY <1>2, CallParameters
    <2>2. NewConfig(c) = [config EXCEPT ![c.field] = c.val]
      BY <1>2 DEF NewConfig
    <2> QED BY <2>1, <2>2 DEF Config, Settings
  <1>3. CASE c.op \notin {"configure", "set"}
    BY <1>3 DEF NewConfig
  <1> QED BY <1>1, <1>2, <1>3

\* What the board sends has the form the host expects.
LEMMA AnswerType ==
    ASSUME TypeChannels, NEW code \in {0, 1}, Answer(code)
    PROVE  /\ cmdQ' \in Seq(Commands) /\ oldQ' \in Seq(Commands)
           /\ respQ' \in Seq(Responses)
  <1>1. Head(cmdQ) \in Commands /\ cmdQ' \in Seq(Commands)
    BY QueueType DEF TypeChannels, Answer
  <1>2. [seq |-> Head(cmdQ).seq, code |-> code] \in Responses
    BY <1>1 DEF Commands, Responses
  <1> QED BY <1>1, <1>2 DEF TypeChannels, Answer

LEMMA EmitType ==
    ASSUME TypeChannels, TypeBoard,
           NEW type \in Captures \cup {"rec", "other"},
           NEW size \in Nat \ {0}, NEW seq \in Seqs, Emit(type, size, seq)
    PROVE  dataQ' \in Seq(Packets)
  <1> DEFINE p == [type |-> type, size |-> size, seq |-> seq,
                   regs |-> IF type \in Captures THEN dev ELSE Defaults]
  <1>1. p \in Packets
    BY ConstantsAssumption DEF Packets, TypeBoard
  <1>2. dataQ' = IF stmUp THEN Append(dataQ, p) ELSE dataQ
    BY DEF Emit
  <1> QED BY <1>1, <1>2 DEF TypeChannels

LEMMA NoRecordingType == NoRecording \in [seq : Seqs, left : Nat]
  BY ConstantsAssumption DEF NoRecording, Seqs

-----------------------------------------------------------------------------
(* The inductive invariant: types, the shape of the running call, and the  *)
(* descriptors, which the types rest on (a close must find one to close).  *)

SInv == TypeOK /\ CallShape /\ SocketsOwned

LEMMA SetWorkModeSInv ==
    ASSUME SInv, NEW c \in Requests, SetWorkMode(c)
    PROVE  SInv'
  <1>1. TypeCall'
    BY ConstantsAssumption
       DEF SInv, TypeOK, TypeCall, SetWorkMode, Issue
  <1>2. TypeSession'
    BY ConstantsAssumption, CallParameters
       DEF SInv, TypeOK, TypeSession, SetWorkMode, Issue, sockVars,
           Modes
  <1>3. CallShape'
    BY DEF SInv, CallShape, Connected, SetWorkMode, Issue
  <1>4. TypeExchange' /\ TypeChannels' /\ TypeBoard' /\ TypeHistory' /\ SocketsOwned'
    BY DEF SInv, TypeOK, TypeExchange, TypeChannels, TypeBoard,
           TypeHistory, SocketsOwned, SetWorkMode, Issue, sockVars,
           gotVars, chanVars, devVars, histVars, B
  <1> QED BY <1>1, <1>2, <1>3, <1>4 DEF SInv, TypeOK

LEMMA RejectCallSInv ==
    ASSUME SInv, NEW c \in Requests, RejectCall(c)
    PROVE  SInv'
  <1>1. TypeCall'
    BY ConstantsAssumption
       DEF SInv, TypeOK, TypeCall, RejectCall, Issue
  <1>2. CallShape'
    BY DEF SInv, CallShape, Connected, RejectCall, Issue, sessVars
  <1>3. TypeSession' /\ TypeExchange' /\ TypeChannels' /\ TypeBoard' /\ TypeHistory' /\ SocketsOwned'
    BY DEF SInv, TypeOK, TypeSession, TypeExchange, TypeChannels,
           TypeBoard, TypeHistory, SocketsOwned, RejectCall, Issue,
           sessVars, sockVars, gotVars, chanVars, devVars, histVars,
           B
  <1> QED BY <1>1, <1>2, <1>3 DEF SInv, TypeOK

LEMMA BeginCallSInv ==
    ASSUME SInv, NEW c \in Requests, BeginCall(c)
    PROVE  SInv'
  <1>1. TypeCall'
    BY ConstantsAssumption
       DEF SInv, TypeOK, TypeCall, BeginCall, Issue
  <1>2. CallShape'
    BY ConstantsAssumption, PlanType
       DEF SInv, TypeOK, CallShape, Connected, BeginCall, Issue,
           sessVars, Admitted
  <1>3. SocketsOwned'
    BY DEF SInv, SocketsOwned, B, BeginCall, Issue, sessVars,
           sockVars
  <1>4. TypeSession' /\ TypeExchange' /\ TypeChannels' /\ TypeBoard' /\ TypeHistory'
    BY DEF SInv, TypeOK, TypeSession, TypeExchange, TypeChannels,
           TypeBoard, TypeHistory, BeginCall, Issue, sessVars,
           sockVars, gotVars, chanVars, devVars, histVars
  <1> QED BY <1>1, <1>2, <1>3, <1>4 DEF SInv, TypeOK

LEMMA DisconnectSInv ==
    ASSUME SInv, NEW c \in Requests, Disconnect(c)
    PROVE  SInv'
  <1>1. SocketsOwned'
    BY DEF SInv, TypeOK, SocketsOwned, B, Disconnect, Issue,
           CloseBoth, LeaveFrames, TypeSession, TypeCall, CallShape,
           Connected
  <1>2. TypeCall'
    BY ConstantsAssumption
       DEF SInv, TypeOK, TypeCall, Disconnect, Issue, CloseBoth,
           LeaveFrames
  <1>3. TypeSession'
    <2>1. sockets' \in Nat /\ orphans' \in Nat
      BY <1>1
         DEF SInv, TypeOK, TypeSession, SocketsOwned, B, Disconnect,
             CloseBoth, LeaveFrames
    <2>2. ctlUp' \in BOOLEAN /\ stmUp' \in BOOLEAN
      BY DEF SInv, TypeOK, TypeSession, Disconnect, CloseBoth,
             LeaveFrames
    <2>3. nextSeq' \in Seqs /\ config' \in Config /\ workMode' \in Modes
      BY DEF SInv, TypeOK, TypeSession, Disconnect, CloseBoth,
             LeaveFrames
    <2> QED BY <2>1, <2>2, <2>3 DEF TypeSession
  <1>4. TypeChannels'
    BY DEF SInv, TypeOK, TypeChannels, Disconnect, Issue, CloseBoth,
           LeaveFrames
  <1>5. TypeBoard'
    BY ConstantsAssumption, NoRecordingType
       DEF SInv, TypeOK, TypeBoard, Disconnect, Issue, CloseBoth,
           LeaveFrames
  <1>6. CallShape'
    BY DEF SInv, CallShape, Connected, Disconnect, Issue, CloseBoth,
           LeaveFrames
  <1>7. TypeExchange' /\ TypeHistory'
    BY DEF SInv, TypeOK, TypeExchange, TypeHistory, Disconnect,
           Issue, CloseBoth, LeaveFrames, gotVars, histVars
  <1> QED BY <1>1, <1>2, <1>3, <1>4, <1>5, <1>6, <1>7 DEF SInv, TypeOK

LEMMA DestroySInv ==
    ASSUME SInv, NEW c \in Requests, Destroy(c)
    PROVE  SInv'
  <1>1. TypeCall'
    BY ConstantsAssumption
       DEF SInv, TypeOK, TypeCall, Destroy, Issue, CloseBoth,
           LeaveFrames
  <1>2. TypeSession'
    <2>1. sockets' \in Nat /\ orphans' \in Nat
      BY DEF SInv, TypeOK, TypeSession, B, Destroy, CloseBoth
    <2>2. nextSeq' \in Seqs /\ config' \in Config /\ workMode' \in Modes
      BY ConstantsAssumption
         DEF SInv, TypeOK, TypeSession, Destroy, Modes
    <2> QED BY <2>1, <2>2 DEF TypeSession, Destroy, CloseBoth
  <1>3. TypeChannels'
    BY DEF SInv, TypeOK, TypeChannels, Destroy, Issue, CloseBoth,
           LeaveFrames
  <1>4. TypeBoard'
    BY ConstantsAssumption, NoRecordingType
       DEF SInv, TypeOK, TypeBoard, Destroy, Issue, CloseBoth,
           LeaveFrames
  <1>5. CallShape'
    BY DEF SInv, CallShape, Connected, Destroy, Issue, CloseBoth,
           LeaveFrames
  <1>6. SocketsOwned'
    BY DEF SInv, SocketsOwned, B, Destroy, Issue, CloseBoth,
           LeaveFrames
  <1>7. TypeExchange' /\ TypeHistory'
    BY DEF SInv, TypeOK, TypeExchange, TypeHistory, Destroy, Issue,
           CloseBoth, LeaveFrames, gotVars, histVars
  <1> QED BY <1>1, <1>2, <1>3, <1>4, <1>5, <1>6, <1>7 DEF SInv, TypeOK

LEMMA BeginConnectSInv ==
    ASSUME SInv, NEW c \in Requests, BeginConnect(c)
    PROVE  SInv'
  <1>1. SocketsOwned'
    BY DEF SInv, TypeOK, SocketsOwned, B, BeginConnect, Issue,
           CloseBoth, LeaveFrames, TypeSession, TypeCall, CallShape,
           Connected
  <1>2. TypeCall'
    BY ConstantsAssumption
       DEF SInv, TypeOK, TypeCall, BeginConnect, Issue, CloseBoth,
           LeaveFrames
  <1>3. TypeSession'
    <2>1. sockets' \in Nat /\ orphans' \in Nat
      BY <1>1
         DEF SInv, TypeOK, TypeSession, SocketsOwned, B, BeginConnect,
             CloseBoth, LeaveFrames
    <2>2. ctlUp' \in BOOLEAN /\ stmUp' \in BOOLEAN
      BY DEF SInv, TypeOK, TypeSession, BeginConnect, CloseBoth,
             LeaveFrames
    <2>3. nextSeq' \in Seqs /\ config' \in Config /\ workMode' \in Modes
      BY DEF SInv, TypeOK, TypeSession, BeginConnect, CloseBoth,
             LeaveFrames
    <2> QED BY <2>1, <2>2, <2>3 DEF TypeSession
  <1>4. TypeChannels'
    BY DEF SInv, TypeOK, TypeChannels, BeginConnect, Issue,
           CloseBoth, LeaveFrames
  <1>5. TypeBoard'
    BY ConstantsAssumption, NoRecordingType
       DEF SInv, TypeOK, TypeBoard, BeginConnect, Issue, CloseBoth,
           LeaveFrames
  <1>6. CallShape'
    BY DEF SInv, CallShape, Connected, BeginConnect, Issue,
           CloseBoth, LeaveFrames
  <1>7. TypeExchange' /\ TypeHistory'
    BY DEF SInv, TypeOK, TypeExchange, TypeHistory, BeginConnect,
           Issue, CloseBoth, LeaveFrames, gotVars, histVars
  <1> QED BY <1>1, <1>2, <1>3, <1>4, <1>5, <1>6, <1>7 DEF SInv, TypeOK

LEMMA ConnectControlSInv ==
    ASSUME SInv, ConnectControl
    PROVE  SInv'
  <1>1. SocketsOwned'
    BY DEF SInv, TypeOK, SocketsOwned, B, ConnectControl, Finish,
           sessVars, TypeSession, TypeCall, CallShape, Connected
  <1>2. TypeCall'
    BY DEF SInv, TypeOK, TypeCall, ConnectControl, Finish
  <1>3. TypeSession'
    <2>1. sockets' \in Nat /\ orphans' \in Nat
      BY <1>1
         DEF SInv, TypeOK, TypeSession, SocketsOwned, B, ConnectControl,
             Finish
    <2>2. ctlUp' \in BOOLEAN /\ stmUp' \in BOOLEAN
      BY DEF SInv, TypeOK, TypeSession, ConnectControl, sessVars,
             Finish
    <2>3. nextSeq' \in Seqs /\ config' \in Config /\ workMode' \in Modes
      BY DEF SInv, TypeOK, TypeSession, ConnectControl, sessVars,
             Finish
    <2> QED BY <2>1, <2>2, <2>3 DEF TypeSession
  <1>4. TypeBoard'
    BY DEF SInv, TypeOK, TypeBoard, ConnectControl, Finish
  <1>5. CallShape'
    BY DEF SInv, CallShape, Connected, ConnectControl, Finish,
           sessVars
  <1>6. TypeExchange' /\ TypeChannels' /\ TypeHistory'
    BY DEF SInv, TypeOK, TypeExchange, TypeChannels, TypeHistory,
           ConnectControl, Finish, sessVars, gotVars, chanVars,
           histVars
  <1> QED BY <1>1, <1>2, <1>3, <1>4, <1>5, <1>6 DEF SInv, TypeOK

LEMMA OpenStreamSInv ==
    ASSUME SInv, OpenStream
    PROVE  SInv'
  <1>1. SocketsOwned'
    BY DEF SInv, TypeOK, SocketsOwned, B, OpenStream, Finish,
           TypeSession, TypeCall, CallShape, Connected
  <1>2. TypeCall'
    BY DEF SInv, TypeOK, TypeCall, OpenStream, Finish
  <1>3. TypeSession'
    <2>1. sockets' \in Nat /\ orphans' \in Nat
      BY <1>1
         DEF SInv, TypeOK, TypeSession, SocketsOwned, B, OpenStream,
             Finish
    <2>2. ctlUp' \in BOOLEAN /\ stmUp' \in BOOLEAN
      BY DEF SInv, TypeOK, TypeSession, OpenStream, Finish
    <2>3. nextSeq' \in Seqs /\ config' \in Config /\ workMode' \in Modes
      BY ConstantsAssumption
         DEF SInv, TypeOK, TypeSession, OpenStream, Finish, Modes, Seqs
    <2> QED BY <2>1, <2>2, <2>3 DEF TypeSession
  <1>4. TypeHistory'
    BY DEF SInv, TypeOK, TypeHistory, OpenStream, Finish
  <1>5. CallShape'
    BY DEF SInv, CallShape, Connected, OpenStream, Finish
  <1>6. TypeExchange' /\ TypeChannels' /\ TypeBoard'
    BY DEF SInv, TypeOK, TypeExchange, TypeChannels, TypeBoard,
           OpenStream, Finish, gotVars, chanVars, devVars
  <1> QED BY <1>1, <1>2, <1>3, <1>4, <1>5, <1>6 DEF SInv, TypeOK

LEMMA OpenStreamFailsSInv ==
    ASSUME SInv, OpenStreamFails
    PROVE  SInv'
  <1>1. SocketsOwned'
    BY DEF SInv, TypeOK, SocketsOwned, B, OpenStreamFails, Finish,
           sessVars, TypeSession, TypeCall, CallShape, Connected
  <1>2. TypeCall'
    BY DEF SInv, TypeOK, TypeCall, OpenStreamFails, Finish
  <1>3. TypeSession'
    <2>1. sockets' \in Nat /\ orphans' \in Nat
      BY <1>1
         DEF SInv, TypeOK, TypeSession, SocketsOwned, B,
             OpenStreamFails, Finish
    <2>2. ctlUp' \in BOOLEAN /\ stmUp' \in BOOLEAN
      BY DEF SInv, TypeOK, TypeSession, OpenStreamFails, sessVars,
             Finish
    <2>3. nextSeq' \in Seqs /\ config' \in Config /\ workMode' \in Modes
      BY DEF SInv, TypeOK, TypeSession, OpenStreamFails, sessVars,
             Finish
    <2> QED BY <2>1, <2>2, <2>3 DEF TypeSession
  <1>4. CallShape'
    BY DEF SInv, CallShape, Connected, OpenStreamFails, Finish,
           sessVars
  <1>5. TypeExchange' /\ TypeChannels' /\ TypeBoard' /\ TypeHistory'
    BY DEF SInv, TypeOK, TypeExchange, TypeChannels, TypeBoard,
           TypeHistory, OpenStreamFails, Finish, sessVars, gotVars,
           chanVars, devVars, histVars
  <1> QED BY <1>1, <1>2, <1>3, <1>4, <1>5 DEF SInv, TypeOK

LEMMA SendFrameSInv ==
    ASSUME SInv, SendFrame
    PROVE  SInv'
  <1>a. Plan(call)[step] \in PlanCommands
    BY PlanType DEF SInv, TypeOK, TypeCall, CallShape, SendFrame
  <1>b. Frame \in Commands
    BY <1>a DEF Frame, PlanCommands, Commands, SInv, TypeOK, TypeSession
  <1>1. TypeCall'
    BY DEF SInv, TypeOK, TypeCall, SendFrame
  <1>2. TypeSession'
    BY ConstantsAssumption
       DEF SInv, TypeOK, TypeSession, SendFrame, sockVars, Seqs
  <1>3. TypeExchange'
    BY <1>b
       DEF SInv, TypeOK, TypeExchange, SendFrame
  <1>4. TypeChannels'
    BY <1>b
       DEF SInv, TypeOK, TypeChannels, SendFrame
  <1>5. TypeHistory'
    BY DEF SInv, TypeOK, TypeHistory, SendFrame
  <1>6. CallShape'
    BY DEF SInv, CallShape, Connected, SendFrame
  <1>7. SocketsOwned'
    BY DEF SInv, SocketsOwned, B, SendFrame, sockVars
  <1>8. TypeBoard'
    BY DEF SInv, TypeOK, TypeBoard, SendFrame, sockVars, devVars
  <1> QED BY <1>1, <1>2, <1>3, <1>4, <1>5, <1>6, <1>7, <1>8 DEF SInv, TypeOK

LEMMA SendFrameFailsSInv ==
    ASSUME SInv, SendFrameFails
    PROVE  SInv'
  <1>1. SocketsOwned'
    BY DEF SInv, TypeOK, SocketsOwned, B, SendFrameFails,
           CloseControl, LeaveFrames, Finish, TypeSession, TypeCall,
           CallShape, Connected
  <1>2. TypeCall'
    BY DEF SInv, TypeOK, TypeCall, SendFrameFails, CloseControl,
           LeaveFrames, Finish
  <1>3. TypeSession'
    <2>1. sockets' \in Nat /\ orphans' \in Nat
      BY <1>1
         DEF SInv, TypeOK, TypeSession, SocketsOwned, B, SendFrameFails,
             CloseControl, LeaveFrames, Finish
    <2>2. ctlUp' \in BOOLEAN /\ stmUp' \in BOOLEAN
      BY DEF SInv, TypeOK, TypeSession, SendFrameFails, CloseControl,
             LeaveFrames, Finish
    <2>3. nextSeq' \in Seqs /\ config' \in Config /\ workMode' \in Modes
      BY ConstantsAssumption
         DEF SInv, TypeOK, TypeSession, SendFrameFails, CloseControl,
             LeaveFrames, Finish, Seqs
    <2> QED BY <2>1, <2>2, <2>3 DEF TypeSession
  <1>4. TypeChannels'
    BY DEF SInv, TypeOK, TypeChannels, SendFrameFails, CloseControl,
           LeaveFrames, Finish
  <1>5. CallShape'
    BY DEF SInv, CallShape, Connected, SendFrameFails, CloseControl,
           LeaveFrames, Finish
  <1>6. TypeExchange' /\ TypeBoard' /\ TypeHistory'
    BY DEF SInv, TypeOK, TypeExchange, TypeBoard, TypeHistory,
           SendFrameFails, CloseControl, LeaveFrames, Finish,
           gotVars, histVars
  <1> QED BY <1>1, <1>2, <1>3, <1>4, <1>5, <1>6 DEF SInv, TypeOK

LEMMA ReadCaptureSInv ==
    ASSUME SInv, ReadCapture
    PROVE  SInv'
  <1>a. Head(dataQ) \in Packets /\ Tail(dataQ) \in Seq(Packets)
    BY QueueType DEF SInv, TypeOK, TypeChannels, ReadCapture
  <1>1. TypeCall'
    BY DEF SInv, TypeOK, TypeCall, ReadCapture, Finish
  <1>2. TypeExchange'
    BY <1>a
       DEF SInv, TypeOK, TypeExchange, ReadCapture, Finish
  <1>3. TypeChannels'
    BY <1>a
       DEF SInv, TypeOK, TypeChannels, ReadCapture, Finish
  <1>4. TypeHistory'
    <2>1. known' = known /\ owed' \in {owed, owed + 1}
      BY DEF ReadCapture
    <2>2. adrift' = adrift \/ adrift' = TRUE
      BY DEF ReadCapture
    <2>3. owed' \in Nat
      BY <2>1 DEF SInv, TypeOK, TypeHistory
    <2>4. adrift' \in BOOLEAN
      BY <2>2 DEF SInv, TypeOK, TypeHistory
    <2> QED BY <2>1, <2>3, <2>4 DEF SInv, TypeOK, TypeHistory
  <1>5. CallShape'
    BY DEF SInv, CallShape, Connected, ReadCapture, Finish,
           sessVars
  <1>6. SocketsOwned'
    BY DEF SInv, SocketsOwned, B, ReadCapture, Finish, sessVars,
           sockVars
  <1>7. TypeSession' /\ TypeBoard'
    BY DEF SInv, TypeOK, TypeSession, TypeBoard, ReadCapture,
           Finish, sessVars, sockVars, devVars
  <1> QED BY <1>1, <1>2, <1>3, <1>4, <1>5, <1>6, <1>7 DEF SInv, TypeOK

LEMMA ReadDataFailsSInv ==
    ASSUME SInv, ReadDataFails
    PROVE  SInv'
  <1>1. SocketsOwned'
    BY DEF SInv, TypeOK, SocketsOwned, B, ReadDataFails,
           CloseStream, Finish, TypeSession, TypeCall, CallShape,
           Connected
  <1>2. TypeCall'
    BY DEF SInv, TypeOK, TypeCall, ReadDataFails, CloseStream,
           Finish
  <1>3. TypeSession'
    <2>1. sockets' \in Nat /\ orphans' \in Nat
      BY <1>1
         DEF SInv, TypeOK, TypeSession, SocketsOwned, B, ReadDataFails,
             CloseStream, Finish
    <2>2. ctlUp' \in BOOLEAN /\ stmUp' \in BOOLEAN
      BY DEF SInv, TypeOK, TypeSession, ReadDataFails, CloseStream,
             Finish
    <2>3. nextSeq' \in Seqs /\ config' \in Config /\ workMode' \in Modes
      BY DEF SInv, TypeOK, TypeSession, ReadDataFails, CloseStream,
             Finish
    <2> QED BY <2>1, <2>2, <2>3 DEF TypeSession
  <1>4. TypeChannels'
    BY DEF SInv, TypeOK, TypeChannels, ReadDataFails, CloseStream,
           Finish
  <1>5. TypeBoard'
    BY ConstantsAssumption, NoRecordingType
       DEF SInv, TypeOK, TypeBoard, ReadDataFails, CloseStream,
           Finish
  <1>6. TypeHistory'
    <2>1. owed \in Nat /\ B(pc = "data") \in Nat
      BY DEF SInv, TypeOK, TypeHistory, B
    <2> QED BY <2>1 DEF SInv, TypeOK, TypeHistory, ReadDataFails
  <1>7. CallShape'
    BY DEF SInv, CallShape, Connected, ReadDataFails, CloseStream,
           Finish
  <1>8. TypeExchange'
    BY DEF SInv, TypeOK, TypeExchange, ReadDataFails, CloseStream,
           Finish, gotVars
  <1> QED BY <1>1, <1>2, <1>3, <1>4, <1>5, <1>6, <1>7, <1>8 DEF SInv, TypeOK

LEMMA ReadResponseFailsSInv ==
    ASSUME SInv, ReadResponseFails
    PROVE  SInv'
  <1>1. SocketsOwned'
    BY DEF SInv, TypeOK, SocketsOwned, B, ReadResponseFails,
           CloseControl, LeaveFrames, Finish, TypeSession, TypeCall,
           CallShape, Connected
  <1>2. TypeCall'
    BY DEF SInv, TypeOK, TypeCall, ReadResponseFails, CloseControl,
           LeaveFrames, Finish
  <1>3. TypeSession'
    <2>1. sockets' \in Nat /\ orphans' \in Nat
      BY <1>1
         DEF SInv, TypeOK, TypeSession, SocketsOwned, B,
             ReadResponseFails, CloseControl, LeaveFrames, Finish
    <2>2. ctlUp' \in BOOLEAN /\ stmUp' \in BOOLEAN
      BY DEF SInv, TypeOK, TypeSession, ReadResponseFails, CloseControl,
             LeaveFrames, Finish
    <2>3. nextSeq' \in Seqs /\ config' \in Config /\ workMode' \in Modes
      BY DEF SInv, TypeOK, TypeSession, ReadResponseFails, CloseControl,
             LeaveFrames, Finish
    <2> QED BY <2>1, <2>2, <2>3 DEF TypeSession
  <1>4. TypeChannels'
    BY DEF SInv, TypeOK, TypeChannels, ReadResponseFails,
           CloseControl, LeaveFrames, Finish
  <1>5. CallShape'
    BY DEF SInv, CallShape, Connected, ReadResponseFails,
           CloseControl, LeaveFrames, Finish
  <1>6. TypeExchange' /\ TypeBoard' /\ TypeHistory'
    BY DEF SInv, TypeOK, TypeExchange, TypeBoard, TypeHistory,
           ReadResponseFails, CloseControl, LeaveFrames, Finish,
           gotVars, histVars
  <1> QED BY <1>1, <1>2, <1>3, <1>4, <1>5, <1>6 DEF SInv, TypeOK

LEMMA CommandRefusedSInv ==
    ASSUME SInv, CommandRefused
    PROVE  SInv'
  <1>1. TypeCall'
    BY DEF SInv, TypeOK, TypeCall, CommandRefused, Finish,
           TakeResponse
  <1>2. TypeChannels'
    BY DEF SInv, TypeOK, TypeChannels, CommandRefused, Finish,
           TakeResponse
  <1>3. CallShape'
    BY DEF SInv, CallShape, Connected, CommandRefused, Finish,
           TakeResponse
  <1>4. SocketsOwned'
    BY DEF SInv, SocketsOwned, B, CommandRefused, Finish,
           TakeResponse, sockVars
  <1>5. TypeSession' /\ TypeExchange' /\ TypeBoard' /\ TypeHistory'
    BY DEF SInv, TypeOK, TypeSession, TypeExchange, TypeBoard,
           TypeHistory, CommandRefused, Finish, TakeResponse,
           sockVars, gotVars, devVars
  <1> QED BY <1>1, <1>2, <1>3, <1>4, <1>5 DEF SInv, TypeOK

LEMMA NextCommandSInv ==
    ASSUME SInv, NextCommand
    PROVE  SInv'
  <1>1. TypeCall'
    BY DEF SInv, TypeOK, TypeCall, NextCommand, TakeResponse
  <1>2. TypeChannels'
    BY DEF SInv, TypeOK, TypeChannels, NextCommand, TakeResponse
  <1>3. CallShape'
    BY PlanType
       DEF SInv, TypeOK, CallShape, Connected, NextCommand,
           TakeResponse, TypeCall
  <1>4. SocketsOwned'
    BY DEF SInv, SocketsOwned, B, NextCommand, TakeResponse,
           sockVars
  <1>5. TypeSession' /\ TypeExchange' /\ TypeBoard' /\ TypeHistory'
    BY DEF SInv, TypeOK, TypeSession, TypeExchange, TypeBoard,
           TypeHistory, NextCommand, TakeResponse, sockVars,
           gotVars, devVars
  <1> QED BY <1>1, <1>2, <1>3, <1>4, <1>5 DEF SInv, TypeOK

LEMMA RecordStartedSInv ==
    ASSUME SInv, RecordStarted
    PROVE  SInv'
  <1>1. TypeCall'
    BY DEF SInv, TypeOK, TypeCall, RecordStarted, TakeResponse
  <1>2. TypeChannels'
    BY DEF SInv, TypeOK, TypeChannels, RecordStarted, TakeResponse
  <1>3. CallShape'
    BY DEF SInv, CallShape, Connected, RecordStarted, TakeResponse
  <1>4. SocketsOwned'
    BY DEF SInv, SocketsOwned, B, RecordStarted, TakeResponse,
           sockVars
  <1>5. TypeSession' /\ TypeExchange' /\ TypeBoard' /\ TypeHistory'
    BY DEF SInv, TypeOK, TypeSession, TypeExchange, TypeBoard,
           TypeHistory, RecordStarted, TakeResponse, sockVars,
           gotVars, devVars
  <1> QED BY <1>1, <1>2, <1>3, <1>4, <1>5 DEF SInv, TypeOK

LEMMA CallSucceedsSInv ==
    ASSUME SInv, CallSucceeds
    PROVE  SInv'
  <1>1. TypeCall'
    BY DEF SInv, TypeOK, TypeCall, CallSucceeds, Finish,
           TakeResponse
  <1>2. TypeSession'
    BY NewConfigType, CallParameters
       DEF SInv, TypeOK, TypeSession, CallSucceeds, Finish,
           TakeResponse, sockVars, Modes, TypeCall, CallShape
  <1>3. TypeChannels'
    BY DEF SInv, TypeOK, TypeChannels, CallSucceeds, Finish,
           TakeResponse
  <1>4. TypeHistory'
    BY CallParameters
       DEF SInv, TypeOK, TypeHistory, CallSucceeds, Finish,
           TakeResponse, TypeCall, SettingsOf
  <1>5. CallShape'
    BY DEF SInv, CallShape, Connected, CallSucceeds, Finish,
           TakeResponse
  <1>6. SocketsOwned'
    BY DEF SInv, SocketsOwned, B, CallSucceeds, Finish,
           TakeResponse, sockVars
  <1>7. TypeExchange' /\ TypeBoard'
    BY DEF SInv, TypeOK, TypeExchange, TypeBoard, CallSucceeds,
           Finish, TakeResponse, sockVars, gotVars, devVars
  <1> QED BY <1>1, <1>2, <1>3, <1>4, <1>5, <1>6, <1>7 DEF SInv, TypeOK

LEMMA OpenRecordFileSInv ==
    ASSUME SInv, OpenRecordFile
    PROVE  SInv'
  <1>1. TypeCall'
    BY DEF SInv, TypeOK, TypeCall, OpenRecordFile
  <1>2. TypeExchange'
    BY DEF SInv, TypeOK, TypeExchange, OpenRecordFile
  <1>3. CallShape'
    BY DEF SInv, CallShape, Connected, OpenRecordFile, sessVars
  <1>4. SocketsOwned'
    BY DEF SInv, SocketsOwned, B, OpenRecordFile, sessVars,
           sockVars
  <1>5. TypeSession' /\ TypeChannels' /\ TypeBoard' /\ TypeHistory'
    BY DEF SInv, TypeOK, TypeSession, TypeChannels, TypeBoard,
           TypeHistory, OpenRecordFile, sessVars, sockVars,
           chanVars, devVars, histVars
  <1> QED BY <1>1, <1>2, <1>3, <1>4, <1>5 DEF SInv, TypeOK

LEMMA OpenRecordFileFailsSInv ==
    ASSUME SInv, OpenRecordFileFails
    PROVE  SInv'
  <1>1. TypeCall'
    BY DEF SInv, TypeOK, TypeCall, OpenRecordFileFails, Finish
  <1>2. TypeHistory'
    BY DEF SInv, TypeOK, TypeHistory, OpenRecordFileFails, Finish
  <1>3. CallShape'
    BY DEF SInv, CallShape, Connected, OpenRecordFileFails, Finish,
           sessVars
  <1>4. SocketsOwned'
    BY DEF SInv, SocketsOwned, B, OpenRecordFileFails, Finish,
           sessVars, sockVars
  <1>5. TypeSession' /\ TypeExchange' /\ TypeChannels' /\ TypeBoard'
    BY DEF SInv, TypeOK, TypeSession, TypeExchange, TypeChannels,
           TypeBoard, OpenRecordFileFails, Finish, sessVars,
           sockVars, gotVars, chanVars, devVars
  <1> QED BY <1>1, <1>2, <1>3, <1>4, <1>5 DEF SInv, TypeOK

LEMMA ReadRecordSInv ==
    ASSUME SInv, ReadRecord
    PROVE  SInv'
  <1>a. Head(dataQ) \in Packets /\ Tail(dataQ) \in Seq(Packets)
    BY QueueType DEF SInv, TypeOK, TypeChannels, ReadRecord
  <1>b. Head(dataQ).size \in Nat /\ Head(dataQ).seq \in Seqs
    BY <1>a DEF Packets
  <1>1. TypeCall'
    BY DEF SInv, TypeOK, TypeCall, ReadRecord, Recorded, Finish, callVars
  <1>2. TypeExchange'
    BY <1>b
       DEF SInv, TypeOK, TypeExchange, ReadRecord, Recorded, Finish
  <1>3. TypeChannels'
    BY <1>a
       DEF SInv, TypeOK, TypeChannels, ReadRecord, Finish
  <1>4. CallShape'
    BY DEF SInv, CallShape, Connected, ReadRecord, Recorded, Finish, callVars,
           sessVars
  <1>5. SocketsOwned'
    BY DEF SInv, SocketsOwned, B, ReadRecord, Recorded, Finish, callVars,
           sessVars, sockVars
  <1>6. TypeSession' /\ TypeBoard' /\ TypeHistory'
    BY DEF SInv, TypeOK, TypeSession, TypeBoard, TypeHistory,
           ReadRecord, Recorded, Finish, callVars, sessVars, sockVars,
           devVars, histVars
  <1> QED BY <1>1, <1>2, <1>3, <1>4, <1>5, <1>6 DEF SInv, TypeOK

LEMMA ReadRecordFailsSInv ==
    ASSUME SInv, ReadRecordFails
    PROVE  SInv'
  <1>a. Tail(dataQ) \in Seq(Packets)
    BY QueueType DEF SInv, TypeOK, TypeChannels, ReadRecordFails
  <1>1. TypeCall'
    BY DEF SInv, TypeOK, TypeCall, ReadRecordFails, Finish
  <1>2. TypeChannels'
    BY <1>a
       DEF SInv, TypeOK, TypeChannels, ReadRecordFails, Finish
  <1>3. TypeHistory'
    BY DEF SInv, TypeOK, TypeHistory, ReadRecordFails, Finish
  <1>4. CallShape'
    BY DEF SInv, CallShape, Connected, ReadRecordFails, Finish,
           sessVars
  <1>5. SocketsOwned'
    BY DEF SInv, SocketsOwned, B, ReadRecordFails, Finish, sessVars,
           sockVars
  <1>6. TypeSession' /\ TypeExchange' /\ TypeBoard'
    BY DEF SInv, TypeOK, TypeSession, TypeExchange, TypeBoard,
           ReadRecordFails, Finish, sessVars, sockVars, gotVars,
           devVars
  <1> QED BY <1>1, <1>2, <1>3, <1>4, <1>5, <1>6 DEF SInv, TypeOK

LEMMA ServeOldSInv ==
    ASSUME SInv, ServeOld
    PROVE  SInv'
  <1>a. Head(oldQ) \in Commands /\ Tail(oldQ) \in Seq(Commands)
    BY QueueType DEF SInv, TypeOK, TypeChannels, ServeOld
  <1>1. TypeChannels'
    BY <1>a
       DEF SInv, TypeOK, TypeChannels, ServeOld
  <1>2. TypeBoard'
    BY <1>a, ApplyType
       DEF SInv, TypeOK, TypeBoard, ServeOld
  <1>3. TypeCall' /\ TypeSession' /\ TypeExchange' /\ TypeHistory' /\ CallShape' /\ SocketsOwned'
    BY DEF SInv, TypeOK, TypeCall, TypeSession, TypeExchange,
           TypeHistory, CallShape, SocketsOwned, ServeOld, callVars,
           sessVars, sockVars, gotVars, histVars, B, Connected
  <1> QED BY <1>1, <1>2, <1>3 DEF SInv, TypeOK

LEMMA ServeSettingSInv ==
    ASSUME SInv, ServeSetting
    PROVE  SInv'
  <1>a. Head(cmdQ) \in Commands
    BY QueueType DEF SInv, TypeOK, TypeChannels, ServeSetting, Answer
  <1>1. TypeChannels'
    BY AnswerType
       DEF SInv, TypeOK, TypeChannels, ServeSetting, Answer
  <1>2. TypeBoard'
    BY <1>a, ApplyType
       DEF SInv, TypeOK, TypeBoard, ServeSetting, Answer
  <1>3. TypeCall' /\ TypeSession' /\ TypeExchange' /\ TypeHistory' /\ CallShape' /\ SocketsOwned'
    BY DEF SInv, TypeOK, TypeCall, TypeSession, TypeExchange,
           TypeHistory, CallShape, SocketsOwned, ServeSetting,
           Answer, callVars, sessVars, sockVars, gotVars, histVars,
           B, Connected
  <1> QED BY <1>1, <1>2, <1>3 DEF SInv, TypeOK

LEMMA ServeRefuseSInv ==
    ASSUME SInv, ServeRefuse
    PROVE  SInv'
  <1>1. TypeChannels'
    BY AnswerType
       DEF SInv, TypeOK, TypeChannels, ServeRefuse, Answer
  <1>2. TypeCall' /\ TypeSession' /\ TypeExchange' /\ TypeBoard' /\ TypeHistory' /\ CallShape' /\ SocketsOwned'
    BY DEF SInv, TypeOK, TypeCall, TypeSession, TypeExchange,
           TypeBoard, TypeHistory, CallShape, SocketsOwned,
           ServeRefuse, Answer, callVars, sessVars, sockVars,
           gotVars, histVars, B, Connected
  <1> QED BY <1>1, <1>2 DEF SInv, TypeOK

LEMMA ServeQuerySInv ==
    ASSUME SInv, ServeQuery
    PROVE  SInv'
  <1>1. TypeChannels'
    BY AnswerType
       DEF SInv, TypeOK, TypeChannels, ServeQuery, Answer
  <1>2. TypeCall' /\ TypeSession' /\ TypeExchange' /\ TypeBoard' /\ TypeHistory' /\ CallShape' /\ SocketsOwned'
    BY DEF SInv, TypeOK, TypeCall, TypeSession, TypeExchange,
           TypeBoard, TypeHistory, CallShape, SocketsOwned,
           ServeQuery, Answer, callVars, sessVars, sockVars,
           gotVars, histVars, B, Connected
  <1> QED BY <1>1, <1>2 DEF SInv, TypeOK

LEMMA ServeCaptureSInv ==
    ASSUME SInv, NEW code \in {0, 1}, ServeCapture(code)
    PROVE  SInv'
  <1>a. Head(cmdQ) \in Commands
    BY QueueType DEF SInv, TypeOK, TypeChannels, ServeCapture, Answer
  <1>1. TypeChannels'
    BY <1>a, AnswerType, EmitType
       DEF SInv, TypeOK, TypeChannels, ServeCapture, Answer, Emit,
           Commands, Captures
  <1>2. TypeBoard'
    BY ConstantsAssumption
       DEF SInv, TypeOK, TypeBoard, ServeCapture, Answer, Emit
  <1>3. TypeCall' /\ TypeSession' /\ TypeExchange' /\ TypeHistory' /\ CallShape' /\ SocketsOwned'
    BY DEF SInv, TypeOK, TypeCall, TypeSession, TypeExchange,
           TypeHistory, CallShape, SocketsOwned, ServeCapture,
           Answer, Emit, callVars, sessVars, sockVars, gotVars,
           histVars, B, Connected
  <1> QED BY <1>1, <1>2, <1>3 DEF SInv, TypeOK

LEMMA ServeStartSInv ==
    ASSUME SInv, ServeStart
    PROVE  SInv'
  <1>a. Head(cmdQ) \in Commands
    BY QueueType DEF SInv, TypeOK, TypeChannels, ServeStart, Answer
  <1>1. TypeChannels'
    BY AnswerType
       DEF SInv, TypeOK, TypeChannels, ServeStart, Answer
  <1>2. TypeBoard'
    BY <1>a
       DEF SInv, TypeOK, TypeBoard, ServeStart, Answer, Commands
  <1>3. TypeCall' /\ TypeSession' /\ TypeExchange' /\ TypeHistory' /\ CallShape' /\ SocketsOwned'
    BY DEF SInv, TypeOK, TypeCall, TypeSession, TypeExchange,
           TypeHistory, CallShape, SocketsOwned, ServeStart, Answer,
           callVars, sessVars, sockVars, gotVars, histVars, B,
           Connected
  <1> QED BY <1>1, <1>2, <1>3 DEF SInv, TypeOK

LEMMA StreamRecordSInv ==
    ASSUME SInv, StreamRecord
    PROVE  SInv'
  <1>1. TypeChannels'
    <2>1. PICK k \in 1..rec.left : Emit("rec", k, rec.seq)
      BY DEF StreamRecord
    <2>2. rec.seq \in Seqs /\ k \in Nat \ {0}
      BY DEF SInv, TypeOK, TypeBoard
    <2>3. dataQ' \in Seq(Packets)
      BY <2>1, <2>2, EmitType DEF SInv, TypeOK
    <2> QED BY <2>3 DEF SInv, TypeOK, TypeChannels, StreamRecord
  <1>2. TypeBoard'
    <2>1. rec' \in [seq : Seqs, left : Nat]
      BY DEF SInv, TypeOK, TypeBoard, StreamRecord
    <2>2. dev' = dev /\ link' = link /\ reboots' = reboots /\ strays' = strays
      BY DEF StreamRecord
    <2> QED BY <2>1, <2>2 DEF SInv, TypeOK, TypeBoard
  <1>3. TypeCall' /\ TypeSession' /\ TypeExchange' /\ TypeHistory' /\ CallShape' /\ SocketsOwned'
    BY DEF SInv, TypeOK, TypeCall, TypeSession, TypeExchange,
           TypeHistory, CallShape, SocketsOwned, StreamRecord, Emit,
           callVars, sessVars, sockVars, gotVars, histVars, B,
           Connected
  <1> QED BY <1>1, <1>2, <1>3 DEF SInv, TypeOK

LEMMA StreamStraySInv ==
    ASSUME SInv, StreamStray
    PROVE  SInv'
  <1>1. TypeChannels'
    BY EmitType
       DEF SInv, TypeOK, TypeChannels, StreamStray, Emit, TypeBoard
  <1>2. TypeBoard'
    BY ConstantsAssumption
       DEF SInv, TypeOK, TypeBoard, StreamStray, Emit
  <1>3. TypeCall' /\ TypeSession' /\ TypeExchange' /\ TypeHistory' /\ CallShape' /\ SocketsOwned'
    BY DEF SInv, TypeOK, TypeCall, TypeSession, TypeExchange,
           TypeHistory, CallShape, SocketsOwned, StreamStray, Emit,
           callVars, sessVars, sockVars, gotVars, histVars, B,
           Connected
  <1> QED BY <1>1, <1>2, <1>3 DEF SInv, TypeOK

LEMMA RebootSInv ==
    ASSUME SInv, Reboot
    PROVE  SInv'
  <1>1. TypeChannels'
    BY DEF SInv, TypeOK, TypeChannels, Reboot
  <1>2. TypeBoard'
    <2>1. dev' \in Config /\ rec' \in [seq : Seqs, left : Nat]
      BY ConstantsAssumption, NoRecordingType DEF Reboot
    <2>2. reboots' \in 0..MaxReboots
      BY ConstantsAssumption DEF SInv, TypeOK, TypeBoard, Reboot
    <2> QED BY <2>1, <2>2 DEF SInv, TypeOK, TypeBoard, Reboot
  <1>3. TypeHistory'
    BY DEF SInv, TypeOK, TypeHistory, Reboot
  <1>4. TypeCall' /\ TypeSession' /\ TypeExchange' /\ CallShape' /\ SocketsOwned'
    BY DEF SInv, TypeOK, TypeCall, TypeSession, TypeExchange,
           CallShape, SocketsOwned, Reboot, callVars, sessVars,
           sockVars, gotVars, B, Connected
  <1> QED BY <1>1, <1>2, <1>3, <1>4 DEF SInv, TypeOK

LEMMA InitSInv == Init => SInv
  <1> SUFFICES ASSUME Init PROVE SInv
    OBVIOUS
  <1>1. TypeCall
    BY ConstantsAssumption DEF Init, TypeCall, Calls
  <1>2. TypeSession
    <2>1. nextSeq \in Seqs /\ workMode \in Modes
      BY ConstantsAssumption DEF Init, Modes, Seqs
    <2> QED BY <2>1, ConstantsAssumption DEF Init, TypeSession
  <1>3. TypeExchange
    <2>1. cmd \in Commands /\ packet \in Packets
      BY ConstantsAssumption DEF Init, Commands, Packets, Ops, Seqs
    <2> QED BY <2>1 DEF Init, TypeExchange
  <1>4. TypeChannels
    BY DEF Init, TypeChannels
  <1>5. TypeBoard
    <2>1. reboots \in 0..MaxReboots /\ strays \in 0..MaxStrays
      BY ConstantsAssumption DEF Init
    <2> QED BY <2>1, ConstantsAssumption, NoRecordingType DEF Init, TypeBoard
  <1>6. TypeHistory
    BY DEF Init, TypeHistory
  <1>7. CallShape
    BY DEF Init, CallShape
  <1>8. SocketsOwned
    BY DEF Init, SocketsOwned, B
  <1> QED BY <1>1, <1>2, <1>3, <1>4, <1>5, <1>6, <1>7, <1>8 DEF SInv, TypeOK

\* Every step of the application, of the running call and of the board
\* preserves the invariant.
LEMMA NextSInv == SInv /\ [Next]_vars => SInv'
  <1> SUFFICES ASSUME SInv, [Next]_vars PROVE SInv'
    OBVIOUS
  <1>1. CASE Application
    <2>1. PICK c \in Requests :
             \/ SetWorkMode(c) \/ RejectCall(c) \/ BeginCall(c)
             \/ Disconnect(c) \/ Destroy(c) \/ BeginConnect(c)
      BY <1>1 DEF Application
    <2> QED BY <2>1, SetWorkModeSInv, RejectCallSInv, BeginCallSInv,
               DisconnectSInv, DestroySInv, BeginConnectSInv
  <1>2. CASE Host
    <2>1. CASE ConnectControl \/ OpenStream \/ OpenStreamFails
      BY <2>1, ConnectControlSInv, OpenStreamSInv, OpenStreamFailsSInv
    <2>2. CASE SendFrame \/ SendFrameFails
      BY <2>2, SendFrameSInv, SendFrameFailsSInv
    <2>3. CASE ReadCapture \/ ReadDataFails \/ ReadResponseFails
      BY <2>3, ReadCaptureSInv, ReadDataFailsSInv, ReadResponseFailsSInv
    <2>4. CASE CommandRefused \/ NextCommand \/ RecordStarted \/ CallSucceeds
      BY <2>4, CommandRefusedSInv, NextCommandSInv, RecordStartedSInv,
         CallSucceedsSInv
    <2>5. CASE \/ OpenRecordFile \/ OpenRecordFileFails
               \/ ReadRecord \/ ReadRecordFails
      BY <2>5, OpenRecordFileSInv, OpenRecordFileFailsSInv, ReadRecordSInv,
         ReadRecordFailsSInv
    <2> QED BY <1>2, <2>1, <2>2, <2>3, <2>4, <2>5 DEF Host
  <1>3. CASE Board
    <2>1. CASE ServeOld \/ ServeSetting \/ ServeRefuse \/ ServeQuery
      BY <2>1, ServeOldSInv, ServeSettingSInv, ServeRefuseSInv, ServeQuerySInv
    <2>2. CASE \E code \in {0, 1} : ServeCapture(code)
      BY <2>2, ServeCaptureSInv
    <2>3. CASE ServeStart \/ StreamRecord \/ StreamStray \/ Reboot
      BY <2>3, ServeStartSInv, StreamRecordSInv, StreamStraySInv, RebootSInv
    <2> QED BY <1>3, <2>1, <2>2, <2>3 DEF Board
  <1>4. CASE UNCHANGED vars
    <2>1. TypeOK'
      BY <1>4
         DEF SInv, TypeOK, TypeCall, TypeSession, TypeExchange, TypeChannels,
             TypeBoard, TypeHistory, vars, callVars, sessVars, sockVars,
             gotVars, chanVars, devVars, histVars
    <2>2. CallShape' /\ SocketsOwned'
      BY <1>4
         DEF SInv, CallShape, Connected, SocketsOwned, B, vars, callVars,
             sessVars, sockVars
    <2> QED BY <2>1, <2>2 DEF SInv
  <1> QED BY <1>1, <1>2, <1>3, <1>4 DEF Next

THEOREM SessionInvariant == Spec => []SInv
  BY InitSInv, NextSInv, PTL DEF Spec

\* In every execution each variable keeps its type: no frame, response or
\* packet is malformed, next_seq_ stays within its width, and no descriptor
\* is closed that the process does not have open.
THEOREM TypeCorrect == Spec => []TypeOK
  <1>1. SInv => TypeOK
    BY DEF SInv
  <1> QED BY <1>1, SessionInvariant, PTL

\* In every execution each open descriptor has an owner: the failure paths of
\* connect, read and write close exactly what they must.
THEOREM DescriptorsOwned == Spec => []SocketsOwned
  <1>1. SInv => SocketsOwned
    BY DEF SInv
  <1> QED BY <1>1, SessionInvariant, PTL

-----------------------------------------------------------------------------
(* The session implements its interface *)

\* What a running call still knows of its request, and the mode the session
\* can be in: the independent mode is refused wherever it could be set.
RequestShape ==
    /\ workMode = "synchronized"
    /\ pc \in {"connect", "open"} => call.op = "connect"
    /\ pc # "idle" /\ call.op = "configure" => call.mode = "synchronized"

\* A step within a call or of the board is none of the interface's.
Inside == UNCHANGED <<pc, call, result, ctlUp, stmUp, config, workMode>>

LEMMA InsideStutters ==
    ASSUME \/ Inside
           \/ /\ pc # "idle" /\ pc' # "idle"
              /\ UNCHANGED <<call, result, ctlUp, stmUp, config, workMode>>
    PROVE  UNCHANGED API!apiVars
  BY DEF Inside, API!apiVars, Connected

\* A call that ends in a failure.
LEMMA FinishFails ==
    ASSUME pc # "idle", Finish("failed"), UNCHANGED <<config, workMode>>,
           Connected' \in {Connected, FALSE}
    PROVE  API!Fail
  BY DEF Finish, API!Fail

\* The modes are two.
LEMMA SynchronizedMode ==
    ASSUME NEW m \in Modes, m # "independent"
    PROVE  m = "synchronized"
  BY DEF Modes

\* A call made is one of the interface's: begun, or answered by the session.
LEMMA ApplicationMaps ==
    ASSUME SInv, RequestShape, Application
    PROVE  API!Next /\ RequestShape'
  <1>1. PICK c \in Requests :
            \/ SetWorkMode(c) \/ RejectCall(c) \/ BeginCall(c)
            \/ Disconnect(c) \/ Destroy(c) \/ BeginConnect(c)
    BY DEF Application
  <1>2. /\ c \in Calls
        /\ c.op \in {"configure", "mode"} => c.mode \in Modes
    BY ConstantsAssumption, CallParameters
  <1>3. /\ API!Begin(c) \/ API!Local(c) => API!Next
        /\ ctlUp \in BOOLEAN /\ stmUp \in BOOLEAN
    BY DEF API!Next, SInv, TypeOK, TypeSession
  <1>4. CASE SetWorkMode(c)
    <2>1. /\ pc = "idle" /\ pc' = "idle" /\ call' = c /\ c.op = "mode"
          /\ UNCHANGED <<ctlUp, stmUp, config>>
          /\ \/ /\ c.mode = "independent" /\ result' = "failed"
                /\ workMode' = workMode
             \/ /\ c.mode # "independent" /\ result' = "ok"
                /\ workMode' = c.mode
      BY <1>4 DEF SetWorkMode, Issue
    <2>2. API!Local(c)
      BY <2>1 DEF API!Local, API!Applied, API!AppliedMode, API!Offline,
                  Connected
    <2>3. RequestShape'
      BY <1>2, <2>1, SynchronizedMode DEF RequestShape
    <2> QED BY <1>3, <2>2, <2>3
  <1>5. CASE RejectCall(c)
    <2>1. /\ pc = "idle" /\ pc' = "idle" /\ call' = c /\ result' = "failed"
          /\ c.op \in NeedsConnection /\ ~Admitted(c)
          /\ UNCHANGED <<ctlUp, stmUp, config, workMode>>
      BY <1>5 DEF RejectCall, Issue, sessVars
    <2>2. ~Connected \/ (c.op = "configure" /\ c.mode = "independent")
      BY <2>1 DEF Admitted, RequestShape
    <2>3. API!Local(c)
      BY <2>1, <2>2 DEF API!Local, API!Offline, NeedsConnection, Captures,
                        Connected
    <2>4. RequestShape'
      BY <2>1 DEF RequestShape
    <2> QED BY <1>3, <2>3, <2>4
  <1>6. CASE BeginCall(c)
    <2>1. /\ pc = "idle" /\ pc' = "send" /\ call' = c /\ Connected
          /\ c.op \in NeedsConnection
          /\ c.op = "configure" => c.mode # "independent"
          /\ UNCHANGED <<result, ctlUp, stmUp, config, workMode>>
      BY <1>6 DEF BeginCall, Issue, Admitted, sessVars
    <2>2. API!Begin(c)
      BY <2>1 DEF API!Begin, API!Offline, NeedsConnection, Captures,
                  Connected
    <2>3. RequestShape'
      BY <1>2, <2>1, SynchronizedMode DEF RequestShape
    <2> QED BY <1>3, <2>2, <2>3
  <1>7. CASE Disconnect(c)
    <2>1. /\ pc = "idle" /\ pc' = "idle" /\ call' = c /\ result' = "ok"
          /\ c.op = "disconnect" /\ ~ctlUp' /\ ~stmUp'
          /\ UNCHANGED <<config, workMode>>
      BY <1>7 DEF Disconnect, Issue, CloseBoth
    <2>2. API!Local(c)
      BY <2>1 DEF API!Local, API!Applied, API!AppliedMode, Connected
    <2>3. RequestShape'
      BY <2>1 DEF RequestShape
    <2> QED BY <1>3, <2>2, <2>3
  <1>8. CASE Destroy(c)
    <2>1. /\ pc = "idle" /\ pc' = "idle" /\ call' = c /\ result' = "ok"
          /\ c.op = "destroy" /\ ~ctlUp' /\ ~stmUp'
          /\ config' = Defaults /\ workMode' = "synchronized"
      BY <1>8 DEF Destroy, Issue, CloseBoth
    <2>2. API!Local(c)
      BY <2>1 DEF API!Local, API!Applied, API!AppliedMode, Connected
    <2>3. RequestShape'
      BY <2>1 DEF RequestShape
    <2> QED BY <1>3, <2>2, <2>3
  <1>9. CASE BeginConnect(c)
    <2>1. /\ pc = "idle" /\ pc' = "connect" /\ call' = c
          /\ c.op = "connect" /\ ~ctlUp' /\ ~stmUp'
          /\ UNCHANGED <<result, config, workMode>>
      BY <1>9 DEF BeginConnect, Issue, CloseBoth
    <2>2. API!Begin(c)
      BY <2>1 DEF API!Begin, Connected
    <2>3. RequestShape'
      BY <2>1 DEF RequestShape
    <2> QED BY <1>3, <2>2, <2>3
  <1> QED BY <1>1, <1>4, <1>5, <1>6, <1>7, <1>8, <1>9

\* A step of a running call ends it, in success or failure, or is none of the
\* interface's.
LEMMA HostMaps ==
    ASSUME SInv, RequestShape, Host
    PROVE  /\ API!Next \/ UNCHANGED API!apiVars
           /\ RequestShape'
  <1>1. ctlUp \in BOOLEAN /\ stmUp \in BOOLEAN
    BY DEF SInv, TypeOK, TypeSession
  <1>2. API!Succeed \/ API!Fail => API!Next
    BY DEF API!Next
  <1>3. ASSUME pc # "idle", UNCHANGED <<config, workMode>>, Finish("failed"),
               ctlUp' \in {ctlUp, FALSE}, stmUp' \in {stmUp, FALSE}
        PROVE  API!Next /\ RequestShape'
    <2>1. Connected' \in {Connected, FALSE}
      BY <1>1, <1>3 DEF Connected
    <2> QED BY <1>2, <1>3, <2>1, FinishFails DEF RequestShape, Finish
  <1>4. ASSUME pc \notin {"idle", "connect", "open"},
               pc' \notin {"idle", "connect", "open"},
               UNCHANGED <<call, result, ctlUp, stmUp, config, workMode>>
        PROVE  UNCHANGED API!apiVars /\ RequestShape'
    BY <1>4, InsideStutters DEF RequestShape
  <1>5. CASE ConnectControl
    <2>1. CASE Finish("failed")
      BY <1>3, <1>5, <2>1 DEF ConnectControl, sessVars
    <2>2. CASE pc' = "open"
      BY <1>5, <2>2, InsideStutters DEF ConnectControl, sessVars, RequestShape,
                                        Finish
    <2> QED BY <1>5, <2>1, <2>2 DEF ConnectControl
  <1>6. CASE OpenStream
    <2>1. /\ pc = "open" /\ pc' = "idle" /\ call' = call /\ result' = "ok"
          /\ ctlUp' = TRUE /\ stmUp' = TRUE
          /\ config' = Defaults /\ workMode' = "synchronized"
      BY <1>6 DEF OpenStream, Finish
    <2>2. call.op = "connect"
      BY <2>1 DEF RequestShape
    <2>3. API!Succeed
      BY <2>1, <2>2 DEF API!Succeed, API!Applied, API!AppliedMode, Connected
    <2> QED BY <1>2, <2>1, <2>3 DEF RequestShape
  <1>7. CASE OpenStreamFails
    BY <1>3, <1>7 DEF OpenStreamFails, sessVars
  <1>8. CASE SendFrame
    BY <1>4, <1>8 DEF SendFrame
  <1>9. CASE SendFrameFails
    BY <1>1, <1>3, <1>9 DEF SendFrameFails, CloseControl
  <1>10. CASE ReadCapture
    <2>1. CASE Finish("failed")
      BY <1>3, <1>10, <2>1 DEF ReadCapture, sessVars
    <2>2. CASE pc' = "resp" /\ UNCHANGED <<calls, call, step, result>>
      BY <1>4, <1>10, <2>2 DEF ReadCapture, sessVars
    <2> QED BY <1>10, <2>1, <2>2 DEF ReadCapture
  <1>11. CASE ReadDataFails
    BY <1>1, <1>3, <1>11 DEF ReadDataFails, CloseStream
  <1>12. CASE ReadResponseFails
    BY <1>1, <1>3, <1>12 DEF ReadResponseFails, CloseControl
  <1>13. CASE CommandRefused
    BY <1>1, <1>3, <1>13 DEF CommandRefused, TakeResponse
  <1>14. CASE NextCommand
    BY <1>4, <1>14 DEF NextCommand, TakeResponse
  <1>15. CASE RecordStarted
    BY <1>4, <1>15 DEF RecordStarted, TakeResponse
  <1>16. CASE CallSucceeds
    <2>1. /\ pc = "resp" /\ pc' = "idle" /\ call' = call /\ result' = "ok"
          /\ UNCHANGED <<ctlUp, stmUp>>
          /\ config' = NewConfig(call)
          /\ workMode' = IF call.op = "configure" THEN call.mode ELSE workMode
      BY <1>16 DEF CallSucceeds, TakeResponse, Finish
    <2>2. Connected /\ call.op \in NeedsConnection
      BY <2>1 DEF SInv, CallShape
    <2>3. API!Applied(call) = config' /\ API!AppliedMode(call) = workMode'
      BY <2>1, <2>2 DEF NewConfig, API!Applied, API!AppliedMode,
                        NeedsConnection, Captures
    <2>4. API!Succeed
      BY <2>1, <2>2, <2>3 DEF API!Succeed, Connected
    <2>5. RequestShape'
      BY <2>1 DEF RequestShape
    <2> QED BY <1>2, <2>4, <2>5
  <1>17. CASE OpenRecordFile
    BY <1>4, <1>17 DEF OpenRecordFile, sessVars
  <1>18. CASE OpenRecordFileFails
    BY <1>3, <1>18 DEF OpenRecordFileFails, sessVars
  <1>19. CASE ReadRecord
    <2>1. CASE Finish("ok")
      <3>1. /\ pc = "record" /\ pc' = "idle" /\ call' = call
            /\ result' = "ok"
            /\ UNCHANGED <<ctlUp, stmUp, config, workMode>>
        BY <1>19, <2>1 DEF ReadRecord, Recorded, Finish, sessVars
      <3>2. Connected /\ call.op = "record"
        BY <3>1 DEF SInv, CallShape
      <3>3. API!Succeed
        BY <3>1, <3>2 DEF API!Succeed, API!Applied, API!AppliedMode,
                          Connected
      <3> QED BY <1>2, <3>1, <3>3 DEF RequestShape
    <2>2. CASE UNCHANGED callVars
      BY <1>4, <1>19, <2>2 DEF ReadRecord, sessVars, callVars
    <2> QED BY <1>19, <2>1, <2>2 DEF ReadRecord, Recorded
  <1>20. CASE ReadRecordFails
    BY <1>3, <1>20 DEF ReadRecordFails, sessVars
  <1> QED BY <1>5, <1>6, <1>7, <1>8, <1>9, <1>10, <1>11, <1>12, <1>13, <1>14,
             <1>15, <1>16, <1>17, <1>18, <1>19, <1>20 DEF Host

\* A step of the board is none of the interface's.
LEMMA BoardMaps ==
    ASSUME RequestShape, Board
    PROVE  UNCHANGED API!apiVars /\ RequestShape'
  <1>1. UNCHANGED <<callVars, sessVars>>
    BY DEF Board, ServeOld, ServeSetting, ServeRefuse, ServeQuery,
           ServeCapture, ServeStart, Answer, StreamRecord, StreamStray, Reboot
  <1>2. Inside
    BY <1>1 DEF Inside, callVars, sessVars
  <1> QED BY <1>2, InsideStutters DEF Inside, RequestShape

\* The session's calls are the interface's: config_ changes only when a call
\* succeeds, and then to what was asked; a failed call leaves it as it was;
\* only connect() connects; the independent mode is never in force. This is
\* ImplementsAPI without its liveness.
THEOREM ImplementsAPISafety == Spec => API!SafetySpec
  <1>1. Init => API!Init /\ RequestShape
    BY DEF Init, API!Init, RequestShape, Connected
  <1>2. SInv /\ RequestShape /\ [Next]_vars =>
            [API!Next]_(API!apiVars) /\ RequestShape'
    <2> SUFFICES ASSUME SInv, RequestShape, [Next]_vars
                 PROVE  /\ API!Next \/ UNCHANGED API!apiVars
                        /\ RequestShape'
      OBVIOUS
    <2>1. CASE UNCHANGED vars
      <3>1. Inside
        BY <2>1 DEF vars, callVars, sessVars, Inside
      <3> QED BY <3>1, InsideStutters DEF Inside, RequestShape
    <2> QED BY <2>1, ApplicationMaps, HostMaps, BoardMaps DEF Next
  <1> QED BY <1>1, <1>2, SessionInvariant, PTL DEF Spec, API!SafetySpec

-----------------------------------------------------------------------------
(* Each step of a call brings it nearer to its end *)

\* The loop that receives a recording runs while a part of it is missing.
Unfinished == pc = "record" => received < call.len

\* What lies ahead, phase by phase.
LEMMA AheadFigures ==
    ASSUME SInv
    PROVE  /\ received \in Nat
           /\ pc = "idle" => Ahead = 0
           /\ pc = "connect" => Ahead = 2
           /\ pc = "open" => Ahead = 1
           /\ pc = "send" => Ahead = Later + 3
           /\ pc = "data" => Ahead = Later + 2
           /\ pc = "resp" => Ahead = Later + 1
           /\ pc = "file" => Ahead = call.len + 1
           /\ pc = "record" => Ahead = call.len - received
           /\ pc \in {"file", "record"} => call.len \in Nat \ {0}
           /\ pc \in {"send", "data", "resp"} =>
                  /\ Later \in Nat
                  /\ call.op = "record" => Later >= call.len + 1
  <1>1. call \in Calls /\ received \in Nat /\ step \in Nat
    BY DEF SInv, TypeOK, TypeCall, TypeExchange
  <1>2. call.op = "record" => call.len \in Nat \ {0}
    BY <1>1, CallParameters
  <1>3. pc \in {"file", "record"} => call.len \in Nat \ {0}
    BY <1>2 DEF SInv, CallShape
  <1>4. ASSUME pc \in {"send", "data", "resp"}
        PROVE  Later \in Nat /\ (call.op = "record" => Later >= call.len + 1)
    <2>1. Len(Plan(call)) \in Nat /\ step <= Len(Plan(call))
      BY <1>1, <1>4, PlanType DEF SInv, CallShape
    <2> DEFINE l == Len(Plan(call)) - step
    <2>2. l \in Nat
      BY <1>1, <2>1
    <2>3. CASE call.op = "record"
      <3>1. Later = 3 * l + (call.len + 1)
        BY <2>3 DEF Later
      <3> HIDE DEF l
      <3> QED BY <1>2, <2>2, <2>3, <3>1
    <2>4. CASE call.op # "record"
      <3>1. Later = 3 * l + 0
        BY <2>4 DEF Later
      <3> HIDE DEF l
      <3> QED BY <2>2, <2>4, <3>1
    <2> QED BY <2>3, <2>4
  <1>5. pc = "send" => Ahead = Later + 3
    BY DEF Ahead
  <1>6. pc = "data" => Ahead = Later + 2
    BY DEF Ahead
  <1>7. pc = "resp" => Ahead = Later + 1
    BY DEF Ahead
  <1>8. pc = "file" => Ahead = call.len + 1
    BY DEF Ahead
  <1>9. pc = "record" => Ahead = call.len - received
    BY DEF Ahead
  <1>10. /\ pc = "idle" => Ahead = 0
         /\ pc = "connect" => Ahead = 2
         /\ pc = "open" => Ahead = 1
    BY DEF Ahead
  <1> QED BY <1>1, <1>3, <1>4, <1>5, <1>6, <1>7, <1>8, <1>9, <1>10

\* The next command has one fewer after it.
LEMMA LaterFalls ==
    ASSUME SInv, pc = "resp", step < Len(Plan(call)),
           step' = step + 1, call' = call
    PROVE  Later' = Later - 3 /\ Later' \in Nat
  <1>1. step \in Nat /\ call \in Calls
    BY DEF SInv, TypeOK, TypeCall
  <1>2. Len(Plan(call)) \in Nat
    BY <1>1, PlanType DEF SInv, CallShape
  <1> DEFINE l == Len(Plan(call)) - (step + 1)
  <1>3. l \in Nat
    BY <1>1, <1>2
  <1>4. Len(Plan(call)) - step = l + 1 /\ Len(Plan(call')) - step' = l
    BY <1>1, <1>2
  <1> HIDE DEF l
  <1>5. CASE call.op = "record"
    <2>1. call.len \in Nat
      BY <1>1, <1>5, CallParameters
    <2>2. /\ Later = 3 * (l + 1) + (call.len + 1)
          /\ Later' = 3 * l + (call.len + 1)
      BY <1>4, <1>5 DEF Later
    <2> QED BY <1>3, <2>1, <2>2
  <1>6. CASE call.op # "record"
    <2>1. Later = 3 * (l + 1) + 0 /\ Later' = 3 * l + 0
      BY <1>4, <1>6 DEF Later
    <2> QED BY <1>3, <2>1
  <1> QED BY <1>5, <1>6

LEMMA RunningAhead ==
    ASSUME SInv, Unfinished, pc # "idle"
    PROVE  Ahead \in Nat \ {0}
  <1>1. pc \in {"connect", "open", "send", "data", "resp", "file", "record"}
    BY DEF SInv, TypeOK, TypeCall
  <1> QED BY <1>1, AheadFigures DEF Unfinished

\* A step that ends the call.
LEMMA FinishIsNearer ==
    ASSUME SInv, Unfinished, pc # "idle", pc' = "idle"
    PROVE  Ahead' \in 0..Ahead - 1 /\ Unfinished'
  <1>1. Ahead' = 0
    BY DEF Ahead
  <1> QED BY <1>1, RunningAhead DEF Unfinished

\* A step within the call.
LEMMA HostIsNearer ==
    ASSUME SInv, SInv', Unfinished, Host
    PROVE  Ahead' \in 0..Ahead - 1 /\ Unfinished'
  <1> USE DEF Finish
  <1>1. CASE \/ OpenStream \/ OpenStreamFails \/ SendFrameFails
             \/ ReadDataFails \/ ReadResponseFails \/ CommandRefused
             \/ CallSucceeds \/ OpenRecordFileFails \/ ReadRecordFails
    <2>1. pc # "idle" /\ pc' = "idle"
      BY <1>1 DEF OpenStream, OpenStreamFails, SendFrameFails, ReadDataFails,
                  ReadResponseFails, CommandRefused, CallSucceeds,
                  TakeResponse, OpenRecordFileFails, ReadRecordFails
    <2> QED BY <2>1, FinishIsNearer
  <1>2. CASE ConnectControl
    <2>1. CASE pc' = "idle"
      BY <1>2, <2>1, FinishIsNearer DEF ConnectControl
    <2>2. CASE pc' = "open"
      <3>1. Ahead = 2 /\ Ahead' = 1
        BY <1>2, <2>2 DEF ConnectControl, Ahead
      <3> QED BY <2>2, <3>1 DEF Unfinished
    <2> QED BY <1>2, <2>1, <2>2 DEF ConnectControl
  <1>3. CASE SendFrame
    <2>1. /\ pc = "send" /\ pc' \in {"data", "resp"}
          /\ call' = call /\ step' = step
      BY <1>3 DEF SendFrame
    <2>2. /\ Later' = Later /\ Later \in Nat /\ Ahead = Later + 3
          /\ Ahead' = Later' + 2 \/ Ahead' = Later' + 1
      BY <2>1, AheadFigures DEF Later, Ahead
    <2> QED BY <2>1, <2>2 DEF Unfinished
  <1>4. CASE ReadCapture
    <2>1. CASE pc' = "idle"
      BY <1>4, <2>1, FinishIsNearer DEF ReadCapture
    <2>2. CASE pc' = "resp"
      <3>1. pc = "data" /\ call' = call /\ step' = step
        BY <1>4, <2>2 DEF ReadCapture
      <3>2. /\ Later' = Later /\ Later \in Nat
            /\ Ahead = Later + 2 /\ Ahead' = Later' + 1
        BY <2>2, <3>1, AheadFigures DEF Later, Ahead
      <3> QED BY <2>2, <3>2 DEF Unfinished
    <2> QED BY <1>4, <2>1, <2>2 DEF ReadCapture
  <1>5. CASE NextCommand
    <2>1. /\ pc = "resp" /\ pc' = "send" /\ call' = call
          /\ step' = step + 1 /\ step < Len(Plan(call))
      BY <1>5 DEF NextCommand, TakeResponse
    <2>2. /\ Later' = Later - 3 /\ Later' \in Nat /\ Later \in Nat
          /\ Ahead = Later + 1
      BY <2>1, AheadFigures, LaterFalls
    <2>3. Ahead' = Later' + 3
      BY <2>1 DEF Ahead
    <2> QED BY <2>1, <2>2, <2>3 DEF Unfinished
  <1>6. CASE RecordStarted
    <2>1. /\ pc = "resp" /\ pc' = "file" /\ call' = call
          /\ call.op = "record"
      BY <1>6 DEF RecordStarted, TakeResponse
    <2>2. /\ Later \in Nat /\ Later >= call.len + 1 /\ Ahead = Later + 1
          /\ call.len \in Nat
      <3>1. call.len \in Nat
        BY <2>1, CallParameters DEF SInv, TypeOK, TypeCall
      <3> QED BY <2>1, <3>1, AheadFigures
    <2>3. Ahead' = call.len + 1
      BY <2>1 DEF Ahead
    <2> QED BY <2>1, <2>2, <2>3 DEF Unfinished
  <1>7. CASE OpenRecordFile
    <2>1. /\ pc = "file" /\ pc' = "record" /\ call' = call /\ received' = 0
      BY <1>7 DEF OpenRecordFile
    <2>2. Ahead = call.len + 1 /\ call.len \in Nat \ {0}
      BY <2>1, AheadFigures
    <2>3. Ahead' = call.len - 0
      BY <2>1 DEF Ahead
    <2> QED BY <2>1, <2>2, <2>3 DEF Unfinished
  <1>8. CASE ReadRecord
    <2>1. CASE pc' = "idle"
      BY <1>8, <2>1, FinishIsNearer DEF ReadRecord, Recorded
    <2>2. CASE pc' # "idle"
      <3>1. /\ pc = "record" /\ pc' = pc /\ call' = call
            /\ received' = received + Head(dataQ).size
            /\ received' <= call.len /\ received' # call.len
        BY <1>8, <2>2 DEF ReadRecord, Recorded, Fits, callVars
      <3>2. Head(dataQ).size \in Nat \ {0}
        <4>1. dataQ \in Seq(Packets) /\ dataQ # <<>>
          BY <1>8 DEF ReadRecord, SInv, TypeOK, TypeChannels
        <4>2. Head(dataQ) \in Packets
          BY <4>1
        <4> QED BY <4>2 DEF Packets
      <3>3. /\ Ahead = call.len - received /\ received \in Nat
            /\ call.len \in Nat
        BY <3>1, AheadFigures
      <3>4. Ahead' = call.len - received'
        BY <3>1 DEF Ahead
      <3> QED BY <3>1, <3>2, <3>3, <3>4 DEF Unfinished
    <2> QED BY <2>1, <2>2
  <1> QED BY <1>1, <1>2, <1>3, <1>4, <1>5, <1>6, <1>7, <1>8 DEF Host

\* No call is made in the middle of a recording, and the board has no part
\* in the loop.
LEMMA UnfinishedElsewhere ==
    ASSUME SInv, Unfinished, Application \/ Board \/ UNCHANGED vars
    PROVE  Unfinished'
  <1>1. CASE Application
    <2>1. pc' \in {pc, "send", "connect"} /\ pc = "idle"
      BY <1>1 DEF Application, Issue, SetWorkMode, RejectCall, BeginCall,
                  Disconnect, Destroy, BeginConnect
    <2> QED BY <2>1 DEF Unfinished
  <1>2. CASE Board
    <2>1. UNCHANGED <<callVars, gotVars>>
      BY <1>2 DEF Board, ServeOld, ServeSetting, ServeRefuse, ServeQuery,
                  ServeCapture, ServeStart, StreamRecord, StreamStray,
                  Reboot, Answer
    <2> QED BY <2>1 DEF callVars, gotVars, Unfinished
  <1>3. CASE UNCHANGED vars
    BY <1>3 DEF vars, callVars, gotVars, Unfinished
  <1> QED BY <1>1, <1>2, <1>3

\* Each step of a call leaves fewer ahead of it, for plans and recordings of
\* every length: what EveryCallReturns rests on, besides that the host's
\* thread runs and that every read ends.
THEOREM StepsAreNearer == Spec => EachStepIsNearer
  <1>1. Init => Unfinished
    BY DEF Init, Unfinished
  <1>2. SInv /\ SInv' /\ Unfinished /\ [Next]_vars => Unfinished'
    BY HostIsNearer, UnfinishedElsewhere DEF Next
  <1>3. SInv /\ SInv' /\ Unfinished /\ [Next]_vars =>
            [Host => Ahead' \in 0..Ahead - 1]_vars
    BY HostIsNearer
  <1> QED BY <1>1, <1>2, <1>3, SessionInvariant, PTL
          DEF Spec, EachStepIsNearer

=============================================================================

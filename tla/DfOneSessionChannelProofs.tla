--------------------- MODULE DfOneSessionChannelProofs ---------------------
(***************************************************************************)
(* What the session reads from its channels is its own: the responses, the *)
(* packets, the recordings and the settings, for every value of the        *)
(* constants. The inductive invariant XInv follows one exchange through    *)
(* both channels: a response is counted where it is (CountInv), it is the  *)
(* running command's while none is owed (OwnInv), the data channel holds   *)
(* what that command has produced (DataInv) or what was made of it         *)
(* (PacketInv, FileInv), and every setting known has no frame left that    *)
(* could change it (SettingsInv).                                          *)
(***************************************************************************)
EXTENDS DfOneSessionProofs

Exchanging == pc \in {"send", "data", "resp", "file", "record"}
Waiting == pc \in {"data", "resp"}

\* Every response still to come is on its way, and no more: those the host
\* has given up, and the one it waits for.
CountInv ==
    /\ ctlUp => Len(cmdQ) + Len(respQ) <= owed + B(Waiting)
    /\ ResponsesAccountedFor
    /\ ~ctlUp => cmdQ = <<>> /\ respQ = <<>>
    /\ respQ # <<>> => oldQ = <<>>
    /\ stmUp /\ ~adrift => owed = 0
    /\ pc \in {"connect", "open"} => call.op = "connect"

\* The command being exchanged, and its frame or its response.
OwnInv ==
    /\ Waiting => /\ cmd.op = Plan(call)[step].op
                  /\ cmd.val = Plan(call)[step].val
    /\ pc = "data" => cmd.op \in Captures
    /\ Waiting /\ owed = 0 =>
         /\ cmdQ # <<>> => Head(cmdQ) = cmd
         /\ respQ # <<>> => Head(respQ).seq = cmd.seq

NoData == dataQ = <<>> /\ rec.left = 0

\* The packet p came for the capture being made.
CameFor(p) ==
    /\ p.type \in {cmd.op, "other"}
    /\ p.seq = cmd.seq
    /\ p.type \in Captures => \A f \in known : p.regs[f] = config[f]

\* How much of the recording a packet brings.
Brings(p) == IF p.type = "rec" THEN p.size ELSE 0

\* g[i] is what the packets from the i-th on bring.
Amounts(q, g) ==
    /\ g \in [1..(Len(q) + 1) -> Nat]
    /\ g[Len(q) + 1] = 0
    /\ \A i \in 1..Len(q) : g[i] = g[i + 1] + Brings(q[i])
    /\ \A i, j \in 1..(Len(q) + 1) : i <= j => g[j] <= g[i]

\* The data channel brings the recording of which the host has got some; the
\* last packet to complete it is no stray.
Recording(got) ==
    /\ call.op = "record"
    /\ rec.left > 0 => rec.seq = cmd.seq
    /\ \A i \in 1..Len(dataQ) : dataQ[i].type = "rec" => dataQ[i].seq = cmd.seq
    /\ \E g \in [1..(Len(dataQ) + 1) -> Nat] :
         /\ Amounts(dataQ, g)
         /\ got + g[1] + rec.left <= call.len
         /\ got + g[1] = call.len /\ dataQ # <<>> =>
              dataQ[Len(dataQ)].type = "rec"

DataInv ==
    /\ ~stmUp => NoData
    /\ Connected /\ ~adrift =>
         /\ pc \in {"idle", "send"} => NoData
         /\ pc = "data" =>
              /\ rec.left = 0
              /\ dataQ # <<>> => /\ cmdQ = <<>> /\ Len(dataQ) = 1
                                 /\ CameFor(Head(dataQ))
         /\ pc = "resp" /\ cmd.op # "start" => NoData
         /\ pc = "resp" /\ cmd.op \in Captures => cmdQ = <<>>
         /\ pc = "resp" /\ cmd.op = "start" =>
              /\ respQ = <<>> \/ Head(respQ).code = 1 => NoData
              /\ Recording(0)
         /\ pc = "file" => Recording(0)
         /\ pc = "record" => Recording(received)

\* The packet taken is the one asked for, and so is the one returned.
PacketInv ==
    /\ pc = "resp" /\ cmd.op \in Captures /\ ~adrift =>
         /\ packet.type = cmd.op /\ packet.seq = cmd.seq
         /\ \A f \in known : packet.regs[f] = config[f]
    /\ pc = "idle" /\ result = "ok" /\ call.op \in Captures /\ ~adrift =>
         /\ packet.type = call.op /\ packet.seq = cmd.seq
         /\ \A f \in known : packet.regs[f] = config[f]

FileInv ==
    /\ pc = "record" /\ ~adrift =>
         /\ file \subseteq {cmd.seq}
         /\ received > 0 => file = {cmd.seq}
    /\ RecordingIsOwn

\* The commands of the running call that have been sent.
Sent == IF pc = "send" THEN 1..(step - 1) ELSE 1..step

\* No frame on its way is for a setting that is known; those a call has had
\* acknowledged on a board that is still there are the board's.
SettingsInv ==
    /\ \A i \in 1..Len(cmdQ) : cmdQ[i].op \notin known
    /\ \A i \in 1..Len(oldQ) : oldQ[i].op \notin known
    /\ SettingsAgree
    /\ Exchanging => \A i \in Sent : Plan(call)[i].op \notin known
    /\ Exchanging /\ step > 1 => oldQ = <<>>
    /\ Exchanging /\ owed = 0 /\ link =>
         \A i \in 1..(step - 1) :
             Plan(call)[i].op \in Settings =>
                 dev[Plan(call)[i].op] = Plan(call)[i].val
    /\ pc = "resp" /\ owed = 0 /\ link /\ cmd.op \in Settings =>
         (respQ # <<>> /\ Head(respQ).code = 0 => dev[cmd.op] = cmd.val)

XInv ==
    /\ SInv
    /\ CountInv /\ OwnInv /\ DataInv /\ PacketInv /\ FileInv /\ SettingsInv

-----------------------------------------------------------------------------
(* Queues *)

LEMMA QueueLen ==
    ASSUME NEW S, NEW q \in Seq(S)
    PROVE  Len(q) \in Nat /\ (q = <<>> <=> Len(q) = 0)
  OBVIOUS

LEMMA QueueRead ==
    ASSUME NEW S, NEW q \in Seq(S), q # <<>>
    PROVE  /\ Head(q) \in S /\ Head(q) = q[1]
           /\ Tail(q) \in Seq(S)
           /\ Len(q) \in Nat /\ Len(q) >= 1
           /\ Len(Tail(q)) = Len(q) - 1
           /\ \A i \in 1..Len(Tail(q)) : Tail(q)[i] = q[i + 1]
           /\ Len(q) = 1 => Tail(q) = <<>>
  <1>1. /\ Head(q) \in S /\ Tail(q) \in Seq(S)
        /\ Len(Tail(q)) = Len(q) - 1
        /\ \A i \in 1..Len(Tail(q)) : Tail(q)[i] = q[i + 1]
    BY HeadTailProperties
  <1>2. Head(q) = q[1]
    OBVIOUS
  <1>3. Len(q) \in Nat /\ Len(q) >= 1
    BY QueueLen
  <1>4. Len(q) = 1 => Tail(q) = <<>>
    <2>1. \A t \in Seq(S) : Len(t) = 0 => t = <<>>
      OBVIOUS
    <2>2. Len(q) = 1 => Len(Tail(q)) = 0
      BY <1>1
    <2> QED BY ONLY <1>1, <2>1, <2>2
  <1> QED BY <1>1, <1>2, <1>3, <1>4

LEMMA QueueAppend ==
    ASSUME NEW S, NEW q \in Seq(S), NEW e \in S
    PROVE  /\ Append(q, e) \in Seq(S)
           /\ Len(q) \in Nat
           /\ Len(Append(q, e)) = Len(q) + 1
           /\ \A i \in 1..Len(q) : Append(q, e)[i] = q[i]
           /\ Append(q, e)[Len(q) + 1] = e
           /\ q = <<>> => Head(Append(q, e)) = e
           /\ q # <<>> => Head(Append(q, e)) = Head(q)
           /\ Append(q, e) # <<>>
  <1>1. /\ Append(q, e) \in Seq(S) /\ Len(q) \in Nat
        /\ Len(Append(q, e)) = Len(q) + 1
        /\ \A i \in 1..Len(q) : Append(q, e)[i] = q[i]
        /\ Append(q, e)[Len(q) + 1] = e
    OBVIOUS
  <1>2. Append(q, e) # <<>>
    BY <1>1
  <1>3. Head(Append(q, e)) = Append(q, e)[1]
    BY <1>1, <1>2, QueueRead
  <1>4. q = <<>> => Len(q) = 0
    OBVIOUS
  <1>5. q # <<>> => Head(q) = q[1] /\ 1 \in 1..Len(q)
    BY QueueRead
  <1> QED BY <1>1, <1>2, <1>3, <1>4, <1>5

\* What holds of the elements of two queues holds of one after the other.
LEMMA QueueJoin ==
    ASSUME NEW S, NEW q \in Seq(S), NEW r \in Seq(S), NEW T,
           \A i \in 1..Len(q) : q[i].op \notin T,
           \A i \in 1..Len(r) : r[i].op \notin T
    PROVE  \A i \in 1..Len(q \o r) : (q \o r)[i].op \notin T
  <1>1. Len(q) \in Nat /\ Len(r) \in Nat /\ Len(q \o r) = Len(q) + Len(r)
    OBVIOUS
  <1>2. \A i \in 1..Len(q \o r) :
            (q \o r)[i] = IF i <= Len(q) THEN q[i] ELSE r[i - Len(q)]
    OBVIOUS
  <1> QED BY <1>1, <1>2

\* Reading a queue, or adding to it, leaves what holds of its elements.
LEMMA OpsRead ==
    ASSUME NEW S, NEW q \in Seq(S), NEW T, q # <<>>,
           \A i \in 1..Len(q) : q[i].op \notin T
    PROVE  /\ Head(q).op \notin T
           /\ \A i \in 1..Len(Tail(q)) : Tail(q)[i].op \notin T
  <1>1. \A i \in 1..Len(Tail(q)) : i + 1 \in 1..Len(q)
    BY QueueRead
  <1>2. 1 \in 1..Len(q)
    BY QueueRead
  <1> QED BY <1>1, <1>2, QueueRead

LEMMA OpsAppend ==
    ASSUME NEW S, NEW q \in Seq(S), NEW e \in S, NEW T, e.op \notin T,
           \A i \in 1..Len(q) : q[i].op \notin T
    PROVE  \A i \in 1..Len(Append(q, e)) : Append(q, e)[i].op \notin T
  <1>1. \A i \in 1..Len(Append(q, e)) : i \in 1..Len(q) \/ i = Len(q) + 1
    BY QueueAppend
  <1> QED BY <1>1, QueueAppend

-----------------------------------------------------------------------------
(* CountInv *)

LEMMA Queues ==
    ASSUME SInv
    PROVE  /\ cmdQ \in Seq(Commands) /\ oldQ \in Seq(Commands)
           /\ respQ \in Seq(Responses) /\ dataQ \in Seq(Packets)
           /\ Len(cmdQ) \in Nat /\ Len(respQ) \in Nat /\ owed \in Nat
           /\ ctlUp \in BOOLEAN /\ stmUp \in BOOLEAN
           /\ adrift \in BOOLEAN /\ link \in BOOLEAN
           /\ cmdQ = <<>> <=> Len(cmdQ) = 0
           /\ respQ = <<>> <=> Len(respQ) = 0
  <1>1. /\ cmdQ \in Seq(Commands) /\ oldQ \in Seq(Commands)
        /\ respQ \in Seq(Responses) /\ dataQ \in Seq(Packets)
    BY DEF SInv, TypeOK, TypeChannels
  <1>2. /\ owed \in Nat /\ ctlUp \in BOOLEAN /\ stmUp \in BOOLEAN
        /\ adrift \in BOOLEAN /\ link \in BOOLEAN
    BY DEF SInv, TypeOK, TypeSession, TypeHistory, TypeBoard
  <1> QED BY <1>1, <1>2, QueueLen

\* A response that is read is no longer counted.
LEMMA TakenCount ==
    ASSUME SInv, CountInv, TakeResponse, pc' \in {"idle", "send", "file"}
    PROVE  CountInv'
  <1>1. /\ respQ # <<>> /\ respQ' = Tail(respQ) /\ pc = "resp" /\ ctlUp
        /\ UNCHANGED <<ctlUp, stmUp, cmdQ, oldQ, link, owed, adrift>>
    BY DEF SInv, CallShape, Connected, TakeResponse, devVars
  <1>2. Len(respQ') = Len(respQ) - 1
    BY <1>1, Queues, QueueRead
  <1> DEFINE m == Len(cmdQ)
             n == Len(respQ)
             k == Len(respQ')
  <1>3. /\ m \in Nat /\ n \in Nat /\ k = n - 1 /\ n # 0 /\ owed \in Nat
        /\ cmdQ = <<>> <=> m = 0
    BY <1>1, <1>2, Queues
  <1>4. /\ m + n <= owed + 1
        /\ link => m + n = owed + 1
    BY <1>1 DEF CountInv, ResponsesAccountedFor, Waiting, B
  <1>5. ~Waiting' /\ Len(cmdQ') = m
    BY <1>1 DEF Waiting
  <1> HIDE DEF m, n, k
  <1>6. m + k <= owed /\ (link => m + k = owed)
    BY <1>3, <1>4
  <1>7. Len(cmdQ') + Len(respQ') <= owed' + B(Waiting')
    BY <1>1, <1>3, <1>5, <1>6 DEF B, k
  <1>8. ResponsesAccountedFor'
    BY <1>1, <1>5, <1>6 DEF CountInv, ResponsesAccountedFor, B, k
  <1> QED BY <1>1, <1>7, <1>8 DEF CountInv

\* No step loses count of the responses.
LEMMA CountNext ==
    ASSUME SInv, SInv', CountInv, [Next]_vars
    PROVE  CountInv'
  <1>1. ASSUME NEW c \in Requests, SetWorkMode(c) PROVE CountInv'
    BY <1>1, Queues DEF SetWorkMode, Issue, sockVars, gotVars, chanVars,
        devVars, histVars, CountInv, ResponsesAccountedFor, Waiting, B
  <1>2. ASSUME NEW c \in Requests, RejectCall(c) PROVE CountInv'
    BY <1>2, Queues DEF RejectCall, Issue, sessVars, sockVars, gotVars,
        chanVars, devVars, histVars, CountInv, ResponsesAccountedFor, Waiting,
        B
  <1>3. ASSUME NEW c \in Requests, BeginCall(c) PROVE CountInv'
    BY <1>3, Queues DEF BeginCall, Issue, sessVars, sockVars, gotVars,
        chanVars, devVars, histVars, CountInv, ResponsesAccountedFor, Waiting,
        B
  <1>4. ASSUME NEW c \in Requests, Disconnect(c) PROVE CountInv'
    BY <1>4, Queues DEF Disconnect, CloseBoth, Issue, gotVars, histVars,
        LeaveFrames, CountInv, ResponsesAccountedFor, Waiting, B
  <1>5. ASSUME NEW c \in Requests, Destroy(c) PROVE CountInv'
    BY <1>5, Queues DEF Destroy, CloseBoth, Issue, gotVars, LeaveFrames,
        CountInv, ResponsesAccountedFor, Waiting, B
  <1>6. ASSUME NEW c \in Requests, BeginConnect(c) PROVE CountInv'
    BY <1>6, Queues DEF BeginConnect, CloseBoth, Issue, gotVars, histVars,
        LeaveFrames, CountInv, ResponsesAccountedFor, Waiting, B
  <1>7. ASSUME ConnectControl PROVE CountInv'
    BY <1>7, Queues DEF SInv, CallShape, ConnectControl, Finish, sessVars,
        gotVars, chanVars, histVars, CountInv, ResponsesAccountedFor, Waiting,
        B
  <1>8. ASSUME OpenStream PROVE CountInv'
    BY <1>8, Queues DEF SInv, CallShape, OpenStream, Finish, gotVars,
        chanVars, devVars, CountInv, ResponsesAccountedFor, Waiting, B
  <1>9. ASSUME OpenStreamFails PROVE CountInv'
    BY <1>9, Queues DEF OpenStreamFails, Finish, sessVars, gotVars,
        chanVars, devVars, histVars, CountInv, ResponsesAccountedFor, Waiting,
        B
  <1>10. ASSUME SendFrame PROVE CountInv'
    <2>1. cmd' \in Commands
      BY DEF SInv, TypeOK, TypeExchange
    <2>2. Len(Append(cmdQ, cmd')) = Len(cmdQ) + 1
      BY <2>1, Queues, QueueAppend
    <2>3. cmdQ' = IF link THEN Append(cmdQ, cmd') ELSE cmdQ
      BY <1>10 DEF SendFrame
    <2>4. ctlUp
      BY <1>10 DEF SendFrame, SInv, CallShape, Connected
    <2>5. Len(cmdQ') + Len(respQ') <= owed' + 1
      BY <1>10, <2>2, <2>3, <2>4, Queues DEF SendFrame, CountInv, Waiting, B
    <2>6. link => Len(cmdQ') + Len(respQ') = owed' + 1
      BY <1>10, <2>2, <2>3, <2>4, Queues
         DEF SendFrame, CountInv, ResponsesAccountedFor, B
    <2>7. Waiting'
      BY <1>10 DEF SendFrame, Waiting
    <2> QED
      BY <1>10, <2>3, <2>4, <2>5, <2>6, <2>7, Queues
         DEF SendFrame, sockVars, devVars, CountInv, ResponsesAccountedFor,
             Waiting, B
  <1>11. ASSUME SendFrameFails PROVE CountInv'
    BY <1>11, Queues DEF SendFrameFails, CloseControl, Finish, gotVars,
        histVars, LeaveFrames, CountInv, ResponsesAccountedFor, Waiting, B
  <1>12. ASSUME ReadCapture PROVE CountInv'
    BY <1>12, Queues DEF ReadCapture, Finish, sessVars, sockVars, devVars,
        CountInv, ResponsesAccountedFor, Waiting, B
  <1>13. ASSUME ReadDataFails PROVE CountInv'
    BY <1>13, Queues DEF ReadDataFails, CloseStream, Finish, gotVars,
        CountInv, ResponsesAccountedFor, Waiting, B
  <1>14. ASSUME ReadResponseFails PROVE CountInv'
    BY <1>14, Queues DEF ReadResponseFails, CloseControl, Finish, gotVars,
        histVars, LeaveFrames, CountInv, ResponsesAccountedFor, Waiting, B
  <1>15. ASSUME CommandRefused PROVE CountInv'
    <2>1. TakeResponse /\ pc' \in {"idle", "send", "file"}
      BY <1>15 DEF CommandRefused, Finish
    <2> QED BY <2>1, TakenCount
  <1>16. ASSUME NextCommand PROVE CountInv'
    <2>1. TakeResponse /\ pc' \in {"idle", "send", "file"}
      BY <1>16 DEF NextCommand
    <2> QED BY <2>1, TakenCount
  <1>17. ASSUME RecordStarted PROVE CountInv'
    <2>1. TakeResponse /\ pc' \in {"idle", "send", "file"}
      BY <1>17 DEF RecordStarted
    <2> QED BY <2>1, TakenCount
  <1>18. ASSUME CallSucceeds PROVE CountInv'
    <2>1. TakeResponse /\ pc' \in {"idle", "send", "file"}
      BY <1>18 DEF CallSucceeds, Finish
    <2> QED BY <2>1, TakenCount
  <1>19. ASSUME OpenRecordFile PROVE CountInv'
    BY <1>19, Queues DEF OpenRecordFile, sessVars, sockVars, chanVars,
        devVars, histVars, CountInv, ResponsesAccountedFor, Waiting, B
  <1>20. ASSUME OpenRecordFileFails PROVE CountInv'
    BY <1>20, Queues DEF OpenRecordFileFails, Finish, sessVars, sockVars,
        gotVars, chanVars, devVars, CountInv, ResponsesAccountedFor, Waiting, B
  <1>21. ASSUME ReadRecord PROVE CountInv'
    BY <1>21, Queues DEF ReadRecord, Recorded, Finish, callVars, sessVars,
       sockVars,
        devVars, histVars, CountInv, ResponsesAccountedFor, Waiting, B
  <1>22. ASSUME ReadRecordFails PROVE CountInv'
    BY <1>22, Queues DEF ReadRecordFails, Finish, sessVars, sockVars,
        gotVars, devVars, CountInv, ResponsesAccountedFor, Waiting, B
  <1>23. ASSUME ServeOld PROVE CountInv'
    BY <1>23, Queues DEF ServeOld, callVars, sessVars, sockVars, gotVars,
        histVars, CountInv, ResponsesAccountedFor, Waiting, B
  <1>24. ASSUME ServeSetting PROVE CountInv'
    BY <1>24, Queues DEF ServeSetting, Answer, callVars, sessVars,
        sockVars, gotVars, histVars, CountInv, ResponsesAccountedFor, Waiting,
        B
  <1>25. ASSUME ServeRefuse PROVE CountInv'
    BY <1>25, Queues DEF ServeRefuse, Answer, callVars, sessVars, sockVars,
        gotVars, histVars, CountInv, ResponsesAccountedFor, Waiting, B
  <1>26. ASSUME ServeQuery PROVE CountInv'
    BY <1>26, Queues DEF ServeQuery, Answer, callVars, sessVars, sockVars,
        gotVars, histVars, CountInv, ResponsesAccountedFor, Waiting, B
  <1>27. ASSUME NEW code \in {0, 1}, ServeCapture(code) PROVE CountInv'
    BY <1>27, Queues DEF ServeCapture, Answer, Emit, callVars, sessVars,
        sockVars, gotVars, histVars, CountInv, ResponsesAccountedFor, Waiting,
        B
  <1>28. ASSUME ServeStart PROVE CountInv'
    BY <1>28, Queues DEF ServeStart, Answer, callVars, sessVars, sockVars,
        gotVars, histVars, CountInv, ResponsesAccountedFor, Waiting, B
  <1>29. ASSUME StreamRecord PROVE CountInv'
    BY <1>29, Queues DEF StreamRecord, Emit, callVars, sessVars, sockVars,
        gotVars, histVars, CountInv, ResponsesAccountedFor, Waiting, B
  <1>30. ASSUME StreamStray PROVE CountInv'
    BY <1>30, Queues DEF StreamStray, Emit, callVars, sessVars, sockVars,
        gotVars, histVars, CountInv, ResponsesAccountedFor, Waiting, B
  <1>31. ASSUME Reboot PROVE CountInv'
    BY <1>31, Queues DEF Reboot, callVars, sessVars, sockVars, gotVars,
        CountInv, ResponsesAccountedFor, Waiting, B
  <1>32. CASE UNCHANGED vars
    BY <1>32, Queues DEF vars, callVars, sessVars, sockVars, gotVars,
        chanVars, devVars, histVars, CountInv, ResponsesAccountedFor, Waiting,
        B
  <1>33. CASE Application
    BY <1>33, <1>1, <1>2, <1>3, <1>4, <1>5, <1>6 DEF Application
  <1>34. CASE Host
    BY <1>34, <1>7, <1>8, <1>9, <1>10, <1>11, <1>12, <1>13, <1>14, <1>15,
        <1>16, <1>17, <1>18, <1>19, <1>20, <1>21, <1>22 DEF Host
  <1>35. CASE Board
    BY <1>35, <1>23, <1>24, <1>25, <1>26, <1>27, <1>28, <1>29, <1>30, <1>31
       DEF Board
  <1> QED BY <1>32, <1>33, <1>34, <1>35 DEF Next

-----------------------------------------------------------------------------
(* OwnInv *)

\* While no response is owed, what is answered is the frame of the command.
LEMMA AnswerOwn ==
    ASSUME SInv, CountInv, OwnInv, NEW code \in {0, 1}, Answer(code)
    PROVE  OwnInv'
  <1>1. UNCHANGED <<pc, call, step, cmd, owed, ctlUp>>
    BY DEF Answer, callVars, sessVars, gotVars, histVars
  <1>2. SUFFICES ASSUME Waiting, owed = 0
                 PROVE  /\ cmdQ' # <<>> => Head(cmdQ') = cmd
                        /\ respQ' # <<>> => Head(respQ').seq = cmd.seq
    BY <1>1 DEF OwnInv, Waiting
  <1>3. ctlUp /\ cmdQ # <<>> /\ cmdQ' = Tail(cmdQ)
    BY <1>2 DEF SInv, CallShape, Connected, Waiting, Answer
  <1>4. Len(cmdQ) = 1 /\ respQ = <<>>
    <2> DEFINE m == Len(cmdQ)
               n == Len(respQ)
    <2>1. m \in Nat /\ n \in Nat /\ m # 0
      BY <1>3, Queues
    <2>2. m + n <= 1
      BY <1>2, <1>3 DEF CountInv, B, Waiting
    <2> HIDE DEF m, n
    <2>3. m = 1 /\ n = 0
      BY <2>1, <2>2
    <2>4. Len(cmdQ) = 1 /\ Len(respQ) = 0
      BY <2>3 DEF m, n
    <2> QED BY <2>4, Queues
  <1>5. cmdQ' = <<>>
    BY <1>3, <1>4, Queues, QueueRead
  <1>6. Head(cmdQ) = cmd /\ cmd \in Commands
    BY <1>2, <1>3 DEF OwnInv, SInv, TypeOK, TypeExchange
  <1>7. [seq |-> cmd.seq, code |-> code] \in Responses
    BY <1>6 DEF Commands, Responses
  <1>8. respQ' = Append(respQ, [seq |-> cmd.seq, code |-> code])
    BY <1>6 DEF Answer
  <1>9. Head(respQ').seq = cmd.seq
    BY <1>4, <1>7, <1>8, Queues, QueueAppend
  <1> QED BY <1>5, <1>9

LEMMA OwnNext ==
    ASSUME SInv, SInv', CountInv, OwnInv, [Next]_vars
    PROVE  OwnInv'
  <1>1. ASSUME NEW c \in Requests, SetWorkMode(c) PROVE OwnInv'
    BY <1>1, Queues DEF SetWorkMode, Issue, sockVars, gotVars, chanVars,
        devVars, histVars, OwnInv, Waiting
  <1>2. ASSUME NEW c \in Requests, RejectCall(c) PROVE OwnInv'
    BY <1>2, Queues DEF RejectCall, Issue, sessVars, sockVars, gotVars,
        chanVars, devVars, histVars, OwnInv, Waiting
  <1>3. ASSUME NEW c \in Requests, BeginCall(c) PROVE OwnInv'
    BY <1>3, Queues DEF BeginCall, Issue, sessVars, sockVars, gotVars,
        chanVars, devVars, histVars, OwnInv, Waiting
  <1>4. ASSUME NEW c \in Requests, Disconnect(c) PROVE OwnInv'
    BY <1>4, Queues DEF Disconnect, CloseBoth, Issue, gotVars, histVars,
        LeaveFrames, OwnInv, Waiting
  <1>5. ASSUME NEW c \in Requests, Destroy(c) PROVE OwnInv'
    BY <1>5, Queues DEF Destroy, CloseBoth, Issue, gotVars, LeaveFrames,
        OwnInv, Waiting
  <1>6. ASSUME NEW c \in Requests, BeginConnect(c) PROVE OwnInv'
    BY <1>6, Queues DEF BeginConnect, CloseBoth, Issue, gotVars, histVars,
        LeaveFrames, OwnInv, Waiting
  <1>7. ASSUME ConnectControl PROVE OwnInv'
    BY <1>7, Queues DEF ConnectControl, Finish, sessVars, gotVars,
        chanVars, histVars, OwnInv, Waiting
  <1>8. ASSUME OpenStream PROVE OwnInv'
    BY <1>8, Queues DEF OpenStream, Finish, gotVars, chanVars, devVars,
        OwnInv, Waiting
  <1>9. ASSUME OpenStreamFails PROVE OwnInv'
    BY <1>9, Queues DEF OpenStreamFails, Finish, sessVars, gotVars,
        chanVars, devVars, histVars, OwnInv, Waiting
  <1>10. ASSUME SendFrame PROVE OwnInv'
    <2>1. /\ cmd' = Frame /\ UNCHANGED <<call, step, respQ, owed>>
          /\ pc = "send" /\ ctlUp
      BY <1>10 DEF SendFrame, SInv, CallShape, Connected
    <2>2. cmd'.op = Plan(call)[step].op /\ cmd'.val = Plan(call)[step].val
      BY <2>1 DEF Frame
    <2>3. pc' = "data" => cmd'.op \in Captures
      BY <1>10 DEF SendFrame
    <2>4. owed = 0 => cmdQ = <<>> /\ respQ = <<>>
      BY <2>1, Queues DEF CountInv, Waiting, B
    <2>5. cmd' \in Commands
      BY DEF SInv, TypeOK, TypeExchange
    <2>6. cmdQ' \in {cmdQ, Append(cmdQ, cmd')}
      BY <1>10 DEF SendFrame
    <2>7. owed = 0 /\ cmdQ' # <<>> => Head(cmdQ') = cmd'
      BY <2>4, <2>5, <2>6, Queues, QueueAppend
    <2> QED BY <2>1, <2>2, <2>3, <2>4, <2>7 DEF OwnInv
  <1>11. ASSUME SendFrameFails PROVE OwnInv'
    BY <1>11, Queues DEF SendFrameFails, CloseControl, Finish, gotVars,
        histVars, LeaveFrames, OwnInv, Waiting
  <1>12. ASSUME ReadCapture PROVE OwnInv'
    BY <1>12, Queues DEF ReadCapture, Finish, sessVars, sockVars, devVars,
        OwnInv, Waiting
  <1>13. ASSUME ReadDataFails PROVE OwnInv'
    BY <1>13, Queues DEF ReadDataFails, CloseStream, Finish, gotVars,
        OwnInv, Waiting
  <1>14. ASSUME ReadResponseFails PROVE OwnInv'
    BY <1>14, Queues DEF ReadResponseFails, CloseControl, Finish, gotVars,
        histVars, LeaveFrames, OwnInv, Waiting
  <1>15. ASSUME CommandRefused PROVE OwnInv'
    BY <1>15, Queues DEF CommandRefused, Finish, TakeResponse, sockVars,
        gotVars, devVars, OwnInv, Waiting
  <1>16. ASSUME NextCommand PROVE OwnInv'
    BY <1>16, Queues DEF NextCommand, TakeResponse, sockVars, gotVars,
        devVars, OwnInv, Waiting
  <1>17. ASSUME RecordStarted PROVE OwnInv'
    BY <1>17, Queues DEF RecordStarted, TakeResponse, sockVars, gotVars,
        devVars, OwnInv, Waiting
  <1>18. ASSUME CallSucceeds PROVE OwnInv'
    BY <1>18, Queues DEF CallSucceeds, Finish, TakeResponse, sockVars,
        gotVars, devVars, OwnInv, Waiting
  <1>19. ASSUME OpenRecordFile PROVE OwnInv'
    BY <1>19, Queues DEF OpenRecordFile, sessVars, sockVars, chanVars,
        devVars, histVars, OwnInv, Waiting
  <1>20. ASSUME OpenRecordFileFails PROVE OwnInv'
    BY <1>20, Queues DEF OpenRecordFileFails, Finish, sessVars, sockVars,
        gotVars, chanVars, devVars, OwnInv, Waiting
  <1>21. ASSUME ReadRecord PROVE OwnInv'
    BY <1>21, Queues DEF ReadRecord, Recorded, Finish, callVars, sessVars,
       sockVars,
        devVars, histVars, OwnInv, Waiting
  <1>22. ASSUME ReadRecordFails PROVE OwnInv'
    BY <1>22, Queues DEF ReadRecordFails, Finish, sessVars, sockVars,
        gotVars, devVars, OwnInv, Waiting
  <1>23. ASSUME ServeOld PROVE OwnInv'
    BY <1>23, Queues DEF ServeOld, callVars, sessVars, sockVars, gotVars,
        histVars, OwnInv, Waiting
  <1>24. ASSUME ServeSetting PROVE OwnInv'
    BY <1>24, AnswerOwn DEF ServeSetting
  <1>25. ASSUME ServeRefuse PROVE OwnInv'
    BY <1>25, AnswerOwn DEF ServeRefuse
  <1>26. ASSUME ServeQuery PROVE OwnInv'
    BY <1>26, AnswerOwn DEF ServeQuery
  <1>27. ASSUME NEW code \in {0, 1}, ServeCapture(code) PROVE OwnInv'
    BY <1>27, AnswerOwn DEF ServeCapture
  <1>28. ASSUME ServeStart PROVE OwnInv'
    BY <1>28, AnswerOwn DEF ServeStart
  <1>29. ASSUME StreamRecord PROVE OwnInv'
    BY <1>29, Queues DEF StreamRecord, Emit, callVars, sessVars, sockVars,
        gotVars, histVars, OwnInv, Waiting
  <1>30. ASSUME StreamStray PROVE OwnInv'
    BY <1>30, Queues DEF StreamStray, Emit, callVars, sessVars, sockVars,
        gotVars, histVars, OwnInv, Waiting
  <1>31. ASSUME Reboot PROVE OwnInv'
    BY <1>31, Queues DEF Reboot, callVars, sessVars, sockVars, gotVars,
        OwnInv, Waiting
  <1>32. CASE UNCHANGED vars
    BY <1>32, Queues DEF vars, callVars, sessVars, sockVars, gotVars,
        chanVars, devVars, histVars, OwnInv, Waiting
  <1>33. CASE Application
    BY <1>33, <1>1, <1>2, <1>3, <1>4, <1>5, <1>6 DEF Application
  <1>34. CASE Host
    BY <1>34, <1>7, <1>8, <1>9, <1>10, <1>11, <1>12, <1>13, <1>14, <1>15,
        <1>16, <1>17, <1>18, <1>19, <1>20, <1>21, <1>22 DEF Host
  <1>35. CASE Board
    BY <1>35, <1>23, <1>24, <1>25, <1>26, <1>27, <1>28, <1>29, <1>30, <1>31
       DEF Board
  <1> QED BY <1>32, <1>33, <1>34, <1>35 DEF Next

-----------------------------------------------------------------------------
(* SettingsInv *)

LEMMA PlanOf ==
    ASSUME NEW c \in Calls, c.op \in NeedsConnection
    PROVE  /\ c.op = "configure" =>
                /\ Plan(c) = <<SetCommand("clk", c.cfg["clk"]),
                               SetCommand("rate", c.cfg["rate"]),
                               SetCommand("gain", c.cfg["gain"]),
                               SetCommand("lo", c.cfg["lo"])>>
                /\ Len(Plan(c)) = 4
           /\ c.op = "set" => /\ Plan(c) = <<SetCommand(c.field, c.val)>>
                              /\ Len(Plan(c)) = 1
           /\ c.op = "record" =>
                /\ Plan(c) = <<[op |-> "ssd", val |-> 0],
                               [op |-> "mask", val |-> 0],
                               [op |-> "start", val |-> c.len]>>
                /\ Len(Plan(c)) = 3
           /\ c.op \in {"ssd"} \cup Captures =>
                /\ Plan(c) = <<[op |-> c.op, val |-> 0]>>
                /\ Len(Plan(c)) = 1
  BY DEF Plan, Captures

\* What is sent for a clock source is the source itself.
LEMMA WireIs ==
    ASSUME NEW f, NEW v \in Nat, f = "clk" => v \in ClockSources
    PROVE  Wire(f, v) = v
  BY DEF Wire, ClockSources

LEMMA CommandIs ==
    ASSUME NEW f, NEW v \in Nat, f = "clk" => v \in ClockSources
    PROVE  SetCommand(f, v).op = f /\ SetCommand(f, v).val = v
  BY WireIs DEF SetCommand

LEMMA ConfigureCommands ==
    ASSUME NEW cfg \in Config, NEW f \in Settings
    PROVE  /\ SetCommand(f, cfg[f]).op = f
           /\ SetCommand(f, cfg[f]).val = cfg[f]
  BY ConfigType, CommandIs DEF Config

\* No call sends two commands of one kind.
LEMMA PlanDistinct ==
    ASSUME NEW c \in Calls, c.op \in NeedsConnection,
           NEW i \in 1..Len(Plan(c)), NEW j \in 1..Len(Plan(c)), i # j
    PROVE  Plan(c)[i].op # Plan(c)[j].op
  <1>1. CASE c.op = "configure"
    <2>1. c.cfg \in Config
      BY <1>1, CallParameters
    <2>2. \A k \in 1..4 : Plan(c)[k].op =
              CASE k = 1 -> "clk" [] k = 2 -> "rate" [] k = 3 -> "gain"
                [] OTHER -> "lo"
      BY <1>1, <2>1, PlanOf, ConfigureCommands DEF Settings
    <2> QED BY <1>1, <2>2, PlanOf
  <1>2. CASE c.op = "record"
    BY <1>2, PlanOf
  <1>3. CASE c.op \in {"set", "ssd"} \cup Captures
    BY <1>3, PlanOf
  <1> QED BY <1>1, <1>2, <1>3 DEF NeedsConnection

\* A call sends each setting it changes, with the value config_ takes.
LEMMA PlanCovers ==
    ASSUME NEW c \in Calls, c.op \in NeedsConnection, NEW f \in SettingsOf(c),
           config \in Config
    PROVE  \E i \in 1..Len(Plan(c)) :
               Plan(c)[i].op = f /\ Plan(c)[i].val = NewConfig(c)[f]
  <1>1. CASE c.op = "configure"
    <2>1. c.cfg \in Config /\ NewConfig(c) = c.cfg
      BY <1>1, CallParameters DEF NewConfig
    <2>2. f \in Settings
      BY <1>1 DEF SettingsOf
    <2>3. \E i \in 1..4 : Plan(c)[i] = SetCommand(f, c.cfg[f])
      BY <1>1, <2>2, PlanOf DEF Settings
    <2>4. /\ SetCommand(f, c.cfg[f]).op = f
          /\ SetCommand(f, c.cfg[f]).val = c.cfg[f]
      BY <2>1, <2>2, ConfigureCommands
    <2> QED BY <1>1, <2>1, <2>3, <2>4, PlanOf
  <1>2. CASE c.op = "set"
    <2>1. /\ c.field \in Settings /\ c.val \in Nat
          /\ c.field = "clk" => c.val \in ClockSources
      BY <1>2, CallParameters
    <2>2. f = c.field
      BY <1>2 DEF SettingsOf
    <2>3. NewConfig(c) = [config EXCEPT ![c.field] = c.val]
      BY <1>2 DEF NewConfig
    <2>4. NewConfig(c)[f] = c.val
      BY <2>1, <2>2, <2>3 DEF Config
    <2>5. Plan(c)[1] = SetCommand(f, c.val) /\ 1 \in 1..Len(Plan(c))
      BY <1>2, <2>2, PlanOf
    <2>6. SetCommand(f, c.val).op = f /\ SetCommand(f, c.val).val = c.val
      BY <2>1, <2>2, CommandIs
    <2> QED BY <2>4, <2>5, <2>6
  <1> QED BY <1>1, <1>2 DEF SettingsOf

\* The other settings of config_ stay.
LEMMA NewConfigKeeps ==
    ASSUME NEW c \in Calls, NEW f \in Settings \ SettingsOf(c),
           config \in Config
    PROVE  NewConfig(c)[f] = config[f]
  BY DEF NewConfig, SettingsOf, Config

\* While none is owed, a frame that is executed is the command's own, and no
\* response is waiting.
LEMMA ServedIsOwn ==
    ASSUME SInv, CountInv, OwnInv, cmdQ # <<>>, Exchanging, owed = 0
    PROVE  Waiting /\ respQ = <<>> /\ Head(cmdQ) = cmd
  <1> DEFINE m == Len(cmdQ)
             n == Len(respQ)
  <1>1. m \in Nat /\ n \in Nat /\ m # 0
    BY Queues
  <1>2. ctlUp
    BY DEF SInv, CallShape, Connected, Exchanging
  <1>3. m + n <= IF Waiting THEN 1 ELSE 0
    BY <1>2 DEF CountInv, B, Waiting
  <1> HIDE DEF m, n
  <1>4. Waiting /\ n = 0
    BY <1>1, <1>3
  <1>5. respQ = <<>>
    BY <1>4, Queues DEF n
  <1> QED BY <1>4, <1>5 DEF OwnInv

\* Executing a frame takes it from those on their way.
LEMMA ServedOps ==
    ASSUME SInv, SettingsInv, NEW code \in {0, 1}, Answer(code)
    PROVE  /\ Head(cmdQ).op \notin known
           /\ \A i \in 1..Len(cmdQ') : cmdQ'[i].op \notin known
           /\ \A i \in 1..Len(oldQ') : oldQ'[i].op \notin known
           /\ oldQ = <<>> /\ oldQ' = <<>> /\ known' = known
           /\ UNCHANGED <<pc, call, step, config, cmd, link, owed>>
  <1>1. /\ cmdQ # <<>> /\ cmdQ' = Tail(cmdQ) /\ oldQ = <<>> /\ oldQ' = oldQ
        /\ UNCHANGED <<known, pc, call, step, config, cmd, link, owed>>
    BY DEF Answer, callVars, sessVars, gotVars, histVars
  <1>2. \A i \in 1..Len(cmdQ) : cmdQ[i].op \notin known
    BY DEF SettingsInv
  <1>3. \A i \in 1..Len(oldQ') : oldQ'[i].op \notin known
    BY <1>1 DEF SettingsInv
  <1>4. cmdQ \in Seq(Commands)
    BY Queues
  <1> QED BY <1>1, <1>2, <1>3, <1>4, OpsRead

\* A command that is no setting leaves them.
LEMMA ServeOther ==
    ASSUME SInv, CountInv, OwnInv, SettingsInv, NEW code \in {0, 1},
           Answer(code), Head(cmdQ).op \notin Settings, dev' = dev
    PROVE  SettingsInv'
  <1>1. /\ \A i \in 1..Len(cmdQ') : cmdQ'[i].op \notin known
        /\ \A i \in 1..Len(oldQ') : oldQ'[i].op \notin known
        /\ oldQ = <<>> /\ oldQ' = <<>> /\ known' = known
        /\ UNCHANGED <<pc, call, step, config, cmd, link, owed>>
    BY ServedOps
  <1>2. pc = "resp" /\ owed = 0 => cmd.op \notin Settings
    <2>1. cmdQ # <<>>
      BY DEF Answer
    <2> QED BY <2>1, ServedIsOwn DEF Exchanging
  <1> QED BY <1>1, <1>2 DEF SettingsInv, SettingsAgree, Exchanging, Sent

\* No step makes a setting that is known another than the board's.
LEMMA SettingsNext ==
    ASSUME SInv, SInv', CountInv, OwnInv, SettingsInv, [Next]_vars
    PROVE  SettingsInv'
  <1>1. ASSUME NEW c \in Requests, SetWorkMode(c) PROVE SettingsInv'
    BY <1>1 DEF SetWorkMode, Issue, sockVars, gotVars, chanVars, devVars,
        histVars, SettingsInv, SettingsAgree, Exchanging, Sent
  <1>2. ASSUME NEW c \in Requests, RejectCall(c) PROVE SettingsInv'
    BY <1>2 DEF RejectCall, Issue, sessVars, sockVars, gotVars, chanVars,
        devVars, histVars, SettingsInv, SettingsAgree, Exchanging, Sent
  <1>3. ASSUME NEW c \in Requests, BeginCall(c) PROVE SettingsInv'
    BY <1>3 DEF BeginCall, Issue, sessVars, sockVars, gotVars, chanVars,
        devVars, histVars, SettingsInv, SettingsAgree, Exchanging, Sent
  <1>4. ASSUME NEW c \in Requests, Disconnect(c) PROVE SettingsInv'
    BY <1>4 DEF Disconnect, CloseBoth, Issue, gotVars, histVars,
        LeaveFrames, SettingsInv, SettingsAgree, Exchanging, Sent
  <1>5. ASSUME NEW c \in Requests, Destroy(c) PROVE SettingsInv'
    BY <1>5 DEF Destroy, CloseBoth, Issue, gotVars, LeaveFrames,
        SettingsInv, SettingsAgree, Exchanging, Sent
  <1>6. ASSUME NEW c \in Requests, BeginConnect(c) PROVE SettingsInv'
    BY <1>6 DEF BeginConnect, CloseBoth, Issue, gotVars, histVars,
        LeaveFrames, SettingsInv, SettingsAgree, Exchanging, Sent
  <1>7. ASSUME ConnectControl PROVE SettingsInv'
    BY <1>7 DEF ConnectControl, Finish, sessVars, gotVars, chanVars,
        histVars, SettingsInv, SettingsAgree, Exchanging, Sent
  <1>8. ASSUME OpenStream PROVE SettingsInv'
    BY <1>8 DEF OpenStream, Finish, gotVars, chanVars, devVars,
        SettingsInv, SettingsAgree, Exchanging, Sent
  <1>9. ASSUME OpenStreamFails PROVE SettingsInv'
    BY <1>9 DEF OpenStreamFails, Finish, sessVars, gotVars, chanVars,
        devVars, histVars, SettingsInv, SettingsAgree, Exchanging, Sent
  <1>10. ASSUME SendFrame PROVE SettingsInv'
    <2>1. /\ pc = "send" /\ cmd' = Frame /\ known' = known \ {cmd'.op}
          /\ cmdQ' \in {cmdQ, Append(cmdQ, cmd')}
          /\ pc' \in {"data", "resp"}
          /\ UNCHANGED <<call, step, config, owed, oldQ, respQ, dev, link>>
      BY <1>10 DEF SendFrame, devVars
    <2>2. cmd' \in Commands /\ cmd'.op = Plan(call)[step].op
      BY <2>1 DEF SInv, TypeOK, TypeExchange, Frame
    <2>3. \A i \in 1..Len(cmdQ) : cmdQ[i].op \notin known'
      BY <2>1 DEF SettingsInv
    <2>4. \A i \in 1..Len(cmdQ') : cmdQ'[i].op \notin known'
      <3>1. CASE cmdQ' = cmdQ
        BY <2>3, <3>1
      <3>2. CASE cmdQ' = Append(cmdQ, cmd')
        <4>1. cmd'.op \notin known'
          BY <2>1
        <4> QED BY <2>2, <2>3, <3>2, <4>1, Queues, OpsAppend
      <3> QED BY <2>1, <3>1, <3>2
    <2>5. step \in Nat \ {0}
      BY DEF SInv, TypeOK, TypeCall
    <2>6. \A i \in 1..step : Plan(call)[i].op \notin known'
      <3>1. \A i \in 1..step : i \in 1..(step - 1) \/ i = step
        BY <2>5
      <3>2. \A i \in 1..(step - 1) : Plan(call)[i].op \notin known
        BY <2>1 DEF SettingsInv, Exchanging, Sent
      <3> QED BY <2>1, <2>2, <3>1, <3>2
    <2>7. owed = 0 => respQ = <<>>
      <3>1. ctlUp
        BY <2>1 DEF SInv, CallShape, Connected
      <3> QED BY <2>1, <3>1, Queues DEF CountInv, Waiting, B
    <2>8. /\ \A i \in 1..Len(oldQ') : oldQ'[i].op \notin known'
          /\ SettingsAgree'
      BY <2>1 DEF SettingsInv, SettingsAgree
    <2>9. /\ Exchanging' /\ Exchanging
          /\ Sent' = 1..step
      BY <2>1 DEF Exchanging, Sent
    <2> QED
      BY <2>1, <2>4, <2>6, <2>7, <2>8, <2>9 DEF SettingsInv
  <1>11. ASSUME SendFrameFails PROVE SettingsInv'
    BY <1>11 DEF SendFrameFails, CloseControl, Finish, gotVars, histVars,
        LeaveFrames, SettingsInv, SettingsAgree, Exchanging, Sent
  <1>12. ASSUME ReadCapture PROVE SettingsInv'
    <2>1. /\ pc = "data" /\ pc' \in {"resp", "idle"}
          /\ pc' = "resp" => UNCHANGED <<call, step, owed>>
          /\ UNCHANGED <<config, cmd, cmdQ, oldQ, respQ, dev, link, known>>
      BY <1>12 DEF ReadCapture, Finish, sessVars, devVars
    <2>2. cmd.op \notin Settings
      BY <2>1 DEF OwnInv, Captures, Settings
    <2> QED
      BY <2>1, <2>2 DEF SettingsInv, SettingsAgree, Exchanging, Sent
  <1>13. ASSUME ReadDataFails PROVE SettingsInv'
    BY <1>13 DEF ReadDataFails, CloseStream, Finish, gotVars, SettingsInv,
        SettingsAgree, Exchanging, Sent
  <1>14. ASSUME ReadResponseFails PROVE SettingsInv'
    BY <1>14 DEF ReadResponseFails, CloseControl, Finish, gotVars,
        histVars, LeaveFrames, SettingsInv, SettingsAgree, Exchanging, Sent
  <1>15. ASSUME CommandRefused PROVE SettingsInv'
    BY <1>15 DEF CommandRefused, Finish, TakeResponse, sockVars, gotVars,
        devVars, SettingsInv, SettingsAgree, Exchanging, Sent
  <1>16. ASSUME NextCommand PROVE SettingsInv'
    <2>1. /\ pc = "resp" /\ respQ # <<>> /\ Accepted(Head(respQ).code)
          /\ pc' = "send" /\ step' = step + 1
          /\ UNCHANGED <<call, config, owed, cmd, known>>
          /\ UNCHANGED <<cmdQ, oldQ, dev, link>>
      BY <1>16 DEF NextCommand, TakeResponse, gotVars, devVars
    <2>2. step \in Nat \ {0}
      BY DEF SInv, TypeOK, TypeCall
    <2>3. Sent' = Sent /\ Exchanging /\ Exchanging' /\ Sent = 1..step
      BY <2>1, <2>2 DEF Sent, Exchanging
    <2>4. oldQ = <<>>
      BY <2>1 DEF CountInv
    <2>5. ASSUME owed = 0, link, NEW i \in 1..step,
                 Plan(call)[i].op \in Settings
          PROVE  dev[Plan(call)[i].op] = Plan(call)[i].val
      <3>1. CASE i = step
        <4>1. cmd.op = Plan(call)[step].op /\ cmd.val = Plan(call)[step].val
          BY <2>1 DEF OwnInv, Waiting
        <4>2. Head(respQ).code = 0
          BY <2>1, <2>5, <3>1, <4>1 DEF Accepted, Settings
        <4> QED BY <2>1, <2>5, <3>1, <4>1, <4>2 DEF SettingsInv
      <3>2. CASE i # step
        <4>1. i \in 1..(step - 1)
          BY <2>2, <3>2
        <4> QED BY <2>3, <2>5, <4>1 DEF SettingsInv
      <3> QED BY <3>1, <3>2
    <2>6. step' - 1 = step
      BY <2>1, <2>2
    <2>7. /\ \A i \in 1..Len(cmdQ') : cmdQ'[i].op \notin known'
          /\ \A i \in 1..Len(oldQ') : oldQ'[i].op \notin known'
          /\ SettingsAgree'
          /\ \A i \in Sent' : Plan(call')[i].op \notin known'
      BY <2>1, <2>3 DEF SettingsInv, SettingsAgree
    <2>8. Exchanging' /\ owed' = 0 /\ link' =>
              \A i \in 1..(step' - 1) :
                  Plan(call')[i].op \in Settings =>
                      dev'[Plan(call')[i].op] = Plan(call')[i].val
      BY <2>1, <2>5, <2>6
    <2> QED BY <2>1, <2>4, <2>7, <2>8 DEF SettingsInv
  <1>17. ASSUME RecordStarted PROVE SettingsInv'
    BY <1>17 DEF RecordStarted, TakeResponse, sockVars, gotVars, devVars,
        SettingsInv, SettingsAgree, Exchanging, Sent
  <1>18. ASSUME CallSucceeds PROVE SettingsInv'
    <2>1. /\ pc = "resp" /\ respQ # <<>> /\ Accepted(Head(respQ).code)
          /\ step = Len(Plan(call)) /\ pc' = "idle"
          /\ config' = NewConfig(call)
          /\ known' = IF owed = 0 /\ link THEN known \cup SettingsOf(call)
                                          ELSE known
          /\ UNCHANGED <<call, cmdQ, oldQ, dev>>
      BY <1>18 DEF CallSucceeds, TakeResponse, Finish, devVars
    <2>2. /\ call \in Calls /\ call.op \in NeedsConnection /\ ctlUp
          /\ config \in Config /\ known \subseteq Settings
          /\ step \in Nat \ {0}
      BY <2>1 DEF SInv, TypeOK, TypeCall, TypeSession, TypeHistory, CallShape,
                  Connected
    <2>3. \A f \in known : f \notin SettingsOf(call)
      <3> SUFFICES ASSUME NEW f \in known, f \in SettingsOf(call) PROVE FALSE
        OBVIOUS
      <3>1. PICK i \in 1..Len(Plan(call)) : Plan(call)[i].op = f
        BY <2>2, PlanCovers
      <3>2. i \in Sent /\ Exchanging
        BY <2>1, <3>1 DEF Sent, Exchanging
      <3> QED BY <3>1, <3>2 DEF SettingsInv
    <2>4. \A f \in known : config'[f] = config[f]
      BY <2>1, <2>2, <2>3, NewConfigKeeps
    <2>5. owed = 0 /\ link => cmdQ = <<>> /\ oldQ = <<>>
      <3>1. oldQ = <<>>
        BY <2>1 DEF CountInv
      <3> DEFINE m == Len(cmdQ)
                 n == Len(respQ)
      <3>2. m \in Nat /\ n \in Nat /\ n # 0
        BY <2>1, Queues
      <3>3. owed = 0 => m + n <= 1
        BY <2>1, <2>2 DEF CountInv, B, Waiting
      <3> HIDE DEF m, n
      <3>4. owed = 0 => m = 0
        BY <3>2, <3>3
      <3> QED BY <3>1, <3>4, Queues DEF m
    <2>6. ASSUME owed = 0, link, NEW f \in SettingsOf(call)
          PROVE  dev[f] = config'[f]
      <3>1. PICK i \in 1..Len(Plan(call)) :
                Plan(call)[i].op = f /\ Plan(call)[i].val = NewConfig(call)[f]
        BY <2>2, PlanCovers
      <3>2. f \in Settings
        <4>1. call.op = "set" => call.field \in Settings
          BY <2>2, CallParameters
        <4> QED BY <4>1 DEF SettingsOf
      <3>3. dev[f] = Plan(call)[i].val
        <4>1. CASE i = step
          <5>1. cmd.op = f /\ cmd.val = Plan(call)[i].val
            BY <2>1, <3>1, <4>1 DEF OwnInv, Waiting
          <5>2. Head(respQ).code = 0
            BY <2>1, <3>2, <5>1 DEF Accepted, Settings
          <5> QED BY <2>1, <2>6, <3>2, <5>1, <5>2 DEF SettingsInv
        <4>2. CASE i # step
          <5>1. i \in 1..(step - 1) /\ Exchanging
            BY <2>1, <2>2, <4>2 DEF Exchanging
          <5> QED BY <2>6, <3>1, <3>2, <5>1 DEF SettingsInv
        <4> QED BY <4>1, <4>2
      <3> QED BY <2>1, <3>1, <3>3
    <2>7. SettingsAgree'
      <3>1. \A f \in known : dev'[f] = config'[f]
        BY <2>1, <2>4 DEF SettingsInv, SettingsAgree
      <3> QED BY <2>1, <2>6, <3>1 DEF SettingsAgree
    <2>8. /\ \A i \in 1..Len(cmdQ') : cmdQ'[i].op \notin known'
          /\ \A i \in 1..Len(oldQ') : oldQ'[i].op \notin known'
      <3>1. CASE owed = 0 /\ link
        <4>1. Len(cmdQ') = 0 /\ Len(oldQ') = 0
          BY <2>1, <2>5, <3>1
        <4> QED BY <4>1
      <3>2. CASE ~(owed = 0 /\ link)
        BY <2>1, <3>2 DEF SettingsInv
      <3> QED BY <3>1, <3>2
    <2> QED BY <2>1, <2>7, <2>8 DEF SettingsInv, Exchanging
  <1>19. ASSUME OpenRecordFile PROVE SettingsInv'
    BY <1>19 DEF OpenRecordFile, sessVars, sockVars, chanVars, devVars,
        histVars, SettingsInv, SettingsAgree, Exchanging, Sent
  <1>20. ASSUME OpenRecordFileFails PROVE SettingsInv'
    BY <1>20 DEF OpenRecordFileFails, Finish, sessVars, sockVars, gotVars,
        chanVars, devVars, SettingsInv, SettingsAgree, Exchanging, Sent
  <1>21. ASSUME ReadRecord PROVE SettingsInv'
    BY <1>21 DEF ReadRecord, Recorded, Finish, callVars, sessVars, sockVars,
       devVars,
        histVars, SettingsInv, SettingsAgree, Exchanging, Sent
  <1>22. ASSUME ReadRecordFails PROVE SettingsInv'
    BY <1>22 DEF ReadRecordFails, Finish, sessVars, sockVars, gotVars,
        devVars, SettingsInv, SettingsAgree, Exchanging, Sent
  <1>23. ASSUME ServeOld PROVE SettingsInv'
    <2> DEFINE h == Head(oldQ)
    <2>1. /\ oldQ # <<>> /\ oldQ' = Tail(oldQ)
          /\ dev' = dev \/ /\ h.op \in Settings
                           /\ dev' = [dev EXCEPT ![h.op] = h.val]
          /\ UNCHANGED <<pc, call, step, config, cmd, link, owed, known>>
          /\ UNCHANGED <<cmdQ, respQ>>
      BY <1>23 DEF ServeOld, callVars, sessVars, gotVars, histVars
    <2>2. /\ h.op \notin known
          /\ \A i \in 1..Len(oldQ') : oldQ'[i].op \notin known
      BY <2>1, Queues, OpsRead DEF SettingsInv
    <2>3. dev \in [Settings -> Nat] /\ known \subseteq Settings
      BY ConfigType DEF SInv, TypeOK, TypeBoard, TypeHistory
    <2> HIDE DEF h
    <2>4. \A f \in known : dev'[f] = dev[f]
      BY <2>1, <2>2, <2>3
    <2>5. SettingsAgree'
      BY <2>1, <2>4 DEF SettingsInv, SettingsAgree
    <2>6. Exchanging => step = 1
      <3>1. Exchanging => ~(step > 1)
        BY <2>1 DEF SettingsInv
      <3>2. step \in Nat \ {0}
        BY DEF SInv, TypeOK, TypeCall
      <3> QED BY <3>1, <3>2
    <2>7. respQ' = <<>>
      BY <2>1 DEF CountInv
    <2>8. \A i \in 1..Len(cmdQ') : cmdQ'[i].op \notin known'
      BY <2>1 DEF SettingsInv
    <2>9. Exchanging' => \A i \in Sent' : Plan(call')[i].op \notin known'
      BY <2>1 DEF SettingsInv, Exchanging, Sent
    <2>10. Exchanging' => step' = 1
      BY <2>1, <2>6 DEF Exchanging
    <2> QED
      BY <2>1, <2>2, <2>5, <2>7, <2>8, <2>9, <2>10 DEF SettingsInv
  <1>24. ASSUME ServeSetting PROVE SettingsInv'
    <2> DEFINE h == Head(cmdQ)
    <2>1. /\ Answer(0) /\ cmdQ # <<>>
          /\ h.op \in Settings /\ dev' = [dev EXCEPT ![h.op] = h.val]
      BY <1>24 DEF ServeSetting, Answer
    <2>2. /\ h.op \notin known
          /\ \A i \in 1..Len(cmdQ') : cmdQ'[i].op \notin known
          /\ \A i \in 1..Len(oldQ') : oldQ'[i].op \notin known
          /\ oldQ = <<>> /\ oldQ' = <<>> /\ known' = known
          /\ UNCHANGED <<pc, call, step, config, cmd, link, owed>>
      BY <2>1, ServedOps
    <2>3. Exchanging /\ owed = 0 => Waiting /\ h = cmd
      BY <2>1, ServedIsOwn
    <2> HIDE DEF h
    <2>4. dev \in [Settings -> Nat] /\ known \subseteq Settings
      BY ConfigType DEF SInv, TypeOK, TypeBoard, TypeHistory
    <2>5. /\ dev'[h.op] = h.val
          /\ \A f \in Settings : f # h.op => dev'[f] = dev[f]
      BY <2>1, <2>4
    <2>6. SettingsAgree'
      BY <2>2, <2>4, <2>5 DEF SettingsInv, SettingsAgree
    <2>7. ASSUME Exchanging, owed = 0, link, NEW i \in 1..(step - 1),
                 Plan(call)[i].op \in Settings
          PROVE  dev'[Plan(call)[i].op] = Plan(call)[i].val
      <3>1. /\ call \in Calls /\ call.op \in NeedsConnection
            /\ step \in Nat \ {0} /\ step <= Len(Plan(call))
            /\ Len(Plan(call)) \in Nat
        <4>1. /\ call \in Calls /\ call.op \in NeedsConnection
              /\ step \in Nat \ {0} /\ step <= Len(Plan(call))
          BY <2>7 DEF SInv, TypeOK, TypeCall, CallShape, Exchanging
        <4> QED BY <4>1, PlanType
      <3>2. i \in 1..Len(Plan(call)) /\ step \in 1..Len(Plan(call)) /\ i # step
        BY <3>1
      <3>3. Plan(call)[i].op # Plan(call)[step].op
        BY <3>1, <3>2, PlanDistinct
      <3>4. h.op = Plan(call)[step].op
        BY <2>3, <2>7 DEF OwnInv
      <3>5. dev'[Plan(call)[i].op] = dev[Plan(call)[i].op]
        BY <2>5, <2>7, <3>3, <3>4
      <3> QED BY <3>5, <2>7 DEF SettingsInv
    <2>8. pc = "resp" /\ owed = 0 => dev'[cmd.op] = cmd.val
      BY <2>3, <2>5 DEF Exchanging
    <2> QED
      BY <2>2, <2>6, <2>7, <2>8
         DEF SettingsInv, SettingsAgree, Exchanging, Sent
  <1>25. ASSUME ServeRefuse PROVE SettingsInv'
    BY <1>25 DEF ServeRefuse, Answer, callVars, sessVars, sockVars,
        gotVars, histVars, SettingsInv, SettingsAgree, Exchanging, Sent
  <1>26. ASSUME ServeQuery PROVE SettingsInv'
    <2>1. /\ Answer(0) /\ Head(cmdQ).op \notin Settings /\ dev' = dev
          /\ 0 \in {0, 1}
      BY <1>26 DEF ServeQuery, Settings
    <2> QED BY <2>1, ServeOther
  <1>27. ASSUME NEW code \in {0, 1}, ServeCapture(code) PROVE SettingsInv'
    <2>1. /\ Answer(code) /\ Head(cmdQ).op \notin Settings /\ dev' = dev
          /\ code \in {0, 1}
      BY <1>27 DEF ServeCapture, Settings, Captures
    <2> QED BY <2>1, ServeOther
  <1>28. ASSUME ServeStart PROVE SettingsInv'
    <2>1. /\ Answer(0) /\ Head(cmdQ).op \notin Settings /\ dev' = dev
          /\ 0 \in {0, 1}
      BY <1>28 DEF ServeStart, Settings
    <2> QED BY <2>1, ServeOther
  <1>29. ASSUME StreamRecord PROVE SettingsInv'
    BY <1>29 DEF StreamRecord, Emit, callVars, sessVars, sockVars, gotVars,
        histVars, SettingsInv, SettingsAgree, Exchanging, Sent
  <1>30. ASSUME StreamStray PROVE SettingsInv'
    BY <1>30 DEF StreamStray, Emit, callVars, sessVars, sockVars, gotVars,
        histVars, SettingsInv, SettingsAgree, Exchanging, Sent
  <1>31. ASSUME Reboot PROVE SettingsInv'
    BY <1>31 DEF Reboot, callVars, sessVars, sockVars, gotVars,
        SettingsInv, SettingsAgree, Exchanging, Sent
  <1>32. CASE UNCHANGED vars
    BY <1>32 DEF vars, callVars, sessVars, sockVars, gotVars, chanVars,
        devVars, histVars, SettingsInv, SettingsAgree, Exchanging, Sent
  <1>33. CASE Application
    BY <1>33, <1>1, <1>2, <1>3, <1>4, <1>5, <1>6 DEF Application
  <1>34. CASE Host
    BY <1>34, <1>7, <1>8, <1>9, <1>10, <1>11, <1>12, <1>13, <1>14, <1>15,
        <1>16, <1>17, <1>18, <1>19, <1>20, <1>21, <1>22 DEF Host
  <1>35. CASE Board
    BY <1>35, <1>23, <1>24, <1>25, <1>26, <1>27, <1>28, <1>29, <1>30, <1>31
       DEF Board
  <1> QED BY <1>32, <1>33, <1>34, <1>35 DEF Next

-----------------------------------------------------------------------------
(* DataInv *)

LEMMA BringsNat == ASSUME NEW p \in Packets PROVE Brings(p) \in Nat
  BY DEF Packets, Brings

LEMMA AmountsEmpty ==
    \E g \in [1..(Len(<<>>) + 1) -> Nat] : Amounts(<<>>, g) /\ g[1] = 0
  <1> DEFINE g == [i \in 1..1 |-> 0]
  <1>1. g \in [1..(Len(<<>>) + 1) -> Nat] /\ g[1] = 0
    OBVIOUS
  <1>2. Amounts(<<>>, g)
    BY <1>1 DEF Amounts
  <1> QED BY <1>1, <1>2

\* The rest of a queue brings what the queue does without its first packet.
LEMMA AmountsRead ==
    ASSUME NEW q \in Seq(Packets), q # <<>>,
           NEW g \in [1..(Len(q) + 1) -> Nat], Amounts(q, g)
    PROVE  \E h \in [1..(Len(Tail(q)) + 1) -> Nat] :
               Amounts(Tail(q), h) /\ g[1] = h[1] + Brings(Head(q))
  <1> DEFINE n == Len(q)
             r == Tail(q)
             h == [i \in 1..n |-> g[i + 1]]
  <1>1. /\ n \in Nat /\ n >= 1 /\ Len(r) = n - 1 /\ Head(q) = q[1]
        /\ \A i \in 1..Len(r) : r[i] = q[i + 1]
    BY QueueRead
  <1>2. /\ g \in [1..(n + 1) -> Nat]
        /\ g[n + 1] = 0
        /\ \A i \in 1..n : g[i] = g[i + 1] + Brings(q[i])
        /\ \A i, j \in 1..(n + 1) : i <= j => g[j] <= g[i]
    BY DEF Amounts
  <1> HIDE DEF n, r
  <1>3. h \in [1..n -> Nat]
    BY <1>1, <1>2
  <1>4. Len(r) + 1 = n /\ h[n] = 0
    BY <1>1, <1>2
  <1>5. \A i \in 1..Len(r) : h[i] = h[i + 1] + Brings(r[i])
    <2> TAKE i \in 1..Len(r)
    <2>1. i \in 1..n /\ i + 1 \in 1..n /\ r[i] = q[i + 1]
      BY <1>1
    <2>2. h[i] = g[i + 1] /\ h[i + 1] = g[(i + 1) + 1]
      BY <2>1
    <2>3. g[i + 1] = g[(i + 1) + 1] + Brings(q[i + 1])
      BY <1>2, <2>1
    <2> QED BY <2>1, <2>2, <2>3
  <1>6. \A i, j \in 1..n : i <= j => h[j] <= h[i]
    <2> TAKE i, j \in 1..n
    <2> HAVE i <= j
    <2>1. /\ i + 1 \in 1..(n + 1) /\ j + 1 \in 1..(n + 1)
          /\ i + 1 <= j + 1
      BY <1>1
    <2>2. g[j + 1] <= g[i + 1]
      BY <1>2, <2>1
    <2> QED BY <2>2
  <1>7. g[1] = h[1] + Brings(q[1])
    BY <1>1, <1>2
  <1> HIDE DEF h
  <1>8. Amounts(r, h)
    BY <1>3, <1>4, <1>5, <1>6 DEF Amounts
  <1> QED BY <1>1, <1>3, <1>4, <1>7, <1>8 DEF r

\* One more packet brings what it does to all before it.
LEMMA AmountsAppend ==
    ASSUME NEW q \in Seq(Packets), NEW p \in Packets,
           NEW g \in [1..(Len(q) + 1) -> Nat], Amounts(q, g)
    PROVE  \E h \in [1..(Len(Append(q, p)) + 1) -> Nat] :
               Amounts(Append(q, p), h) /\ h[1] = g[1] + Brings(p)
  <1> DEFINE n == Len(q)
             r == Append(q, p)
             b == Brings(p)
             h == [i \in 1..(n + 2) |-> IF i = n + 2 THEN 0 ELSE g[i] + b]
  <1>1. /\ n \in Nat /\ Len(r) = n + 1 /\ r[n + 1] = p
        /\ \A i \in 1..n : r[i] = q[i]
    BY QueueAppend
  <1>2. /\ g \in [1..(n + 1) -> Nat]
        /\ g[n + 1] = 0
        /\ \A i \in 1..n : g[i] = g[i + 1] + Brings(q[i])
        /\ \A i, j \in 1..(n + 1) : i <= j => g[j] <= g[i]
    BY DEF Amounts
  <1>3. b \in Nat /\ b = Brings(p)
    BY BringsNat
  <1> HIDE DEF n, r, b
  <1>4. h \in [1..(n + 2) -> Nat]
    BY <1>1, <1>2, <1>3
  <1>5. h[n + 2] = 0 /\ h[1] = g[1] + b
    BY <1>1
  <1>6. \A i \in 1..(n + 1) : h[i] = h[i + 1] + Brings(r[i])
    <2> TAKE i \in 1..(n + 1)
    <2>1. CASE i = n + 1
      BY <1>1, <1>2, <1>3, <2>1
    <2>2. CASE i # n + 1
      <3>1. i \in 1..n /\ r[i] = q[i]
        BY <1>1, <2>2
      <3>2. i + 1 \in 1..(n + 1) /\ i + 1 # n + 2 /\ i # n + 2
        BY <1>1, <3>1
      <3>3. h[i] = g[i] + b /\ h[i + 1] = g[i + 1] + b
        BY <1>1, <3>1, <3>2
      <3>4. g[i] = g[i + 1] + Brings(q[i]) /\ g[i] \in Nat /\ g[i + 1] \in Nat
        BY <1>1, <1>2, <3>1, <3>2
      <3>5. Brings(q[i]) \in Nat
        BY <3>1, BringsNat DEF n
      <3> HIDE DEF h
      <3> QED BY <1>3, <3>1, <3>3, <3>4, <3>5
    <2> QED BY <2>1, <2>2
  <1>7. \A i, j \in 1..(n + 2) : i <= j => h[j] <= h[i]
    <2> TAKE i, j \in 1..(n + 2)
    <2> HAVE i <= j
    <2>1. CASE j = n + 2
      <3>1. h[j] = 0 /\ h[i] \in Nat
        BY <1>4, <1>5, <2>1
      <3> QED BY <3>1
    <2>2. CASE j # n + 2
      <3>1. i \in 1..(n + 1) /\ j \in 1..(n + 1)
        BY <1>1, <2>2
      <3>2. h[i] = g[i] + b /\ h[j] = g[j] + b /\ g[j] <= g[i]
        BY <1>1, <1>2, <3>1
      <3>3. g[i] \in Nat /\ g[j] \in Nat
        BY <1>2, <3>1
      <3> HIDE DEF h
      <3> QED BY <1>3, <3>2, <3>3
    <2> QED BY <2>1, <2>2
  <1> HIDE DEF h
  <1>8. Len(r) + 1 = n + 2
    BY <1>1
  <1>9. Amounts(r, h)
    BY <1>1, <1>4, <1>5, <1>6, <1>7, <1>8 DEF Amounts
  <1> QED BY <1>3, <1>4, <1>5, <1>8, <1>9 DEF r

\* A queue that ends with a packet of the recording brings something.
LEMMA AmountsDone ==
    ASSUME NEW q \in Seq(Packets), q # <<>>, q[Len(q)].type = "rec",
           NEW g \in [1..(Len(q) + 1) -> Nat], Amounts(q, g)
    PROVE  g[1] >= 1
  <1> DEFINE n == Len(q)
  <1>1. n \in Nat /\ n >= 1 /\ n \in 1..n
    BY QueueRead
  <1>2. q[n] \in Packets
    BY <1>1
  <1>3. Brings(q[n]) \in Nat \ {0}
    BY <1>2 DEF Brings, Packets
  <1>4. /\ g[n] = g[n + 1] + Brings(q[n]) /\ g[n + 1] = 0
        /\ g[n] <= g[1] /\ g[1] \in Nat
    BY <1>1 DEF Amounts
  <1> HIDE DEF n
  <1> QED BY <1>3, <1>4

\* A recording's last command, and no other, starts it.
LEMMA StartIsLast ==
    ASSUME NEW c \in Calls, c.op \in NeedsConnection,
           NEW i \in 1..Len(Plan(c))
    PROVE  Plan(c)[i].op = "start" <=> c.op = "record" /\ i = Len(Plan(c))
  <1>1. CASE c.op = "configure"
    <2>1. c.cfg \in Config
      BY <1>1, CallParameters
    <2>2. \A k \in 1..4 : Plan(c)[k].op \in Settings
      BY <1>1, <2>1, PlanOf, ConfigureCommands DEF Settings
    <2> QED BY <1>1, <2>2, PlanOf DEF Settings
  <1>2. CASE c.op = "set"
    <2>1. /\ c.field \in Settings /\ c.val \in Nat
          /\ c.field = "clk" => c.val \in ClockSources
      BY <1>2, CallParameters
    <2>2. SetCommand(c.field, c.val).op \in Settings
      BY <2>1, CommandIs
    <2> QED BY <1>2, <2>2, PlanOf DEF Settings
  <1>3. CASE c.op = "record"
    <2>1. /\ Plan(c)[1].op = "ssd" /\ Plan(c)[2].op = "mask"
          /\ Plan(c)[3].op = "start" /\ Len(Plan(c)) = 3
      BY <1>3, PlanOf
    <2>2. i \in {1, 2, 3}
      BY <2>1
    <2> QED BY <1>3, <2>1, <2>2
  <1>4. CASE c.op \in {"ssd"} \cup Captures
    BY <1>4, PlanOf DEF Captures
  <1> QED BY <1>1, <1>2, <1>3, <1>4 DEF NeedsConnection

\* So does the command exchanged: a recording's, for its length.
LEMMA StartOf ==
    ASSUME SInv, OwnInv, Waiting
    PROVE  /\ cmd.op = "start" <=> call.op = "record" /\ step = Len(Plan(call))
           /\ cmd.op = "start" => cmd.val = call.len
  <1>1. /\ call \in Calls /\ call.op \in NeedsConnection
        /\ step \in Nat \ {0} /\ step <= Len(Plan(call))
    BY DEF SInv, TypeOK, TypeCall, CallShape, Waiting
  <1>2. Len(Plan(call)) \in Nat
    BY <1>1, PlanType
  <1>3. step \in 1..Len(Plan(call))
    BY <1>1, <1>2
  <1>4. cmd.op = Plan(call)[step].op /\ cmd.val = Plan(call)[step].val
    BY DEF OwnInv
  <1>5. cmd.op = "start" <=> call.op = "record" /\ step = Len(Plan(call))
    BY <1>1, <1>3, <1>4, StartIsLast
  <1>6. cmd.op = "start" => cmd.val = call.len
    <2> SUFFICES ASSUME cmd.op = "start" PROVE Plan(call)[step].val = call.len
      BY <1>4
    <2>1. call.op = "record" /\ step = Len(Plan(call))
      BY <1>5
    <2>2. /\ Len(Plan(call)) = 3
          /\ Plan(call) = <<[op |-> "ssd", val |-> 0],
                            [op |-> "mask", val |-> 0],
                            [op |-> "start", val |-> call.len]>>
      BY <1>1, <2>1, PlanOf
    <2>3. Plan(call)[3].val = call.len
      BY <2>2
    <2> QED BY <2>1, <2>2, <2>3
  <1> QED BY <1>5, <1>6

\* A call that waits for nothing on the data channel leaves it empty.
LEMMA DataQuiet ==
    ASSUME pc' \in {"idle", "send", "connect", "open"},
           ~stmUp' => NoData',
           Connected' /\ ~adrift' => NoData'
    PROVE  DataInv'
  BY DEF DataInv

\* On a channel in order, the frame executed is the command's, and its answer
\* the only one.
LEMMA ServedAlone ==
    ASSUME SInv, CountInv, OwnInv, Connected, ~adrift,
           NEW code \in {0, 1}, Answer(code)
    PROVE  /\ owed = 0 /\ Waiting /\ Head(cmdQ) = cmd
           /\ cmdQ # <<>> /\ cmdQ' = <<>> /\ respQ = <<>>
           /\ respQ' # <<>> /\ Head(respQ').code = code
  <1>1. owed = 0 /\ cmdQ # <<>> /\ cmdQ' = Tail(cmdQ)
    BY DEF CountInv, Connected, Answer
  <1> DEFINE m == Len(cmdQ)
             n == Len(respQ)
  <1>2. m \in Nat /\ n \in Nat /\ m # 0
    BY <1>1, Queues
  <1>3. m + n <= IF Waiting THEN 1 ELSE 0
    BY <1>1 DEF CountInv, B, Waiting, Connected
  <1> HIDE DEF m, n
  <1>4. Waiting /\ m = 1 /\ n = 0
    BY <1>2, <1>3
  <1>5. respQ = <<>> /\ Len(cmdQ) = 1
    BY <1>4, Queues DEF m, n
  <1>6. cmdQ' = <<>>
    BY <1>1, <1>5, Queues, QueueRead
  <1>7. Head(cmdQ) = cmd /\ cmd \in Commands
    BY <1>1, <1>4 DEF OwnInv, SInv, TypeOK, TypeExchange
  <1> DEFINE r == [seq |-> cmd.seq, code |-> code]
  <1>8. r \in Responses /\ respQ' = Append(respQ, r) /\ r.code = code
    BY <1>7 DEF Commands, Responses, Answer
  <1> HIDE DEF r
  <1>9. respQ' # <<>> /\ Head(respQ') = r
    BY <1>5, <1>8, Queues, QueueAppend
  <1> QED BY <1>1, <1>4, <1>5, <1>6, <1>7, <1>8, <1>9

\* A packet of the recording, or a stray, on its way.
LEMMA Streamed ==
    ASSUME SInv, NEW got \in Nat, Recording(got), rec.left > 0, stmUp,
           NEW p \in Packets, dataQ' = Append(dataQ, p),
           p.type = "rec" => p.seq = rec.seq,
           rec'.left \in Nat, rec'.left + Brings(p) = rec.left,
           rec'.seq = rec.seq, p.type \in {"rec", "other"},
           p.type = "other" => rec'.left > 0,
           call' = call, cmd' = cmd
    PROVE  Recording(got)'
  <1>1. /\ dataQ \in Seq(Packets) /\ rec.left \in Nat
        /\ call.op = "record" => call.len \in Nat
    BY Queues, CallParameters DEF SInv, TypeOK, TypeBoard, TypeCall
  <1>2. PICK g \in [1..(Len(dataQ) + 1) -> Nat] :
            /\ Amounts(dataQ, g)
            /\ got + g[1] + rec.left <= call.len
    BY DEF Recording
  <1>3. PICK h \in [1..(Len(dataQ') + 1) -> Nat] :
            Amounts(dataQ', h) /\ h[1] = g[1] + Brings(p)
    BY <1>1, <1>2, AmountsAppend
  <1>4. /\ Brings(p) \in Nat
        /\ p.type = "other" => Brings(p) = 0
        /\ Len(dataQ) \in Nat /\ Len(dataQ') = Len(dataQ) + 1
        /\ dataQ'[Len(dataQ')] = p
        /\ \A i \in 1..Len(dataQ) : dataQ'[i] = dataQ[i]
    BY <1>1, BringsNat, QueueAppend DEF Brings
  <1>5. g[1] \in Nat /\ h[1] \in Nat
    BY <1>4
  <1>6. got + h[1] + rec'.left <= call.len
    <2>1. call.len \in Nat
      BY <1>1 DEF Recording
    <2> DEFINE a == g[1]
               b == h[1]
               l == rec.left
               m == rec'.left
               k == Brings(p)
    <2>2. /\ a \in Nat /\ b \in Nat /\ l \in Nat /\ m \in Nat /\ k \in Nat
          /\ m + k = l
      BY <1>1, <1>4, <1>5
    <2>4. got + a + l <= call.len
      BY <1>2
    <2>5. b = a + k
      BY <1>3
    <2> HIDE DEF a, b, l, m, k
    <2>3. got + b + m <= call.len
      BY ONLY got \in Nat, <2>1, <2>2, <2>4, <2>5
    <2> QED BY <2>3 DEF b, m
  <1>7. got + h[1] = call.len => p.type = "rec"
    BY <1>1, <1>4, <1>5, <1>6 DEF Recording
  <1>8. \A i \in 1..Len(dataQ') : dataQ'[i].type = "rec" =>
            dataQ'[i].seq = cmd.seq
    <2> TAKE i \in 1..Len(dataQ')
    <2>1. CASE i = Len(dataQ')
      BY <1>4, <2>1 DEF Recording
    <2>2. CASE i # Len(dataQ')
      <3>1. i \in 1..Len(dataQ)
        BY <1>4, <2>2
      <3> QED BY <1>4, <3>1 DEF Recording
    <2> QED BY <2>1, <2>2
  <1>9. call.op = "record" /\ (rec.left > 0 => rec.seq = cmd.seq)
    BY DEF Recording
  <1> QED BY <1>3, <1>4, <1>6, <1>7, <1>8, <1>9 DEF Recording

\* The host takes a packet of the recording.
LEMMA RecordRead ==
    ASSUME SInv, NEW got \in Nat, Recording(got), dataQ # <<>>,
           Head(dataQ).type = "rec", dataQ' = Tail(dataQ), rec' = rec,
           call' = call, cmd' = cmd
    PROVE  /\ Head(dataQ).seq = cmd.seq
           /\ got + Head(dataQ).size = call.len => NoData'
           /\ \A now \in Nat : now = got + Head(dataQ).size =>
                                   Recording(now)'
  <1>1. /\ dataQ \in Seq(Packets) /\ rec.left \in Nat
        /\ call.len \in Nat
    BY Queues, CallParameters DEF SInv, TypeOK, TypeBoard, TypeCall, Recording
  <1>2. PICK g \in [1..(Len(dataQ) + 1) -> Nat] :
            /\ Amounts(dataQ, g)
            /\ got + g[1] + rec.left <= call.len
            /\ got + g[1] = call.len /\ dataQ # <<>> =>
                 dataQ[Len(dataQ)].type = "rec"
    BY DEF Recording
  <1>3. PICK h \in [1..(Len(dataQ') + 1) -> Nat] :
            Amounts(dataQ', h) /\ g[1] = h[1] + Brings(Head(dataQ))
    BY <1>1, <1>2, AmountsRead
  <1> DEFINE s == Head(dataQ).size
  <1>4. /\ Head(dataQ) = dataQ[1] /\ dataQ' \in Seq(Packets)
        /\ Len(dataQ) \in Nat /\ Len(dataQ) >= 1
        /\ Len(dataQ') = Len(dataQ) - 1
        /\ \A i \in 1..Len(dataQ') : dataQ'[i] = dataQ[i + 1]
        /\ Head(dataQ) \in Packets
    BY <1>1, QueueRead
  <1>5. Brings(Head(dataQ)) = s /\ s \in Nat
    BY <1>4 DEF Brings, Packets
  <1>6. g[1] \in Nat /\ h[1] \in Nat
    BY <1>4
  <1>7. /\ Head(dataQ).seq = cmd.seq
        /\ \A i \in 1..Len(dataQ') : dataQ'[i].type = "rec" =>
               dataQ'[i].seq = cmd.seq
    <2>1. /\ 1 \in 1..Len(dataQ)
          /\ \A i \in 1..Len(dataQ') : i + 1 \in 1..Len(dataQ)
      BY <1>4
    <2> QED BY <1>4, <2>1 DEF Recording
  <1> HIDE DEF s
  <1>8. dataQ' # <<>> => /\ Len(dataQ') >= 1
                         /\ dataQ'[Len(dataQ')] = dataQ[Len(dataQ)]
    <2>1. dataQ' # <<>> => Len(dataQ') \in Nat /\ Len(dataQ') >= 1
      BY <1>4, QueueRead
    <2>2. dataQ' # <<>> => Len(dataQ') \in 1..Len(dataQ')
      BY <2>1
    <2> QED BY <1>4, <2>1, <2>2
  <1>9. got + s + h[1] + rec.left <= call.len
    BY <1>1, <1>2, <1>3, <1>5, <1>6
  <1>10. got + s + h[1] = call.len /\ dataQ' # <<>> =>
             dataQ'[Len(dataQ')].type = "rec"
    BY <1>1, <1>2, <1>3, <1>5, <1>6, <1>8
  <1>11. got + s = call.len => NoData'
    <2> SUFFICES ASSUME got + s = call.len PROVE NoData'
      OBVIOUS
    <2>1. h[1] = 0 /\ rec.left = 0
      BY <1>1, <1>5, <1>6, <1>9
    <2>2. got + s + h[1] = call.len
      BY <1>1, <1>5, <2>1
    <2>3. dataQ' # <<>> => h[1] >= 1
      BY <1>3, <1>4, <1>10, <2>2, AmountsDone
    <2>4. dataQ' = <<>>
      BY <2>1, <2>3
    <2> QED BY <2>1, <2>4 DEF NoData
  <1>12. ASSUME NEW now \in Nat, now = got + s
         PROVE  Recording(now)'
    <2>1. /\ call'.op = "record"
          /\ rec'.left > 0 => rec'.seq = cmd'.seq
      BY DEF Recording
    <2>2. now + h[1] + rec'.left <= call'.len
      BY <1>9, <1>12
    <2>3. now + h[1] = call'.len /\ dataQ' # <<>> =>
              dataQ'[Len(dataQ')].type = "rec"
      BY <1>10, <1>12
    <2> QED BY <1>3, <1>7, <2>1, <2>2, <2>3 DEF Recording
  <1> QED BY <1>7, <1>11, <1>12 DEF s

\* A frame is answered, and nothing comes of it on the data channel.
LEMMA ServeNoData ==
    ASSUME SInv, CountInv, OwnInv, DataInv, NEW code \in {0, 1},
           Answer(code), UNCHANGED <<dataQ, rec>>,
           code = 1 \/ Head(cmdQ).op # "start"
    PROVE  DataInv'
  <1>1. UNCHANGED <<pc, call, cmd, received, ctlUp, stmUp, adrift>>
    BY DEF Answer, callVars, sessVars, gotVars, histVars
  <1>2. CASE Connected /\ ~adrift
    <2>1. /\ Waiting /\ Head(cmdQ) = cmd /\ cmdQ # <<>> /\ cmdQ' = <<>>
          /\ respQ = <<>> /\ Head(respQ').code = code
      BY <1>2, ServedAlone
    <2>2. NoData /\ rec.left = 0 /\ dataQ = <<>>
      BY <1>2, <2>1 DEF DataInv, NoData, Waiting, OwnInv
    <2>3. NoData' /\ rec'.left = 0 /\ dataQ' = <<>>
      BY <2>2 DEF NoData
    <2>4. pc = "resp" /\ cmd.op = "start" => Recording(0)
      BY <1>2 DEF DataInv
    <2>5. pc' = "resp" /\ cmd'.op = "start" => Recording(0)'
      BY <1>1, <2>4 DEF Recording
    <2> QED BY <1>1, <2>1, <2>3, <2>5 DEF DataInv, Waiting
  <1>3. CASE ~(Connected /\ ~adrift)
    BY <1>1, <1>3 DEF DataInv, NoData, Connected
  <1> QED BY <1>2, <1>3

\* What comes on the data channel is the running command's, or nothing.
LEMMA DataNext ==
    ASSUME SInv, SInv', CountInv, OwnInv, DataInv, SettingsInv, [Next]_vars
    PROVE  DataInv'
  <1>1. ASSUME NEW c \in Requests, SetWorkMode(c) PROVE DataInv'
    <2>1. /\ pc = "idle" /\ pc' \in {"idle", "send"}
          /\ UNCHANGED <<ctlUp, stmUp, dataQ, rec, adrift>>
      BY <1>1 DEF SetWorkMode, Issue, sockVars, gotVars, chanVars, devVars,
          histVars
    <2> QED BY <2>1, DataQuiet DEF DataInv, NoData, Connected
  <1>2. ASSUME NEW c \in Requests, RejectCall(c) PROVE DataInv'
    <2>1. /\ pc = "idle" /\ pc' \in {"idle", "send"}
          /\ UNCHANGED <<ctlUp, stmUp, dataQ, rec, adrift>>
      BY <1>2 DEF RejectCall, Issue, sessVars, sockVars, gotVars, chanVars,
          devVars, histVars
    <2> QED BY <2>1, DataQuiet DEF DataInv, NoData, Connected
  <1>3. ASSUME NEW c \in Requests, BeginCall(c) PROVE DataInv'
    <2>1. /\ pc = "idle" /\ pc' \in {"idle", "send"}
          /\ UNCHANGED <<ctlUp, stmUp, dataQ, rec, adrift>>
      BY <1>3 DEF BeginCall, Issue, sessVars, sockVars, gotVars, chanVars,
          devVars, histVars
    <2> QED BY <2>1, DataQuiet DEF DataInv, NoData, Connected
  <1>4. ASSUME NEW c \in Requests, Disconnect(c) PROVE DataInv'
    <2>1. pc' \in {"idle", "connect"} /\ dataQ' = <<>> /\ rec' = NoRecording
      BY <1>4 DEF Disconnect, CloseBoth, Issue, gotVars, histVars,
          LeaveFrames
    <2> QED BY <2>1, DataQuiet DEF NoData, NoRecording
  <1>5. ASSUME NEW c \in Requests, Destroy(c) PROVE DataInv'
    <2>1. pc' \in {"idle", "connect"} /\ dataQ' = <<>> /\ rec' = NoRecording
      BY <1>5 DEF Destroy, CloseBoth, Issue, gotVars, LeaveFrames
    <2> QED BY <2>1, DataQuiet DEF NoData, NoRecording
  <1>6. ASSUME NEW c \in Requests, BeginConnect(c) PROVE DataInv'
    <2>1. pc' \in {"idle", "connect"} /\ dataQ' = <<>> /\ rec' = NoRecording
      BY <1>6 DEF BeginConnect, CloseBoth, Issue, gotVars, histVars,
          LeaveFrames
    <2> QED BY <2>1, DataQuiet DEF NoData, NoRecording
  <1>7. ASSUME ConnectControl PROVE DataInv'
    <2>1. /\ pc \in {"connect", "open"} /\ pc' \in {"idle", "open"}
          /\ UNCHANGED <<ctlUp, stmUp, dataQ, rec>>
      BY <1>7 DEF ConnectControl, Finish, sessVars, gotVars, chanVars,
          histVars
    <2> QED
      BY <2>1, DataQuiet DEF DataInv, NoData, Connected, SInv, CallShape
  <1>8. ASSUME OpenStream PROVE DataInv'
    <2>1. pc = "open" /\ pc' = "idle" /\ UNCHANGED <<dataQ, rec>>
      BY <1>8 DEF OpenStream, Finish, chanVars, devVars
    <2> QED BY <2>1, DataQuiet DEF DataInv, NoData, SInv, CallShape
  <1>9. ASSUME OpenStreamFails PROVE DataInv'
    <2>1. /\ pc \in {"connect", "open"} /\ pc' \in {"idle", "open"}
          /\ UNCHANGED <<ctlUp, stmUp, dataQ, rec>>
      BY <1>9 DEF OpenStreamFails, Finish, sessVars, gotVars, chanVars,
          devVars, histVars
    <2> QED
      BY <2>1, DataQuiet DEF DataInv, NoData, Connected, SInv, CallShape
  <1>10. ASSUME SendFrame PROVE DataInv'
    <2>1. /\ pc = "send" /\ Waiting' /\ cmd' = Frame
          /\ pc' = IF cmd'.op \in Captures THEN "data" ELSE "resp"
          /\ UNCHANGED <<call, ctlUp, stmUp, dataQ, rec, adrift>>
      BY <1>10 DEF SendFrame, devVars, Waiting
    <2>2. Connected /\ (~adrift => NoData)
      BY <2>1 DEF SInv, CallShape, DataInv
    <2>3. cmd'.op = "start" => call'.op = "record" /\ call'.len \in Nat
      <3>1. /\ call \in Calls /\ call.op \in NeedsConnection
            /\ step \in Nat \ {0} /\ step <= Len(Plan(call))
        BY <2>1 DEF SInv, TypeOK, TypeCall, CallShape
      <3>2. Len(Plan(call)) \in Nat
        BY <3>1, PlanType
      <3>3. step \in 1..Len(Plan(call))
        BY <3>1, <3>2
      <3>4. cmd'.op = Plan(call)[step].op
        BY <2>1 DEF Frame
      <3>5. Plan(call)[step].op = "start" => call.op = "record"
        BY <3>1, <3>3, StartIsLast
      <3>6. call.op = "record" => call.len \in Nat
        BY <3>1, CallParameters
      <3> QED BY <2>1, <3>4, <3>5, <3>6
    <2>4. cmd'.op = "start" /\ ~adrift => Recording(0)'
      <3> SUFFICES ASSUME cmd'.op = "start", ~adrift PROVE Recording(0)'
        OBVIOUS
      <3>1. dataQ' = <<>> /\ rec'.left = 0 /\ Len(<<>>) = 0
        BY <2>1, <2>2 DEF NoData
      <3> QED BY <2>3, <3>1, AmountsEmpty DEF Recording
    <2>5. ~adrift => dataQ' = <<>> /\ rec'.left = 0
      BY <2>1, <2>2 DEF NoData
    <2>6. stmUp' /\ adrift' = adrift /\ NoData' = NoData
      BY <2>1, <2>2 DEF Connected, NoData
    <2> QED BY <2>1, <2>2, <2>4, <2>5, <2>6 DEF DataInv, Captures
  <1>11. ASSUME SendFrameFails PROVE DataInv'
    <2>1. /\ pc' = "idle" /\ ~ctlUp'
          /\ UNCHANGED <<stmUp, dataQ, rec>>
      BY <1>11 DEF SendFrameFails, CloseControl, Finish, gotVars, histVars,
          LeaveFrames
    <2> QED BY <2>1, DataQuiet DEF DataInv, NoData, Connected
  <1>12. ASSUME ReadCapture PROVE DataInv'
    <2>1. /\ pc = "data" /\ dataQ # <<>> /\ dataQ' = Tail(dataQ)
          /\ \/ pc' = "resp" /\ adrift' = adrift
             \/ pc' = "idle" /\ adrift' = TRUE
          /\ UNCHANGED <<ctlUp, stmUp, cmd, cmdQ, rec>>
      BY <1>12 DEF ReadCapture, Finish, sessVars, devVars
    <2>2. Connected /\ Connected' /\ cmd.op \in Captures
      BY <2>1 DEF SInv, CallShape, Connected, OwnInv
    <2>3. ~adrift => NoData' /\ cmdQ' = <<>>
      <3>1. ~adrift => rec.left = 0 /\ cmdQ = <<>> /\ Len(dataQ) = 1
        BY <2>1, <2>2 DEF DataInv
      <3>2. Len(dataQ) = 1 => Tail(dataQ) = <<>>
        BY <2>1, Queues, QueueRead
      <3> QED BY <2>1, <3>1, <3>2 DEF NoData
    <2> QED BY <2>1, <2>2, <2>3 DEF DataInv, Captures, Connected
  <1>13. ASSUME ReadDataFails PROVE DataInv'
    <2>1. pc' = "idle" /\ dataQ' = <<>> /\ rec' = NoRecording
      BY <1>13 DEF ReadDataFails, CloseStream, Finish
    <2> QED BY <2>1, DataQuiet DEF NoData, NoRecording
  <1>14. ASSUME ReadResponseFails PROVE DataInv'
    <2>1. /\ pc' = "idle" /\ ~ctlUp'
          /\ UNCHANGED <<stmUp, dataQ, rec>>
      BY <1>14 DEF ReadResponseFails, CloseControl, Finish, gotVars, histVars,
          LeaveFrames
    <2> QED BY <2>1, DataQuiet DEF DataInv, NoData, Connected
  <1>15. ASSUME CommandRefused PROVE DataInv'
    <2>1. /\ pc = "resp" /\ pc' = "idle" /\ respQ # <<>>
          /\ ~Accepted(Head(respQ).code)
          /\ UNCHANGED <<ctlUp, stmUp, adrift, dataQ, rec>>
      BY <1>15 DEF CommandRefused, TakeResponse, Finish, devVars
    <2>2. Head(respQ).code \in {0, 1}
      <3>1. Head(respQ) \in Responses
        BY <2>1, Queues, QueueRead
      <3> QED BY <3>1 DEF Responses
    <2>3. cmd.op = "start" => Head(respQ).code = 1
      BY <2>1, <2>2 DEF Accepted
    <2>4. Connected /\ (~adrift => NoData)
      BY <2>1, <2>3 DEF SInv, CallShape, DataInv
    <2> QED BY <2>1, <2>4, DataQuiet DEF NoData, Connected
  <1>16. ASSUME NextCommand PROVE DataInv'
    <2>1. /\ pc = "resp" /\ pc' \in {"idle", "send"}
          /\ step < Len(Plan(call))
          /\ UNCHANGED <<ctlUp, stmUp, adrift, dataQ, rec>>
      BY <1>16 DEF NextCommand, TakeResponse, sockVars, gotVars, devVars
    <2>2. cmd.op # "start"
      <3>1. step \in Nat /\ Len(Plan(call)) \in Nat
        <4>1. call \in Calls /\ call.op \in NeedsConnection /\ step \in Nat
          BY <2>1 DEF SInv, TypeOK, TypeCall, CallShape
        <4> QED BY <4>1, PlanType
      <3> QED BY <2>1, <3>1, StartOf DEF Waiting
    <2>3. Connected /\ (~adrift => NoData)
      BY <2>1, <2>2 DEF SInv, CallShape, DataInv
    <2> QED BY <2>1, <2>3, DataQuiet DEF NoData, Connected
  <1>17. ASSUME RecordStarted PROVE DataInv'
    <2>1. /\ pc = "resp" /\ pc' = "file" /\ call.op = "record"
          /\ step = Len(Plan(call))
          /\ UNCHANGED <<call, cmd, ctlUp, stmUp, adrift, dataQ, rec>>
      BY <1>17 DEF RecordStarted, TakeResponse, gotVars, devVars
    <2>2. cmd.op = "start"
      BY <2>1, StartOf DEF Waiting
    <2>3. Connected /\ (~adrift => Recording(0))
      BY <2>1, <2>2 DEF SInv, CallShape, DataInv
    <2>4. ~adrift => Recording(0)'
      BY <2>1, <2>3 DEF Recording
    <2>5. stmUp'
      BY <2>1, <2>3 DEF Connected
    <2> QED BY <2>1, <2>4, <2>5 DEF DataInv
  <1>18. ASSUME CallSucceeds PROVE DataInv'
    <2>1. /\ pc = "resp" /\ pc' \in {"idle", "send"}
          /\ call.op # "record"
          /\ UNCHANGED <<ctlUp, stmUp, adrift, dataQ, rec>>
      BY <1>18 DEF CallSucceeds, Finish, TakeResponse, sockVars, gotVars,
          devVars
    <2>2. cmd.op # "start"
      BY <2>1, StartOf DEF Waiting
    <2>3. Connected /\ (~adrift => NoData)
      BY <2>1, <2>2 DEF SInv, CallShape, DataInv
    <2> QED BY <2>1, <2>3, DataQuiet DEF NoData, Connected
  <1>19. ASSUME OpenRecordFile PROVE DataInv'
    <2>1. /\ pc = "file" /\ pc' = "record" /\ received' = 0
          /\ UNCHANGED <<call, cmd, ctlUp, stmUp, adrift, dataQ, rec>>
      BY <1>19 DEF OpenRecordFile, sessVars, chanVars, devVars, histVars
    <2>2. Connected /\ (~adrift => Recording(0))
      BY <2>1 DEF SInv, CallShape, DataInv
    <2>3. ~adrift => Recording(received)'
      BY <2>1, <2>2 DEF Recording
    <2>4. stmUp'
      BY <2>1, <2>2 DEF Connected
    <2> QED BY <2>1, <2>3, <2>4 DEF DataInv
  <1>20. ASSUME OpenRecordFileFails PROVE DataInv'
    <2>1. /\ pc \in {"file", "record"} /\ pc' = "idle" /\ adrift'
          /\ stmUp' = stmUp
      BY <1>20 DEF OpenRecordFileFails, Finish, sessVars, sockVars, gotVars,
          chanVars, devVars
    <2> QED BY <2>1, DataQuiet DEF SInv, CallShape, Connected
  <1>21. ASSUME ReadRecord PROVE DataInv'
    <2>1. /\ pc = "record" /\ dataQ # <<>> /\ Head(dataQ).type = "rec"
          /\ dataQ' = Tail(dataQ)
          /\ received' = received + Head(dataQ).size
          /\ IF received' = call.len THEN pc' = "idle" ELSE pc' = "record"
          /\ UNCHANGED <<call, cmd, ctlUp, stmUp, adrift, rec>>
      BY <1>21 DEF ReadRecord, Recorded, Fits, Finish, callVars, sessVars,
         devVars,
               histVars
    <2>2. /\ Connected /\ (~adrift => Recording(received))
          /\ received \in Nat /\ received' \in Nat
      BY <2>1 DEF SInv, CallShape, DataInv, TypeOK, TypeExchange
    <2>3. ~adrift => /\ received' = call.len => NoData'
                     /\ \A now \in Nat :
                            now = received' => Recording(now)'
      BY <2>1, <2>2, RecordRead
    <2>4. ~adrift => Recording(received)'
      BY <2>2, <2>3 DEF Recording
    <2>5. stmUp'
      BY <2>1, <2>2 DEF Connected
    <2> QED BY <2>1, <2>3, <2>4, <2>5 DEF DataInv
  <1>22. ASSUME ReadRecordFails PROVE DataInv'
    <2>1. /\ pc \in {"file", "record"} /\ pc' = "idle" /\ adrift'
          /\ stmUp' = stmUp
      BY <1>22 DEF ReadRecordFails, Finish, sessVars, sockVars, gotVars,
          devVars
    <2> QED BY <2>1, DataQuiet DEF SInv, CallShape, Connected
  <1>23. ASSUME ServeOld PROVE DataInv'
    <2>1. /\ UNCHANGED <<pc, call, cmd, received, ctlUp, stmUp, config>>
          /\ UNCHANGED <<adrift, known, cmdQ, respQ, dataQ, rec>>
      BY <1>23 DEF ServeOld, callVars, sessVars, gotVars, histVars
    <2> QED
      BY <2>1 DEF DataInv, NoData, Connected, CameFor, Recording
  <1>24. ASSUME ServeSetting PROVE DataInv'
    <2>1. /\ Answer(0) /\ UNCHANGED <<dataQ, rec>>
          /\ 0 \in {0, 1}
          /\ 0 = 1 \/ Head(cmdQ).op # "start"
      BY <1>24 DEF ServeSetting, Settings
    <2> QED BY <2>1, ServeNoData
  <1>25. ASSUME ServeRefuse PROVE DataInv'
    <2>1. /\ Answer(1) /\ UNCHANGED <<dataQ, rec>>
          /\ 1 \in {0, 1}
          /\ 1 = 1 \/ Head(cmdQ).op # "start"
      BY <1>25 DEF ServeRefuse
    <2> QED BY <2>1, ServeNoData
  <1>26. ASSUME ServeQuery PROVE DataInv'
    <2>1. /\ Answer(0) /\ UNCHANGED <<dataQ, rec>>
          /\ 0 \in {0, 1}
          /\ 0 = 1 \/ Head(cmdQ).op # "start"
      BY <1>26 DEF ServeQuery
    <2> QED BY <2>1, ServeNoData
  <1>27. ASSUME NEW code \in {0, 1}, ServeCapture(code) PROVE DataInv'
    <2>1. /\ Answer(code) /\ Head(cmdQ).op \in Captures /\ rec' = rec
          /\ UNCHANGED <<pc, call, cmd, config, received>>
          /\ UNCHANGED <<ctlUp, stmUp, adrift, known>>
      BY <1>27 DEF ServeCapture, Answer, callVars, sessVars, gotVars, histVars
    <2> DEFINE p(t) == [type |-> t, size |-> 1, seq |-> Head(cmdQ).seq,
                        regs |-> IF t \in Captures THEN dev ELSE Defaults]
    <2>2. PICK t \in {Head(cmdQ).op, "other"} :
              dataQ' = IF stmUp THEN Append(dataQ, p(t)) ELSE dataQ
      BY <1>27 DEF ServeCapture, Emit
    <2>3. CASE Connected /\ ~adrift
      <3>1. /\ Waiting /\ Head(cmdQ) = cmd /\ cmdQ # <<>> /\ cmdQ' = <<>>
        BY <2>1, <2>3, ServedAlone
      <3>2. pc = "data" /\ rec.left = 0 /\ dataQ = <<>>
        BY <2>1, <2>3, <3>1 DEF DataInv, Waiting
      <3>3. cmd \in Commands /\ dev \in Config /\ Defaults \in Config
        BY ConstantsAssumption DEF SInv, TypeOK, TypeExchange, TypeBoard
      <3>4. p(t) \in Packets
        BY <2>1, <2>2, <3>1, <3>3 DEF Packets, Commands, Captures
      <3>5. CameFor(p(t))
        BY <2>1, <2>2, <3>1 DEF CameFor, SettingsInv, SettingsAgree
      <3> HIDE DEF p
      <3>6. dataQ' = Append(dataQ, p(t))
        BY <2>2, <2>3 DEF Connected
      <3>7. Len(dataQ') = 1 /\ Head(dataQ') = p(t)
        <4>1. Len(dataQ) = 0
          BY <3>2
        <4> QED BY <3>2, <3>4, <3>6, <4>1, Queues, QueueAppend
      <3>8. CameFor(Head(dataQ))'
        BY <2>1, <3>5, <3>7 DEF CameFor
      <3>9. stmUp' /\ pc' = "data" /\ rec'.left = 0
        BY <2>1, <2>3, <3>2 DEF Connected
      <3> QED BY <3>1, <3>7, <3>8, <3>9 DEF DataInv
    <2>4. CASE ~(Connected /\ ~adrift)
      BY <2>1, <2>2, <2>4 DEF DataInv, NoData, Connected
    <2> QED BY <2>3, <2>4
  <1>28. ASSUME ServeStart PROVE DataInv'
    <2>1. /\ Answer(0) /\ Head(cmdQ).op = "start" /\ dataQ' = dataQ
          /\ rec' = IF stmUp THEN [seq |-> Head(cmdQ).seq,
                                   left |-> Head(cmdQ).val] ELSE rec
          /\ UNCHANGED <<pc, call, cmd, received>>
          /\ UNCHANGED <<ctlUp, stmUp, adrift>>
      BY <1>28 DEF ServeStart, Answer, callVars, sessVars, gotVars, histVars
    <2>2. CASE Connected /\ ~adrift
      <3>1. /\ Waiting /\ Head(cmdQ) = cmd /\ respQ = <<>>
            /\ respQ' # <<>> /\ Head(respQ').code = 0 /\ 0 \in {0, 1}
        BY <2>1, <2>2, ServedAlone
      <3>2. pc = "resp" /\ call.op = "record" /\ cmd.val = call.len
        BY <2>1, <3>1, StartOf DEF Waiting, OwnInv, Captures
      <3>3. dataQ = <<>>
        BY <2>1, <2>2, <3>1, <3>2 DEF DataInv, NoData
      <3>4. call.len \in Nat
        BY <3>2, CallParameters DEF SInv, TypeOK, TypeCall
      <3>5. rec' = [seq |-> cmd.seq, left |-> call.len]
        BY <2>1, <2>2, <3>1, <3>2 DEF Connected
      <3>6. Recording(0)'
        <4>1. dataQ' = <<>> /\ Len(<<>>) = 0
          BY <2>1, <3>3
        <4> QED BY <2>1, <3>2, <3>4, <3>5, <4>1, AmountsEmpty DEF Recording
      <3>7. stmUp' /\ pc' = "resp" /\ cmd'.op = "start"
        BY <2>1, <2>2, <3>1, <3>2 DEF Connected
      <3> QED BY <3>1, <3>6, <3>7 DEF DataInv, Captures
    <2>3. CASE ~(Connected /\ ~adrift)
      BY <2>1, <2>3 DEF DataInv, NoData, Connected
    <2> QED BY <2>2, <2>3
  <1>29. ASSUME StreamRecord PROVE DataInv'
    <2>1. /\ rec.left > 0
          /\ UNCHANGED <<pc, call, cmd, received, respQ, cmdQ>>
          /\ UNCHANGED <<ctlUp, stmUp, adrift>>
      BY <1>29 DEF StreamRecord, callVars, sessVars, gotVars, histVars
    <2>2. PICK n \in 1..rec.left :
              Emit("rec", n, rec.seq) /\ rec' = [rec EXCEPT !.left = @ - n]
      BY <1>29 DEF StreamRecord
    <2>3. rec \in [seq : Seqs, left : Nat] /\ received \in Nat
      BY DEF SInv, TypeOK, TypeBoard, TypeExchange
    <2>4. rec.left \in Nat /\ stmUp
      BY <2>1, <2>3 DEF DataInv, NoData
    <2> DEFINE p == [type |-> "rec", size |-> n, seq |-> rec.seq,
                     regs |-> Defaults]
    <2>5. p \in Packets /\ dataQ' = Append(dataQ, p)
      BY <2>2, <2>3, <2>4, ConstantsAssumption DEF Packets, Emit, Captures
    <2>6. /\ p.type = "rec" /\ p.seq = rec.seq
          /\ Brings(p) = n
      BY DEF Brings
    <2> HIDE DEF p
    <2>7. /\ rec'.left \in Nat /\ rec'.left + Brings(p) = rec.left
          /\ rec'.seq = rec.seq
          /\ p.type = "other" => rec'.left > 0
      BY <2>1, <2>2, <2>3, <2>4, <2>6
    <2>8. \A got \in Nat : Recording(got) => Recording(got)'
      BY <2>1, <2>4, <2>5, <2>6, <2>7, Streamed
    <2>9. CASE Connected /\ ~adrift
      <3>1. /\ pc \in {"resp", "file", "record"}
            /\ pc = "resp" => /\ cmd.op = "start"
                              /\ respQ # <<>> /\ Head(respQ).code # 1
                              /\ Recording(0)
        BY <2>1, <2>4, <2>9 DEF DataInv, NoData, SInv, TypeOK, TypeCall,
                               CallShape, Connected
      <3>2. pc = "record" => Recording(received)'
        <4> SUFFICES ASSUME pc = "record" PROVE Recording(received)'
          OBVIOUS
        <4>1. Recording(received)
          BY <2>9 DEF DataInv
        <4>2. PICK v \in Nat : v = received
          BY <2>3
        <4>3. Recording(v)' /\ received' = v
          BY <2>1, <2>8, <4>1, <4>2
        <4> QED BY <4>3 DEF Recording
      <3>3. pc \in {"resp", "file"} => Recording(0)'
        BY <2>8, <2>9, <3>1 DEF DataInv
      <3>4. pc = "resp" => cmd.op \notin Captures
        BY <3>1 DEF Captures
      <3> QED BY <2>1, <2>4, <3>1, <3>2, <3>3, <3>4 DEF DataInv
    <2>10. CASE ~(Connected /\ ~adrift)
      BY <2>1, <2>4, <2>10 DEF DataInv, Connected
    <2> QED BY <2>9, <2>10
  <1>30. ASSUME StreamStray PROVE DataInv'
    <2>1. /\ rec.left > 0
          /\ UNCHANGED <<pc, call, cmd, received, respQ, cmdQ>>
          /\ UNCHANGED <<ctlUp, stmUp, adrift>>
      BY <1>30 DEF StreamStray, callVars, sessVars, gotVars, histVars
    <2>2. Emit("other", 1, rec.seq) /\ rec' = rec
      BY <1>30 DEF StreamStray
    <2>3. rec \in [seq : Seqs, left : Nat] /\ received \in Nat
      BY DEF SInv, TypeOK, TypeBoard, TypeExchange
    <2>4. rec.left \in Nat /\ stmUp
      BY <2>1, <2>3 DEF DataInv, NoData
    <2> DEFINE p == [type |-> "other", size |-> 1, seq |-> rec.seq,
                     regs |-> Defaults]
    <2>5. p \in Packets /\ dataQ' = Append(dataQ, p)
      BY <2>2, <2>3, <2>4, ConstantsAssumption DEF Packets, Emit, Captures
    <2>6. /\ p.type = "other" /\ p.seq = rec.seq
          /\ Brings(p) = 0
      BY DEF Brings
    <2> HIDE DEF p
    <2>7. /\ rec'.left \in Nat /\ rec'.left + Brings(p) = rec.left
          /\ rec'.seq = rec.seq
          /\ p.type = "other" => rec'.left > 0
      BY <2>1, <2>2, <2>3, <2>4, <2>6
    <2>8. \A got \in Nat : Recording(got) => Recording(got)'
      BY <2>1, <2>4, <2>5, <2>6, <2>7, Streamed
    <2>9. CASE Connected /\ ~adrift
      <3>1. /\ pc \in {"resp", "file", "record"}
            /\ pc = "resp" => /\ cmd.op = "start"
                              /\ respQ # <<>> /\ Head(respQ).code # 1
                              /\ Recording(0)
        BY <2>1, <2>4, <2>9 DEF DataInv, NoData, SInv, TypeOK, TypeCall,
                               CallShape, Connected
      <3>2. pc = "record" => Recording(received)'
        <4> SUFFICES ASSUME pc = "record" PROVE Recording(received)'
          OBVIOUS
        <4>1. Recording(received)
          BY <2>9 DEF DataInv
        <4>2. PICK v \in Nat : v = received
          BY <2>3
        <4>3. Recording(v)' /\ received' = v
          BY <2>1, <2>8, <4>1, <4>2
        <4> QED BY <4>3 DEF Recording
      <3>3. pc \in {"resp", "file"} => Recording(0)'
        BY <2>8, <2>9, <3>1 DEF DataInv
      <3>4. pc = "resp" => cmd.op \notin Captures
        BY <3>1 DEF Captures
      <3> QED BY <2>1, <2>4, <3>1, <3>2, <3>3, <3>4 DEF DataInv
    <2>10. CASE ~(Connected /\ ~adrift)
      BY <2>1, <2>4, <2>10 DEF DataInv, Connected
    <2> QED BY <2>9, <2>10
  <1>31. ASSUME Reboot PROVE DataInv'
    <2>1. /\ cmdQ' = <<>> /\ rec' = NoRecording /\ known' = {}
          /\ UNCHANGED <<pc, call, cmd, config, received, respQ, dataQ>>
          /\ UNCHANGED <<ctlUp, stmUp, adrift>>
      BY <1>31 DEF Reboot, callVars, sessVars, gotVars
    <2>2. rec'.left = 0 /\ (NoData => NoData')
      BY <2>1 DEF NoRecording, NoData
    <2>3. \A got \in Nat : Recording(got) => Recording(got)'
      <3> TAKE got \in Nat
      <3> HAVE Recording(got)
      <3>1. PICK g \in [1..(Len(dataQ) + 1) -> Nat] :
                /\ Amounts(dataQ, g)
                /\ got + g[1] + rec.left <= call.len
                /\ got + g[1] = call.len /\ dataQ # <<>> =>
                     dataQ[Len(dataQ)].type = "rec"
        BY DEF Recording
      <3>2. rec.left \in Nat /\ call.op = "record" /\ call.len \in Nat
        BY CallParameters
           DEF SInv, TypeOK, TypeBoard, TypeCall, Recording
      <3>3. 1 \in 1..(Len(dataQ) + 1)
        BY Queues, QueueLen
      <3>4. g[1] \in Nat
        BY <3>3
      <3>5. got + g[1] + rec'.left <= call.len
        BY <2>2, <3>1, <3>2, <3>4
      <3> QED BY <2>1, <2>2, <3>1, <3>5 DEF Recording
    <2>4. CameFor(Head(dataQ)) => CameFor(Head(dataQ))'
      BY <2>1 DEF CameFor
    <2>5. Recording(received) => Recording(received)'
      <3>1. received \in Nat
        BY DEF SInv, TypeOK, TypeExchange
      <3> QED BY <2>1, <2>3, <3>1 DEF Recording
    <2>6. Recording(0) => Recording(0)'
      BY <2>3
    <2> QED BY <2>1, <2>2, <2>4, <2>5, <2>6 DEF DataInv, Connected
  <1>32. CASE UNCHANGED vars
    <2>1. /\ UNCHANGED <<pc, call, cmd, received, ctlUp, stmUp, config>>
          /\ UNCHANGED <<adrift, known, cmdQ, respQ, dataQ, rec>>
      BY <1>32 DEF vars, callVars, sessVars, gotVars, chanVars, devVars,
               histVars
    <2> QED
      BY <2>1 DEF DataInv, NoData, Connected, CameFor, Recording
  <1>33. CASE Application
    BY <1>33, <1>1, <1>2, <1>3, <1>4, <1>5, <1>6 DEF Application
  <1>34. CASE Host
    BY <1>34, <1>7, <1>8, <1>9, <1>10, <1>11, <1>12, <1>13, <1>14, <1>15,
        <1>16, <1>17, <1>18, <1>19, <1>20, <1>21, <1>22 DEF Host
  <1>35. CASE Board
    BY <1>35, <1>23, <1>24, <1>25, <1>26, <1>27, <1>28, <1>29, <1>30, <1>31
       DEF Board
  <1> QED BY <1>32, <1>33, <1>34, <1>35 DEF Next

-----------------------------------------------------------------------------
(* PacketInv, FileInv *)

\* A packet taken on a channel in order is the capture's own.
LEMMA PacketNext ==
    ASSUME SInv, SInv', CountInv, OwnInv, DataInv, PacketInv, [Next]_vars
    PROVE  PacketInv'
  <1>1. ASSUME NEW c \in Requests, SetWorkMode(c) PROVE PacketInv'
    <2>1. pc' = "idle" /\ call' = c /\ c.op = "mode"
      BY <1>1 DEF SetWorkMode, Issue, sockVars, gotVars, chanVars, devVars,
          histVars
    <2> QED BY <2>1 DEF PacketInv, Captures
  <1>2. ASSUME NEW c \in Requests, RejectCall(c) PROVE PacketInv'
    BY <1>2 DEF RejectCall, Issue, sessVars, sockVars, gotVars, chanVars,
        devVars, histVars, PacketInv
  <1>3. ASSUME NEW c \in Requests, BeginCall(c) PROVE PacketInv'
    BY <1>3 DEF BeginCall, Issue, sessVars, sockVars, gotVars, chanVars,
        devVars, histVars, PacketInv
  <1>4. ASSUME NEW c \in Requests, Disconnect(c) PROVE PacketInv'
    <2>1. pc' = "idle" /\ call' = c /\ c.op = "disconnect"
      BY <1>4 DEF SInv, Disconnect, CloseBoth, Issue, gotVars, histVars,
          LeaveFrames
    <2> QED BY <2>1 DEF PacketInv, Captures
  <1>5. ASSUME NEW c \in Requests, Destroy(c) PROVE PacketInv'
    <2>1. pc' = "idle" /\ call' = c /\ c.op = "destroy"
      BY <1>5 DEF SInv, Destroy, CloseBoth, Issue, gotVars, LeaveFrames
    <2> QED BY <2>1 DEF PacketInv, Captures
  <1>6. ASSUME NEW c \in Requests, BeginConnect(c) PROVE PacketInv'
    BY <1>6 DEF BeginConnect, CloseBoth, Issue, gotVars, histVars,
        LeaveFrames, PacketInv
  <1>7. ASSUME ConnectControl PROVE PacketInv'
    BY <1>7 DEF ConnectControl, Finish, sessVars, gotVars, chanVars,
        histVars, PacketInv
  <1>8. ASSUME OpenStream PROVE PacketInv'
    <2>1. pc = "open" /\ pc' = "idle" /\ call' = call
      BY <1>8 DEF OpenStream, Finish
    <2> QED BY <2>1 DEF PacketInv, CountInv, Captures
  <1>9. ASSUME OpenStreamFails PROVE PacketInv'
    BY <1>9 DEF OpenStreamFails, Finish, sessVars, gotVars, chanVars,
        devVars, histVars, PacketInv
  <1>10. ASSUME SendFrame PROVE PacketInv'
    <2>1. /\ pc' = IF cmd'.op \in Captures THEN "data" ELSE "resp"
      BY <1>10 DEF SendFrame
    <2> QED BY <2>1 DEF PacketInv
  <1>11. ASSUME SendFrameFails PROVE PacketInv'
    BY <1>11 DEF SendFrameFails, CloseControl, Finish, gotVars, histVars,
        LeaveFrames, PacketInv
  <1>12. ASSUME ReadCapture PROVE PacketInv'
    <2>1. /\ pc = "data" /\ dataQ # <<>>
          /\ UNCHANGED <<cmd, config, known>>
          /\ \/ /\ pc' = "resp" /\ adrift' = adrift
                /\ packet' = Head(dataQ) /\ packet'.type \in Captures
             \/ pc' = "idle" /\ result' = "failed"
      BY <1>12 DEF ReadCapture, Finish, sessVars
    <2>2. ~adrift => CameFor(Head(dataQ))
      BY <2>1 DEF DataInv, SInv, CallShape
    <2> QED BY <2>1, <2>2 DEF PacketInv, CameFor, Captures
  <1>13. ASSUME ReadDataFails PROVE PacketInv'
    BY <1>13 DEF ReadDataFails, CloseStream, Finish, gotVars, PacketInv
  <1>14. ASSUME ReadResponseFails PROVE PacketInv'
    BY <1>14 DEF ReadResponseFails, CloseControl, Finish, gotVars,
        histVars, LeaveFrames, PacketInv
  <1>15. ASSUME CommandRefused PROVE PacketInv'
    BY <1>15 DEF CommandRefused, Finish, TakeResponse, sockVars, gotVars,
        devVars, PacketInv
  <1>16. ASSUME NextCommand PROVE PacketInv'
    BY <1>16 DEF NextCommand, TakeResponse, sockVars, gotVars, devVars,
        PacketInv
  <1>17. ASSUME RecordStarted PROVE PacketInv'
    BY <1>17 DEF RecordStarted, TakeResponse, sockVars, gotVars, devVars,
        PacketInv
  <1>18. ASSUME CallSucceeds PROVE PacketInv'
    <2>1. /\ pc = "resp" /\ pc' = "idle" /\ step = Len(Plan(call))
          /\ config' = NewConfig(call)
          /\ known' \subseteq known \cup SettingsOf(call)
          /\ UNCHANGED <<call, cmd, packet, adrift>>
      BY <1>18 DEF CallSucceeds, TakeResponse, Finish, gotVars
    <2>2. SUFFICES ASSUME call.op \in Captures, ~adrift
                   PROVE  /\ packet.type = call.op /\ packet.seq = cmd.seq
                          /\ \A f \in known' : packet.regs[f] = config'[f]
      BY <2>1 DEF PacketInv
    <2>3. config' = config /\ known' \subseteq known
      BY <2>1, <2>2 DEF NewConfig, SettingsOf, Captures
    <2>4. cmd.op = call.op
      <3>1. call \in Calls /\ call.op \in NeedsConnection
        BY <2>1 DEF SInv, TypeOK, TypeCall, CallShape
      <3>2. /\ Len(Plan(call)) = 1
            /\ Plan(call) = <<[op |-> call.op, val |-> 0]>>
        BY <2>2, <3>1, PlanOf
      <3>3. Plan(call)[step].op = call.op
        BY <2>1, <3>2
      <3> QED BY <2>1, <3>3 DEF OwnInv, Waiting
    <2> QED BY <2>1, <2>2, <2>3, <2>4 DEF PacketInv
  <1>19. ASSUME OpenRecordFile PROVE PacketInv'
    BY <1>19 DEF OpenRecordFile, sessVars, sockVars, chanVars, devVars,
        histVars, PacketInv
  <1>20. ASSUME OpenRecordFileFails PROVE PacketInv'
    BY <1>20 DEF OpenRecordFileFails, Finish, sessVars, sockVars, gotVars,
        chanVars, devVars, PacketInv
  <1>21. ASSUME ReadRecord PROVE PacketInv'
    <2>1. pc = "record" /\ pc' \in {"idle", "record"} /\ call' = call
      BY <1>21 DEF ReadRecord, Recorded, Finish, callVars
    <2> QED BY <2>1 DEF PacketInv, SInv, CallShape, Captures
  <1>22. ASSUME ReadRecordFails PROVE PacketInv'
    BY <1>22 DEF ReadRecordFails, Finish, sessVars, sockVars, gotVars,
        devVars, PacketInv
  <1>23. ASSUME ServeOld PROVE PacketInv'
    BY <1>23 DEF ServeOld, callVars, sessVars, sockVars, gotVars, histVars,
        PacketInv
  <1>24. ASSUME ServeSetting PROVE PacketInv'
    BY <1>24 DEF ServeSetting, Answer, callVars, sessVars, sockVars,
        gotVars, histVars, PacketInv
  <1>25. ASSUME ServeRefuse PROVE PacketInv'
    BY <1>25 DEF ServeRefuse, Answer, callVars, sessVars, sockVars,
        gotVars, histVars, PacketInv
  <1>26. ASSUME ServeQuery PROVE PacketInv'
    BY <1>26 DEF ServeQuery, Answer, callVars, sessVars, sockVars, gotVars,
        histVars, PacketInv
  <1>27. ASSUME NEW code \in {0, 1}, ServeCapture(code) PROVE PacketInv'
    BY <1>27 DEF ServeCapture, Answer, Emit, callVars, sessVars, sockVars,
        gotVars, histVars, PacketInv
  <1>28. ASSUME ServeStart PROVE PacketInv'
    BY <1>28 DEF ServeStart, Answer, callVars, sessVars, sockVars, gotVars,
        histVars, PacketInv
  <1>29. ASSUME StreamRecord PROVE PacketInv'
    BY <1>29 DEF StreamRecord, Emit, callVars, sessVars, sockVars, gotVars,
        histVars, PacketInv
  <1>30. ASSUME StreamStray PROVE PacketInv'
    BY <1>30 DEF StreamStray, Emit, callVars, sessVars, sockVars, gotVars,
        histVars, PacketInv
  <1>31. ASSUME Reboot PROVE PacketInv'
    BY <1>31 DEF Reboot, callVars, sessVars, sockVars, gotVars, PacketInv
  <1>32. CASE UNCHANGED vars
    BY <1>32 DEF vars, callVars, sessVars, sockVars, gotVars, chanVars,
        devVars, histVars, PacketInv
  <1>33. CASE Application
    BY <1>33, <1>1, <1>2, <1>3, <1>4, <1>5, <1>6 DEF Application
  <1>34. CASE Host
    BY <1>34, <1>7, <1>8, <1>9, <1>10, <1>11, <1>12, <1>13, <1>14, <1>15,
        <1>16, <1>17, <1>18, <1>19, <1>20, <1>21, <1>22 DEF Host
  <1>35. CASE Board
    BY <1>35, <1>23, <1>24, <1>25, <1>26, <1>27, <1>28, <1>29, <1>30, <1>31
       DEF Board
  <1> QED BY <1>32, <1>33, <1>34, <1>35 DEF Next

\* Neither is anything else written to the recording's file.
LEMMA FileNext ==
    ASSUME SInv, SInv', CountInv, DataInv, FileInv, [Next]_vars
    PROVE  FileInv'
  <1>1. ASSUME NEW c \in Requests, SetWorkMode(c) PROVE FileInv'
    <2>1. pc' = "idle" /\ call' = c /\ c.op = "mode"
      BY <1>1 DEF SetWorkMode, Issue, sockVars, gotVars, chanVars, devVars,
          histVars
    <2> QED BY <2>1 DEF FileInv, RecordingIsOwn
  <1>2. ASSUME NEW c \in Requests, RejectCall(c) PROVE FileInv'
    BY <1>2 DEF RejectCall, Issue, sessVars, sockVars, gotVars, chanVars,
        devVars, histVars, FileInv, RecordingIsOwn
  <1>3. ASSUME NEW c \in Requests, BeginCall(c) PROVE FileInv'
    BY <1>3 DEF BeginCall, Issue, sessVars, sockVars, gotVars, chanVars,
        devVars, histVars, FileInv, RecordingIsOwn
  <1>4. ASSUME NEW c \in Requests, Disconnect(c) PROVE FileInv'
    <2>1. pc' = "idle" /\ call' = c /\ c.op = "disconnect"
      BY <1>4 DEF Disconnect, CloseBoth, Issue, gotVars, histVars,
          LeaveFrames
    <2> QED BY <2>1 DEF FileInv, RecordingIsOwn
  <1>5. ASSUME NEW c \in Requests, Destroy(c) PROVE FileInv'
    <2>1. pc' = "idle" /\ call' = c /\ c.op = "destroy"
      BY <1>5 DEF Destroy, CloseBoth, Issue, gotVars, LeaveFrames
    <2> QED BY <2>1 DEF FileInv, RecordingIsOwn
  <1>6. ASSUME NEW c \in Requests, BeginConnect(c) PROVE FileInv'
    BY <1>6 DEF BeginConnect, CloseBoth, Issue, gotVars, histVars,
        LeaveFrames, FileInv, RecordingIsOwn
  <1>7. ASSUME ConnectControl PROVE FileInv'
    BY <1>7 DEF ConnectControl, Finish, sessVars, gotVars, chanVars,
        histVars, FileInv, RecordingIsOwn
  <1>8. ASSUME OpenStream PROVE FileInv'
    <2>1. pc = "open" /\ pc' = "idle" /\ call' = call
      BY <1>8 DEF OpenStream, Finish
    <2> QED BY <2>1 DEF FileInv, RecordingIsOwn, CountInv
  <1>9. ASSUME OpenStreamFails PROVE FileInv'
    BY <1>9 DEF OpenStreamFails, Finish, sessVars, gotVars, chanVars,
        devVars, histVars, FileInv, RecordingIsOwn
  <1>10. ASSUME SendFrame PROVE FileInv'
    BY <1>10 DEF SendFrame, sockVars, devVars, FileInv, RecordingIsOwn
  <1>11. ASSUME SendFrameFails PROVE FileInv'
    BY <1>11 DEF SendFrameFails, CloseControl, Finish, gotVars, histVars,
        LeaveFrames, FileInv, RecordingIsOwn
  <1>12. ASSUME ReadCapture PROVE FileInv'
    BY <1>12 DEF ReadCapture, Finish, sessVars, sockVars, devVars, FileInv,
        RecordingIsOwn
  <1>13. ASSUME ReadDataFails PROVE FileInv'
    BY <1>13 DEF ReadDataFails, CloseStream, Finish, gotVars, FileInv,
        RecordingIsOwn
  <1>14. ASSUME ReadResponseFails PROVE FileInv'
    BY <1>14 DEF ReadResponseFails, CloseControl, Finish, gotVars,
        histVars, LeaveFrames, FileInv, RecordingIsOwn
  <1>15. ASSUME CommandRefused PROVE FileInv'
    BY <1>15 DEF CommandRefused, Finish, TakeResponse, sockVars, gotVars,
        devVars, FileInv, RecordingIsOwn
  <1>16. ASSUME NextCommand PROVE FileInv'
    BY <1>16 DEF NextCommand, TakeResponse, sockVars, gotVars, devVars,
        FileInv, RecordingIsOwn
  <1>17. ASSUME RecordStarted PROVE FileInv'
    BY <1>17 DEF RecordStarted, TakeResponse, sockVars, gotVars, devVars,
        FileInv, RecordingIsOwn
  <1>18. ASSUME CallSucceeds PROVE FileInv'
    BY <1>18 DEF CallSucceeds, Finish, TakeResponse, sockVars, gotVars,
        devVars, FileInv, RecordingIsOwn
  <1>19. ASSUME OpenRecordFile PROVE FileInv'
    BY <1>19 DEF OpenRecordFile, sessVars, sockVars, chanVars, devVars,
        histVars, FileInv, RecordingIsOwn
  <1>20. ASSUME OpenRecordFileFails PROVE FileInv'
    BY <1>20 DEF OpenRecordFileFails, Finish, sessVars, sockVars, gotVars,
        chanVars, devVars, FileInv, RecordingIsOwn
  <1>21. ASSUME ReadRecord PROVE FileInv'
    <2>1. /\ pc = "record" /\ dataQ # <<>> /\ Head(dataQ).type = "rec"
          /\ dataQ' = Tail(dataQ)
          /\ received' = received + Head(dataQ).size
          /\ file' = file \cup {Head(dataQ).seq}
          /\ \/ pc' = "idle" /\ received' = call.len
             \/ pc' = "record"
          /\ UNCHANGED <<call, cmd, rec, adrift>>
      BY <1>21 DEF ReadRecord, Recorded, Fits, Finish, callVars, devVars,
         histVars
    <2>2. ~adrift => Recording(received) /\ received \in Nat
      BY <2>1 DEF DataInv, SInv, CallShape, TypeOK, TypeExchange
    <2>3. ~adrift => Head(dataQ).seq = cmd.seq
      BY <2>1, <2>2, RecordRead
    <2>4. ~adrift => file' = {cmd.seq}
      BY <2>1, <2>3 DEF FileInv
    <2> QED BY <2>1, <2>4 DEF FileInv, RecordingIsOwn
  <1>22. ASSUME ReadRecordFails PROVE FileInv'
    BY <1>22 DEF ReadRecordFails, Finish, sessVars, sockVars, gotVars,
        devVars, FileInv, RecordingIsOwn
  <1>23. ASSUME ServeOld PROVE FileInv'
    BY <1>23 DEF ServeOld, callVars, sessVars, sockVars, gotVars, histVars,
        FileInv, RecordingIsOwn
  <1>24. ASSUME ServeSetting PROVE FileInv'
    BY <1>24 DEF ServeSetting, Answer, callVars, sessVars, sockVars,
        gotVars, histVars, FileInv, RecordingIsOwn
  <1>25. ASSUME ServeRefuse PROVE FileInv'
    BY <1>25 DEF ServeRefuse, Answer, callVars, sessVars, sockVars,
        gotVars, histVars, FileInv, RecordingIsOwn
  <1>26. ASSUME ServeQuery PROVE FileInv'
    BY <1>26 DEF ServeQuery, Answer, callVars, sessVars, sockVars, gotVars,
        histVars, FileInv, RecordingIsOwn
  <1>27. ASSUME NEW code \in {0, 1}, ServeCapture(code) PROVE FileInv'
    BY <1>27 DEF ServeCapture, Answer, Emit, callVars, sessVars, sockVars,
        gotVars, histVars, FileInv, RecordingIsOwn
  <1>28. ASSUME ServeStart PROVE FileInv'
    BY <1>28 DEF ServeStart, Answer, callVars, sessVars, sockVars, gotVars,
        histVars, FileInv, RecordingIsOwn
  <1>29. ASSUME StreamRecord PROVE FileInv'
    BY <1>29 DEF StreamRecord, Emit, callVars, sessVars, sockVars, gotVars,
        histVars, FileInv, RecordingIsOwn
  <1>30. ASSUME StreamStray PROVE FileInv'
    BY <1>30 DEF StreamStray, Emit, callVars, sessVars, sockVars, gotVars,
        histVars, FileInv, RecordingIsOwn
  <1>31. ASSUME Reboot PROVE FileInv'
    BY <1>31 DEF Reboot, callVars, sessVars, sockVars, gotVars, FileInv,
        RecordingIsOwn
  <1>32. CASE UNCHANGED vars
    BY <1>32 DEF vars, callVars, sessVars, sockVars, gotVars, chanVars,
        devVars, histVars, FileInv, RecordingIsOwn
  <1>33. CASE Application
    BY <1>33, <1>1, <1>2, <1>3, <1>4, <1>5, <1>6 DEF Application
  <1>34. CASE Host
    BY <1>34, <1>7, <1>8, <1>9, <1>10, <1>11, <1>12, <1>13, <1>14, <1>15,
        <1>16, <1>17, <1>18, <1>19, <1>20, <1>21, <1>22 DEF Host
  <1>35. CASE Board
    BY <1>35, <1>23, <1>24, <1>25, <1>26, <1>27, <1>28, <1>29, <1>30, <1>31
       DEF Board
  <1> QED BY <1>32, <1>33, <1>34, <1>35 DEF Next

-----------------------------------------------------------------------------
(* The invariant *)

LEMMA XInit == Init => XInv
  <1> SUFFICES ASSUME Init PROVE XInv
    OBVIOUS
  <1>1. SInv
    BY InitSInv
  <1>2. /\ cmdQ = <<>> /\ oldQ = <<>> /\ respQ = <<>> /\ dataQ = <<>>
        /\ rec = NoRecording /\ pc = "idle" /\ known = {} /\ owed = 0
        /\ ~ctlUp /\ ~stmUp /\ call = [op |-> "disconnect"]
    BY DEF Init
  <1>3. CountInv
    BY <1>2 DEF CountInv, ResponsesAccountedFor
  <1>4. OwnInv
    BY <1>2 DEF OwnInv, Waiting
  <1>5. DataInv
    BY <1>2 DEF DataInv, NoData, NoRecording, Connected
  <1>6. PacketInv /\ FileInv
    BY <1>2 DEF PacketInv, FileInv, RecordingIsOwn, Captures
  <1>7. SettingsInv
    BY <1>2 DEF SettingsInv, SettingsAgree, Exchanging
  <1> QED BY <1>1, <1>3, <1>4, <1>5, <1>6, <1>7 DEF XInv

LEMMA XNext ==
    ASSUME XInv, [Next]_vars
    PROVE  XInv'
  <1>1. SInv'
    BY NextSInv DEF XInv
  <1> QED
    BY <1>1, CountNext, OwnNext, DataNext, PacketNext, FileNext,
       SettingsNext DEF XInv

\* Whatever the application, the board and the network do, the session's
\* account of its two channels is true.
THEOREM ChannelInvariant == Spec => []XInv
  BY XInit, XNext, PTL DEF Spec

\* Responses are lost count of only where a capture gives up on the data
\* channel: on a connection to a board that is there, those on their way are
\* the ones the host gave up and the one it waits for.
THEOREM ResponsesCounted == Spec => []ResponsesAccountedFor
  <1>1. XInv => ResponsesAccountedFor
    BY DEF XInv, CountInv
  <1> QED BY <1>1, ChannelInvariant, PTL

\* While no exchange was abandoned, the response about to be read answers
\* the command just sent, although the code compares no sequence numbers.
THEOREM ResponsesAreOwn == Spec => []ResponseIsOwn
  <1>1. ASSUME XInv PROVE ResponseIsOwn
    <2> SUFFICES ASSUME pc = "resp", ~adrift, respQ # <<>>
                 PROVE  Head(respQ).seq = cmd.seq
      BY DEF ResponseIsOwn
    <2>1. Connected
      BY <1>1 DEF XInv, SInv, CallShape
    <2>2. owed = 0
      BY <1>1, <2>1 DEF XInv, CountInv, Connected
    <2> QED BY <1>1, <2>2 DEF XInv, OwnInv, Waiting
  <1> QED BY <1>1, ChannelInvariant, PTL

\* Between calls a connection with no abandoned exchange has nothing in
\* flight in either direction.
THEOREM ChannelsQuiet == Spec => []QuietBetweenCalls
  <1>1. ASSUME XInv PROVE QuietBetweenCalls
    <2> SUFFICES ASSUME pc = "idle", Connected, ~adrift
                 PROVE  /\ cmdQ = <<>> /\ respQ = <<>>
                        /\ dataQ = <<>> /\ rec.left = 0
      BY DEF QuietBetweenCalls
    <2>1. NoData
      BY <1>1 DEF XInv, DataInv
    <2>2. owed = 0
      BY <1>1 DEF XInv, CountInv, Connected
    <2>3. Len(cmdQ) + Len(respQ) <= 0
      BY <1>1, <2>2 DEF XInv, CountInv, Connected, B, Waiting
    <2>4. /\ Len(cmdQ) \in Nat /\ Len(respQ) \in Nat
          /\ cmdQ = <<>> <=> Len(cmdQ) = 0
          /\ respQ = <<>> <=> Len(respQ) = 0
      BY <1>1, Queues DEF XInv
    <2>5. cmdQ = <<>> /\ respQ = <<>>
      <3> DEFINE m == Len(cmdQ)
                 n == Len(respQ)
      <3>1. m \in Nat /\ n \in Nat /\ m + n <= 0
        BY <2>3, <2>4
      <3> HIDE DEF m, n
      <3>2. m = 0 /\ n = 0
        BY <3>1
      <3> QED BY <2>4, <3>2 DEF m, n
    <2> QED BY <2>1, <2>5 DEF NoData
  <1> QED BY <1>1, ChannelInvariant, PTL

\* A successful capture returns the packet its own command produced, of the
\* kind it asked for, while no exchange was abandoned.
THEOREM CapturesAreOwn == Spec => []CaptureIsOwn
  <1>1. XInv => CaptureIsOwn
    BY DEF XInv, PacketInv, CaptureIsOwn
  <1> QED BY <1>1, ChannelInvariant, PTL

\* A successful recording's file holds the requested length, and only what
\* this recording streamed, while no exchange was abandoned.
THEOREM RecordingsAreOwn == Spec => []RecordingIsOwn
  <1>1. XInv => RecordingIsOwn
    BY DEF XInv, FileInv
  <1> QED BY <1>1, ChannelInvariant, PTL

\* config_ tells the board's setting for every setting that is known.
THEOREM SettingsAreTheBoards == Spec => []SettingsAgree
  <1>1. XInv => SettingsAgree
    BY DEF XInv, SettingsInv
  <1> QED BY <1>1, ChannelInvariant, PTL

\* The sample rate and the LO a capture is labelled with are those it was
\* taken with, when both are known and no exchange was abandoned.
THEOREM MetadataTrue == Spec => []MetadataIsTrue
  <1>1. XInv => MetadataIsTrue
    BY DEF XInv, PacketInv, MetadataIsTrue
  <1> QED BY <1>1, ChannelInvariant, PTL

\* A frame is numbered and written only while both channels are open.
THEOREM SilentOnHalfOpen == Spec => NoFrameOnHalfOpen
  <1>1. ASSUME SInv, [Next]_vars
        PROVE  [nextSeq' # nextSeq => (ctlUp /\ stmUp) \/ pc = "open"]_vars
    <2> DEFINE Sends == SendFrame \/ SendFrameFails \/ OpenStream
    <2>1. Sends => (ctlUp /\ stmUp) \/ pc = "open"
      BY <1>1
         DEF SendFrame, SendFrameFails, OpenStream, SInv, CallShape, Connected
    <2>2. ASSUME Application PROVE nextSeq' = nextSeq
      BY <2>2 DEF Application, SetWorkMode, Issue, sockVars, gotVars,
          chanVars, devVars, histVars, RejectCall, sessVars, BeginCall,
          Disconnect, CloseBoth, LeaveFrames, Destroy, BeginConnect
    <2>3. ASSUME Host PROVE Sends \/ nextSeq' = nextSeq
      BY <2>3 DEF Host, ConnectControl, Finish, sessVars, gotVars,
          chanVars, histVars, OpenStreamFails, devVars, ReadCapture, sockVars,
          ReadDataFails, CloseStream, ReadResponseFails, CloseControl,
          LeaveFrames, CommandRefused, TakeResponse, NextCommand,
          RecordStarted, CallSucceeds, OpenRecordFile, OpenRecordFileFails,
          ReadRecord, Recorded, callVars, ReadRecordFails
    <2>4. ASSUME Board PROVE nextSeq' = nextSeq
      BY <2>4 DEF Board, ServeOld, callVars, sessVars, sockVars, gotVars,
          histVars, ServeSetting, Answer, ServeRefuse, ServeQuery,
          ServeCapture, Emit, ServeStart, StreamRecord, StreamStray, Reboot
    <2>5. ASSUME UNCHANGED vars PROVE nextSeq' = nextSeq
      BY <2>5 DEF vars, sessVars
    <2> QED BY <1>1, <2>1, <2>2, <2>3, <2>4, <2>5 DEF Next
  <1> QED BY <1>1, SessionInvariant, PTL DEF Spec, NoFrameOnHalfOpen

=============================================================================

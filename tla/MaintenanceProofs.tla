-------------------------- MODULE MaintenanceProofs --------------------------
(***************************************************************************)
(* Proofs about Maintenance, for every value of its constants.             *)
(***************************************************************************)
EXTENDS Maintenance, NetworkConfigProofs

-----------------------------------------------------------------------------
(* The inductive invariant *)

\* Who the two ends of the connection are: there is one exactly while a call
\* exchanges, nothing is on its way before the request, and from then on what
\* the service does for a connected host is the host's own call.
Exchange ==
    /\ pc # "idle" \/ svc # "idle" => n > 0
    /\ link = "none" <=> pc \in {"idle", "connect"}
    /\ pc = "send" => svc = "idle"
    /\ pc \in {"idle", "connect", "send"} => down = <<>>
    /\ svc # "idle" => serving.n > 0
    /\ pc \in {"upload", "reply", "events"} => serving.n = n
    /\ pc = "reply" => call.op # "update"
    /\ pc \in {"upload", "events"} => call.op = "update"

\* The events that tell the host that the script has succeeded.
Announces(e) ==
    e.kind = "DONE" \/ (e.kind \in {"LOG", "FAIL"} /\ SeesComplete(e.text))

\* The announcement is the truth wherever it is: in the service, on its way,
\* and in what the host remembers of it.
Truth ==
    /\ svc \in Running \ {"script"} => serving.n \in flashed
    /\ \A i \in DOMAIN down : Announces(down[i]) => n \in flashed
    /\ complete => n \in flashed

\* The progress shown is last_fraction or behind it; before the board reports
\* its own it is the part of the package that has been sent.
Sent(c, l) == ((c - l) * 50) \div c
Meter ==
    /\ shown <= fraction
    /\ call.op = "update" /\ pc \in {"connect", "send", "upload"} =>
           left <= call.chunks /\ shown = Sent(call.chunks, left)

MInv == TypeOK /\ Exchange /\ Truth /\ Meter /\ SuccessIsReal

-----------------------------------------------------------------------------
(* The operators the model is built from *)

\* The larger of two integers.
LEMMA MaxPair ==
    ASSUME NEW a \in Int, NEW b \in Int
    PROVE  Max({a, b}) = IF a >= b THEN a ELSE b
  <1>1. \E x \in {a, b} : \A y \in {a, b} : x >= y
    OBVIOUS
  <1> QED BY <1>1 DEF Max

\* The smaller of two integers.
LEMMA MinPair ==
    ASSUME NEW a \in Int, NEW b \in Int
    PROVE  Min({a, b}) = IF a <= b THEN a ELSE b
  <1>1. \E x \in {a, b} : \A y \in {a, b} : x <= y
    OBVIOUS
  <1> QED BY <1>1 DEF Min

\* The upload is the first half of the progress, and nothing sent is 0 %.
LEMMA SentBound ==
    ASSUME NEW c \in Nat \ {0}, NEW l \in 0..c
    PROVE  Sent(c, l) \in 0..50 /\ Sent(c, c) = 0
  <1> DEFINE k == c - l
  <1>1. k \in 0..c
    OBVIOUS
  <1>2. (k * 50) \div c \in 0..50
    BY <1>1
  <1>3. (c - c) * 50 = 0
    OBVIOUS
  <1>4. 0 \div c = 0
    OBVIOUS
  <1> QED BY <1>2, <1>3, <1>4 DEF Sent

\* A chunk sent never takes the progress back.
LEMMA SentGrows ==
    ASSUME NEW c \in Nat \ {0}, NEW l \in 0..c, NEW m \in 0..c, m <= l
    PROVE  Sent(c, l) <= Sent(c, m)
  <1> DEFINE a == (c - l) * 50
             b == (c - m) * 50
  <1>1. a \in Nat /\ b \in Nat /\ a <= b
    OBVIOUS
  <1>2. a \div c <= b \div c
    BY <1>1
  <1> QED BY <1>2 DEF Sent

\* report_progress keeps a percentage and never goes back, whatever it gets.
LEMMA ProgressStep ==
    ASSUME NEW p \in Int, fraction \in 0..100, ReportProgress(p)
    PROVE  /\ shown' = fraction' /\ fraction' \in 0..100
           /\ fraction' >= fraction
           /\ p = 100 => fraction' = 100
  <1> DEFINE low == Max({0, p})
             clamped == Min({100, low})
  <1>1. low \in Int /\ low >= 0 /\ (p = 100 => low = 100)
    BY MaxPair
  <1>2. shown' = fraction' /\ fraction' = Max({fraction, clamped})
    BY DEF ReportProgress
  <1> HIDE DEF low
  <1>3. clamped = IF 100 <= low THEN 100 ELSE low
    BY <1>1, MinPair
  <1> HIDE DEF clamped
  <1>4. clamped \in 0..100 /\ (p = 100 => clamped = 100)
    BY <1>1, <1>3
  <1>5. fraction' = IF fraction >= clamped THEN fraction ELSE clamped
    BY <1>2, <1>4, MaxPair
  <1> QED BY <1>2, <1>4, <1>5

\* Short texts are texts.
LEMMA ShortTexts ==
    ASSUME NEW S, NEW a \in S, NEW b \in S, NEW c \in S
    PROVE  /\ <<>> \in Seq(S) /\ <<a>> \in Seq(S) /\ <<a, b>> \in Seq(S)
           /\ <<a, b, c>> \in Seq(S)
  OBVIOUS

\* No event is on its way.
LEMMA NoEvents == <<>> \in Seq(Events)
  OBVIOUS

\* The calls are what the assumption says.
LEMMA CallTypes ==
    ASSUME NEW c \in Calls \cup {NoCall}
    PROVE  /\ c.op = "update" => c.chunks \in Nat \ {0}
           /\ c.op = "setnet" =>
                c.config.mode \in Modes /\ Serialize(c.config) \in Seq(Tokens)
  <1>1. NoCall.op = "status"
    BY DEF NoCall
  <1>2. c.op = "update" => c.chunks \in Nat \ {0}
    BY <1>1, MaintenanceAssumption DEF Requests
  <1>3. ASSUME c.op = "setnet"
        PROVE  c.config.mode \in Modes /\ Serialize(c.config) \in Seq(Tokens)
    <2>1. /\ c.config.mode \in Modes
          /\ c.config.mac \in Seq(Tokens) /\ c.config.address \in Seq(Tokens)
          /\ c.config.netmask \in Seq(Tokens) /\ c.config.gateway \in Seq(Tokens)
          /\ c.config.dns \in Seq(Tokens)
      BY <1>1, <1>3, MaintenanceAssumption DEF Requests, Configs
    <2>2. ASSUME NEW key \in Keys, NEW value \in Seq(Tokens)
          PROVE  /\ Line(key, value) \in Seq(Tokens)
                 /\ Optional(key, value) \in Seq(Tokens)
      <3>1. <<key, "=">> \in Seq(Tokens) /\ <<"\n">> \in Seq(Tokens)
        BY <2>2, ShortTexts DEF Tokens
      <3>2. Line(key, value) \in Seq(Tokens)
        BY <3>1 DEF Line
      <3>3. <<>> \in Seq(Tokens)
        OBVIOUS
      <3> QED BY <3>2, <3>3 DEF Optional
    <2>3. Comment \in Seq(Tokens)
      BY ShortTexts DEF Comment, Tokens
    <2>4. <<c.config.mode>> \in Seq(Tokens)
      BY <2>1, ShortTexts DEF Tokens
    <2> DEFINE address == Line("address", c.config.address)
               netmask == Line("netmask", c.config.netmask)
               gateway == Optional("gateway", c.config.gateway)
               dns == Optional("dns", c.config.dns)
               mac == Optional("mac", c.config.mac)
               mode == Line("mode", <<c.config.mode>>)
               rest == IF c.config.mode # "static" THEN <<>>
                       ELSE address \o netmask \o gateway \o dns
    <2>5. /\ address \in Seq(Tokens) /\ netmask \in Seq(Tokens)
          /\ gateway \in Seq(Tokens) /\ dns \in Seq(Tokens)
          /\ mac \in Seq(Tokens) /\ mode \in Seq(Tokens)
      BY <2>1, <2>2, <2>4 DEF Keys
    <2>6. Serialize(c.config) = Comment \o Comment \o mode \o mac \o rest
      BY DEF Serialize
    <2>7. rest \in Seq(Tokens)
      <3> HIDE DEF address, netmask, gateway, dns
      <3>1. <<>> \in Seq(Tokens)
        OBVIOUS
      <3> QED BY <2>5, <3>1
    <2> HIDE DEF mac, mode, rest
    <2> QED BY <2>1, <2>3, <2>5, <2>6, <2>7
  <1> QED BY <1>2, <1>3

\* A chunk sent moves the progress on, within the first half.
LEMMA SendChunkStep ==
    ASSUME TypeOK, Exchange, Meter, SendChunk
    PROVE  /\ left' \in 0..call.chunks /\ shown' = Sent(call.chunks, left')
           /\ shown' \in 0..50 /\ shown <= shown'
           /\ fraction' \in 0..100 /\ shown' <= fraction'
  <1>1. /\ call.op = "update" /\ call.chunks \in Nat \ {0}
        /\ left \in 1..call.chunks /\ shown = Sent(call.chunks, left)
    BY CallTypes DEF SendChunk, TypeOK, Exchange, Meter
  <1>2. left' = left - 1
    BY DEF SendChunk
  <1>3. left' \in 0..call.chunks /\ left' <= left
    BY <1>1, <1>2
  <1>4. shown' = Sent(call.chunks, left')
    BY DEF SendChunk, Sent
  <1>5. shown' \in 0..50
    BY <1>1, <1>3, <1>4, SentBound
  <1>6. shown <= shown'
    BY <1>1, <1>3, <1>4, SentGrows
  <1>7. fraction \in 0..100 /\ fraction' = Max({fraction, shown'})
    BY DEF SendChunk, TypeOK
  <1>8. fraction' = IF fraction >= shown' THEN fraction ELSE shown'
    BY <1>5, <1>7, MaxPair
  <1> QED BY <1>3, <1>4, <1>5, <1>6, <1>7, <1>8

\* The first of the events on their way, and the others.
LEMMA HeadAndTail ==
    ASSUME TypeOK, down # <<>>
    PROVE  /\ Head(down) \in Events /\ Head(down).percent \in Int
           /\ 1 \in DOMAIN down /\ Head(down) = down[1]
           /\ Tail(down) \in Seq(Events)
           /\ \A i \in DOMAIN Tail(down) : /\ i + 1 \in DOMAIN down
                                           /\ Tail(down)[i] = down[i + 1]
  <1>1. down \in Seq(Events)
    BY DEF TypeOK
  <1>2. Head(down) \in Events
    BY <1>1
  <1>3. Head(down).percent \in Int
    BY <1>2 DEF Events
  <1> QED BY <1>1, <1>2, <1>3

\* What the service sends reaches a connected host as the last event on its
\* way, and no other host.
LEMMA EmitStep ==
    ASSUME TypeOK, Exchange, Truth, NEW e \in Events, Emit(e), svc # "idle",
           Announces(e) => serving.n \in flashed
    PROVE  /\ down' \in Seq(Events)
           /\ \A i \in DOMAIN down' : Announces(down'[i]) => n \in flashed
           /\ link # "up" => down' = down
           /\ link = "up" => pc \in {"upload", "reply", "events"}
  <1>1. down \in Seq(Events)
    BY DEF TypeOK
  <1>2. link = "up" => pc \in {"upload", "reply", "events"}
    BY DEF TypeOK, Exchange
  <1>3. CASE link = "up"
    <2>1. down' = Append(down, e)
      BY <1>3 DEF Emit
    <2>2. serving.n = n
      BY <1>2, <1>3 DEF Exchange
    <2>3. /\ down' \in Seq(Events) /\ Len(down') = Len(down) + 1
          /\ \A i \in 1..Len(down) : down'[i] = down[i]
          /\ down'[Len(down) + 1] = e
      BY <1>1, <2>1
    <2>4. DOMAIN down' = 1..Len(down) + 1 /\ DOMAIN down = 1..Len(down)
      BY <1>1, <2>3
    <2>5. ASSUME NEW i \in DOMAIN down', Announces(down'[i])
          PROVE  n \in flashed
      <3>1. CASE i = Len(down) + 1
        BY <2>2, <2>3, <2>5, <3>1
      <3>2. CASE i \in 1..Len(down)
        BY <2>3, <2>4, <2>5, <3>2 DEF Truth
      <3> QED BY <1>1, <2>4, <3>1, <3>2
    <2> QED BY <1>2, <1>3, <2>3, <2>5
  <1>4. CASE link # "up"
    BY <1>1, <1>2, <1>4 DEF Emit, Truth
  <1> QED BY <1>3, <1>4

\* A broken connection leaves a beginning of what was on its way.
LEMMA BreakStep ==
    ASSUME TypeOK, Truth, NEW reasons, Break(reasons),
           reasons \subseteq {"reset", "reboot", "split"}
    PROVE  /\ down' \in Seq(Events)
           /\ \A i \in DOMAIN down' : Announces(down'[i]) => n \in flashed
           /\ down = <<>> => down' = <<>>
           /\ Closing
           /\ trouble' \subseteq {"timeout", "reset", "reboot", "split",
                                  "torn", "lost"}
  <1>1. down \in Seq(Events)
    BY DEF TypeOK
  <1>2. CASE UNCHANGED down /\ Closing /\ trouble' = trouble \cup reasons
    BY <1>1, <1>2 DEF Truth, TypeOK
  <1>3. ASSUME NEW i \in 1..Len(down), NEW torn \in BOOLEAN, Closing,
               down' = IF torn THEN [SubSeq(down, 1, i) EXCEPT ![i].torn = TRUE]
                               ELSE SubSeq(down, 1, i - 1),
               trouble' = trouble \cup reasons
                      \cup {IF torn /\ i = Len(down) THEN "torn" ELSE "lost"}
        PROVE  /\ down' \in Seq(Events)
               /\ \A j \in DOMAIN down' : Announces(down'[j]) => n \in flashed
               /\ down = <<>> => down' = <<>>
               /\ Closing
               /\ trouble' \subseteq {"timeout", "reset", "reboot", "split",
                                      "torn", "lost"}
    <2>1. trouble' \subseteq {"timeout", "reset", "reboot", "split", "torn",
                             "lost"}
      BY <1>3 DEF TypeOK
    <2>2. down # <<>>
      BY <1>1
    <2>3. CASE ~torn
      <3>1. /\ down' \in Seq(Events) /\ Len(down') = i - 1
            /\ \A j \in 1..i - 1 : down'[j] = down[j]
        BY <1>1, <1>3, <2>3
      <3>2. \A j \in DOMAIN down' : j \in DOMAIN down /\ down'[j] = down[j]
        BY <1>1, <3>1
      <3> QED BY <1>3, <2>1, <2>2, <3>1, <3>2 DEF Truth
    <2>4. CASE torn
      <3> DEFINE head == SubSeq(down, 1, i)
                 last == [down[i] EXCEPT !.torn = TRUE]
      <3>1. /\ head \in Seq(Events) /\ Len(head) = i
            /\ \A j \in 1..i : head[j] = down[j]
        BY <1>1
      <3>2. down[i] \in Events
        BY <1>1
      <3>3. /\ last \in Events /\ last.kind = down[i].kind
            /\ last.text = down[i].text
        BY <3>2 DEF Events
      <3>4. down' = [head EXCEPT ![i] = last]
        <4>1. down' = [head EXCEPT ![i].torn = TRUE]
          BY <1>3, <2>4
        <4>2. head[i] = down[i]
          BY <1>1, <3>1
        <4> HIDE DEF head
        <4> QED BY <4>1, <4>2
      <3> HIDE DEF head, last
      <3>5. /\ down' \in Seq(Events) /\ Len(down') = i
            /\ \A j \in 1..i : down'[j] = IF j = i THEN last ELSE down[j]
        BY <1>1, <3>1, <3>3, <3>4
      <3>6. ASSUME NEW j \in DOMAIN down', Announces(down'[j])
            PROVE  n \in flashed
        <4>1. j \in 1..i /\ j \in DOMAIN down
          BY <1>1, <3>5
        <4>2. Announces(down[j])
          BY <3>3, <3>5, <3>6, <4>1 DEF Announces
        <4> QED BY <4>1, <4>2 DEF Truth
      <3> QED BY <1>3, <2>1, <2>2, <3>5, <3>6
    <2> QED BY <2>3, <2>4
  <1> QED BY <1>2, <1>3 DEF Break


-----------------------------------------------------------------------------
(* Every step keeps the invariant *)

\* Call keeps the inductive invariant.
LEMMA CallInv ==
    ASSUME MInv, Call
    PROVE  MInv'
  <1> USE DEF Call, KeepCall, hostVars, linkVars, boardVars
  <1>1. call' \in Calls /\ (call'.op = "update" => call'.chunks \in Nat \ {0})
    BY CallTypes
  <1>2. TypeOK'
    <2>1. left' \in Nat
      BY <1>1
    <2>2. n' \in 0..MaxCalls
      BY MaintenanceAssumption DEF MInv, TypeOK
    <2>3. fraction' \in 0..100 /\ shown' \in 0..100
      OBVIOUS
    <2> QED BY <1>1, <2>1, <2>2, <2>3 DEF MInv, TypeOK
  <1>3. Exchange'
    BY DEF MInv, TypeOK, Exchange, Running
  <1>4. Truth'
    BY DEF MInv, TypeOK, Exchange, Truth, Running
  <1>5. Meter'
    <2>1. call'.op = "update" => Sent(call'.chunks, call'.chunks) = 0
      BY <1>1, SentBound
    <2> QED BY <1>1, <2>1 DEF MInv, TypeOK, Meter
  <1>6. SuccessIsReal'
    BY DEF MInv, TypeOK, Exchange, Truth, SuccessIsReal, UpdateEnded
  <1> QED BY <1>2, <1>3, <1>4, <1>5, <1>6 DEF MInv

\* ConnectFails keeps the inductive invariant.
LEMMA ConnectFailsInv ==
    ASSUME MInv, ConnectFails
    PROVE  MInv'
  <1> USE DEF ConnectFails, Return, KeepCall, hostVars, linkVars, boardVars
  <1>1. TypeOK'
    BY CallTypes DEF MInv, TypeOK, Running
  <1>2. Exchange'
    BY DEF MInv, TypeOK, Exchange, Running
  <1>3. Truth'
    BY DEF MInv, TypeOK, Exchange, Truth, Running
  <1>4. Meter'
    BY DEF MInv, TypeOK, Meter
  <1>5. SuccessIsReal'
    BY DEF MInv, TypeOK, Exchange, Truth, SuccessIsReal, UpdateEnded
  <1> QED BY <1>1, <1>2, <1>3, <1>4, <1>5 DEF MInv

\* Connect keeps the inductive invariant.
LEMMA ConnectInv ==
    ASSUME MInv, Connect
    PROVE  MInv'
  <1> USE DEF Connect, KeepCall, hostVars, linkVars, boardVars
  <1>1. TypeOK'
    BY CallTypes DEF MInv, TypeOK, Running
  <1>2. Exchange'
    BY DEF MInv, TypeOK, Exchange, Running
  <1>3. Truth'
    BY DEF MInv, TypeOK, Exchange, Truth, Running
  <1>4. Meter'
    BY DEF MInv, TypeOK, Meter
  <1>5. SuccessIsReal'
    BY DEF MInv, TypeOK, Exchange, Truth, SuccessIsReal, UpdateEnded
  <1> QED BY <1>1, <1>2, <1>3, <1>4, <1>5 DEF MInv

\* SendRequest keeps the inductive invariant.
LEMMA SendRequestInv ==
    ASSUME MInv, SendRequest
    PROVE  MInv'
  <1> USE DEF SendRequest, KeepCall, hostVars, linkVars, boardVars
  <1>1. TypeOK'
    <2>1. serving' \in [call : Calls \cup {NoCall}, n : 0..MaxCalls]
      BY DEF MInv, TypeOK
    <2>2. 0 \in 0..MaxEvents
      BY MaintenanceAssumption
    <2> QED BY <2>1, <2>2 DEF MInv, TypeOK
  <1>2. Exchange'
    BY DEF MInv, TypeOK, Exchange, Running
  <1>3. Truth'
    BY DEF MInv, TypeOK, Exchange, Truth, Running
  <1>4. Meter'
    BY DEF MInv, TypeOK, Meter
  <1>5. SuccessIsReal'
    BY DEF MInv, TypeOK, Exchange, Truth, SuccessIsReal, UpdateEnded
  <1> QED BY <1>1, <1>2, <1>3, <1>4, <1>5 DEF MInv

\* SendFails keeps the inductive invariant.
LEMMA SendFailsInv ==
    ASSUME MInv, SendFails
    PROVE  MInv'
  <1> USE DEF SendFails, Return, CloseSocket, KeepCall, Stall, hostVars,
       linkVars, boardVars
  <1>1. TypeOK'
    BY NoEvents DEF MInv, TypeOK, Running
  <1>2. Exchange'
    BY DEF MInv, TypeOK, Exchange, Running
  <1>3. Truth'
    BY DEF MInv, TypeOK, Exchange, Truth, Running
  <1>4. Meter'
    BY DEF MInv, TypeOK, Meter
  <1>5. SuccessIsReal'
    BY DEF MInv, TypeOK, Exchange, Truth, SuccessIsReal, UpdateEnded
  <1> QED BY <1>1, <1>2, <1>3, <1>4, <1>5 DEF MInv

\* SendChunk keeps the inductive invariant.
LEMMA SendChunkInv ==
    ASSUME MInv, SendChunk
    PROVE  MInv'
  <1> USE DEF SendChunk, hostVars, linkVars, boardVars
  <1>1. /\ left' \in 0..call.chunks /\ shown' = Sent(call.chunks, left')
        /\ shown' \in 0..50 /\ shown <= shown'
        /\ fraction' \in 0..100 /\ shown' <= fraction'
    BY SendChunkStep DEF MInv
  <1>2. TypeOK'
    <2>1. left' \in Nat /\ fraction' \in 0..100 /\ shown' \in 0..100
      <3>1. left \in Nat /\ left' = left - 1 /\ left > 0
        BY DEF MInv, TypeOK
      <3>2. left' \in Nat
        BY ONLY <3>1
      <3>3. shown' \in 0..100
        BY ONLY <1>1
      <3> QED BY <1>1, <3>2, <3>3
    <2>2. up' \in Nat /\ pc' \in {"upload", "events"}
      BY DEF MInv, TypeOK
    <2>3. UNCHANGED <<call, complete, ret, config, answered, link, down,
                      boardVars, n, resets, trouble>>
      OBVIOUS
    <2> HIDE DEF SendChunk
    <2> QED BY <2>1, <2>2, <2>3 DEF MInv, TypeOK
  <1>3. Exchange'
    BY DEF MInv, TypeOK, Exchange, Running
  <1>4. Truth'
    BY DEF MInv, TypeOK, Exchange, Truth, Running
  <1>5. Meter'
    BY <1>1 DEF MInv, TypeOK, Exchange, Meter
  <1>6. SuccessIsReal'
    BY DEF MInv, TypeOK, Exchange, Truth, SuccessIsReal, UpdateEnded
  <1> QED BY <1>2, <1>3, <1>4, <1>5, <1>6 DEF MInv

\* ReadPackageFails keeps the inductive invariant.
LEMMA ReadPackageFailsInv ==
    ASSUME MInv, ReadPackageFails
    PROVE  MInv'
  <1> USE DEF ReadPackageFails, Return, CloseSocket, KeepCall, hostVars,
       linkVars, boardVars
  <1>1. TypeOK'
    BY NoEvents DEF MInv, TypeOK, Running
  <1>2. Exchange'
    BY DEF MInv, TypeOK, Exchange, Running
  <1>3. Truth'
    BY DEF MInv, TypeOK, Exchange, Truth, Running
  <1>4. Meter'
    BY DEF MInv, TypeOK, Meter
  <1>5. SuccessIsReal'
    BY DEF MInv, TypeOK, Exchange, Truth, SuccessIsReal, UpdateEnded
  <1> QED BY <1>1, <1>2, <1>3, <1>4, <1>5 DEF MInv

\* ReadReply keeps the inductive invariant.
LEMMA ReadReplyInv ==
    ASSUME MInv, ReadReply
    PROVE  MInv'
  <1> USE DEF ReadReply, Accepted, Return, CloseSocket, hostVars, linkVars,
              boardVars
  <1>1. TypeOK'
    <2>1. config'.mode \in Modes
      BY DEF MInv, TypeOK, Parses, Parsed, Default, Modes
    <2>2. answered' \in BOOLEAN /\ ret' \in BOOLEAN
      BY DEF MInv, TypeOK
    <2>3. <<>> \in Seq(Events)
      OBVIOUS
    <2> QED BY <2>1, <2>2, <2>3 DEF MInv, TypeOK
  <1>2. Exchange'
    BY DEF MInv, TypeOK, Exchange, Running
  <1>3. Truth'
    BY DEF MInv, TypeOK, Exchange, Truth, Running
  <1>4. Meter'
    BY DEF MInv, TypeOK, Meter
  <1>5. SuccessIsReal'
    BY DEF MInv, TypeOK, Exchange, Truth, SuccessIsReal, UpdateEnded
  <1> QED BY <1>1, <1>2, <1>3, <1>4, <1>5 DEF MInv

\* ReplyFails keeps the inductive invariant.
LEMMA ReplyFailsInv ==
    ASSUME MInv, ReplyFails
    PROVE  MInv'
  <1> USE DEF ReplyFails, Return, CloseSocket, KeepCall, NoMore, Stall,
       hostVars, linkVars, boardVars
  <1>1. TypeOK'
    BY NoEvents DEF MInv, TypeOK, Running
  <1>2. Exchange'
    BY DEF MInv, TypeOK, Exchange, Running
  <1>3. Truth'
    BY DEF MInv, TypeOK, Exchange, Truth, Running
  <1>4. Meter'
    BY DEF MInv, TypeOK, Meter
  <1>5. SuccessIsReal'
    BY DEF MInv, TypeOK, Exchange, Truth, SuccessIsReal, UpdateEnded
  <1> QED BY <1>1, <1>2, <1>3, <1>4, <1>5 DEF MInv

\* ReadProgress keeps the inductive invariant.
LEMMA ReadProgressInv ==
    ASSUME MInv, ReadProgress
    PROVE  MInv'
  <1> USE DEF ReadProgress, hostVars, linkVars, boardVars
  <1>1. /\ Head(down) \in Events /\ Head(down).percent \in Int
        /\ 1 \in DOMAIN down /\ Head(down) = down[1]
        /\ Tail(down) \in Seq(Events)
        /\ \A i \in DOMAIN Tail(down) : /\ i + 1 \in DOMAIN down
                                        /\ Tail(down)[i] = down[i + 1]
    BY HeadAndTail DEF MInv
  <1>2. shown' = fraction' /\ fraction' \in 0..100
    BY <1>1, ProgressStep DEF MInv, TypeOK
  <1>3. TypeOK'
    BY <1>1, <1>2 DEF MInv, TypeOK
  <1>4. Exchange'
    BY DEF MInv, TypeOK, Exchange, Running
  <1>5. Truth'
    BY <1>1 DEF MInv, Truth, Running
  <1>6. Meter'
    BY <1>2 DEF MInv, TypeOK, Exchange, Meter
  <1>7. SuccessIsReal'
    BY DEF MInv, TypeOK, Exchange, Truth, SuccessIsReal, UpdateEnded
  <1> QED BY <1>3, <1>4, <1>5, <1>6, <1>7 DEF MInv

\* ReadText keeps the inductive invariant.
LEMMA ReadTextInv ==
    ASSUME MInv, ReadText
    PROVE  MInv'
  <1> USE DEF ReadText, Return, CloseSocket, hostVars, linkVars, boardVars
  <1>1. /\ Head(down) \in Events /\ Head(down).percent \in Int
        /\ 1 \in DOMAIN down /\ Head(down) = down[1]
        /\ Tail(down) \in Seq(Events)
        /\ \A i \in DOMAIN Tail(down) : /\ i + 1 \in DOMAIN down
                                        /\ Tail(down)[i] = down[i + 1]
    BY HeadAndTail DEF MInv
  <1>2. complete' \/ Head(down).kind = "DONE" => n \in flashed
    BY <1>1 DEF MInv, Truth, Announces
  <1>3. /\ shown' \in 0..100 /\ fraction' \in 0..100 /\ shown' <= fraction'
        /\ Head(down).kind = "DONE" => shown' = 100
    <2>1. /\ fraction \in 0..100 /\ shown \in 0..100 /\ shown <= fraction
      BY DEF MInv, TypeOK, Meter
    <2>2. CASE Head(down).kind = "DONE"
      BY <2>1, <2>2, ProgressStep
    <2>3. CASE Head(down).kind # "DONE"
      <3>1. fraction' = fraction
        BY <2>3
      <3>2. shown' = IF Head(down).text = <<>> THEN shown ELSE fraction
        BY <2>3
      <3> HIDE DEF ReadText, Return, CloseSocket
      <3> QED BY <2>1, <2>3, <3>1, <3>2
    <2> QED BY <2>2, <2>3
  <1>4. complete' \in BOOLEAN
    <2>1. complete' = (complete \/ SeesComplete(Head(down).text))
      OBVIOUS
    <2> QED BY <2>1 DEF MInv, TypeOK
  <1>5. ret' \in BOOLEAN /\ pc' \in {pc, "idle"}
    <2>1. ret' = ret \/ ret' = (Head(down).kind = "DONE")
      OBVIOUS
    <2> QED BY <2>1 DEF MInv, TypeOK
  <1>6. down' \in Seq(Events) /\ up' \in Nat /\ link' \in {"none", link}
    <2>1. CASE Head(down).kind = "LOG"
      <3>1. down' = Tail(down) /\ up' = up /\ link' = link
        BY <2>1
      <3> QED BY <1>1, <3>1 DEF MInv, TypeOK
    <2>2. CASE Head(down).kind # "LOG"
      <3>1. down' = <<>> /\ up' = 0 /\ link' = "none"
        BY <2>2
      <3> QED BY <3>1, NoEvents
    <2> QED BY <2>1, <2>2
  <1>7. TypeOK'
    BY <1>3, <1>4, <1>5, <1>6 DEF MInv, TypeOK
  <1>8. Exchange'
    BY DEF MInv, TypeOK, Exchange, Running
  <1>9. Truth'
    BY <1>1, <1>2 DEF MInv, Truth, Running
  <1>10. Meter'
    BY <1>3 DEF MInv, TypeOK, Exchange, Meter
  <1>11. SuccessIsReal'
    BY <1>2, <1>3 DEF MInv, Exchange, SuccessIsReal, UpdateEnded
  <1> QED BY <1>7, <1>8, <1>9, <1>10, <1>11 DEF MInv

\* ReadError keeps the inductive invariant.
LEMMA ReadErrorInv ==
    ASSUME MInv, ReadError
    PROVE  MInv'
  <1> USE DEF ReadError, Return, CloseSocket, KeepCall, hostVars, linkVars,
       boardVars
  <1>1. TypeOK'
    BY NoEvents DEF MInv, TypeOK, Running
  <1>2. Exchange'
    BY DEF MInv, TypeOK, Exchange, Running
  <1>3. Truth'
    BY DEF MInv, TypeOK, Exchange, Truth, Running
  <1>4. Meter'
    BY DEF MInv, TypeOK, Meter
  <1>5. SuccessIsReal'
    BY DEF MInv, TypeOK, Exchange, Truth, SuccessIsReal, UpdateEnded
  <1> QED BY <1>1, <1>2, <1>3, <1>4, <1>5 DEF MInv

\* ConnectionEnds keeps the inductive invariant.
LEMMA ConnectionEndsInv ==
    ASSUME MInv, ConnectionEnds
    PROVE  MInv'
  <1> USE DEF ConnectionEnds, Return, CloseSocket, NoMore, Stall, hostVars,
       linkVars, boardVars
  <1>1. /\ shown' \in 0..100 /\ fraction' \in 0..100 /\ shown' <= fraction'
        /\ complete => shown' = 100
    <2>1. CASE complete
      BY <2>1, ProgressStep DEF MInv, TypeOK
    <2>2. CASE ~complete
      BY <2>2 DEF MInv, TypeOK, Meter
    <2> QED BY <2>1, <2>2
  <1>2. TypeOK'
    BY <1>1, NoEvents DEF MInv, TypeOK
  <1>3. Exchange'
    BY DEF MInv, TypeOK, Exchange, Running
  <1>4. Truth'
    BY DEF MInv, TypeOK, Exchange, Truth, Running
  <1>5. Meter'
    BY <1>1 DEF MInv, TypeOK, Exchange, Meter
  <1>6. SuccessIsReal'
    BY <1>1 DEF MInv, TypeOK, Truth, SuccessIsReal, UpdateEnded
  <1> QED BY <1>2, <1>3, <1>4, <1>5, <1>6 DEF MInv

\* TextCut keeps the inductive invariant.
LEMMA TextCutInv ==
    ASSUME MInv, TextCut
    PROVE  MInv'
  <1> USE DEF TextCut, Return, CloseSocket, KeepCall, Stall, hostVars,
       linkVars, boardVars
  <1>1. TypeOK'
    BY NoEvents DEF MInv, TypeOK, Running
  <1>2. Exchange'
    BY DEF MInv, TypeOK, Exchange, Running
  <1>3. Truth'
    BY DEF MInv, TypeOK, Exchange, Truth, Running
  <1>4. Meter'
    BY DEF MInv, TypeOK, Meter
  <1>5. SuccessIsReal'
    BY DEF MInv, TypeOK, Exchange, Truth, SuccessIsReal, UpdateEnded
  <1> QED BY <1>1, <1>2, <1>3, <1>4, <1>5 DEF MInv

\* Answer keeps the inductive invariant.
LEMMA AnswerInv ==
    ASSUME MInv, Answer
    PROVE  MInv'
  <1> USE DEF Answer, Closing, hostVars, linkVars, boardVars
  <1>1. stored' \in Seq(Tokens) /\ storedOf'.mode \in Modes
    BY CallTypes DEF MInv, TypeOK
  <1>2. PICK e : /\ Emit(e)
                 /\ \/ e = Event("OK", stored', 0)
                    \/ \E kind \in {"FAIL", "ERR"} : e = Event(kind, <<>>, 0)
    OBVIOUS
  <1>3. /\ <<>> \in Seq(Tokens \cup Notices) /\ <<>> # <<"complete">>
        /\ stored' \in Seq(Tokens \cup Notices)
    BY <1>1, ShortTexts
  <1>4. e \in Events
    <2>1. Event("OK", stored', 0) \in Events
      BY <1>3 DEF Events, Event, Kinds
    <2>2. \A kind \in {"FAIL", "ERR"} : Event(kind, <<>>, 0) \in Events
      BY <1>3 DEF Events, Event, Kinds
    <2> QED BY <1>2, <2>1, <2>2
  <1>5. ~Announces(e)
    <2>1. ~Announces(Event("OK", stored', 0))
      BY DEF Announces, Event
    <2>2. \A kind \in {"FAIL", "ERR"} : ~Announces(Event(kind, <<>>, 0))
      BY <1>3 DEF Announces, Event, SeesComplete
    <2> QED BY <1>2, <2>1, <2>2
  <1>6. /\ down' \in Seq(Events)
        /\ \A i \in DOMAIN down' : Announces(down'[i]) => n \in flashed
        /\ link # "up" => down' = down
        /\ link = "up" => pc \in {"upload", "reply", "events"}
    BY <1>2, <1>4, <1>5, EmitStep DEF MInv
  <1>7. TypeOK'
    BY <1>1, <1>6 DEF MInv, TypeOK, Running
  <1>8. Exchange'
    BY <1>6 DEF MInv, TypeOK, Exchange, Running
  <1>9. Truth'
    BY <1>6 DEF MInv, Truth, Running
  <1>10. Meter'
    BY DEF MInv, TypeOK, Meter
  <1>11. SuccessIsReal'
    BY DEF MInv, TypeOK, Exchange, Truth, SuccessIsReal, UpdateEnded
  <1> QED BY <1>7, <1>8, <1>9, <1>10, <1>11 DEF MInv

\* RefuseUpdate keeps the inductive invariant.
LEMMA RefuseUpdateInv ==
    ASSUME MInv, RefuseUpdate
    PROVE  MInv'
  <1> USE DEF RefuseUpdate, Closing, hostVars, linkVars, boardVars
  <1>1. Event("ERR", <<>>, 0) \in Events
    BY ShortTexts DEF Events, Event, Kinds
  <1>2. Announces(Event("ERR", <<>>, 0)) => serving.n \in flashed
    BY DEF Announces, Event
  <1>3. /\ down' \in Seq(Events)
        /\ \A i \in DOMAIN down' : Announces(down'[i]) => n \in flashed
        /\ link # "up" => down' = down
        /\ link = "up" => pc \in {"upload", "reply", "events"}
    BY <1>1, <1>2, EmitStep DEF MInv
  <1>4. TypeOK'
    BY <1>3 DEF MInv, TypeOK, Running
  <1>5. Exchange'
    BY <1>3 DEF MInv, TypeOK, Exchange, Running
  <1>6. Truth'
    BY <1>3 DEF MInv, Truth, Running
  <1>7. Meter'
    BY DEF MInv, TypeOK, Meter
  <1>8. SuccessIsReal'
    BY DEF MInv, TypeOK, Exchange, Truth, SuccessIsReal, UpdateEnded
  <1> QED BY <1>4, <1>5, <1>6, <1>7, <1>8 DEF MInv

\* Receive keeps the inductive invariant.
LEMMA ReceiveInv ==
    ASSUME MInv, Receive
    PROVE  MInv'
  <1> USE DEF Receive, hostVars, linkVars, boardVars
  <1>1. TypeOK'
    BY CallTypes DEF MInv, TypeOK, Running
  <1>2. Exchange'
    BY DEF MInv, TypeOK, Exchange, Running
  <1>3. Truth'
    BY DEF MInv, TypeOK, Exchange, Truth, Running
  <1>4. Meter'
    BY DEF MInv, TypeOK, Meter
  <1>5. SuccessIsReal'
    BY DEF MInv, TypeOK, Exchange, Truth, SuccessIsReal, UpdateEnded
  <1> QED BY <1>1, <1>2, <1>3, <1>4, <1>5 DEF MInv

\* NoPackage keeps the inductive invariant.
LEMMA NoPackageInv ==
    ASSUME MInv, NoPackage
    PROVE  MInv'
  <1> USE DEF NoPackage, hostVars, linkVars, boardVars
  <1>1. TypeOK'
    BY CallTypes DEF MInv, TypeOK, Running
  <1>2. Exchange'
    BY DEF MInv, TypeOK, Exchange, Running
  <1>3. Truth'
    BY DEF MInv, TypeOK, Exchange, Truth, Running
  <1>4. Meter'
    BY DEF MInv, TypeOK, Meter
  <1>5. SuccessIsReal'
    BY DEF MInv, TypeOK, Exchange, Truth, SuccessIsReal, UpdateEnded
  <1> QED BY <1>1, <1>2, <1>3, <1>4, <1>5 DEF MInv

\* Chatter keeps the inductive invariant.
LEMMA ChatterInv ==
    ASSUME MInv, Chatter
    PROVE  MInv'
  <1> USE DEF Chatter, hostVars, linkVars, boardVars
  <1>1. PICK e : /\ Emit(e)
                 /\ \/ \E p \in Percents : e = Event("PROGRESS", <<>>, p)
                    \/ e = Event("LOG", <<"plain">>, 0)
    OBVIOUS
  <1>2. /\ <<>> \in Seq(Tokens \cup Notices)
        /\ <<"plain">> \in Seq(Tokens \cup Notices)
        /\ <<"plain">> # <<"complete">>
    BY ShortTexts DEF Notices
  <1>3. e \in Events
    <2>1. \A p \in Percents : Event("PROGRESS", <<>>, p) \in Events
      BY <1>2, MaintenanceAssumption DEF Events, Event, Kinds
    <2>2. Event("LOG", <<"plain">>, 0) \in Events
      BY <1>2 DEF Events, Event, Kinds
    <2> QED BY <1>1, <2>1, <2>2
  <1>4. ~Announces(e)
    BY <1>1, <1>2 DEF Announces, Event, SeesComplete
  <1>5. svc # "idle"
    BY DEF Running
  <1>6. /\ down' \in Seq(Events)
        /\ \A i \in DOMAIN down' : Announces(down'[i]) => n \in flashed
        /\ link # "up" => down' = down
        /\ link = "up" => pc \in {"upload", "reply", "events"}
    BY <1>1, <1>3, <1>4, <1>5, EmitStep DEF MInv
  <1>7. TypeOK'
    BY <1>6, MaintenanceAssumption DEF MInv, TypeOK
  <1>8. Exchange'
    BY <1>6 DEF MInv, TypeOK, Exchange, Running
  <1>9. Truth'
    BY <1>6 DEF MInv, Truth, Running
  <1>10. Meter'
    BY DEF MInv, TypeOK, Meter
  <1>11. SuccessIsReal'
    BY DEF MInv, TypeOK, Exchange, Truth, SuccessIsReal, UpdateEnded
  <1> QED BY <1>7, <1>8, <1>9, <1>10, <1>11 DEF MInv

\* ScriptFails keeps the inductive invariant.
LEMMA ScriptFailsInv ==
    ASSUME MInv, ScriptFails
    PROVE  MInv'
  <1> USE DEF ScriptFails, Closing, hostVars, linkVars, boardVars
  <1>1. PICK text \in {<<>>, <<"plain">>} : Emit(Event("FAIL", text, 0))
    OBVIOUS
  <1>2. text \in Seq(Tokens \cup Notices) /\ text # <<"complete">>
    <2>1. /\ <<>> \in Seq(Tokens \cup Notices)
          /\ <<"plain">> \in Seq(Tokens \cup Notices)
      BY ShortTexts DEF Notices
    <2>2. <<>> # <<"complete">> /\ <<"plain">> # <<"complete">>
      OBVIOUS
    <2> QED BY <2>1, <2>2
  <1>3. Event("FAIL", text, 0) \in Events
    BY <1>2 DEF Events, Event, Kinds
  <1>4. ~Announces(Event("FAIL", text, 0))
    BY <1>2 DEF Announces, Event, SeesComplete
  <1>5. /\ down' \in Seq(Events)
        /\ \A i \in DOMAIN down' : Announces(down'[i]) => n \in flashed
        /\ link # "up" => down' = down
        /\ link = "up" => pc \in {"upload", "reply", "events"}
    BY <1>1, <1>3, <1>4, EmitStep DEF MInv
  <1>6. TypeOK'
    BY <1>5 DEF MInv, TypeOK, Running
  <1>7. Exchange'
    BY <1>5 DEF MInv, TypeOK, Exchange, Running
  <1>8. Truth'
    BY <1>5 DEF MInv, Truth, Running
  <1>9. Meter'
    BY DEF MInv, TypeOK, Meter
  <1>10. SuccessIsReal'
    BY DEF MInv, TypeOK, Exchange, Truth, SuccessIsReal, UpdateEnded
  <1> QED BY <1>6, <1>7, <1>8, <1>9, <1>10 DEF MInv

\* ScriptSucceeds keeps the inductive invariant.
LEMMA ScriptSucceedsInv ==
    ASSUME MInv, ScriptSucceeds
    PROVE  MInv'
  <1> USE DEF ScriptSucceeds, hostVars, linkVars, boardVars
  <1>1. TypeOK'
    <2>1. serving.n \in 1..MaxCalls
      BY MaintenanceAssumption DEF MInv, TypeOK, Exchange
    <2>2. svc' \in Running /\ flashed' \subseteq 1..MaxCalls
      BY <2>1 DEF MInv, TypeOK, Running
    <2> HIDE DEF ScriptSucceeds
    <2>3. UNCHANGED <<hostVars, linkVars, serving, got, stored, events,
                      storedOf, n, resets, trouble>>
      BY DEF ScriptSucceeds
    <2> QED BY <2>2, <2>3 DEF MInv, TypeOK, hostVars, linkVars
  <1>2. Exchange'
    BY DEF MInv, TypeOK, Exchange, Running
  <1>3. Truth'
    BY DEF MInv, TypeOK, Exchange, Truth, Running
  <1>4. Meter'
    BY DEF MInv, TypeOK, Meter
  <1>5. SuccessIsReal'
    BY DEF MInv, TypeOK, Exchange, Truth, SuccessIsReal, UpdateEnded
  <1> QED BY <1>1, <1>2, <1>3, <1>4, <1>5 DEF MInv

\* Announce keeps the inductive invariant.
LEMMA AnnounceInv ==
    ASSUME MInv, Announce
    PROVE  MInv'
  <1> USE DEF Announce, hostVars, linkVars, boardVars
  <1> DEFINE text == IF svc = "half" THEN <<"tail">>
                     ELSE IF svc' = "said" THEN <<"complete">> ELSE <<"head">>
  <1>1. Emit(Event("LOG", text, 0))
    OBVIOUS
  <1>2. text \in Seq(Tokens \cup Notices)
    BY ShortTexts DEF Notices
  <1> HIDE DEF text
  <1>3. Event("LOG", text, 0) \in Events
    BY <1>2 DEF Events, Event, Kinds
  <1>4. svc \in {"flashed", "half"} /\ serving.n \in flashed
    BY DEF MInv, Truth, Running
  <1>5. /\ down' \in Seq(Events)
        /\ \A i \in DOMAIN down' : Announces(down'[i]) => n \in flashed
        /\ link # "up" => down' = down
        /\ link = "up" => pc \in {"upload", "reply", "events"}
    BY <1>1, <1>3, <1>4, EmitStep DEF MInv
  <1>6. TypeOK'
    BY <1>4, <1>5 DEF MInv, TypeOK, Running
  <1>7. Exchange'
    BY <1>5 DEF MInv, TypeOK, Exchange, Running
  <1>8. Truth'
    BY <1>4, <1>5 DEF MInv, Truth, Running
  <1>9. Meter'
    BY DEF MInv, TypeOK, Meter
  <1>10. SuccessIsReal'
    BY DEF MInv, TypeOK, Exchange, Truth, SuccessIsReal, UpdateEnded
  <1> QED BY <1>6, <1>7, <1>8, <1>9, <1>10 DEF MInv

\* Done keeps the inductive invariant.
LEMMA DoneInv ==
    ASSUME MInv, Done
    PROVE  MInv'
  <1> USE DEF Done, Closing, hostVars, linkVars, boardVars
  <1>1. Event("DONE", <<>>, 0) \in Events
    BY ShortTexts DEF Events, Event, Kinds
  <1>2. Announces(Event("DONE", <<>>, 0)) => serving.n \in flashed
    BY DEF MInv, Truth, Running
  <1>3. /\ down' \in Seq(Events)
        /\ \A i \in DOMAIN down' : Announces(down'[i]) => n \in flashed
        /\ link # "up" => down' = down
        /\ link = "up" => pc \in {"upload", "reply", "events"}
    BY <1>1, <1>2, EmitStep DEF MInv
  <1>4. TypeOK'
    BY <1>3 DEF MInv, TypeOK, Running
  <1>5. Exchange'
    BY <1>3 DEF MInv, TypeOK, Exchange, Running
  <1>6. Truth'
    BY <1>3 DEF MInv, Truth, Running
  <1>7. Meter'
    BY DEF MInv, TypeOK, Meter
  <1>8. SuccessIsReal'
    BY DEF MInv, TypeOK, Exchange, Truth, SuccessIsReal, UpdateEnded
  <1> QED BY <1>4, <1>5, <1>6, <1>7, <1>8 DEF MInv

\* RebootAfterUpdate keeps the inductive invariant.
LEMMA RebootAfterUpdateInv ==
    ASSUME MInv, RebootAfterUpdate
    PROVE  MInv'
  <1> USE DEF RebootAfterUpdate, Closing, hostVars, linkVars, boardVars
  <1> DEFINE reasons == {"reboot"} \cup IF svc = "saidInTwo" THEN {"split"} ELSE {}
  <1>1. Break(reasons) /\ reasons \subseteq {"reset", "reboot", "split"}
    OBVIOUS
  <1> HIDE DEF reasons
  <1>2. /\ down' \in Seq(Events)
        /\ \A i \in DOMAIN down' : Announces(down'[i]) => n \in flashed
        /\ down = <<>> => down' = <<>>
        /\ Closing
        /\ trouble' \subseteq {"timeout", "reset", "reboot", "split",
                               "torn", "lost"}
    BY <1>1, BreakStep DEF MInv
  <1>3. TypeOK'
    BY <1>2 DEF MInv, TypeOK, Running
  <1>4. Exchange'
    BY <1>2 DEF MInv, TypeOK, Exchange, Running
  <1>5. Truth'
    BY <1>2 DEF MInv, Truth, Running
  <1>6. Meter'
    BY DEF MInv, TypeOK, Meter
  <1>7. SuccessIsReal'
    BY DEF MInv, TypeOK, Exchange, Truth, SuccessIsReal, UpdateEnded
  <1> QED BY <1>3, <1>4, <1>5, <1>6, <1>7 DEF MInv

\* PowerLoss keeps the inductive invariant.
LEMMA PowerLossInv ==
    ASSUME MInv, PowerLoss
    PROVE  MInv'
  <1> USE DEF PowerLoss, Closing, hostVars, linkVars, boardVars
  <1> DEFINE reasons == {"reset"}
  <1>1. Break(reasons) /\ reasons \subseteq {"reset", "reboot", "split"}
    OBVIOUS
  <1> HIDE DEF reasons
  <1>2. /\ down' \in Seq(Events)
        /\ \A i \in DOMAIN down' : Announces(down'[i]) => n \in flashed
        /\ down = <<>> => down' = <<>>
        /\ Closing
        /\ trouble' \subseteq {"timeout", "reset", "reboot", "split",
                               "torn", "lost"}
    BY <1>1, BreakStep DEF MInv
  <1>3. TypeOK'
    BY <1>2, MaintenanceAssumption DEF MInv, TypeOK
  <1>4. Exchange'
    BY <1>2 DEF MInv, TypeOK, Exchange, Running
  <1>5. Truth'
    BY <1>2 DEF MInv, Truth, Running
  <1>6. Meter'
    BY DEF MInv, TypeOK, Meter
  <1>7. SuccessIsReal'
    BY DEF MInv, TypeOK, Exchange, Truth, SuccessIsReal, UpdateEnded
  <1> QED BY <1>3, <1>4, <1>5, <1>6, <1>7 DEF MInv

-----------------------------------------------------------------------------
(* The theorems *)

\* It holds in the initial state.
LEMMA MInvInit ==
    ASSUME Init
    PROVE  MInv
  <1>1. TypeOK
    <2>1. NoCall \in Calls \cup {NoCall} /\ Default.mode \in Modes
      BY DEF Default, Modes
    <2>2. <<>> \in Seq(Events) /\ <<>> \in Seq(Tokens)
      BY NoEvents
    <2>3. 0 \in 0..MaxCalls /\ 0 \in 0..MaxEvents /\ 0 \in 0..MaxResets
      BY MaintenanceAssumption
    <2>4. serving \in [call : Calls \cup {NoCall}, n : 0..MaxCalls]
      BY <2>1, <2>3 DEF Init
    <2>5. down \in Seq(Events) /\ stored \in Seq(Tokens)
      BY <2>2 DEF Init
    <2>6. 0 \in 0..100 /\ flashed \subseteq 1..MaxCalls
      BY DEF Init
    <2> QED BY <2>1, <2>3, <2>4, <2>5, <2>6 DEF Init, TypeOK
  <1>2. Exchange /\ Truth /\ Meter /\ SuccessIsReal
    BY DEF Init, Exchange, Truth, Meter, SuccessIsReal, UpdateEnded, NoCall,
           Running
  <1> QED BY <1>1, <1>2 DEF MInv

\* It is inductive.
LEMMA MInvStep ==
    ASSUME MInv, [Next]_vars
    PROVE  MInv'
  <1>1. CASE Call
    BY <1>1, CallInv
  <1>2. CASE Host
    BY <1>2, ConnectFailsInv, ConnectInv, SendRequestInv, SendFailsInv,
       SendChunkInv, ReadPackageFailsInv, ReadReplyInv, ReplyFailsInv,
       ReadProgressInv, ReadTextInv, ReadErrorInv, ConnectionEndsInv, TextCutInv
       DEF Host
  <1>3. CASE Board
    BY <1>3, AnswerInv, RefuseUpdateInv, ReceiveInv, NoPackageInv, ChatterInv,
       ScriptFailsInv, ScriptSucceedsInv, AnnounceInv, DoneInv,
       RebootAfterUpdateInv, PowerLossInv
       DEF Board
  <1>4. CASE UNCHANGED vars
    BY <1>4 DEF MInv, TypeOK, Exchange, Truth, Meter, SuccessIsReal, UpdateEnded,
                Announces, vars, hostVars, linkVars, boardVars
  <1> QED BY <1>1, <1>2, <1>3, <1>4 DEF Next

\* Within an update a step never takes the progress shown back.
LEMMA MeterStep ==
    ASSUME MInv, [Next]_vars
    PROVE  shown' < shown => pc = "idle"
  <1> SUFFICES ASSUME shown' < shown, pc # "idle"
               PROVE  FALSE
    OBVIOUS
  <1>1. shown \in 0..100 /\ fraction \in 0..100 /\ shown <= fraction
    BY DEF MInv, TypeOK, Meter
  <1>2. CASE SendChunk
    <2>1. shown <= shown' /\ shown' \in 0..50
      BY <1>2, SendChunkStep DEF MInv
    <2> QED BY <1>1, <2>1
  <1>3. ASSUME NEW p \in Int, ReportProgress(p)
        PROVE  FALSE
    BY <1>1, <1>3, ProgressStep
  <1>4. CASE ReadProgress
    <2>1. Head(down).percent \in Int
      BY <1>4, HeadAndTail DEF ReadProgress, MInv
    <2> QED BY <1>3, <1>4, <2>1 DEF ReadProgress
  <1>5. CASE ReadText
    BY <1>1, <1>3, <1>5 DEF ReadText
  <1>6. CASE ConnectionEnds
    BY <1>1, <1>3, <1>6 DEF ConnectionEnds
  <1>7. CASE shown' = shown
    BY <1>1, <1>7
  <1>8. CASE Call
    BY <1>8 DEF Call
  <1>9. CASE Host /\ ~SendChunk /\ ~ReadProgress /\ ~ReadText /\ ~ConnectionEnds
    <2>1. shown' = shown
      BY <1>9 DEF Host, ConnectFails, Connect, SendRequest, SendFails,
         ReadPackageFails, ReadReply, ReplyFails, ReadError, TextCut, KeepCall
    <2> QED BY <1>7, <2>1
  <1>10. CASE Board
    <2>1. shown' = shown
      BY <1>10 DEF Board, Answer, RefuseUpdate, Receive, NoPackage, Chatter,
         ScriptFails, ScriptSucceeds, Announce, Done, RebootAfterUpdate,
         PowerLoss, hostVars
    <2> QED BY <1>7, <2>1
  <1>11. CASE UNCHANGED vars
    BY <1>7, <1>11 DEF vars, hostVars
  <1> QED BY <1>2, <1>4, <1>5, <1>6, <1>8, <1>9, <1>10, <1>11 DEF Next

-----------------------------------------------------------------------------
(* The outcome: what holds while an announcement is on its way *)

\* Nothing but the reboot the update asked for has disturbed the call.
Calm == trouble \subseteq {"reboot"}

\* Calls are numbered upwards: the service works for this call or an older
\* one, and no script succeeds before its package is whole.
Numbers ==
    /\ serving.n <= n
    /\ \A u \in flashed : u <= n
    /\ svc \in {"request", "header", "script"} => serving.n \notin flashed
    /\ pc \in {"connect", "send"} => serving.n < n
    /\ pc \in {"connect", "send", "upload"} => n \notin flashed

\* While the host uploads, a part of the package is still missing.
Upload ==
    /\ pc \in {"idle", "connect", "send"} => up = 0
    /\ pc \in {"connect", "send"} /\ call.op = "update" => left = call.chunks
    /\ pc = "upload" =>
          /\ left > 0
          /\ svc \in {"idle", "header"}
          /\ svc = "header" => /\ serving.call = call
                               /\ got + up + left = call.chunks

\* The service has done when it has sent its last event, a failure it reports
\* is one, and only a disturbance cuts an event in two.
Ending ==
    /\ link = "closed" => svc = "idle"
    /\ \A i \in DOMAIN down :
          /\ down[i].kind \in {"DONE", "FAIL", "ERR"} => svc = "idle"
          /\ down[i].kind \in {"FAIL", "ERR"} => n \notin flashed
          /\ Calm => ~down[i].torn

\* The announcement of a success is known to the host, on its way, or the
\* service is still to make it.
Coming ==
    \/ complete
    \/ \E i \in DOMAIN down : Announces(down[i])
    \/ svc \in {"flashed", "half", "saidInTwo"}
Told == Calm /\ pc = "events" /\ n \in flashed => Coming

\* A host leaves its own running script only after a disturbance.
Abandoned ==
    pc = "idle" /\ call.op = "update" /\ svc \in Running /\ serving.n = n
    => ~Calm

DInv == Numbers /\ Upload /\ Ending /\ Told /\ Abandoned /\ UndisturbedOutcome

\* What the service sends is the last event on its way to a connected host.
LEMMA Emitted ==
    ASSUME TypeOK, NEW e \in Events, Emit(e)
    PROVE  /\ \A i \in DOMAIN down' :
                 (i \in DOMAIN down /\ down'[i] = down[i]) \/ down'[i] = e
           /\ \A i \in DOMAIN down : i \in DOMAIN down' /\ down'[i] = down[i]
           /\ link = "up" => \E i \in DOMAIN down' : down'[i] = e
           /\ link # "up" => down' = down
  <1>1. down \in Seq(Events)
    BY DEF TypeOK
  <1>2. CASE link = "up"
    <2>1. down' = Append(down, e)
      BY <1>2 DEF Emit
    <2>2. /\ DOMAIN down' = 1..Len(down) + 1 /\ DOMAIN down = 1..Len(down)
          /\ \A i \in 1..Len(down) : down'[i] = down[i]
          /\ down'[Len(down) + 1] = e /\ Len(down) \in Nat
      BY <1>1, <2>1
    <2> DEFINE k == Len(down)
    <2> HIDE DEF k
    <2>3. /\ DOMAIN down' = 1..k + 1 /\ DOMAIN down = 1..k /\ k \in Nat
          /\ \A i \in 1..k : down'[i] = down[i]
          /\ down'[k + 1] = e
      BY <2>2 DEF k
    <2>4. k + 1 \in 1..k + 1 /\ \A i \in 1..k + 1 : i \in 1..k \/ i = k + 1
      BY <2>3
    <2> QED BY <1>2, <2>3, <2>4
  <1>3. CASE link # "up"
    BY <1>3 DEF Emit
  <1> QED BY <1>2, <1>3

\* A break that leaves the call undisturbed loses nothing and cuts nothing.
LEMMA Broken ==
    ASSUME TypeOK, NEW reasons, Break(reasons)
    PROVE  /\ \A i \in DOMAIN down' :
                 /\ i \in DOMAIN down /\ down'[i].kind = down[i].kind
                 /\ down'[i].text = down[i].text
           /\ trouble' \subseteq {"reboot"} => down' = down
           /\ trouble \cup reasons \subseteq trouble'
           /\ Closing
  <1>1. down \in Seq(Events)
    BY DEF TypeOK
  <1>2. CASE UNCHANGED down /\ Closing /\ trouble' = trouble \cup reasons
    BY <1>2
  <1>3. ASSUME NEW i \in 1..Len(down), NEW torn \in BOOLEAN, Closing,
               down' =
                  IF torn THEN [SubSeq(down, 1, i) EXCEPT ![i].torn = TRUE]
                          ELSE SubSeq(down, 1, i - 1),
               trouble' = trouble \cup reasons
                      \cup {IF torn /\ i = Len(down) THEN "torn" ELSE "lost"}
        PROVE  /\ \A j \in DOMAIN down' :
                     /\ j \in DOMAIN down /\ down'[j].kind = down[j].kind
                     /\ down'[j].text = down[j].text
               /\ trouble' \subseteq {"reboot"} => down' = down
               /\ trouble \cup reasons \subseteq trouble'
               /\ Closing
    <2>1. /\ ~(trouble' \subseteq {"reboot"})
          /\ trouble \cup reasons \subseteq trouble'
      BY <1>3
    <2>2. CASE ~torn
      BY <1>1, <1>3, <2>1, <2>2
    <2>3. CASE torn
      <3> DEFINE head == SubSeq(down, 1, i)
                 last == [down[i] EXCEPT !.torn = TRUE]
      <3>1. /\ head \in Seq(Events) /\ Len(head) = i
            /\ \A j \in 1..i : head[j] = down[j]
        BY <1>1
      <3>2. down[i] \in Events
        BY <1>1
      <3>3. /\ last \in Events /\ last.kind = down[i].kind
            /\ last.text = down[i].text
        BY <3>2 DEF Events
      <3>4. down' = [head EXCEPT ![i] = last]
        <4>1. down' = [head EXCEPT ![i].torn = TRUE]
          BY <1>3, <2>3
        <4>2. head[i] = down[i]
          BY <1>1, <3>1
        <4> HIDE DEF head
        <4> QED BY <4>1, <4>2
      <3> HIDE DEF head, last
      <3>5. /\ down' \in Seq(Events) /\ Len(down') = i
            /\ \A j \in 1..i : down'[j] = IF j = i THEN last ELSE down[j]
        BY <1>1, <3>1, <3>3, <3>4
      <3>6. ASSUME NEW j \in DOMAIN down'
            PROVE  /\ j \in DOMAIN down /\ down'[j].kind = down[j].kind
                   /\ down'[j].text = down[j].text
        <4>1. j \in 1..i /\ j \in DOMAIN down
          BY <1>1, <3>5
        <4> QED BY <3>3, <3>5, <4>1
      <3> QED BY <1>3, <2>1, <3>6
    <2> QED BY <2>2, <2>3
  <1> QED BY <1>2, <1>3 DEF Break

\* The events that follow the first one.
LEMMA AfterHead ==
    ASSUME TypeOK, down # <<>>
    PROVE  \A i \in DOMAIN down : i # 1 => \E j \in DOMAIN Tail(down) :
                                              Tail(down)[j] = down[i]
  <1>1. down \in Seq(Events)
    BY DEF TypeOK
  <1> DEFINE k == Len(down)
  <1>2. /\ DOMAIN down = 1..k /\ k \in Nat \ {0}
        /\ DOMAIN Tail(down) = 1..(k - 1)
        /\ \A j \in 1..(k - 1) : Tail(down)[j] = down[j + 1]
    BY <1>1
  <1> HIDE DEF k
  <1>3. ASSUME NEW i \in DOMAIN down, i # 1
        PROVE  \E j \in DOMAIN Tail(down) : Tail(down)[j] = down[i]
    <2>1. i - 1 \in 1..(k - 1) /\ (i - 1) + 1 = i
      BY <1>2, <1>3
    <2> QED BY <1>2, <2>1
  <1> QED BY <1>3

\* Call keeps it.
LEMMA CallKept ==
    ASSUME MInv, DInv, Call
    PROVE  DInv'
  <1> USE DEF Call, KeepCall, hostVars, linkVars, boardVars
  <1>1. call' \in Calls /\ n' > n /\ \A u \in flashed : u < n'
    BY DEF MInv, DInv, TypeOK, Numbers
  <1>2. Numbers'
    BY <1>1 DEF MInv, DInv, TypeOK, Exchange, Truth, Running, Numbers
  <1>3. Upload'
    BY <1>1 DEF MInv, DInv, TypeOK, Exchange, Truth, Running, Numbers, Upload
  <1>4. Ending'
    BY <1>1 DEF MInv, DInv, TypeOK, Exchange, Truth, Running, Numbers,
    Ending, Calm
  <1>5. Told'
    BY <1>1 DEF MInv, DInv, TypeOK, Exchange, Truth, Running, Numbers,
    Upload, Ending, Told, Coming, Calm, Announces
  <1>6. Abandoned'
    BY <1>1 DEF MInv, DInv, TypeOK, Exchange, Truth, Running, Numbers,
    Upload, Ending, Abandoned, Calm
  <1>7. UndisturbedOutcome'
    BY <1>1 DEF MInv, DInv, TypeOK, Exchange, Truth, Running, Numbers,
    Upload, Ending, Told, Coming, Abandoned, Calm, Announces,
    UndisturbedOutcome, UpdateEnded
  <1> QED BY <1>2, <1>3, <1>4, <1>5, <1>6, <1>7 DEF DInv

\* ConnectFails keeps it.
LEMMA ConnectFailsKept ==
    ASSUME MInv, DInv, ConnectFails
    PROVE  DInv'
  <1> USE DEF ConnectFails, Return, KeepCall, hostVars, linkVars, boardVars
  <1>1. Numbers'
    BY DEF MInv, DInv, TypeOK, Exchange, Truth, Running, Numbers
  <1>2. Upload'
    BY DEF MInv, DInv, TypeOK, Exchange, Truth, Running, Numbers, Upload
  <1>3. Ending'
    BY DEF MInv, DInv, TypeOK, Exchange, Truth, Running, Numbers, Ending,
    Calm
  <1>4. Told'
    BY DEF MInv, DInv, TypeOK, Exchange, Truth, Running, Numbers, Upload,
    Ending, Told, Coming, Calm, Announces
  <1>5. Abandoned'
    BY DEF MInv, DInv, TypeOK, Exchange, Truth, Running, Numbers, Upload,
    Ending, Abandoned, Calm
  <1>6. UndisturbedOutcome'
    BY DEF MInv, DInv, TypeOK, Exchange, Truth, Running, Numbers, Upload,
    Ending, Told, Coming, Abandoned, Calm, Announces, UndisturbedOutcome,
    UpdateEnded
  <1> QED BY <1>1, <1>2, <1>3, <1>4, <1>5, <1>6 DEF DInv

\* Connect keeps it.
LEMMA ConnectKept ==
    ASSUME MInv, DInv, Connect
    PROVE  DInv'
  <1> USE DEF Connect, KeepCall, hostVars, linkVars, boardVars
  <1>1. Numbers'
    BY DEF MInv, DInv, TypeOK, Exchange, Truth, Running, Numbers
  <1>2. Upload'
    BY DEF MInv, DInv, TypeOK, Exchange, Truth, Running, Numbers, Upload
  <1>3. Ending'
    BY DEF MInv, DInv, TypeOK, Exchange, Truth, Running, Numbers, Ending,
    Calm
  <1>4. Told'
    BY DEF MInv, DInv, TypeOK, Exchange, Truth, Running, Numbers, Upload,
    Ending, Told, Coming, Calm, Announces
  <1>5. Abandoned'
    BY DEF MInv, DInv, TypeOK, Exchange, Truth, Running, Numbers, Upload,
    Ending, Abandoned, Calm
  <1>6. UndisturbedOutcome'
    BY DEF MInv, DInv, TypeOK, Exchange, Truth, Running, Numbers, Upload,
    Ending, Told, Coming, Abandoned, Calm, Announces, UndisturbedOutcome,
    UpdateEnded
  <1> QED BY <1>1, <1>2, <1>3, <1>4, <1>5, <1>6 DEF DInv

\* SendRequest keeps it.
LEMMA SendRequestKept ==
    ASSUME MInv, DInv, SendRequest
    PROVE  DInv'
  <1> USE DEF SendRequest, KeepCall, hostVars, linkVars, boardVars
  <1>1. call.op = "update" => call.chunks \in Nat \ {0}
    BY CallTypes DEF MInv, TypeOK
  <1>2. Numbers'
    BY DEF MInv, DInv, TypeOK, Exchange, Truth, Running, Numbers
  <1>3. Upload'
    BY <1>1 DEF MInv, DInv, TypeOK, Exchange, Truth, Running, Numbers, Upload
  <1>4. Ending'
    BY DEF MInv, DInv, TypeOK, Exchange, Truth, Running, Numbers, Ending,
    Calm
  <1>5. Told'
    BY DEF MInv, DInv, TypeOK, Exchange, Truth, Running, Numbers, Upload,
    Ending, Told, Coming, Calm, Announces
  <1>6. Abandoned'
    BY DEF MInv, DInv, TypeOK, Exchange, Truth, Running, Numbers, Upload,
    Ending, Abandoned, Calm
  <1>7. UndisturbedOutcome'
    BY DEF MInv, DInv, TypeOK, Exchange, Truth, Running, Numbers, Upload,
    Ending, Told, Coming, Abandoned, Calm, Announces, UndisturbedOutcome,
    UpdateEnded
  <1> QED BY <1>2, <1>3, <1>4, <1>5, <1>6, <1>7 DEF DInv

\* SendFails keeps it.
LEMMA SendFailsKept ==
    ASSUME MInv, DInv, SendFails
    PROVE  DInv'
  <1> USE DEF SendFails, Return, CloseSocket, KeepCall, Stall, hostVars,
  linkVars, boardVars
  <1>1. Numbers'
    BY DEF MInv, DInv, TypeOK, Exchange, Truth, Running, Numbers
  <1>2. Upload'
    BY DEF MInv, DInv, TypeOK, Exchange, Truth, Running, Numbers, Upload
  <1>3. Ending'
    BY DEF MInv, DInv, TypeOK, Exchange, Truth, Running, Numbers, Ending,
    Calm
  <1>4. Told'
    BY DEF MInv, DInv, TypeOK, Exchange, Truth, Running, Numbers, Upload,
    Ending, Told, Coming, Calm, Announces
  <1>5. Abandoned'
    BY DEF MInv, DInv, TypeOK, Exchange, Truth, Running, Numbers, Upload,
    Ending, Abandoned, Calm
  <1>6. UndisturbedOutcome'
    BY DEF MInv, DInv, TypeOK, Exchange, Truth, Running, Numbers, Upload,
    Ending, Told, Coming, Abandoned, Calm, Announces, UndisturbedOutcome,
    UpdateEnded
  <1> QED BY <1>1, <1>2, <1>3, <1>4, <1>5, <1>6 DEF DInv

\* SendChunk keeps it.
LEMMA SendChunkKept ==
    ASSUME MInv, DInv, SendChunk
    PROVE  DInv'
  <1> USE DEF SendChunk, hostVars, linkVars, boardVars
  <1>1. Numbers'
    BY DEF MInv, DInv, TypeOK, Exchange, Truth, Running, Numbers
  <1>2. Upload'
    BY DEF MInv, DInv, TypeOK, Exchange, Truth, Running, Numbers, Upload
  <1>3. Ending'
    BY DEF MInv, DInv, TypeOK, Exchange, Truth, Running, Numbers, Ending,
    Calm
  <1>4. Told'
    BY DEF MInv, DInv, TypeOK, Exchange, Truth, Running, Numbers, Upload,
    Ending, Told, Coming, Calm, Announces
  <1>5. Abandoned'
    BY DEF MInv, DInv, TypeOK, Exchange, Truth, Running, Numbers, Upload,
    Ending, Abandoned, Calm
  <1>6. UndisturbedOutcome'
    BY DEF MInv, DInv, TypeOK, Exchange, Truth, Running, Numbers, Upload,
    Ending, Told, Coming, Abandoned, Calm, Announces, UndisturbedOutcome,
    UpdateEnded
  <1> QED BY <1>1, <1>2, <1>3, <1>4, <1>5, <1>6 DEF DInv

\* ReadPackageFails keeps it.
LEMMA ReadPackageFailsKept ==
    ASSUME MInv, DInv, ReadPackageFails
    PROVE  DInv'
  <1> USE DEF ReadPackageFails, Return, CloseSocket, KeepCall, hostVars,
  linkVars, boardVars
  <1>1. Numbers'
    BY DEF MInv, DInv, TypeOK, Exchange, Truth, Running, Numbers
  <1>2. Upload'
    BY DEF MInv, DInv, TypeOK, Exchange, Truth, Running, Numbers, Upload
  <1>3. Ending'
    BY DEF MInv, DInv, TypeOK, Exchange, Truth, Running, Numbers, Ending,
    Calm
  <1>4. Told'
    BY DEF MInv, DInv, TypeOK, Exchange, Truth, Running, Numbers, Upload,
    Ending, Told, Coming, Calm, Announces
  <1>5. Abandoned'
    BY DEF MInv, DInv, TypeOK, Exchange, Truth, Running, Numbers, Upload,
    Ending, Abandoned, Calm
  <1>6. UndisturbedOutcome'
    BY DEF MInv, DInv, TypeOK, Exchange, Truth, Running, Numbers, Upload,
    Ending, Told, Coming, Abandoned, Calm, Announces, UndisturbedOutcome,
    UpdateEnded
  <1> QED BY <1>1, <1>2, <1>3, <1>4, <1>5, <1>6 DEF DInv

\* ReadReply keeps it.
LEMMA ReadReplyKept ==
    ASSUME MInv, DInv, ReadReply
    PROVE  DInv'
  <1> USE DEF ReadReply, Return, CloseSocket, hostVars, linkVars, boardVars
  <1>1. Numbers'
    BY DEF MInv, DInv, TypeOK, Exchange, Truth, Running, Numbers
  <1>2. Upload'
    BY DEF MInv, DInv, TypeOK, Exchange, Truth, Running, Numbers, Upload
  <1>3. Ending'
    BY DEF MInv, DInv, TypeOK, Exchange, Truth, Running, Numbers, Ending,
    Calm
  <1>4. Told'
    BY DEF MInv, DInv, TypeOK, Exchange, Truth, Running, Numbers, Upload,
    Ending, Told, Coming, Calm, Announces
  <1>5. Abandoned'
    BY DEF MInv, DInv, TypeOK, Exchange, Truth, Running, Numbers, Upload,
    Ending, Abandoned, Calm
  <1>6. UndisturbedOutcome'
    BY DEF MInv, DInv, TypeOK, Exchange, Truth, Running, Numbers, Upload,
    Ending, Told, Coming, Abandoned, Calm, Announces, UndisturbedOutcome,
    UpdateEnded
  <1> QED BY <1>1, <1>2, <1>3, <1>4, <1>5, <1>6 DEF DInv

\* ReplyFails keeps it.
LEMMA ReplyFailsKept ==
    ASSUME MInv, DInv, ReplyFails
    PROVE  DInv'
  <1> USE DEF ReplyFails, Return, CloseSocket, KeepCall, NoMore, Stall,
  hostVars, linkVars, boardVars
  <1>1. Numbers'
    BY DEF MInv, DInv, TypeOK, Exchange, Truth, Running, Numbers
  <1>2. Upload'
    BY DEF MInv, DInv, TypeOK, Exchange, Truth, Running, Numbers, Upload
  <1>3. Ending'
    BY DEF MInv, DInv, TypeOK, Exchange, Truth, Running, Numbers, Ending,
    Calm
  <1>4. Told'
    BY DEF MInv, DInv, TypeOK, Exchange, Truth, Running, Numbers, Upload,
    Ending, Told, Coming, Calm, Announces
  <1>5. Abandoned'
    BY DEF MInv, DInv, TypeOK, Exchange, Truth, Running, Numbers, Upload,
    Ending, Abandoned, Calm
  <1>6. UndisturbedOutcome'
    BY DEF MInv, DInv, TypeOK, Exchange, Truth, Running, Numbers, Upload,
    Ending, Told, Coming, Abandoned, Calm, Announces, UndisturbedOutcome,
    UpdateEnded
  <1> QED BY <1>1, <1>2, <1>3, <1>4, <1>5, <1>6 DEF DInv

\* ReadProgress keeps it.
LEMMA ReadProgressKept ==
    ASSUME MInv, DInv, ReadProgress
    PROVE  DInv'
  <1> USE DEF ReadProgress, hostVars, linkVars, boardVars
  <1>1. /\ Head(down) \in Events /\ Head(down).percent \in Int
        /\ 1 \in DOMAIN down /\ Head(down) = down[1]
        /\ Tail(down) \in Seq(Events)
        /\ \A i \in DOMAIN Tail(down) : /\ i + 1 \in DOMAIN down
                                        /\ Tail(down)[i] = down[i + 1]
    BY HeadAndTail DEF MInv
  <1>2. \A i \in DOMAIN down : i # 1 => \E j \in DOMAIN Tail(down) :
                                          Tail(down)[j] = down[i]
    BY AfterHead DEF MInv
  <1>3. Numbers'
    BY DEF MInv, DInv, TypeOK, Exchange, Truth, Running, Numbers
  <1>4. Upload'
    BY DEF MInv, DInv, TypeOK, Exchange, Truth, Running, Numbers, Upload
  <1>5. Ending'
    BY <1>1, <1>2 DEF MInv, DInv, TypeOK, Exchange, Truth, Running, Numbers,
    Ending, Calm
  <1>6. Told'
    BY <1>1, <1>2 DEF MInv, DInv, TypeOK, Exchange, Truth, Running, Numbers,
    Upload, Ending, Told, Coming, Calm, Announces
  <1>7. Abandoned'
    BY DEF MInv, DInv, TypeOK, Exchange, Truth, Running, Numbers, Upload,
    Ending, Abandoned, Calm
  <1>8. UndisturbedOutcome'
    BY <1>1, <1>2 DEF MInv, DInv, TypeOK, Exchange, Truth, Running, Numbers,
    Upload, Ending, Told, Coming, Abandoned, Calm, Announces,
    UndisturbedOutcome, UpdateEnded
  <1> QED BY <1>3, <1>4, <1>5, <1>6, <1>7, <1>8 DEF DInv

\* ReadText keeps it.
LEMMA ReadTextKept ==
    ASSUME MInv, DInv, ReadText
    PROVE  DInv'
  <1> USE DEF ReadText, Return, CloseSocket, hostVars, linkVars, boardVars
  <1>1. /\ Head(down) \in Events /\ Head(down).percent \in Int
        /\ 1 \in DOMAIN down /\ Head(down) = down[1]
        /\ Tail(down) \in Seq(Events)
        /\ \A i \in DOMAIN Tail(down) : /\ i + 1 \in DOMAIN down
                                        /\ Tail(down)[i] = down[i + 1]
    BY HeadAndTail DEF MInv
  <1>2. \A i \in DOMAIN down : i # 1 => \E j \in DOMAIN Tail(down) :
                                          Tail(down)[j] = down[i]
    BY AfterHead DEF MInv
  <1>3. CASE Head(down).kind # "LOG"
    <2>1. /\ pc' = "idle" /\ link' = "none" /\ down' = <<>> /\ up' = 0
          /\ ret' = (Head(down).kind = "DONE") /\ svc = "idle"
          /\ ret' <=> n \in flashed
          /\ UNCHANGED <<call, left, boardVars, n, trouble>>
      BY <1>1, <1>3 DEF MInv, DInv, Truth, Ending, Announces
    <2> HIDE DEF ReadText
    <2> QED BY <2>1 DEF DInv, Numbers, Upload, Ending, Told, Abandoned,
                        UndisturbedOutcome, UpdateEnded, Running
  <1>4. CASE Head(down).kind = "LOG"
    <2>1. /\ pc = "events"
          /\ complete' = (complete \/ SeesComplete(down[1].text))
          /\ down' = Tail(down)
          /\ UNCHANGED <<pc, ret, link, up, call, left, boardVars, n, trouble>>
      BY <1>1, <1>4
    <2> HIDE DEF ReadText
    <2>2. Numbers' /\ Upload' /\ Abandoned' /\ UndisturbedOutcome'
      BY <2>1 DEF DInv, Numbers, Upload, Abandoned, UndisturbedOutcome, Calm,
                  UpdateEnded, Running
    <2>3. Ending'
      BY <1>1, <2>1 DEF DInv, Ending, Calm
    <2>4. ASSUME Coming
          PROVE  Coming'
      <3>1. CASE complete \/ svc \in {"flashed", "half", "saidInTwo"}
        BY <2>1, <3>1 DEF Coming
      <3>2. ASSUME NEW i \in DOMAIN down, Announces(down[i])
            PROVE  Coming'
        <4>1. CASE i = 1
          BY <1>1, <1>4, <2>1, <3>2, <4>1 DEF Coming, Announces
        <4>2. CASE i # 1
          <5>1. PICK j \in DOMAIN Tail(down) : Tail(down)[j] = down[i]
            BY <1>2, <4>2
          <5> QED BY <2>1, <3>2, <5>1 DEF Coming, Announces
        <4> QED BY <4>1, <4>2
      <3> QED BY <2>4, <3>1, <3>2 DEF Coming
    <2>5. Told'
      BY <2>1, <2>4 DEF DInv, Told, Calm
    <2> QED BY <2>2, <2>3, <2>5 DEF DInv
  <1> QED BY <1>3, <1>4

\* ReadError keeps it.
LEMMA ReadErrorKept ==
    ASSUME MInv, DInv, ReadError
    PROVE  DInv'
  <1> USE DEF ReadError, Return, CloseSocket, KeepCall, hostVars, linkVars,
  boardVars
  <1>1. /\ Head(down) \in Events /\ Head(down).percent \in Int
        /\ 1 \in DOMAIN down /\ Head(down) = down[1]
        /\ Tail(down) \in Seq(Events)
        /\ \A i \in DOMAIN Tail(down) : /\ i + 1 \in DOMAIN down
                                        /\ Tail(down)[i] = down[i + 1]
    BY HeadAndTail DEF MInv
  <1>2. Numbers'
    BY <1>1 DEF MInv, DInv, TypeOK, Exchange, Truth, Running, Numbers
  <1>3. Upload'
    BY <1>1 DEF MInv, DInv, TypeOK, Exchange, Truth, Running, Numbers, Upload
  <1>4. Ending'
    BY <1>1 DEF MInv, DInv, TypeOK, Exchange, Truth, Running, Numbers,
    Ending, Calm
  <1>5. Told'
    BY <1>1 DEF MInv, DInv, TypeOK, Exchange, Truth, Running, Numbers,
    Upload, Ending, Told, Coming, Calm, Announces
  <1>6. Abandoned'
    BY <1>1 DEF MInv, DInv, TypeOK, Exchange, Truth, Running, Numbers,
    Upload, Ending, Abandoned, Calm
  <1>7. UndisturbedOutcome'
    BY <1>1 DEF MInv, DInv, TypeOK, Exchange, Truth, Running, Numbers,
    Upload, Ending, Told, Coming, Abandoned, Calm, Announces,
    UndisturbedOutcome, UpdateEnded
  <1> QED BY <1>2, <1>3, <1>4, <1>5, <1>6, <1>7 DEF DInv

\* ConnectionEnds keeps it.
LEMMA ConnectionEndsKept ==
    ASSUME MInv, DInv, ConnectionEnds
    PROVE  DInv'
  <1> USE DEF ConnectionEnds, Return, CloseSocket, NoMore, Stall, hostVars,
  linkVars, boardVars
  <1>1. /\ down # <<>> => 1 \in DOMAIN down /\ Head(down) = down[1]
        /\ <<>> = down => DOMAIN down = {}
    BY HeadAndTail DEF MInv
  <1>2. \/ svc = "idle" /\ (Calm => down = <<>>)
        \/ ~(trouble' \subseteq {"reboot"})
    BY <1>1 DEF DInv, Ending
  <1>3. trouble \subseteq trouble'
    OBVIOUS
  <1>4. Numbers'
    BY <1>1, <1>2, <1>3 DEF MInv, DInv, TypeOK, Exchange, Truth, Running,
    Numbers
  <1>5. Upload'
    BY <1>1, <1>2, <1>3 DEF MInv, DInv, TypeOK, Exchange, Truth, Running,
    Numbers, Upload
  <1>6. Ending'
    BY <1>1, <1>2, <1>3 DEF MInv, DInv, TypeOK, Exchange, Truth, Running,
    Numbers, Ending, Calm
  <1>7. Told'
    BY <1>1, <1>2, <1>3 DEF MInv, DInv, TypeOK, Exchange, Truth, Running,
    Numbers, Upload, Ending, Told, Coming, Calm, Announces
  <1>8. Abandoned'
    BY <1>2 DEF MInv, DInv, TypeOK, Exchange, Truth, Running, Numbers,
    Upload, Ending, Abandoned, Calm
  <1>9. UndisturbedOutcome'
    BY <1>1, <1>2, <1>3 DEF MInv, DInv, TypeOK, Exchange, Truth, Running,
    Numbers, Upload, Ending, Told, Coming, Abandoned, Calm, Announces,
    UndisturbedOutcome, UpdateEnded
  <1> QED BY <1>4, <1>5, <1>6, <1>7, <1>8, <1>9 DEF DInv

\* TextCut keeps it.
LEMMA TextCutKept ==
    ASSUME MInv, DInv, TextCut
    PROVE  DInv'
  <1> USE DEF TextCut, Return, CloseSocket, KeepCall, Stall, hostVars,
  linkVars, boardVars
  <1>1. /\ Head(down) \in Events /\ Head(down).percent \in Int
        /\ 1 \in DOMAIN down /\ Head(down) = down[1]
        /\ Tail(down) \in Seq(Events)
        /\ \A i \in DOMAIN Tail(down) : /\ i + 1 \in DOMAIN down
                                        /\ Tail(down)[i] = down[i + 1]
    BY HeadAndTail DEF MInv
  <1>2. ~(trouble' \subseteq {"reboot"})
    <2>1. Head(down).torn => ~Calm
      BY <1>1 DEF DInv, Ending
    <2> QED BY <2>1 DEF Calm
  <1>3. Numbers'
    BY <1>2 DEF MInv, DInv, TypeOK, Exchange, Truth, Running, Numbers
  <1>4. Upload'
    BY <1>2 DEF MInv, DInv, TypeOK, Exchange, Truth, Running, Numbers, Upload
  <1>5. Ending'
    BY <1>2 DEF MInv, DInv, TypeOK, Exchange, Truth, Running, Numbers,
    Ending, Calm
  <1>6. Told'
    BY <1>2 DEF MInv, DInv, TypeOK, Exchange, Truth, Running, Numbers,
    Upload, Ending, Told, Coming, Calm, Announces
  <1>7. Abandoned'
    BY <1>2 DEF MInv, DInv, TypeOK, Exchange, Truth, Running, Numbers,
    Upload, Ending, Abandoned, Calm
  <1>8. UndisturbedOutcome'
    BY <1>2 DEF MInv, DInv, TypeOK, Exchange, Truth, Running, Numbers,
    Upload, Ending, Told, Coming, Abandoned, Calm, Announces,
    UndisturbedOutcome, UpdateEnded
  <1> QED BY <1>3, <1>4, <1>5, <1>6, <1>7, <1>8 DEF DInv

\* Answer keeps it.
LEMMA AnswerKept ==
    ASSUME MInv, DInv, Answer
    PROVE  DInv'
  <1> USE DEF Answer, Closing, hostVars, linkVars, boardVars
  <1>1. PICK e : /\ Emit(e) /\ ~e.torn /\ e.kind \in {"OK", "FAIL", "ERR"}
                 /\ \/ e = Event("OK", stored', 0)
                    \/ \E kind \in {"FAIL", "ERR"} : e = Event(kind, <<>>, 0)
    BY DEF Event
  <1>2. e \in Events
    <2>1. stored' \in Seq(Tokens)
      BY CallTypes DEF MInv, TypeOK
    <2>2. /\ <<>> \in Seq(Tokens \cup Notices)
          /\ stored' \in Seq(Tokens \cup Notices)
      BY <2>1, ShortTexts
    <2>3. Event("OK", stored', 0) \in Events
      BY <2>2 DEF Events, Event, Kinds
    <2>4. \A kind \in {"FAIL", "ERR"} : Event(kind, <<>>, 0) \in Events
      BY <2>2 DEF Events, Event, Kinds
    <2> QED BY <1>1, <2>3, <2>4
  <1>3. /\ link # "up" => down' = down
        /\ \A i \in DOMAIN down' :
              (i \in DOMAIN down /\ down'[i] = down[i]) \/ down'[i] = e
        /\ \A i \in DOMAIN down : i \in DOMAIN down' /\ down'[i] = down[i]
        /\ link = "up" => \E i \in DOMAIN down' : down'[i] = e
    BY <1>1, <1>2, Emitted DEF MInv
  <1>4. Numbers'
    BY DEF MInv, DInv, TypeOK, Exchange, Truth, Running, Numbers
  <1>5. Upload'
    BY <1>1, <1>3 DEF MInv, DInv, TypeOK, Exchange, Truth, Running, Numbers,
    Upload
  <1>6. Ending'
    BY <1>1, <1>3 DEF MInv, DInv, TypeOK, Exchange, Truth, Running, Numbers,
    Ending, Calm
  <1>7. Told'
    BY <1>1, <1>3 DEF MInv, DInv, TypeOK, Exchange, Truth, Running, Numbers,
    Upload, Ending, Told, Coming, Calm, Announces
  <1>8. Abandoned'
    BY <1>1, <1>3 DEF MInv, DInv, TypeOK, Exchange, Truth, Running, Numbers,
    Upload, Ending, Abandoned, Calm
  <1>9. UndisturbedOutcome'
    BY <1>1, <1>3 DEF MInv, DInv, TypeOK, Exchange, Truth, Running, Numbers,
    Upload, Ending, Told, Coming, Abandoned, Calm, Announces,
    UndisturbedOutcome, UpdateEnded
  <1> QED BY <1>4, <1>5, <1>6, <1>7, <1>8, <1>9 DEF DInv

\* RefuseUpdate keeps it.
LEMMA RefuseUpdateKept ==
    ASSUME MInv, DInv, RefuseUpdate
    PROVE  DInv'
  <1> USE DEF RefuseUpdate, Closing, hostVars, linkVars, boardVars
  <1>1. PICK e : Emit(e) /\ e = Event("ERR", <<>>, 0)
    OBVIOUS
  <1>2. e \in Events /\ ~e.torn /\ e.kind = "ERR"
    BY <1>1, ShortTexts DEF Events, Event, Kinds
  <1>3. /\ link # "up" => down' = down
        /\ \A i \in DOMAIN down' :
              (i \in DOMAIN down /\ down'[i] = down[i]) \/ down'[i] = e
        /\ \A i \in DOMAIN down : i \in DOMAIN down' /\ down'[i] = down[i]
        /\ link = "up" => \E i \in DOMAIN down' : down'[i] = e
    BY <1>1, <1>2, Emitted DEF MInv
  <1>4. Numbers'
    BY DEF MInv, DInv, TypeOK, Exchange, Truth, Running, Numbers
  <1>5. Upload'
    BY <1>2, <1>3 DEF MInv, DInv, TypeOK, Exchange, Truth, Running, Numbers,
    Upload
  <1>6. Ending'
    BY <1>2, <1>3 DEF MInv, DInv, TypeOK, Exchange, Truth, Running, Numbers,
    Ending, Calm
  <1>7. Told'
    BY <1>2, <1>3 DEF MInv, DInv, TypeOK, Exchange, Truth, Running, Numbers,
    Upload, Ending, Told, Coming, Calm, Announces
  <1>8. Abandoned'
    BY <1>2, <1>3 DEF MInv, DInv, TypeOK, Exchange, Truth, Running, Numbers,
    Upload, Ending, Abandoned, Calm
  <1>9. UndisturbedOutcome'
    BY <1>2, <1>3 DEF MInv, DInv, TypeOK, Exchange, Truth, Running, Numbers,
    Upload, Ending, Told, Coming, Abandoned, Calm, Announces,
    UndisturbedOutcome, UpdateEnded
  <1> QED BY <1>4, <1>5, <1>6, <1>7, <1>8, <1>9 DEF DInv

\* Receive keeps it.
LEMMA ReceiveKept ==
    ASSUME MInv, DInv, Receive
    PROVE  DInv'
  <1> USE DEF Receive, hostVars, linkVars, boardVars
  <1>1. Numbers'
    BY DEF MInv, DInv, TypeOK, Exchange, Truth, Running, Numbers
  <1>2. Upload'
    BY DEF MInv, DInv, TypeOK, Exchange, Truth, Running, Numbers, Upload
  <1>3. Ending'
    BY DEF MInv, DInv, TypeOK, Exchange, Truth, Running, Numbers, Ending,
    Calm
  <1>4. Told'
    BY DEF MInv, DInv, TypeOK, Exchange, Truth, Running, Numbers, Upload,
    Ending, Told, Coming, Calm, Announces
  <1>5. Abandoned'
    BY DEF MInv, DInv, TypeOK, Exchange, Truth, Running, Numbers, Upload,
    Ending, Abandoned, Calm
  <1>6. UndisturbedOutcome'
    BY DEF MInv, DInv, TypeOK, Exchange, Truth, Running, Numbers, Upload,
    Ending, Told, Coming, Abandoned, Calm, Announces, UndisturbedOutcome,
    UpdateEnded
  <1> QED BY <1>1, <1>2, <1>3, <1>4, <1>5, <1>6 DEF DInv

\* NoPackage keeps it.
LEMMA NoPackageKept ==
    ASSUME MInv, DInv, NoPackage
    PROVE  DInv'
  <1> USE DEF NoPackage, hostVars, linkVars, boardVars
  <1>1. Numbers'
    BY DEF MInv, DInv, TypeOK, Exchange, Truth, Running, Numbers
  <1>2. Upload'
    BY DEF MInv, DInv, TypeOK, Exchange, Truth, Running, Numbers, Upload
  <1>3. Ending'
    BY DEF MInv, DInv, TypeOK, Exchange, Truth, Running, Numbers, Ending,
    Calm
  <1>4. Told'
    BY DEF MInv, DInv, TypeOK, Exchange, Truth, Running, Numbers, Upload,
    Ending, Told, Coming, Calm, Announces
  <1>5. Abandoned'
    BY DEF MInv, DInv, TypeOK, Exchange, Truth, Running, Numbers, Upload,
    Ending, Abandoned, Calm
  <1>6. UndisturbedOutcome'
    BY DEF MInv, DInv, TypeOK, Exchange, Truth, Running, Numbers, Upload,
    Ending, Told, Coming, Abandoned, Calm, Announces, UndisturbedOutcome,
    UpdateEnded
  <1> QED BY <1>1, <1>2, <1>3, <1>4, <1>5, <1>6 DEF DInv

\* Chatter keeps it.
LEMMA ChatterKept ==
    ASSUME MInv, DInv, Chatter
    PROVE  DInv'
  <1> USE DEF Chatter, hostVars, linkVars, boardVars
  <1>1. PICK e : /\ Emit(e)
                 /\ \/ \E p \in Percents : e = Event("PROGRESS", <<>>, p)
                    \/ e = Event("LOG", <<"plain">>, 0)
    OBVIOUS
  <1>2. e \in Events /\ ~e.torn /\ e.kind \in {"PROGRESS", "LOG"}
    <2>0. ~e.torn /\ e.kind \in {"PROGRESS", "LOG"}
      BY <1>1 DEF Event
    <2>1. /\ <<>> \in Seq(Tokens \cup Notices)
          /\ <<"plain">> \in Seq(Tokens \cup Notices)
      BY ShortTexts DEF Notices
    <2>2. \A p \in Percents : Event("PROGRESS", <<>>, p) \in Events
      BY <2>1, MaintenanceAssumption DEF Events, Event, Kinds
    <2>3. Event("LOG", <<"plain">>, 0) \in Events
      BY <2>1 DEF Events, Event, Kinds
    <2> QED BY <1>1, <2>0, <2>2, <2>3
  <1>3. /\ link # "up" => down' = down
        /\ \A i \in DOMAIN down' :
              (i \in DOMAIN down /\ down'[i] = down[i]) \/ down'[i] = e
        /\ \A i \in DOMAIN down : i \in DOMAIN down' /\ down'[i] = down[i]
        /\ link = "up" => \E i \in DOMAIN down' : down'[i] = e
    BY <1>1, <1>2, Emitted DEF MInv
  <1>4. Numbers'
    BY DEF MInv, DInv, TypeOK, Exchange, Truth, Running, Numbers
  <1>5. Upload'
    BY <1>2, <1>3 DEF MInv, DInv, TypeOK, Exchange, Truth, Running, Numbers,
    Upload
  <1>6. Ending'
    BY <1>2, <1>3 DEF MInv, DInv, TypeOK, Exchange, Truth, Running, Numbers,
    Ending, Calm
  <1>7. Told'
    BY <1>2, <1>3 DEF MInv, DInv, TypeOK, Exchange, Truth, Running, Numbers,
    Upload, Ending, Told, Coming, Calm, Announces
  <1>8. Abandoned'
    BY <1>2, <1>3 DEF MInv, DInv, TypeOK, Exchange, Truth, Running, Numbers,
    Upload, Ending, Abandoned, Calm
  <1>9. UndisturbedOutcome'
    BY <1>2, <1>3 DEF MInv, DInv, TypeOK, Exchange, Truth, Running, Numbers,
    Upload, Ending, Told, Coming, Abandoned, Calm, Announces,
    UndisturbedOutcome, UpdateEnded
  <1> QED BY <1>4, <1>5, <1>6, <1>7, <1>8, <1>9 DEF DInv

\* ScriptFails keeps it.
LEMMA ScriptFailsKept ==
    ASSUME MInv, DInv, ScriptFails
    PROVE  DInv'
  <1> USE DEF ScriptFails, Closing, hostVars, linkVars, boardVars
  <1>1. PICK text \in {<<>>, <<"plain">>} : Emit(Event("FAIL", text, 0))
    OBVIOUS
  <1> DEFINE e == Event("FAIL", text, 0)
  <1>2. e \in Events /\ ~e.torn /\ e.kind = "FAIL"
    <2>1. /\ <<>> \in Seq(Tokens \cup Notices)
          /\ <<"plain">> \in Seq(Tokens \cup Notices)
      BY ShortTexts DEF Notices
    <2>2. text \in Seq(Tokens \cup Notices)
      BY <2>1
    <2> QED BY <2>2 DEF Events, Event, Kinds
  <1> HIDE DEF e
  <1>3. /\ link # "up" => down' = down
        /\ \A i \in DOMAIN down' :
              (i \in DOMAIN down /\ down'[i] = down[i]) \/ down'[i] = e
        /\ \A i \in DOMAIN down : i \in DOMAIN down' /\ down'[i] = down[i]
        /\ link = "up" => \E i \in DOMAIN down' : down'[i] = e
    BY <1>1, <1>2, Emitted DEF MInv, e
  <1>4. Numbers'
    BY DEF MInv, DInv, TypeOK, Exchange, Truth, Running, Numbers
  <1>5. Upload'
    BY <1>2, <1>3 DEF MInv, DInv, TypeOK, Exchange, Truth, Running, Numbers,
    Upload
  <1>6. Ending'
    BY <1>2, <1>3 DEF MInv, DInv, TypeOK, Exchange, Truth, Running, Numbers,
    Ending, Calm
  <1>7. Told'
    BY <1>2, <1>3 DEF MInv, DInv, TypeOK, Exchange, Truth, Running, Numbers,
    Upload, Ending, Told, Coming, Calm, Announces
  <1>8. Abandoned'
    BY <1>2, <1>3 DEF MInv, DInv, TypeOK, Exchange, Truth, Running, Numbers,
    Upload, Ending, Abandoned, Calm
  <1>9. UndisturbedOutcome'
    BY <1>2, <1>3 DEF MInv, DInv, TypeOK, Exchange, Truth, Running, Numbers,
    Upload, Ending, Told, Coming, Abandoned, Calm, Announces,
    UndisturbedOutcome, UpdateEnded
  <1> QED BY <1>4, <1>5, <1>6, <1>7, <1>8, <1>9 DEF DInv

\* ScriptSucceeds keeps it.
LEMMA ScriptSucceedsKept ==
    ASSUME MInv, DInv, ScriptSucceeds
    PROVE  DInv'
  <1> USE DEF ScriptSucceeds, hostVars, linkVars, boardVars
  <1>1. Numbers'
    <2>1. pc = "upload" => svc \in {"idle", "header"}
      BY DEF DInv, Upload
    <2>2. /\ serving.n <= n
          /\ \A u \in flashed : u <= n
          /\ pc = "connect" => serving.n < n
          /\ pc = "send" => svc = "idle"
          /\ pc \in {"connect", "send", "upload"} => n \notin flashed
      BY DEF MInv, DInv, Exchange, Numbers
    <2>3. n \in 0..MaxCalls /\ serving.n \in 0..MaxCalls
      BY DEF MInv, TypeOK
    <2>4. /\ flashed' = flashed \cup {serving.n} /\ svc' = "flashed"
          /\ svc = "script"
          /\ UNCHANGED <<pc, n, serving>>
      OBVIOUS
    <2> HIDE DEF ScriptSucceeds
    <2> QED BY <2>1, <2>2, <2>3, <2>4, MaintenanceAssumption DEF Numbers
  <1>2. Upload'
    BY DEF MInv, DInv, TypeOK, Exchange, Truth, Running, Numbers, Upload
  <1>3. Ending'
    BY DEF MInv, DInv, TypeOK, Exchange, Truth, Running, Numbers, Ending,
    Calm
  <1>4. Told'
    BY DEF MInv, DInv, TypeOK, Exchange, Truth, Running, Numbers, Upload,
    Ending, Told, Coming, Calm, Announces
  <1>5. Abandoned'
    BY DEF MInv, DInv, TypeOK, Exchange, Truth, Running, Numbers, Upload,
    Ending, Abandoned, Calm
  <1>6. UndisturbedOutcome'
    BY DEF MInv, DInv, TypeOK, Exchange, Truth, Running, Numbers, Upload,
    Ending, Told, Coming, Abandoned, Calm, Announces, UndisturbedOutcome,
    UpdateEnded
  <1> QED BY <1>1, <1>2, <1>3, <1>4, <1>5, <1>6 DEF DInv

\* Announce keeps it.
LEMMA AnnounceKept ==
    ASSUME MInv, DInv, Announce
    PROVE  DInv'
  <1> USE DEF Announce, hostVars, linkVars, boardVars
  <1> DEFINE text == IF svc = "half" THEN <<"tail">>
                     ELSE IF svc' = "said" THEN <<"complete">> ELSE <<"head">>
             e == Event("LOG", text, 0)
  <1>1. Emit(e)
    OBVIOUS
  <1>2. /\ e \in Events /\ ~e.torn /\ e.kind = "LOG"
        /\ svc' = "said" => Announces(e)
    <2>1. text \in Seq(Tokens \cup Notices)
      BY ShortTexts DEF Notices
    <2>2. svc' = "said" => text = <<"complete">>
      OBVIOUS
    <2> HIDE DEF text
    <2> QED BY <2>1, <2>2 DEF Events, Event, Kinds, Announces, SeesComplete
  <1> HIDE DEF text, e
  <1>3. /\ link # "up" => down' = down
        /\ \A i \in DOMAIN down' :
              (i \in DOMAIN down /\ down'[i] = down[i]) \/ down'[i] = e
        /\ \A i \in DOMAIN down : i \in DOMAIN down' /\ down'[i] = down[i]
        /\ link = "up" => \E i \in DOMAIN down' : down'[i] = e
    BY <1>1, <1>2, Emitted DEF MInv
  <1>4. Numbers'
    BY DEF MInv, DInv, TypeOK, Exchange, Truth, Running, Numbers
  <1>5. Upload'
    BY <1>2, <1>3 DEF MInv, DInv, TypeOK, Exchange, Truth, Running, Numbers,
    Upload
  <1>6. Ending'
    BY <1>2, <1>3 DEF MInv, DInv, TypeOK, Exchange, Truth, Running, Numbers,
    Ending, Calm
  <1>7. Told'
    BY <1>2, <1>3 DEF MInv, DInv, TypeOK, Exchange, Truth, Running, Numbers,
    Upload, Ending, Told, Coming, Calm, Announces
  <1>8. Abandoned'
    BY <1>2, <1>3 DEF MInv, DInv, TypeOK, Exchange, Truth, Running, Numbers,
    Upload, Ending, Abandoned, Calm
  <1>9. UndisturbedOutcome'
    BY <1>2, <1>3 DEF MInv, DInv, TypeOK, Exchange, Truth, Running, Numbers,
    Upload, Ending, Told, Coming, Abandoned, Calm, Announces,
    UndisturbedOutcome, UpdateEnded
  <1> QED BY <1>4, <1>5, <1>6, <1>7, <1>8, <1>9 DEF DInv

\* Done keeps it.
LEMMA DoneKept ==
    ASSUME MInv, DInv, Done
    PROVE  DInv'
  <1> USE DEF Done, Closing, hostVars, linkVars, boardVars
  <1>1. PICK e : Emit(e) /\ e = Event("DONE", <<>>, 0)
    OBVIOUS
  <1>2. e \in Events /\ ~e.torn /\ e.kind = "DONE"
    BY <1>1, ShortTexts DEF Events, Event, Kinds
  <1>3. /\ link # "up" => down' = down
        /\ \A i \in DOMAIN down' :
              (i \in DOMAIN down /\ down'[i] = down[i]) \/ down'[i] = e
        /\ \A i \in DOMAIN down : i \in DOMAIN down' /\ down'[i] = down[i]
        /\ link = "up" => \E i \in DOMAIN down' : down'[i] = e
    BY <1>1, <1>2, Emitted DEF MInv
  <1>4. Numbers'
    BY DEF MInv, DInv, TypeOK, Exchange, Truth, Running, Numbers
  <1>5. Upload'
    BY <1>2, <1>3 DEF MInv, DInv, TypeOK, Exchange, Truth, Running, Numbers,
    Upload
  <1>6. Ending'
    BY <1>2, <1>3 DEF MInv, DInv, TypeOK, Exchange, Truth, Running, Numbers,
    Ending, Calm
  <1>7. Told'
    BY <1>2, <1>3 DEF MInv, DInv, TypeOK, Exchange, Truth, Running, Numbers,
    Upload, Ending, Told, Coming, Calm, Announces
  <1>8. Abandoned'
    BY <1>2, <1>3 DEF MInv, DInv, TypeOK, Exchange, Truth, Running, Numbers,
    Upload, Ending, Abandoned, Calm
  <1>9. UndisturbedOutcome'
    BY <1>2, <1>3 DEF MInv, DInv, TypeOK, Exchange, Truth, Running, Numbers,
    Upload, Ending, Told, Coming, Abandoned, Calm, Announces,
    UndisturbedOutcome, UpdateEnded
  <1> QED BY <1>4, <1>5, <1>6, <1>7, <1>8, <1>9 DEF DInv

\* RebootAfterUpdate keeps it.
LEMMA RebootAfterUpdateKept ==
    ASSUME MInv, DInv, RebootAfterUpdate
    PROVE  DInv'
  <1> USE DEF RebootAfterUpdate, Closing, hostVars, linkVars, boardVars
  <1> DEFINE reasons ==
               {"reboot"} \cup IF svc = "saidInTwo" THEN {"split"} ELSE {}
  <1>1. Break(reasons) /\ (svc = "saidInTwo" => "split" \in reasons)
    OBVIOUS
  <1> HIDE DEF reasons
  <1>2. /\ \A i \in DOMAIN down' :
              i \in DOMAIN down /\ down'[i].kind = down[i].kind
        /\ trouble' \subseteq {"reboot"} => down' = down
        /\ trouble \cup reasons \subseteq trouble'
        /\ Closing
    BY <1>1, Broken DEF MInv
  <1>3. Numbers'
    BY <1>1, <1>2 DEF MInv, DInv, TypeOK, Exchange, Truth, Running, Numbers
  <1>4. Upload'
    BY <1>1, <1>2 DEF MInv, DInv, TypeOK, Exchange, Truth, Running, Numbers,
    Upload
  <1>5. Ending'
    BY <1>1, <1>2 DEF MInv, DInv, TypeOK, Exchange, Truth, Running, Numbers,
    Ending, Calm
  <1>6. Told'
    BY <1>1, <1>2 DEF MInv, DInv, TypeOK, Exchange, Truth, Running, Numbers,
    Upload, Ending, Told, Coming, Calm, Announces
  <1>7. Abandoned'
    BY <1>1, <1>2 DEF MInv, DInv, TypeOK, Exchange, Truth, Running, Numbers,
    Upload, Ending, Abandoned, Calm
  <1>8. UndisturbedOutcome'
    BY <1>1, <1>2 DEF MInv, DInv, TypeOK, Exchange, Truth, Running, Numbers,
    Upload, Ending, Told, Coming, Abandoned, Calm, Announces,
    UndisturbedOutcome, UpdateEnded
  <1> QED BY <1>3, <1>4, <1>5, <1>6, <1>7, <1>8 DEF DInv

\* PowerLoss keeps it.
LEMMA PowerLossKept ==
    ASSUME MInv, DInv, PowerLoss
    PROVE  DInv'
  <1> USE DEF PowerLoss, Closing, hostVars, linkVars, boardVars
  <1> DEFINE reasons ==
               {"reset"}
  <1>1. Break(reasons) /\ ("reset" \in reasons)
    OBVIOUS
  <1> HIDE DEF reasons
  <1>2. /\ \A i \in DOMAIN down' :
              i \in DOMAIN down /\ down'[i].kind = down[i].kind
        /\ trouble' \subseteq {"reboot"} => down' = down
        /\ trouble \cup reasons \subseteq trouble'
        /\ Closing
    BY <1>1, Broken DEF MInv
  <1>3. Numbers'
    BY <1>1, <1>2 DEF MInv, DInv, TypeOK, Exchange, Truth, Running, Numbers
  <1>4. Upload'
    BY <1>1, <1>2 DEF MInv, DInv, TypeOK, Exchange, Truth, Running, Numbers,
    Upload
  <1>5. Ending'
    BY <1>1, <1>2 DEF MInv, DInv, TypeOK, Exchange, Truth, Running, Numbers,
    Ending, Calm
  <1>6. Told'
    BY <1>1, <1>2 DEF MInv, DInv, TypeOK, Exchange, Truth, Running, Numbers,
    Upload, Ending, Told, Coming, Calm, Announces
  <1>7. Abandoned'
    BY <1>1, <1>2 DEF MInv, DInv, TypeOK, Exchange, Truth, Running, Numbers,
    Upload, Ending, Abandoned, Calm
  <1>8. UndisturbedOutcome'
    BY <1>1, <1>2 DEF MInv, DInv, TypeOK, Exchange, Truth, Running, Numbers,
    Upload, Ending, Told, Coming, Abandoned, Calm, Announces,
    UndisturbedOutcome, UpdateEnded
  <1> QED BY <1>3, <1>4, <1>5, <1>6, <1>7, <1>8 DEF DInv

\* The invariant of the outcome holds in the initial state.
LEMMA DInvInit ==
    ASSUME Init
    PROVE  DInv
  BY MaintenanceAssumption
     DEF Init, DInv, Numbers, Upload, Ending, Told, Abandoned,
         UndisturbedOutcome, UpdateEnded, Running, NoCall

\* It is inductive.
LEMMA DInvStep ==
    ASSUME MInv, DInv, [Next]_vars
    PROVE  DInv'
  <1>1. CASE Call
    BY <1>1, CallKept
  <1>2. CASE Host
    BY <1>2, ConnectFailsKept, ConnectKept, SendRequestKept, SendFailsKept,
       SendChunkKept, ReadPackageFailsKept, ReadReplyKept, ReplyFailsKept,
       ReadProgressKept, ReadTextKept, ReadErrorKept, ConnectionEndsKept,
       TextCutKept
       DEF Host
  <1>3. CASE Board
    BY <1>3, AnswerKept, RefuseUpdateKept, ReceiveKept, NoPackageKept,
       ChatterKept, ScriptFailsKept, ScriptSucceedsKept, AnnounceKept,
       DoneKept, RebootAfterUpdateKept, PowerLossKept
       DEF Board
  <1>4. CASE UNCHANGED vars
    BY <1>4 DEF DInv, Numbers, Upload, Ending, Told, Coming, Abandoned,
                UndisturbedOutcome, UpdateEnded, Calm, Announces, vars,
                hostVars, linkVars, boardVars
  <1> QED BY <1>1, <1>2, <1>3, <1>4 DEF Next

-----------------------------------------------------------------------------
(* What the board has stored, and what the host is told of it *)

\* The board's text is what set_network_config wrote of the configuration it
\* was last given, or it has none and its configuration is the default.
StoredText ==
    \/ stored = <<>> /\ storedOf = Default
    \/ stored = Serialize(storedOf) /\ storedOf \in Configs

\* The service serves the host's own call.
Servant == pc \in {"upload", "reply", "events"} => serving.call = call

\* An OK on its way is the service's last word: to get_network_config it
\* brings the text that is stored, still, and to set_network_config the news
\* that its own configuration is.
Replies ==
    pc = "reply" =>
        \A i \in DOMAIN down : down[i].kind = "OK" =>
            /\ svc = "idle"
            /\ call.op = "getnet" => down[i].text = stored
            /\ call.op = "setnet" => storedOf = call.config

\* After a call that was answered the service rests: nothing is stored until
\* the next call.
Answered == IF pc = "idle" THEN answered => svc = "idle" ELSE ~answered

NInv == StoredText /\ Servant /\ Replies /\ Answered /\ NetworkReadsBack

\* A step of the host that neither sends a request nor reads a reply.
LEMMA HostReads ==
    ASSUME NInv, pc # "idle", pc' # "reply",
           pc' \in {"upload", "events"} => pc \in {"upload", "events"},
           UNCHANGED <<call, answered, stored, storedOf, svc, serving>>
    PROVE  NInv'
  BY DEF NInv, StoredText, Servant, Replies, Answered, NetworkReadsBack

\* A step of the board that neither stores nor says OK.
LEMMA BoardReads ==
    ASSUME NInv, svc # "idle",
           UNCHANGED <<pc, call, ret, config, answered, stored, storedOf,
                       serving>>,
           \A i \in DOMAIN down' : down'[i].kind = "OK" =>
               \E j \in DOMAIN down : down[j].kind = "OK"
    PROVE  NInv'
  BY DEF NInv, StoredText, Servant, Replies, Answered, NetworkReadsBack

\* What the service sends that is no OK adds none.
LEMMA NoNewOK ==
    ASSUME TypeOK, NEW e, Emit(e), e.kind # "OK"
    PROVE  \A i \in DOMAIN down' : down'[i].kind = "OK" =>
               \E j \in DOMAIN down : down[j].kind = "OK"
  <1>1. down \in Seq(Events)
    BY DEF TypeOK
  <1>2. CASE link = "up"
    <2>1. down' = Append(down, e)
      BY <1>2 DEF Emit
    <2>2. down \in Seq(Events \cup {e}) /\ e \in Events \cup {e}
      BY <1>1
    <2>3. /\ DOMAIN down' = 1..Len(down) + 1 /\ DOMAIN down = 1..Len(down)
          /\ \A i \in 1..Len(down) : down'[i] = down[i]
          /\ down'[Len(down) + 1] = e /\ Len(down) \in Nat
      BY <2>1, <2>2
    <2>4. \A i \in DOMAIN down' : i \in 1..Len(down) \/ i = Len(down) + 1
      BY <2>3
    <2> QED BY <2>3, <2>4
  <1>3. CASE link # "up"
    BY <1>3 DEF Emit
  <1> QED BY <1>2, <1>3

\* Call keeps it.
LEMMA CallReads ==
    ASSUME MInv, NInv, Call
    PROVE  NInv'
  BY DEF Call, boardVars, NInv, StoredText, Servant, Replies, Answered,
         NetworkReadsBack

\* The request that the service is given is the host's.
LEMMA SendRequestReads ==
    ASSUME MInv, NInv, SendRequest
    PROVE  NInv'
  <1>1. /\ pc = "send" /\ down = <<>> /\ down' = <<>> /\ pc' # "idle"
        /\ serving'.call = call' /\ ~answered'
        /\ UNCHANGED <<stored, storedOf>>
    BY DEF SendRequest, KeepCall, linkVars, MInv, Exchange, NInv, Answered
  <1> QED BY <1>1 DEF NInv, StoredText, Servant, Replies, Answered,
                      NetworkReadsBack

\* The reply that get_network_config reads is what the board has stored, and
\* its parser makes the configuration of it.
LEMMA ReadReplyReads ==
    ASSUME MInv, NInv, ReadReply
    PROVE  NInv'
  <1>1. /\ pc = "reply" /\ pc' = "idle" /\ down # <<>> /\ down' = <<>>
        /\ answered' = (Head(down).kind = "OK")
        /\ UNCHANGED <<call, stored, storedOf, svc, serving>>
    BY DEF ReadReply, Accepted, Return, CloseSocket, boardVars
  <1>2. 1 \in DOMAIN down /\ Head(down) = down[1]
    BY <1>1, HeadAndTail DEF MInv
  <1>3. answered' =>
            svc = "idle" /\ (call.op = "getnet" => Head(down).text = stored)
    BY <1>1, <1>2 DEF NInv, Replies
  <1>4. ASSUME call.op = "getnet", answered', Clean(storedOf)
        PROVE  IF Usable(storedOf) THEN ret' /\ config' = Normal(storedOf)
               ELSE ~ret'
    <2>1. \/ /\ stored = <<>> /\ config' = Default /\ ret'
          \/ /\ stored # <<>> /\ Parses(stored)
             /\ config' = Parsed(stored) /\ ret'
          \/ stored # <<>> /\ ~Parses(stored) /\ ~ret'
      BY <1>1, <1>3, <1>4 DEF ReadReply, Accepted, Return
    <2>2. CASE stored = <<>> /\ storedOf = Default
      <3>1. Usable(Default) /\ Normal(Default) = Default
        BY DEF Usable, Normal, Default
      <3> QED BY <2>1, <2>2, <3>1
    <2>3. CASE stored = Serialize(storedOf) /\ storedOf \in Configs
      <3>1. /\ stored # <<>> /\ Parsed(stored) = Normal(storedOf)
            /\ Parses(stored) <=> Usable(storedOf)
        BY <1>4, <2>3, ConfigReadsBack
      <3> QED BY <2>1, <3>1
    <2> QED BY <2>2, <2>3 DEF NInv, StoredText
  <1>5. NetworkReadsBack'
    BY <1>1, <1>4 DEF NetworkReadsBack
  <1> QED BY <1>1, <1>3, <1>5 DEF NInv, StoredText, Servant, Replies, Answered

\* The service's answer is its last word, and the text it sends the one it
\* keeps.
LEMMA AnswerReads ==
    ASSUME MInv, NInv, Answer
    PROVE  NInv'
  <1> DEFINE setting == serving.call.op = "setnet"
  <1>1. /\ svc = "request" /\ svc' = "idle"
        /\ UNCHANGED <<pc, call, ret, config, answered, serving>>
    BY DEF Answer, hostVars
  <1>2. ~answered'
    BY <1>1 DEF NInv, Answered
  <1>3. StoredText'
    <2>1. CASE UNCHANGED <<stored, storedOf>>
      BY <2>1 DEF NInv, StoredText
    <2>2. CASE /\ stored' = IF setting THEN Serialize(serving.call.config)
                            ELSE stored
               /\ storedOf' = IF setting THEN serving.call.config ELSE storedOf
      <3>1. setting => serving.call.config \in Configs
        <4>1. serving.call \in Calls \cup {NoCall} /\ NoCall.op = "status"
          BY DEF MInv, TypeOK, NoCall
        <4>2. \A c \in Calls : c.op = "setnet" => c.config \in Configs
          BY MaintenanceAssumption DEF Requests
        <4> QED BY <4>1, <4>2
      <3> QED BY <2>2, <3>1 DEF NInv, StoredText
    <2> QED BY <2>1, <2>2 DEF Answer
  <1>4. \A i \in DOMAIN down : pc = "reply" => down[i].kind # "OK"
    BY <1>1 DEF NInv, Replies
  <1>5. Replies'
    <2>1. CASE UNCHANGED <<stored, storedOf>> /\
               \E kind \in {"FAIL", "ERR"} : Emit(Event(kind, <<>>, 0))
      <3>1. PICK kind \in {"FAIL", "ERR"} : Emit(Event(kind, <<>>, 0))
        BY <2>1
      <3>2. Event(kind, <<>>, 0).kind # "OK"
        BY DEF Event
      <3>3. \A i \in DOMAIN down' : down'[i].kind = "OK" =>
                \E j \in DOMAIN down : down[j].kind = "OK"
        BY <3>1, <3>2, NoNewOK DEF MInv
      <3> QED BY <1>1, <1>4, <3>3 DEF Replies
    <2>2. CASE /\ Emit(Event("OK", stored', 0))
               /\ setting => storedOf' = serving.call.config
      <3> DEFINE e == Event("OK", stored', 0)
      <3>1. e \in Events /\ e.text = stored'
        <4>1. stored' \in Seq(Tokens)
          BY CallTypes DEF MInv, TypeOK, Answer
        <4>2. stored' \in Seq(Tokens \cup Notices)
          BY <4>1
        <4> QED BY <4>2 DEF Events, Event, Kinds
      <3>2. Emit(e)
        BY <2>2
      <3> HIDE DEF e
      <3>3. \A i \in DOMAIN down' :
                (i \in DOMAIN down /\ down'[i] = down[i]) \/ down'[i] = e
        BY <3>1, <3>2, Emitted DEF MInv
      <3>4. pc = "reply" /\ call.op = "setnet" => storedOf' = call.config
        BY <2>2 DEF NInv, Servant
      <3> QED BY <1>1, <1>4, <3>1, <3>3, <3>4 DEF Replies
    <2> QED BY <2>1, <2>2 DEF Answer
  <1> QED BY <1>1, <1>2, <1>3, <1>5 DEF NInv, Servant, Answered,
                                        NetworkReadsBack

\* A loss of power leaves what is stored, and changes no text on its way
\* that still arrives whole.
LEMMA PowerLossReads ==
    ASSUME MInv, NInv, PowerLoss
    PROVE  NInv'
  <1>1. \A i \in DOMAIN down' :
            /\ i \in DOMAIN down /\ down'[i].kind = down[i].kind
            /\ down'[i].text = down[i].text
    BY Broken DEF PowerLoss, MInv
  <1>2. /\ svc' = "idle"
        /\ UNCHANGED <<pc, call, ret, config, answered, stored, storedOf,
                       serving>>
    BY DEF PowerLoss, hostVars
  <1> QED BY <1>1, <1>2 DEF NInv, StoredText, Servant, Replies, Answered,
                            NetworkReadsBack

\* The invariant holds in the initial state.
LEMMA NInvInit ==
    ASSUME Init
    PROVE  NInv
  BY DEF Init, NInv, StoredText, Servant, Replies, Answered,
         NetworkReadsBack, NoCall

\* It is inductive.
LEMMA NInvStep ==
    ASSUME MInv, NInv, [Next]_vars
    PROVE  NInv'
  <1>1. CASE Call
    BY <1>1, CallReads
  <1>2. CASE Host
    <2> USE DEF Return, KeepCall, boardVars
    <2>1. CASE SendRequest
      BY <2>1, SendRequestReads
    <2>2. CASE ReadReply
      BY <2>2, ReadReplyReads
    <2>3. CASE ConnectFails \/ Connect
      BY <2>3, HostReads DEF ConnectFails, Connect
    <2>4. CASE SendFails \/ ReadPackageFails \/ ReplyFails
      BY <2>4, HostReads DEF SendFails, ReadPackageFails, ReplyFails
    <2>5. CASE SendChunk
      BY <2>5, HostReads DEF SendChunk
    <2>6. CASE ReadProgress \/ ReadText
      BY <2>6, HostReads DEF ReadProgress, ReadText
    <2>7. CASE ReadError \/ ConnectionEnds \/ TextCut
      BY <2>7, HostReads DEF ReadError, ConnectionEnds, TextCut
    <2> QED BY <1>2, <2>1, <2>2, <2>3, <2>4, <2>5, <2>6, <2>7 DEF Host
  <1>3. CASE Board
    <2> USE DEF hostVars, linkVars
    <2>1. CASE Answer
      BY <2>1, AnswerReads
    <2>2. CASE PowerLoss
      BY <2>2, PowerLossReads
    <2>3. CASE \E e : Emit(e) /\ e.kind # "OK" /\ svc # "idle"
                      /\ UNCHANGED <<pc, call, ret, config, answered, stored,
                                     storedOf, serving>>
      <3>1. PICK e : Emit(e) /\ e.kind # "OK"
        BY <2>3
      <3>2. \A i \in DOMAIN down' : down'[i].kind = "OK" =>
                \E j \in DOMAIN down : down[j].kind = "OK"
        BY <3>1, NoNewOK DEF MInv
      <3> QED BY <2>3, <3>2, BoardReads
    <2>4. CASE RefuseUpdate
      <3>1. Emit(Event("ERR", <<>>, 0)) /\ Event("ERR", <<>>, 0).kind # "OK"
        BY <2>4 DEF RefuseUpdate, Event
      <3> QED BY <2>3, <2>4, <3>1 DEF RefuseUpdate
    <2>5. CASE Receive \/ NoPackage \/ ScriptSucceeds
      BY <2>5, BoardReads DEF Receive, NoPackage, ScriptSucceeds
    <2>6. CASE Chatter
      <3>1. PICK e : /\ Emit(e)
                     /\ \/ \E p \in Percents : e = Event("PROGRESS", <<>>, p)
                        \/ e = Event("LOG", <<"plain">>, 0)
        BY <2>6 DEF Chatter
      <3>2. e.kind # "OK"
        BY <3>1 DEF Event
      <3> QED BY <2>3, <2>6, <3>1, <3>2 DEF Chatter, Running
    <2>7. CASE ScriptFails
      <3>1. PICK e : Emit(e) /\ e.kind # "OK"
        BY <2>7 DEF ScriptFails, Event
      <3> QED BY <2>3, <2>7, <3>1 DEF ScriptFails
    <2>8. CASE Announce
      <3>1. PICK e : Emit(e) /\ e.kind # "OK"
        BY <2>8 DEF Announce, Event
      <3> QED BY <2>3, <2>8, <3>1 DEF Announce
    <2>9. CASE Done
      <3>1. PICK e : Emit(e) /\ e.kind # "OK"
        BY <2>9 DEF Done, Event
      <3> QED BY <2>3, <2>9, <3>1 DEF Done
    <2>10. CASE RebootAfterUpdate
      <3>1. PICK reasons : Break(reasons)
        BY <2>10 DEF RebootAfterUpdate
      <3>2. \A i \in DOMAIN down' :
                i \in DOMAIN down /\ down'[i].kind = down[i].kind
        BY <3>1, Broken DEF MInv
      <3> QED BY <2>10, <3>2, BoardReads DEF RebootAfterUpdate
    <2> QED BY <1>3, <2>1, <2>2, <2>4, <2>5, <2>6, <2>7, <2>8, <2>9, <2>10
               DEF Board
  <1>4. CASE UNCHANGED vars
    BY <1>4 DEF NInv, StoredText, Servant, Replies, Answered,
                NetworkReadsBack, vars, hostVars, linkVars, boardVars
  <1> QED BY <1>1, <1>2, <1>3, <1>4 DEF Next

-----------------------------------------------------------------------------
\* The inductive invariant holds in every execution, whatever the board and
\* the network do.
THEOREM MaintenanceInvariant == Spec => []MInv
  <1>1. Init => MInv
    BY MInvInit
  <1>2. MInv /\ [Next]_vars => MInv'
    BY MInvStep
  <1> QED BY <1>1, <1>2, PTL DEF Spec

\* Every variable of Maintenance keeps its type; progress is a percentage
\* whatever integers the board sends.
THEOREM MaintenanceTypes == Spec => []TypeOK
  <1>1. MInv => TypeOK
    BY DEF MInv
  <1> QED BY <1>1, MaintenanceInvariant, PTL

\* An update that returns true has been flashed: no timeout, lost, cut or late
\* event, refusal or retry makes update_firmware report a success that the
\* board's script did not have.
THEOREM SuccessesAreReal == Spec => []SuccessIsReal
  <1>1. MInv => SuccessIsReal
    BY DEF MInv
  <1> QED BY <1>1, MaintenanceInvariant, PTL

\* The progress shown during an update never goes back.
THEOREM ProgressNeverBack == Spec => ProgressMonotone
  <1>1. MInv /\ [Next]_vars => [shown' < shown => pc = "idle"]_vars
    BY MeterStep
  <1> QED BY <1>1, MaintenanceInvariant, PTL DEF Spec, ProgressMonotone

\* What update_firmware returns is what happened on the board: true only for
\* a script that has succeeded; and when nothing was lost, late or cut in two
\* exactly for one that has, though the reboot may end the connection before
\* the script's DONE.
THEOREM OutcomesAreTheBoards == Spec => []OutcomeIsTheBoards
  <1>1. Init => MInv /\ DInv
    BY MInvInit, DInvInit
  <1>2. MInv /\ DInv /\ [Next]_vars => MInv' /\ DInv'
    BY MInvStep, DInvStep
  <1>3. MInv /\ DInv => OutcomeIsTheBoards
    BY DEF MInv, DInv, OutcomeIsTheBoards
  <1> QED BY <1>1, <1>2, <1>3, PTL DEF Spec

\* get_network_config returns the configuration that the board was last given,
\* by whichever call, as far as its mode uses it; a static one without an
\* address or a netmask it refuses.
THEOREM NetworksReadBack == Spec => []NetworkReadsBack
  <1>1. Init => MInv /\ NInv
    BY MInvInit, NInvInit
  <1>2. MInv /\ NInv /\ [Next]_vars => MInv' /\ NInv'
    BY MInvStep, NInvStep
  <1>3. NInv => NetworkReadsBack
    BY DEF NInv
  <1> QED BY <1>1, <1>2, <1>3, PTL DEF Spec

-----------------------------------------------------------------------------
(* The client and the board's service implement the client's interface *)

\* The service takes a package, and runs a script, only for an update.
Served ==
    /\ svc \in {"idle", "request", "header"} \cup Running
    /\ svc \in {"header"} \cup Running => serving.call.op = "update"

LEMMA ServedStep ==
    ASSUME Served, [Next]_vars
    PROVE  Served'
  <1> USE DEF Served, Running
  <1>1. CASE SendRequest
    BY <1>1 DEF SendRequest
  <1>2. CASE UNCHANGED <<svc, serving>>
    BY <1>2
  <1>3. CASE Host /\ ~SendRequest
    <2>1. UNCHANGED boardVars
      BY <1>3 DEF Host, ConnectFails, Connect, SendFails, SendChunk,
                  ReadPackageFails, ReadReply, ReplyFails, ReadProgress,
                  ReadText, ReadError, ConnectionEnds, TextCut
    <2> QED BY <1>2, <2>1 DEF boardVars
  <1>4. CASE Call \/ UNCHANGED vars
    <2>1. UNCHANGED boardVars
      BY <1>4 DEF Call, vars
    <2> QED BY <1>2, <2>1 DEF boardVars
  <1>5. CASE Board
    <2>1. serving' = serving
      BY <1>5 DEF Board, Answer, RefuseUpdate, Receive, NoPackage, Chatter,
                  ScriptFails, ScriptSucceeds, Announce, Done,
                  RebootAfterUpdate, PowerLoss
    <2>2. \/ svc' \in {"idle", svc}
          \/ svc \in {"header"} \cup Running /\ svc' \in Running
      BY <1>5 DEF Board, Answer, RefuseUpdate, Receive, NoPackage, Chatter,
                  ScriptFails, ScriptSucceeds, Announce, Done,
                  RebootAfterUpdate, PowerLoss
    <2> QED BY <2>1, <2>2
  <1> QED BY <1>1, <1>3, <1>4, <1>5 DEF Next

Pending == svc \in {"request", "header", "script"}

\* A step that the interface does not show.
LEMMA UnseenStutters ==
    ASSUME pc' # "idle" <=> pc # "idle", Pending' <=> Pending,
           UNCHANGED <<call, n, ret, config, serving, storedOf, flashed>>
    PROVE  UNCHANGED API!apiVars
  BY DEF API!apiVars, Pending

\* A step by which a call fails.
LEMMA FailIsFail ==
    ASSUME pc # "idle", Return(FALSE),
           UNCHANGED <<call, n, config, serving, svc, storedOf, flashed>>
    PROVE  API!Fail
  BY DEF Return, API!Fail

\* A step by which the board drops its work.
LEMMA DropIsSettle ==
    ASSUME Pending, svc' = "idle",
           UNCHANGED <<pc, call, n, ret, config, serving, storedOf, flashed>>
    PROVE  API!Settle
  BY DEF Pending, API!Settle

\* The reply a call has read whole: the work is carried out, and
\* get_network_config has read what is stored.
LEMMA ReplyIsReturn ==
    ASSUME MInv, DInv, NInv, NInv', ReadReply
    PROVE  API!Succeed \/ API!Fail
  <1>1. /\ pc = "reply" /\ pc' = "idle" /\ down # <<>>
        /\ answered' = Accepted(Head(down))
        /\ UNCHANGED <<call, n, serving, svc, storedOf, flashed>>
    BY DEF ReadReply, Return, boardVars
  <1>2. CASE ret'
    <2>1. /\ answered' /\ ret' = TRUE
          /\ call.op # "getnet" => config' = config
      BY <1>1, <1>2 DEF ReadReply, Return
    <2>2. 1 \in DOMAIN down /\ Head(down) = down[1]
      BY <1>1, HeadAndTail DEF MInv
    <2>3. svc = "idle" /\ (call.op = "setnet" => storedOf = call.config)
      BY <1>1, <2>1, <2>2 DEF NInv, Replies, Accepted
    <2>4. serving.n = n /\ call.op # "update"
      BY <1>1 DEF MInv, Exchange
    <2>5. call.op = "getnet" /\ Clean(storedOf) =>
              Usable(storedOf) /\ config' = Normal(storedOf)
      BY <1>1, <1>2, <2>1 DEF NInv, NetworkReadsBack
    <2>6. API!CarriedOut
      BY <2>3, <2>4 DEF API!CarriedOut
    <2> QED BY <1>1, <2>1, <2>5, <2>6 DEF API!Succeed
  <1>3. CASE ~ret'
    <2>1. ret' = FALSE /\ config' = config
      BY <1>1, <1>3 DEF ReadReply, Return
    <2> QED BY <1>1, <2>1, FailIsFail DEF Return
  <1> QED BY <1>2, <1>3

\* A success of an update: its script is over and has flashed the package.
LEMMA EndIsSucceed ==
    ASSUME MInv, DInv, pc = "events", Return(TRUE), n \in flashed,
           UNCHANGED <<call, n, config, serving, svc, storedOf, flashed>>
    PROVE  API!Succeed
  <1>1. serving.n = n /\ call.op = "update"
    BY DEF MInv, Exchange
  <1>2. ~Pending
    BY <1>1 DEF DInv, Numbers, Pending
  <1>3. API!CarriedOut
    BY <1>1, <1>2 DEF API!CarriedOut, Pending
  <1> QED BY <1>1, <1>3 DEF API!Succeed, Return

\* Every step of the host is one of its interface, or is not seen there.
LEMMA HostImplements ==
    ASSUME MInv, DInv, NInv, NInv', Host
    PROVE  API!Next \/ UNCHANGED API!apiVars
  <1> USE DEF KeepCall, boardVars, linkVars
  <1>1. CASE ConnectFails \/ SendFails \/ ReadPackageFails \/ ReplyFails
             \/ ReadError \/ TextCut
    <2>1. /\ pc # "idle" /\ Return(FALSE)
          /\ UNCHANGED <<call, n, config, serving, svc, storedOf, flashed>>
      BY <1>1 DEF ConnectFails, SendFails, ReadPackageFails, ReplyFails,
                  ReadError, TextCut
    <2> QED BY <2>1, FailIsFail DEF API!Next
  <1>2. CASE Connect \/ SendChunk \/ ReadProgress
    <2>1. /\ pc # "idle" /\ pc' # "idle" /\ svc' = svc
          /\ UNCHANGED <<call, n, ret, config, serving, storedOf, flashed>>
      BY <1>2 DEF Connect, SendChunk, ReadProgress
    <2> QED BY <2>1, UnseenStutters DEF Pending
  <1>3. CASE SendRequest
    <2>1. /\ pc = "send" /\ pc' # "idle"
          /\ svc' \in {"header", "request"}
          /\ serving' = [call |-> call, n |-> n]
          /\ UNCHANGED <<call, n, ret, config, storedOf, flashed>>
      BY <1>3 DEF SendRequest
    <2>2. svc = "idle" /\ serving.n < n /\ serving.n \in Int /\ n \in Int
      BY <2>1 DEF MInv, TypeOK, Exchange, DInv, Numbers
    <2>3. API!Take
      BY <2>1, <2>2 DEF API!Take
    <2> QED BY <2>3 DEF API!Next
  <1>4. CASE ReadReply
    BY <1>4, ReplyIsReturn DEF API!Next
  <1>5. CASE ReadText
    <2>1. /\ pc = "events" /\ down # <<>>
          /\ UNCHANGED <<call, n, config, serving, svc, storedOf, flashed>>
      BY <1>5 DEF ReadText
    <2>2. CASE Head(down).kind = "LOG"
      <3>1. pc' = pc /\ ret' = ret
        BY <1>5, <2>2 DEF ReadText
      <3> QED BY <2>1, <3>1, UnseenStutters DEF Pending
    <2>3. CASE Head(down).kind = "DONE"
      <3>1. Return(TRUE)
        BY <1>5, <2>3 DEF ReadText
      <3>2. 1 \in DOMAIN down /\ Head(down) = down[1]
        BY <2>1, HeadAndTail DEF MInv
      <3>3. n \in flashed
        BY <2>3, <3>2 DEF MInv, Truth, Announces
      <3> QED BY <2>1, <3>1, <3>3, EndIsSucceed DEF API!Next
    <2>4. CASE Head(down).kind \notin {"LOG", "DONE"}
      <3>1. Return(FALSE)
        BY <1>5, <2>4 DEF ReadText
      <3> QED BY <2>1, <3>1, FailIsFail DEF API!Next
    <2> QED BY <2>2, <2>3, <2>4
  <1>6. CASE ConnectionEnds
    <2>1. /\ pc = "events" /\ Return(complete)
          /\ UNCHANGED <<call, n, config, serving, svc, storedOf, flashed>>
      BY <1>6 DEF ConnectionEnds
    <2>2. complete \in BOOLEAN
      BY DEF MInv, TypeOK
    <2>3. CASE complete = TRUE
      <3>1. n \in flashed
        BY <2>3 DEF MInv, Truth
      <3> QED BY <2>1, <2>3, <3>1, EndIsSucceed DEF API!Next
    <2>4. CASE complete = FALSE
      BY <2>1, <2>4, FailIsFail DEF API!Next
    <2> QED BY <2>2, <2>3, <2>4
  <1> QED BY <1>1, <1>2, <1>3, <1>4, <1>5, <1>6 DEF Host

\* Every step of the board is one of the interface, or is not seen there.
LEMMA BoardImplements ==
    ASSUME Served, Board
    PROVE  API!Next \/ UNCHANGED API!apiVars
  <1>1. UNCHANGED <<pc, call, n, ret, config, serving>>
    BY DEF Board, Answer, RefuseUpdate, Receive, NoPackage, Chatter,
           ScriptFails, ScriptSucceeds, Announce, Done, RebootAfterUpdate,
           PowerLoss, hostVars
  <1>2. CASE Answer
    <2>1. /\ svc = "request" /\ svc' = "idle" /\ flashed' = flashed
          /\ \/ storedOf' = storedOf
             \/ /\ serving.call.op = "setnet"
                /\ storedOf' = serving.call.config
      BY <1>2 DEF Answer
    <2>2. API!Settle
      BY <1>1, <2>1 DEF API!Settle
    <2> QED BY <2>2 DEF API!Next
  <1>3. CASE RefuseUpdate \/ NoPackage \/ ScriptFails
    <2>1. Pending /\ svc' = "idle" /\ UNCHANGED <<storedOf, flashed>>
      BY <1>3 DEF RefuseUpdate, NoPackage, ScriptFails, Pending
    <2> QED BY <1>1, <2>1, DropIsSettle DEF API!Next
  <1>4. CASE Receive
    <2>1. Pending /\ Pending' /\ UNCHANGED <<storedOf, flashed>>
      BY <1>4 DEF Receive, Pending
    <2> QED BY <1>1, <2>1, UnseenStutters
  <1>5. CASE ScriptSucceeds
    <2>1. /\ svc = "script" /\ svc' = "flashed" /\ storedOf' = storedOf
          /\ flashed' = flashed \cup {serving.n}
      BY <1>5 DEF ScriptSucceeds
    <2>2. serving.call.op = "update"
      BY <2>1 DEF Served, Running
    <2>3. API!Settle
      BY <1>1, <2>1, <2>2 DEF API!Settle
    <2> QED BY <2>3 DEF API!Next
  <1>6. CASE Chatter \/ Announce \/ Done \/ RebootAfterUpdate
    <2>1. /\ Pending' <=> Pending
          /\ UNCHANGED <<storedOf, flashed>>
      BY <1>6 DEF Chatter, Announce, Done, RebootAfterUpdate, Pending
    <2> QED BY <1>1, <2>1, UnseenStutters
  <1>7. CASE PowerLoss
    <2>1. svc' = "idle" /\ UNCHANGED <<storedOf, flashed>>
      BY <1>7 DEF PowerLoss
    <2>2. CASE Pending
      BY <1>1, <2>1, <2>2, DropIsSettle DEF API!Next
    <2>3. CASE ~Pending
      <3>1. Pending' <=> Pending
        BY <2>1, <2>3 DEF Pending
      <3> QED BY <1>1, <2>1, <3>1, UnseenStutters
    <2> QED BY <2>2, <2>3
  <1> QED BY <1>2, <1>3, <1>4, <1>5, <1>6, <1>7 DEF Board

LEMMA StepImplements ==
    ASSUME MInv, DInv, NInv, NInv', Served, [Next]_vars
    PROVE  [API!Next]_API!apiVars
  <1>1. CASE Call
    <2>1. PICK c \in Calls : call' = c
      BY <1>1 DEF Call
    <2>2. API!Begin(c)
      BY <1>1, <2>1 DEF Call, API!Begin, boardVars
    <2> QED BY <2>2 DEF API!Next
  <1>2. CASE Host
    BY <1>2, HostImplements
  <1>3. CASE Board
    BY <1>3, BoardImplements
  <1>4. CASE UNCHANGED vars
    BY <1>4 DEF vars, hostVars, boardVars, API!apiVars
  <1> QED BY <1>1, <1>2, <1>3, <1>4 DEF Next

\* Seen from the caller, every execution is one of MaintenanceAPI: a request
\* is carried out at most once and in the order of the calls, late or not, a
\* success is that of the call's own work, and get_network_config reads what
\* the board holds at that moment.
THEOREM MaintenanceImplementsAPI == Spec => ImplementsMaintenanceAPI
  <1>1. Init => MInv /\ DInv /\ NInv /\ Served
    BY MInvInit, DInvInit, NInvInit DEF Init, Served, Running
  <1>2. MInv /\ DInv /\ NInv /\ Served /\ [Next]_vars =>
            MInv' /\ DInv' /\ NInv' /\ Served'
    BY MInvStep, DInvStep, NInvStep, ServedStep
  <1>3. Init => API!Init
    BY DEF Init, API!Init, NoCall
  <1>4. MInv /\ DInv /\ NInv /\ NInv' /\ Served /\ [Next]_vars =>
            [API!Next]_API!apiVars
    BY StepImplements
  <1> QED BY <1>1, <1>2, <1>3, <1>4, PTL
          DEF Spec, ImplementsMaintenanceAPI, API!Spec

=============================================================================

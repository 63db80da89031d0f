--------------------------- MODULE SessionProofs ---------------------------
(***************************************************************************)
(* Proofs about Session.tla, for every length of a hello, every timeout,   *)
(* every cap and every stream.                                             *)
(***************************************************************************)
EXTENDS Session, Runs

\* The longest that a write may take.
Patience == Max({ws_write_timeout, tcp_write_timeout})

\* A message; only "data" carries bytes.
Message ==
    {m \in [kind : {"data", "ping", "pong", "close"}, data : Seq(Nat)] :
       m.kind # "data" => m.data = <<>>}

\* TypeOK without `down`, whose type depends on the shape of the sink.
Typed ==
    /\ pc \in Phases
    /\ kind \in ProbeKinds /\ hello \in Hellos \cup {"valid"} /\ stream \in Streams
    /\ buf \in Seq(Nat) /\ tcpIn \in Seq(Nat) /\ up \in Seq(Nat)
    /\ wsIn \in Seq(Message) /\ wsOut \in Seq(Message)
    /\ conn_bytes \in Nat /\ timer \in Nat /\ sentUp \in Nat /\ sentDown \in Nat /\ probed \in Nat
    /\ relayAge \in 0 .. AgeCap /\ age \in 0 .. AgeCap
    /\ client \in {"reading", "stalled", "gone"}
    /\ upstream \in {"reading", "stalled", "finished", "gone"}
    /\ saidClose \in BOOLEAN /\ gotClose \in BOOLEAN
    /\ why \in {"none", "verdict", "close", "eof", "other"}

\* The assumption, constant by constant.
LEMMA Constants ==
    /\ ProbeKinds \subseteq {"TlsSni", "Greeting", "None"}
    /\ Hellos \subseteq HelloKind /\ Streams \subseteq Seq(ByteClass) /\ Streams # {}
    /\ HelloLen \in Nat /\ HelloLen # 0 /\ MaxHello \in Nat /\ HelloLen <= MaxHello
    /\ ReadMax \in Nat /\ ReadMax # 0 /\ MaxGreeting \in Nat /\ MaxGreeting > 1
    /\ ws_idle_timeout \in Nat /\ ws_write_timeout \in Nat
    /\ tcp_write_timeout \in Nat /\ tcp_connect_timeout \in Nat
    /\ max_bytes_per_connection \in Nat /\ max_lifetime \in Nat /\ MaxUp \in Nat
    /\ MsgSizes \subseteq Nat
  BY SessionAssumption

\* Min of two numbers is one of them and not above either.
LEMMA MinOfTwo ==
    ASSUME NEW a \in Int, NEW b \in Int
    PROVE  Min({a, b}) \in {a, b} /\ Min({a, b}) <= a /\ Min({a, b}) <= b
  <1>1. \E x \in {a, b} : \A y \in {a, b} : x <= y
    <2>1. CASE a <= b
      BY <2>1
    <2>2. CASE ~(a <= b)
      BY <2>2
    <2> QED
      BY <2>1, <2>2
  <1> QED
    BY <1>1 DEF Min

\* Neither write timeout is longer than Patience.
LEMMA PatienceBounds ==
    Patience \in Nat /\ ws_write_timeout <= Patience /\ tcp_write_timeout <= Patience
  <1> DEFINE a == ws_write_timeout
             b == tcp_write_timeout
  <1>1. a \in Nat /\ b \in Nat
    BY Constants
  <1>2. \E x \in {a, b} : \A y \in {a, b} : x >= y
    <2>1. CASE a >= b
      BY <1>1, <2>1
    <2>2. CASE ~(a >= b)
      BY <1>1, <2>2
    <2> QED
      BY <2>1, <2>2
  <1> QED
    BY <1>1, <1>2 DEF Patience, Max

\* The clocks saturate past every bound that a property compares them with.
LEMMA AgeCapIs == AgeCap \in Nat /\ AgeCap = max_lifetime + Patience + 1
  BY Constants, PatienceBounds DEF AgeCap, Patience

-----------------------------------------------------------------------------
(* Types. *)

\* What data and control build.
LEMMA Messages ==
    /\ \A bytes \in Seq(Nat) : data(bytes) \in Message /\ data(bytes).data = bytes
                               /\ data(bytes).kind = "data"
    /\ \A k \in {"ping", "pong", "close"} : control(k) \in Message /\ control(k).data = <<>>
                                           /\ control(k).kind = k
  BY DEF data, control, Message

\* What becomes of the locals that the next await decides.
Onward ==
    /\ pc' \in Phases /\ timer' \in Nat /\ wsOut' \in Seq(Message)
    /\ why' \in {"none", "verdict", "close", "eof", "other"}

\* Wherever the task goes next, pc, timer, the sink and the reason keep their types.
LEMMA OnwardTyped ==
    ASSUME Typed
    PROVE  /\ Loop => Onward /\ clocksUnchanged
           /\ \A p \in Phases, t \in Nat : Await(p, t) => Onward /\ clocksUnchanged
           /\ \A p \in Phases, m \in Message, t \in Nat : Send(p, m, t) => Onward /\ clocksUnchanged
           /\ \A r \in {"verdict", "close", "eof", "other"} :
                 /\ BreakLoop(r) => Onward /\ clocksUnchanged
                 /\ Reject(r) => Onward /\ clocksUnchanged
           /\ \A n \in Nat : StartRelay(n) => Onward /\ relayAge' = 0 /\ probed' = n
           /\ Finish => Onward /\ clocksUnchanged
  <1> USE Constants
  <1>1. {"relay", "close_send", "reject_ws", "done"} \subseteq Phases
    BY DEF Phases, Relaying, Closing
  <1>2. \A m \in Message : Append(wsOut, m) \in Seq(Message)
    BY DEF Typed
  <1>3. control("close") \in Message
    BY Messages
  <1>4. Loop => Onward /\ clocksUnchanged
    BY <1>1 DEF Typed, Onward, Loop
  <1>5. \A p \in Phases, t \in Nat : Await(p, t) => Onward /\ clocksUnchanged
    BY DEF Typed, Onward, Await
  <1>6. \A p \in Phases, m \in Message, t \in Nat : Send(p, m, t) => Onward /\ clocksUnchanged
    BY <1>2 DEF Typed, Onward, Send
  <1>7. \A r \in {"verdict", "close", "eof", "other"} :
           /\ BreakLoop(r) => Onward /\ clocksUnchanged
           /\ Reject(r) => Onward /\ clocksUnchanged
    <2> TAKE r \in {"verdict", "close", "eof", "other"}
    <2>1. Append(wsOut, control("close")) \in Seq(Message)
      BY <1>2, <1>3
    <2>2. BreakLoop(r) => Onward /\ clocksUnchanged
      BY <1>1, <2>1 DEF Onward, BreakLoop
    <2>3. Reject(r) => Onward /\ clocksUnchanged
      BY <1>1, <2>1 DEF Onward, Reject
    <2> QED
      BY <2>2, <2>3
  <1>8. \A n \in Nat : StartRelay(n) => Onward /\ relayAge' = 0 /\ probed' = n
    BY <1>1 DEF Typed, Onward, StartRelay
  <1>9. Finish => Onward /\ clocksUnchanged
    BY <1>1 DEF Typed, Onward, Finish
  <1> QED
    BY <1>4, <1>5, <1>6, <1>7, <1>8, <1>9

\* The rest of the type, which no await decides.
Rest ==
    /\ buf' \in Seq(Nat) /\ tcpIn' \in Seq(Nat) /\ up' \in Seq(Nat)
    /\ wsIn' \in Seq(Message)
    /\ conn_bytes' \in Nat /\ probed' \in Nat /\ relayAge' \in 0 .. AgeCap
    /\ gotClose' \in BOOLEAN

\* A step of the task keeps the types if both halves do.
LEMMA TypedFrom ==
    ASSUME Typed, Onward, Rest, UNCHANGED <<fixed, peers, age>>
    PROVE  Typed'
  <1>1. UNCHANGED <<kind, hello, stream, client, upstream, sentUp, sentDown, saidClose, age>>
    BY DEF fixed, peers
  <1>2. /\ kind' \in ProbeKinds /\ hello' \in Hellos \cup {"valid"} /\ stream' \in Streams
        /\ client' \in {"reading", "stalled", "gone"}
        /\ upstream' \in {"reading", "stalled", "finished", "gone"}
        /\ sentUp' \in Nat /\ sentDown' \in Nat /\ saidClose' \in BOOLEAN /\ age' \in 0 .. AgeCap
    BY <1>1 DEF Typed
  <1> QED
    BY <1>2 DEF Typed, Onward, Rest

\* Tail and SubSeq leave sequences of what they were of.
LEMMA Taken ==
    ASSUME Typed
    PROVE  /\ wsIn # <<>> => Head(wsIn) \in Message /\ Tail(wsIn) \in Seq(Message)
           /\ \A n \in 1 .. Min({ReadMax, Len(tcpIn)}) :
                 /\ n \in 1 .. Len(tcpIn) /\ n <= ReadMax
                 /\ SubSeq(tcpIn, 1, n) \in Seq(Nat) /\ Len(SubSeq(tcpIn, 1, n)) = n
                 /\ SubSeq(tcpIn, n + 1, Len(tcpIn)) \in Seq(Nat)
  <1>1. wsIn # <<>> => Head(wsIn) \in Message /\ Tail(wsIn) \in Seq(Message)
    BY DEF Typed
  <1>2. Len(tcpIn) \in Nat /\ tcpIn \in Seq(Nat) /\ ReadMax \in Nat
    BY Constants DEF Typed
  <1>3. ASSUME NEW n \in 1 .. Min({ReadMax, Len(tcpIn)})
        PROVE  n \in 1 .. Len(tcpIn) /\ n <= ReadMax
    <2> DEFINE m == Min({ReadMax, Len(tcpIn)})
    <2>1. m \in {ReadMax, Len(tcpIn)} /\ m <= ReadMax /\ m <= Len(tcpIn)
      <3>1. ReadMax \in Int /\ Len(tcpIn) \in Int
        BY <1>2
      <3> QED
        BY <3>1, MinOfTwo, Zenon
    <2>2. n \in 1 .. m
      OBVIOUS
    <2> HIDE DEF m
    <2> QED
      BY <1>2, <2>1, <2>2
  <1>4. ASSUME NEW n \in 1 .. Len(tcpIn)
        PROVE  /\ SubSeq(tcpIn, 1, n) \in Seq(Nat) /\ Len(SubSeq(tcpIn, 1, n)) = n
               /\ SubSeq(tcpIn, n + 1, Len(tcpIn)) \in Seq(Nat)
    <2>1. \A i \in 1 .. n : tcpIn[i] \in Nat
      BY <1>2, <1>4, ElementOfSeq
    <2>2. \A i \in n + 1 .. Len(tcpIn) : tcpIn[i] \in Nat
      BY <1>2, <1>4, ElementOfSeq
    <2> QED
      BY <1>2, <1>4, <2>1, <2>2, SubSeqProperties
  <1> QED
    BY <1>1, <1>3, <1>4

\* A session begins well typed.
LEMMA TypedInit == Init => Typed
  <1> SUFFICES ASSUME Init PROVE Typed
    OBVIOUS
  <1> USE Constants
  <1>1. kind \in ProbeKinds /\ hello \in Hellos \cup {"valid"}
    BY DEF Init
  <1>2. stream \in Streams
    <2>1. CASE kind = "Greeting"
      BY <2>1 DEF Init
    <2>2. CASE kind # "Greeting"
      <3>1. (CHOOSE s \in Streams : TRUE) \in Streams
        BY Constants
      <3> QED
        BY <2>2, <3>1 DEF Init
    <2> QED
      BY <2>1, <2>2
  <1>3. pc \in Phases
    BY <1>1 DEF Init, Phases, Probing, Relaying
  <1>4. timer \in Nat
    BY DEF Init
  <1>5. relayAge \in 0 .. AgeCap /\ age \in 0 .. AgeCap
    BY AgeCapIs DEF Init
  <1>6. /\ buf \in Seq(Nat) /\ tcpIn \in Seq(Nat) /\ up \in Seq(Nat)
        /\ wsIn \in Seq(Message) /\ wsOut \in Seq(Message)
    BY EmptySeq DEF Init
  <1>7. /\ conn_bytes \in Nat /\ sentUp \in Nat /\ sentDown \in Nat /\ probed \in Nat
        /\ client \in {"reading", "stalled", "gone"}
        /\ upstream \in {"reading", "stalled", "finished", "gone"}
        /\ saidClose \in BOOLEAN /\ gotClose \in BOOLEAN
        /\ why \in {"none", "verdict", "close", "eof", "other"}
    BY DEF Init
  <1> QED
    BY <1>1, <1>2, <1>3, <1>4, <1>5, <1>6, <1>7 DEF Typed

\* The names of the awaits.
LEMMA PhasesAre ==
    Phases = {"tls_wait", "tls_pong", "hello_write", "greet_wait", "greet_send",
              "relay", "tcp_write", "ws_send", "close_send", "close_ws", "reject_ws", "done"}
  BY DEF Phases, Probing, Relaying, Closing

\* The probes keep the types.
LEMMA TypedProbe ==
    ASSUME Typed, TlsRead \/ TlsFails \/ GreetRead \/ GreetFails
    PROVE  Typed'
  <1> USE Constants, PhasesAre, OnwardTyped, Messages, Taken
  <1>1. CASE TlsRead
    <2> DEFINE m == Head(wsIn)
               got == IF m.kind = "data" THEN buf \o m.data ELSE buf
    <2>1. m \in Message /\ m.data \in Seq(Nat) /\ Tail(wsIn) \in Seq(Message) /\ buf \in Seq(Nat)
      BY <1>1 DEF TlsRead, Message, Typed
    <2>2. got \in Seq(Nat)
      BY <2>1, ConcatProperties
    <2>3. Onward /\ clocksUnchanged
      BY <1>1 DEF TlsRead
    <2>4. Rest
      BY <1>1, <2>1, <2>2, <2>3 DEF TlsRead, Rest, Typed, TakeWs, clocksUnchanged, received
    <2> QED
      BY <1>1, <2>3, <2>4, TypedFrom DEF TlsRead
  <1>2. CASE TlsFails
    <2>1. Onward /\ clocksUnchanged
      BY <1>2 DEF TlsFails
    <2>2. Rest
      BY <1>2, <2>1 DEF TlsFails, Rest, Typed, inputs, clocksUnchanged, received
    <2> QED
      BY <1>2, <2>1, <2>2, TypedFrom DEF TlsFails
  <1>3. CASE GreetRead
    <2>1. PICK n \in 1 .. Min({ReadMax, Len(tcpIn)}) :
             LET greet == buf \o SubSeq(tcpIn, 1, n) IN
             /\ TakeTcp(n)
             /\ buf' = greet
             /\ IF ~(greeting_complete(greet) \/ Len(greet) >= MaxGreeting)
                THEN Await("greet_wait", tcp_connect_timeout)
                ELSE \/ validate_greeting(greet) /\ Send("greet_send", data(greet), ws_write_timeout)
                     \/ ~validate_greeting(greet) /\ Reject("verdict")
      BY <1>3 DEF GreetRead
    <2> DEFINE greet == buf \o SubSeq(tcpIn, 1, n)
    <2>2. SubSeq(tcpIn, 1, n) \in Seq(Nat) /\ SubSeq(tcpIn, n + 1, Len(tcpIn)) \in Seq(Nat)
          /\ buf \in Seq(Nat)
      BY DEF Typed
    <2>3. greet \in Seq(Nat)
      BY <2>2, ConcatProperties
    <2>4. data(greet) \in Message
      BY <2>3
    <2> HIDE DEF greet
    <2>5. Onward /\ clocksUnchanged
      BY <2>1, <2>4 DEF greet
    <2>6. Rest
      BY <1>3, <2>1, <2>2, <2>3, <2>5
         DEF GreetRead, Rest, Typed, TakeTcp, clocksUnchanged, received, greet
    <2> QED
      BY <1>3, <2>5, <2>6, TypedFrom DEF GreetRead
  <1>4. CASE GreetFails
    <2>1. Onward /\ clocksUnchanged
      BY <1>4 DEF GreetFails
    <2>2. Rest
      BY <1>4, <2>1 DEF GreetFails, Rest, Typed, inputs, clocksUnchanged, received
    <2> QED
      BY <1>4, <2>1, <2>2, TypedFrom DEF GreetFails
  <1> QED
    BY <1>1, <1>2, <1>3, <1>4

\* The relay loop keeps the types.
LEMMA TypedRelay ==
    ASSUME Typed, LifetimeReached \/ ReadWs \/ WsLost \/ IdlePing \/ ReadTcp \/ TcpEnds
    PROVE  Typed'
  <1> USE Constants, PhasesAre, OnwardTyped, Messages, Taken
  <1>1. CASE LifetimeReached \/ WsLost \/ IdlePing \/ TcpEnds
    <2>1. Onward /\ clocksUnchanged
      BY <1>1 DEF LifetimeReached, WsLost, IdlePing, TcpEnds
    <2>2. UNCHANGED <<buf, conn_bytes, fixed, inputs, peers, received, age>>
      BY <1>1 DEF LifetimeReached, WsLost, IdlePing, TcpEnds
    <2>3. Rest
      BY <2>1, <2>2 DEF Rest, Typed, inputs, clocksUnchanged, received
    <2> QED
      BY <2>1, <2>2, <2>3, TypedFrom
  <1>2. CASE ReadWs
    <2> DEFINE m == Head(wsIn)
    <2>0. m \in Message /\ m.data \in Seq(Nat) /\ Tail(wsIn) \in Seq(Message)
      BY <1>2 DEF ReadWs, Message, Typed
    <2>1. m \in Message /\ m.data \in Seq(Nat) /\ Tail(wsIn) \in Seq(Message) /\ Len(m.data) \in Nat
      BY <2>0, LenProperties
    <2> HIDE DEF m
    <2>2. Onward /\ clocksUnchanged
      BY <1>2 DEF ReadWs, Charge
    <2>3. buf' \in Seq(Nat) /\ conn_bytes' \in Nat
      <3>1. \/ buf' = m.data /\ conn_bytes' = conn_bytes + Len(m.data)
            \/ UNCHANGED <<buf, conn_bytes>>
        BY <1>2 DEF ReadWs, Charge, m
      <3> QED
        BY <2>1, <3>1, SMTT(40) DEF Typed
    <2>4. Rest
      BY <1>2, <2>1, <2>2, <2>3 DEF ReadWs, Rest, Typed, TakeWs, clocksUnchanged, received
    <2> QED
      BY <1>2, <2>2, <2>4, TypedFrom DEF ReadWs
  <1>3. CASE ReadTcp
    <2>1. PICK n \in 1 .. Min({ReadMax, Len(tcpIn)}) :
             /\ Charge(n, Send("ws_send", data(SubSeq(tcpIn, 1, n)), ws_write_timeout))
             /\ TakeTcp(n)
      BY <1>3 DEF ReadTcp
    <2>2. SubSeq(tcpIn, 1, n) \in Seq(Nat) /\ SubSeq(tcpIn, n + 1, Len(tcpIn)) \in Seq(Nat)
          /\ n \in Nat
      OBVIOUS
    <2>3. data(SubSeq(tcpIn, 1, n)) \in Message
      BY <2>2
    <2>4. Onward /\ clocksUnchanged
      BY <2>1, <2>3 DEF Charge
    <2>5. conn_bytes' \in Nat
      BY <2>1, <2>2 DEF Charge, Typed
    <2>6. Rest
      BY <1>3, <2>1, <2>2, <2>4, <2>5 DEF ReadTcp, Rest, Typed, TakeTcp, clocksUnchanged, received
    <2> QED
      BY <1>3, <2>4, <2>6, TypedFrom DEF ReadTcp
  <1> QED
    BY <1>1, <1>2, <1>3

\* Writes and flushes keep the types.
LEMMA TypedWrite ==
    ASSUME Typed, WriteDone \/ WriteFails \/ FlushDone \/ FlushFails
    PROVE  Typed'
  <1> USE Constants, PhasesAre, OnwardTyped, Messages, Taken
  <1>0. buf \in Seq(Nat) /\ up \in Seq(Nat) /\ Len(buf) \in Nat /\ up \o buf \in Seq(Nat)
    BY ConcatProperties, LenProperties DEF Typed
  <1>1. CASE WriteDone
    <2>1. Onward /\ (relayAge' = 0 \/ relayAge' = relayAge) /\ (probed' = Len(buf) \/ probed' = probed)
      BY <1>0, <1>1 DEF WriteDone, clocksUnchanged
    <2>2. relayAge' \in 0 .. AgeCap /\ probed' \in Nat
      BY <1>0, <2>1, AgeCapIs, SMTT(40) DEF Typed
    <2>3. Rest
      BY <1>0, <1>1, <2>2, EmptySeq DEF WriteDone, Rest, Typed, inputs
    <2> QED
      BY <1>1, <2>1, <2>3, TypedFrom DEF WriteDone
  <1>2. CASE WriteFails
    <2>1. Onward /\ clocksUnchanged
      BY <1>2 DEF WriteFails
    <2>2. PICK n \in 0 .. Len(buf) - 1 : up' = up \o SubSeq(buf, 1, n)
      BY <1>2 DEF WriteFails
    <2>3. SubSeq(buf, 1, n) \in Seq(Nat)
      <3>1. \A i \in 1 .. n : buf[i] \in Nat
        BY <1>0, ElementOfSeq
      <3> QED
        BY <1>0, <3>1, SubSeqProperties
    <2>4. up' \in Seq(Nat)
      BY <1>0, <2>2, <2>3, ConcatProperties
    <2>5. Rest
      BY <1>2, <2>1, <2>4, EmptySeq DEF WriteFails, Rest, Typed, inputs, clocksUnchanged
    <2> QED
      BY <1>2, <2>1, <2>5, TypedFrom DEF WriteFails
  <1>3. CASE FlushDone
    <2>1. pc' \in Phases /\ timer' \in Nat
      BY <1>3 DEF FlushDone, Flushing
    <2>2. Onward
      BY <1>3, <2>1, EmptySeq DEF FlushDone, Onward, Typed
    <2>3. relayAge' \in 0 .. AgeCap /\ probed' \in Nat /\ buf' \in Seq(Nat)
      BY <1>0, <1>3, EmptySeq, AgeCapIs, SMTT(40) DEF FlushDone, Typed
    <2>4. gotClose' \in BOOLEAN
      BY <1>3 DEF FlushDone
    <2>5. Rest
      BY <1>3, <2>3, <2>4 DEF FlushDone, Rest, Typed, inputs
    <2> QED
      BY <1>3, <2>2, <2>5, TypedFrom DEF FlushDone
  <1>4. CASE FlushFails
    <2>1. Onward /\ clocksUnchanged
      BY <1>4 DEF FlushFails
    <2>2. Rest
      BY <1>4, <2>1 DEF FlushFails, Rest, Typed, inputs, clocksUnchanged, received
    <2> QED
      BY <1>4, <2>1, <2>2, TypedFrom DEF FlushFails
  <1> QED
    BY <1>1, <1>2, <1>3, <1>4

\* The clock keeps the types, and relayAge goes up by one at most.
LEMMA TickTyped ==
    ASSUME Typed, Tick
    PROVE  /\ Typed' /\ timer' \in Nat /\ relayAge' \in 0 .. AgeCap
           /\ relayAge' <= relayAge + 1
           /\ relayAge + 1 <= AgeCap => relayAge' = relayAge + 1
  <1>1. AgeCap \in Nat /\ relayAge \in 0 .. AgeCap /\ age \in 0 .. AgeCap /\ timer \in Nat
    BY AgeCapIs DEF Typed
  <1>2. relayAge' \in {relayAge + 1, AgeCap} /\ relayAge' <= relayAge + 1 /\ relayAge' <= AgeCap
    <2>1. relayAge + 1 \in Int /\ AgeCap \in Int
      BY <1>1
    <2>2. relayAge' = Min({relayAge + 1, AgeCap})
      BY DEF Tick
    <2> QED
      BY <2>1, <2>2, MinOfTwo, Zenon
  <1>3. age' \in {age + 1, AgeCap} /\ age' <= AgeCap
    <2>1. age + 1 \in Int /\ AgeCap \in Int
      BY <1>1
    <2>2. age' = Min({age + 1, AgeCap})
      BY DEF Tick
    <2> QED
      BY <2>1, <2>2, MinOfTwo, Zenon
  <1>4. relayAge' \in 0 .. AgeCap /\ age' \in 0 .. AgeCap
    BY <1>1, <1>2, <1>3
  <1>5. timer' \in Nat
    BY <1>1 DEF Tick
  <1>6. Typed'
    BY <1>4, <1>5 DEF Tick, Typed, fixed, inputs, peers, received
  <1> QED
    BY <1>1, <1>2, <1>4, <1>5, <1>6

\* The client and the upstream keep the types.
LEMMA TypedPeers ==
    ASSUME Typed, Peers
    PROVE  Typed'
  <1> USE Constants
  <1>1. CASE ClientSends
    <2>1. wsIn' \in Seq(Message) /\ sentUp' \in Nat /\ saidClose' \in BOOLEAN
      <3>1. CASE \E n \in MsgSizes :
                    /\ sentUp + n <= MaxUp
                    /\ wsIn' = Append(wsIn, data([i \in 1 .. n |-> sentUp + i]))
                    /\ sentUp' = sentUp + n
                    /\ UNCHANGED saidClose
        <4>1. PICK n \in MsgSizes : /\ wsIn' = Append(wsIn, data([i \in 1 .. n |-> sentUp + i]))
                                    /\ sentUp' = sentUp + n
                                    /\ UNCHANGED saidClose
          BY <3>1
        <4>2. n \in Nat /\ sentUp \in Nat /\ saidClose \in BOOLEAN
          BY DEF Typed
        <4>3. [i \in 1 .. n |-> sentUp + i] \in Seq(Nat)
          BY <4>2
        <4>4. data([i \in 1 .. n |-> sentUp + i]) \in Message
          BY <4>3, Messages
        <4>5. wsIn' \in Seq(Message)
          BY <4>1, <4>4, AppendProperties DEF Typed
        <4> QED
          BY <4>1, <4>2, <4>5
      <3>2. CASE /\ \E k \in {"ping", "pong", "close"} :
                       /\ wsIn' = Append(wsIn, control(k))
                       /\ saidClose' = (k = "close")
                 /\ UNCHANGED sentUp
        BY <3>2, Messages, AppendProperties DEF Typed
      <3> QED
        BY <1>1, <3>1, <3>2 DEF ClientSends
    <2> QED
      BY <1>1, <2>1 DEF ClientSends, Typed, task, fixed, received
  <1>2. CASE UpstreamSends
    <2>1. sentDown' \in Nat /\ tcpIn' \in Seq(Nat)
      BY <1>2 DEF UpstreamSends, Typed
    <2> QED
      BY <1>2, <2>1 DEF UpstreamSends, Typed, task, fixed, received
  <1>3. ASSUME NEW how \in {"reading", "stalled", "gone"}, ClientTurns(how)
        PROVE  Typed'
    BY <1>3 DEF ClientTurns, Typed, task, fixed, inputs, received
  <1>4. ASSUME NEW how \in {"reading", "stalled", "finished", "gone"}, UpstreamTurns(how)
        PROVE  Typed'
    BY <1>4 DEF UpstreamTurns, Typed, task, fixed, inputs, received
  <1> QED
    BY <1>1, <1>2, <1>3, <1>4 DEF Peers

\* A stuttering step keeps the types.
LEMMA TypedStutter ==
    ASSUME Typed, UNCHANGED vars
    PROVE  Typed'
  BY DEF Typed, vars, task, fixed, inputs, peers, received

\* Every step keeps the types.
LEMMA TypedNext == Typed /\ [Next]_vars => Typed'
  BY TypedProbe, TypedRelay, TypedWrite, TickTyped, TypedPeers, TypedStutter DEF Next, Server

-----------------------------------------------------------------------------
(* The deadline. *)

\* A write that is under way has the rest of its own timeout.
InTime ==
    max_lifetime # 0 =>
       /\ pc = "relay" => relayAge <= max_lifetime + Patience
       /\ pc \in {"tcp_write", "ws_send"} => relayAge + timer <= max_lifetime + Patience

\* InTime is the bound on the relay.
LEMMA InTimeImplies == Typed /\ InTime => RelayWithinLifetime
  BY Constants, PatienceBounds, AgeCapIs, SMTT(40)
     DEF Typed, InTime, RelayWithinLifetime, Relaying, Patience

\* A session begins in time.
LEMMA InTimeInit == Init => InTime
  BY Constants, PatienceBounds DEF Init, InTime

\* Where the task goes from the relay, it goes before the deadline.
LEMMA LeavesInTime ==
    ASSUME Typed, pc = "relay", max_lifetime # 0 => relayAge < max_lifetime
    PROVE  /\ Loop => InTime'
           /\ Await("tcp_write", tcp_write_timeout) => InTime'
           /\ \A m : Send("ws_send", m, ws_write_timeout) => InTime'
           /\ \A r : BreakLoop(r) => InTime'
  <1>1. /\ relayAge \in Nat /\ max_lifetime \in Nat /\ Patience \in Nat
        /\ tcp_write_timeout \in Nat /\ tcp_write_timeout <= Patience
        /\ ws_write_timeout \in Nat /\ ws_write_timeout <= Patience
    BY Constants, PatienceBounds, AgeCapIs DEF Typed
  <1>2. Patience' = Patience
    BY DEF Patience
  <1> QED
    BY <1>1, <1>2 DEF Loop, Await, Send, BreakLoop, clocksUnchanged, InTime

\* Every step of the task is in time.
LEMMA InTimeServer ==
    ASSUME Typed, InTime, Server
    PROVE  InTime'
  <1>1. /\ relayAge \in Nat /\ timer \in Nat /\ max_lifetime \in Nat /\ Patience \in Nat
        /\ Patience' = Patience
    BY Constants, PatienceBounds, AgeCapIs DEF Typed, Patience
  <1>2. CASE TlsRead \/ TlsFails \/ GreetRead \/ GreetFails
    <2>1. pc' \notin Relaying
      BY <1>2 DEF TlsRead, TlsFails, GreetRead, GreetFails, Await, Send, Reject, Relaying
    <2> QED
      BY <2>1 DEF InTime, Relaying
  <1>3. CASE LifetimeReached
    BY <1>3 DEF LifetimeReached, BreakLoop, InTime
  <1>4. CASE ReadWs \/ WsLost \/ IdlePing \/ ReadTcp \/ TcpEnds
    <2>1. pc = "relay" /\ (max_lifetime # 0 => relayAge < max_lifetime)
      BY <1>1, <1>4 DEF ReadWs, WsLost, IdlePing, ReadTcp, TcpEnds, PollTcp, InLoop, deadline
    <2>2. CASE ReadWs
      BY <2>1, <2>2, LeavesInTime DEF ReadWs, Charge
    <2>3. CASE WsLost \/ IdlePing \/ TcpEnds
      BY <2>1, <2>3, LeavesInTime DEF WsLost, IdlePing, TcpEnds
    <2>4. CASE ReadTcp
      BY <2>1, <2>4, LeavesInTime DEF ReadTcp, Charge
    <2> QED
      BY <1>4, <2>2, <2>3, <2>4
  <1>5. CASE WriteDone \/ WriteFails
    BY <1>1, <1>5 DEF WriteDone, WriteFails, Writing, StartRelay, Loop, Reject, BreakLoop,
                      clocksUnchanged, InTime
  <1>6. CASE FlushDone
    BY <1>1, <1>6 DEF FlushDone, Flushing, InTime
  <1>7. CASE FlushFails
    <2>1. pc' \notin Relaying
      BY <1>7 DEF FlushFails, Await, Reject, BreakLoop, Finish, Relaying
    <2> QED
      BY <2>1 DEF InTime, Relaying
  <1> QED
    BY <1>2, <1>3, <1>4, <1>5, <1>6, <1>7 DEF Server

\* Every step is in time.
LEMMA InTimeNext == Typed /\ InTime /\ [Next]_vars => InTime'
  <1> SUFFICES ASSUME Typed, InTime, [Next]_vars PROVE InTime'
    OBVIOUS
  <1>1. /\ relayAge \in Nat /\ timer \in Nat /\ max_lifetime \in Nat /\ Patience \in Nat
        /\ Patience' = Patience
    BY Constants, PatienceBounds, AgeCapIs DEF Typed, Patience
  <1>2. CASE Server
    BY <1>2, InTimeServer
  <1>3. CASE Tick
    <2>1. relayAge' \in Nat /\ relayAge' <= relayAge + 1
      BY <1>3, TickTyped, AgeCapIs
    <2>2. pc' = pc /\ (pc = "relay" => ~deadline) /\ (pc \in Timed => timer > 0 /\ timer' = timer - 1)
      BY <1>3 DEF Tick
    <2> QED
      BY <1>1, <2>1, <2>2 DEF InTime, deadline, Timed
  <1>4. CASE Peers \/ UNCHANGED vars
    <2>1. UNCHANGED task
      BY <1>4 DEF Peers, ClientSends, UpstreamSends, ClientTurns, UpstreamTurns, vars
    <2> QED
      BY <1>1, <2>1 DEF InTime, task
  <1> QED
    BY <1>2, <1>3, <1>4 DEF Next

-----------------------------------------------------------------------------
(* The goodbye. *)

\* A Close is in the sink.
Parting == \E i \in DOMAIN wsOut : wsOut[i].kind = "close"

Goodbye ==
    /\ pc \in Closing => gotClose \/ client = "gone" \/ Parting
    /\ pc = "done" => gotClose \/ client = "gone"

\* A session does not begin with its end.
LEMMA GoodbyeInit == Init => Goodbye
  <1> SUFFICES ASSUME Init PROVE Goodbye
    OBVIOUS
  <1>1. pc \in {"tls_wait", "greet_wait", "relay"}
    BY Constants DEF Init
  <1> QED
    BY <1>1 DEF Goodbye, Closing

\* Whoever leaves the loop or rejects puts a Close into the sink.
LEMMA GoodbyeSent ==
    ASSUME Typed, NEW r, BreakLoop(r) \/ Reject(r)
    PROVE  Goodbye'
  <1>1. wsOut \in Seq(Message) /\ control("close") \in Message /\ control("close").kind = "close"
    BY Messages DEF Typed
  <1>2. wsOut' = Append(wsOut, control("close")) /\ pc' \in Closing
    BY DEF BreakLoop, Reject, Closing
  <1>3. wsOut' \in Seq(Message) /\ Len(wsOut') = Len(wsOut) + 1 /\ Len(wsOut) \in Nat
        /\ wsOut'[Len(wsOut) + 1] = control("close")
    BY <1>1, <1>2, AppendProperties, LenProperties
  <1>4. Len(wsOut) + 1 \in DOMAIN wsOut'
    BY <1>3
  <1>5. Parting'
    BY <1>1, <1>3, <1>4 DEF Parting
  <1> QED
    BY <1>2, <1>5 DEF Goodbye, Closing

\* The task does not finish before the Close is out or the client gone.
LEMMA GoodbyeServer ==
    ASSUME Typed, Goodbye, Server
    PROVE  Goodbye'
  <1>0. ASSUME pc' \notin Closing \cup {"done"} PROVE Goodbye'
    BY <1>0 DEF Goodbye
  <1>1. CASE TlsRead \/ TlsFails
    BY <1>0, <1>1, GoodbyeSent DEF TlsRead, TlsFails, Await, Send, Closing
  <1>2. CASE GreetRead \/ GreetFails
    BY <1>0, <1>2, GoodbyeSent DEF GreetRead, GreetFails, Await, Send, Closing
  <1>3. CASE LifetimeReached \/ WsLost \/ TcpEnds
    BY <1>3, GoodbyeSent DEF LifetimeReached, WsLost, TcpEnds
  <1>4. CASE ReadWs
    BY <1>0, <1>4, GoodbyeSent DEF ReadWs, Charge, Await, Send, Loop, Closing
  <1>5. CASE IdlePing \/ ReadTcp
    BY <1>0, <1>5, GoodbyeSent DEF IdlePing, ReadTcp, Charge, Send, Closing
  <1>6. CASE WriteDone
    BY <1>0, <1>6 DEF WriteDone, StartRelay, Loop, Closing
  <1>7. CASE WriteFails
    BY <1>7, GoodbyeSent DEF WriteFails
  <1>8. CASE FlushDone
    <2>1. CASE pc \in {"tls_pong", "greet_send", "ws_send"}
      BY <1>0, <1>8, <2>1 DEF FlushDone, Closing
    <2>2. CASE pc \in {"close_send", "close_ws", "reject_ws"}
      <3>1. gotClose \/ Parting
        BY <1>8, <2>2 DEF FlushDone, Goodbye, Closing
      <3>2. gotClose'
        BY <1>8, <3>1 DEF FlushDone, Parting
      <3> QED
        BY <3>2 DEF Goodbye
    <2> QED
      BY <1>8, <2>1, <2>2 DEF FlushDone, Flushing
  <1>9. CASE FlushFails
    <2>1. CASE pc = "tls_pong"
      BY <1>0, <1>9, <2>1 DEF FlushFails, Await, Closing
    <2>2. CASE pc \in {"greet_send", "ws_send"}
      BY <1>9, <2>2, GoodbyeSent DEF FlushFails
    <2>3. CASE pc \in {"close_send", "close_ws", "reject_ws"}
      <3>1. UNCHANGED <<client, gotClose, wsOut>>
        BY <1>9, <2>3 DEF FlushFails, Await, Finish, peers, received
      <3>2. pc = "close_send" \/ client = "gone"
        BY <1>9, <2>3 DEF FlushFails, Timed
      <3>3. pc = "close_send" => pc' = "close_ws"
        BY <1>9 DEF FlushFails, Await
      <3>4. gotClose \/ client = "gone" \/ Parting
        BY <2>3 DEF Goodbye, Closing
      <3> QED
        BY <3>1, <3>2, <3>3, <3>4 DEF Goodbye, Parting
    <2> QED
      BY <1>9, <2>1, <2>2, <2>3 DEF FlushFails, Flushing
  <1> QED
    BY <1>1, <1>2, <1>3, <1>4, <1>5, <1>6, <1>7, <1>8, <1>9 DEF Server

\* Every step keeps the Close that was promised.
LEMMA GoodbyeNext == Typed /\ Goodbye /\ [Next]_vars => Goodbye'
  <1> SUFFICES ASSUME Typed, Goodbye, [Next]_vars PROVE Goodbye'
    OBVIOUS
  <1>1. CASE Server
    BY <1>1, GoodbyeServer
  <1>2. CASE Tick \/ Peers \/ UNCHANGED vars
    <2>1. UNCHANGED <<pc, wsOut, gotClose>> /\ (client = "gone" => client' = "gone")
      BY <1>2 DEF Tick, Peers, ClientSends, UpstreamSends, ClientTurns, UpstreamTurns, vars,
                  task, peers, received
    <2> QED
      BY <2>1 DEF Goodbye, Parting
  <1> QED
    BY <1>1, <1>2 DEF Next

-----------------------------------------------------------------------------
(* The client's bytes. *)

Over == Closing \cup {"done"}

\* Taken from the client and not yet written.
Held == IF pc \in {"tls_wait", "tls_pong", "hello_write", "tcp_write"} THEN buf ELSE <<>>

\* The upstream has the first bytes; until the end, what is held and then what
\* is queued follow them up to the last byte sent.
Upload ==
    /\ Run(up, 0, Len(up)) /\ Len(up) <= sentUp
    /\ pc \notin Over =>
          /\ Run(Held, Len(up), Len(up) + Len(Held))
          /\ Queued(wsIn, Len(up) + Len(Held), sentUp)

\* Nothing is sent at first.
LEMMA UploadInit == Init => Upload
  <1> SUFFICES ASSUME Init PROVE Upload
    OBVIOUS
  <1>1. /\ up = <<>> /\ wsIn = <<>> /\ sentUp = 0 /\ buf = <<>> /\ Held = <<>>
        /\ Len(up) = 0 /\ Len(Held) = 0
    BY EmptySeq DEF Init, Held
  <1>2. Run(<<>>, 0, 0) /\ Queued(<<>>, 0, 0)
    BY RunEmpty, QueuedEmpty
  <1> QED
    BY <1>1, <1>2 DEF Upload

\* At the end the upstream keeps what it has.
LEMMA UploadOver ==
    ASSUME Upload, pc' \in Over, UNCHANGED <<up, sentUp>>
    PROVE  Upload'
  BY DEF Upload, Over, Closing

\* A step that moves none of the client's bytes.
LEMMA UploadSame ==
    ASSUME Upload, pc' \notin Over => pc \notin Over, Held' = Held,
           UNCHANGED <<up, sentUp, wsIn>>
    PROVE  Upload'
  BY DEF Upload, Over, Closing

\* The first message is taken: data is added to what is held, nothing else is.
LEMMA UploadTaken ==
    ASSUME Typed, Upload, pc \notin Over, wsIn # <<>>, wsIn' = Tail(wsIn), UNCHANGED <<up, sentUp>>,
           pc' \notin Over => Held' = IF Head(wsIn).kind = "data" THEN Held \o Head(wsIn).data ELSE Held
    PROVE  Upload'
  <1> DEFINE m == Head(wsIn)
             a == Len(up) + Len(Held)
  <1>1. wsIn \in Seq(Message) /\ m \in Message
    BY Taken DEF Typed
  <1>2. m.data \in Seq(Nat) /\ (m.kind # "data" => m.data = <<>>)
    BY <1>1 DEF Message
  <1>3. Run(Held, Len(up), a) /\ Queued(wsIn, a, sentUp)
    BY DEF Upload
  <1> HIDE DEF m, a
  <1>4. PICK c \in Nat : Run(m.data, a, c) /\ Queued(Tail(wsIn), c, sentUp)
    BY <1>1, <1>3, QueuedHead DEF m
  <1>5. CASE pc' \in Over
    BY <1>5, UploadOver
  <1>6. CASE pc' \notin Over /\ m.kind = "data"
    <2>1. Run(Held \o m.data, Len(up), c)
      BY <1>3, <1>4, RunConcat
    <2>2. Held' = Held \o m.data
      BY <1>6 DEF m
    <2>3. c = Len(up) + Len(Held')
      BY <2>1, <2>2, RunBounds
    <2> QED
      BY <1>4, <1>6, <2>1, <2>2, <2>3 DEF Upload
  <1>7. CASE pc' \notin Over /\ m.kind # "data"
    <2>1. Held' = Held
      BY <1>7 DEF m
    <2>2. c = a
      <3>1. a \in Nat /\ c = a + Len(m.data)
        BY <1>4, RunBounds
      <3>2. Len(m.data) = 0
        BY <1>2, <1>7, EmptySeq
      <3> QED
        BY <3>1, <3>2
    <2> QED
      BY <1>3, <1>4, <1>7, <2>1, <2>2 DEF Upload, a
  <1> QED
    BY <1>5, <1>6, <1>7

\* What is held is written: all of it, or a part and then no more.
LEMMA UploadWritten ==
    ASSUME Typed, Upload, pc \in Writing, NEW n \in 0 .. Len(buf), up' = up \o SubSeq(buf, 1, n),
           UNCHANGED <<sentUp, wsIn>>,
           pc' \notin Over => n = Len(buf) /\ Held' = <<>>
    PROVE  /\ Upload'
           /\ Len(up') = Len(up) + n
  <1>1. pc \notin Over /\ Held = buf
    BY DEF Writing, Over, Closing, Held
  <1>2. /\ Run(up, 0, Len(up)) /\ Run(buf, Len(up), Len(up) + Len(buf))
        /\ Queued(wsIn, Len(up) + Len(buf), sentUp)
    BY <1>1 DEF Upload
  <1>3. wsIn \in Seq(Message) /\ Len(buf) \in Nat /\ Len(up) \in Nat
    BY LenProperties DEF Typed
  <1>4. Len(up) + Len(buf) <= sentUp /\ sentUp \in Nat
    BY <1>2, <1>3, QueuedBounds
  <1>5. Run(SubSeq(buf, 1, n), Len(up), Len(up) + n)
    BY <1>2, RunCut
  <1>6. Run(up', 0, Len(up) + n)
    BY <1>2, <1>5, RunConcat
  <1>7. Len(up') = Len(up) + n
    BY <1>3, <1>6, RunBounds
  <1>8. Run(up', 0, Len(up')) /\ Len(up') <= sentUp'
    BY <1>3, <1>4, <1>6, <1>7
  <1>9. ASSUME pc' \notin Over
        PROVE  Run(Held', Len(up'), Len(up') + Len(Held')) /\ Queued(wsIn', Len(up') + Len(Held'), sentUp')
    <2>1. Held' = <<>> /\ Len(Held') = 0 /\ n = Len(buf)
      BY <1>9, EmptySeq
    <2>2. Len(up') + Len(Held') = Len(up') /\ Len(up') = Len(up) + Len(buf) /\ Len(up') \in Nat
      BY <1>3, <1>7, <2>1
    <2>3. Run(<<>>, Len(up'), Len(up'))
      BY <2>2, RunEmpty
    <2> QED
      BY <1>2, <2>1, <2>2, <2>3
  <1> QED
    BY <1>7, <1>8, <1>9 DEF Upload

\* Every step of the task keeps the client's bytes in order.
LEMMA UploadServer ==
    ASSUME Typed, Upload, Server
    PROVE  Upload'
  <1>1. CASE TlsRead
    <2>1. wsIn # <<>> /\ wsIn' = Tail(wsIn) /\ UNCHANGED <<up, sentUp>> /\ pc \notin Over /\ Held = buf
      BY <1>1 DEF TlsRead, TakeWs, peers, received, Over, Closing, Held
    <2>2. pc' \in {"tls_pong", "tls_wait", "hello_write"} \/ pc' \in Over
      BY <1>1 DEF TlsRead, Send, Await, Reject, Over, Closing
    <2>3. pc' \notin Over => Held' = IF Head(wsIn).kind = "data" THEN Held \o Head(wsIn).data ELSE Held
      BY <1>1, <2>1, <2>2 DEF TlsRead, Held
    <2> QED
      BY <2>1, <2>3, UploadTaken
  <1>2. CASE TlsFails \/ GreetFails \/ LifetimeReached \/ WsLost \/ TcpEnds
    BY <1>2, UploadOver DEF TlsFails, GreetFails, LifetimeReached, WsLost, TcpEnds,
                            Reject, BreakLoop, Over, Closing, peers, received
  <1>3. CASE GreetRead
    <2>1. pc = "greet_wait" /\ pc' \in {"greet_wait", "greet_send", "reject_ws"}
          /\ UNCHANGED <<up, sentUp, wsIn>>
      BY <1>3 DEF GreetRead, TakeTcp, Await, Send, Reject, peers, received
    <2> QED
      BY <2>1, UploadSame, UploadOver DEF Held, Over, Closing
  <1>4. CASE ReadWs
    <2>1. wsIn # <<>> /\ wsIn' = Tail(wsIn) /\ UNCHANGED <<up, sentUp>> /\ pc \notin Over /\ Held = <<>>
      BY <1>4 DEF ReadWs, InLoop, TakeWs, peers, received, Over, Closing, Held
    <2>2. Head(wsIn).data \in Seq(Nat) /\ <<>> \o Head(wsIn).data = Head(wsIn).data
      BY <2>1, Taken, ConcatEmptySeq DEF Message
    <2>3. \/ pc' \in Over
          \/ pc' = "tcp_write" /\ buf' = Head(wsIn).data /\ Head(wsIn).kind = "data"
          \/ pc' \in {"ws_send", "relay"} /\ Head(wsIn).kind # "data"
      BY <1>4 DEF ReadWs, Charge, Send, Await, Loop, BreakLoop, Over, Closing
    <2>4. pc' \notin Over => Held' = IF Head(wsIn).kind = "data" THEN Held \o Head(wsIn).data ELSE Held
      BY <2>1, <2>2, <2>3 DEF Held
    <2> QED
      BY <2>1, <2>4, UploadTaken
  <1>5. CASE IdlePing \/ ReadTcp
    <2>1. pc = "relay" /\ pc' \in {"ws_send", "close_send"} /\ UNCHANGED <<up, sentUp, wsIn>>
      BY <1>5 DEF IdlePing, ReadTcp, PollTcp, InLoop, Charge, TakeTcp, Send, BreakLoop,
                  inputs, peers, received
    <2> QED
      BY <2>1, UploadSame, UploadOver DEF Held, Over, Closing
  <1>6. CASE WriteDone
    <2>1. buf \in Seq(Nat) /\ Len(buf) \in Nat /\ Len(buf) \in 0 .. Len(buf)
      BY LenProperties DEF Typed
    <2>2. SubSeq(buf, 1, Len(buf)) = buf
      BY <2>1, SubSeqFull
    <2>3. pc \in Writing /\ up' = up \o buf /\ UNCHANGED <<sentUp, wsIn>> /\ pc' = "relay"
      BY <1>6 DEF WriteDone, StartRelay, Loop, inputs, peers
    <2>4. Held' = <<>>
      BY <2>3 DEF Held
    <2> QED
      BY <2>1, <2>2, <2>3, <2>4, UploadWritten
  <1>7. CASE WriteFails
    <2>1. PICK n \in 0 .. Len(buf) - 1 : up' = up \o SubSeq(buf, 1, n)
      BY <1>7 DEF WriteFails
    <2>2. n \in 0 .. Len(buf)
      BY LenProperties DEF Typed
    <2>3. pc \in Writing /\ UNCHANGED <<sentUp, wsIn>> /\ pc' \in Over
      BY <1>7 DEF WriteFails, Reject, BreakLoop, inputs, peers, Over, Closing
    <2> QED
      BY <2>1, <2>2, <2>3, UploadWritten
  <1>8. CASE FlushDone
    <2>1. /\ UNCHANGED <<up, sentUp, wsIn>>
          /\ \/ pc = "tls_pong" /\ pc' = "tls_wait" /\ buf' = buf
             \/ pc \in {"greet_send", "ws_send"} /\ pc' = "relay"
             \/ pc' \in Over
      BY <1>8 DEF FlushDone, Flushing, inputs, peers, Over, Closing
    <2> QED
      BY <2>1, UploadSame, UploadOver DEF Held, Over, Closing
  <1>9. CASE FlushFails
    <2>1. /\ UNCHANGED <<up, sentUp, wsIn, buf>>
          /\ \/ pc = "tls_pong" /\ pc' = "tls_wait"
             \/ pc' \in Over
      BY <1>9 DEF FlushFails, Await, Reject, BreakLoop, Finish, inputs, peers, received, Over, Closing
    <2> QED
      BY <2>1, UploadSame, UploadOver DEF Held, Over, Closing
  <1> QED
    BY <1>1, <1>2, <1>3, <1>4, <1>5, <1>6, <1>7, <1>8, <1>9 DEF Server

\* Every step keeps the client's bytes in order.
LEMMA UploadNext == Typed /\ Upload /\ [Next]_vars => Upload'
  <1> SUFFICES ASSUME Typed, Upload, [Next]_vars PROVE Upload'
    OBVIOUS
  <1>1. CASE Server
    BY <1>1, UploadServer
  <1>2. CASE Tick \/ UpstreamSends \/ UNCHANGED vars
              \/ (\E how \in {"reading", "stalled", "gone"} : ClientTurns(how))
              \/ (\E how \in {"reading", "stalled", "finished", "gone"} : UpstreamTurns(how))
    <2>1. UNCHANGED <<pc, buf, up, sentUp, wsIn>>
      BY <1>2 DEF Tick, UpstreamSends, ClientTurns, UpstreamTurns, vars, task, inputs, peers, received
    <2> QED
      BY <2>1, UploadSame DEF Held
  <1>3. CASE ClientSends
    <2>1. UNCHANGED <<pc, buf, up>>
      BY <1>3 DEF ClientSends, task, received
    <2>2. Held' = Held
      BY <2>1 DEF Held
    <2>3. sentUp \in Nat /\ wsIn \in Seq(Message)
      BY DEF Typed
    <2>4. PICK m \in Message : wsIn' = Append(wsIn, m) /\ Run(m.data, sentUp, sentUp')
      <3>1. CASE \E n \in MsgSizes : /\ wsIn' = Append(wsIn, data([i \in 1 .. n |-> sentUp + i]))
                                     /\ sentUp' = sentUp + n
        <4>1. PICK n \in MsgSizes : /\ wsIn' = Append(wsIn, data([i \in 1 .. n |-> sentUp + i]))
                                    /\ sentUp' = sentUp + n
          BY <3>1
        <4> DEFINE s == [i \in 1 .. n |-> sentUp + i]
        <4>2. n \in Nat
          BY Constants
        <4>3. s \in Seq(Nat) /\ Len(s) = n /\ \A i \in 1 .. n : s[i] = sentUp + i
          BY <2>3, <4>2
        <4> HIDE DEF s
        <4>4. Run(s, sentUp, sentUp')
          BY <2>3, <4>1, <4>2, <4>3 DEF Run
        <4>5. data(s) \in Message /\ data(s).data = s
          BY <4>3, Messages
        <4> QED
          BY <4>1, <4>4, <4>5 DEF s
      <3>2. CASE (\E k \in {"ping", "pong", "close"} : wsIn' = Append(wsIn, control(k)))
                 /\ UNCHANGED sentUp
        BY <2>3, <3>2, Messages, RunEmpty
      <3> QED
        BY <1>3, <3>1, <3>2 DEF ClientSends
    <2>5. sentUp <= sentUp'
      BY <2>4, RunBounds
    <2>6. sentUp' \in Nat
      BY <2>4, RunBounds
    <2>7. Run(up', 0, Len(up')) /\ Len(up') <= sentUp'
      BY <2>1, <2>3, <2>5, <2>6, LenProperties DEF Upload, Typed
    <2>8. pc \notin Over => Queued(wsIn', Len(up) + Len(Held), sentUp')
      BY <2>3, <2>4, QueuedAppend DEF Upload
    <2> QED
      BY <2>1, <2>2, <2>7, <2>8 DEF Upload
  <1> QED
    BY <1>1, <1>2, <1>3 DEF Next, Peers

-----------------------------------------------------------------------------
(* The upstream's bytes. *)

\* The bytes in the sink, while the client is there (FlatIs).
Out == IF wsOut = <<>> THEN <<>> ELSE wsOut[1].data

\* Taken from the upstream and not yet received by the client.
Ahead == IF pc = "greet_wait" THEN buf ELSE Out

Idle == {"tls_wait", "hello_write", "greet_wait", "relay", "tcp_write"}

\* A client that is there finds at most one message in the sink, and a Close
\* behind it.
Sink ==
    client # "gone" =>
       /\ pc \in Idle => wsOut = <<>>
       /\ pc \in {"tls_pong", "greet_send", "ws_send"} => Len(wsOut) = 1
       /\ Len(wsOut) <= 2
       /\ Len(wsOut) = 2 => wsOut[2].data = <<>>
       /\ pc = "greet_send" => Out = buf
       /\ pc = "tls_pong" => Out = <<>>

\* The client has the first bytes; while it is there, what is ahead and then,
\* until the end, what is still to be read follow them up to the last one.
Download ==
    /\ Run(down, 0, Len(down)) /\ Len(down) <= sentDown
    /\ client # "gone" =>
          /\ Run(Ahead, Len(down), Len(down) + Len(Ahead))
          /\ Len(down) + Len(Ahead) <= sentDown
          /\ pc \notin Over => Run(tcpIn, Len(down) + Len(Ahead), sentDown)

\* What is in the sink is messages, and their data bytes.
LEMMA SinkTyped ==
    ASSUME Typed
    PROVE  /\ wsOut \in Seq(Message) /\ Len(wsOut) \in Nat /\ Out \in Seq(Nat) /\ Len(Out) \in Nat
           /\ wsOut = <<>> <=> Len(wsOut) = 0
           /\ \A i \in 1 .. Len(wsOut) : wsOut[i].data \in Seq(Nat)
  <1>1. wsOut \in Seq(Message) /\ Len(wsOut) \in Nat
    BY LenProperties DEF Typed
  <1>2. wsOut = <<>> <=> Len(wsOut) = 0
    BY <1>1, EmptySeq
  <1>3. \A i \in 1 .. Len(wsOut) : wsOut[i].data \in Seq(Nat)
    BY <1>1, ElementOfSeq DEF Message
  <1>4. Out \in Seq(Nat)
    <2>1. CASE wsOut = <<>>
      BY <2>1, EmptySeq DEF Out
    <2>2. CASE wsOut # <<>>
      <3>1. 1 \in 1 .. Len(wsOut)
        BY <1>1, <1>2, <2>2
      <3> QED
        BY <1>3, <2>2, <3>1 DEF Out
    <2> QED
      BY <2>1, <2>2
  <1> QED
    BY <1>1, <1>2, <1>3, <1>4, LenProperties

\* A flush sends exactly Out to a client that is there.
LEMMA FlatIs ==
    ASSUME Typed, Sink, client # "gone"
    PROVE  FlattenSeq([i \in DOMAIN wsOut |-> wsOut[i].data]) = Out
  <1> DEFINE q == [i \in DOMAIN wsOut |-> wsOut[i].data]
  <1>1. DOMAIN wsOut = 1 .. Len(wsOut) /\ Len(wsOut) \in Nat
    BY SinkTyped, LenProperties
  <1>2. q \in Seq(Seq(Nat)) /\ Len(q) = Len(wsOut) /\ \A i \in 1 .. Len(wsOut) : q[i] = wsOut[i].data
    <2>1. \A i \in 1 .. Len(wsOut) : wsOut[i].data \in Seq(Nat)
      BY SinkTyped
    <2>2. q = [i \in 1 .. Len(wsOut) |-> wsOut[i].data]
      BY <1>1
    <2> QED
      BY <1>1, <2>1, <2>2
  <1> HIDE DEF q
  <1>3. Len(wsOut) \in {0, 1, 2}
    BY <1>1 DEF Sink
  <1>4. CASE Len(wsOut) = 0
    <2>1. q = <<>> /\ wsOut = <<>>
      BY <1>2, <1>4, EmptySeq, SinkTyped
    <2> QED
      BY <2>1, FlattenNone DEF Out, q
  <1>5. CASE Len(wsOut) = 1
    <2>1. FlattenSeq(q) = q[1] /\ q[1] = wsOut[1].data /\ wsOut # <<>>
      BY <1>2, <1>5, FlattenOne, SinkTyped
    <2> QED
      BY <2>1 DEF Out, q
  <1>6. CASE Len(wsOut) = 2
    <2>0. 1 \in 1 .. Len(wsOut) /\ 2 \in 1 .. Len(wsOut)
      BY <1>6
    <2>1. FlattenSeq(q) = q[1] \o q[2] /\ q[1] = wsOut[1].data /\ q[2] = wsOut[2].data /\ wsOut # <<>>
      <3>1. FlattenSeq(q) = q[1] \o q[2]
        BY <1>2, <1>6, FlattenTwo
      <3>2. wsOut # <<>>
        BY <1>6, EmptySeq
      <3> QED
        BY <1>2, <2>0, <3>1, <3>2
    <2>2. wsOut[2].data = <<>> /\ Out = wsOut[1].data /\ Out \in Seq(Nat)
      BY <1>6, <2>1, SinkTyped DEF Sink, Out
    <2> QED
      BY <2>1, <2>2, ConcatEmptySeq DEF q
  <1> QED
    BY <1>3, <1>4, <1>5, <1>6

\* What is put into the sink goes behind what is there.
LEMMA OutAppend ==
    ASSUME Typed, NEW m \in Message, wsOut' = Append(wsOut, m)
    PROVE  /\ Len(wsOut') = Len(wsOut) + 1 /\ wsOut' # <<>>
           /\ wsOut'[Len(wsOut) + 1] = m
           /\ wsOut = <<>> => Out' = m.data
           /\ wsOut # <<>> => Out' = Out
  <1>1. wsOut \in Seq(Message) /\ Len(wsOut) \in Nat /\ (wsOut = <<>> <=> Len(wsOut) = 0)
    BY SinkTyped
  <1>2. /\ Len(wsOut') = Len(wsOut) + 1 /\ wsOut' # <<>>
        /\ \A i \in 1 .. Len(wsOut) : wsOut'[i] = wsOut[i]
        /\ wsOut'[Len(wsOut) + 1] = m
    BY <1>1, AppendProperties
  <1>3. wsOut = <<>> => wsOut'[1] = m
    BY <1>1, <1>2
  <1>4. wsOut # <<>> => wsOut'[1] = wsOut[1]
    BY <1>1, <1>2
  <1> QED
    BY <1>2, <1>3, <1>4 DEF Out

\* Nothing is in the sink at first.
LEMMA SinkInit == Init => Sink /\ Download
  <1> SUFFICES ASSUME Init PROVE Sink /\ Download
    OBVIOUS
  <1>1. wsOut = <<>> /\ tcpIn = <<>> /\ down = <<>> /\ buf = <<>> /\ sentDown = 0 /\ Len(<<>>) = 0
    BY EmptySeq DEF Init
  <1>2. pc \in {"tls_wait", "greet_wait", "relay"}
    BY Constants DEF Init
  <1>3. Out = <<>> /\ Ahead = <<>>
    BY <1>1 DEF Out, Ahead
  <1>4. Run(<<>>, 0, 0)
    BY RunEmpty
  <1>5. Sink
    BY <1>1, <1>2 DEF Sink
  <1>6. Download
    BY <1>1, <1>3, <1>4 DEF Download
  <1> QED
    BY <1>5, <1>6

\* The forms a step of the task takes, seen from the sink.
LEMMA SinkMoves ==
    ASSUME Typed, Sink, UNCHANGED client
    PROVE  /\ \A r : (BreakLoop(r) \/ Reject(r)) /\ pc \notin Over =>
                        Sink' /\ Out' = Out /\ pc' \in Over
           /\ \A t : \A m \in Message :
                 pc \in Idle /\ ((Send("tls_pong", m, t) /\ m.data = <<>>) \/ Send("ws_send", m, t)) =>
                    Sink' /\ (client # "gone" => Out' = m.data)
           /\ \A t : \A m \in Message :
                 pc \in Idle /\ m.data = buf' /\ Send("greet_send", m, t) =>
                    Sink' /\ (client # "gone" => Out' = m.data)
           /\ UNCHANGED wsOut /\ pc \in Idle /\ pc' \in Idle => Sink' /\ Out' = Out
  <1>0. Len(wsOut) \in Nat /\ (wsOut = <<>> <=> Len(wsOut) = 0)
    BY SinkTyped
  <1>1. ASSUME NEW r, BreakLoop(r) \/ Reject(r), pc \notin Over
        PROVE  Sink' /\ Out' = Out /\ pc' \in Over
    <2>1. wsOut' = Append(wsOut, control("close")) /\ pc' \in {"close_send", "reject_ws"}
      BY <1>1 DEF BreakLoop, Reject
    <2>2. control("close") \in Message /\ control("close").data = <<>>
      BY Messages
    <2>3. /\ Len(wsOut') = Len(wsOut) + 1 /\ wsOut'[Len(wsOut) + 1] = control("close")
          /\ wsOut = <<>> => Out' = control("close").data
          /\ wsOut # <<>> => Out' = Out
      BY <2>1, <2>2, OutAppend
    <2>4. Out' = Out
      BY <2>2, <2>3 DEF Out
    <2>5. client # "gone" => Len(wsOut) <= 1
      <3>1. pc \in Idle \/ pc \in {"tls_pong", "greet_send", "ws_send"}
        BY <1>1, PhasesAre DEF Idle, Over, Closing, Typed
      <3> QED
        BY <1>0, <3>1, SMTT(40) DEF Sink
    <2>6. client # "gone" => Len(wsOut') <= 2 /\ (Len(wsOut') = 2 => wsOut'[2].data = <<>>)
      <3>1. ASSUME Len(wsOut') = 2 PROVE wsOut'[2] = control("close")
        <4>1. Len(wsOut) + 1 = 2
          BY <1>0, <2>3, <3>1
        <4> QED
          BY <2>3, <4>1
      <3> QED
        BY <1>0, <2>2, <2>3, <2>5, <3>1
    <2>7. Sink'
      BY <2>1, <2>6 DEF Sink, Idle
    <2> QED
      BY <2>1, <2>4, <2>7 DEF Over, Closing
  <1>2. ASSUME NEW m \in Message, NEW t, pc \in Idle,
               (Send("tls_pong", m, t) /\ m.data = <<>>) \/ Send("ws_send", m, t)
        PROVE  Sink' /\ (client # "gone" => Out' = m.data)
    <2>1. wsOut' = Append(wsOut, m) /\ pc' \in {"tls_pong", "ws_send"}
          /\ (pc' = "tls_pong" => m.data = <<>>)
      BY <1>2 DEF Send
    <2>2. Len(wsOut') = Len(wsOut) + 1 /\ (wsOut = <<>> => Out' = m.data)
      BY <2>1, OutAppend
    <2>3. client # "gone" => wsOut = <<>>
      BY <1>2 DEF Sink
    <2> QED
      BY <1>0, <2>1, <2>2, <2>3 DEF Sink, Idle
  <1>3. ASSUME NEW m \in Message, NEW t, pc \in Idle, m.data = buf', Send("greet_send", m, t)
        PROVE  Sink' /\ (client # "gone" => Out' = m.data)
    <2>1. wsOut' = Append(wsOut, m) /\ pc' = "greet_send"
      BY <1>3 DEF Send
    <2>2. Len(wsOut') = Len(wsOut) + 1 /\ (wsOut = <<>> => Out' = m.data)
      BY <2>1, OutAppend
    <2>3. client # "gone" => wsOut = <<>>
      BY <1>3 DEF Sink
    <2> QED
      BY <1>0, <1>3, <2>1, <2>2, <2>3 DEF Sink, Idle
  <1>4. ASSUME UNCHANGED wsOut, pc \in Idle, pc' \in Idle
        PROVE  Sink' /\ Out' = Out
    BY <1>4 DEF Sink, Idle, Out
  <1> QED
    BY <1>1, <1>2, <1>3, <1>4

\* The session is ending: what is in the sink may still go out.
LEMMA DownloadOver ==
    ASSUME Typed, Sink, Download, UNCHANGED <<client, down, sentDown>>, pc \notin Over,
           NEW r, BreakLoop(r) \/ Reject(r)
    PROVE  Sink' /\ Download'
  <1>1. Sink' /\ Out' = Out /\ pc' \in Over
    BY SinkMoves
  <1>2. Ahead' = Out
    BY <1>1 DEF Ahead, Over, Closing
  <1>3. ASSUME client # "gone"
        PROVE  Run(Out, Len(down), Len(down) + Len(Out)) /\ Len(down) + Len(Out) <= sentDown
    <2>1. CASE pc = "greet_wait"
      <3>1. Out = <<>> /\ Len(Out) = 0
        BY <1>3, <2>1, EmptySeq DEF Sink, Idle, Out
      <3>2. Len(down) \in Nat /\ Len(down) <= sentDown
        BY RunBounds DEF Download
      <3>3. Run(<<>>, Len(down), Len(down)) /\ Len(down) + 0 = Len(down)
        BY <3>2, RunEmpty
      <3> QED
        BY <3>1, <3>2, <3>3
    <2>2. CASE pc # "greet_wait"
      BY <1>3, <2>2 DEF Download, Ahead
    <2> QED
      BY <2>1, <2>2
  <1> QED
    BY <1>1, <1>2, <1>3 DEF Download

\* Nothing is read from the upstream and nothing of it received.
LEMMA DownloadSame ==
    ASSUME Download, UNCHANGED <<client, down, sentDown, tcpIn>>,
           client # "gone" => Ahead' = Ahead,
           pc' \notin Over => pc \notin Over
    PROVE  Download'
  BY DEF Download, Over, Closing

\* n more bytes are read.
LEMMA DownloadTaken ==
    ASSUME Typed, Download, pc \notin Over, UNCHANGED <<client, down, sentDown>>,
           NEW n \in 1 .. Min({ReadMax, Len(tcpIn)}), TakeTcp(n),
           client # "gone" => Ahead' = Ahead \o SubSeq(tcpIn, 1, n)
    PROVE  Download'
  <1>1. n \in 0 .. Len(tcpIn) /\ tcpIn' = SubSeq(tcpIn, n + 1, Len(tcpIn))
    <2>1. n \in 1 .. Len(tcpIn)
      BY Taken
    <2> QED
      BY <2>1 DEF TakeTcp
  <1>2. ASSUME client # "gone"
        PROVE  /\ Run(Ahead', Len(down), Len(down) + Len(Ahead'))
               /\ Len(down) + Len(Ahead') <= sentDown
               /\ Run(tcpIn', Len(down) + Len(Ahead'), sentDown)
    <2> DEFINE a == Len(down) + Len(Ahead)
    <2>1. Run(Ahead, Len(down), a) /\ Run(tcpIn, a, sentDown)
      BY <1>2 DEF Download
    <2> HIDE DEF a
    <2>2. Run(SubSeq(tcpIn, 1, n), a, a + n) /\ Run(tcpIn', a + n, sentDown)
      BY <1>1, <2>1, RunCut
    <2>3. Run(Ahead', Len(down), a + n)
      BY <1>2, <2>1, <2>2, RunConcat
    <2>4. a + n = Len(down) + Len(Ahead') /\ a + n <= sentDown
      BY <2>2, <2>3, RunBounds
    <2> QED
      BY <2>2, <2>3, <2>4
  <1> QED
    BY <1>2 DEF Download

\* The probes keep the upstream's bytes in order.
LEMMA DownloadProbe ==
    ASSUME Typed, Sink, Download, TlsRead \/ TlsFails \/ GreetRead \/ GreetFails
    PROVE  Sink' /\ Download'
  <1>0. UNCHANGED <<client, down, sentDown>> /\ pc \notin Over /\ pc \in Idle
    BY DEF TlsRead, TlsFails, GreetRead, GreetFails, peers, received, Over, Closing, Idle
  <1>1. CASE TlsRead
    <2>1. pc = "tls_wait" /\ UNCHANGED tcpIn
      BY <1>1 DEF TlsRead, TakeWs
    <2>2. CASE Send("tls_pong", control("pong"), 0)
      <3>1. control("pong") \in Message /\ control("pong").data = <<>>
        BY Messages
      <3>2. Sink' /\ (client # "gone" => Out' = <<>>)
        BY <1>0, <2>2, <3>1, SinkMoves
      <3>3. client # "gone" => Ahead' = Ahead
        BY <2>1, <2>2, <3>2 DEF Ahead, Send, Sink, Idle, Out
      <3> QED
        BY <1>0, <2>1, <3>2, <3>3, DownloadSame
    <2>3. CASE Await("tls_wait", tcp_connect_timeout) \/ Await("hello_write", tcp_write_timeout)
      <3>1. UNCHANGED wsOut /\ pc' \in {"tls_wait", "hello_write"}
        BY <2>3 DEF Await
      <3>2. Sink' /\ Out' = Out
        BY <1>0, <3>1, SinkMoves DEF Idle
      <3>3. Ahead' = Ahead
        BY <2>1, <3>1, <3>2 DEF Ahead
      <3> QED
        BY <1>0, <2>1, <3>2, <3>3, DownloadSame
    <2>4. CASE \E r : Reject(r)
      BY <1>0, <2>4, DownloadOver
    <2> QED
      BY <1>1, <2>2, <2>3, <2>4 DEF TlsRead
  <1>2. CASE TlsFails \/ GreetFails
    BY <1>0, <1>2, DownloadOver DEF TlsFails, GreetFails
  <1>3. CASE GreetRead
    <2>1. PICK n \in 1 .. Min({ReadMax, Len(tcpIn)}) :
             LET greet == buf \o SubSeq(tcpIn, 1, n) IN
             /\ TakeTcp(n)
             /\ buf' = greet
             /\ IF ~(greeting_complete(greet) \/ Len(greet) >= MaxGreeting)
                THEN Await("greet_wait", tcp_connect_timeout)
                ELSE \/ validate_greeting(greet) /\ Send("greet_send", data(greet), ws_write_timeout)
                     \/ ~validate_greeting(greet) /\ Reject("verdict")
      BY <1>3 DEF GreetRead
    <2> DEFINE greet == buf \o SubSeq(tcpIn, 1, n)
    <2>2. pc = "greet_wait" /\ buf \in Seq(Nat) /\ SubSeq(tcpIn, 1, n) \in Seq(Nat)
      BY <1>3, Taken DEF GreetRead, Typed
    <2>3. greet \in Seq(Nat)
      BY <2>2, ConcatProperties
    <2>4. data(greet) \in Message /\ data(greet).data = greet
      BY <2>3, Messages
    <2>5. Ahead = buf
      BY <2>2 DEF Ahead
    <2> HIDE DEF greet
    <2>6. TakeTcp(n) /\ buf' = greet
      BY <2>1 DEF greet
    <2>7. CASE Await("greet_wait", tcp_connect_timeout)
      <3>1. UNCHANGED wsOut /\ pc' = "greet_wait"
        BY <2>7 DEF Await
      <3>2. Sink'
        BY <1>0, <3>1, SinkMoves DEF Idle
      <3>3. Ahead' = greet
        BY <2>6, <3>1 DEF Ahead
      <3> QED
        BY <1>0, <2>5, <2>6, <3>2, <3>3, DownloadTaken DEF greet
    <2>8. CASE Send("greet_send", data(greet), ws_write_timeout)
      <3>1. Sink' /\ (client # "gone" => Out' = greet)
        BY <1>0, <2>4, <2>6, <2>8, SinkMoves
      <3>2. client # "gone" => Ahead' = greet
        BY <2>8, <3>1 DEF Ahead, Send
      <3> QED
        BY <1>0, <2>5, <2>6, <3>1, <3>2, DownloadTaken DEF greet
    <2>9. CASE Reject("verdict")
      BY <1>0, <2>9, DownloadOver
    <2> QED
      BY <2>1, <2>7, <2>8, <2>9 DEF greet
  <1> QED
    BY <1>1, <1>2, <1>3

\* The relay loop keeps the upstream's bytes in order.
LEMMA DownloadRelay ==
    ASSUME Typed, Sink, Download, LifetimeReached \/ ReadWs \/ WsLost \/ IdlePing \/ ReadTcp \/ TcpEnds
    PROVE  Sink' /\ Download'
  <1>0. UNCHANGED <<client, down, sentDown>> /\ pc = "relay" /\ pc \notin Over /\ pc \in Idle
    BY DEF LifetimeReached, ReadWs, WsLost, IdlePing, ReadTcp, TcpEnds, PollTcp, InLoop,
           peers, received, Over, Closing, Idle
  <1>1. Ahead = Out /\ (client # "gone" => Out = <<>>)
    BY <1>0 DEF Ahead, Out, Sink
  <1>2. CASE LifetimeReached \/ WsLost \/ TcpEnds
    BY <1>0, <1>2, DownloadOver DEF LifetimeReached, WsLost, TcpEnds
  <1>3. ASSUME NEW k \in {"ping", "pong"}, Send("ws_send", control(k), ws_write_timeout), UNCHANGED tcpIn
        PROVE  Sink' /\ Download'
    <2>1. control(k) \in Message /\ control(k).data = <<>>
      BY Messages
    <2>2. Sink' /\ (client # "gone" => Out' = <<>>)
      BY <1>0, <1>3, <2>1, SinkMoves
    <2>3. client # "gone" => Ahead' = Ahead
      BY <1>1, <1>3, <2>2 DEF Ahead, Send
    <2> QED
      BY <1>0, <1>3, <2>2, <2>3, DownloadSame
  <1>4. CASE ReadWs
    <2>1. UNCHANGED tcpIn
      BY <1>4 DEF ReadWs, TakeWs
    <2>2. CASE Send("ws_send", control("pong"), ws_write_timeout)
      BY <1>3, <2>1, <2>2
    <2>3. CASE Await("tcp_write", tcp_write_timeout) \/ Loop
      <3>1. UNCHANGED wsOut /\ pc' \in {"tcp_write", "relay"}
        BY <2>3 DEF Await, Loop
      <3>2. Sink' /\ Out' = Out
        BY <1>0, <3>1, SinkMoves DEF Idle
      <3>3. Ahead' = Ahead
        BY <1>1, <3>1, <3>2 DEF Ahead
      <3> QED
        BY <1>0, <2>1, <3>2, <3>3, DownloadSame
    <2>4. CASE \E r : BreakLoop(r)
      BY <1>0, <2>4, DownloadOver
    <2> QED
      BY <1>4, <2>2, <2>3, <2>4 DEF ReadWs, Charge
  <1>5. CASE IdlePing
    BY <1>3, <1>5 DEF IdlePing, inputs
  <1>6. CASE ReadTcp
    <2>1. PICK n \in 1 .. Min({ReadMax, Len(tcpIn)}) :
             /\ Charge(n, Send("ws_send", data(SubSeq(tcpIn, 1, n)), ws_write_timeout))
             /\ TakeTcp(n)
      BY <1>6 DEF ReadTcp
    <2> DEFINE chunk == SubSeq(tcpIn, 1, n)
    <2>2. chunk \in Seq(Nat)
      BY Taken
    <2>3. data(chunk) \in Message /\ data(chunk).data = chunk
      BY <2>2, Messages
    <2>4. <<>> \o chunk = chunk
      BY <2>2, ConcatEmptySeq
    <2> HIDE DEF chunk
    <2>5. CASE Send("ws_send", data(chunk), ws_write_timeout)
      <3>1. Sink' /\ (client # "gone" => Out' = chunk)
        BY <1>0, <2>3, <2>5, SinkMoves
      <3>2. client # "gone" => Ahead' = Ahead \o chunk
        BY <1>1, <2>4, <2>5, <3>1 DEF Ahead, Send
      <3> QED
        BY <1>0, <2>1, <3>1, <3>2, DownloadTaken DEF chunk
    <2>6. CASE \E r : BreakLoop(r)
      BY <1>0, <2>6, DownloadOver
    <2> QED
      BY <2>1, <2>5, <2>6 DEF Charge, chunk
  <1> QED
    BY <1>2, <1>4, <1>5, <1>6

\* The client takes what is in the sink.
LEMMA DownloadFlushed ==
    ASSUME Typed, Sink, Download, FlushDone
    PROVE  /\ Sink' /\ Download'
           /\ down' = down \o Out /\ Len(down') = Len(down) + Len(Out)
           /\ wsOut' = <<>> /\ Out' = <<>>
  <1>1. /\ client = "reading" /\ pc # "greet_wait" /\ wsOut' = <<>>
        /\ UNCHANGED <<client, sentDown, tcpIn>>
        /\ pc' \in {"tls_wait", "relay", "close_ws", "done"}
        /\ pc' \notin Over => pc \notin Over
    BY DEF FlushDone, Flushing, inputs, peers, Over, Closing
  <1>2. down' = down \o Out
    BY <1>1, FlatIs DEF FlushDone
  <1>3. Ahead = Out
    BY <1>1 DEF Ahead
  <1> DEFINE a == Len(down) + Len(Out)
  <1>4. /\ Run(down, 0, Len(down)) /\ Run(Out, Len(down), a) /\ a <= sentDown
        /\ pc \notin Over => Run(tcpIn, a, sentDown)
    BY <1>1, <1>3 DEF Download
  <1>5. Run(down', 0, a)
    BY <1>2, <1>4, RunConcat
  <1>6. Len(down') = a /\ a \in Nat
    BY <1>5, RunBounds
  <1> HIDE DEF a
  <1>7. wsOut' = <<>> /\ Out' = <<>> /\ Ahead' = <<>> /\ Len(<<>>) = 0
    BY <1>1, EmptySeq DEF Ahead, Out
  <1>8. Sink'
    BY <1>1, <1>7 DEF Sink, Idle
  <1>9. Run(<<>>, Len(down'), Len(down') + 0) /\ Len(down') + 0 = a
    BY <1>6, RunEmpty
  <1>10. Download'
    BY <1>1, <1>4, <1>5, <1>6, <1>7, <1>9 DEF Download
  <1> QED
    BY <1>2, <1>6, <1>7, <1>8, <1>10 DEF a

\* Writes and flushes keep the upstream's bytes in order.
LEMMA DownloadWrite ==
    ASSUME Typed, Sink, Download, WriteDone \/ WriteFails \/ FlushDone \/ FlushFails
    PROVE  Sink' /\ Download'
  <1>1. CASE WriteDone
    <2>1. /\ UNCHANGED <<client, down, sentDown, tcpIn, wsOut>>
          /\ pc \in {"hello_write", "tcp_write"} /\ pc' = "relay"
      BY <1>1 DEF WriteDone, Writing, StartRelay, Loop, inputs, peers
    <2>2. Sink' /\ Out' = Out
      BY <2>1, SinkMoves DEF Idle
    <2>3. Ahead' = Ahead
      BY <2>1, <2>2 DEF Ahead
    <2> QED
      BY <2>1, <2>2, <2>3, DownloadSame DEF Over, Closing
  <1>2. CASE WriteFails
    <2>1. UNCHANGED <<client, down, sentDown>> /\ pc \notin Over
      BY <1>2 DEF WriteFails, Writing, peers, Over, Closing
    <2> QED
      BY <1>2, <2>1, DownloadOver DEF WriteFails
  <1>3. CASE FlushDone
    BY <1>3, DownloadFlushed
  <1>4. CASE FlushFails
    <2>1. UNCHANGED <<client, down, sentDown, tcpIn>>
      BY <1>4 DEF FlushFails, inputs, peers, received
    <2>2. CASE pc = "tls_pong"
      <3>1. client = "gone"
        BY <1>4, <2>2 DEF FlushFails, Timed
      <3> QED
        BY <2>1, <3>1 DEF Sink, Download
    <2>3. CASE pc \in {"greet_send", "ws_send"}
      <3>1. pc \notin Over
        BY <2>3 DEF Over, Closing
      <3> QED
        BY <1>4, <2>1, <2>3, <3>1, DownloadOver DEF FlushFails
    <2>4. CASE pc \in {"close_send", "close_ws", "reject_ws"}
      <3>1. UNCHANGED wsOut /\ pc' \in {"close_ws", "done"}
        BY <1>4, <2>4 DEF FlushFails, Await, Finish
      <3>2. Out' = Out /\ Ahead' = Ahead /\ pc' \in Over
        BY <2>4, <3>1 DEF Out, Ahead, Over, Closing
      <3>3. Sink'
        BY <2>1, <3>1 DEF Sink, Idle
      <3> QED
        BY <2>1, <3>2, <3>3, DownloadSame
    <2> QED
      BY <1>4, <2>2, <2>3, <2>4 DEF FlushFails, Flushing
  <1> QED
    BY <1>1, <1>2, <1>3, <1>4

\* Every step keeps the upstream's bytes in order.
LEMMA DownloadNext == Typed /\ Sink /\ Download /\ [Next]_vars => Sink' /\ Download'
  <1> SUFFICES ASSUME Typed, Sink, Download, [Next]_vars PROVE Sink' /\ Download'
    OBVIOUS
  <1>1. CASE Server
    BY <1>1, DownloadProbe, DownloadRelay, DownloadWrite DEF Server
  <1>2. CASE Tick \/ Peers \/ UNCHANGED vars
    <2>1. UNCHANGED <<pc, buf, wsOut, down>> /\ (client = "gone" => client' = "gone")
      BY <1>2 DEF Tick, Peers, ClientSends, UpstreamSends, ClientTurns, UpstreamTurns, vars,
                  task, peers, received
    <2>2. Out' = Out /\ Ahead' = Ahead
      BY <2>1 DEF Out, Ahead
    <2>3. Sink'
      BY <2>1, <2>2 DEF Sink, Idle
    <2>4. CASE UNCHANGED <<sentDown, tcpIn>>
      BY <2>1, <2>2, <2>3, <2>4 DEF Download, Over, Closing
    <2>5. CASE UpstreamSends
      <3>1. sentDown \in Nat /\ sentDown' = sentDown + 1 /\ tcpIn' = Append(tcpIn, sentDown + 1)
        BY <2>5 DEF UpstreamSends, Typed
      <3>2. Len(down) \in Nat /\ Len(down) <= sentDown'
        BY <3>1, RunBounds DEF Download
      <3>3. ASSUME client' # "gone", pc' \notin Over
            PROVE  Run(tcpIn', Len(down) + Len(Ahead), sentDown')
        <4>1. Run(tcpIn, Len(down) + Len(Ahead), sentDown)
          BY <2>1, <3>3 DEF Download
        <4> QED
          BY <3>1, <4>1, RunAppend
      <3>4. ASSUME client' # "gone"
            PROVE  /\ Run(Ahead, Len(down), Len(down) + Len(Ahead))
                   /\ Len(down) + Len(Ahead) <= sentDown'
        <4>1. /\ Run(Ahead, Len(down), Len(down) + Len(Ahead))
              /\ Len(down) + Len(Ahead) <= sentDown
          BY <2>1, <3>4 DEF Download
        <4>2. Len(down) + Len(Ahead) \in Nat
          BY <4>1, RunBounds
        <4> QED
          BY <3>1, <4>1, <4>2
      <3>5. Run(down', 0, Len(down'))
        BY <2>1 DEF Download
      <3> QED
        BY <2>1, <2>2, <2>3, <3>2, <3>3, <3>4, <3>5 DEF Download
    <2>6. UNCHANGED <<sentDown, tcpIn>> \/ UpstreamSends
      BY <1>2 DEF Tick, Peers, ClientSends, ClientTurns, UpstreamTurns, vars, inputs, peers
    <2> QED
      BY <2>3, <2>4, <2>5, <2>6
  <1> QED
    BY <1>1, <1>2 DEF Next

-----------------------------------------------------------------------------
(* The verdict on the first record. *)

Judged ==
    /\ pc \in {"tls_wait", "tls_pong", "hello_write"} => kind = "TlsSni"
    /\ pc \in {"greet_wait", "greet_send"} => kind = "Greeting"
    /\ kind = "TlsSni" =>
          /\ pc \in {"hello_write", "close_send", "close_ws"} \cup Relaying \/ up # <<>> =>
                hello \in {"valid", "long"} /\ sentUp >= RecordLen
          /\ why = "verdict" => hello # "valid"

\* Every session begins in the await of its probe.
LEMMA JudgedInit == Init => Judged
  <1> SUFFICES ASSUME Init PROVE Judged
    OBVIOUS
  <1>1. \/ kind = "TlsSni" /\ pc = "tls_wait"
        \/ kind = "Greeting" /\ pc = "greet_wait"
        \/ kind = "None" /\ pc = "relay"
    BY Constants DEF Init
  <1>2. up = <<>> /\ why = "none"
    BY DEF Init
  <1> QED
    BY <1>1, <1>2 DEF Judged, Relaying

\* A record has a length, and a valid one fits.
LEMMA RecordIs ==
    ASSUME Typed
    PROVE  RecordLen \in Nat /\ (hello = "valid" => RecordLen <= MaxHello)
  BY Constants DEF RecordLen

\* The task goes on without a verdict.
LEMMA JudgedSame ==
    ASSUME Typed, Typed', Judged, UNCHANGED <<kind, hello>>, sentUp <= sentUp',
           up' # <<>> => up # <<>> \/ pc = "hello_write",
           why' = "verdict" => why = "verdict",
           \/ pc' = pc
           \/ pc' = "tls_pong" /\ pc = "tls_wait"
           \/ pc' = "tls_wait" /\ pc = "tls_pong"
           \/ pc' = "greet_send" /\ pc = "greet_wait"
           \/ pc' \in Relaying /\ pc \in Relaying \cup {"hello_write", "greet_send"}
           \/ pc' \in {"close_send", "close_ws"} /\ pc \in Relaying \cup {"close_send", "close_ws"}
           \/ pc' \in {"reject_ws", "done"}
    PROVE  Judged'
  <1>1. RecordLen \in Nat /\ RecordLen' = RecordLen /\ sentUp \in Nat /\ sentUp' \in Nat
    BY RecordIs DEF RecordLen, Typed
  <1> QED
    BY <1>1 DEF Judged, Relaying

\* probe_tls_sni judges the bytes it has, wherever they were cut.
LEMMA JudgedTls ==
    ASSUME Typed, Typed', Upload', Judged, TlsRead
    PROVE  Judged'
  <1> DEFINE m == Head(wsIn)
             got == IF m.kind = "data" THEN buf \o m.data ELSE buf
  <1>1. /\ pc = "tls_wait" /\ buf' = got /\ kind = "TlsSni"
        /\ UNCHANGED <<kind, hello, sentUp, up>>
    BY DEF TlsRead, fixed, peers, received, Judged
  <1>2. RecordLen \in Nat /\ RecordLen' = RecordLen /\ sentUp \in Nat
        /\ (hello = "valid" => RecordLen <= MaxHello) /\ MaxHello \in Nat
    BY <1>1, RecordIs, Constants DEF RecordLen, Typed
  <1> HIDE DEF got
  <1>3. Len(got) \in Nat
    BY <1>1, LenProperties DEF Typed
  <1>4. \/ pc' \in {"tls_pong", "tls_wait"} /\ why' = why
        \/ pc' = "reject_ws" /\ why' \in {"close"}
        \/ pc' = "reject_ws" /\ why' = "verdict" /\ hello # "valid"
        \/ pc' = "hello_write" /\ why' = why /\ validate_tls_client_hello(got)
    <2>1. tls_record_needed(got) = "More" /\ Len(got) > MaxHello => hello # "valid"
      BY <1>2, <1>3 DEF tls_record_needed
    <2>2. tls_record_needed(got) = "Complete" /\ ~validate_tls_client_hello(got) => hello # "valid"
      BY DEF validate_tls_client_hello
    <2>3. tls_record_needed(got) = "Err" => hello # "valid"
      BY DEF tls_record_needed
    <2> QED
      BY <2>1, <2>2, <2>3 DEF TlsRead, Send, Await, Reject, got
  <1>5. CASE pc' # "hello_write"
    BY <1>1, <1>2, <1>4, <1>5 DEF Judged, Relaying
  <1>6. CASE pc' = "hello_write" /\ why' = why /\ validate_tls_client_hello(got)
    <2>1. hello \in {"valid", "long"} /\ Len(got) >= RecordLen
      BY <1>2, <1>3, <1>6 DEF validate_tls_client_hello, tls_record_needed
    <2>2. Held' = got /\ Queued(wsIn', Len(up') + Len(got), sentUp')
      BY <1>1, <1>6 DEF Upload, Held, Over, Closing
    <2>3. Len(up') + Len(got) <= sentUp' /\ Len(up') \in Nat
      BY <2>2, QueuedBounds, LenProperties DEF Typed
    <2>4. sentUp' >= RecordLen'
      BY <1>1, <1>2, <1>3, <2>1, <2>3
    <2> QED
      BY <1>1, <1>6, <2>1, <2>4 DEF Judged
  <1> QED
    BY <1>4, <1>5, <1>6

\* No other step judges a record or goes past the verdict.
LEMMA JudgedNext == Typed /\ Typed' /\ Upload' /\ Judged /\ [Next]_vars => Judged'
  <1> SUFFICES ASSUME Typed, Typed', Upload', Judged, [Next]_vars PROVE Judged'
    OBVIOUS
  <1>0. sentUp \in Nat /\ sentUp' \in Nat
    BY DEF Typed
  <1>1. CASE TlsRead
    BY <1>1, JudgedTls
  <1>2. CASE TlsFails \/ GreetFails
    <2>1. pc' = "reject_ws" /\ why' = "other" /\ UNCHANGED <<kind, hello, sentUp, up>>
      BY <1>2 DEF TlsFails, GreetFails, Reject, fixed, peers, received
    <2> QED
      BY <1>0, <2>1, JudgedSame
  <1>3. CASE GreetRead
    <2>1. /\ pc = "greet_wait" /\ pc' \in {"greet_wait", "greet_send", "reject_ws"}
          /\ UNCHANGED <<kind, hello, sentUp, up>> /\ kind = "Greeting"
      BY <1>3 DEF GreetRead, Await, Send, Reject, fixed, peers, received, Judged
    <2> QED
      BY <2>1 DEF Judged
  <1>4. CASE LifetimeReached \/ ReadWs \/ WsLost \/ IdlePing \/ ReadTcp \/ TcpEnds
    <2>1. /\ UNCHANGED <<kind, hello, sentUp, up>> /\ pc = "relay"
      BY <1>4 DEF LifetimeReached, ReadWs, WsLost, IdlePing, ReadTcp, TcpEnds, PollTcp, InLoop,
                  fixed, peers, received
    <2>2. pc' \in Relaying \cup {"close_send"} /\ (why' = why \/ why' \in {"close", "eof", "other"})
      BY <1>4 DEF LifetimeReached, ReadWs, WsLost, IdlePing, ReadTcp, TcpEnds, Charge,
                  Await, Send, Loop, BreakLoop, Relaying
    <2> QED
      BY <1>0, <2>1, <2>2, JudgedSame DEF Relaying
  <1>5. CASE WriteDone \/ WriteFails
    <2>1. UNCHANGED <<kind, hello, sentUp>> /\ pc \in Writing
      BY <1>5 DEF WriteDone, WriteFails, fixed, peers
    <2>2. \/ pc = "hello_write" /\ pc' \in {"relay", "reject_ws"}
          \/ pc = "tcp_write" /\ pc' \in {"relay", "close_send"}
      BY <1>5 DEF WriteDone, WriteFails, Writing, StartRelay, Loop, Reject, BreakLoop
    <2>3. why' = why \/ why' = "other"
      BY <1>5 DEF WriteDone, WriteFails, StartRelay, Loop, Reject, BreakLoop
    <2>4. /\ kind = "TlsSni" => hello \in {"valid", "long"} /\ sentUp >= RecordLen
          /\ RecordLen' = RecordLen
      BY <2>1, <2>2 DEF Judged, Relaying, RecordLen
    <2> QED
      BY <2>1, <2>2, <2>3, <2>4 DEF Judged, Relaying
  <1>6. CASE FlushDone
    <2>1. UNCHANGED <<kind, hello, sentUp, up, why>>
      BY <1>6 DEF FlushDone, fixed, peers
    <2>2. \/ pc = "tls_pong" /\ pc' = "tls_wait"
          \/ pc \in {"greet_send", "ws_send"} /\ pc' = "relay"
          \/ pc = "close_send" /\ pc' = "close_ws"
          \/ pc' = "done"
      BY <1>6 DEF FlushDone, Flushing
    <2> QED
      BY <1>0, <2>1, <2>2, JudgedSame DEF Relaying
  <1>7. CASE FlushFails
    <2>1. UNCHANGED <<kind, hello, sentUp, up>>
      BY <1>7 DEF FlushFails, fixed, peers, received
    <2>2. \/ pc = "tls_pong" /\ pc' = "tls_wait"
          \/ pc \in Relaying \cup {"close_send"} /\ pc' \in {"close_send", "close_ws"}
          \/ pc' \in {"reject_ws", "done"}
      BY <1>7 DEF FlushFails, Await, Reject, BreakLoop, Finish, Relaying
    <2>3. why' = why \/ why' = "other"
      BY <1>7 DEF FlushFails, Await, Reject, BreakLoop, Finish
    <2> QED
      BY <1>0, <2>1, <2>2, <2>3, JudgedSame
  <1>8. CASE Tick \/ Peers \/ UNCHANGED vars
    <2>1. UNCHANGED <<pc, kind, hello, up, why>>
      BY <1>8 DEF Tick, Peers, ClientSends, UpstreamSends, ClientTurns, UpstreamTurns, vars,
                  task, fixed, received
    <2>2. UNCHANGED sentUp \/ \E n \in MsgSizes : sentUp' = sentUp + n
      BY <1>8 DEF Tick, Peers, ClientSends, UpstreamSends, ClientTurns, UpstreamTurns, vars, peers
    <2>3. sentUp <= sentUp'
      BY <1>0, <2>2, Constants
    <2> QED
      BY <2>1, <2>3, JudgedSame
  <1> QED
    BY <1>1, <1>2, <1>3, <1>4, <1>5, <1>6, <1>7, <1>8 DEF Next, Server

-----------------------------------------------------------------------------
(* The verdict on the greeting. *)

\* While the greeting is read it is the beginning of the stream; where it does
\* not pass, the session goes no further and has nothing for the client.
Greeted ==
    kind = "Greeting" =>
       /\ sentDown <= Len(stream)
       /\ pc = "greet_wait" =>
             down = <<>> /\ Run(buf, 0, Len(buf)) /\ Run(tcpIn, Len(buf), sentDown)
       /\ \/ Passes
          \/ /\ pc \in {"greet_wait", "reject_ws", "done"} /\ down = <<>>
             /\ pc = "reject_ws" /\ client # "gone" => Out = <<>>
       /\ why = "verdict" => ~(Passes /\ OnFirstLine)

\* Nothing has been read at first.
LEMMA GreetedInit == Init => Greeted
  <1> SUFFICES ASSUME Init, kind = "Greeting" PROVE Greeted
    BY DEF Greeted
  <1>1. /\ pc = "greet_wait" /\ down = <<>> /\ buf = <<>> /\ tcpIn = <<>> /\ sentDown = 0
        /\ why = "none" /\ stream \in Streams
    BY DEF Init
  <1>2. Len(stream) \in Nat /\ Len(buf) = 0
    BY <1>1, Constants, LenProperties, EmptySeq
  <1>3. Run(<<>>, 0, 0)
    BY RunEmpty
  <1> QED
    BY <1>1, <1>2, <1>3 DEF Greeted

\* A greeting of which the first bytes pass passes, and one that passes and is
\* on its first line passes as soon as it is complete.
LEMMA GreetingOf ==
    ASSUME Typed, NEW greet, NEW n \in Nat, Run(greet, 0, n), n <= Len(stream)
    PROVE  /\ validate_greeting(greet) => Passes
           /\ Passes /\ OnFirstLine /\ greeting_complete(greet) => validate_greeting(greet)
  <1> DEFINE whole == FirstBytes(Len(stream))
  <1>1. stream \in Seq(ByteClass) /\ Len(stream) \in Nat /\ DOMAIN stream = 1 .. Len(stream)
    BY Constants, LenProperties DEF Typed
  <1>2. /\ whole \in Seq(Nat) /\ Len(whole) = Len(stream) /\ DOMAIN whole = 1 .. Len(stream)
        /\ \A i \in 1 .. Len(stream) : whole[i] = i
    BY <1>1 DEF FirstBytes
  <1>3. /\ greet \in Seq(Nat) /\ Len(greet) = n /\ DOMAIN greet = 1 .. n
        /\ \A i \in 1 .. n : greet[i] = i
    BY LenProperties DEF Run
  <1>4. \A i \in 1 .. Len(stream) : Class(i) = stream[i]
    BY <1>1 DEF Class
  <1> HIDE DEF whole
  <1>5. Passes <=> \E i \in 1 .. Len(stream) :
                     /\ \A j \in 1 .. i - 1 : stream[j] \in {"nl", "blank"}
                     /\ stream[i] = "m1" /\ i < Len(stream) /\ stream[i + 1] = "m2"
    <2>1. \A i \in 1 .. Len(stream) : \A j \in 1 .. i - 1 : Class(whole[j]) = stream[j]
      BY <1>1, <1>2, <1>4
    <2>2. \A i \in 1 .. Len(stream) : Class(whole[i]) = stream[i]
      BY <1>2, <1>4
    <2>3. \A i \in 1 .. Len(stream) : i < Len(stream) => Class(whole[i + 1]) = stream[i + 1]
      BY <1>1, <1>2, <1>4
    <2> QED
      BY <1>2, <2>1, <2>2, <2>3, ZenonT(60) DEF Passes, validate_greeting, whole
  <1>6. validate_greeting(greet) <=>
           \E i \in 1 .. n :
              /\ \A j \in 1 .. i - 1 : stream[j] \in {"nl", "blank"}
              /\ stream[i] = "m1" /\ i < n /\ stream[i + 1] = "m2"
    <2>1. \A i \in 1 .. n : \A j \in 1 .. i - 1 : Class(greet[j]) = stream[j]
      BY <1>1, <1>3, <1>4
    <2>2. \A i \in 1 .. n : Class(greet[i]) = stream[i]
      BY <1>1, <1>3, <1>4
    <2>3. \A i \in 1 .. n : i < n => Class(greet[i + 1]) = stream[i + 1]
      BY <1>1, <1>3, <1>4
    <2>4. validate_greeting(greet) <=>
             \E i \in 1 .. n :
                /\ \A j \in 1 .. i - 1 : Class(greet[j]) \in {"nl", "blank"}
                /\ Class(greet[i]) = "m1" /\ i < n /\ Class(greet[i + 1]) = "m2"
      BY <1>3 DEF validate_greeting
    <2>5. \A i \in 1 .. n : (\A j \in 1 .. i - 1 : Class(greet[j]) \in {"nl", "blank"})
                              <=> (\A j \in 1 .. i - 1 : stream[j] \in {"nl", "blank"})
      BY <2>1
    <2> QED
      BY <2>2, <2>3, <2>4, <2>5
  <1>7. validate_greeting(greet) => Passes
    BY <1>1, <1>5, <1>6
  <1>8. ASSUME Passes, OnFirstLine, greeting_complete(greet)
        PROVE  validate_greeting(greet)
    <2>1. PICK i \in 1 .. Len(stream) :
             /\ \A j \in 1 .. i - 1 : stream[j] \in {"nl", "blank"}
             /\ stream[i] = "m1" /\ i < Len(stream) /\ stream[i + 1] = "m2"
      BY <1>5, <1>8
    <2>2. \A k \in 1 .. i - 1 : stream[k] # "nl" /\ k + 2 <= MaxGreeting
      BY <1>1, <1>8, <2>1, SMTT(40) DEF OnFirstLine
    <2>3. (\E k \in 1 .. n : stream[k] = "nl") \/ n >= MaxGreeting
      BY <1>1, <1>3, <1>4, <1>8 DEF greeting_complete
    <2>4. i + 1 <= n
      <3>1. CASE \E k \in 1 .. n : stream[k] = "nl"
        <4>1. PICK k \in 1 .. n : stream[k] = "nl"
          BY <3>1
        <4>2. k \notin 1 .. i - 1 /\ k # i /\ k # i + 1
          BY <2>1, <2>2, <4>1
        <4> QED
          BY <4>2
      <3>2. CASE n >= MaxGreeting
        <4>1. CASE i = 1
          BY <3>2, <4>1, Constants
        <4>2. CASE i # 1
          <5>1. i - 1 \in 1 .. i - 1
            BY <4>2
          <5> QED
            BY <2>2, <3>2, <5>1, Constants
        <4> QED
          BY <4>1, <4>2
      <3> QED
        BY <2>3, <3>1, <3>2
    <2> QED
      BY <1>6, <2>1, <2>4
  <1> QED
    BY <1>7, <1>8

\* A verdict depends on the stream alone.
LEMMA StreamSame ==
    ASSUME UNCHANGED stream
    PROVE  (Passes' <=> Passes) /\ (OnFirstLine' <=> OnFirstLine)
  BY DEF Passes, OnFirstLine, validate_greeting, FirstBytes, Class

\* Once the greeting passed, no step can do harm.
LEMMA GreetedPassed ==
    ASSUME Greeted, UNCHANGED <<kind, stream, sentDown>>, kind = "Greeting" => Passes,
           pc' # "greet_wait", why' = "verdict" => why = "verdict"
    PROVE  Greeted'
  BY StreamSame DEF Greeted

\* probe_greeting judges what it has, wherever it was cut.
LEMMA GreetedRead ==
    ASSUME Typed, Sink, Judged, Greeted, GreetRead
    PROVE  Greeted'
  <1>1. /\ pc = "greet_wait" /\ kind = "Greeting"
        /\ UNCHANGED <<kind, stream, client, down, sentDown>>
    BY DEF GreetRead, Judged, fixed, peers, received, Await, Send, Reject
  <1>2. PICK n \in 1 .. Min({ReadMax, Len(tcpIn)}) :
           LET greet == buf \o SubSeq(tcpIn, 1, n) IN
           /\ TakeTcp(n)
           /\ buf' = greet
           /\ IF ~(greeting_complete(greet) \/ Len(greet) >= MaxGreeting)
              THEN Await("greet_wait", tcp_connect_timeout)
              ELSE \/ validate_greeting(greet) /\ Send("greet_send", data(greet), ws_write_timeout)
                   \/ ~validate_greeting(greet) /\ Reject("verdict")
    BY DEF GreetRead
  <1> DEFINE greet == buf \o SubSeq(tcpIn, 1, n)
             k == Len(buf) + n
  <1>3. n \in 0 .. Len(tcpIn) /\ tcpIn' = SubSeq(tcpIn, n + 1, Len(tcpIn))
    <2>1. n \in 1 .. Len(tcpIn)
      BY Taken
    <2> QED
      BY <1>2, <2>1 DEF TakeTcp
  <1>4. /\ sentDown <= Len(stream) /\ down = <<>>
        /\ Run(buf, 0, Len(buf)) /\ Run(tcpIn, Len(buf), sentDown)
    BY <1>1 DEF Greeted
  <1>5. Run(SubSeq(tcpIn, 1, n), Len(buf), k) /\ Run(tcpIn', k, sentDown)
    BY <1>3, <1>4, RunCut
  <1>6. Run(greet, 0, k)
    BY <1>4, <1>5, RunConcat
  <1>7. k \in Nat /\ k <= sentDown /\ Len(greet) = k
    BY <1>5, <1>6, RunBounds
  <1>8. Len(stream) \in Nat /\ sentDown \in Nat
    BY Constants, LenProperties DEF Typed
  <1>9. k <= Len(stream)
    BY <1>4, <1>7, <1>8
  <1> HIDE DEF greet, k
  <1>10. /\ validate_greeting(greet) => Passes
         /\ Passes /\ OnFirstLine /\ greeting_complete(greet) => validate_greeting(greet)
    BY <1>6, <1>7, <1>9, GreetingOf
  <1>11. (Passes' <=> Passes) /\ (OnFirstLine' <=> OnFirstLine) /\ stream' = stream
    BY <1>1, StreamSame
  <1>12. wsOut = <<>> \/ client = "gone"
    BY <1>1 DEF Sink, Idle
  <1>13. CASE Await("greet_wait", tcp_connect_timeout)
    <2>1. pc' = "greet_wait" /\ why' = why /\ buf' = greet /\ Len(buf') = k
      BY <1>2, <1>7, <1>13 DEF Await, greet
    <2> QED
      BY <1>1, <1>4, <1>5, <1>6, <1>11, <2>1 DEF Greeted
  <1>14. CASE validate_greeting(greet) /\ Send("greet_send", data(greet), ws_write_timeout)
    <2>1. pc' = "greet_send" /\ why' = why /\ Passes
      BY <1>10, <1>14 DEF Send
    <2> QED
      BY <1>1, <2>1, GreetedPassed
  <1>15. CASE ~validate_greeting(greet) /\ greeting_complete(greet) /\ Reject("verdict")
    <2>1. pc' = "reject_ws" /\ wsOut' = Append(wsOut, control("close"))
      BY <1>15 DEF Reject
    <2>2. control("close") \in Message /\ control("close").data = <<>>
      BY Messages
    <2>3. wsOut = <<>> => Out' = <<>>
      BY <2>1, <2>2, OutAppend
    <2>4. ~(Passes /\ OnFirstLine)
      BY <1>10, <1>15
    <2> QED
      BY <1>1, <1>4, <1>11, <1>12, <2>1, <2>3, <2>4 DEF Greeted
  <1>16. Len(greet) >= MaxGreeting => greeting_complete(greet)
    BY DEF greeting_complete
  <1> QED
    BY <1>2, <1>13, <1>14, <1>15, <1>16 DEF greet

\* No other step judges a greeting or goes past the verdict.
LEMMA GreetedNext == Typed /\ Sink /\ Judged /\ Greeted /\ [Next]_vars => Greeted'
  <1> SUFFICES ASSUME Typed, Sink, Judged, Greeted, [Next]_vars PROVE Greeted'
    OBVIOUS
  <1>1. CASE TlsRead \/ TlsFails
    <2>1. kind' = "TlsSni"
      BY <1>1 DEF TlsRead, TlsFails, fixed, Judged
    <2> QED
      BY <2>1 DEF Greeted
  <1>2. CASE GreetRead
    BY <1>2, GreetedRead
  <1>3. CASE GreetFails
    <2>1. /\ pc = "greet_wait" /\ pc' = "reject_ws" /\ why' = "other"
          /\ wsOut' = Append(wsOut, control("close"))
          /\ UNCHANGED <<kind, stream, client, down, sentDown>>
      BY <1>3 DEF GreetFails, Reject, fixed, peers, received
    <2>2. control("close") \in Message /\ control("close").data = <<>>
      BY Messages
    <2>3. wsOut = <<>> => Out' = <<>>
      BY <2>1, <2>2, OutAppend
    <2>4. wsOut = <<>> \/ client = "gone"
      BY <2>1 DEF Sink, Idle
    <2> QED
      BY <2>1, <2>3, <2>4, StreamSame DEF Greeted
  <1>4. CASE LifetimeReached \/ ReadWs \/ WsLost \/ IdlePing \/ ReadTcp \/ TcpEnds
    <2>1. UNCHANGED <<kind, stream, sentDown>> /\ pc = "relay"
      BY <1>4 DEF LifetimeReached, ReadWs, WsLost, IdlePing, ReadTcp, TcpEnds, PollTcp, InLoop,
                  fixed, peers
    <2>2. pc' \in Relaying \cup {"close_send"} /\ (why' = why \/ why' \in {"close", "eof", "other"})
      BY <1>4 DEF LifetimeReached, ReadWs, WsLost, IdlePing, ReadTcp, TcpEnds, Charge,
                  Await, Send, Loop, BreakLoop, Relaying
    <2>3. kind = "Greeting" => Passes
      BY <2>1 DEF Greeted
    <2> QED
      BY <2>1, <2>2, <2>3, GreetedPassed DEF Relaying
  <1>5. CASE WriteDone \/ WriteFails
    <2>1. UNCHANGED <<kind, stream, sentDown>> /\ pc \in {"hello_write", "tcp_write"}
      BY <1>5 DEF WriteDone, WriteFails, Writing, fixed, peers
    <2>2. pc' \in {"relay", "reject_ws", "close_send"} /\ (why' = why \/ why' = "other")
      BY <1>5 DEF WriteDone, WriteFails, StartRelay, Loop, Reject, BreakLoop
    <2>3. kind = "Greeting" => Passes
      BY <2>1 DEF Greeted
    <2> QED
      BY <2>1, <2>2, <2>3, GreetedPassed
  <1>6. CASE FlushDone
    <2>1. /\ UNCHANGED <<kind, stream, sentDown, why, client>> /\ client = "reading"
          /\ pc \in Flushing /\ (pc' = "done" \/ pc # "reject_ws")
          /\ pc' \in {"tls_wait", "relay", "close_ws", "done"}
      BY <1>6 DEF FlushDone, fixed, peers, Flushing
    <2>2. down' = down \o Out
      BY <1>6, <2>1, FlatIs DEF FlushDone
    <2>3. CASE kind = "Greeting" => Passes
      BY <2>1, <2>3, GreetedPassed
    <2>4. CASE kind = "Greeting" /\ ~Passes
      <3>1. pc = "reject_ws" /\ down = <<>> /\ Out = <<>>
        BY <2>1, <2>4 DEF Greeted, Flushing
      <3>2. down' = <<>>
        BY <2>2, <3>1, EmptySeq, ConcatEmptySeq
      <3> QED
        BY <2>1, <2>4, <3>1, <3>2, StreamSame DEF Greeted
    <2> QED
      BY <2>3, <2>4
  <1>7. CASE FlushFails
    <2>1. UNCHANGED <<kind, stream, sentDown, client, down>> /\ pc \in Flushing
      BY <1>7 DEF FlushFails, fixed, peers, received
    <2>2. /\ pc' \in {"tls_wait", "reject_ws", "close_send", "close_ws", "done"}
          /\ pc = "reject_ws" => pc' = "done"
          /\ why' = why \/ why' = "other"
      BY <1>7 DEF FlushFails, Await, Reject, BreakLoop, Finish
    <2>3. CASE kind = "Greeting" => Passes
      BY <2>1, <2>2, <2>3, GreetedPassed
    <2>4. CASE kind = "Greeting" /\ ~Passes
      <3>1. pc = "reject_ws" /\ down = <<>>
        BY <2>1, <2>4 DEF Greeted, Flushing
      <3> QED
        BY <2>1, <2>2, <2>4, <3>1, StreamSame DEF Greeted
    <2> QED
      BY <2>3, <2>4
  <1>8. CASE Tick \/ Peers \/ UNCHANGED vars
    <2>1. /\ UNCHANGED <<pc, kind, stream, buf, down, wsOut, why>>
          /\ client' # "gone" => client # "gone"
      BY <1>8 DEF Tick, Peers, ClientSends, UpstreamSends, ClientTurns, UpstreamTurns, vars,
                  task, fixed, peers, received
    <2>2. Out' = Out /\ (Passes' <=> Passes) /\ (OnFirstLine' <=> OnFirstLine)
      BY <2>1, StreamSame DEF Out
    <2>3. CASE UNCHANGED <<sentDown, tcpIn>>
      BY <2>1, <2>2, <2>3 DEF Greeted
    <2>4. CASE UpstreamSends
      <3>1. /\ sentDown' = sentDown + 1 /\ tcpIn' = Append(tcpIn, sentDown + 1)
            /\ sentDown < Len(stream) /\ sentDown \in Nat /\ Len(stream) \in Nat
        BY <2>4, Constants, LenProperties DEF UpstreamSends, Typed
      <3>2. sentDown' <= Len(stream')
        BY <2>1, <3>1
      <3>3. Run(tcpIn, Len(buf), sentDown) => Run(tcpIn', Len(buf'), sentDown')
        BY <2>1, <3>1, RunAppend
      <3> QED
        BY <2>1, <2>2, <3>2, <3>3 DEF Greeted
    <2>5. UNCHANGED <<sentDown, tcpIn>> \/ UpstreamSends
      BY <1>8 DEF Tick, Peers, ClientSends, ClientTurns, UpstreamTurns, vars, inputs, peers
    <2> QED
      BY <2>3, <2>4, <2>5
  <1> QED
    BY <1>1, <1>2, <1>3, <1>4, <1>5, <1>6, <1>7, <1>8 DEF Next, Server

-----------------------------------------------------------------------------
(* The cap. *)

\* Bytes on their way to the client, to the upstream.
Pending == IF client = "gone" THEN 0 ELSE Len(Out)
Writes == IF pc = "tcp_write" THEN Len(buf) ELSE 0

\* What was moved and what is on its way has been counted.
Capped ==
    /\ pc \in Probing => Len(up) = 0 /\ Len(down) = 0 /\ probed = 0 /\ conn_bytes = 0
    /\ pc \in Relaying =>
          /\ Relayed + Writes + Pending <= conn_bytes
          /\ max_bytes_per_connection # 0 => conn_bytes <= max_bytes_per_connection
    /\ max_bytes_per_connection # 0 /\ pc \in {"close_send", "close_ws"} =>
          Relayed + Pending <= max_bytes_per_connection

\* The lengths and counts of a state are numbers.
LEMMA Numbers ==
    ASSUME Typed, Download
    PROVE  /\ Len(up) \in Nat /\ Len(down) \in Nat /\ Len(buf) \in Nat /\ probed \in Nat
           /\ conn_bytes \in Nat /\ max_bytes_per_connection \in Nat
           /\ Pending \in Nat /\ Writes \in Nat /\ Relayed \in Int
           /\ Relayed = Len(up) + Len(down) - probed
  <1>1. /\ Len(up) \in Nat /\ Len(buf) \in Nat /\ probed \in Nat
        /\ conn_bytes \in Nat /\ max_bytes_per_connection \in Nat
    BY LenProperties, Constants DEF Typed
  <1>2. Len(down) \in Nat
    BY RunBounds DEF Download
  <1>3. Len(Out) \in Nat
    BY SinkTyped
  <1> QED
    BY <1>1, <1>2, <1>3 DEF Pending, Writes, Relayed

\* So are those of the next one.
LEMMA NumbersNext ==
    ASSUME Typed', Download'
    PROVE  /\ Len(up') \in Nat /\ Len(down') \in Nat /\ Len(buf') \in Nat /\ probed' \in Nat
           /\ Pending' \in Nat /\ Writes' \in Nat /\ Relayed' \in Int
  <1>1. /\ Len(up') \in Nat /\ Len(buf') \in Nat /\ probed' \in Nat
    BY LenProperties DEF Typed
  <1>2. Len(down') \in Nat
    BY RunBounds DEF Download
  <1>3. Len(Out') \in Nat
    <2>1. wsOut' \in Seq(Message)
      BY DEF Typed
    <2>2. CASE wsOut' = <<>>
      BY <2>2, EmptySeq DEF Out
    <2>3. CASE wsOut' # <<>>
      <3>1. 1 \in 1 .. Len(wsOut')
        BY <2>1, <2>3, EmptySeq
      <3>2. wsOut'[1].data \in Seq(Nat)
        BY <2>1, <3>1, ElementOfSeq DEF Message
      <3> QED
        BY <2>3, <3>2, LenProperties DEF Out
    <2> QED
      BY <2>2, <2>3
  <1> QED
    BY <1>1, <1>2, <1>3 DEF Pending, Writes, Relayed

\* Nothing is counted at first.
LEMMA CappedInit == Init => Capped
  <1> SUFFICES ASSUME Init PROVE Capped
    OBVIOUS
  <1>1. pc \in {"tls_wait", "greet_wait", "relay"}
    BY Constants DEF Init
  <1>2. /\ Len(up) = 0 /\ Len(down) = 0 /\ probed = 0 /\ conn_bytes = 0 /\ client = "reading"
        /\ Out = <<>> /\ Len(Out) = 0
    BY EmptySeq DEF Init, Out
  <1>3. Relayed = 0 /\ Writes = 0 /\ Pending = 0
    BY <1>1, <1>2 DEF Relayed, Writes, Pending
  <1> QED
    BY <1>1, <1>2, <1>3, Constants DEF Capped, Probing, Relaying

\* The two inequalities that the cap comes down to.
LEMMA Sums ==
    ASSUME NEW r \in Int, NEW w \in Int, NEW p \in Int, NEW c \in Int, r + w + p <= c
    PROVE  /\ \A s \in Int, m \in Int : s <= r + w /\ c <= m => s + p <= m
           /\ \A n \in Int, v \in Int, q \in Int :
                 w = 0 /\ v + q <= p + n => r + v + q <= c + n
  OBVIOUS

\* The relay ends; a part of what was being written may have been.
LEMMA CappedEnds ==
    ASSUME Typed, Typed', Download, Download', Capped, pc \in Relaying, pc' = "close_send",
           Pending' = Pending, Relayed' <= Relayed + Writes
    PROVE  Capped'
  <1>1. /\ Relayed \in Int /\ Relayed' \in Int /\ Writes \in Nat /\ Pending \in Nat
        /\ conn_bytes \in Nat /\ max_bytes_per_connection \in Nat
    BY Numbers, NumbersNext
  <1>2. /\ Relayed + Writes + Pending <= conn_bytes
        /\ max_bytes_per_connection # 0 => conn_bytes <= max_bytes_per_connection
    BY DEF Capped
  <1>3. max_bytes_per_connection # 0 => Relayed' + Pending' <= max_bytes_per_connection
    <2>1. \A s \in Int, m \in Int : s <= Relayed + Writes /\ conn_bytes <= m => s + Pending <= m
      BY <1>1, <1>2, Sums
    <2>2. max_bytes_per_connection \in Int /\ Relayed' \in Int
      BY <1>1
    <2>3. max_bytes_per_connection # 0 => Relayed' + Pending <= max_bytes_per_connection
      BY <1>2, <2>1, <2>2, Zenon
    <2> QED
      BY <2>3
  <1> QED
    BY <1>3 DEF Capped, Probing, Relaying

\* The relay goes on; n bytes more are counted and on their way.
LEMMA CappedGoes ==
    ASSUME Typed, Typed', Download, Download', Capped, pc = "relay", pc' \in Relaying,
           UNCHANGED <<up, down, probed>>,
           NEW n \in Nat, conn_bytes' = conn_bytes + n, n = 0 \/ ~over_conn_bytes(conn_bytes + n),
           Writes' + Pending' <= Pending + n
    PROVE  Capped'
  <1>1. /\ Relayed \in Int /\ Writes' \in Nat /\ Pending \in Nat /\ Pending' \in Nat
        /\ conn_bytes \in Nat /\ max_bytes_per_connection \in Nat
    BY Numbers, NumbersNext
  <1>2. Relayed' = Relayed /\ Writes = 0
    BY DEF Relayed, Writes
  <1>3. /\ Relayed + Writes + Pending <= conn_bytes
        /\ max_bytes_per_connection # 0 => conn_bytes <= max_bytes_per_connection
    BY DEF Capped, Relaying
  <1>4. Relayed' + Writes' + Pending' <= conn_bytes'
    <2>1. \A v \in Int, q \in Int : v + q <= Pending + n => Relayed + v + q <= conn_bytes + n
      BY <1>1, <1>2, <1>3, Sums
    <2>2. Writes' \in Int /\ Pending' \in Int
      BY <1>1
    <2>3. Relayed + Writes' + Pending' <= conn_bytes + n
      BY <2>1, <2>2, Zenon
    <2> QED
      BY <1>2, <2>3
  <1>5. max_bytes_per_connection # 0 => conn_bytes' <= max_bytes_per_connection
    BY <1>1, <1>3 DEF over_conn_bytes
  <1> QED
    BY <1>4, <1>5 DEF Capped, Probing, Relaying

\* The probes count nothing and move nothing on.
LEMMA CappedProbe ==
    ASSUME Typed, Capped, TlsRead \/ TlsFails \/ GreetRead \/ GreetFails
    PROVE  Capped'
  <1>1. UNCHANGED <<up, down, probed, conn_bytes>> /\ pc \in Probing
    BY DEF TlsRead, TlsFails, GreetRead, GreetFails, Await, Send, Reject, clocksUnchanged,
           received, Probing
  <1>2. pc' \in Probing \cup {"reject_ws"}
    BY DEF TlsRead, TlsFails, GreetRead, GreetFails, Await, Send, Reject, Probing
  <1> QED
    BY <1>1, <1>2 DEF Capped, Probing, Relaying

\* The relay loop counts what it takes, before it passes it on.
LEMMA CappedRelay ==
    ASSUME Typed, Typed', Sink, Download, Download', Capped,
           LifetimeReached \/ ReadWs \/ WsLost \/ IdlePing \/ ReadTcp \/ TcpEnds
    PROVE  Capped'
  <1>0. UNCHANGED <<client, up, down>> /\ pc = "relay" /\ pc \notin Over /\ pc \in Idle /\ pc \in Relaying
    BY DEF LifetimeReached, ReadWs, WsLost, IdlePing, ReadTcp, TcpEnds, PollTcp, InLoop,
           peers, received, Over, Closing, Idle, Relaying
  <1>1. Pending \in Nat /\ Writes \in Nat /\ Relayed \in Int /\ conn_bytes \in Nat
    BY Numbers
  <1>2. ASSUME NEW r, BreakLoop(r)
        PROVE  Capped'
    <2>1. Out' = Out /\ pc' = "close_send" /\ UNCHANGED probed
      BY <1>0, <1>2, SinkMoves DEF BreakLoop, clocksUnchanged
    <2>2. Pending' = Pending /\ Relayed' = Relayed
      BY <1>0, <2>1 DEF Pending, Relayed
    <2>3. Relayed' <= Relayed + Writes
      BY <1>1, <2>2
    <2> QED
      BY <1>0, <2>1, <2>2, <2>3, CappedEnds
  <1>3. ASSUME NEW m \in Message, Send("ws_send", m, ws_write_timeout)
        PROVE  /\ pc' = "ws_send" /\ UNCHANGED probed /\ Writes' = 0
               /\ Len(m.data) \in Nat /\ Pending' <= Len(m.data)
    <2>1. pc' = "ws_send" /\ UNCHANGED probed /\ (client # "gone" => Out' = m.data)
      BY <1>0, <1>3, SinkMoves DEF Send, clocksUnchanged
    <2>2. m.data \in Seq(Nat) /\ Len(m.data) \in Nat
      BY LenProperties DEF Message
    <2> QED
      BY <1>0, <2>1, <2>2 DEF Pending, Writes
  <1>4. ASSUME NEW k \in {"ping", "pong"}, Send("ws_send", control(k), ws_write_timeout),
               UNCHANGED conn_bytes
        PROVE  Capped'
    <2>1. control(k) \in Message /\ Len(control(k).data) = 0
      BY Messages, EmptySeq
    <2>2. pc' = "ws_send" /\ UNCHANGED probed /\ Writes' = 0 /\ Pending' <= 0
      BY <1>3, <1>4, <2>1
    <2>3. Writes' + Pending' <= Pending + 0 /\ conn_bytes' = conn_bytes + 0
      BY <1>1, <1>4, <2>2, NumbersNext
    <2> QED
      BY <1>0, <2>2, <2>3, CappedGoes DEF Relaying
  <1>5. CASE LifetimeReached \/ WsLost \/ TcpEnds
    BY <1>2, <1>5 DEF LifetimeReached, WsLost, TcpEnds
  <1>6. CASE ReadWs
    <2> DEFINE n == Len(Head(wsIn).data)
    <2>1. n \in Nat
      <3>1. wsIn # <<>>
        BY <1>6 DEF ReadWs
      <3>2. Head(wsIn).data \in Seq(Nat)
        BY <3>1, Taken DEF Message
      <3> QED
        BY <3>2, LenProperties
    <2>2. CASE /\ conn_bytes' = conn_bytes + n /\ ~over_conn_bytes(conn_bytes + n)
               /\ Await("tcp_write", tcp_write_timeout) /\ buf' = Head(wsIn).data
      <3>1. pc' = "tcp_write" /\ UNCHANGED <<wsOut, probed>> /\ Len(buf') = n
        BY <2>2 DEF Await, clocksUnchanged
      <3>2. Writes' = n /\ Pending' = Pending
        BY <1>0, <3>1 DEF Writes, Pending, Out
      <3>3. Writes' + Pending' <= Pending + n
        BY <1>1, <2>1, <3>2
      <3> QED
        BY <1>0, <2>1, <2>2, <3>1, <3>3, CappedGoes DEF Relaying
    <2>3. CASE Loop /\ UNCHANGED conn_bytes
      <3>1. pc' = "relay" /\ UNCHANGED <<wsOut, probed>>
        BY <2>3 DEF Loop, clocksUnchanged
      <3>2. Writes' = 0 /\ Pending' = Pending
        BY <1>0, <3>1 DEF Writes, Pending, Out
      <3>3. Writes' + Pending' <= Pending + 0 /\ conn_bytes' = conn_bytes + 0
        BY <1>1, <2>3, <3>2
      <3> QED
        BY <1>0, <3>1, <3>3, CappedGoes DEF Relaying
    <2>4. CASE Send("ws_send", control("pong"), ws_write_timeout) /\ UNCHANGED conn_bytes
      BY <1>4, <2>4
    <2>5. CASE \E r : BreakLoop(r)
      BY <1>2, <2>5
    <2> QED
      BY <1>6, <2>2, <2>3, <2>4, <2>5 DEF ReadWs, Charge
  <1>7. CASE IdlePing
    BY <1>4, <1>7 DEF IdlePing
  <1>8. CASE ReadTcp
    <2>1. PICK n \in 1 .. Min({ReadMax, Len(tcpIn)}) :
             Charge(n, Send("ws_send", data(SubSeq(tcpIn, 1, n)), ws_write_timeout))
      BY <1>8 DEF ReadTcp
    <2> DEFINE chunk == SubSeq(tcpIn, 1, n)
    <2>2. chunk \in Seq(Nat) /\ Len(chunk) = n /\ n \in Nat
      <3>1. chunk \in Seq(Nat) /\ Len(chunk) = n
        BY Taken
      <3> QED
        BY <3>1, LenProperties
    <2>3. data(chunk) \in Message /\ data(chunk).data = chunk
      BY <2>2, Messages
    <2> HIDE DEF chunk
    <2>4. CASE \E r : BreakLoop(r)
      BY <1>2, <2>4
    <2>5. CASE /\ conn_bytes' = conn_bytes + n /\ ~over_conn_bytes(conn_bytes + n)
               /\ Send("ws_send", data(chunk), ws_write_timeout)
      <3>1. pc' = "ws_send" /\ UNCHANGED probed /\ Writes' = 0 /\ Pending' <= n
        BY <1>3, <2>2, <2>3, <2>5
      <3>2. Pending' \in Nat
        BY NumbersNext
      <3>3. Writes' + Pending' <= Pending + n
        <4>1. \A q \in Nat, v \in Nat : v <= n => 0 + v <= q + n
          BY <2>2
        <4> QED
          BY <1>1, <3>1, <3>2, <4>1
      <3> QED
        BY <1>0, <2>2, <2>5, <3>1, <3>3, CappedGoes DEF Relaying
    <2> QED
      BY <2>1, <2>4, <2>5 DEF Charge, chunk
  <1> QED
    BY <1>5, <1>6, <1>7, <1>8

\* A write moves what was counted when it was read.
LEMMA CappedWrite ==
    ASSUME Typed, Typed', Upload, Sink, Download, Download', Capped, WriteDone \/ WriteFails
    PROVE  Capped'
  <1>0. /\ Len(up) \in Nat /\ Len(down) \in Nat /\ Len(buf) \in Nat /\ Pending \in Nat
        /\ Relayed \in Int /\ Relayed = Len(up) + Len(down) - probed
        /\ conn_bytes \in Nat /\ probed \in Nat
    BY Numbers
  <1>1. /\ UNCHANGED <<client, down, conn_bytes, sentUp, wsIn>>
        /\ pc \in {"hello_write", "tcp_write"} /\ pc \in Writing /\ pc \notin Over
    BY DEF WriteDone, WriteFails, Writing, inputs, peers, Over, Closing
  <1>2. CASE WriteDone
    <2>1. UNCHANGED wsOut /\ pc' = "relay" /\ up' = up \o buf
      BY <1>2 DEF WriteDone, StartRelay, Loop
    <2>2. Len(up') = Len(up) + Len(buf)
      BY <2>1, ConcatProperties DEF Typed
    <2>3. Pending' = Pending /\ Writes' = 0
      BY <1>1, <2>1 DEF Pending, Out, Writes
    <2>4. CASE pc = "hello_write"
      <3>1. probed' = Len(buf)
        BY <1>2, <2>4 DEF WriteDone, StartRelay
      <3>2. Len(up) = 0 /\ Len(down) = 0 /\ conn_bytes = 0
        BY <2>4 DEF Capped, Probing
      <3>3. Pending = 0
        BY <2>4, EmptySeq DEF Pending, Out, Sink, Idle
      <3>4. Relayed' = 0
        BY <1>0, <1>1, <2>2, <3>1, <3>2 DEF Relayed
      <3>5. Relayed' + Writes' + Pending' <= conn_bytes'
        BY <1>1, <2>3, <3>2, <3>3, <3>4
      <3>6. conn_bytes' = 0 /\ max_bytes_per_connection \in Nat
        BY <1>1, <3>2, Constants
      <3> QED
        BY <2>1, <3>5, <3>6 DEF Capped, Probing, Relaying
    <2>5. CASE pc = "tcp_write"
      <3>1. probed' = probed /\ Writes = Len(buf)
        BY <1>2, <2>5 DEF WriteDone, Loop, clocksUnchanged, Writes
      <3>2. Relayed' = Relayed + Writes
        BY <1>0, <1>1, <2>2, <3>1 DEF Relayed
      <3>3. /\ Relayed + Writes + Pending <= conn_bytes
            /\ max_bytes_per_connection # 0 => conn_bytes <= max_bytes_per_connection
        BY <2>5 DEF Capped, Relaying
      <3>4. Relayed' + Writes' + Pending' <= conn_bytes'
        <4>1. (Relayed + Writes) + 0 + Pending <= conn_bytes
          BY <1>0, <3>1, <3>3
        <4> QED
          BY <1>1, <2>3, <3>2, <4>1
      <3> QED
        BY <1>1, <2>1, <3>3, <3>4 DEF Capped, Probing, Relaying
    <2> QED
      BY <1>1, <2>4, <2>5
  <1>3. CASE WriteFails
    <2>1. PICK n \in 0 .. Len(buf) - 1 : up' = up \o SubSeq(buf, 1, n)
      BY <1>3 DEF WriteFails
    <2>2. n \in 0 .. Len(buf) /\ n \in Nat
      BY <1>0
    <2>3. CASE pc = "hello_write"
      <3>1. pc' = "reject_ws"
        BY <1>3, <2>3 DEF WriteFails, Reject
      <3> QED
        BY <3>1 DEF Capped, Probing, Relaying
    <2>4. CASE pc = "tcp_write"
      <3>1. BreakLoop("other")
        BY <1>3, <2>4 DEF WriteFails
      <3>2. pc' = "close_send" /\ UNCHANGED probed /\ Out' = Out
        BY <1>1, <3>1, SinkMoves DEF BreakLoop, clocksUnchanged
      <3>3. Pending' = Pending /\ Writes = Len(buf)
        BY <1>1, <2>4, <3>2 DEF Pending, Writes
      <3>4. pc' \in Over
        BY <3>2 DEF Over, Closing
      <3>5. Len(up') = Len(up) + n
        BY <1>1, <2>1, <2>2, <3>4, UploadWritten
      <3>6. Relayed' = Relayed + n
        BY <1>0, <1>1, <2>2, <3>2, <3>5 DEF Relayed
      <3>7. Relayed + n <= Relayed + Writes
        BY <1>0, <2>2, <3>3
      <3> QED
        BY <2>4, <3>2, <3>3, <3>6, <3>7, CappedEnds DEF Relaying
    <2> QED
      BY <1>1, <2>3, <2>4
  <1> QED
    BY <1>2, <1>3

\* A flush moves what was counted when it was read.
LEMMA CappedFlush ==
    ASSUME Typed, Typed', Sink, Download, Download', Capped, FlushDone \/ FlushFails
    PROVE  Capped'
  <1>0. /\ Len(up) \in Nat /\ Len(down) \in Nat /\ Len(buf) \in Nat /\ Pending \in Nat
        /\ Relayed \in Int /\ Relayed = Len(up) + Len(down) - probed
        /\ conn_bytes \in Nat /\ probed \in Nat /\ max_bytes_per_connection \in Nat
    BY Numbers
  <1>1. CASE FlushDone
    <2>1. /\ Len(down') = Len(down) + Len(Out) /\ Out' = <<>> /\ Len(<<>>) = 0
          /\ UNCHANGED <<up, client, conn_bytes>> /\ client = "reading"
      BY <1>1, DownloadFlushed, EmptySeq DEF FlushDone, peers
    <2>2. Pending = Len(Out) /\ Pending' = 0
      BY <2>1 DEF Pending
    <2>3. CASE pc = "tls_pong"
      <3>1. pc' = "tls_wait" /\ UNCHANGED probed
        BY <1>1, <2>3 DEF FlushDone
      <3>2. Len(Out) = 0
        BY <2>1, <2>3 DEF Sink
      <3> QED
        BY <2>1, <2>3, <3>1, <3>2 DEF Capped, Probing, Relaying
    <2>4. CASE pc = "greet_send"
      <3>1. pc' = "relay" /\ probed' = Len(buf) /\ Out = buf
        BY <1>1, <2>1, <2>4 DEF FlushDone, Sink
      <3>2. Len(up) = 0 /\ Len(down) = 0 /\ conn_bytes = 0
        BY <2>4 DEF Capped, Probing
      <3>3. Relayed' = 0 /\ Writes' = 0
        BY <1>0, <2>1, <3>1, <3>2 DEF Relayed, Writes
      <3>4. Relayed' + Writes' + Pending' <= conn_bytes'
        BY <2>1, <2>2, <3>2, <3>3
      <3> QED
        BY <1>0, <2>1, <3>1, <3>2, <3>4 DEF Capped, Probing, Relaying
    <2>5. CASE pc \in {"ws_send", "close_send", "close_ws", "reject_ws"}
      <3>1. /\ UNCHANGED probed
            /\ \/ pc = "ws_send" /\ pc' = "relay"
               \/ pc = "close_send" /\ pc' = "close_ws"
               \/ pc' = "done"
        BY <1>1, <2>5 DEF FlushDone
      <3>2. Relayed' = Relayed + Pending
        BY <1>0, <2>1, <2>2, <3>1 DEF Relayed
      <3>3. Relayed' + Pending' = Relayed + Pending
        BY <1>0, <2>2, <3>2
      <3>4. CASE pc = "ws_send"
        <4>1. Writes = 0 /\ Writes' = 0
          BY <3>1, <3>4 DEF Writes
        <4>2. Relayed + 0 + Pending <= conn_bytes
          BY <3>4, <4>1 DEF Capped, Relaying
        <4>3. (Relayed + Pending) + 0 + 0 <= conn_bytes
          BY <1>0, <4>2
        <4>4. Relayed' + Writes' + Pending' <= conn_bytes'
          BY <2>1, <2>2, <3>2, <4>1, <4>3
        <4> QED
          BY <2>1, <3>1, <3>4, <4>4 DEF Capped, Probing, Relaying
      <3>5. CASE pc = "close_send" /\ pc' = "close_ws"
        BY <3>3, <3>5 DEF Capped, Probing, Relaying
      <3>6. CASE pc' = "done"
        BY <3>6 DEF Capped, Probing, Relaying
      <3> QED
        BY <3>1, <3>4, <3>5, <3>6
    <2> QED
      BY <1>1, <2>3, <2>4, <2>5 DEF FlushDone, Flushing
  <1>2. CASE FlushFails
    <2>1. UNCHANGED <<up, down, client, conn_bytes, probed>>
      BY <1>2 DEF FlushFails, Await, Reject, BreakLoop, Finish, clocksUnchanged, peers, received
    <2>2. Relayed' = Relayed
      BY <2>1 DEF Relayed
    <2>3. CASE pc = "tls_pong"
      <3>1. pc' = "tls_wait"
        BY <1>2, <2>3 DEF FlushFails, Await
      <3> QED
        BY <2>1, <2>3, <3>1 DEF Capped, Probing, Relaying
    <2>4. CASE pc = "ws_send"
      <3>1. BreakLoop("other") /\ pc \notin Over
        BY <1>2, <2>4 DEF FlushFails, Over, Closing
      <3>2. pc' = "close_send" /\ Out' = Out
        BY <2>1, <3>1, SinkMoves DEF BreakLoop
      <3>3. Pending' = Pending /\ Writes = 0
        BY <2>1, <2>4, <3>2 DEF Pending, Writes
      <3>4. Relayed' <= Relayed + Writes
        BY <1>0, <2>2, <3>3
      <3> QED
        BY <2>4, <3>2, <3>3, <3>4, CappedEnds DEF Relaying
    <2>5. CASE pc = "close_send"
      <3>1. pc' = "close_ws" /\ UNCHANGED wsOut
        BY <1>2, <2>5 DEF FlushFails, Await
      <3>2. Pending' = Pending
        BY <2>1, <3>1 DEF Pending, Out
      <3> QED
        BY <2>2, <2>5, <3>1, <3>2 DEF Capped, Probing, Relaying
    <2>6. CASE pc \in {"greet_send", "close_ws", "reject_ws"}
      <3>1. pc' \in {"reject_ws", "done"}
        BY <1>2, <2>6 DEF FlushFails, Reject, Finish
      <3> QED
        BY <3>1 DEF Capped, Probing, Relaying
    <2> QED
      BY <1>2, <2>3, <2>4, <2>5, <2>6 DEF FlushFails, Flushing
  <1> QED
    BY <1>1, <1>2

\* Every step keeps the count above what was moved.
LEMMA CappedNext ==
    Typed /\ Typed' /\ Upload /\ Sink /\ Download /\ Download' /\ Capped /\ [Next]_vars => Capped'
  <1> SUFFICES ASSUME Typed, Typed', Upload, Sink, Download, Download', Capped, [Next]_vars
               PROVE  Capped'
    OBVIOUS
  <1>1. CASE Server
    BY <1>1, CappedProbe, CappedRelay, CappedWrite, CappedFlush DEF Server
  <1>2. CASE Tick \/ Peers \/ UNCHANGED vars
    <2>1. /\ UNCHANGED <<pc, buf, up, down, wsOut, probed, conn_bytes>>
          /\ client = "gone" => client' = "gone"
      BY <1>2 DEF Tick, Peers, ClientSends, UpstreamSends, ClientTurns, UpstreamTurns, vars,
                  task, peers, received
    <2>2. Relayed' = Relayed /\ Writes' = Writes /\ (Pending' = Pending \/ Pending' = 0)
      BY <2>1 DEF Relayed, Writes, Pending, Out
    <2>3. Relayed \in Int /\ Writes \in Nat /\ Pending \in Nat /\ conn_bytes \in Nat
          /\ max_bytes_per_connection \in Nat
      BY Numbers
    <2>4. CASE Pending' = Pending
      BY <2>1, <2>2, <2>4 DEF Capped, Probing, Relaying
    <2>5. CASE Pending' = 0
      <3>1. Relayed + Writes + 0 <= Relayed + Writes + Pending /\ Relayed + 0 <= Relayed + Pending
        BY <2>3
      <3>2. pc \in Relaying => Relayed + Writes + 0 <= conn_bytes
        BY <2>3, <3>1 DEF Capped
      <3>3. max_bytes_per_connection # 0 /\ pc \in {"close_send", "close_ws"} =>
               Relayed + 0 <= max_bytes_per_connection
        BY <2>3, <3>1 DEF Capped
      <3> QED
        BY <2>1, <2>2, <2>5, <3>2, <3>3 DEF Capped, Probing, Relaying
    <2> QED
      BY <2>2, <2>4, <2>5
  <1> QED
    BY <1>1, <1>2 DEF Next

\* What was moved is below the cap because the count is.
LEMMA CappedImplies == Typed /\ Download /\ Capped => RelayWithinCap
  <1> SUFFICES ASSUME Typed, Download, Capped, max_bytes_per_connection # 0,
                      pc \in Relaying \cup {"close_send", "close_ws"}
               PROVE  Relayed <= max_bytes_per_connection
    BY DEF RelayWithinCap
  <1>1. /\ Relayed \in Int /\ Writes \in Nat /\ Pending \in Nat /\ conn_bytes \in Nat
        /\ max_bytes_per_connection \in Nat
    BY Numbers
  <1>2. \/ Relayed + Writes + Pending <= conn_bytes /\ conn_bytes <= max_bytes_per_connection
        \/ Relayed + Pending <= max_bytes_per_connection
    BY DEF Capped
  <1> QED
    BY <1>1, <1>2

-----------------------------------------------------------------------------
(* Goodbyes from the peers. *)

UpstreamHeard ==
    why = "eof" =>
       /\ pc \in Over
       /\ upstream \in {"finished", "gone"}
       /\ client # "gone" => Len(down) + Len(Out) = sentDown
       /\ gotClose => Len(down) = sentDown

ClientHeard ==
    /\ \A i \in 1 .. Len(wsIn) : wsIn[i].kind = "close" => saidClose /\ i = Len(wsIn)
    /\ why = "close" /\ pc \in {"close_send", "close_ws"} => saidClose /\ Len(up) = sentUp

\* Nobody has said goodbye at first.
LEMMA HeardInit == Init => UpstreamHeard /\ ClientHeard
  <1> SUFFICES ASSUME Init PROVE UpstreamHeard /\ ClientHeard
    OBVIOUS
  <1>1. why = "none" /\ wsIn = <<>> /\ Len(wsIn) = 0
    BY EmptySeq DEF Init
  <1> QED
    BY <1>1 DEF UpstreamHeard, ClientHeard

\* The end of the upstream is seen after its last byte, and the sink keeps that one.
LEMMA UpstreamHeardServer ==
    ASSUME Typed, Typed', Sink, Download, Download', UpstreamHeard, Server
    PROVE  UpstreamHeard'
  <1>1. CASE TcpEnds
    <2>1. CASE why' # "eof"
      BY <2>1 DEF UpstreamHeard
    <2>2. CASE why' = "eof"
      <3>1. /\ BreakLoop("eof") /\ upstream = "finished" /\ tcpIn = <<>> /\ client # "gone"
            /\ pc = "relay" /\ pc \in Idle /\ pc \notin Over
            /\ UNCHANGED <<client, upstream, sentDown, down, gotClose>>
        BY <1>1, <2>2 DEF TcpEnds, PollTcp, InLoop, BreakLoop, peers, received, Idle, Over, Closing
      <3>2. Out' = Out /\ pc' \in Over
        BY <3>1, SinkMoves
      <3>3. wsOut = <<>> /\ Out = <<>> /\ Ahead = <<>> /\ Len(<<>>) = 0
        BY <3>1, EmptySeq DEF Sink, Out, Ahead
      <3>4. Run(tcpIn, Len(down) + Len(Ahead), sentDown)
        BY <3>1 DEF Download
      <3>5. Len(down) \in Nat
        BY Numbers
      <3>6. Len(down) = sentDown
        BY <3>1, <3>3, <3>4, <3>5, RunBounds
      <3>7. Len(down) + Len(Out) = sentDown
        BY <3>3, <3>5, <3>6
      <3> QED
        BY <3>1, <3>2, <3>6, <3>7 DEF UpstreamHeard
    <2> QED
      BY <2>1, <2>2
  <1>2. CASE pc \notin Over /\ ~TcpEnds
    <2>1. why # "eof"
      BY <1>2 DEF UpstreamHeard
    <2>2. CASE TlsRead \/ TlsFails \/ GreetRead \/ GreetFails
      <3>1. why' \in {why, "verdict", "close", "other"}
        BY <2>2 DEF TlsRead, TlsFails, GreetRead, GreetFails, Await, Send, Reject
      <3> QED
        BY <2>1, <3>1 DEF UpstreamHeard
    <2>3. CASE LifetimeReached \/ ReadWs \/ WsLost \/ IdlePing \/ ReadTcp
      <3>1. why' \in {why, "close", "other"}
        BY <2>3 DEF LifetimeReached, ReadWs, WsLost, IdlePing, ReadTcp, Charge,
                    Await, Send, Loop, BreakLoop
      <3> QED
        BY <2>1, <3>1 DEF UpstreamHeard
    <2>4. CASE WriteDone \/ WriteFails \/ FlushDone \/ FlushFails
      <3>1. why' \in {why, "other"}
        BY <2>4 DEF WriteDone, WriteFails, FlushDone, FlushFails, StartRelay, Loop, Reject,
                    BreakLoop, Await, Finish
      <3> QED
        BY <2>1, <3>1 DEF UpstreamHeard
    <2> QED
      BY <1>2, <2>2, <2>3, <2>4 DEF Server
  <1>3. CASE pc \in Over /\ FlushDone
    <2>1. /\ Len(down') = Len(down) + Len(Out) /\ Out' = <<>> /\ Len(<<>>) = 0
          /\ UNCHANGED <<why, client, upstream, sentDown>> /\ client = "reading" /\ pc' \in Over
      <3>1. pc \in {"close_send", "close_ws", "reject_ws"}
        BY <1>3 DEF FlushDone, Flushing, Over, Closing
      <3>2. pc' \in Over
        BY <1>3, <3>1 DEF FlushDone, Over, Closing
      <3>3. UNCHANGED <<why, client, upstream, sentDown>> /\ client = "reading"
        BY <1>3 DEF FlushDone, peers
      <3>4. Len(down') = Len(down) + Len(Out) /\ Out' = <<>>
        BY <1>3, DownloadFlushed
      <3> QED
        BY <3>2, <3>3, <3>4, EmptySeq
    <2>2. Len(down') \in Nat
      BY NumbersNext
    <2>3. Len(down') + 0 = Len(down')
      BY <2>2
    <2> QED
      BY <2>1, <2>3 DEF UpstreamHeard
  <1>4. CASE pc \in Over /\ FlushFails
    <2>1. pc \in Closing /\ pc' \in Over
          /\ UNCHANGED <<why, client, upstream, sentDown, down, gotClose, wsOut>>
      BY <1>4 DEF FlushFails, Await, Finish, peers, received, Over, Closing
    <2>2. Out' = Out
      BY <2>1 DEF Out
    <2> QED
      BY <2>1, <2>2 DEF UpstreamHeard
  <1>5. pc \in Over => FlushDone \/ FlushFails
    BY DEF Server, TlsRead, TlsFails, GreetRead, GreetFails, LifetimeReached, ReadWs, WsLost,
           IdlePing, ReadTcp, TcpEnds, PollTcp, InLoop, WriteDone, WriteFails, Writing, Over, Closing
  <1> QED
    BY <1>1, <1>2, <1>3, <1>4, <1>5

\* An upstream that has finished sends nothing more.
LEMMA UpstreamHeardNext ==
    Typed /\ Typed' /\ Sink /\ Download /\ Download' /\ UpstreamHeard /\ [Next]_vars => UpstreamHeard'
  <1> SUFFICES ASSUME Typed, Typed', Sink, Download, Download', UpstreamHeard, [Next]_vars
               PROVE  UpstreamHeard'
    OBVIOUS
  <1>1. CASE Server
    BY <1>1, UpstreamHeardServer
  <1>2. CASE Tick \/ Peers \/ UNCHANGED vars
    <2>1. /\ UNCHANGED <<pc, wsOut, down, gotClose, why>>
          /\ client = "gone" => client' = "gone"
          /\ upstream \in {"finished", "gone"} =>
                upstream' \in {"finished", "gone"} /\ UNCHANGED sentDown
      BY <1>2 DEF Tick, Peers, ClientSends, UpstreamSends, ClientTurns, UpstreamTurns, vars,
                  task, peers, received
    <2>2. Out' = Out
      BY <2>1 DEF Out
    <2> QED
      BY <2>1, <2>2 DEF UpstreamHeard, Over, Closing
  <1> QED
    BY <1>1, <1>2 DEF Next

\* A Close stays the last message when the first is taken.
LEMMA CloseStaysLast ==
    ASSUME Typed, ClientHeard, wsIn # <<>>, wsIn' = Tail(wsIn), UNCHANGED saidClose
    PROVE  \A i \in 1 .. Len(wsIn') : wsIn'[i].kind = "close" => saidClose' /\ i = Len(wsIn')
  <1>1. /\ wsIn \in Seq(Message) /\ Len(wsIn) \in Nat /\ Len(wsIn') = Len(wsIn) - 1
        /\ \A i \in 1 .. Len(wsIn') : wsIn'[i] = wsIn[i + 1]
    BY HeadTailProperties, LenProperties DEF Typed
  <1> TAKE i \in 1 .. Len(wsIn')
  <1> HAVE wsIn'[i].kind = "close"
  <1>2. i + 1 \in 1 .. Len(wsIn) /\ wsIn[i + 1].kind = "close"
    BY <1>1
  <1>3. saidClose /\ i + 1 = Len(wsIn)
    BY <1>2 DEF ClientHeard
  <1>4. i = Len(wsIn')
    <2>1. Len(wsIn) = i + 1 /\ Len(wsIn') = Len(wsIn) - 1
      BY <1>1, <1>3, Zenon
    <2>2. i \in Int
      OBVIOUS
    <2> QED
      BY <2>1, <2>2, SMTT(40)
  <1>5. saidClose'
    BY <1>3, Zenon
  <1> QED
    BY <1>4, <1>5

\* The Close of a client comes after its last byte, and the relay sees it there.
LEMMA ClientHeardNext == Typed /\ Upload /\ ClientHeard /\ [Next]_vars => ClientHeard'
  <1> SUFFICES ASSUME Typed, Upload, ClientHeard, [Next]_vars PROVE ClientHeard'
    OBVIOUS
  <1>1. CASE TlsRead
    <2>1. wsIn # <<>> /\ wsIn' = Tail(wsIn) /\ UNCHANGED saidClose
          /\ pc' \notin {"close_send", "close_ws"}
      BY <1>1 DEF TlsRead, TakeWs, Await, Send, Reject, peers
    <2>2. \A i \in 1 .. Len(wsIn') : wsIn'[i].kind = "close" => saidClose' /\ i = Len(wsIn')
      BY <2>1, CloseStaysLast
    <2> QED
      BY <2>1, <2>2 DEF ClientHeard
  <1>2. CASE ReadWs
    <2>1. /\ wsIn # <<>> /\ wsIn' = Tail(wsIn) /\ UNCHANGED <<saidClose, up, sentUp>>
          /\ pc = "relay"
      BY <1>2 DEF ReadWs, InLoop, TakeWs, peers, received
    <2>2. \A i \in 1 .. Len(wsIn') : wsIn'[i].kind = "close" => saidClose' /\ i = Len(wsIn')
      BY <2>1, CloseStaysLast
    <2>3. ASSUME why' = "close", pc' = "close_send"
          PROVE  saidClose /\ Len(up) = sentUp
      <3>1. Head(wsIn).kind = "close"
        BY <1>2, <2>3 DEF ReadWs, Charge, Await, Send, Loop, BreakLoop
      <3>2. /\ wsIn \in Seq(Message) /\ Len(wsIn) \in Nat /\ Len(wsIn) # 0 /\ Head(wsIn) = wsIn[1]
            /\ Tail(wsIn) \in Seq(Message) /\ Len(Tail(wsIn)) = Len(wsIn) - 1
        BY <2>1, HeadTailProperties, LenProperties, EmptySeq DEF Typed
      <3>3. saidClose /\ 1 = Len(wsIn)
        <4>1. 1 \in 1 .. Len(wsIn) /\ wsIn[1].kind = "close"
          BY <3>1, <3>2
        <4> QED
          BY <4>1 DEF ClientHeard
      <3>4. Tail(wsIn) = <<>>
        <4>1. Len(Tail(wsIn)) = 0
          <5>1. Len(wsIn) = 1 /\ Len(Tail(wsIn)) = Len(wsIn) - 1
            BY <3>2, <3>3, Zenon
          <5> QED
            BY <5>1
        <4> QED
          BY <3>2, <4>1, EmptySeq
      <3>5. Head(wsIn).data = <<>> /\ Len(<<>>) = 0
        BY <2>1, <3>1, Taken, EmptySeq DEF Message
      <3>6. Held = <<>> /\ Len(up) \in Nat /\ Queued(wsIn, Len(up) + 0, sentUp)
        BY <2>1, <3>5, LenProperties DEF Upload, Held, Over, Closing, Typed
      <3>7. Queued(wsIn, Len(up), sentUp)
        BY <3>6
      <3>8. PICK c \in Nat : Run(<<>>, Len(up), c) /\ Queued(<<>>, c, sentUp)
        BY <2>1, <3>2, <3>4, <3>5, <3>7, QueuedHead
      <3>9. c = Len(up)
        BY <3>5, <3>6, <3>8, RunBounds
      <3>10. c = sentUp
        BY <3>8, QueuedEmpty
      <3> QED
        BY <3>3, <3>9, <3>10
    <2>4. pc' # "close_ws"
      BY <1>2 DEF ReadWs, Charge, Await, Send, Loop, BreakLoop
    <2> QED
      BY <2>1, <2>2, <2>3, <2>4 DEF ClientHeard
  <1>3. CASE Server /\ ~TlsRead /\ ~ReadWs
    <2>1. UNCHANGED <<wsIn, saidClose, sentUp>>
      BY <1>3 DEF Server, TlsFails, GreetRead, GreetFails, LifetimeReached, WsLost, IdlePing, ReadTcp,
                  TcpEnds, WriteDone, WriteFails, FlushDone, FlushFails, TakeTcp, inputs, peers
    <2>2. \/ why' \in {"verdict", "eof", "other"} \/ pc' \notin {"close_send", "close_ws"}
          \/ UNCHANGED <<why, up>> /\ pc = "close_send"
      BY <1>3 DEF Server, TlsFails, GreetRead, GreetFails, LifetimeReached, WsLost, IdlePing, ReadTcp,
                  TcpEnds, WriteDone, WriteFails, FlushDone, FlushFails, Flushing, Charge,
                  StartRelay, Loop, Reject, BreakLoop, Await, Send, Finish, received
    <2> QED
      BY <2>1, <2>2 DEF ClientHeard
  <1>4. CASE ClientSends
    <2>1. ~saidClose /\ UNCHANGED <<pc, up, why>>
      BY <1>4 DEF ClientSends, task, received
    <2>2. ~(why = "close" /\ pc \in {"close_send", "close_ws"})
      BY <2>1 DEF ClientHeard
    <2>3. PICK m \in Message : wsIn' = Append(wsIn, m) /\ (m.kind = "close" => saidClose')
      <3>1. CASE \E n \in MsgSizes : wsIn' = Append(wsIn, data([i \in 1 .. n |-> sentUp + i]))
        <4>1. PICK n \in MsgSizes : wsIn' = Append(wsIn, data([i \in 1 .. n |-> sentUp + i]))
          BY <3>1
        <4>2. [i \in 1 .. n |-> sentUp + i] \in Seq(Nat)
          BY Constants DEF Typed
        <4> QED
          BY <4>1, <4>2, Messages
      <3>2. CASE \E k \in {"ping", "pong", "close"} : /\ wsIn' = Append(wsIn, control(k))
                                                      /\ saidClose' = (k = "close")
        BY <3>2, Messages
      <3> QED
        BY <1>4, <3>1, <3>2 DEF ClientSends
    <2>4. /\ wsIn \in Seq(Message) /\ Len(wsIn) \in Nat /\ Len(wsIn') = Len(wsIn) + 1
          /\ \A i \in 1 .. Len(wsIn) : wsIn'[i] = wsIn[i]
          /\ wsIn'[Len(wsIn) + 1] = m
      BY <2>3, AppendProperties, LenProperties DEF Typed
    <2>5. ASSUME NEW i \in 1 .. Len(wsIn'), wsIn'[i].kind = "close"
          PROVE  saidClose' /\ i = Len(wsIn')
      <3>1. CASE i \in 1 .. Len(wsIn)
        BY <2>1, <2>4, <2>5, <3>1 DEF ClientHeard
      <3>2. CASE i = Len(wsIn) + 1
        BY <2>3, <2>4, <2>5, <3>2
      <3> QED
        BY <2>4, <3>1, <3>2
    <2> QED
      BY <2>1, <2>2, <2>5 DEF ClientHeard
  <1>5. CASE (Tick \/ Peers \/ UNCHANGED vars) /\ ~ClientSends
    <2>1. UNCHANGED <<pc, wsIn, saidClose, up, sentUp, why>>
      BY <1>5 DEF Tick, Peers, UpstreamSends, ClientTurns, UpstreamTurns, vars,
                  task, inputs, peers, received
    <2> QED
      BY <2>1 DEF ClientHeard
  <1> QED
    BY <1>1, <1>2, <1>3, <1>4, <1>5 DEF Next

-----------------------------------------------------------------------------
(* The theorems. *)

\* The inductive invariant.
SessionInv ==
    /\ Typed /\ InTime /\ Goodbye
    /\ Upload /\ Sink /\ Download
    /\ Judged /\ Greeted /\ Capped /\ UpstreamHeard /\ ClientHeard

\* SessionInv is inductive.
LEMMA SessionInvNext == SessionInv /\ [Next]_vars => SessionInv'
  <1> SUFFICES ASSUME SessionInv, [Next]_vars PROVE SessionInv'
    OBVIOUS
  <1> USE DEF SessionInv
  <1>1. Typed' /\ InTime' /\ Goodbye'
    BY TypedNext, InTimeNext, GoodbyeNext
  <1>2. Upload' /\ Sink' /\ Download'
    BY UploadNext, DownloadNext
  <1>3. Judged' /\ Greeted' /\ Capped'
    BY <1>1, <1>2, JudgedNext, GreetedNext, CappedNext
  <1>4. UpstreamHeard' /\ ClientHeard'
    BY <1>1, <1>2, UpstreamHeardNext, ClientHeardNext
  <1> QED
    BY <1>1, <1>2, <1>3, <1>4

\* SessionInv holds in every state of a session.
LEMMA SessionInvAlways == Spec => []SessionInv
  <1>1. Init => SessionInv
    BY TypedInit, InTimeInit, GoodbyeInit, UploadInit, SinkInit, JudgedInit, GreetedInit,
       CappedInit, HeardInit
       DEF SessionInv
  <1> QED
    BY <1>1, SessionInvNext, PTL DEF Spec

\* Runs from the beginning are prefixes.
LEMMA InOrder == SessionInv => BytesInOrder
  <1> SUFFICES ASSUME SessionInv PROVE BytesInOrder
    OBVIOUS
  <1>1. sentUp \in Nat /\ sentDown \in Nat
    BY DEF SessionInv, Typed
  <1>2. Run(up, 0, Len(up)) /\ Len(up) <= sentUp /\ Run(down, 0, Len(down)) /\ Len(down) <= sentDown
    BY DEF SessionInv, Upload, Download
  <1>3. IsPrefix(up, FirstBytes(sentUp))
    BY <1>1, <1>2, RunFromStart DEF FirstBytes
  <1>4. IsPrefix(down, FirstBytes(sentDown))
    BY <1>1, <1>2, RunFromStart DEF FirstBytes
  <1> QED
    BY <1>3, <1>4 DEF BytesInOrder

\* A run up to the last byte sent is all that was sent.
LEMMA BothHeardOut == SessionInv => HeardOut
  <1> SUFFICES ASSUME SessionInv PROVE HeardOut
    OBVIOUS
  <1>1. sentUp \in Nat /\ sentDown \in Nat
    BY DEF SessionInv, Typed
  <1>2. Run(up, 0, Len(up)) /\ Run(down, 0, Len(down))
    BY DEF SessionInv, Upload, Download
  <1>3. ASSUME why = "eof", gotClose PROVE down = FirstBytes(sentDown)
    <2>1. Len(down) = sentDown
      BY <1>3 DEF SessionInv, UpstreamHeard
    <2>2. Run(down, 0, sentDown) /\ sentDown <= sentDown
      BY <1>1, <1>2, <2>1
    <2> QED
      BY <1>1, <2>2, RunFromStart DEF FirstBytes
  <1>4. ASSUME why = "close", pc \in {"close_send", "close_ws"} PROVE up = FirstBytes(sentUp)
    <2>1. Len(up) = sentUp
      BY <1>4 DEF SessionInv, ClientHeard
    <2>2. Run(up, 0, sentUp) /\ sentUp <= sentUp
      BY <1>1, <1>2, <2>1
    <2> QED
      BY <1>1, <2>2, RunFromStart DEF FirstBytes
  <1> QED
    BY <1>3, <1>4 DEF HeardOut

\* With the order of the client's bytes, every variable has its type.
LEMMA AllTyped == SessionInv => TypeOK
  <1> SUFFICES ASSUME SessionInv PROVE TypeOK
    OBVIOUS
  <1> DEFINE Frame == [kind : {"data", "ping", "pong", "close"}, data : Seq(Nat)]
  <1>1. Typed /\ down \in Seq(Nat)
    BY RunBounds DEF SessionInv, Download
  <1>2. Message \subseteq Frame
    BY DEF Message
  <1>3. wsIn \in Seq(Frame) /\ wsOut \in Seq(Frame)
    BY <1>1, <1>2, SeqMonotonic DEF Typed
  <1> QED
    BY <1>1, <1>3 DEF Typed, TypeOK

\* Every variable of a session keeps its type.
THEOREM SessionTyped == Spec => []TypeOK
  BY SessionInvAlways, AllTyped, PTL

\* Each side receives what the other sent, in order and without a gap or a
\* repetition, whatever is cut, half-written or left in the sink.
THEOREM SessionInOrder == Spec => []BytesInOrder
  BY SessionInvAlways, InOrder, PTL

\* Whoever ends the session properly has been heard out.
THEOREM SessionHeardOut == Spec => []HeardOut
  BY SessionInvAlways, BothHeardOut, PTL

\* The relay stays within max_bytes_per_connection.
THEOREM SessionCapped == Spec => []RelayWithinCap
  <1>1. SessionInv => RelayWithinCap
    BY CappedImplies DEF SessionInv
  <1> QED
    BY <1>1, SessionInvAlways, PTL

\* The relay ends within its lifetime and one write.
THEOREM SessionInTime == Spec => []RelayWithinLifetime
  <1>1. SessionInv => RelayWithinLifetime
    BY InTimeImplies DEF SessionInv
  <1> QED
    BY <1>1, SessionInvAlways, PTL

\* A client that is there gets a Close before its session is done.
THEOREM SessionCloses == Spec => []ProperDisconnect
  <1>1. SessionInv => ProperDisconnect
    BY DEF SessionInv, Goodbye, ProperDisconnect
  <1> QED
    BY <1>1, SessionInvAlways, PTL

\* Only a ClientHello that passes opens the way to a TLS upstream, and none
\* that fits is refused, however it is cut into messages.
THEOREM SessionJudges == Spec => []HelloVerdict
  <1>1. SessionInv => HelloVerdict
    BY DEF SessionInv, Judged, HelloVerdict
  <1> QED
    BY <1>1, SessionInvAlways, PTL

\* A client sees nothing of an upstream whose greeting does not pass, and none
\* that passes and is on its first line is refused, however it is cut.
THEOREM SessionGreets == Spec => []GreetingVerdict
  <1>1. SessionInv => GreetingVerdict
    BY DEF SessionInv, Greeted, GreetingVerdict, Relaying
  <1> QED
    BY <1>1, SessionInvAlways, PTL
=============================================================================

------------------------------ MODULE Session ------------------------------
(***************************************************************************)
(* One session: Connection::run of src/connection.rs with its probes, from *)
(* the completed upgrade to the drop of the lease.                         *)
(*                                                                         *)
(* The task is sequential; what makes it hard is everything around it.     *)
(* The client and the upstream send, stall, resume, finish and vanish at   *)
(* any await, and the clock runs against the timeout of the await the task *)
(* is in.  An action is what the task does from one await to the next.     *)
(*                                                                         *)
(* A byte is its position in the stream of its sender.  Binary and Text    *)
(* messages differ only in their type and are both "data".  The per-client *)
(* byte budget (account_bytes) belongs to Limits.tla: here its answer is   *)
(* either one.                                                             *)
(***************************************************************************)
EXTENDS Integers, Sequences, SequencesExt, FiniteSetsExt

CONSTANTS
    ProbeKinds,     \* subset of {"TlsSni", "Greeting", "None"}
    Hellos,         \* subset of HelloKind: what the client's first record may be
    Streams,        \* what the upstream may say: sequences of byte classes;
                    \* one of them is enough where no probe looks at them
    HelloLen,       \* bytes in the client's first TLS record, if it is not "long"
    MaxHello,       \* bytes after which an incomplete record is refused (16384)
    MaxGreeting,    \* MAX_GREETING (512)
    ReadMax,        \* size of the read buffers (256, 1024)
    max_bytes_per_connection,
    max_lifetime, ws_idle_timeout, ws_write_timeout, tcp_write_timeout,
    tcp_connect_timeout,
    MaxUp,          \* bound: bytes the client sends
    MsgSizes,       \* bound: sizes of a data message
    MaxQueue        \* bound: WebSocket messages in flight to the proxy

\* Byte classes the greeting probe tells apart: newline, other blanks, the two
\* bytes a greeting must start with, anything else.
ByteClass == {"nl", "blank", "m1", "m2", "x"}

\* A ClientHello for the requested host, one whose record is longer than
\* MaxHello, what tls_record_needed refuses, what validate_tls_client_hello does.
HelloKind == {"valid", "long", "not_tls", "refused"}

ASSUME SessionAssumption ==
    /\ ProbeKinds \subseteq {"TlsSni", "Greeting", "None"}
    /\ Hellos \subseteq HelloKind /\ HelloLen <= MaxHello
    /\ Streams \subseteq Seq(ByteClass) /\ Streams # {}
    /\ {HelloLen, MaxHello, MaxGreeting, ReadMax} \subseteq Nat \ {0} /\ MaxGreeting > 1
    /\ {ws_idle_timeout, ws_write_timeout, tcp_write_timeout, tcp_connect_timeout}
          \subseteq Nat \ {0}
    /\ {max_bytes_per_connection, max_lifetime, MaxUp, MaxQueue} \subseteq Nat
    /\ MsgSizes \subseteq Nat

VARIABLES
    pc,             \* the await the task is in
    kind,           \* probe_for_port of the destination
    hello,          \* what the client's first record is
    stream,         \* what the upstream says if it says all of it
    buf,            \* hello, greet, or the data being written upstream
    conn_bytes,
    timer,          \* time left of the timeout around the await
    relayAge,       \* time since the deadline was set
    wsIn, tcpIn,    \* received from the client, the upstream, and not yet read
    wsOut,          \* messages in the WebSocket sink, not flushed
    client,         \* "reading", "stalled" or "gone"
    upstream,       \* "reading", "stalled", "finished" (sent FIN) or "gone"
    sentUp, sentDown, \* bytes the client, the upstream have sent
    saidClose,      \* the client sent a Close frame
    up, down,       \* bytes the upstream, the client have received
    gotClose,       \* the client received a Close frame
    probed,         \* bytes forwarded by the probe
    age,            \* time since the session began
    why             \* why the relay or the probe ended

task == <<pc, buf, conn_bytes, timer, relayAge, wsOut, probed, why>>
fixed == <<kind, hello, stream>>
inputs == <<wsIn, tcpIn>>
peers == <<client, upstream, sentUp, sentDown, saidClose>>
received == <<up, down, gotClose>>
vars == <<task, fixed, inputs, peers, received, age>>

Probing == {"tls_wait", "tls_pong", "hello_write", "greet_wait", "greet_send"}
Relaying == {"relay", "tcp_write", "ws_send"}
Closing == {"close_send", "close_ws", "reject_ws"}

\* The awaits inside a timeout.  The others wait for the client, untimed.
Timed == {"tls_wait", "hello_write", "greet_wait", "greet_send",
          "relay", "tcp_write", "ws_send", "close_send"}

data(bytes) == [kind |-> "data", data |-> bytes]
control(k) == [kind |-> k, data |-> <<>>]

Init ==
    /\ kind \in ProbeKinds
    /\ hello \in IF kind = "TlsSni" THEN Hellos ELSE {"valid"}
    /\ stream \in IF kind = "Greeting" THEN Streams ELSE {CHOOSE s \in Streams : TRUE}
    /\ pc = [TlsSni |-> "tls_wait", Greeting |-> "greet_wait", None |-> "relay"][kind]
    /\ timer = IF kind = "None" THEN ws_idle_timeout ELSE tcp_connect_timeout
    /\ buf = <<>> /\ conn_bytes = 0 /\ relayAge = 0 /\ wsOut = <<>>
    /\ wsIn = <<>> /\ tcpIn = <<>>
    /\ client = "reading" /\ upstream = "reading"
    /\ sentUp = 0 /\ sentDown = 0 /\ saidClose = FALSE
    /\ up = <<>> /\ down = <<>> /\ gotClose = FALSE
    /\ probed = 0 /\ age = 0 /\ why = "none"

-----------------------------------------------------------------------------
(* src/proto.rs *)

\* A record may be some bytes longer than MaxHello: MAX_TLS_RECORD does not
\* count the five bytes of its header.
RecordLen == IF hello = "long" THEN MaxHello + 2 ELSE HelloLen

\* Mutated: the first byte settles it.
tls_record_needed_first(bytes) ==
    CASE bytes = <<>> -> "More"
      [] hello = "not_tls" -> "Err"
      [] OTHER -> "Complete"

tls_record_needed(bytes) ==
    IF bytes # <<>> /\ hello = "not_tls" THEN "Err"
    ELSE IF Len(bytes) < RecordLen THEN "More"
    ELSE "Complete"

validate_tls_client_hello(bytes) ==
    tls_record_needed(bytes) = "Complete" /\ hello \in {"valid", "long"}

Class(i) == IF i <= Len(stream) THEN stream[i] ELSE "x"

\* Mutated: the first segment is taken for the greeting.
greeting_complete_any(bytes) == bytes # <<>>

greeting_complete(bytes) ==
    (\E i \in DOMAIN bytes : Class(bytes[i]) = "nl") \/ Len(bytes) >= MaxGreeting

\* Blanks are skipped; what follows must begin with the two marker bytes.
validate_greeting(bytes) ==
    \E i \in DOMAIN bytes :
       /\ \A j \in 1 .. i - 1 : Class(bytes[j]) \in {"nl", "blank"}
       /\ Class(bytes[i]) = "m1"
       /\ i < Len(bytes) /\ Class(bytes[i + 1]) = "m2"

-----------------------------------------------------------------------------
(* Where the task goes next.  Each says what becomes of pc, timer, wsOut and *)
(* why; relayAge and probed change only when the relay begins.               *)

clocksUnchanged == UNCHANGED <<relayAge, probed>>

\* Mutated: the idle timeout runs on instead of starting anew.
Loop_on ==
    /\ pc' = "relay" /\ timer' = timer - 1
    /\ UNCHANGED <<wsOut, why>> /\ clocksUnchanged

\* Back to the top of the relay loop: a new idle timeout.
Loop ==
    /\ pc' = "relay" /\ timer' = ws_idle_timeout
    /\ UNCHANGED <<wsOut, why>> /\ clocksUnchanged

\* Into an await inside a timeout of t.
Await(phase, t) ==
    /\ pc' = phase /\ timer' = t
    /\ UNCHANGED <<wsOut, why>> /\ clocksUnchanged

\* Into the flush of a message put into the sink; t is 0 where there is none.
Send(phase, m, t) ==
    /\ pc' = phase /\ timer' = t
    /\ wsOut' = Append(wsOut, m)
    /\ UNCHANGED why /\ clocksUnchanged

\* Out of the loop, into close_ws.
BreakLoop(reason) ==
    /\ pc' = "close_send" /\ timer' = ws_write_timeout
    /\ wsOut' = Append(wsOut, control("close"))
    /\ why' = reason /\ clocksUnchanged

\* The probe failed: one Close, then both sides are dropped.
Reject(reason) ==
    /\ pc' = "reject_ws" /\ timer' = 0
    /\ wsOut' = Append(wsOut, control("close"))
    /\ why' = reason /\ clocksUnchanged

\* The probe passed having forwarded n bytes: the deadline is set now.
StartRelay(n) ==
    /\ pc' = "relay" /\ timer' = ws_idle_timeout
    /\ relayAge' = 0 /\ probed' = n
    /\ UNCHANGED <<wsOut, why>>

\* tcp.shutdown and the drop of the lease.
Finish ==
    /\ pc' = "done" /\ timer' = 0
    /\ UNCHANGED <<wsOut, why>> /\ clocksUnchanged

-----------------------------------------------------------------------------
(* The probes. *)

TakeWs == wsIn' = Tail(wsIn) /\ UNCHANGED tcpIn
TakeTcp(n) == tcpIn' = SubSeq(tcpIn, n + 1, Len(tcpIn)) /\ UNCHANGED wsIn

\* One round of the loop of probe_tls_sni.
TlsRead ==
    LET m == Head(wsIn)
        got == IF m.kind = "data" THEN buf \o m.data ELSE buf
        needed == tls_record_needed(got)
    IN /\ pc = "tls_wait" /\ wsIn # <<>>
       /\ TakeWs
       /\ buf' = got
       /\ \/ m.kind = "ping" /\ Send("tls_pong", control("pong"), 0)
          \/ m.kind = "pong" /\ Await("tls_wait", tcp_connect_timeout)
          \/ m.kind = "close" /\ Reject("close")
          \/ /\ m.kind = "data"
             /\ \/ /\ needed = "More" /\ Len(got) <= MaxHello
                   /\ Await("tls_wait", tcp_connect_timeout)
                \/ /\ needed = "More" /\ Len(got) > MaxHello
                   /\ Reject("verdict")
                \/ /\ needed = "Complete" /\ validate_tls_client_hello(got)
                   /\ Await("hello_write", tcp_write_timeout)
                \/ /\ needed = "Complete" /\ ~validate_tls_client_hello(got)
                   /\ Reject("verdict")
                \/ needed = "Err" /\ Reject("verdict")
       /\ UNCHANGED <<conn_bytes, fixed, peers, received, age>>

\* The client is gone or silent for the whole timeout.
TlsFails ==
    /\ pc = "tls_wait"
    /\ client = "gone" \/ (timer = 0 /\ wsIn = <<>>)
    /\ Reject("other")
    /\ UNCHANGED <<buf, conn_bytes, fixed, inputs, peers, received, age>>

\* One round of the loop of probe_greeting.
GreetRead ==
    /\ pc = "greet_wait"
    /\ \E n \in 1 .. Min({ReadMax, Len(tcpIn)}) :
          LET greet == buf \o SubSeq(tcpIn, 1, n) IN
          /\ TakeTcp(n)
          /\ buf' = greet
          /\ IF ~(greeting_complete(greet) \/ Len(greet) >= MaxGreeting)
             THEN Await("greet_wait", tcp_connect_timeout)
             ELSE \/ validate_greeting(greet) /\ Send("greet_send", data(greet), ws_write_timeout)
                  \/ ~validate_greeting(greet) /\ Reject("verdict")
    /\ UNCHANGED <<conn_bytes, fixed, peers, received, age>>

GreetFails ==
    /\ pc = "greet_wait"
    /\ \/ upstream = "gone"
       \/ upstream = "finished" /\ tcpIn = <<>>
       \/ timer = 0 /\ tcpIn = <<>>
    /\ Reject("other")
    /\ UNCHANGED <<buf, conn_bytes, fixed, inputs, peers, received, age>>

-----------------------------------------------------------------------------
(* The relay loop.  The select is biased: the deadline, then the client and *)
(* its idle timeout, then the upstream.                                     *)

\* Mutated: a waiting message goes before the deadline.
deadline_idle == max_lifetime # 0 /\ relayAge >= max_lifetime /\ wsIn = <<>>

deadline == max_lifetime # 0 /\ relayAge >= max_lifetime

over_conn_bytes(total) ==
    max_bytes_per_connection # 0 /\ total > max_bytes_per_connection

InLoop == pc = "relay" /\ ~deadline

\* Mutated: the cap is compared with the count before this message.
Charge_late(n, forward) ==
    /\ conn_bytes' = conn_bytes + n
    /\ \/ over_conn_bytes(conn_bytes) /\ BreakLoop("other")
       \/ ~over_conn_bytes(conn_bytes) /\ forward

\* A data message or a chunk of n bytes: refused by a cap, or passed on.
Charge(n, forward) ==
    /\ conn_bytes' = conn_bytes + n
    /\ \/ over_conn_bytes(conn_bytes + n) /\ BreakLoop("other")
       \/ ~over_conn_bytes(conn_bytes + n) /\ n # 0 /\ BreakLoop("other")   \* account_bytes
       \/ ~over_conn_bytes(conn_bytes + n) /\ forward

LifetimeReached ==
    /\ pc = "relay" /\ deadline
    /\ BreakLoop("other")
    /\ UNCHANGED <<buf, conn_bytes, fixed, inputs, peers, received, age>>

ReadWs ==
    LET m == Head(wsIn) IN
    /\ InLoop /\ wsIn # <<>>
    /\ TakeWs
    /\ \/ /\ m.kind = "data"
          /\ Charge(Len(m.data), Await("tcp_write", tcp_write_timeout))
          /\ buf' = m.data
       \/ /\ \/ m.kind = "ping" /\ Send("ws_send", control("pong"), ws_write_timeout)
             \/ m.kind = "pong" /\ Loop
             \/ m.kind = "close" /\ BreakLoop("close")
          /\ UNCHANGED <<buf, conn_bytes>>
    /\ UNCHANGED <<fixed, peers, received, age>>

WsLost ==
    /\ InLoop /\ client = "gone"
    /\ BreakLoop("other")
    /\ UNCHANGED <<buf, conn_bytes, fixed, inputs, peers, received, age>>

\* Idle is not the end: a keepalive ping.
IdlePing ==
    /\ InLoop /\ wsIn = <<>> /\ client # "gone" /\ timer = 0
    /\ Send("ws_send", control("ping"), ws_write_timeout)
    /\ UNCHANGED <<buf, conn_bytes, fixed, inputs, peers, received, age>>

\* The client's side has nothing, so the upstream's is polled.
PollTcp == InLoop /\ wsIn = <<>> /\ client # "gone" /\ timer > 0

ReadTcp ==
    /\ PollTcp
    /\ \E n \in 1 .. Min({ReadMax, Len(tcpIn)}) :
          /\ Charge(n, Send("ws_send", data(SubSeq(tcpIn, 1, n)), ws_write_timeout))
          /\ TakeTcp(n)
    /\ UNCHANGED <<buf, fixed, peers, received, age>>

\* Mutated: the end of the stream goes before what is left of it.
TcpEnds_early ==
    /\ PollTcp
    /\ upstream = "finished" /\ BreakLoop("eof")
    /\ UNCHANGED <<buf, conn_bytes, fixed, inputs, peers, received, age>>

TcpEnds ==
    /\ PollTcp
    /\ \/ upstream = "gone" /\ BreakLoop("other")
       \/ upstream = "finished" /\ tcpIn = <<>> /\ BreakLoop("eof")
    /\ UNCHANGED <<buf, conn_bytes, fixed, inputs, peers, received, age>>

-----------------------------------------------------------------------------
(* Writes. *)

Writing == {"hello_write", "tcp_write"}
Flushing == {"greet_send", "ws_send", "close_send", "tls_pong", "close_ws", "reject_ws"}

\* Mutated: of the first messages only the TLS record is passed on.
WriteDone_record ==
    /\ pc \in Writing /\ upstream = "reading"
    /\ up' = up \o IF pc = "hello_write" THEN SubSeq(buf, 1, RecordLen) ELSE buf
    /\ IF pc = "hello_write" THEN StartRelay(Len(buf)) ELSE Loop
    /\ buf' = <<>>
    /\ UNCHANGED <<conn_bytes, fixed, inputs, peers, down, gotClose, age>>

\* write_all to the upstream is done.
WriteDone ==
    /\ pc \in Writing
    /\ upstream \in {"reading", "finished"} \/ buf = <<>>
    /\ up' = up \o buf
    /\ IF pc = "hello_write" THEN StartRelay(Len(buf)) ELSE Loop
    /\ buf' = <<>>
    /\ UNCHANGED <<conn_bytes, fixed, inputs, peers, down, gotClose, age>>

\* write_all fails or runs into its timeout, a part having been written.
WriteFails ==
    /\ pc \in Writing /\ buf # <<>>
    /\ upstream = "gone" \/ (upstream = "stalled" /\ timer = 0)
    /\ \E n \in 0 .. Len(buf) - 1 : up' = up \o SubSeq(buf, 1, n)
    /\ IF pc = "hello_write" THEN Reject("other") ELSE BreakLoop("other")
    /\ buf' = <<>>
    /\ UNCHANGED <<conn_bytes, fixed, inputs, peers, down, gotClose, age>>

\* The client takes all that is in the sink.
FlushDone ==
    /\ pc \in Flushing /\ client = "reading"
    /\ down' = down \o FlattenSeq([i \in DOMAIN wsOut |-> wsOut[i].data])
    /\ gotClose' = (gotClose \/ \E i \in DOMAIN wsOut : wsOut[i].kind = "close")
    /\ wsOut' = <<>>
    /\ pc' = [tls_pong |-> "tls_wait", greet_send |-> "relay", ws_send |-> "relay",
              close_send |-> "close_ws", close_ws |-> "done", reject_ws |-> "done"][pc]
    /\ timer' = [tls_pong |-> tcp_connect_timeout, greet_send |-> ws_idle_timeout,
                 ws_send |-> ws_idle_timeout, close_send |-> 0, close_ws |-> 0, reject_ws |-> 0][pc]
    /\ relayAge' = IF pc = "greet_send" THEN 0 ELSE relayAge
    /\ probed' = IF pc = "greet_send" THEN Len(buf) ELSE probed
    /\ buf' = IF pc = "greet_send" THEN <<>> ELSE buf
    /\ UNCHANGED <<conn_bytes, why, fixed, inputs, peers, up, age>>

\* Mutated: a Close that timed out is not tried again by ws.close().
FlushFails_final ==
    /\ pc \in {"close_send", "close_ws"}
    /\ client = "gone" \/ (client = "stalled" /\ pc \in Timed /\ timer = 0)
    /\ Finish
    /\ UNCHANGED <<buf, conn_bytes, fixed, inputs, peers, received, age>>

\* Mutated: a client that is gone is not noticed while closing.
FlushFails_unnoticed ==
    /\ pc = "close_send" /\ client # "reading" /\ timer = 0
    /\ Await("close_ws", 0)
    /\ UNCHANGED <<buf, conn_bytes, fixed, inputs, peers, received, age>>

\* The client is gone, or the flush runs into its timeout, where it has one.
\* What is in the sink stays there and goes out first with the next flush.
FlushFails ==
    /\ pc \in Flushing
    /\ client = "gone" \/ (client = "stalled" /\ pc \in Timed /\ timer = 0)
    /\ \/ pc = "tls_pong" /\ Await("tls_wait", tcp_connect_timeout)
       \/ pc = "greet_send" /\ Reject("other")
       \/ pc = "ws_send" /\ BreakLoop("other")
       \/ pc = "close_send" /\ Await("close_ws", 0)
       \/ pc \in {"close_ws", "reject_ws"} /\ Finish
    /\ UNCHANGED <<buf, conn_bytes, fixed, inputs, peers, received, age>>

Server ==
    \/ TlsRead \/ TlsFails \/ GreetRead \/ GreetFails
    \/ LifetimeReached \/ ReadWs \/ WsLost \/ IdlePing \/ ReadTcp \/ TcpEnds
    \/ WriteDone \/ WriteFails \/ FlushDone \/ FlushFails

-----------------------------------------------------------------------------
(* The clock.  A timer that is due fires before time goes on. *)

AgeCap == max_lifetime + Max({ws_write_timeout, tcp_write_timeout}) + 1

Tick ==
    /\ pc # "done"
    /\ pc \in Timed => timer > 0
    /\ ~(pc = "relay" /\ deadline)
    /\ timer' = IF pc \in Timed THEN timer - 1 ELSE timer
    /\ relayAge' = Min({relayAge + 1, AgeCap})
    /\ age' = Min({age + 1, AgeCap})
    /\ UNCHANGED <<pc, buf, conn_bytes, wsOut, probed, why, fixed, inputs, peers, received>>

-----------------------------------------------------------------------------
(* The client and the upstream. *)

ClientSends ==
    /\ client # "gone" /\ ~saidClose /\ Len(wsIn) < MaxQueue
    /\ \/ \E n \in MsgSizes :
             /\ sentUp + n <= MaxUp
             /\ wsIn' = Append(wsIn, data([i \in 1 .. n |-> sentUp + i]))
             /\ sentUp' = sentUp + n
             /\ UNCHANGED saidClose
       \/ /\ \E k \in {"ping", "pong", "close"} :
                /\ wsIn' = Append(wsIn, control(k))
                /\ saidClose' = (k = "close")
          /\ UNCHANGED sentUp
    /\ UNCHANGED <<task, fixed, tcpIn, client, upstream, sentDown, received, age>>

UpstreamSends ==
    /\ upstream \in {"reading", "stalled"} /\ sentDown < Len(stream)
    /\ sentDown' = sentDown + 1
    /\ tcpIn' = Append(tcpIn, sentDown + 1)
    /\ UNCHANGED <<task, fixed, wsIn, client, upstream, sentUp, saidClose, received, age>>

ClientTurns(how) ==
    /\ client # "gone" /\ client # how
    /\ client' = how
    /\ UNCHANGED <<task, fixed, inputs, upstream, sentUp, sentDown, saidClose, received, age>>

UpstreamTurns(how) ==
    /\ upstream # "gone" /\ upstream # how
    /\ upstream = "finished" => how = "gone"
    /\ upstream' = how
    /\ UNCHANGED <<task, fixed, inputs, client, sentUp, sentDown, saidClose, received, age>>

Peers ==
    /\ pc # "done"
    /\ \/ ClientSends \/ UpstreamSends
       \/ \E how \in {"reading", "stalled", "gone"} : ClientTurns(how)
       \/ \E how \in {"reading", "stalled", "finished", "gone"} : UpstreamTurns(how)

Next == Server \/ Tick \/ Peers

Spec == Init /\ [][Next]_vars

(***************************************************************************)
(* The runtime polls a task that is ready, and time goes on.  Nothing is   *)
(* assumed of the client and of the upstream.                              *)
(***************************************************************************)
FairSpec == Spec /\ WF_vars(Server) /\ WF_vars(Tick)

-----------------------------------------------------------------------------
(* Properties. *)

Phases == Probing \cup Relaying \cup Closing \cup {"done"}

\* Every variable has its type.
TypeOK ==
    /\ pc \in Phases
    /\ kind \in ProbeKinds /\ hello \in Hellos \cup {"valid"} /\ stream \in Streams
    /\ {buf, tcpIn, up, down} \subseteq Seq(Nat)
    /\ wsIn \in Seq([kind : {"data", "ping", "pong", "close"}, data : Seq(Nat)])
    /\ wsOut \in Seq([kind : {"data", "ping", "pong", "close"}, data : Seq(Nat)])
    /\ {conn_bytes, timer, sentUp, sentDown, probed} \subseteq Nat
    /\ {relayAge, age} \subseteq 0 .. AgeCap
    /\ client \in {"reading", "stalled", "gone"}
    /\ upstream \in {"reading", "stalled", "finished", "gone"}
    /\ {saidClose, gotClose} \subseteq BOOLEAN
    /\ why \in {"none", "verdict", "close", "eof", "other"}

FirstBytes(n) == [i \in 1 .. n |-> i]

\* Each side receives exactly what the other sent, in order and without a gap
\* or a repetition: across the hand-over from the probe's buffer to the relay,
\* messages that time out half-written, and a sink that still holds an
\* unflushed message when Close is sent.
BytesInOrder ==
    /\ IsPrefix(up, FirstBytes(sentUp))
    /\ IsPrefix(down, FirstBytes(sentDown))

\* A side that says goodbye is heard out: when the session ends because the
\* upstream finished, the client got every byte of it before Close; when it
\* ends because the client closed after the probe, the upstream got every
\* byte the client had sent.
HeardOut ==
    /\ why = "eof" /\ gotClose => down = FirstBytes(sentDown)
    /\ why = "close" /\ pc \in {"close_send", "close_ws"} => up = FirstBytes(sentUp)

\* Bytes the relay has moved, in both directions.
Relayed == Len(up) + Len(down) - probed

\* The relay never moves more than max_bytes_per_connection.
RelayWithinCap ==
    max_bytes_per_connection # 0 /\ pc \in Relaying \cup {"close_send", "close_ws"} =>
       Relayed <= max_bytes_per_connection

\* The relay stops at the deadline, but for a write that was under way, which
\* has its own timeout; traffic, pings and stalled peers do not extend it.
RelayWithinLifetime ==
    max_lifetime # 0 /\ pc \in Relaying =>
       relayAge <= max_lifetime + Max({ws_write_timeout, tcp_write_timeout})

\* No session ends without a Close frame to a client that is there.
ProperDisconnect == pc = "done" => gotClose \/ client = "gone"

\* The upstream's greeting passes as a whole.
Passes == validate_greeting(FirstBytes(Len(stream)))

\* What is skipped before the greeting has no newline in it and leaves room
\* for the two marker bytes.
OnFirstLine ==
    \A i \in DOMAIN stream :
       (\A j \in 1 .. i : stream[j] \in {"nl", "blank"}) => stream[i] # "nl" /\ i + 2 <= MaxGreeting

\* However the upstream's bytes are cut into segments, the client sees nothing
\* of a greeting that does not pass as a whole, and none that passes and is
\* on its first line is refused.
GreetingVerdict ==
    kind = "Greeting" =>
       /\ pc \in Relaying \/ down # <<>> => Passes
       /\ why = "verdict" => ~(Passes /\ OnFirstLine)

\* Blank lines before a greeting that passes are skipped.
BlankLinesSkipped == kind = "Greeting" /\ why = "verdict" => ~Passes

\* Nothing reaches the upstream of a TLS port before a complete ClientHello
\* for the requested host has been seen, however it was cut into messages;
\* and such a ClientHello of at most MaxHello bytes is never refused.
HelloVerdict ==
    kind = "TlsSni" =>
       /\ pc \in Relaying \/ up # <<>> =>
             hello \in {"valid", "long"} /\ sentUp >= RecordLen
       /\ why = "verdict" => hello # "valid"

\* The bytes of a session, both ways, stay within max_bytes_per_connection.
SessionWithinCap ==
    max_bytes_per_connection # 0 => Len(up) + Len(down) <= max_bytes_per_connection

\* A session is over, or being closed, once its lifetime is.
HardLifetime ==
    max_lifetime # 0 /\ age > max_lifetime + Max({ws_write_timeout, tcp_write_timeout}) =>
       pc \in Closing \cup {"done"}

\* The relay comes to an end, whatever the client and the upstream do.
RelayEnds == pc \in Relaying ~> pc \in Closing \cup {"done"}

\* A client that does not stall for ever gets its session closed.
ClosingEnds == <>[](client # "stalled") => (pc \in Closing ~> pc = "done")

\* Every session that is being closed is torn down on both sides.
AlwaysTornDown == pc \in Closing ~> pc = "done"
=============================================================================

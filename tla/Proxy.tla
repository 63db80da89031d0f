------------------------------- MODULE Proxy -------------------------------
(***************************************************************************)
(* The life of a /proxy request: proxy_handler of src/server.rs with the   *)
(* resolver and dialer of src/dest.rs, composed with the limits.           *)
(*                                                                         *)
(* Every request runs in a task of its own on a multi-threaded runtime.    *)
(* What a handler does between two awaits is one action here: it reads     *)
(* only immutable configuration and its own locals, apart from single      *)
(* calls into Limits, each of which is atomic.  The awaits are where other *)
(* requests, the clock, and the loss of the client come in between.        *)
(*                                                                         *)
(* A session is modelled here by what it does to the limits; Session.tla   *)
(* models the relay itself.                                                *)
(***************************************************************************)
EXTENDS Limits, Filter

CONSTANTS
    IPs,                \* upstream addresses a name may resolve to
    GlobalIPs,          \* those for which is_global_unicast is true
    NoIP,               \* no address
    NoRequest,          \* what an unused request slot holds
    LiteralOf,          \* destination -> the address it spells, or NoIP
    PortAllowed,        \* destinations whose port the policy allows
    allow_private_destinations,
    allow_ip_literals,
    MaxAnswers          \* bound: addresses in one DNS answer

Request == [client : Addrs, remote : Dests]

ASSUME ProxyAssumption ==
    /\ NoIP \notin IPs
    /\ NoRequest \notin Request
    /\ GlobalIPs \subseteq IPs
    /\ LiteralOf \in [Dests -> IPs \cup {NoIP}]
    /\ PortAllowed \subseteq Dests
    /\ allow_private_destinations \in BOOLEAN
    /\ allow_ip_literals \in BOOLEAN
    /\ MaxAnswers \in Nat

VARIABLES
    pc,         \* where the request is
    req,        \* client_ip, as proxy_handler determined it, and the destination
    addrs,      \* what connect_addrs has still to try
    tcp         \* the upstream address connected to, or NoIP

handlers == <<pc, req, addrs, tcp>>
proxyVars == <<vars, handlers>>

limitsUnchanged == UNCHANGED vars

Phases == {"free", "arrived", "resolving", "dialing", "upgrading", "session", "closing"}

ProxyInit ==
    /\ Init
    /\ pc = [r \in Sessions |-> "free"]
    /\ req = [r \in Sessions |-> NoRequest]
    /\ addrs = [r \in Sessions |-> <<>>]
    /\ tcp = [r \in Sessions |-> NoIP]

-----------------------------------------------------------------------------
(* DestPolicy *)

\* Addresses the policy lets the proxy dial.
Dialable == IF allow_private_destinations THEN IPs ELSE GlobalIPs

check_policy(d) ==
    /\ d \in PortAllowed
    /\ LiteralOf[d] # NoIP => allow_ip_literals /\ LiteralOf[d] \in Dialable

\* Mutated: the answer is dialed as it came.
resolve_any(answer) == answer

\* Keep the dialable addresses of a DNS answer, in order.
resolve_filtered(answer) == Retain(answer, Dialable)

Answers == UNION {[1 .. n -> IPs] : n \in 0 .. MaxAnswers}

-----------------------------------------------------------------------------
(* The handler. *)

\* The request leaves the handler: its locals are dropped with it.
Leave(r) ==
    /\ pc' = [pc EXCEPT ![r] = "free"]
    /\ req' = [req EXCEPT ![r] = NoRequest]
    /\ addrs' = [addrs EXCEPT ![r] = <<>>]
    /\ tcp' = [tcp EXCEPT ![r] = NoIP]

Advance(r, phase) ==
    /\ pc' = [pc EXCEPT ![r] = phase]
    /\ UNCHANGED <<req, tcp>>

\* A request comes in; its client is taken from the peer or a trusted header.
Arrive(r, a, d) ==
    /\ pc[r] = "free"
    /\ pc' = [pc EXCEPT ![r] = "arrived"]
    /\ req' = [req EXCEPT ![r] = [client |-> a, remote |-> d]]
    /\ UNCHANGED <<addrs, tcp>>
    /\ limitsUnchanged

\* Origin, Host, token, or the text of `remote` is refused.
Refuse(r) ==
    /\ pc[r] = "arrived"
    /\ Leave(r)
    /\ limitsUnchanged

\* The destination policy refuses before the attempt is counted.
RefuseDest(r) ==
    /\ pc[r] = "arrived"
    /\ ~check_policy(req[r].remote)
    /\ Leave(r)
    /\ limitsUnchanged

\* The attempt is counted, and refused or sent on to the resolver.
Admit(r) ==
    LET res == record_attempt(inner, now, LimitKey[req[r].client], req[r].remote).res IN
    /\ pc[r] = "arrived"
    /\ check_policy(req[r].remote)
    /\ RecordAttempt(req[r].client, req[r].remote)
    /\ IF res = "Ok"
       THEN Advance(r, "resolving") /\ UNCHANGED addrs
       ELSE Leave(r)

\* An IP literal needs no lookup; a name gets the filtered answer of one lookup.
Resolve(r) ==
    /\ pc[r] = "resolving"
    /\ \E answer \in Answers :
          LET kept == IF LiteralOf[req[r].remote] # NoIP
                      THEN resolve_filtered(<<LiteralOf[req[r].remote]>>)
                      ELSE resolve_filtered(answer)
          IN IF kept = <<>>
             THEN Leave(r)
             ELSE Advance(r, "dialing") /\ addrs' = [addrs EXCEPT ![r] = kept]
    /\ limitsUnchanged

\* The lookup fails or runs into dns_timeout.
ResolveFails(r) ==
    /\ pc[r] = "resolving"
    /\ LiteralOf[req[r].remote] = NoIP
    /\ Leave(r)
    /\ limitsUnchanged

\* Mutated: a failed dial starts over with a new lookup.
DialFails_again(r) ==
    /\ pc[r] = "dialing"
    /\ Advance(r, "resolving")
    /\ addrs' = [addrs EXCEPT ![r] = <<>>]
    /\ limitsUnchanged

\* The next address refuses, or runs into tcp_connect_timeout.
DialFails(r) ==
    /\ pc[r] = "dialing"
    /\ IF Len(addrs[r]) = 1
       THEN Leave(r)
       ELSE Advance(r, "dialing") /\ addrs' = [addrs EXCEPT ![r] = Tail(@)]
    /\ limitsUnchanged

\* The next address answers; only now is a live slot asked for.
DialSucceeds(r) ==
    LET res == acquire(inner, now, LimitKey[req[r].client], req[r].remote).res IN
    /\ pc[r] = "dialing"
    /\ Acquire(r, req[r].client, req[r].remote)
    /\ IF res = "Ok"
       THEN /\ pc' = [pc EXCEPT ![r] = "upgrading"]
            /\ tcp' = [tcp EXCEPT ![r] = Head(addrs[r])]
            /\ addrs' = [addrs EXCEPT ![r] = <<>>]
            /\ UNCHANGED req
       ELSE Leave(r)

\* The client goes away at one of the handler's awaits: the future is dropped.
Cancel(r) ==
    /\ pc[r] \in {"resolving", "dialing"}
    /\ Leave(r)
    /\ limitsUnchanged

-----------------------------------------------------------------------------
(* After the handler: the closure given to on_upgrade owns tcp and lease. *)

\* Mutated: a failed upgrade forgets the lease.
UpgradeFails_leaks(r) ==
    /\ pc[r] = "upgrading"
    /\ limitsUnchanged
    /\ Leave(r)

\* on_failed_upgrade, or the client leaves first: the closure is dropped.
UpgradeFails(r) ==
    /\ pc[r] = "upgrading"
    /\ Release(r)
    /\ Leave(r)

Upgrade(r) ==
    /\ pc[r] = "upgrading"
    /\ Advance(r, "session")
    /\ UNCHANGED addrs
    /\ limitsUnchanged

\* The session forwards n bytes, or is told that the client is out of budget.
Relay(r, n) ==
    LET res == add_bytes(inner, now, LimitKey[req[r].client], n).res IN
    /\ pc[r] = "session"
    /\ AddBytes(r, n)
    /\ Advance(r, IF res = "Ok" THEN "session" ELSE "closing")
    /\ UNCHANGED addrs

\* Any other reason to leave the relay loop, or a failed probe.
Break(r) ==
    /\ pc[r] = "session"
    /\ Advance(r, "closing")
    /\ UNCHANGED addrs
    /\ limitsUnchanged

\* Both sides are closed and the Connection with its lease is dropped.
Close(r) ==
    /\ pc[r] = "closing"
    /\ Release(r)
    /\ Leave(r)

\* The session's task is dropped at an await: only its destructors run.
Abort(r) ==
    /\ pc[r] \in {"session", "closing"}
    /\ Release(r)
    /\ Leave(r)

\* What the server does for a request without anybody's help.
HandlerStep(r) ==
    \/ Refuse(r) \/ RefuseDest(r) \/ Admit(r)
    \/ Resolve(r) \/ ResolveFails(r) \/ DialFails(r) \/ DialSucceeds(r)
    \/ Upgrade(r) \/ UpgradeFails(r)

ProxyNext ==
    \/ Tick /\ UNCHANGED handlers
    \/ \E r \in Sessions :
          \/ \E a \in Addrs, d \in Dests : Arrive(r, a, d)
          \/ HandlerStep(r)
          \/ Cancel(r)
          \/ \E n \in ByteSizes : Relay(r, n)
          \/ Break(r)
          \/ Close(r)
          \/ Abort(r)

ProxySpec == ProxyInit /\ [][ProxyNext]_proxyVars

-----------------------------------------------------------------------------
(* Properties. *)

Holding == {"upgrading", "session", "closing"}

\* A lease exists exactly while its request is between a successful acquire
\* and the drop of its Connection, on every path out (refusal, failed dial,
\* cancelled handler, failed upgrade, end of session), and names the client
\* and the destination of that request.
LeaseFollowsRequest ==
    \A r \in Sessions :
       leases[r] = IF pc[r] \in Holding
                   THEN [ip |-> LimitKey[req[r].client], dest |-> req[r].remote]
                   ELSE NoLease

\* When no request is in flight nothing is left behind in the live counters.
NothingLeaks ==
    (\A r \in Sessions : pc[r] = "free") =>
       /\ inner.global_connections = 0
       /\ inner.per_dest = EmptyMap
       /\ \A k \in DOMAIN inner.per_ip : inner.per_ip[k].connections = 0

\* Whatever a name resolves to and whenever, no socket is open to an address,
\* and none is about to be dialed, that the policy does not allow; and a
\* literal is dialed only as itself.
DialedIsAllowed ==
    \A r \in Sessions :
       LET dials == {addrs[r][i] : i \in DOMAIN addrs[r]} \cup ({tcp[r]} \ {NoIP})
       IN /\ dials \subseteq Dialable
          /\ pc[r] # "free" /\ LiteralOf[req[r].remote] # NoIP =>
                dials \subseteq {LiteralOf[req[r].remote]}

\* The rows kept for client prefixes stay within max_tracked_ips.
TrackedWithinCap ==
    Cfg.max_tracked_ips # 0 => Cardinality(DOMAIN inner.per_ip) <= Cfg.max_tracked_ips

\* Every request that comes in is refused or becomes a session.
EveryRequestSettles ==
    \A r \in Sessions : pc[r] = "arrived" ~> pc[r] \in {"free", "session"}
=============================================================================

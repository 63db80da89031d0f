---------------------------- MODULE ProxyProofs ----------------------------
(***************************************************************************)
(* Proofs about Proxy.tla: a proxy with any number of requests in flight   *)
(* uses the limits as Limits.tla says they are used, so what holds of the  *)
(* limits holds of the proxy; no way out of a request leaks a lease; and   *)
(* only what the destination policy lets through is ever dialed.           *)
(***************************************************************************)
EXTENDS Proxy, WindowProofs

\* What the locals of a request are while it is in flight.
RequestsKnown ==
    /\ pc \in [Sessions -> Phases]
    /\ req \in [Sessions -> Request \cup {NoRequest}]
    /\ \A r \in Sessions : pc[r] # "free" => req[r] \in Request

\* A step of the handlers is one of these, by what it does to pc and req.
LEMMA PhaseSteps ==
    ASSUME ProxyNext
    PROVE  \/ UNCHANGED <<pc, req>>
           \/ \E r \in Sessions, a \in Addrs, d \in Dests :
                 /\ pc' = [pc EXCEPT ![r] = "arrived"]
                 /\ req' = [req EXCEPT ![r] = [client |-> a, remote |-> d]]
           \/ \E r \in Sessions :
                 /\ pc' = [pc EXCEPT ![r] = "free"]
                 /\ req' = [req EXCEPT ![r] = NoRequest]
           \/ \E r \in Sessions, p \in Phases :
                 /\ pc[r] # "free"
                 /\ pc' = [pc EXCEPT ![r] = p]
                 /\ UNCHANGED req
  <1>1. CASE Tick /\ UNCHANGED handlers
    BY <1>1 DEF handlers
  <1>2. ASSUME NEW r \in Sessions, NEW a \in Addrs, NEW d \in Dests, Arrive(r, a, d)
        PROVE  /\ pc' = [pc EXCEPT ![r] = "arrived"]
               /\ req' = [req EXCEPT ![r] = [client |-> a, remote |-> d]]
    BY <1>2 DEF Arrive
  <1> DEFINE Out(r) == /\ pc' = [pc EXCEPT ![r] = "free"]
                       /\ req' = [req EXCEPT ![r] = NoRequest]
             On(r) == \E p \in Phases : /\ pc[r] # "free"
                                        /\ pc' = [pc EXCEPT ![r] = p]
                                        /\ UNCHANGED req
  <1>3. ASSUME NEW r \in Sessions,
               Refuse(r) \/ RefuseDest(r) \/ ResolveFails(r) \/ Cancel(r)
               \/ UpgradeFails(r) \/ Close(r) \/ Abort(r)
        PROVE  Out(r)
    BY <1>3 DEF Refuse, RefuseDest, ResolveFails, Cancel, UpgradeFails, Close, Abort, Leave
  <1>4. ASSUME NEW r \in Sessions, Upgrade(r) \/ Break(r) \/ \E n \in ByteSizes : Relay(r, n)
        PROVE  On(r)
    BY <1>4 DEF Upgrade, Break, Relay, Advance, Phases
  <1>5. ASSUME NEW r \in Sessions, Admit(r) \/ DialFails(r) \/ Resolve(r)
        PROVE  Out(r) \/ On(r)
    BY <1>5 DEF Admit, DialFails, Resolve, Leave, Advance, Phases
  <1>6. ASSUME NEW r \in Sessions, DialSucceeds(r)
        PROVE  Out(r) \/ On(r)
    BY <1>6 DEF DialSucceeds, Leave, Phases
  <1> QED
    BY <1>1, <1>2, <1>3, <1>4, <1>5, <1>6 DEF ProxyNext, HandlerStep

\* A request in flight always has a client and a destination.
LEMMA RequestsAlwaysKnown == ProxySpec => []RequestsKnown
  <1>1. ProxyInit => RequestsKnown
    BY DEF ProxyInit, RequestsKnown, Phases
  <1>2. RequestsKnown /\ [ProxyNext]_proxyVars => RequestsKnown'
    <2> SUFFICES ASSUME RequestsKnown, [ProxyNext]_proxyVars
                 PROVE  RequestsKnown'
      OBVIOUS
    <2>1. CASE UNCHANGED <<pc, req>>
      BY <2>1 DEF RequestsKnown
    <2>2. CASE ProxyNext
      BY <2>2, PhaseSteps DEF RequestsKnown, Request, Phases
    <2>3. CASE UNCHANGED proxyVars
      BY <2>1, <2>3 DEF proxyVars, handlers
    <2> QED
      BY <2>2, <2>3
  <1> QED
    BY <1>1, <1>2, PTL DEF ProxySpec

\* Every step of the proxy is a call into the limits, or leaves them alone.
LEMMA StepIsCall ==
    RequestsKnown /\ [ProxyNext]_proxyVars => [Next]_vars
  <1> SUFFICES ASSUME RequestsKnown, ProxyNext
               PROVE  [Next]_vars
    BY DEF proxyVars
  <1>1. CASE Tick
    BY <1>1 DEF Next
  <1>2. CASE limitsUnchanged
    BY <1>2 DEF limitsUnchanged
  <1>3. ASSUME NEW r \in Sessions, Admit(r)
        PROVE  Next
    <2>1. req[r].client \in Addrs /\ req[r].remote \in Dests
      BY <1>3 DEF Admit, RequestsKnown, Request
    <2> QED
      BY <1>3, <2>1 DEF Admit, Next
  <1>4. ASSUME NEW r \in Sessions, DialSucceeds(r)
        PROVE  Next
    <2>1. req[r].client \in Addrs /\ req[r].remote \in Dests
      BY <1>4 DEF DialSucceeds, RequestsKnown, Request
    <2> QED
      BY <1>4, <2>1 DEF DialSucceeds, Next
  <1>5. ASSUME NEW r \in Sessions, UpgradeFails(r) \/ Close(r) \/ Abort(r)
        PROVE  Next
    BY <1>5 DEF UpgradeFails, Close, Abort, Next
  <1>6. ASSUME NEW r \in Sessions, NEW n \in ByteSizes, Relay(r, n)
        PROVE  Next
    BY <1>6 DEF Relay, Next
  <1>7. ASSUME NEW r \in Sessions,
               \/ \E a \in Addrs, d \in Dests : Arrive(r, a, d)
               \/ Refuse(r) \/ RefuseDest(r) \/ Resolve(r) \/ ResolveFails(r)
               \/ DialFails(r) \/ Upgrade(r) \/ Cancel(r) \/ Break(r)
        PROVE  limitsUnchanged
    BY <1>7 DEF Arrive, Refuse, RefuseDest, Resolve, ResolveFails, DialFails, Upgrade,
                Cancel, Break
  <1> QED
    BY <1>1, <1>2, <1>3, <1>4, <1>5, <1>6, <1>7 DEF ProxyNext, HandlerStep

-----------------------------------------------------------------------------
\* The proxy uses the limits as Limits.tla describes: proxy_handler and the
\* sessions it starts make no call, and in no state, that Limits.tla leaves out.
THEOREM ProxyUsesLimits == ProxySpec => Spec
  <1>1. ProxyInit => Init
    BY DEF ProxyInit
  <1> QED
    BY <1>1, StepIsCall, RequestsAlwaysKnown, PTL DEF ProxySpec, Spec

\* So whatever requests do, the live counters are exact ...
THEOREM ProxyLeasesCounted == ProxySpec => []LeaseAccounting
  BY ProxyUsesLimits, LeasesCounted, PTL

\* ... and the concurrency caps hold.
THEOREM ProxyCapsHold == ProxySpec => []LeasesWithinCaps
  BY ProxyUsesLimits, CapsHold, PTL

\* A request is judged by exactly what the last windows hold, however requests
\* interleave, and no window ever holds more than its cap.
THEOREM ProxyRatesHold == ProxySpec => [](AttemptVerdict /\ RatesWithinCaps)
  BY ProxyUsesLimits, AttemptsJudgedExactly, RatesHold, PTL

\* The same for the bytes that the sessions charge.
THEOREM ProxyBytesHold == ProxySpec => [](ByteVerdict /\ BytesWithinCap)
  BY ProxyUsesLimits, BytesJudgedExactly, BytesHold, PTL

\* The proxy as a whole keeps the promise of Admission.tla.
THEOREM ProxyKeepsPromise == ProxySpec => Implements
  BY ProxyUsesLimits, LimitsImplementPromise, PTL

\* A lease exists exactly while its request is between acquire and the drop
\* of its Connection, on every path out of proxy_handler, the upgrade and the
\* session.
THEOREM LeaseFollows == ProxySpec => []LeaseFollowsRequest
  <1>1. ProxyInit => LeaseFollowsRequest
    BY DEF ProxyInit, Init, LeaseFollowsRequest, Holding
  <1>2. TypeOK /\ RequestsKnown /\ LeaseFollowsRequest /\ [ProxyNext]_proxyVars
           => LeaseFollowsRequest'
    <2> SUFFICES ASSUME TypeOK, RequestsKnown, LeaseFollowsRequest, [ProxyNext]_proxyVars
                 PROVE  LeaseFollowsRequest'
      OBVIOUS
    <2> DEFINE Held(r) == IF pc[r] \in Holding
                          THEN [ip |-> LimitKey[req[r].client], dest |-> req[r].remote]
                          ELSE NoLease
    <2>t. /\ leases \in [Sessions -> Lease \cup {NoLease}]
          /\ pc \in [Sessions -> Phases]
          /\ req \in [Sessions -> Request \cup {NoRequest}]
          /\ \A r \in Sessions : leases[r] = Held(r)
      BY DEF TypeOK, RequestsKnown, LeaseFollowsRequest
    <2>n. NoLease \notin Lease
      BY NoLeaseAssumption
    <2>1. CASE UNCHANGED <<leases, pc, req>>
      BY <2>1 DEF LeaseFollowsRequest
    <2>2. ASSUME NEW r \in Sessions, NEW a \in Addrs, NEW d \in Dests, Arrive(r, a, d)
          PROVE  LeaseFollowsRequest'
      BY <2>2, <2>t DEF Arrive, LeaseFollowsRequest, Holding, limitsUnchanged, vars
    <2>3. ASSUME NEW r \in Sessions,
                 Refuse(r) \/ RefuseDest(r) \/ ResolveFails(r) \/ Cancel(r)
          PROVE  LeaseFollowsRequest'
      BY <2>3, <2>t DEF Refuse, RefuseDest, ResolveFails, Cancel, Leave,
                        LeaseFollowsRequest, Holding, limitsUnchanged, vars
    <2>4. ASSUME NEW r \in Sessions, Resolve(r) \/ DialFails(r)
          PROVE  LeaseFollowsRequest'
      BY <2>4, <2>t DEF Resolve, DialFails, Leave, Advance,
                        LeaseFollowsRequest, Holding, limitsUnchanged, vars
    <2>5. ASSUME NEW r \in Sessions, Upgrade(r) \/ Break(r)
          PROVE  LeaseFollowsRequest'
      BY <2>5, <2>t DEF Upgrade, Break, Advance,
                        LeaseFollowsRequest, Holding, limitsUnchanged, vars
    <2>6. ASSUME NEW r \in Sessions, NEW n \in ByteSizes, Relay(r, n)
          PROVE  LeaseFollowsRequest'
      BY <2>6, <2>t DEF Relay, AddBytes, Advance, LeaseFollowsRequest, Holding
    <2>7. ASSUME NEW r \in Sessions, Admit(r)
          PROVE  LeaseFollowsRequest'
      BY <2>7, <2>t DEF Admit, RecordAttempt, Advance, Leave, LeaseFollowsRequest, Holding
    <2>8. ASSUME NEW r \in Sessions, DialSucceeds(r)
          PROVE  LeaseFollowsRequest'
      BY <2>8, <2>t DEF DialSucceeds, Acquire, Leave, LeaseFollowsRequest, Holding
    <2>9. ASSUME NEW r \in Sessions, UpgradeFails(r) \/ Close(r) \/ Abort(r)
          PROVE  LeaseFollowsRequest'
      BY <2>9, <2>t DEF UpgradeFails, Close, Abort, Release, Leave, LeaseFollowsRequest, Holding
    <2>10. CASE Tick /\ UNCHANGED handlers
      BY <2>1, <2>10 DEF Tick, handlers
    <2>11. CASE UNCHANGED proxyVars
      BY <2>1, <2>11 DEF proxyVars, vars, handlers
    <2> QED
      BY <2>2, <2>3, <2>4, <2>5, <2>6, <2>7, <2>8, <2>9, <2>10, <2>11
         DEF ProxyNext, HandlerStep
  <1>3. ProxySpec => []TypeOK
    BY ProxyUsesLimits, TypeCorrect, PTL
  <1> QED
    BY <1>1, <1>2, <1>3, RequestsAlwaysKnown, PTL DEF ProxySpec

\* When no request is in flight, the live counters are back at zero and no
\* destination is listed.
THEOREM NoLeak == ProxySpec => []NothingLeaks
  <1>1. TypeOK /\ LeaseAccounting /\ LeaseFollowsRequest => NothingLeaks
    <2> SUFFICES ASSUME TypeOK, LeaseAccounting, LeaseFollowsRequest,
                        \A r \in Sessions : pc[r] = "free"
                 PROVE  /\ inner.global_connections = 0
                        /\ inner.per_dest = EmptyMap
                        /\ \A k \in DOMAIN inner.per_ip : inner.per_ip[k].connections = 0
      BY DEF NothingLeaks
    <2>1. \A r \in Sessions : leases[r] = NoLease
      BY DEF LeaseFollowsRequest, Holding
    <2>2. /\ Promise!Live = {}
          /\ \A k : Promise!LiveOfIp(k) = {}
          /\ \A d : Promise!LiveOfDest(d) = {}
      BY <2>1 DEF Promise!Live, Promise!LiveOfIp, Promise!LiveOfDest
    <2>3. inner.global_connections = 0
      BY <2>2, FS_EmptySet DEF LeaseAccounting
    <2>4. \A k \in DOMAIN inner.per_ip : inner.per_ip[k].connections = 0
      <3>1. \A k \in Keys : Lookup(inner.per_ip, k, DefaultIpState).connections = 0
        BY <2>2, FS_EmptySet DEF LeaseAccounting
      <3> QED
        BY <3>1 DEF TypeOK, IsInner, Lookup
    <2>5. inner.per_dest = EmptyMap
      <3>1. DOMAIN inner.per_dest = {}
        BY <2>2 DEF LeaseAccounting
      <3>2. inner.per_dest \in [DOMAIN inner.per_dest -> Nat]
        BY DEF TypeOK, IsInner
      <3> QED
        BY <3>1, <3>2 DEF EmptyMap
    <2> QED
      BY <2>3, <2>4, <2>5
  <1>2. ProxySpec => []TypeOK
    BY ProxyUsesLimits, TypeCorrect, PTL
  <1> QED
    BY <1>1, <1>2, ProxyLeasesCounted, LeaseFollows, PTL

-----------------------------------------------------------------------------
(* What is dialed. *)

\* The addresses that the policy lets a request dial.
Targets(r) ==
    IF pc[r] = "free" THEN {}
    ELSE IF LiteralOf[req[r].remote] # NoIP THEN {LiteralOf[req[r].remote]} \cap Dialable
    ELSE Dialable

\* The inductive invariant of DialedIsAllowed: what a request has to try and
\* is connected to is among its targets, and there is nothing of it before
\* the lookup.
DialInv ==
    /\ RequestsKnown
    /\ addrs \in [Sessions -> Seq(IPs)] /\ tcp \in [Sessions -> IPs \cup {NoIP}]
    /\ \A r \in Sessions :
          /\ addrs[r] \in Seq(Targets(r)) /\ tcp[r] \in Targets(r) \cup {NoIP}
          /\ pc[r] \in {"arrived", "resolving"} => addrs[r] = <<>> /\ tcp[r] = NoIP
          /\ pc[r] = "dialing" => addrs[r] # <<>>

\* A sequence over a set is one over any larger set.
LEMMA SeqWider ==
    ASSUME NEW S, NEW T, S \subseteq T, NEW s \in Seq(S)
    PROVE  s \in Seq(T)
  BY SeqDef

\* A step that leaves the other requests alone only has to keep its own.
LEMMA OwnRequest ==
    ASSUME DialInv, RequestsKnown', NEW r \in Sessions,
           NEW p, NEW q, NEW s \in Seq(IPs), NEW t \in IPs \cup {NoIP},
           pc' = [pc EXCEPT ![r] = p], req' = [req EXCEPT ![r] = q],
           addrs' = [addrs EXCEPT ![r] = s], tcp' = [tcp EXCEPT ![r] = t],
           s \in Seq(Targets(r)'), t \in Targets(r)' \cup {NoIP},
           p \in {"arrived", "resolving"} => s = <<>> /\ t = NoIP,
           p = "dialing" => s # <<>>
    PROVE  DialInv'
  <1>1. addrs' \in [Sessions -> Seq(IPs)] /\ tcp' \in [Sessions -> IPs \cup {NoIP}]
    BY DEF DialInv
  <1>2. ASSUME NEW o \in Sessions
        PROVE  /\ addrs'[o] \in Seq(Targets(o)') /\ tcp'[o] \in Targets(o)' \cup {NoIP}
               /\ pc'[o] \in {"arrived", "resolving"} => addrs'[o] = <<>> /\ tcp'[o] = NoIP
               /\ pc'[o] = "dialing" => addrs'[o] # <<>>
    <2>1. CASE o = r
      <3>1. pc'[r] = p /\ addrs'[r] = s /\ tcp'[r] = t
        BY DEF DialInv, RequestsKnown
      <3> QED
        BY <2>1, <3>1, Zenon
    <2>2. CASE o # r
      <3>1. /\ pc'[o] = pc[o] /\ req'[o] = req[o]
            /\ addrs'[o] = addrs[o] /\ tcp'[o] = tcp[o]
        BY <2>2 DEF DialInv, RequestsKnown
      <3>2. Targets(o)' = Targets(o)
        BY <3>1, Zenon DEF Targets
      <3> QED
        BY <3>1, <3>2, Zenon DEF DialInv
    <2> QED
      BY <2>1, <2>2
  <1> QED
    BY <1>1, <1>2 DEF DialInv

\* A request that leaves keeps nothing.
LEMMA LeaveDials ==
    ASSUME DialInv, RequestsKnown', NEW r \in Sessions, Leave(r)
    PROVE  DialInv'
  <1>1. <<>> \in Seq(Targets(r)') /\ <<>> \in Seq(IPs)
    OBVIOUS
  <1> QED
    BY <1>1, OwnRequest DEF Leave

\* A request that goes on keeps what it has, if it may have it there.
LEMMA AdvanceDials ==
    ASSUME DialInv, RequestsKnown', NEW r \in Sessions, NEW phase \in Phases \ {"free"},
           pc[r] # "free", Advance(r, phase), addrs' = addrs,
           phase # "dialing", phase # "arrived", phase = "resolving" => pc[r] = "arrived"
    PROVE  DialInv'
  <1>1. /\ addrs' = [addrs EXCEPT ![r] = addrs[r]] /\ addrs[r] \in Seq(IPs)
        /\ tcp' = [tcp EXCEPT ![r] = tcp[r]] /\ tcp[r] \in IPs \cup {NoIP}
        /\ req' = [req EXCEPT ![r] = req[r]]
        /\ pc' = [pc EXCEPT ![r] = phase] /\ pc'[r] = phase /\ req'[r] = req[r]
    BY DEF Advance, DialInv, RequestsKnown
  <1>2. Targets(r)' = Targets(r)
    BY <1>1 DEF Targets
  <1>3. /\ addrs[r] \in Seq(Targets(r)') /\ tcp[r] \in Targets(r)' \cup {NoIP}
        /\ phase = "resolving" => addrs[r] = <<>> /\ tcp[r] = NoIP
    BY <1>2 DEF DialInv
  <1> QED
    BY <1>1, <1>3, OwnRequest

\* What is left of an answer, or of a literal, is among the targets.
LEMMA FilteredTargets ==
    ASSUME NEW r \in Sessions, RequestsKnown, pc[r] = "resolving", NEW answer \in Answers,
           NEW kept,
           kept = IF LiteralOf[req[r].remote] # NoIP
                  THEN resolve_filtered(<<LiteralOf[req[r].remote]>>)
                  ELSE resolve_filtered(answer)
    PROVE  kept \in Seq(Targets(r)) /\ kept \in Seq(IPs)
  <1> DEFINE lit == LiteralOf[req[r].remote]
  <1>1. req[r].remote \in Dests /\ lit \in IPs \cup {NoIP}
    BY ProxyAssumption DEF RequestsKnown, Request
  <1>2. Dialable \subseteq IPs
    BY ProxyAssumption DEF Dialable
  <1>3. CASE lit # NoIP
    <2> DEFINE R == {x \in Dialable : \E i \in DOMAIN <<lit>> : <<lit>>[i] = x}
    <2>1. <<lit>> \in Seq(IPs)
      BY <1>1, <1>3
    <2>2. kept \in Seq(R)
      BY <1>3, <2>1, RetainedIn DEF resolve_filtered
    <2>3. R \subseteq Targets(r) /\ R \subseteq IPs
      BY <1>2, <1>3 DEF Targets
    <2> HIDE DEF R
    <2> QED
      BY <2>2, <2>3, SeqWider
  <1>4. CASE lit = NoIP
    <2> DEFINE R == {x \in Dialable : \E i \in DOMAIN answer : answer[i] = x}
    <2>1. answer \in Seq(IPs)
      BY DEF Answers
    <2>2. kept \in Seq(R)
      BY <1>4, <2>1, RetainedIn DEF resolve_filtered
    <2>3. R \subseteq Targets(r) /\ R \subseteq IPs
      BY <1>2, <1>4 DEF Targets
    <2> HIDE DEF R
    <2> QED
      BY <2>2, <2>3, SeqWider
  <1> QED
    BY <1>3, <1>4

\* Every step keeps the invariant.
LEMMA DialStep ==
    ASSUME DialInv, RequestsKnown', [ProxyNext]_proxyVars
    PROVE  DialInv'
  <1> USE DEF limitsUnchanged
  <1>1. CASE UNCHANGED handlers
    BY <1>1 DEF handlers, DialInv, Targets
  <1>2. ASSUME NEW r \in Sessions, NEW a \in Addrs, NEW d \in Dests, Arrive(r, a, d)
        PROVE  DialInv'
    <2>1. addrs[r] \in Seq({}) /\ tcp[r] = NoIP
      BY <1>2 DEF Arrive, DialInv, Targets
    <2>2. addrs[r] = <<>>
      BY <2>1, SeqDef
    <2>3. /\ addrs' = [addrs EXCEPT ![r] = <<>>] /\ tcp' = [tcp EXCEPT ![r] = NoIP]
      BY <1>2, <2>1, <2>2 DEF Arrive, DialInv
    <2>4. <<>> \in Seq(Targets(r)') /\ <<>> \in Seq(IPs)
      OBVIOUS
    <2>5. /\ pc' = [pc EXCEPT ![r] = "arrived"]
          /\ req' = [req EXCEPT ![r] = [client |-> a, remote |-> d]]
      BY <1>2 DEF Arrive
    <2> QED
      BY <2>3, <2>4, <2>5, OwnRequest
  <1>3. ASSUME NEW r \in Sessions,
               Refuse(r) \/ RefuseDest(r) \/ ResolveFails(r) \/ Cancel(r)
               \/ UpgradeFails(r) \/ Close(r) \/ Abort(r)
        PROVE  DialInv'
    <2>1. Leave(r)
      BY <1>3 DEF Refuse, RefuseDest, ResolveFails, Cancel, UpgradeFails, Close, Abort
    <2> QED
      BY <2>1, LeaveDials
  <1>4. ASSUME NEW r \in Sessions, Upgrade(r) \/ Break(r) \/ \E n \in ByteSizes : Relay(r, n)
        PROVE  DialInv'
    <2>1. \E phase \in {"session", "closing"} : Advance(r, phase)
      BY <1>4 DEF Upgrade, Break, Relay
    <2>2. pc[r] # "free" /\ addrs' = addrs
      BY <1>4 DEF Upgrade, Break, Relay
    <2> QED
      BY <2>1, <2>2, AdvanceDials DEF Phases
  <1>5. ASSUME NEW r \in Sessions, Admit(r) PROVE DialInv'
    <2>1. pc[r] = "arrived" /\ (Leave(r) \/ (Advance(r, "resolving") /\ addrs' = addrs))
      BY <1>5 DEF Admit
    <2>2. CASE Leave(r)
      BY <2>2, LeaveDials
    <2>3. CASE Advance(r, "resolving") /\ addrs' = addrs
      BY <2>1, <2>3, AdvanceDials DEF Phases
    <2> QED
      BY <2>1, <2>2, <2>3
  <1>6. ASSUME NEW r \in Sessions, Resolve(r) PROVE DialInv'
    <2>1. pc[r] = "resolving"
      BY <1>6 DEF Resolve
    <2>2. PICK answer \in Answers :
             LET kept == IF LiteralOf[req[r].remote] # NoIP
                         THEN resolve_filtered(<<LiteralOf[req[r].remote]>>)
                         ELSE resolve_filtered(answer)
             IN IF kept = <<>>
                THEN Leave(r)
                ELSE Advance(r, "dialing") /\ addrs' = [addrs EXCEPT ![r] = kept]
      BY <1>6 DEF Resolve
    <2> DEFINE kept == IF LiteralOf[req[r].remote] # NoIP
                       THEN resolve_filtered(<<LiteralOf[req[r].remote]>>)
                       ELSE resolve_filtered(answer)
    <2>3. kept \in Seq(Targets(r)) /\ kept \in Seq(IPs)
      BY <2>1, FilteredTargets DEF DialInv
    <2>4. \/ Leave(r)
          \/ kept # <<>> /\ Advance(r, "dialing") /\ addrs' = [addrs EXCEPT ![r] = kept]
      BY <2>2, Zenon
    <2> HIDE DEF kept
    <2>5. CASE Leave(r)
      BY <2>5, LeaveDials
    <2>6. CASE kept # <<>> /\ Advance(r, "dialing") /\ addrs' = [addrs EXCEPT ![r] = kept]
      <3>1. /\ tcp' = [tcp EXCEPT ![r] = NoIP]
            /\ req' = [req EXCEPT ![r] = req[r]]
            /\ pc' = [pc EXCEPT ![r] = "dialing"] /\ pc'[r] = "dialing" /\ req'[r] = req[r]
        BY <2>1, <2>6 DEF Advance, DialInv, RequestsKnown
      <3>2. Targets(r)' = Targets(r)
        BY <2>1, <3>1 DEF Targets
      <3>3. kept \in Seq(Targets(r)') /\ kept # <<>> /\ addrs' = [addrs EXCEPT ![r] = kept]
        BY <2>3, <2>6, <3>2, Zenon
      <3> QED
        BY <2>3, <3>1, <3>3, OwnRequest
    <2> QED
      BY <2>4, <2>5, <2>6
  <1>7. ASSUME NEW r \in Sessions, DialFails(r) PROVE DialInv'
    <2>1. pc[r] = "dialing" /\ addrs[r] # <<>> /\ addrs[r] \in Seq(Targets(r)) /\ addrs[r] \in Seq(IPs)
      BY <1>7 DEF DialFails, DialInv
    <2>2. CASE Leave(r)
      BY <2>2, LeaveDials
    <2>3. CASE ~Leave(r)
      <3>1. Len(addrs[r]) # 1 /\ Advance(r, "dialing") /\ addrs' = [addrs EXCEPT ![r] = Tail(addrs[r])]
        BY <1>7, <2>3 DEF DialFails
      <3>2. /\ tcp' = [tcp EXCEPT ![r] = tcp[r]] /\ tcp[r] \in IPs \cup {NoIP}
            /\ req' = [req EXCEPT ![r] = req[r]]
            /\ pc' = [pc EXCEPT ![r] = "dialing"] /\ pc'[r] = "dialing" /\ req'[r] = req[r]
        BY <3>1 DEF Advance, DialInv, RequestsKnown
      <3>3. Targets(r)' = Targets(r)
        BY <2>1, <3>2 DEF Targets
      <3>4. /\ Tail(addrs[r]) \in Seq(Targets(r)) /\ Tail(addrs[r]) \in Seq(IPs)
            /\ Len(Tail(addrs[r])) = Len(addrs[r]) - 1 /\ Len(addrs[r]) \in Nat \ {0, 1}
        <4>1. ASSUME NEW S, addrs[r] \in Seq(S)
              PROVE  /\ Tail(addrs[r]) \in Seq(S)
                     /\ Len(Tail(addrs[r])) = Len(addrs[r]) - 1 /\ Len(addrs[r]) \in Nat \ {0}
          BY <2>1, <4>1, HeadTailProperties, EmptySeq
        <4> QED
          BY <2>1, <3>1, <4>1
      <3>5. Tail(addrs[r]) # <<>>
        <4>1. Len(Tail(addrs[r])) # 0 /\ Len(<<>>) = 0
          BY <3>4
        <4> QED
          BY <4>1, Zenon
      <3>6. tcp[r] \in Targets(r)' \cup {NoIP} /\ Tail(addrs[r]) \in Seq(Targets(r)')
        BY <3>3, <3>4, Zenon DEF DialInv
      <3> QED
        BY <3>1, <3>2, <3>4, <3>5, <3>6, OwnRequest
    <2> QED
      BY <2>2, <2>3
  <1>8. ASSUME NEW r \in Sessions, DialSucceeds(r) PROVE DialInv'
    <2>1. pc[r] = "dialing" /\ addrs[r] # <<>> /\ addrs[r] \in Seq(Targets(r)) /\ addrs[r] \in Seq(IPs)
      BY <1>8 DEF DialSucceeds, DialInv
    <2>2. CASE Leave(r)
      BY <2>2, LeaveDials
    <2>3. CASE ~Leave(r)
      <3>1. /\ pc' = [pc EXCEPT ![r] = "upgrading"]
            /\ tcp' = [tcp EXCEPT ![r] = Head(addrs[r])]
            /\ addrs' = [addrs EXCEPT ![r] = <<>>]
            /\ req' = req
        BY <1>8, <2>3 DEF DialSucceeds
      <3>2. Head(addrs[r]) \in Targets(r) /\ Head(addrs[r]) \in IPs
        BY <2>1, HeadTailProperties
      <3>3. pc'[r] = "upgrading" /\ req'[r] = req[r] /\ req' = [req EXCEPT ![r] = req[r]]
        BY <3>1 DEF DialInv, RequestsKnown
      <3>4. Targets(r)' = Targets(r)
        BY <2>1, <3>3 DEF Targets
      <3>5. <<>> \in Seq(Targets(r)') /\ <<>> \in Seq(IPs) /\ Head(addrs[r]) \in Targets(r)'
        BY <3>2, <3>4
      <3> QED
        BY <3>1, <3>2, <3>3, <3>5, OwnRequest
    <2> QED
      BY <2>2, <2>3
  <1> QED
    BY <1>1, <1>2, <1>3, <1>4, <1>5, <1>6, <1>7, <1>8 DEF ProxyNext, HandlerStep, proxyVars, handlers

\* No socket is open to an address, and none is about to be dialed, that the
\* policy does not allow, and a literal is dialed only as itself, whatever
\* the lookups answer: resolve_filtered and connect_addrs of src/dest.rs.
THEOREM OnlyAllowedDialed == ProxySpec => []DialedIsAllowed
  <1>1. ProxyInit => DialInv
    <2> SUFFICES ASSUME ProxyInit PROVE DialInv
      OBVIOUS
    <2>1. RequestsKnown
      BY DEF ProxyInit, RequestsKnown, Phases
    <2>2. \A S : <<>> \in Seq(S)
      OBVIOUS
    <2> QED
      BY <2>1, <2>2 DEF ProxyInit, DialInv
  <1>2. DialInv /\ RequestsKnown' /\ [ProxyNext]_proxyVars => DialInv'
    BY DialStep
  <1>3. DialInv => DialedIsAllowed
    <2> SUFFICES ASSUME DialInv, NEW r \in Sessions
                 PROVE  LET dials == {addrs[r][i] : i \in DOMAIN addrs[r]} \cup ({tcp[r]} \ {NoIP})
                        IN /\ dials \subseteq Dialable
                           /\ pc[r] # "free" /\ LiteralOf[req[r].remote] # NoIP =>
                                 dials \subseteq {LiteralOf[req[r].remote]}
      BY DEF DialedIsAllowed
    <2>1. addrs[r] \in Seq(Targets(r)) /\ tcp[r] \in Targets(r) \cup {NoIP}
      BY DEF DialInv
    <2>2. \A i \in DOMAIN addrs[r] : addrs[r][i] \in Targets(r)
      BY <2>1, ElementOfSeq
    <2>3. Targets(r) \subseteq Dialable
      BY DEF Targets
    <2>4. pc[r] # "free" /\ LiteralOf[req[r].remote] # NoIP =>
             Targets(r) \subseteq {LiteralOf[req[r].remote]}
      BY DEF Targets
    <2> QED
      BY <2>1, <2>2, <2>3, <2>4
  <1> QED
    BY <1>1, <1>2, <1>3, RequestsAlwaysKnown, PTL DEF ProxySpec
=============================================================================

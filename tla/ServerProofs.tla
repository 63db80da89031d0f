---------------------------- MODULE ServerProofs ----------------------------
(***************************************************************************)
(* Proofs about Server.tla: the process uses Proxy.tla as it is, so all    *)
(* that holds of the proxy holds of it; the gauge is exact; and the server *)
(* keeps the safety half of its contract with the clients.                 *)
(***************************************************************************)
EXTENDS Server, ProxyProofs

\* Every step of the process is one of the proxy, or leaves it alone.
LEMMA ServerStep == [ServerNext]_serverVars => [ProxyNext]_proxyVars
  <1> SUFFICES ASSUME ServerNext PROVE [ProxyNext]_proxyVars
    BY DEF serverVars
  <1>1. CASE Tick /\ UNCHANGED <<handlers, process>>
    BY <1>1 DEF ProxyNext
  <1>2. ASSUME NEW r \in Sessions, NEW a \in Addrs, NEW d \in Dests, Accept(r, a, d)
        PROVE  ProxyNext
    BY <1>2 DEF Accept, ProxyNext
  <1>3. ASSUME NEW r \in Sessions,
               \/ Handle(r) \/ StartSession(r) \/ RunSession(r) \/ EndSession(r)
               \/ DropTask(r)
        PROVE  ProxyNext
    BY <1>3 DEF Handle, StartSession, RunSession, EndSession, DropTask, HandlerStep, ProxyNext
  <1>4. CASE Signal \/ ServeReturns \/ Exit
    BY <1>4 DEF Signal, ServeReturns, Exit
  <1> QED
    BY <1>1, <1>2, <1>3, <1>4 DEF ServerNext

\* A process that is started, signalled, drained and torn down does nothing to
\* a request that Proxy.tla does not know of.
THEOREM ServerUsesProxy == ServerSpec => ProxySpec
  <1>1. ServerInit => ProxyInit
    BY DEF ServerInit
  <1> QED
    BY <1>1, ServerStep, PTL DEF ServerSpec, ProxySpec

\* So shutdown, whenever it comes, leaks no lease and breaks no cap.
THEOREM ServerLeases ==
    ServerSpec => [](LeaseFollowsRequest /\ NothingLeaks /\ LeasesWithinCaps)
  BY ServerUsesProxy, LeaseFollows, NoLeak, ProxyCapsHold, PTL

-----------------------------------------------------------------------------
(* The contract. *)

St == [r \in Sessions |-> Stage(pc[r])]
Ow == [r \in Sessions |-> Owner(r)]

\* What the contract's steps are in terms of the handlers.
LEMMA LeavingIsGoing ==
    ASSUME RequestsKnown, NEW r \in Sessions, pc[r] # "free", Leave(r), UNCHANGED phase
    PROVE  Contract!Go(r, "waiting") \/ Contract!Go(r, "served")
  <1>1. /\ pc' = [pc EXCEPT ![r] = "free"]
        /\ req' = [req EXCEPT ![r] = NoRequest]
    BY DEF Leave
  <1>2. St' = [St EXCEPT ![r] = "none"]
    BY <1>1 DEF RequestsKnown, St, Stage
  <1>3. Ow' = [Ow EXCEPT ![r] = NoRequest]
    BY <1>1 DEF RequestsKnown, Ow, Owner
  <1>4. St[r] = "waiting" \/ St[r] = "served"
    BY DEF St, Stage
  <1> QED
    BY <1>2, <1>3, <1>4 DEF Contract!Go, St, Ow

\* A step inside a stage is invisible to the client.
LEMMA AdvancingIsInvisible ==
    ASSUME RequestsKnown, NEW r \in Sessions, NEW p, pc[r] # "free", p # "free",
           Advance(r, p), (pc[r] \in Holding) <=> (p \in Holding), UNCHANGED phase
    PROVE  UNCHANGED Contract!serviceVars
  <1>1. pc' = [pc EXCEPT ![r] = p] /\ req' = req
    BY DEF Advance
  <1>2. St' = St
    BY <1>1 DEF RequestsKnown, St, Stage
  <1>3. Ow' = Ow
    BY <1>1 DEF RequestsKnown, Ow, Owner
  <1> QED
    BY <1>2, <1>3 DEF Contract!serviceVars, St, Ow

LEMMA OtherIsInvisible ==
    ASSUME UNCHANGED <<pc, req>>, UNCHANGED phase
    PROVE  UNCHANGED Contract!serviceVars
  BY DEF Contract!serviceVars, Stage, Owner

\* The requests served to a client are the leases of its prefix.
LEMMA ServedAreLeases ==
    ASSUME RequestsKnown, LeaseFollowsRequest, NEW k \in Keys
    PROVE  Contract!ServedTo(k) = Promise!LiveOfIp(k)
  <1>1. \A r \in Sessions :
           (Stage(pc[r]) = "served" /\ Owner(r) = k) <=> (leases[r] # NoLease /\ leases[r].ip = k)
    <2> SUFFICES ASSUME NEW r \in Sessions
                 PROVE  (Stage(pc[r]) = "served" /\ Owner(r) = k)
                           <=> (leases[r] # NoLease /\ leases[r].ip = k)
      OBVIOUS
    <2>1. CASE pc[r] \in Holding
      <3>1. req[r] \in Request
        BY <2>1 DEF RequestsKnown, Holding
      <3>2. leases[r] = [ip |-> LimitKey[req[r].client], dest |-> req[r].remote]
        BY <2>1 DEF LeaseFollowsRequest
      <3>3. leases[r] \in Lease
        BY <3>1, <3>2, LimitKeyAssumption DEF Lease, Request
      <3> QED
        BY <2>1, <3>2, <3>3, NoLeaseAssumption DEF Stage, Owner, Holding
    <2>2. CASE pc[r] \notin Holding
      BY <2>2 DEF LeaseFollowsRequest, Stage
    <2> QED
      BY <2>1, <2>2
  <1> QED
    BY <1>1 DEF Contract!ServedTo, Promise!LiveOfIp, Promise!Live

LEMMA ContractCardinality == \A S : Contract!Cardinality(S) = Cardinality(S)
  BY DEF Contract!Cardinality, Cardinality

\* A lease is granted only to a client with room.
LEMMA DialingIsServing ==
    ASSUME RequestsKnown, LeaseFollowsRequest, LeaseVerdict,
           NEW r \in Sessions, DialSucceeds(r), UNCHANGED phase
    PROVE  Contract!Serve(r) \/ Contract!Go(r, "waiting") \/ Contract!Go(r, "served")
  <1> DEFINE k == LimitKey[req[r].client]
             d == req[r].remote
  <1>1. pc[r] = "dialing" /\ req[r] \in Request
    BY DEF DialSucceeds, RequestsKnown
  <1>2. k \in Keys /\ d \in Dests
    BY <1>1, LimitKeyAssumption DEF Request
  <1>3. CASE acquire(inner, now, k, d).res = "Ok"
    <2>1. pc' = [pc EXCEPT ![r] = "upgrading"] /\ req' = req
      BY <1>3 DEF DialSucceeds
    <2>2. Promise!LeaseAllowed(k, d)
      BY <1>2, <1>3 DEF LeaseVerdict
    <2>3. ~capped(Cfg.max_conns_per_ip, Cardinality(Promise!LiveOfIp(k)))
      BY <2>2, PromiseCardinality DEF Promise!LeaseAllowed, Promise!capped, capped
    <2>4. Cfg.max_conns_per_ip # 0 =>
             Contract!Cardinality(Contract!ServedTo(k)) < Cfg.max_conns_per_ip
      <3>1. IsFiniteSet(Promise!LiveOfIp(k))
        BY SessionsAssumption, FS_Subset DEF Promise!LiveOfIp, Promise!Live
      <3>2. Cardinality(Promise!LiveOfIp(k)) \in Nat
        BY <3>1, FS_CardinalityType
      <3>3. Cfg.max_conns_per_ip \in Nat
        BY CfgAssumption DEF LimitsConfig
      <3> QED
        BY <1>2, <2>3, <3>2, <3>3, ContractCardinality, ServedAreLeases DEF capped
    <2>5. Owner(r) = k
      BY <1>1 DEF Owner
    <2>6. St' = [St EXCEPT ![r] = "served"]
      BY <2>1 DEF RequestsKnown, St, Stage, Holding
    <2>7. Ow' = Ow
      BY <1>1, <2>1 DEF RequestsKnown, Ow, Owner
    <2>8. St[r] = "waiting"
      BY <1>1 DEF St, Stage, Holding
    <2> QED
      BY <2>4, <2>5, <2>6, <2>7, <2>8 DEF Contract!Serve, St, Ow
  <1>4. CASE acquire(inner, now, k, d).res # "Ok"
    BY <1>1, <1>4, LeavingIsGoing DEF DialSucceeds
  <1> QED
    BY <1>3, <1>4

\* Every step of the server is a step of the contract, or invisible.
LEMMA StepKeepsContract ==
    ASSUME RequestsKnown, LeaseFollowsRequest, LeaseVerdict, ServerNext
    PROVE  [Contract!ServiceNext]_Contract!serviceVars
  <1> DEFINE Goes(r) == Contract!Go(r, "waiting") \/ Contract!Go(r, "served")
             Invisible == UNCHANGED Contract!serviceVars
  <1>1. CASE Tick /\ UNCHANGED <<handlers, process>>
    BY <1>1, OtherIsInvisible DEF handlers, process
  <1>2. ASSUME NEW r \in Sessions, NEW a \in Addrs, NEW d \in Dests, Accept(r, a, d)
        PROVE  Contract!Come(r, LimitKey[a])
    <2>1. /\ pc[r] = "free" /\ phase = "serving" /\ phase' = phase
          /\ pc' = [pc EXCEPT ![r] = "arrived"]
          /\ req' = [req EXCEPT ![r] = [client |-> a, remote |-> d]]
      BY <1>2 DEF Accept, Arrive, process
    <2>2. St' = [St EXCEPT ![r] = "waiting"]
      BY <2>1 DEF RequestsKnown, St, Stage, Holding
    <2>3. Ow' = [Ow EXCEPT ![r] = LimitKey[a]]
      BY <2>1 DEF RequestsKnown, Ow, Owner
    <2> QED
      BY <2>1, <2>2, <2>3 DEF Contract!Come, St, Ow, Stage
  <1>3. ASSUME NEW r \in Sessions, Handle(r)
        PROVE  Goes(r) \/ Contract!Serve(r) \/ Invisible
    <2>0. UNCHANGED phase
      BY <1>3 DEF Handle, process
    <2>1. CASE Refuse(r) \/ RefuseDest(r) \/ ResolveFails(r) \/ Cancel(r) \/ UpgradeFails(r)
      BY <2>0, <2>1, LeavingIsGoing DEF Refuse, RefuseDest, ResolveFails, Cancel, UpgradeFails
    <2>2. CASE Admit(r)
      BY <2>0, <2>2, LeavingIsGoing, AdvancingIsInvisible DEF Admit, Holding
    <2>3. CASE Resolve(r)
      BY <2>0, <2>3, LeavingIsGoing, AdvancingIsInvisible DEF Resolve, Holding
    <2>4. CASE DialFails(r)
      BY <2>0, <2>4, LeavingIsGoing, AdvancingIsInvisible DEF DialFails, Holding
    <2>5. CASE DialSucceeds(r)
      BY <2>0, <2>5, DialingIsServing
    <2>6. CASE Upgrade(r)
      BY <2>0, <2>6, AdvancingIsInvisible DEF Upgrade, Holding
    <2> QED
      BY <1>3, <2>1, <2>2, <2>3, <2>4, <2>5, <2>6 DEF Handle, HandlerStep
  <1>4. ASSUME NEW r \in Sessions, StartSession(r)
        PROVE  Invisible
    BY <1>4, AdvancingIsInvisible DEF StartSession, Upgrade, Holding
  <1>5. ASSUME NEW r \in Sessions, RunSession(r)
        PROVE  Invisible
    <2>0. UNCHANGED phase
      BY <1>5 DEF RunSession, process
    <2>1. CASE Break(r)
      BY <2>0, <2>1, AdvancingIsInvisible DEF Break, Holding
    <2>2. ASSUME NEW n \in ByteSizes, Relay(r, n)
          PROVE  Invisible
      BY <2>0, <2>2, AdvancingIsInvisible DEF Relay, Holding
    <2> QED
      BY <1>5, <2>1, <2>2 DEF RunSession
  <1>6. ASSUME NEW r \in Sessions, EndSession(r) \/ DropTask(r)
        PROVE  Goes(r)
    BY <1>6, LeavingIsGoing DEF EndSession, DropTask, Close, Abort
  <1>7. CASE Signal
    <2>1. phase = "serving" /\ phase' = "draining" /\ UNCHANGED <<pc, req>>
      BY <1>7 DEF Signal, proxyVars, handlers
    <2> QED
      BY <2>1 DEF Contract!Shut, Contract!ServiceNext, Stage, Owner
  <1>8. CASE ServeReturns \/ Exit
    <2>1. UNCHANGED <<pc, req>> /\ phase # "serving" /\ phase' # "serving"
      BY <1>8 DEF ServeReturns, Exit, proxyVars, handlers
    <2> QED
      BY <2>1 DEF Contract!serviceVars, Stage, Owner
  <1>9. \A a \in Addrs : LimitKey[a] \in Keys
    BY LimitKeyAssumption
  <1> QED
    BY <1>1, <1>2, <1>3, <1>4, <1>5, <1>6, <1>7, <1>8, <1>9
       DEF ServerNext, Contract!ServiceNext

\* The server keeps the safety half of its contract: whatever the requests,
\* the limiter and the signal do, no client is served beyond its cap, none is
\* served that did not wait, and nobody comes in after a stop.
THEOREM ContractKept == ServerSpec => KeepsContractSafely
  <1>1. ServerInit => Contract!ServiceInit
    BY DEF ServerInit, ProxyInit, Contract!ServiceInit, Stage, Owner
  <1>2. RequestsKnown /\ LeaseFollowsRequest /\ LeaseVerdict /\ [ServerNext]_serverVars
           => [Contract!ServiceNext]_Contract!serviceVars
    <2>1. CASE UNCHANGED serverVars
      BY <2>1, OtherIsInvisible DEF serverVars, proxyVars, handlers, process
    <2> QED
      BY <2>1, StepKeepsContract
  <1>3. ServerSpec => []RequestsKnown
    BY ServerUsesProxy, RequestsAlwaysKnown, PTL
  <1>4. ServerSpec => []LeaseFollowsRequest
    BY ServerLeases, PTL
  <1>5. ServerSpec => []LeaseVerdict
    BY ServerUsesProxy, ProxyUsesLimits, AcquireExact, PTL
  <1> QED
    BY <1>1, <1>2, <1>3, <1>4, <1>5, PTL
       DEF ServerSpec, KeepsContractSafely, Contract!ServiceSpec

-----------------------------------------------------------------------------
(* The limits of the running process. *)

\* The process as a whole, stops and aborted tasks included, lets no client
\* and no destination begin more or transfer more than the limits allow, and
\* dials only what the policy allows.
THEOREM ServerWithinLimits ==
    ServerSpec => [](RatesWithinCaps /\ BytesWithinCap /\ DialedIsAllowed)
  BY ServerUsesProxy, ProxyRatesHold, ProxyBytesHold, OnlyAllowedDialed, PTL

-----------------------------------------------------------------------------
(* The gauge. *)

RunningNow == {r \in Sessions : pc[r] \in Running}
UpgradingNow == {r \in Sessions : pc[r] = "upgrading"}

LEMMA RunningFinite == IsFiniteSet(RunningNow) /\ IsFiniteSet(UpgradingNow)
  BY SessionsAssumption, FS_Subset DEF RunningNow, UpgradingNow

\* The gauge counts the sessions: the part of GaugeExact that is inductive.
GaugeCounts == active_connections = Cardinality(RunningNow)

LEMMA GaugeUp ==
    ASSUME RequestsKnown, GaugeCounts, NEW r \in Sessions, StartSession(r)
    PROVE  GaugeCounts'
  <1>1. /\ pc[r] = "upgrading" /\ pc' = [pc EXCEPT ![r] = "session"]
        /\ active_connections' = active_connections + 1
    BY DEF StartSession, Upgrade, Advance
  <1>2. RunningNow' = RunningNow \cup {r} /\ r \notin RunningNow
    BY <1>1 DEF RequestsKnown, RunningNow, Running
  <1> QED
    BY <1>1, <1>2, RunningFinite, FS_AddElement DEF GaugeCounts

LEMMA GaugeDown ==
    ASSUME RequestsKnown, GaugeCounts, NEW r \in Sessions, EndSession(r) \/ DropTask(r)
    PROVE  GaugeCounts'
  <1>1. /\ pc[r] \in Running /\ pc' = [pc EXCEPT ![r] = "free"]
        /\ active_connections' = active_connections - 1
    BY DEF EndSession, DropTask, Close, Abort, Leave, Running
  <1>2. RunningNow' = RunningNow \ {r} /\ r \in RunningNow
    BY <1>1 DEF RequestsKnown, RunningNow, Running
  <1> QED
    BY <1>1, <1>2, RunningFinite, FS_RemoveElement DEF GaugeCounts

LEMMA GaugeSteady ==
    ASSUME RequestsKnown, GaugeCounts, UNCHANGED active_connections, NEW r \in Sessions,
           NEW p, pc' = [pc EXCEPT ![r] = p], (pc[r] \in Running) <=> (p \in Running)
    PROVE  GaugeCounts'
  <1>1. RunningNow' = RunningNow
    BY DEF RequestsKnown, RunningNow
  <1> QED
    BY <1>1 DEF GaugeCounts

\* Every way a session begins or ends moves the gauge by one, and nothing
\* else moves it.
LEMMA GaugeStep ==
    RequestsKnown /\ GaugeCounts /\ [ServerNext]_serverVars => GaugeCounts'
  <1> SUFFICES ASSUME RequestsKnown, GaugeCounts, [ServerNext]_serverVars
               PROVE  GaugeCounts'
    OBVIOUS
  <1>1. CASE UNCHANGED <<pc, active_connections>>
    BY <1>1 DEF GaugeCounts, RunningNow
  <1>2. CASE Tick /\ UNCHANGED <<handlers, process>>
    BY <1>1, <1>2 DEF handlers, process
  <1>3. CASE Signal \/ ServeReturns \/ Exit
    BY <1>1, <1>3 DEF Signal, ServeReturns, Exit, proxyVars, handlers
  <1>4. CASE UNCHANGED serverVars
    BY <1>1, <1>4 DEF serverVars, proxyVars, handlers, process
  <1>5. ASSUME NEW r \in Sessions, NEW a \in Addrs, NEW d \in Dests, Accept(r, a, d)
        PROVE  GaugeCounts'
    BY <1>5, GaugeSteady DEF Accept, Arrive, Running, process
  <1>6. ASSUME NEW r \in Sessions, Handle(r)
        PROVE  GaugeCounts'
    <2>0. UNCHANGED active_connections /\ pc'[r] # "session"
      BY <1>6 DEF Handle, process
    <2>1. CASE Refuse(r) \/ RefuseDest(r) \/ ResolveFails(r) \/ Cancel(r) \/ UpgradeFails(r)
      BY <2>0, <2>1, GaugeSteady
         DEF Refuse, RefuseDest, ResolveFails, Cancel, UpgradeFails, Leave, Running
    <2>2. CASE Admit(r)
      BY <2>0, <2>2, GaugeSteady DEF Admit, Advance, Leave, Running
    <2>3. CASE Resolve(r)
      BY <2>0, <2>3, GaugeSteady DEF Resolve, Advance, Leave, Running
    <2>4. CASE DialFails(r) \/ DialSucceeds(r)
      BY <2>0, <2>4, GaugeSteady DEF DialFails, DialSucceeds, Advance, Leave, Running
    <2>5. CASE Upgrade(r)
      BY <2>0, <2>5 DEF Upgrade, Advance, RequestsKnown
    <2> QED
      BY <1>6, <2>1, <2>2, <2>3, <2>4, <2>5 DEF Handle, HandlerStep
  <1>7. ASSUME NEW r \in Sessions, RunSession(r)
        PROVE  GaugeCounts'
    <2>1. \E p \in Running : pc' = [pc EXCEPT ![r] = p]
      BY <1>7 DEF RunSession, Break, Relay, Advance, Running
    <2>2. pc[r] \in Running /\ UNCHANGED active_connections
      BY <1>7 DEF RunSession, Break, Relay, Running, process
    <2> QED
      BY <2>1, <2>2, GaugeSteady
  <1> QED
    BY <1>2, <1>3, <1>4, <1>5, <1>6, <1>7, GaugeUp, GaugeDown DEF ServerNext

\* The exported gauge counts the sessions, and with the upgrades under way it
\* accounts for every slot of the limiter, through stops and aborted tasks.
THEOREM GaugeAlwaysExact == ServerSpec => []GaugeExact
  <1>1. ServerInit => GaugeCounts
    <2> SUFFICES ASSUME ServerInit PROVE GaugeCounts
      OBVIOUS
    <2>1. RunningNow = {}
      BY DEF ServerInit, ProxyInit, RunningNow, Running
    <2> QED
      BY <2>1, FS_EmptySet DEF ServerInit, GaugeCounts
  <1>2. GaugeCounts /\ LeaseAccounting /\ LeaseFollowsRequest /\ RequestsKnown => GaugeExact
    <2> SUFFICES ASSUME GaugeCounts, LeaseAccounting, LeaseFollowsRequest, RequestsKnown
                 PROVE  GaugeExact
      OBVIOUS
    <2>1. Promise!Live = RunningNow \cup UpgradingNow
      <3>1. \A r \in Sessions : leases[r] # NoLease <=> pc[r] \in Holding
        <4> SUFFICES ASSUME NEW r \in Sessions, pc[r] \in Holding
                     PROVE  leases[r] # NoLease
          BY DEF LeaseFollowsRequest
        <4>1. req[r] \in Request
          BY DEF RequestsKnown, Holding
        <4>2. leases[r] = [ip |-> LimitKey[req[r].client], dest |-> req[r].remote]
          BY DEF LeaseFollowsRequest
        <4>3. [ip |-> LimitKey[req[r].client], dest |-> req[r].remote] \in Lease
          BY <4>1, LimitKeyAssumption DEF Lease, Request
        <4> QED
          BY <4>2, <4>3, NoLeaseAssumption
      <3> QED
        BY <3>1 DEF Promise!Live, RunningNow, UpgradingNow, Running, Holding
    <2>2. RunningNow \cap UpgradingNow = {}
      BY DEF RunningNow, UpgradingNow, Running
    <2>3. Cardinality(Promise!Live) = Cardinality(RunningNow) + Cardinality(UpgradingNow)
      <3>1. Cardinality(RunningNow \cap UpgradingNow) = 0
        BY <2>2, FS_EmptySet
      <3>2. Cardinality(RunningNow) \in Nat /\ Cardinality(UpgradingNow) \in Nat
        BY RunningFinite, FS_CardinalityType
      <3>3. Cardinality(RunningNow \cup UpgradingNow) =
               Cardinality(RunningNow) + Cardinality(UpgradingNow)
                  - Cardinality(RunningNow \cap UpgradingNow)
        BY RunningFinite, FS_Union
      <3>4. Cardinality(Promise!Live) = Cardinality(RunningNow \cup UpgradingNow)
        BY <2>1
      <3> QED
        BY <3>1, <3>2, <3>3, <3>4
    <2> QED
      BY <2>3 DEF GaugeExact, GaugeCounts, LeaseAccounting, RunningNow, UpgradingNow
  <1>3. ServerSpec => []RequestsKnown
    BY ServerUsesProxy, RequestsAlwaysKnown, PTL
  <1>4. ServerSpec => [](LeaseFollowsRequest /\ LeaseAccounting)
    BY ServerUsesProxy, LeaseFollows, ProxyLeasesCounted, PTL
  <1> QED
    BY <1>1, <1>2, <1>3, <1>4, GaugeStep, PTL DEF ServerSpec
=============================================================================

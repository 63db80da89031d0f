------------------------------- MODULE Server -------------------------------
(***************************************************************************)
(* The life of the process: run_proxy of src/server.rs under the main of   *)
(* src/main.rs, around the requests of Proxy.tla.                          *)
(*                                                                         *)
(* axum::serve accepts until SIGTERM or Ctrl-C, then waits for the         *)
(* connections it still drives.  A connection that was upgraded is no      *)
(* longer one of them: its session is a task of its own.  When serve       *)
(* returns, so does main, and the runtime drops every task that is left    *)
(* at the await it is in.                                                  *)
(***************************************************************************)
EXTENDS Proxy

VARIABLES
    phase,              \* "serving", "draining", "dropping" or "exited"
    active_connections  \* the gauge of src/metrics.rs

process == <<phase, active_connections>>
serverVars == <<proxyVars, process>>

ServerInit ==
    /\ ProxyInit
    /\ phase = "serving"
    /\ active_connections = 0

\* The connection of such a request is still driven by axum::serve.
InHandler == {"arrived", "resolving", "dialing", "upgrading"}

Running == {"session", "closing"}

Accept(r, a, d) ==
    /\ phase = "serving"
    /\ Arrive(r, a, d)
    /\ UNCHANGED process

\* Draining does not hurry the handlers.
Handle(r) ==
    /\ phase \in {"serving", "draining"}
    /\ HandlerStep(r) \/ Cancel(r)
    /\ pc'[r] # "session"
    /\ UNCHANGED process

\* Connection::run begins with ScopeGauge::new.
StartSession(r) ==
    /\ phase \in {"serving", "draining"}
    /\ Upgrade(r)
    /\ active_connections' = active_connections + 1
    /\ UNCHANGED phase

\* Until it is dropped, a task may go on for a while beside the shutdown.
RunSession(r) ==
    /\ phase # "exited"
    /\ Break(r) \/ \E n \in ByteSizes : Relay(r, n)
    /\ UNCHANGED process

EndSession(r) ==
    /\ phase # "exited"
    /\ Close(r)
    /\ active_connections' = active_connections - 1
    /\ UNCHANGED phase

Signal ==
    /\ phase = "serving"
    /\ phase' = "draining"
    /\ UNCHANGED <<proxyVars, active_connections>>

\* Mutated: serve without with_graceful_shutdown.
ServeReturns_at_once ==
    /\ phase = "draining"
    /\ phase' = "dropping"
    /\ UNCHANGED <<proxyVars, active_connections>>

\* Mutated: the sessions are waited for too.
ServeReturns_idle ==
    /\ phase = "draining"
    /\ \A r \in Sessions : pc[r] = "free"
    /\ phase' = "dropping"
    /\ UNCHANGED <<proxyVars, active_connections>>

\* The last connection that serve drives is done: run_proxy and main return.
ServeReturns ==
    /\ phase = "draining"
    /\ \A r \in Sessions : pc[r] \notin InHandler
    /\ phase' = "dropping"
    /\ UNCHANGED <<proxyVars, active_connections>>

\* Mutated: the gauge goes down at the end of run, not in a Drop.
DropTask_gauge(r) ==
    /\ phase = "dropping"
    /\ Abort(r)
    /\ UNCHANGED process

\* The runtime drops what is left: the lease, the sockets and the gauge go
\* with a session, and the client sees no Close.
DropTask(r) ==
    /\ phase = "dropping"
    /\ Abort(r)
    /\ active_connections' = active_connections - 1
    /\ UNCHANGED phase

Exit ==
    /\ phase = "dropping"
    /\ \A r \in Sessions : pc[r] = "free"
    /\ phase' = "exited"
    /\ UNCHANGED <<proxyVars, active_connections>>

ServerNext ==
    \/ Tick /\ UNCHANGED <<handlers, process>>
    \/ \E r \in Sessions :
          \/ \E a \in Addrs, d \in Dests : Accept(r, a, d)
          \/ Handle(r)
          \/ StartSession(r)
          \/ RunSession(r)
          \/ EndSession(r)
          \/ DropTask(r)
    \/ Signal
    \/ ServeReturns
    \/ Exit

ServerSpec == ServerInit /\ [][ServerNext]_serverVars

(***************************************************************************)
(* The awaits of a handler end (the lookup and every dial have a timeout,  *)
(* an upgrade completes or fails), serve returns when it has nothing left  *)
(* to drive, and the runtime drops every task.  Nothing is assumed of      *)
(* sessions, clients, the clock or the signal.                             *)
(***************************************************************************)
FairServerSpec ==
    /\ ServerSpec
    /\ WF_serverVars(ServeReturns)
    /\ WF_serverVars(Exit)
    /\ \A r \in Sessions :
          /\ WF_serverVars(Handle(r) \/ StartSession(r))
          /\ WF_serverVars(DropTask(r))

-----------------------------------------------------------------------------
(* Properties. *)

\* Where its handler or session puts a request, as its client sees it.
Stage(p) == IF p = "free" THEN "none" ELSE IF p \in Holding THEN "served" ELSE "waiting"

\* The prefix a request is charged to.
Owner(r) == IF pc[r] = "free" THEN NoRequest ELSE LimitKey[req[r].client]

Contract == INSTANCE Service WITH
    Requests <- Sessions,
    Clients <- Keys,
    NoClient <- NoRequest,
    Cap <- Cfg.max_conns_per_ip,
    stage <- [r \in Sessions |-> Stage(pc[r])],
    owner <- [r \in Sessions |-> Owner(r)],
    open <- (phase = "serving")

\* The server keeps the contract: no client is served beyond its cap, nobody
\* waits for ever, a stop lets the requests in their handlers be answered,
\* takes nobody new, and ends every session.
KeepsContract == Contract!FairServiceSpec

\* The safety half of the contract.
KeepsContractSafely == Contract!ServiceSpec

\* The exported gauge is the number of sessions whatever ends them, and with
\* the upgrades under way it accounts for every slot the limiter has given.
GaugeExact ==
    /\ active_connections = Cardinality({r \in Sessions : pc[r] \in Running})
    /\ inner.global_connections =
          active_connections + Cardinality({r \in Sessions : pc[r] = "upgrading"})

\* A stop ends: no session, busy or stalled in its teardown, holds up the
\* process.
StopEnds == phase = "draining" ~> phase = "exited"
=============================================================================

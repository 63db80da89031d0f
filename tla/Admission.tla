------------------------------ MODULE Admission ------------------------------
(***************************************************************************)
(* What the admission limits of the proxy promise, with none of the        *)
(* bookkeeping.  The state is the truth the limits are about: which leases *)
(* are live, and every connect attempt and every byte charge admitted so   *)
(* far.  An operation is admitted only when the truth leaves room for it;  *)
(* a refusal changes nothing.  Limits.tla, which models src/limits.rs,     *)
(* implements this module.                                                 *)
(***************************************************************************)
EXTENDS LimitsParams, FiniteSetsExt

VARIABLES
    now,            \* Instant::now()
    leases,         \* session -> the lease it holds, or NoLease
    attempts,       \* prefix -> every attempt admitted for it, oldest first
    charges         \* prefix -> every byte charge admitted for it, oldest first

vars == <<now, leases, attempts, charges>>

Init ==
    /\ now = 0
    /\ leases = [s \in Sessions |-> NoLease]
    /\ attempts = [k \in Keys |-> <<>>]
    /\ charges = [k \in Keys |-> <<>>]

-----------------------------------------------------------------------------
(* The usage a cap is compared with. *)

Live == {s \in Sessions : leases[s] # NoLease}
LiveOfIp(k) == {s \in Live : leases[s].ip = k}
LiveOfDest(d) == {s \in Live : leases[s].dest = d}

\* The entries of a log that are at most w old.
Recent(log, w) == {i \in DOMAIN log : now - log[i].t <= w}

ConnectsOf(k) == Cardinality(Recent(attempts[k], Cfg.connects_per_ip_window))

DestsOf(k) ==
    {attempts[k][i].dest : i \in Recent(attempts[k], Cfg.distinct_dests_window)}

ConnectsOfAll ==
    MapThenSumSet(LAMBDA k : Cardinality(Recent(attempts[k], Cfg.global_connects_window)),
                  Keys)

BytesOf(k) ==
    MapThenSumSet(LAMBDA i : charges[k][i].n, Recent(charges[k], Cfg.bytes_window))

-----------------------------------------------------------------------------
(* When there is room. *)

AttemptAllowed(k, d) ==
    /\ ~capped(Cfg.global_connects, ConnectsOfAll)
    /\ ~capped(Cfg.connects_per_ip, ConnectsOf(k))
    /\ d \in DestsOf(k) \/ ~capped(Cfg.distinct_dests_per_ip, Cardinality(DestsOf(k)))

LeaseAllowed(k, d) ==
    /\ ~capped(Cfg.max_global_connections, Cardinality(Live))
    /\ ~capped(Cfg.max_conns_per_ip, Cardinality(LiveOfIp(k)))
    /\ ~capped(Cfg.max_conns_per_dest, Cardinality(LiveOfDest(d)))

ChargeAllowed(k, n) ==
    Cfg.max_bytes_per_ip = 0 \/ BytesOf(k) + n <= Cfg.max_bytes_per_ip

-----------------------------------------------------------------------------
Tick ==
    /\ now' = now + 1
    /\ UNCHANGED <<leases, attempts, charges>>

Attempt(k, d) ==
    /\ AttemptAllowed(k, d)
    /\ attempts' = [attempts EXCEPT ![k] = Append(@, [t |-> now, dest |-> d])]
    /\ UNCHANGED <<now, leases, charges>>

Grant(s, k, d) ==
    /\ leases[s] = NoLease
    /\ LeaseAllowed(k, d)
    /\ leases' = [leases EXCEPT ![s] = [ip |-> k, dest |-> d]]
    /\ UNCHANGED <<now, attempts, charges>>

Return(s) ==
    /\ leases[s] # NoLease
    /\ leases' = [leases EXCEPT ![s] = NoLease]
    /\ UNCHANGED <<now, attempts, charges>>

Charge(k, n) ==
    /\ ChargeAllowed(k, n)
    /\ charges' = [charges EXCEPT ![k] = Append(@, [t |-> now, n |-> n])]
    /\ UNCHANGED <<now, leases, attempts>>

Next ==
    \/ Tick
    \/ \E k \in Keys, d \in Dests :
          \/ Attempt(k, d)
          \/ \E s \in Sessions : Grant(s, k, d)
    \/ \E s \in Sessions : Return(s)
    \/ \E k \in Keys, n \in ByteSizes : Charge(k, n)

Spec == Init /\ [][Next]_vars

-----------------------------------------------------------------------------
Within(limit, used) == limit = 0 \/ used <= limit

\* The live leases never exceed a cap.
LeasesWithinCaps ==
    /\ Within(Cfg.max_global_connections, Cardinality(Live))
    /\ \A k \in Keys : Within(Cfg.max_conns_per_ip, Cardinality(LiveOfIp(k)))
    /\ \A d \in Dests : Within(Cfg.max_conns_per_dest, Cardinality(LiveOfDest(d)))

\* In no window do the admitted attempts, or the destinations of one client,
\* exceed a cap.
RatesWithinCaps ==
    /\ Within(Cfg.global_connects, ConnectsOfAll)
    /\ \A k \in Keys :
          /\ Within(Cfg.connects_per_ip, ConnectsOf(k))
          /\ Within(Cfg.distinct_dests_per_ip, Cardinality(DestsOf(k)))

\* In no window do the bytes of one client exceed the cap.
BytesWithinCap == \A k \in Keys : Within(Cfg.max_bytes_per_ip, BytesOf(k))
=============================================================================

------------------------------- MODULE Limits -------------------------------
(***************************************************************************)
(* src/limits.rs: the in-process admission limits of the proxy.            *)
(*                                                                         *)
(* All of LimitState sits behind one Mutex and every method holds it from  *)
(* its first to its last line, so a method call is one action.  The calls  *)
(* come from any number of request handlers and sessions, in any order.    *)
(* The methods are written as operators from the guarded state (the record *)
(* `inner`, after `struct Inner`) to a result and a new state; the actions *)
(* below apply them.                                                       *)
(*                                                                         *)
(* leases, attempts and charges are not state of the code: they record the *)
(* leases that exist and what was admitted, for comparison with the        *)
(* promise in Admission.tla.  No action reads attempts or charges.         *)
(***************************************************************************)
EXTENDS LimitsParams, FiniteSetsExt

VARIABLES now, leases, attempts, charges,
    inner           \* the state behind the Mutex

vars == <<now, leases, attempts, charges, inner>>

\* The promise, over the same constants and the recorded truth.
Promise == INSTANCE Admission

-----------------------------------------------------------------------------
(* HashMap *)

EmptyMap == [x \in {} |-> 0]

Put(map, key, v) ==
    [x \in DOMAIN map \cup {key} |-> IF x = key THEN v ELSE map[x]]

Drop(map, keys) == [x \in DOMAIN map \ keys |-> map[x]]

Lookup(map, key, default) == IF key \in DOMAIN map THEN map[key] ELSE default

(* u64 / usize *)

saturating_sub(a, b) == IF a - b \in Nat THEN a - b ELSE 0

-----------------------------------------------------------------------------
(* A VecDeque of stamped entries: the expired ones are popped from the     *)
(* front until a live one is met.                                          *)

\* Mutated: an entry expires one instant early.
Fresh_strict(q, time, window) == {i \in DOMAIN q : time - q[i].t < window}

Fresh(q, time, window) == {i \in DOMAIN q : time - q[i].t <= window}

\* Mutated: one expired entry empties the queue.
popped_all(q, time, window) ==
    IF Fresh(q, time, window) = DOMAIN q THEN 0 ELSE Len(q)

popped(q, time, window) ==
    IF Fresh(q, time, window) = {} THEN Len(q)
    ELSE (CHOOSE i \in Fresh(q, time, window) :
             \A j \in Fresh(q, time, window) : i <= j) - 1

prune_queue(q, time, window) == SubSeq(q, popped(q, time, window) + 1, Len(q))

BytesIn(q, indices) == MapThenSumSet(LAMBDA i : q[i].n, indices)

-----------------------------------------------------------------------------
(* IpState *)

IpState ==
    [ connections : Nat,
      connects    : Seq([t : Nat]),
      dests       : Seq([t : Nat, dest : Dests]),
      bytes       : Seq([t : Nat, n : Nat]),
      bytes_sum   : Nat ]

DefaultIpState ==
    [ connections |-> 0, connects |-> <<>>, dests |-> <<>>, bytes |-> <<>>,
      bytes_sum |-> 0 ]

\* Mutated: the sum is not reduced by what is popped.
prune_sum_kept(st, time) ==
    [ connections |-> st.connections,
      connects    |-> prune_queue(st.connects, time, Cfg.connects_per_ip_window),
      dests       |-> prune_queue(st.dests, time, Cfg.distinct_dests_window),
      bytes       |-> prune_queue(st.bytes, time, Cfg.bytes_window),
      bytes_sum   |-> st.bytes_sum ]

prune(st, time) ==
    [ connections |-> st.connections,
      connects    |-> prune_queue(st.connects, time, Cfg.connects_per_ip_window),
      dests       |-> prune_queue(st.dests, time, Cfg.distinct_dests_window),
      bytes       |-> prune_queue(st.bytes, time, Cfg.bytes_window),
      bytes_sum   |-> saturating_sub(st.bytes_sum,
                        BytesIn(st.bytes, 1 .. popped(st.bytes, time, Cfg.bytes_window))) ]

\* Mutated: live connections do not keep a row.
is_idle_rates(st) == st.connects = <<>> /\ st.dests = <<>> /\ st.bytes = <<>>

is_idle(st) ==
    st.connections = 0 /\ st.connects = <<>> /\ st.dests = <<>> /\ st.bytes = <<>>

-----------------------------------------------------------------------------
(* Inner *)

InitInner ==
    [ global_connections |-> 0, global_connects |-> <<>>,
      per_ip |-> EmptyMap, per_dest |-> EmptyMap, last_gc |-> 0 ]

prune_global(g, time) ==
    [g EXCEPT !.global_connects = prune_queue(@, time, Cfg.global_connects_window)]

\* Mutated: rows are judged without being pruned first.
gc_idle_unpruned(g, time) ==
    [ prune_global(g, time) EXCEPT
        !.per_ip = Drop(@, {k \in DOMAIN @ : is_idle(g.per_ip[k])}),
        !.last_gc = time ]

gc_idle(g, time) ==
    LET pruned == [k \in DOMAIN g.per_ip |-> prune(g.per_ip[k], time)] IN
    [ prune_global(g, time) EXCEPT
        !.per_ip = Drop(pruned, {k \in DOMAIN pruned : is_idle(pruned[k])}),
        !.last_gc = time ]

maybe_gc(g, time) ==
    IF \/ time - g.last_gc >= GcInterval
       \/ Cardinality(DOMAIN g.per_ip) >= GcRows
    THEN gc_idle(g, time)
    ELSE g

\* The map of rows is full and has none for k.
no_room(g, k) ==
    capped(Cfg.max_tracked_ips, Cardinality(DOMAIN g.per_ip)) /\ k \notin DOMAIN g.per_ip

-----------------------------------------------------------------------------
(* LimitState: each method returns the new state and its result. *)

Returns(g, res) == [g |-> g, res |-> res]

\* record_attempt once the tracked-prefix cap lets k through.
count_attempt(g, time, k, d) ==
    LET st == prune(Lookup(g.per_ip, k, DefaultIpState), time)
        row == [g EXCEPT !.per_ip = Put(@, k, st)]
        unique == {st.dests[i].dest : i \in DOMAIN st.dests}
    IN IF capped(Cfg.global_connects, Len(g.global_connects))
         THEN Returns(g, "GlobalConnectRate")
       ELSE IF capped(Cfg.connects_per_ip, Len(st.connects))
         THEN Returns(row, "ConnectRate")
       ELSE IF d \notin unique /\ capped(Cfg.distinct_dests_per_ip, Cardinality(unique))
         THEN Returns(row, "DistinctDests")
       ELSE Returns([g EXCEPT
                       !.per_ip = Put(@, k, [st EXCEPT
                          !.connects = Append(@, [t |-> time]),
                          !.dests = Append(@, [t |-> time, dest |-> d])]),
                       !.global_connects = Append(@, [t |-> time])],
                    "Ok")

record_attempt(inn, time, k, d) ==
    LET g == prune_global(maybe_gc(inn, time), time)
        collected == IF no_room(g, k) THEN gc_idle(g, time) ELSE g
    IN IF no_room(collected, k)
       THEN Returns(collected, "GlobalConnectRate")
       ELSE count_attempt(collected, time, k, d)

acquire(inn, time, k, d) ==
    LET g == maybe_gc(inn, time)
        st == Lookup(g.per_ip, k, DefaultIpState)
        row == [g EXCEPT !.per_ip = Put(@, k, st)]
        dest_count == Lookup(g.per_dest, d, 0)
    IN IF capped(Cfg.max_global_connections, g.global_connections)
         THEN Returns(g, "GlobalFull")
       ELSE IF capped(Cfg.max_conns_per_ip, st.connections)
         THEN Returns(row, "PerIpFull")
       ELSE IF capped(Cfg.max_conns_per_dest, dest_count)
         THEN Returns(row, "PerDestFull")
       ELSE Returns([g EXCEPT
                       !.global_connections = @ + 1,
                       !.per_ip = Put(@, k, [st EXCEPT !.connections = @ + 1]),
                       !.per_dest = Put(@, d, dest_count + 1)],
                    "Ok")

\* The row of k after one of its leases is dropped: gone when it is idle.
release_row(rows, time, k) ==
    IF k \in DOMAIN rows
    THEN LET st == prune([rows[k] EXCEPT !.connections = saturating_sub(@, 1)], time)
         IN IF is_idle(st) THEN Drop(rows, {k}) ELSE Put(rows, k, st)
    ELSE rows

\* Mutated: the count of a destination never goes down.
release_dest_kept(counts, d) == counts

release_dest(counts, d) ==
    IF d \in DOMAIN counts
    THEN LET c == saturating_sub(counts[d], 1)
         IN IF c = 0 THEN Drop(counts, {d}) ELSE Put(counts, d, c)
    ELSE counts

release(inn, time, k, d) ==
    [inn EXCEPT !.global_connections = saturating_sub(@, 1),
                !.per_ip = release_row(@, time, k),
                !.per_dest = release_dest(@, d)]

\* A charge of 0 bytes returns before the lock is taken and is not modelled.
add_bytes(inn, time, k, n) ==
    LET g == maybe_gc(inn, time)
        st == prune(Lookup(g.per_ip, k, DefaultIpState), time)
    IN IF Cfg.max_bytes_per_ip = 0
         THEN Returns(g, "Ok")
       ELSE IF st.bytes_sum + n > Cfg.max_bytes_per_ip
         THEN Returns([g EXCEPT !.per_ip = Put(@, k, st)], "ByteCap")
       ELSE Returns([g EXCEPT
                       !.per_ip = Put(@, k, [st EXCEPT
                          !.bytes = Append(@, [t |-> time, n |-> n]),
                          !.bytes_sum = @ + n])],
                    "Ok")

-----------------------------------------------------------------------------
(* The calls, by any handler or session, in any order. *)

Init ==
    /\ now = 0
    /\ leases = [s \in Sessions |-> NoLease]
    /\ attempts = [k \in Keys |-> <<>>]
    /\ charges = [k \in Keys |-> <<>>]
    /\ inner = InitInner

Tick ==
    /\ now < MaxTime
    /\ now' = now + 1
    /\ UNCHANGED <<leases, attempts, charges, inner>>

\* Mutated: the rows are keyed by the address, limit_key is not applied.
RecordAttempt_raw(a, d) ==
    /\ inner' = record_attempt(inner, now, a, d).g
    /\ UNCHANGED <<now, leases, attempts, charges>>

RecordAttempt(a, d) ==
    LET k == LimitKey[a]
        r == record_attempt(inner, now, k, d)
    IN /\ inner' = r.g
       /\ attempts' = IF r.res = "Ok"
                      THEN [attempts EXCEPT ![k] = Append(@, [t |-> now, dest |-> d])]
                      ELSE attempts
       /\ UNCHANGED <<now, leases, charges>>

Acquire(s, a, d) ==
    LET k == LimitKey[a]
        r == acquire(inner, now, k, d)
    IN /\ leases[s] = NoLease
       /\ inner' = r.g
       /\ leases' = IF r.res = "Ok"
                    THEN [leases EXCEPT ![s] = [ip |-> k, dest |-> d]]
                    ELSE leases
       /\ UNCHANGED <<now, attempts, charges>>

\* Drop for ConnectionLease: the lease carries the masked key, not the address.
Release(s) ==
    /\ leases[s] # NoLease
    /\ inner' = release(inner, now, leases[s].ip, leases[s].dest)
    /\ leases' = [leases EXCEPT ![s] = NoLease]
    /\ UNCHANGED <<now, attempts, charges>>

\* A session charges its own client, whose prefix is the one of its lease.
AddBytes(s, n) ==
    LET k == leases[s].ip
        r == add_bytes(inner, now, k, n)
    IN /\ leases[s] # NoLease
       /\ inner' = r.g
       /\ charges' = IF r.res = "Ok" /\ Cfg.max_bytes_per_ip # 0
                     THEN [charges EXCEPT ![k] = Append(@, [t |-> now, n |-> n])]
                     ELSE charges
       /\ UNCHANGED <<now, leases, attempts>>

Next ==
    \/ Tick
    \/ \E a \in Addrs, d \in Dests : RecordAttempt(a, d)
    \/ \E s \in Sessions, a \in Addrs, d \in Dests : Acquire(s, a, d)
    \/ \E s \in Sessions : Release(s)
    \/ \E s \in Sessions, n \in ByteSizes : AddBytes(s, n)

Spec == Init /\ [][Next]_vars

-----------------------------------------------------------------------------
(* Properties. *)

IsInner(g) ==
    /\ g \in [ global_connections : Nat,
               global_connects    : Seq([t : Nat]),
               per_ip             : [DOMAIN g.per_ip -> IpState],
               per_dest           : [DOMAIN g.per_dest -> Nat],
               last_gc            : Nat ]
    /\ DOMAIN g.per_ip \subseteq Keys
    /\ DOMAIN g.per_dest \subseteq Dests

\* Every variable has its type.
TypeOK ==
    /\ now \in Nat
    /\ leases \in [Sessions -> Lease \cup {NoLease}]
    /\ attempts \in [Keys -> Seq([t : Nat, dest : Dests])]
    /\ charges \in [Keys -> Seq([t : Nat, n : Nat])]
    /\ IsInner(inner)

\* The three counters of live connections are exactly the numbers of leases
\* that exist, whatever collections, expiries and failed calls came between
\* acquire and the Drop of a lease: no lease is lost, counted twice, or
\* forgotten with its row; and a destination is listed only while in use.
LeaseAccounting ==
    /\ inner.global_connections = Cardinality(Promise!Live)
    /\ \A k \in Keys :
          Lookup(inner.per_ip, k, DefaultIpState).connections
             = Cardinality(Promise!LiveOfIp(k))
    /\ DOMAIN inner.per_dest = {d \in Dests : Promise!LiveOfDest(d) # {}}
    /\ \A d \in DOMAIN inner.per_dest :
          inner.per_dest[d] = Cardinality(Promise!LiveOfDest(d))

\* acquire grants a slot exactly when the leases that exist leave room.
LeaseVerdict ==
    \A k \in Keys, d \in Dests :
       (acquire(inner, now, k, d).res = "Ok") <=> Promise!LeaseAllowed(k, d)

\* record_attempt admits nothing the sliding windows forbid, and, where the
\* number of tracked prefixes is not capped, refuses nothing they allow: the
\* pruned queues answer as the full history would.
AttemptVerdict ==
    \A k \in Keys, d \in Dests :
       LET ok == record_attempt(inner, now, k, d).res = "Ok" IN
       /\ ok => Promise!AttemptAllowed(k, d)
       /\ Promise!AttemptAllowed(k, d) /\ Cfg.max_tracked_ips = 0 => ok

\* add_bytes accepts a message exactly when the bytes the client moved in the
\* last window leave room for it: bytes_sum survives pruning and collection.
ByteVerdict ==
    \A k \in Keys, n \in ByteSizes :
       (add_bytes(inner, now, k, n).res = "Ok") <=> Promise!ChargeAllowed(k, n)

\* gc_idle keeps exactly the rows that still matter: those of a prefix with a
\* live lease, or with an admitted attempt or charge inside its window.
GcExact ==
    DOMAIN gc_idle(inner, now).per_ip =
       {k \in Keys :
          \/ Promise!LiveOfIp(k) # {}
          \/ Promise!ConnectsOf(k) > 0
          \/ Promise!DestsOf(k) # {}
          \/ Promise!Recent(charges[k], Cfg.bytes_window) # {}}

\* The leases that exist never exceed the global, per-client or
\* per-destination cap, though acquire looks only at counters that
\* collections and failed calls rewrite.
LeasesWithinCaps == Promise!LeasesWithinCaps

\* In no window ending at any instant do the attempts record_attempt admitted,
\* in total or for one client, or the destinations of one client, exceed
\* their caps.
RatesWithinCaps == Promise!RatesWithinCaps

\* In no window do the bytes add_bytes accepted for one client exceed the cap.
BytesWithinCap == Promise!BytesWithinCap

\* The bookkeeping of limits.rs implements the promise.
Implements == Promise!Spec
=============================================================================

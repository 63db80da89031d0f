---------------------------- MODULE LimitsProofs ----------------------------
(***************************************************************************)
(* Proofs about Limits.tla, for every configuration, every set of clients, *)
(* destinations and sessions, and without a bound on time.                 *)
(***************************************************************************)
EXTENDS Limits, Sums, SequenceTheorems

-----------------------------------------------------------------------------
(* Queues and rows. *)

\* Pruning pops between none and all of the entries.
LEMMA PoppedType ==
    ASSUME NEW q, Len(q) \in Nat, DOMAIN q = 1 .. Len(q), NEW time, NEW window
    PROVE  popped(q, time, window) \in 0 .. Len(q)
  <1> DEFINE F == Fresh(q, time, window)
  <1>1. F \subseteq 1 .. Len(q)
    BY DEF Fresh
  <1>2. CASE F = {}
    BY <1>2 DEF popped
  <1>3. CASE F # {}
    <2> DEFINE m == CHOOSE i \in F : \A j \in F : i <= j
    <2>1. \E x \in F : \A y \in F : x <= y
      BY <1>1, <1>3, LeastNatural
    <2>2. m \in F
      BY <2>1
    <2>3. popped(q, time, window) = m - 1
      BY <1>3, Zenon DEF popped
    <2>4. m \in 1 .. Len(q)
      BY <1>1, <2>2
    <2> HIDE DEF m
    <2> QED
      BY <2>3, <2>4
  <1> QED
    BY <1>2, <1>3

\* What is left of a pruned queue has the entries' type.
LEMMA PruneQueueType ==
    ASSUME NEW S, NEW q \in Seq(S), NEW time, NEW window
    PROVE  prune_queue(q, time, window) \in Seq(S)
  <1>1. popped(q, time, window) \in 0 .. Len(q)
    BY PoppedType
  <1>2. \A i \in popped(q, time, window) + 1 .. Len(q) : q[i] \in S
    BY <1>1
  <1> QED
    BY <1>1, <1>2, SubSeqProperties DEF prune_queue

\* Pruning a row leaves its number of live connections alone.
LEMMA PruneRow ==
    ASSUME NEW st \in IpState, NEW time
    PROVE  /\ prune(st, time) \in IpState
           /\ prune(st, time).connections = st.connections
  <1>1. prune_queue(st.connects, time, Cfg.connects_per_ip_window) \in Seq([t : Nat])
    BY PruneQueueType DEF IpState
  <1>2. prune_queue(st.dests, time, Cfg.distinct_dests_window) \in Seq([t : Nat, dest : Dests])
    BY PruneQueueType DEF IpState
  <1>3. prune_queue(st.bytes, time, Cfg.bytes_window) \in Seq([t : Nat, n : Nat])
    BY PruneQueueType DEF IpState
  <1>4. \A a, b : saturating_sub(a, b) \in Nat
    BY DEF saturating_sub
  <1> QED
    BY <1>1, <1>2, <1>3, <1>4 DEF prune, IpState

-----------------------------------------------------------------------------
(* Garbage collection and pruning change nothing the leases are counted by. *)

Conns(g, k) == Lookup(g.per_ip, k, DefaultIpState).connections

\* h counts the same live connections as g.
SameCounts(g, h) ==
    /\ IsInner(h)
    /\ h.global_connections = g.global_connections
    /\ h.per_dest = g.per_dest
    /\ \A k \in Keys : Conns(h, k) = Conns(g, k)

\* The row of a prefix that was never seen is a row.
LEMMA DefaultType == DefaultIpState \in IpState
  BY DEF DefaultIpState, IpState

\* Keeping the counters is transitive.
LEMMA SameCountsTrans ==
    ASSUME NEW f, NEW g, NEW h, SameCounts(f, g), SameCounts(g, h)
    PROVE  SameCounts(f, h)
  BY DEF SameCounts

\* A row that is looked up, found or not, is a row.
LEMMA LookupType ==
    ASSUME NEW g, IsInner(g), NEW k \in Keys
    PROVE  Lookup(g.per_ip, k, DefaultIpState) \in IpState
  BY DefaultType DEF IsInner, Lookup

\* prune_global keeps the counters.
LEMMA PruneGlobalSame ==
    ASSUME NEW g, IsInner(g), NEW time
    PROVE  SameCounts(g, prune_global(g, time))
  <1>1. prune_queue(g.global_connects, time, Cfg.global_connects_window) \in Seq([t : Nat])
    BY PruneQueueType DEF IsInner
  <1> QED
    BY <1>1 DEF prune_global, SameCounts, IsInner, Conns

\* Replacing the row of k by one with as many connections.
LEMMA PutRowSame ==
    ASSUME NEW g, IsInner(g), NEW k \in Keys, NEW st \in IpState,
           st.connections = Conns(g, k)
    PROVE  SameCounts(g, [g EXCEPT !.per_ip = Put(@, k, st)])
  BY DEF SameCounts, IsInner, Conns, Put, Lookup

\* gc_idle keeps the counters: the rows it drops count no connection.
LEMMA GcIdleSame ==
    ASSUME NEW g, IsInner(g), NEW time \in Nat
    PROVE  SameCounts(g, gc_idle(g, time))
  <1> DEFINE pruned == [k \in DOMAIN g.per_ip |-> prune(g.per_ip[k], time)]
             idle == {k \in DOMAIN pruned : is_idle(pruned[k])}
             rows == Drop(pruned, idle)
             p == prune_global(g, time)
  <1>1. /\ SameCounts(g, p)
        /\ p.per_ip = g.per_ip
    BY PruneGlobalSame DEF prune_global, IsInner
  <1>2. \A k \in DOMAIN g.per_ip :
           pruned[k] \in IpState /\ pruned[k].connections = g.per_ip[k].connections
    BY PruneRow DEF IsInner
  <1>3. rows \in [DOMAIN rows -> IpState] /\ DOMAIN rows \subseteq DOMAIN g.per_ip
    BY <1>2 DEF Drop
  <1>4. \A k \in Keys : Lookup(rows, k, DefaultIpState).connections = Conns(g, k)
    <2> SUFFICES ASSUME NEW k \in Keys
                 PROVE  Lookup(rows, k, DefaultIpState).connections = Conns(g, k)
      OBVIOUS
    <2>1. CASE k \notin DOMAIN g.per_ip
      BY <2>1 DEF Lookup, Conns, Drop
    <2>2. CASE k \in idle
      <3>1. g.per_ip[k].connections = 0
        BY <1>2, <2>2 DEF is_idle
      <3> QED
        BY <2>2, <3>1 DEF Lookup, Conns, Drop, DefaultIpState
    <2>3. CASE k \in DOMAIN g.per_ip \ idle
      BY <1>2, <2>3 DEF Lookup, Conns, Drop
    <2> QED
      BY <2>1, <2>2, <2>3
  <1>5. gc_idle(g, time) = [p EXCEPT !.per_ip = rows, !.last_gc = time]
    BY DEF gc_idle
  <1> HIDE DEF rows, p, pruned, idle
  <1> QED
    BY <1>1, <1>3, <1>4, <1>5 DEF SameCounts, IsInner, Conns

\* maybe_gc keeps the counters, whether it collects or not.
LEMMA MaybeGcSame ==
    ASSUME NEW g, IsInner(g), NEW time \in Nat
    PROVE  SameCounts(g, maybe_gc(g, time))
  BY GcIdleSame DEF maybe_gc, SameCounts

-----------------------------------------------------------------------------
(* What each method does to the counts. *)

\* A row with one more attempt is a row with the same connections.
LEMMA ExtendAttempts ==
    ASSUME NEW st \in IpState, NEW time \in Nat, NEW d \in Dests
    PROVE  LET st2 == [st EXCEPT !.connects = Append(@, [t |-> time]),
                                 !.dests = Append(@, [t |-> time, dest |-> d])]
           IN  st2 \in IpState /\ st2.connections = st.connections
  <1>1. /\ Append(st.connects, [t |-> time]) \in Seq([t : Nat])
        /\ Append(st.dests, [t |-> time, dest |-> d]) \in Seq([t : Nat, dest : Dests])
    BY DEF IpState
  <1> QED
    BY <1>1 DEF IpState

\* A row with one more charge is a row with the same connections.
LEMMA ExtendBytes ==
    ASSUME NEW st \in IpState, NEW time \in Nat, NEW n \in Nat
    PROVE  LET st2 == [st EXCEPT !.bytes = Append(@, [t |-> time, n |-> n]),
                                 !.bytes_sum = @ + n]
           IN  st2 \in IpState /\ st2.connections = st.connections
  <1>1. /\ Append(st.bytes, [t |-> time, n |-> n]) \in Seq([t : Nat, n : Nat])
        /\ st.bytes_sum + n \in Nat
    BY DEF IpState
  <1> QED
    BY <1>1 DEF IpState

\* Rewriting a row and logging an attempt keeps the counters.
LEMMA PutRowAndGlobalSame ==
    ASSUME NEW g, IsInner(g), NEW k \in Keys, NEW st \in IpState,
           st.connections = Conns(g, k), NEW time \in Nat
    PROVE  SameCounts(g, [g EXCEPT !.per_ip = Put(@, k, st),
                                   !.global_connects = Append(@, [t |-> time])])
  <1>1. Append(g.global_connects, [t |-> time]) \in Seq([t : Nat])
    BY DEF IsInner
  <1>2. g.per_ip \in [DOMAIN g.per_ip -> IpState]
    BY DEF IsInner
  <1>3. Put(g.per_ip, k, st) \in [DOMAIN g.per_ip \cup {k} -> IpState]
    BY <1>2 DEF Put
  <1>4. \A x \in Keys : Lookup(Put(g.per_ip, k, st), x, DefaultIpState).connections = Conns(g, x)
    BY DEF Put, Lookup, Conns
  <1> QED
    BY <1>1, <1>3, <1>4 DEF SameCounts, IsInner, Conns

\* count_attempt keeps the counters, whatever its verdict.
LEMMA CountAttemptSame ==
    ASSUME NEW g, IsInner(g), NEW time \in Nat, NEW k \in Keys, NEW d \in Dests
    PROVE  SameCounts(g, count_attempt(g, time, k, d).g)
  <1> DEFINE st == prune(Lookup(g.per_ip, k, DefaultIpState), time)
             row == [g EXCEPT !.per_ip = Put(@, k, st)]
             st2 == [st EXCEPT !.connects = Append(@, [t |-> time]),
                               !.dests = Append(@, [t |-> time, dest |-> d])]
             ok == [g EXCEPT !.per_ip = Put(@, k, st2),
                             !.global_connects = Append(@, [t |-> time])]
  <1>1. st \in IpState /\ st.connections = Conns(g, k)
    BY LookupType, PruneRow DEF Conns
  <1>2. st2 \in IpState /\ st2.connections = Conns(g, k)
    BY <1>1, ExtendAttempts
  <1>3. count_attempt(g, time, k, d).g \in {g, row, ok}
    BY DEF count_attempt, Returns
  <1>4. SameCounts(g, g)
    BY DEF SameCounts
  <1>5. SameCounts(g, row)
    BY <1>1, PutRowSame
  <1>6. SameCounts(g, ok)
    BY <1>2, PutRowAndGlobalSame
  <1> HIDE DEF row, ok
  <1> QED
    BY <1>3, <1>4, <1>5, <1>6

\* record_attempt keeps the counters, whatever its verdict.
LEMMA RecordAttemptSame ==
    ASSUME NEW inn, IsInner(inn), NEW time \in Nat, NEW k \in Keys, NEW d \in Dests
    PROVE  SameCounts(inn, record_attempt(inn, time, k, d).g)
  <1> DEFINE g == prune_global(maybe_gc(inn, time), time)
             collected == IF no_room(g, k) THEN gc_idle(g, time) ELSE g
  <1>1. SameCounts(inn, g)
    BY MaybeGcSame, PruneGlobalSame, SameCountsTrans DEF SameCounts
  <1>2. SameCounts(inn, collected)
    <2> HIDE DEF g
    <2> QED
      BY <1>1, GcIdleSame, SameCountsTrans DEF SameCounts
  <1>3. SameCounts(inn, count_attempt(collected, time, k, d).g)
    <2> HIDE DEF collected
    <2>1. SameCounts(collected, count_attempt(collected, time, k, d).g)
      BY <1>2, CountAttemptSame DEF SameCounts
    <2> QED
      BY <1>2, <2>1, SameCountsTrans
  <1>4. record_attempt(inn, time, k, d).g \in {collected, count_attempt(collected, time, k, d).g}
    BY DEF record_attempt, Returns
  <1> HIDE DEF collected
  <1> QED
    BY <1>2, <1>3, <1>4

\* add_bytes keeps the counters, whatever its verdict.
LEMMA AddBytesSame ==
    ASSUME NEW inn, IsInner(inn), NEW time \in Nat, NEW k \in Keys, NEW n \in Nat
    PROVE  SameCounts(inn, add_bytes(inn, time, k, n).g)
  <1> DEFINE g == maybe_gc(inn, time)
             st == prune(Lookup(g.per_ip, k, DefaultIpState), time)
             st2 == [st EXCEPT !.bytes = Append(@, [t |-> time, n |-> n]),
                               !.bytes_sum = @ + n]
             row == [g EXCEPT !.per_ip = Put(@, k, st)]
             ok == [g EXCEPT !.per_ip = Put(@, k, st2)]
  <1>1. SameCounts(inn, g) /\ IsInner(g)
    BY MaybeGcSame DEF SameCounts
  <1>2. add_bytes(inn, time, k, n).g \in {g, row, ok}
    BY DEF add_bytes, Returns
  <1> HIDE DEF g
  <1>3. st \in IpState /\ st.connections = Conns(g, k)
    BY <1>1, LookupType, PruneRow DEF Conns
  <1> HIDE DEF st
  <1>4. st2 \in IpState /\ st2.connections = Conns(g, k)
    BY <1>3, ExtendBytes
  <1> HIDE DEF st2
  <1>5. SameCounts(g, row)
    BY <1>1, <1>3, PutRowSame
  <1>6. SameCounts(g, ok)
    BY <1>1, <1>4, PutRowSame
  <1> HIDE DEF row, ok
  <1> QED
    BY <1>1, <1>2, <1>5, <1>6, SameCountsTrans

\* A row with another number of connections is a row.
LEMMA SetConnections ==
    ASSUME NEW st \in IpState, NEW c \in Nat
    PROVE  /\ [st EXCEPT !.connections = c] \in IpState
           /\ [st EXCEPT !.connections = c].connections = c
  BY DEF IpState

\* The three counters can be set together and read back.
LEMMA SetCounts ==
    ASSUME NEW g, IsInner(g), NEW c \in Nat,
           NEW K \in SUBSET Keys, NEW rows \in [K -> IpState],
           NEW D \in SUBSET Dests, NEW counts \in [D -> Nat]
    PROVE  LET h == [g EXCEPT !.global_connections = c, !.per_ip = rows,
                              !.per_dest = counts]
           IN  /\ h.global_connections = c
               /\ h.per_ip = rows
               /\ h.per_dest = counts
               /\ IsInner(h)
  BY DEF IsInner

\* h counts one more connection than g, of k to d.
OneMore(g, h, k, d) ==
    /\ IsInner(h)
    /\ h.global_connections = g.global_connections + 1
    /\ h.per_dest = Put(g.per_dest, d, Lookup(g.per_dest, d, 0) + 1)
    /\ \A x \in Keys : Conns(h, x) = IF x = k THEN Conns(g, x) + 1 ELSE Conns(g, x)

\* The counts in g leave room for a connection of k to d.
HasRoom(g, k, d) ==
    /\ ~capped(Cfg.max_global_connections, g.global_connections)
    /\ ~capped(Cfg.max_conns_per_ip, Conns(g, k))
    /\ ~capped(Cfg.max_conns_per_dest, Lookup(g.per_dest, d, 0))

\* acquire takes a slot exactly when the counts leave room for it.
LEMMA AcquireCounts ==
    ASSUME NEW inn, IsInner(inn), NEW time \in Nat, NEW k \in Keys, NEW d \in Dests
    PROVE  LET r == acquire(inn, time, k, d) IN
           IF r.res = "Ok" THEN OneMore(inn, r.g, k, d) /\ HasRoom(inn, k, d)
           ELSE SameCounts(inn, r.g) /\ ~HasRoom(inn, k, d)
  <1> DEFINE g == maybe_gc(inn, time)
             st == Lookup(g.per_ip, k, DefaultIpState)
             st2 == [st EXCEPT !.connections = @ + 1]
             row == [g EXCEPT !.per_ip = Put(@, k, st)]
             dest_count == Lookup(g.per_dest, d, 0)
             ok == [g EXCEPT !.global_connections = @ + 1,
                             !.per_ip = Put(@, k, st2),
                             !.per_dest = Put(@, d, dest_count + 1)]
             r == acquire(inn, time, k, d)
  <1>1. SameCounts(inn, g) /\ IsInner(g)
    BY MaybeGcSame DEF SameCounts
  <1>2. /\ HasRoom(inn, k, d) <=> HasRoom(g, k, d)
        /\ OneMore(g, ok, k, d) => OneMore(inn, ok, k, d)
    <2> HIDE DEF g, ok
    <2> QED
      BY <1>1 DEF HasRoom, SameCounts, OneMore
  <1>3. \/ HasRoom(g, k, d) /\ r = Returns(ok, "Ok")
        \/ ~HasRoom(g, k, d) /\ r = Returns(g, "GlobalFull")
        \/ ~HasRoom(g, k, d) /\ r = Returns(row, "PerIpFull")
        \/ ~HasRoom(g, k, d) /\ r = Returns(row, "PerDestFull")
    BY DEF acquire, HasRoom, Conns
  <1> HIDE DEF g
  <1>4. st \in IpState /\ st.connections = Conns(g, k)
    BY <1>1, LookupType DEF Conns
  <1> HIDE DEF st
  <1>5. SameCounts(inn, row)
    BY <1>1, <1>4, PutRowSame, SameCountsTrans
  <1>6. OneMore(g, ok, k, d)
    <2>1. st2 \in IpState /\ st2.connections = Conns(g, k) + 1
      <3>1. st.connections + 1 \in Nat
        BY <1>4 DEF IpState
      <3> QED
        BY <1>4, <3>1, SetConnections
    <2> HIDE DEF st2
    <2>2. /\ Put(g.per_ip, k, st2) \in [DOMAIN g.per_ip \cup {k} -> IpState]
          /\ DOMAIN g.per_ip \cup {k} \subseteq Keys
      BY <1>1, <2>1 DEF Put, IsInner
    <2>3. \A x \in Keys : Lookup(Put(g.per_ip, k, st2), x, DefaultIpState).connections
                             = IF x = k THEN Conns(g, x) + 1 ELSE Conns(g, x)
      BY <2>1 DEF Put, Lookup, Conns
    <2>4. dest_count \in Nat
      BY <1>1 DEF Lookup, IsInner
    <2> HIDE DEF dest_count
    <2>5. /\ Put(g.per_dest, d, dest_count + 1) \in [DOMAIN g.per_dest \cup {d} -> Nat]
          /\ DOMAIN g.per_dest \cup {d} \subseteq Dests
      BY <1>1, <2>4 DEF Put, IsInner
    <2>6. g.global_connections + 1 \in Nat
      BY <1>1 DEF IsInner
    <2>7. /\ ok.global_connections = g.global_connections + 1
          /\ ok.per_ip = Put(g.per_ip, k, st2)
          /\ ok.per_dest = Put(g.per_dest, d, dest_count + 1)
          /\ IsInner(ok)
      BY <1>1, <2>2, <2>5, <2>6, SetCounts
    <2> HIDE DEF ok
    <2> QED
      BY <2>3, <2>7 DEF OneMore, Conns, dest_count
  <1> HIDE DEF ok, row
  <1> QED
    BY <1>1, <1>2, <1>3, <1>5, <1>6 DEF Returns

\* h counts one connection less than g, of k to d, and has no row for a
\* destination that is no longer in use.
OneLess(g, h, k, d) ==
    /\ IsInner(h)
    /\ h.global_connections = g.global_connections - 1
    /\ h.per_dest = IF g.per_dest[d] = 1 THEN Drop(g.per_dest, {d})
                    ELSE Put(g.per_dest, d, g.per_dest[d] - 1)
    /\ \A x \in Keys : Conns(h, x) = IF x = k THEN Conns(g, x) - 1 ELSE Conns(g, x)

\* The Drop of a lease that is counted takes it out of the three counts.
LEMMA ReleaseCounts ==
    ASSUME NEW inn, IsInner(inn), NEW time \in Nat, NEW k \in Keys, NEW d \in Dests,
           inn.global_connections > 0, Conns(inn, k) > 0,
           d \in DOMAIN inn.per_dest, inn.per_dest[d] > 0
    PROVE  OneLess(inn, release(inn, time, k, d), k, d)
  <1> DEFINE rows == release_row(inn.per_ip, time, k)
             counts == release_dest(inn.per_dest, d)
             c == saturating_sub(inn.global_connections, 1)
             h == release(inn, time, k, d)
  <1>1. \A n \in Nat : n > 0 => saturating_sub(n, 1) = n - 1 /\ n - 1 \in Nat
    BY DEF saturating_sub
  <1>2. c = inn.global_connections - 1 /\ c \in Nat
    BY <1>1 DEF IsInner
  <1>3. k \in DOMAIN inn.per_ip /\ inn.per_ip[k] \in IpState
        /\ inn.per_ip[k].connections = Conns(inn, k)
    BY DEF Conns, Lookup, DefaultIpState, IsInner
  <1>4. /\ counts \in [DOMAIN counts -> Nat] /\ DOMAIN counts \subseteq Dests
        /\ counts = IF inn.per_dest[d] = 1 THEN Drop(inn.per_dest, {d})
                    ELSE Put(inn.per_dest, d, inn.per_dest[d] - 1)
    <2>1. inn.per_dest[d] \in Nat
      BY DEF IsInner
    <2>2. /\ saturating_sub(inn.per_dest[d], 1) = inn.per_dest[d] - 1
          /\ inn.per_dest[d] - 1 \in Nat
      BY <1>1, <2>1
    <2>3. (inn.per_dest[d] - 1 = 0) <=> (inn.per_dest[d] = 1)
      BY <2>1
    <2>4. counts = IF inn.per_dest[d] = 1 THEN Drop(inn.per_dest, {d})
                   ELSE Put(inn.per_dest, d, inn.per_dest[d] - 1)
      BY <2>2, <2>3, Zenon DEF release_dest
    <2>5. /\ Drop(inn.per_dest, {d}) \in [DOMAIN inn.per_dest \ {d} -> Nat]
          /\ Put(inn.per_dest, d, inn.per_dest[d] - 1) \in [DOMAIN inn.per_dest \cup {d} -> Nat]
      BY <2>2 DEF Drop, Put, IsInner
    <2>6. DOMAIN inn.per_dest \subseteq Dests
      BY DEF IsInner
    <2> HIDE DEF counts
    <2> QED
      BY <2>4, <2>5, <2>6
  <1>5. /\ rows \in [DOMAIN rows -> IpState] /\ DOMAIN rows \subseteq Keys
        /\ \A x \in Keys : Lookup(rows, x, DefaultIpState).connections
                              = IF x = k THEN Conns(inn, x) - 1 ELSE Conns(inn, x)
    <2> DEFINE less == [inn.per_ip[k] EXCEPT !.connections = saturating_sub(@, 1)]
               st == prune(less, time)
    <2>1. inn.per_ip[k].connections \in Nat
      BY <1>3 DEF IpState
    <2>2. less \in IpState /\ less.connections = Conns(inn, k) - 1
      BY <1>1, <1>3, <2>1, SetConnections
    <2> HIDE DEF less
    <2>3. st \in IpState /\ st.connections = Conns(inn, k) - 1
      BY <2>2, PruneRow
    <2>4. rows = IF is_idle(st) THEN Drop(inn.per_ip, {k}) ELSE Put(inn.per_ip, k, st)
      BY <1>3 DEF release_row, less
    <2>5. inn.per_ip \in [DOMAIN inn.per_ip -> IpState] /\ DOMAIN inn.per_ip \subseteq Keys
      BY DEF IsInner
    <2> HIDE DEF st, rows
    <2>6. CASE is_idle(st)
      <3>1. Conns(inn, k) - 1 = 0
        BY <2>3, <2>6 DEF is_idle
      <3>2. rows = Drop(inn.per_ip, {k})
        BY <2>4, <2>6
      <3> QED
        BY <2>5, <3>1, <3>2 DEF Drop, Lookup, Conns, DefaultIpState
    <2>7. CASE ~is_idle(st)
      BY <2>3, <2>4, <2>5, <2>7 DEF Put, Lookup, Conns
    <2> QED
      BY <2>6, <2>7
  <1>6. h = [inn EXCEPT !.global_connections = c, !.per_ip = rows, !.per_dest = counts]
    BY DEF release
  <1> HIDE DEF c, rows, counts
  <1>7. h.global_connections = c /\ h.per_ip = rows /\ h.per_dest = counts /\ IsInner(h)
    <2> DEFINE e == [inn EXCEPT !.global_connections = c, !.per_ip = rows, !.per_dest = counts]
    <2>1. /\ c \in Nat
          /\ DOMAIN rows \in SUBSET Keys /\ rows \in [DOMAIN rows -> IpState]
          /\ DOMAIN counts \in SUBSET Dests /\ counts \in [DOMAIN counts -> Nat]
      BY <1>2, <1>4, <1>5
    <2>2. e.global_connections = c /\ e.per_ip = rows /\ e.per_dest = counts /\ IsInner(e)
      BY <2>1 DEF IsInner
    <2> HIDE DEF e, h
    <2> QED
      BY <1>6, <2>2 DEF e
  <1> HIDE DEF h
  <1>8. OneLess(inn, h, k, d)
    BY <1>2, <1>4, <1>5, <1>7 DEF OneLess, Conns
  <1> QED
    BY <1>8 DEF h

-----------------------------------------------------------------------------
(* The live leases before and after a step. *)

\* The sets of live leases are finite.
LEMMA LiveFinite ==
    /\ IsFiniteSet(Promise!Live)
    /\ \A k : IsFiniteSet(Promise!LiveOfIp(k))
    /\ \A d : IsFiniteSet(Promise!LiveOfDest(d))
  BY SessionsAssumption, FS_Subset
     DEF Promise!Live, Promise!LiveOfIp, Promise!LiveOfDest

\* The number of live leases when s takes one.
LEMMA GrantCardinality ==
    ASSUME TypeOK, NEW s \in Sessions, NEW k \in Keys, NEW d \in Dests,
           leases[s] = NoLease,
           leases' = [leases EXCEPT ![s] = [ip |-> k, dest |-> d]]
    PROVE  /\ Cardinality(Promise!Live)' = Cardinality(Promise!Live) + 1
           /\ \A x \in Keys :
                 Cardinality(Promise!LiveOfIp(x))' =
                    IF x = k THEN Cardinality(Promise!LiveOfIp(x)) + 1
                    ELSE Cardinality(Promise!LiveOfIp(x))
           /\ \A y \in Dests :
                 /\ Cardinality(Promise!LiveOfDest(y))' =
                       IF y = d THEN Cardinality(Promise!LiveOfDest(y)) + 1
                       ELSE Cardinality(Promise!LiveOfDest(y))
                 /\ (Promise!LiveOfDest(y) # {})' <=> y = d \/ Promise!LiveOfDest(y) # {}
  <1> DEFINE L == Promise!Live
             I(x) == Promise!LiveOfIp(x)
             D(y) == Promise!LiveOfDest(y)
             new == [ip |-> k, dest |-> d]
  <1>1. new \in Lease /\ new # NoLease /\ new.ip = k /\ new.dest = d
    BY NoLeaseAssumption DEF Lease
  <1>2. /\ leases \in [Sessions -> Lease \cup {NoLease}]
        /\ \A x \in Sessions : leases'[x] = IF x = s THEN new ELSE leases[x]
    BY DEF TypeOK
  <1>3. s \notin L /\ L' = L \cup {s}
    BY <1>1, <1>2 DEF Promise!Live
  <1>4. \A x : s \notin I(x) /\ I(x)' = IF x = k THEN I(x) \cup {s} ELSE I(x)
    BY <1>1, <1>2, <1>3 DEF Promise!LiveOfIp, Promise!Live
  <1>5. \A y : s \notin D(y) /\ D(y)' = IF y = d THEN D(y) \cup {s} ELSE D(y)
    BY <1>1, <1>2, <1>3 DEF Promise!LiveOfDest, Promise!Live
  <1>6. IsFiniteSet(L) /\ (\A x : IsFiniteSet(I(x))) /\ (\A y : IsFiniteSet(D(y)))
    BY LiveFinite
  <1> HIDE DEF L, I, D
  <1>7. Cardinality(L)' = Cardinality(L) + 1
    BY <1>3, <1>6, FS_AddElement
  <1>8. \A x \in Keys : Cardinality(I(x))' =
                           IF x = k THEN Cardinality(I(x)) + 1 ELSE Cardinality(I(x))
    BY <1>4, <1>6, FS_AddElement
  <1>9. \A y \in Dests : /\ Cardinality(D(y))' =
                              IF y = d THEN Cardinality(D(y)) + 1 ELSE Cardinality(D(y))
                         /\ (D(y) # {})' <=> y = d \/ D(y) # {}
    BY <1>5, <1>6, FS_AddElement
  <1> QED
    BY <1>7, <1>8, <1>9 DEF L, I, D

\* The number of live leases when s gives its lease back.
LEMMA ReturnCardinality ==
    ASSUME TypeOK, NEW s \in Sessions, leases[s] # NoLease,
           leases' = [leases EXCEPT ![s] = NoLease]
    PROVE  /\ Cardinality(Promise!Live)' = Cardinality(Promise!Live) - 1
           /\ Cardinality(Promise!Live) > 0
           /\ Cardinality(Promise!LiveOfIp(leases[s].ip)) > 0
           /\ Cardinality(Promise!LiveOfDest(leases[s].dest)) > 0
           /\ \A x \in Keys :
                 Cardinality(Promise!LiveOfIp(x))' =
                    IF x = leases[s].ip THEN Cardinality(Promise!LiveOfIp(x)) - 1
                    ELSE Cardinality(Promise!LiveOfIp(x))
           /\ \A y \in Dests :
                 /\ Cardinality(Promise!LiveOfDest(y))' =
                       IF y = leases[s].dest THEN Cardinality(Promise!LiveOfDest(y)) - 1
                       ELSE Cardinality(Promise!LiveOfDest(y))
                 /\ (Promise!LiveOfDest(y) # {})' <=>
                       Cardinality(Promise!LiveOfDest(y))' # 0
  <1> DEFINE L == Promise!Live
             I(x) == Promise!LiveOfIp(x)
             D(y) == Promise!LiveOfDest(y)
             k == leases[s].ip
             d == leases[s].dest
  <1>1. /\ leases \in [Sessions -> Lease \cup {NoLease}]
        /\ \A x \in Sessions : leases'[x] = IF x = s THEN NoLease ELSE leases[x]
    BY DEF TypeOK
  <1>2. s \in L /\ L' = L \ {s}
    BY <1>1 DEF Promise!Live
  <1>3. s \in I(k) /\ \A x : I(x)' = IF x = k THEN I(x) \ {s} ELSE I(x)
    BY <1>1, <1>2 DEF Promise!LiveOfIp, Promise!Live
  <1>4. s \in D(d) /\ \A y : D(y)' = IF y = d THEN D(y) \ {s} ELSE D(y)
    BY <1>1, <1>2 DEF Promise!LiveOfDest, Promise!Live
  <1>5. IsFiniteSet(L) /\ (\A x : IsFiniteSet(I(x))) /\ (\A y : IsFiniteSet(D(y)))
    BY LiveFinite
  <1> HIDE DEF L, I, D, k, d
  <1>6. /\ Cardinality(L)' = Cardinality(L) - 1
        /\ Cardinality(L) \in Nat /\ Cardinality(L) # 0
    BY <1>2, <1>5, FS_RemoveElement, FS_CardinalityType, FS_EmptySet
  <1>7. /\ Cardinality(I(k)) \in Nat /\ Cardinality(I(k)) # 0
        /\ \A x \in Keys : Cardinality(I(x))' =
                              IF x = k THEN Cardinality(I(x)) - 1 ELSE Cardinality(I(x))
    BY <1>3, <1>5, FS_RemoveElement, FS_CardinalityType, FS_EmptySet
  <1>8. Cardinality(D(d)) \in Nat /\ Cardinality(D(d)) # 0
    BY <1>4, <1>5, FS_CardinalityType, FS_EmptySet
  <1>9. \A y \in Dests :
           /\ IsFiniteSet(D(y)')
           /\ Cardinality(D(y))' =
                 IF y = d THEN Cardinality(D(y)) - 1 ELSE Cardinality(D(y))
    BY <1>4, <1>5, FS_RemoveElement
  <1>10. \A y \in Dests : (D(y) # {})' <=> Cardinality(D(y))' # 0
    BY <1>9, FS_EmptySet
  <1> QED
    BY <1>6, <1>7, <1>8, <1>9, <1>10 DEF L, I, D, k, d

-----------------------------------------------------------------------------
(* The inductive invariant. *)

\* LeaseAccounting with the names used above.
LEMMA AccountingConns ==
    LeaseAccounting <=>
       /\ inner.global_connections = Cardinality(Promise!Live)
       /\ \A k \in Keys : Conns(inner, k) = Cardinality(Promise!LiveOfIp(k))
       /\ DOMAIN inner.per_dest = {d \in Dests : Promise!LiveOfDest(d) # {}}
       /\ \A d \in DOMAIN inner.per_dest :
             inner.per_dest[d] = Cardinality(Promise!LiveOfDest(d))
  BY DEF LeaseAccounting, Conns

\* The inductive invariant holds when the process starts.
LEMMA InitIInv == Init => TypeOK /\ LeaseAccounting
  <1> SUFFICES ASSUME Init PROVE TypeOK /\ LeaseAccounting
    OBVIOUS
  <1>1. IsInner(inner)
    BY DEF Init, InitInner, IsInner, EmptyMap
  <1>2. TypeOK
    BY <1>1 DEF Init, TypeOK
  <1>3. /\ Promise!Live = {}
        /\ \A k : Promise!LiveOfIp(k) = {}
        /\ \A d : Promise!LiveOfDest(d) = {}
    BY DEF Init, Promise!Live, Promise!LiveOfIp, Promise!LiveOfDest
  <1>4. /\ inner.global_connections = 0
        /\ \A k \in Keys : Conns(inner, k) = 0
        /\ DOMAIN inner.per_dest = {}
    BY DEF Init, InitInner, Conns, Lookup, EmptyMap, DefaultIpState
  <1> QED
    BY <1>2, <1>3, <1>4, FS_EmptySet, AccountingConns

\* A step that leaves the leases and the counts alone.
LEMMA SameStep ==
    ASSUME LeaseAccounting, SameCounts(inner, inner'), UNCHANGED leases
    PROVE  LeaseAccounting'
  <1>1. /\ Promise!Live' = Promise!Live
        /\ \A k : Promise!LiveOfIp(k)' = Promise!LiveOfIp(k)
        /\ \A d : Promise!LiveOfDest(d)' = Promise!LiveOfDest(d)
    BY DEF Promise!Live, Promise!LiveOfIp, Promise!LiveOfDest
  <1>2. /\ inner'.global_connections = inner.global_connections
        /\ inner'.per_dest = inner.per_dest
        /\ \A k \in Keys : Lookup(inner'.per_ip, k, DefaultIpState).connections =
                           Lookup(inner.per_ip, k, DefaultIpState).connections
    BY DEF SameCounts, Conns
  <1> QED
    BY <1>1, <1>2 DEF LeaseAccounting

\* A step that grants s a lease.
LEMMA GrantStep ==
    ASSUME TypeOK, LeaseAccounting, NEW s \in Sessions, NEW k \in Keys, NEW d \in Dests,
           leases[s] = NoLease, OneMore(inner, inner', k, d),
           leases' = [leases EXCEPT ![s] = [ip |-> k, dest |-> d]]
    PROVE  LeaseAccounting'
  <1>1. inner'.global_connections = Cardinality(Promise!Live)'
    BY AccountingConns, GrantCardinality DEF OneMore
  <1>2. \A x \in Keys : Lookup(inner'.per_ip, x, DefaultIpState).connections
                           = Cardinality(Promise!LiveOfIp(x))'
    BY AccountingConns, GrantCardinality DEF OneMore, Conns
  <1>3. inner'.per_dest = Put(inner.per_dest, d, Lookup(inner.per_dest, d, 0) + 1)
    BY DEF OneMore
  <1>4. /\ DOMAIN inner.per_dest = {y \in Dests : Promise!LiveOfDest(y) # {}}
        /\ \A y \in DOMAIN inner.per_dest :
              inner.per_dest[y] = Cardinality(Promise!LiveOfDest(y))
    BY AccountingConns
  <1>5. Lookup(inner.per_dest, d, 0) = Cardinality(Promise!LiveOfDest(d))
    BY <1>4, FS_EmptySet DEF Lookup
  <1>6. \A y \in Dests :
           /\ Cardinality(Promise!LiveOfDest(y))' =
                 IF y = d THEN Cardinality(Promise!LiveOfDest(y)) + 1
                 ELSE Cardinality(Promise!LiveOfDest(y))
           /\ (Promise!LiveOfDest(y) # {})' <=> y = d \/ Promise!LiveOfDest(y) # {}
    BY GrantCardinality
  <1>7. /\ DOMAIN inner'.per_dest = DOMAIN inner.per_dest \cup {d}
        /\ \A y \in DOMAIN inner'.per_dest :
              inner'.per_dest[y] = IF y = d THEN Cardinality(Promise!LiveOfDest(d)) + 1
                                   ELSE inner.per_dest[y]
    BY <1>3, <1>5 DEF Put
  <1>8. DOMAIN inner'.per_dest = {y \in Dests : (Promise!LiveOfDest(y) # {})'}
    BY <1>4, <1>6, <1>7
  <1>9. \A y \in DOMAIN inner'.per_dest :
           inner'.per_dest[y] = Cardinality(Promise!LiveOfDest(y))'
    BY <1>4, <1>6, <1>7
  <1> QED
    BY <1>1, <1>2, <1>8, <1>9 DEF LeaseAccounting

\* A step that takes back the lease of s.
LEMMA ReturnStep ==
    ASSUME TypeOK, LeaseAccounting, NEW s \in Sessions, leases[s] # NoLease,
           inner' = release(inner, now, leases[s].ip, leases[s].dest),
           leases' = [leases EXCEPT ![s] = NoLease]
    PROVE  LeaseAccounting' /\ IsInner(inner')
  <1> DEFINE k == leases[s].ip
             d == leases[s].dest
             D(y) == Promise!LiveOfDest(y)
  <1>1. k \in Keys /\ d \in Dests /\ IsInner(inner) /\ now \in Nat
    BY DEF TypeOK, Lease
  <1>2. /\ inner.global_connections = Cardinality(Promise!Live)
        /\ \A x \in Keys : Conns(inner, x) = Cardinality(Promise!LiveOfIp(x))
        /\ DOMAIN inner.per_dest = {y \in Dests : D(y) # {}}
        /\ \A y \in DOMAIN inner.per_dest : inner.per_dest[y] = Cardinality(D(y))
    BY AccountingConns
  <1>3. Cardinality(D(d)) > 0 /\ d \in DOMAIN inner.per_dest
    <2>1. Cardinality(D(d)) > 0
      BY ReturnCardinality
    <2>2. D(d) # {}
      <3>1. Cardinality({}) = 0
        BY FS_EmptySet
      <3> QED
        BY <2>1, <3>1
    <2> QED
      BY <1>1, <1>2, <2>1, <2>2
  <1>4. OneLess(inner, inner', k, d)
    BY <1>1, <1>2, <1>3, ReturnCardinality, ReleaseCounts
  <1>5. inner'.global_connections = Cardinality(Promise!Live)'
    BY <1>2, <1>4, ReturnCardinality DEF OneLess
  <1>6. \A x \in Keys : Lookup(inner'.per_ip, x, DefaultIpState).connections
                           = Cardinality(Promise!LiveOfIp(x))'
    BY <1>2, <1>4, ReturnCardinality DEF OneLess, Conns
  <1>7. inner'.per_dest = IF inner.per_dest[d] = 1 THEN Drop(inner.per_dest, {d})
                          ELSE Put(inner.per_dest, d, inner.per_dest[d] - 1)
    BY <1>4 DEF OneLess
  <1>8. \A y \in Dests :
           /\ Cardinality(D(y))' = IF y = d THEN Cardinality(D(y)) - 1 ELSE Cardinality(D(y))
           /\ (D(y) # {})' <=> Cardinality(D(y))' # 0
           /\ (D(y) # {}) <=> Cardinality(D(y)) # 0
    BY ReturnCardinality, LiveFinite, FS_EmptySet
  <1>9. inner.per_dest[d] = Cardinality(D(d)) /\ inner.per_dest[d] \in Nat
    BY <1>1, <1>2, <1>3 DEF IsInner
  <1> HIDE DEF D, d, k
  <1>10. /\ DOMAIN inner'.per_dest = {y \in Dests : D(y)' # {}}
         /\ \A y \in DOMAIN inner'.per_dest : inner'.per_dest[y] = Cardinality(D(y))'
    <2>1. CASE inner.per_dest[d] = 1
      <3>1. /\ DOMAIN inner'.per_dest = DOMAIN inner.per_dest \ {d}
            /\ \A y \in DOMAIN inner'.per_dest : inner'.per_dest[y] = inner.per_dest[y]
        BY <1>7, <2>1 DEF Drop
      <3> QED
        BY <1>1, <1>2, <1>3, <1>8, <1>9, <2>1, <3>1
    <2>2. CASE inner.per_dest[d] # 1
      <3>1. /\ DOMAIN inner'.per_dest = DOMAIN inner.per_dest \cup {d}
            /\ \A y \in DOMAIN inner'.per_dest :
                  inner'.per_dest[y] = IF y = d THEN inner.per_dest[d] - 1
                                       ELSE inner.per_dest[y]
        BY <1>7, <2>2 DEF Put
      <3> QED
        BY <1>1, <1>2, <1>3, <1>8, <1>9, <2>2, <3>1
    <2> QED
      BY <2>1, <2>2
  <1>11. IsInner(inner')
    BY <1>4 DEF OneLess
  <1> QED
    BY <1>5, <1>6, <1>10, <1>11 DEF LeaseAccounting, D

\* Every call keeps the inductive invariant.
LEMMA StepIInv == TypeOK /\ LeaseAccounting /\ [Next]_vars => TypeOK' /\ LeaseAccounting'
  <1> SUFFICES ASSUME TypeOK, LeaseAccounting, [Next]_vars
               PROVE  TypeOK' /\ LeaseAccounting'
    OBVIOUS
  <1>1. /\ IsInner(inner) /\ now \in Nat
        /\ leases \in [Sessions -> Lease \cup {NoLease}]
        /\ attempts \in [Keys -> Seq([t : Nat, dest : Dests])]
        /\ charges \in [Keys -> Seq([t : Nat, n : Nat])]
    BY DEF TypeOK
  <1>2. SameCounts(inner, inner)
    BY <1>1 DEF SameCounts
  <1>3. CASE Tick
    <2>1. SameCounts(inner, inner') /\ UNCHANGED leases
      BY <1>2, <1>3 DEF Tick
    <2>2. TypeOK'
      <3>1. now' \in Nat
        BY <1>1, <1>3 DEF Tick
      <3> QED
        BY <1>1, <1>3, <2>1, <3>1 DEF Tick, TypeOK, SameCounts
    <2> QED
      BY <2>1, <2>2, SameStep
  <1>4. ASSUME NEW a \in Addrs, NEW d \in Dests, RecordAttempt(a, d)
        PROVE  TypeOK' /\ LeaseAccounting'
    <2>1. LimitKey[a] \in Keys
      BY LimitKeyAssumption
    <2>2. inner' = record_attempt(inner, now, LimitKey[a], d).g /\ UNCHANGED leases
      BY <1>4 DEF RecordAttempt
    <2>3. SameCounts(inner, inner')
      BY <1>1, <2>1, <2>2, RecordAttemptSame
    <2>4. attempts' \in [Keys -> Seq([t : Nat, dest : Dests])]
      <3>1. Append(attempts[LimitKey[a]], [t |-> now, dest |-> d]) \in Seq([t : Nat, dest : Dests])
        <4>1. attempts[LimitKey[a]] \in Seq([t : Nat, dest : Dests])
          BY <1>1, <2>1
        <4>2. [t |-> now, dest |-> d] \in [t : Nat, dest : Dests]
          BY <1>1
        <4> QED
          BY <4>1, <4>2, AppendProperties
      <3> QED
        BY <1>1, <1>4, <2>1, <3>1 DEF RecordAttempt
    <2>5. TypeOK'
      BY <1>1, <1>4, <2>3, <2>4 DEF RecordAttempt, TypeOK, SameCounts
    <2> QED
      BY <2>2, <2>3, <2>5, SameStep
  <1>5. ASSUME NEW s \in Sessions, NEW a \in Addrs, NEW d \in Dests, Acquire(s, a, d)
        PROVE  TypeOK' /\ LeaseAccounting'
    <2> DEFINE k == LimitKey[a]
               r == acquire(inner, now, k, d)
    <2>1. k \in Keys
      BY LimitKeyAssumption
    <2>2. inner' = r.g /\ leases[s] = NoLease
      BY <1>5 DEF Acquire
    <2>3. CASE r.res = "Ok"
      <3>1. OneMore(inner, inner', k, d)
        BY <1>1, <2>1, <2>2, <2>3, AcquireCounts
      <3>2. leases' = [leases EXCEPT ![s] = [ip |-> k, dest |-> d]]
        BY <1>5, <2>3 DEF Acquire
      <3>3. LeaseAccounting'
        BY <2>1, <2>2, <3>1, <3>2, GrantStep
      <3>4. TypeOK'
        <4>1. [ip |-> k, dest |-> d] \in Lease
          BY <2>1 DEF Lease
        <4>2. leases' \in [Sessions -> Lease \cup {NoLease}]
          BY <1>1, <3>2, <4>1
        <4>3. IsInner(inner')
          BY <3>1 DEF OneMore
        <4> QED
          BY <1>1, <1>5, <4>2, <4>3 DEF Acquire, TypeOK
      <3> QED
        BY <3>3, <3>4
    <2>4. CASE r.res # "Ok"
      <3>1. SameCounts(inner, inner') /\ UNCHANGED leases
        BY <1>1, <1>5, <2>1, <2>2, <2>4, AcquireCounts DEF Acquire
      <3>2. TypeOK'
        BY <1>1, <1>5, <3>1 DEF Acquire, TypeOK, SameCounts
      <3> QED
        BY <3>1, <3>2, SameStep
    <2> QED
      BY <2>3, <2>4
  <1>6. ASSUME NEW s \in Sessions, Release(s)
        PROVE  TypeOK' /\ LeaseAccounting'
    <2>1. LeaseAccounting' /\ IsInner(inner')
      BY <1>6, ReturnStep DEF Release
    <2>2. TypeOK'
      BY <1>1, <1>6, <2>1 DEF Release, TypeOK
    <2> QED
      BY <2>1, <2>2
  <1>7. ASSUME NEW s \in Sessions, NEW n \in ByteSizes, AddBytes(s, n)
        PROVE  TypeOK' /\ LeaseAccounting'
    <2> DEFINE k == leases[s].ip
    <2>1. k \in Keys /\ n \in Nat
      BY <1>1, <1>7, ByteSizesAssumption DEF AddBytes, Lease
    <2>2. inner' = add_bytes(inner, now, k, n).g /\ UNCHANGED leases
      BY <1>7 DEF AddBytes
    <2>3. SameCounts(inner, inner')
      BY <1>1, <2>1, <2>2, AddBytesSame
    <2>4. charges' \in [Keys -> Seq([t : Nat, n : Nat])]
      <3>1. Append(charges[k], [t |-> now, n |-> n]) \in Seq([t : Nat, n : Nat])
        BY <1>1, <2>1
      <3> QED
        BY <1>1, <1>7, <2>1, <3>1 DEF AddBytes
    <2>5. TypeOK'
      BY <1>1, <1>7, <2>3, <2>4 DEF AddBytes, TypeOK, SameCounts
    <2> QED
      BY <2>2, <2>3, <2>5, SameStep
  <1>8. CASE UNCHANGED vars
    <2>1. SameCounts(inner, inner') /\ UNCHANGED leases
      BY <1>2, <1>8 DEF vars
    <2>2. TypeOK'
      BY <1>1, <1>8 DEF vars, TypeOK
    <2> QED
      BY <2>1, <2>2, SameStep
  <1> QED
    BY <1>3, <1>4, <1>5, <1>6, <1>7, <1>8 DEF Next

\* Every reachable state of the limits is well typed.
THEOREM TypeCorrect == Spec => []TypeOK
  <1>1. Init => TypeOK /\ LeaseAccounting
    BY InitIInv
  <1>2. TypeOK /\ LeaseAccounting /\ [Next]_vars => (TypeOK /\ LeaseAccounting)'
    BY StepIInv
  <1> QED
    BY <1>1, <1>2, PTL DEF Spec

\* The counters of limits.rs are the numbers of leases that exist, for any
\* number of sessions, clients and destinations, any caps and windows, and any
\* interleaving of calls, collections and expiries.
THEOREM LeasesCounted == Spec => []LeaseAccounting
  <1>1. Init => TypeOK /\ LeaseAccounting
    BY InitIInv
  <1>2. TypeOK /\ LeaseAccounting /\ [Next]_vars => (TypeOK /\ LeaseAccounting)'
    BY StepIInv
  <1> QED
    BY <1>1, <1>2, PTL DEF Spec

-----------------------------------------------------------------------------
(* What the exact counts give. *)

\* The instance's cardinality is the cardinality.
LEMMA PromiseCardinality == \A S : Promise!Cardinality(S) = Cardinality(S)
  BY DEF Promise!Cardinality, Cardinality

\* The counters leave room exactly when the leases that exist do.
LEMMA RoomIsAllowed ==
    ASSUME LeaseAccounting, NEW k \in Keys, NEW d \in Dests
    PROVE  HasRoom(inner, k, d) <=> Promise!LeaseAllowed(k, d)
  <1>1. /\ inner.global_connections = Cardinality(Promise!Live)
        /\ Conns(inner, k) = Cardinality(Promise!LiveOfIp(k))
    BY AccountingConns
  <1>2. Lookup(inner.per_dest, d, 0) = Cardinality(Promise!LiveOfDest(d))
    BY AccountingConns, FS_EmptySet DEF Lookup
  <1> QED
    BY <1>1, <1>2, PromiseCardinality DEF HasRoom, Promise!LeaseAllowed, Promise!capped, capped

\* acquire answers as the leases that exist require, in both directions.
THEOREM AcquireExact == Spec => []LeaseVerdict
  <1>1. TypeOK /\ LeaseAccounting => LeaseVerdict
    <2> SUFFICES ASSUME TypeOK, LeaseAccounting, NEW k \in Keys, NEW d \in Dests
                 PROVE  (acquire(inner, now, k, d).res = "Ok") <=> Promise!LeaseAllowed(k, d)
      BY DEF LeaseVerdict
    <2>1. (acquire(inner, now, k, d).res = "Ok") <=> HasRoom(inner, k, d)
      BY AcquireCounts DEF TypeOK
    <2> QED
      BY <2>1, RoomIsAllowed
  <1> QED
    BY <1>1, TypeCorrect, LeasesCounted, PTL

\* A cap that is not reached has room for one more.
LEMMA WithinStep ==
    ASSUME NEW limit \in Nat, NEW used \in Nat, ~capped(limit, used)
    PROVE  limit = 0 \/ used + 1 <= limit
  BY DEF capped

\* Every call keeps the leases within the caps.
LEMMA CapsStep ==
    TypeOK /\ LeaseAccounting /\ LeasesWithinCaps /\ [Next]_vars => LeasesWithinCaps'
  <1> SUFFICES ASSUME TypeOK, LeaseAccounting, LeasesWithinCaps, [Next]_vars
               PROVE  LeasesWithinCaps'
    OBVIOUS
  <1> DEFINE G == Cfg.max_global_connections
             P == Cfg.max_conns_per_ip
             Q == Cfg.max_conns_per_dest
             L == Cardinality(Promise!Live)
             I(x) == Cardinality(Promise!LiveOfIp(x))
             D(y) == Cardinality(Promise!LiveOfDest(y))
  <1>1. G \in Nat /\ P \in Nat /\ Q \in Nat
    BY CfgAssumption DEF LimitsConfig
  <1>2. L \in Nat /\ (\A x : I(x) \in Nat) /\ (\A y : D(y) \in Nat)
    BY LiveFinite, FS_CardinalityType
  <1>3. /\ G = 0 \/ L <= G
        /\ \A x \in Keys : P = 0 \/ I(x) <= P
        /\ \A y \in Dests : Q = 0 \/ D(y) <= Q
    BY PromiseCardinality DEF LeasesWithinCaps, Promise!LeasesWithinCaps, Promise!Within
  <1>4. SUFFICES /\ G = 0 \/ L' <= G
                 /\ \A x \in Keys : P = 0 \/ I(x)' <= P
                 /\ \A y \in Dests : Q = 0 \/ D(y)' <= Q
    BY PromiseCardinality DEF LeasesWithinCaps, Promise!LeasesWithinCaps, Promise!Within
  <1>5. CASE UNCHANGED leases
    BY <1>3, <1>5 DEF Promise!Live, Promise!LiveOfIp, Promise!LiveOfDest
  <1>6. ASSUME NEW s \in Sessions, NEW a \in Addrs, NEW d \in Dests, Acquire(s, a, d),
               leases' # leases
        PROVE  /\ G = 0 \/ L' <= G
               /\ \A x \in Keys : P = 0 \/ I(x)' <= P
               /\ \A y \in Dests : Q = 0 \/ D(y)' <= Q
    <2> DEFINE k == LimitKey[a]
    <2>1. k \in Keys
      BY LimitKeyAssumption
    <2>2. /\ leases[s] = NoLease /\ acquire(inner, now, k, d).res = "Ok"
          /\ leases' = [leases EXCEPT ![s] = [ip |-> k, dest |-> d]]
      BY <1>6 DEF Acquire
    <2>3. HasRoom(inner, k, d)
      BY <2>1, <2>2, AcquireCounts DEF TypeOK
    <2>4. ~capped(G, L) /\ ~capped(P, I(k)) /\ ~capped(Q, D(d))
      BY <2>1, <2>3, RoomIsAllowed, PromiseCardinality
         DEF Promise!LeaseAllowed, Promise!capped, capped
    <2>5. /\ L' = L + 1
          /\ \A x \in Keys : I(x)' = IF x = k THEN I(x) + 1 ELSE I(x)
          /\ \A y \in Dests : D(y)' = IF y = d THEN D(y) + 1 ELSE D(y)
      BY <2>1, <2>2, GrantCardinality
    <2> HIDE DEF L, I, D, G, P, Q, k
    <2>6. /\ G = 0 \/ L + 1 <= G
          /\ P = 0 \/ I(k) + 1 <= P
          /\ Q = 0 \/ D(d) + 1 <= Q
      BY <1>1, <1>2, <2>4, WithinStep
    <2> QED
      BY <1>3, <2>5, <2>6
  <1>7. ASSUME NEW s \in Sessions, Release(s)
        PROVE  /\ G = 0 \/ L' <= G
               /\ \A x \in Keys : P = 0 \/ I(x)' <= P
               /\ \A y \in Dests : Q = 0 \/ D(y)' <= Q
    <2>1. /\ L' = L - 1
          /\ \A x \in Keys : I(x)' = IF x = leases[s].ip THEN I(x) - 1 ELSE I(x)
          /\ \A y \in Dests : D(y)' = IF y = leases[s].dest THEN D(y) - 1 ELSE D(y)
      BY <1>7, ReturnCardinality DEF Release
    <2> HIDE DEF L, I, D, G, P, Q
    <2> QED
      BY <1>1, <1>2, <1>3, <2>1
  <1>8. CASE Tick \/ UNCHANGED vars
    BY <1>5, <1>8 DEF Tick, vars
  <1>9. CASE \E a \in Addrs, d \in Dests : RecordAttempt(a, d)
    BY <1>5, <1>9 DEF RecordAttempt
  <1>10. CASE \E s \in Sessions, n \in ByteSizes : AddBytes(s, n)
    BY <1>5, <1>10 DEF AddBytes
  <1> HIDE DEF L, I, D, G, P, Q
  <1> QED
    BY <1>5, <1>6, <1>7, <1>8, <1>9, <1>10 DEF Next

\* The leases that exist never exceed a cap, in any reachable state.
THEOREM CapsHold == Spec => []LeasesWithinCaps
  <1>1. Init => LeasesWithinCaps
    <2> SUFFICES ASSUME Init PROVE LeasesWithinCaps
      OBVIOUS
    <2>1. /\ Cardinality(Promise!Live) = 0
          /\ \A k : Cardinality(Promise!LiveOfIp(k)) = 0
          /\ \A d : Cardinality(Promise!LiveOfDest(d)) = 0
      <3>1. /\ Promise!Live = {}
            /\ \A k : Promise!LiveOfIp(k) = {}
            /\ \A d : Promise!LiveOfDest(d) = {}
        BY DEF Init, Promise!Live, Promise!LiveOfIp, Promise!LiveOfDest
      <3> QED
        BY <3>1, FS_EmptySet
    <2> QED
      BY <2>1, CfgAssumption, PromiseCardinality
         DEF LimitsConfig, LeasesWithinCaps, Promise!LeasesWithinCaps, Promise!Within
  <1>2. TypeOK /\ LeaseAccounting /\ LeasesWithinCaps /\ [Next]_vars => LeasesWithinCaps'
    BY CapsStep
  <1> QED
    BY <1>1, <1>2, TypeCorrect, LeasesCounted, PTL DEF Spec
=============================================================================

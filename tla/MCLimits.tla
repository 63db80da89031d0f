------------------------------ MODULE MCLimits ------------------------------
(* Small instances of Limits.tla. *)
EXTENDS Limits, TLC

CONSTANTS a1, a2, a3, k1, k2

\* Two addresses of one prefix and one of another.
MCLimitKey == [a \in Addrs |-> IF a \in {a1, a2} THEN k1 ELSE k2]

Symmetric == Permutations(Sessions) \cup Permutations(Dests)

NoCaps ==
    [ max_global_connections |-> 0, max_conns_per_ip |-> 0,
      max_conns_per_dest |-> 0, connects_per_ip |-> 0,
      connects_per_ip_window |-> 1, distinct_dests_per_ip |-> 0,
      distinct_dests_window |-> 1, global_connects |-> 0,
      global_connects_window |-> 1, max_bytes_per_ip |-> 0,
      bytes_window |-> 1, max_tracked_ips |-> 0 ]

\* Every concurrency cap can be the first one hit; rows come and go.
LeaseCfg ==
    [ NoCaps EXCEPT
        !.max_global_connections = 3, !.max_conns_per_ip = 2,
        !.max_conns_per_dest = 2, !.connects_per_ip = 1,
        !.global_connects = 3, !.global_connects_window = 2,
        !.max_bytes_per_ip = 1 ]

\* Windows of different lengths, so that the queues of a row expire apart.
WindowCfg ==
    [ NoCaps EXCEPT
        !.connects_per_ip = 2, !.distinct_dests_per_ip = 1,
        !.distinct_dests_window = 2, !.global_connects = 3, !.global_connects_window = 2,
        !.max_bytes_per_ip = 4, !.bytes_window = 2 ]
=============================================================================

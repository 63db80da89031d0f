------------------------------ MODULE MCProxy ------------------------------
(* Small instances of Proxy.tla and Server.tla. *)
EXTENDS Server, TLC

CONSTANTS a1, a2, k1, k2, name, literal, private, ip1, ip2

\* Every client address has a prefix of its own.
MCLimitKey == [a \in Addrs |-> IF a = a1 THEN k1 ELSE k2]

MCLiteralOf ==
    [d \in Dests |-> CASE d = literal -> ip1 [] d = private -> ip2 [] OTHER -> NoIP]

NoCaps ==
    [ max_global_connections |-> 0, max_conns_per_ip |-> 0,
      max_conns_per_dest |-> 0, connects_per_ip |-> 0,
      connects_per_ip_window |-> 0, distinct_dests_per_ip |-> 0,
      distinct_dests_window |-> 0, global_connects |-> 0,
      global_connects_window |-> 0, max_bytes_per_ip |-> 0,
      bytes_window |-> 0, max_tracked_ips |-> 0 ]

\* Two requests race for one slot, for the same prefix or the same destination.
ProxyCfg ==
    [ NoCaps EXCEPT
        !.max_conns_per_ip = 1, !.max_conns_per_dest = 1,
        !.global_connects = 2, !.global_connects_window = 1,
        !.max_bytes_per_ip = 1, !.bytes_window = 1 ]

\* One row may be tracked.
TrackedCfg == [ NoCaps EXCEPT !.connects_per_ip = 2, !.max_tracked_ips = 1 ]

\* Filter.tla's Retain is SelectSeq.
ASSUME RetainIsSelectSeq ==
    \A n \in 0 .. 3 : \A s \in [1 .. n -> 1 .. 3] : \A S \in SUBSET (1 .. 3) :
        Retain(s, S) = SelectSeq(s, LAMBDA x : x \in S)
=============================================================================

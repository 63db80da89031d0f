---------------------------- MODULE LimitsParams ----------------------------
(***************************************************************************)
(* The parameters of the admission limits: LimitsConfig of src/limits.rs,  *)
(* who holds leases, and what the limits are keyed by.                     *)
(***************************************************************************)
EXTENDS Integers, Sequences, FiniteSets

CONSTANTS
    Sessions,       \* holders of a ConnectionLease
    Addrs,          \* client addresses
    Keys,           \* masked prefixes: the values of limit_key
    LimitKey,       \* limit_key for the configured prefix lengths
    Dests,          \* destination keys "host:port"
    ByteSizes,      \* sizes of a relayed message
    Cfg,            \* LimitsConfig
    NoLease,        \* what a session without a lease holds
    GcInterval,     \* seconds between collections of idle rows (30)
    GcRows,         \* number of rows from which every call collects (10000)
    MaxTime         \* bound: the last instant

(***************************************************************************)
(* LimitsConfig.  A cap of 0 is no cap.  The field `global_connects` of    *)
(* the code is the cap on attempts by all clients together.                *)
(***************************************************************************)
LimitsConfig ==
    [ max_global_connections : Nat, max_conns_per_ip : Nat,
      max_conns_per_dest : Nat, connects_per_ip : Nat,
      connects_per_ip_window : Nat, distinct_dests_per_ip : Nat,
      distinct_dests_window : Nat, global_connects : Nat,
      global_connects_window : Nat, max_bytes_per_ip : Nat,
      bytes_window : Nat, max_tracked_ips : Nat ]

ASSUME CfgAssumption == Cfg \in LimitsConfig
ASSUME SessionsAssumption == IsFiniteSet(Sessions)
ASSUME KeysAssumption == IsFiniteSet(Keys)
ASSUME LimitKeyAssumption == LimitKey \in [Addrs -> Keys]
ASSUME ByteSizesAssumption == ByteSizes \subseteq Nat \ {0}

Lease == [ip : Keys, dest : Dests]

ASSUME NoLeaseAssumption == NoLease \notin Lease
ASSUME GcAssumption == GcInterval \in Nat /\ GcRows \in Nat /\ MaxTime \in Nat

\* A cap is reached; 0 is no cap.
capped(limit, used) == limit # 0 /\ used >= limit
=============================================================================

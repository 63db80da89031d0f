-------------------------------- MODULE Addr --------------------------------
(***************************************************************************)
(* IP addresses: the networks of Cidr (src/config.rs), the prefixes that   *)
(* share a budget (src/limits.rs), the addresses the proxy will dial       *)
(* (src/dest.rs).                                                          *)
(*                                                                         *)
(* An address is the sequence of its digits: four octets, or eight         *)
(* segments of sixteen bits.  No address is the empty sequence.            *)
(***************************************************************************)
EXTENDS Integers, Sequences

NoIP == <<>>

Octet == 0 .. 2 ^ 8 - 1
Segment == 0 .. 2 ^ 16 - 1
Address == [1 .. 4 -> Octet] \cup [1 .. 8 -> Segment]

IsV4(ip) == Len(ip) = 4

DigitBits(ip) == IF IsV4(ip) THEN 8 ELSE 16

clamp(n, lo, hi) == IF n < lo THEN lo ELSE IF n > hi THEN hi ELSE n

\* ip & (!0 << (width - bits)), and 0 for no bits.
Masked(ip, bits) ==
    LET w == DigitBits(ip)
        unit(i) == 2 ^ (w - clamp(bits - w * (i - 1), 0, w))
    IN [i \in 1 .. Len(ip) |-> ip[i] - (ip[i] % unit(i))]

in_network(ip, prefix, bits) == Masked(ip, bits) = Masked(prefix, bits)

\* The IPv4 address in two segments.
Octets(hi, lo) == <<hi \div 256, hi % 256, lo \div 256, lo % 256>>

to_ipv4_mapped(ip) ==
    IF SubSeq(ip, 1, 6) = <<0, 0, 0, 0, 0, 65535>> THEN Octets(ip[7], ip[8]) ELSE NoIP

\* An IPv4-mapped address is its IPv4 address.
unmapped(ip) ==
    IF ~IsV4(ip) /\ to_ipv4_mapped(ip) # NoIP THEN to_ipv4_mapped(ip) ELSE ip

-----------------------------------------------------------------------------
(* Which addresses are dialed. *)

\* What std calls unspecified, loopback, private, link-local, broadcast,
\* documentation and multicast, and what is_global_v4 adds to them.
NotGlobalV4 ==
    { <<<<0, 0, 0, 0>>, 32>>, <<<<127, 0, 0, 0>>, 8>>,
      <<<<10, 0, 0, 0>>, 8>>, <<<<172, 16, 0, 0>>, 12>>, <<<<192, 168, 0, 0>>, 16>>,
      <<<<169, 254, 0, 0>>, 16>>, <<<<255, 255, 255, 255>>, 32>>,
      <<<<192, 0, 2, 0>>, 24>>, <<<<198, 51, 100, 0>>, 24>>, <<<<203, 0, 113, 0>>, 24>>,
      <<<<224, 0, 0, 0>>, 4>>,
      <<<<0, 0, 0, 0>>, 8>>, <<<<100, 64, 0, 0>>, 10>>, <<<<192, 0, 0, 0>>, 24>>,
      <<<<198, 18, 0, 0>>, 15>>, <<<<240, 0, 0, 0>>, 4>> }

is_global_v4(ip) == \A net \in NotGlobalV4 : ~in_network(ip, net[1], net[2])

Segments(a, b, c) == <<a, b, c, 0, 0, 0, 0, 0>>

NotGlobalV6 ==
    { <<Segments(0, 0, 0), 128>>, <<<<0, 0, 0, 0, 0, 0, 0, 1>>, 128>>,
      <<Segments(65280, 0, 0), 8>>, <<Segments(65152, 0, 0), 10>>,
      <<Segments(64512, 0, 0), 7>>,
      <<Segments(8193, 0, 0), 23>>, <<Segments(8193, 3512, 0), 32>>,
      <<Segments(256, 0, 0), 64>>, <<Segments(100, 65435, 1), 48>> }

\* The IPv4 address that a mapped, compatible, NAT64 or 6to4 address carries.
embedded_ipv4(ip) ==
    CASE to_ipv4_mapped(ip) # NoIP -> to_ipv4_mapped(ip)
      [] SubSeq(ip, 1, 6) = <<0, 0, 0, 0, 0, 0>> -> Octets(ip[7], ip[8])
      [] SubSeq(ip, 1, 6) = <<100, 65435, 0, 0, 0, 0>> -> Octets(ip[7], ip[8])
      [] ip[1] = 8194 -> Octets(ip[2], ip[3])
      [] OTHER -> NoIP

\* Mutated: the tables are asked before the embedded address.
is_global_v6_tables(ip) == \A net \in NotGlobalV6 : ~in_network(ip, net[1], net[2])

is_global_v6(ip) ==
    IF embedded_ipv4(ip) # NoIP
    THEN is_global_v4(embedded_ipv4(ip))
    ELSE \A net \in NotGlobalV6 : ~in_network(ip, net[1], net[2])

is_global_unicast(ip) == IF IsV4(ip) THEN is_global_v4(ip) ELSE is_global_v6(ip)

-----------------------------------------------------------------------------
(* Networks and budgets. *)

contains(cidr, ip) ==
    IF IsV4(cidr.addr)
    THEN IsV4(unmapped(ip)) /\ in_network(unmapped(ip), cidr.addr, cidr.bits)
    ELSE IF IsV4(unmapped(ip)) /\ IsV4(unmapped(cidr.addr)) /\ ~IsV4(ip)
    THEN in_network(unmapped(ip), unmapped(cidr.addr), clamp(cidr.bits, 0, 32))
    ELSE ~IsV4(ip) /\ in_network(ip, cidr.addr, cidr.bits)

\* What the clients of one network share their budget under.
limit_key(ip, v4_bits, v6_bits) ==
    IF IsV4(unmapped(ip))
    THEN Masked(unmapped(ip), clamp(v4_bits, 0, 32))
    ELSE Masked(ip, clamp(v6_bits, 0, 128))
=============================================================================

------------------------------- MODULE Remote -------------------------------
(***************************************************************************)
(* The `remote` of a request: parse_remote and check_policy of src/dest.rs.*)
(*                                                                         *)
(* The text is taken apart where the code looks at it: brackets, a host, a *)
(* colon, a port.  A host is an IPv6 address as it is written or a         *)
(* sequence of labels, with or without dots at its end and blanks around   *)
(* it; a label is a number in one of the three notations of inet_aton, a   *)
(* word, or something that no DNS name holds.                              *)
(***************************************************************************)
EXTENDS Addr, Filter, SequencesExt

NotANumber == -1

\* What is in front of the digits: dec 10, oct 010, hex 0x10.  Letters are
\* numbers as well, a to z being 10 to 35; the digits of a word are letters.
Mark(form) == CASE form = "hex" -> <<0, 33>> [] form = "oct" -> <<0>> [] OTHER -> <<>>
Radix(form) == CASE form = "hex" -> 16 [] form = "oct" -> 8 [] OTHER -> 10

\* Characters in a host of which the labels are all there is.
TextLen(host) ==
    MapThenSumSet(LAMBDA i : Len(Mark(host.labels[i].form) \o host.labels[i].digits) + 1,
                  DOMAIN host.labels) - 1

Digital(l) ==
    /\ l.form \in {"dec", "oct", "hex"}
    /\ l.digits # <<>> /\ \A i \in DOMAIN l.digits : l.digits[i] < Radix(l.form)

\* The numbers that the first i digits are.
from_str_radix(digits, radix) ==
    LET n[i \in 0 .. Len(digits)] == IF i = 0 THEN 0 ELSE n[i - 1] * radix + digits[i]
    IN n

\* A number, if it is one of 32 bits.
parse_ipv4_component(l) ==
    LET n == from_str_radix(l.digits, Radix(l.form))[Len(l.digits)] IN
    IF Digital(l) /\ n \div 65536 < 65536 THEN n ELSE NotANumber

\* The last k octets of a number.
LastOctets(n, k) == [i \in 1 .. k |-> (n \div 256 ^ (k - i)) % 256]

\* One to four parts: each but the last is an octet, the last is the rest.
ipv4_of_parts(labels) ==
    LET n == Len(labels)
        num == [i \in 1 .. n |-> parse_ipv4_component(labels[i])]
    IN IF /\ n \in 1 .. 4
          /\ \A i \in 1 .. n : num[i] # NotANumber
          /\ \A i \in 1 .. n - 1 : num[i] <= 255
          /\ n > 1 => num[n] < 256 ^ (5 - n)
       THEN SubSeq(num, 1, n - 1) \o LastOctets(num[n], 5 - n)
       ELSE NoIP

\* A final dot leaves an empty part, and a blank is no digit.
parse_loose_ipv4(host) ==
    IF ~host.dot /\ ~host.blank /\ TextLen(host) <= 32 THEN ipv4_of_parts(host.labels) ELSE NoIP

\* Lower case, no trailing dot, no blanks around it.
normalize_hostname(host) == [host EXCEPT !.dot = FALSE, !.upper = FALSE, !.blank = FALSE]

is_valid_dns_hostname(host) ==
    /\ host.v6 = NoIP
    /\ host.labels # <<>> /\ \A i \in DOMAIN host.labels : host.labels[i].form # "bad"

NoHost == [v6 |-> NoIP, labels |-> <<>>, dot |-> FALSE, upper |-> FALSE, blank |-> FALSE]

\* The decimal digits of an octet.
Decimal(n) ==
    IF n < 10 THEN <<n>>
    ELSE IF n < 100 THEN <<n \div 10, n % 10>>
    ELSE <<n \div 100, (n \div 10) % 10, n % 10>>

\* The text of an address, the same for a mapped address and its IPv4 address.
ip_canonical(ip) ==
    LET v4 == unmapped(ip) IN
    IF IsV4(v4)
    THEN [NoHost EXCEPT !.labels = [i \in 1 .. 4 |-> [form |-> "dec", digits |-> Decimal(v4[i])]]]
    ELSE [NoHost EXCEPT !.v6 = ip]

PortNumber == 1 .. 65535

InvalidRemote == [ok |-> FALSE]

\* Mutated: only what IpAddr parses is a literal.
parse_literal_strict(host) ==
    IF host.v6 = NoIP /\ Len(host.labels) = 4
          /\ \A i \in 1 .. 4 : host.labels[i].form = "dec"
    THEN parse_loose_ipv4(host)
    ELSE host.v6

\* IpAddr's parser, then the forms of inet_aton, which include its IPv4.
parse_literal(host) ==
    IF host.v6 # NoIP /\ ~host.dot /\ ~host.blank THEN host.v6 ELSE parse_loose_ipv4(host)

parse_remote(raw) ==
    LET ip == parse_literal(raw.host)
        name == normalize_hostname(raw.host)
        remote(host) == [ok |-> TRUE, host |-> host, port |-> raw.port, ip_literal |-> ip]
    IN IF \/ ~raw.colon
          \/ raw.opened /\ ~raw.closed
          \/ ~raw.opened /\ raw.host.v6 # NoIP
          \/ raw.port \notin PortNumber
       THEN InvalidRemote
       ELSE IF ip # NoIP
       THEN remote(ip_canonical(ip))
       ELSE IF is_valid_dns_hostname(name)
       THEN remote(name)
       ELSE InvalidRemote

\* Mutated: the literal is part of the key as it was written.
dest_key_raw(remote) == <<remote.ip_literal, remote.host, remote.port>>

dest_key(remote) == <<remote.host, remote.port>>

port_allowed(policy, port) == policy.allowed_ports.any \/ port \in policy.allowed_ports.set

\* "Ok" or the DestError.
check_policy(remote, policy) ==
    IF ~port_allowed(policy, remote.port) THEN "BadPort"
    ELSE IF remote.ip_literal = NoIP THEN "Ok"
    ELSE IF ~policy.allow_ip_literals THEN "IpLiteral"
    ELSE IF policy.allow_private_destinations \/ is_global_unicast(remote.ip_literal) THEN "Ok"
    ELSE "PrivateIp"

\* The addresses to dial: the literal itself or one answer, as far as the
\* policy lets it be dialed.
resolve_filtered(remote, policy, answer) ==
    LET addrs == IF remote.ip_literal # NoIP THEN <<remote.ip_literal>> ELSE answer
    IN Retain(addrs, {ip \in ToSet(addrs) :
                        policy.allow_private_destinations \/ is_global_unicast(ip)})
=============================================================================

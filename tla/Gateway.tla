------------------------------ MODULE Gateway -------------------------------
(***************************************************************************)
(* What a request meets, from the environment the process was started in   *)
(* to the first record of its session: the panics of main, the gates of    *)
(* proxy_handler, the resolver's filter and the SNI probe, and beside them *)
(* /metrics.                                                               *)
(*                                                                         *)
(* None of this keeps state between requests, so one request at a time is  *)
(* enough; Proxy.tla has the limits and the interleaving of requests, and  *)
(* takes as constants what is computed here (the key of a client, the      *)
(* address a destination spells, the ports and the addresses allowed).     *)
(***************************************************************************)
EXTENDS Gates, Remote, ClientHello, FiniteSetsExt

CONSTANTS
    Envs,       \* environments to start in
    Requests(_), \* environment -> requests to /proxy, each with the answer DNS would give,
                \* the first record its client would send, and two clock readings
    Scrapes,    \* requests to /metrics
    Clients,    \* addresses of clients and peers, each with its plain form,
                \* which is its IPv4 address if it is a mapped one
    Remotes     \* texts of `remote`, each with the number that each label spells and
                \* the plain form of the address that its host spells once the dots
                \* behind it and the blanks around it are gone, or NoIP

Origin == [text : STRING, scheme : STRING, upper : BOOLEAN, dot : BOOLEAN]
\* The text is what is in the brackets, if there are any, and no lone bracket.
Host == [text : STRING \ {"["}, port : Nat, upper : BOOLEAN, dot : BOOLEAN, bracketed : BOOLEAN]
Network == [addr : Address \cup {NoIP}, bits : Int]

\* What is missing, or there once.
IsOption(v, S) == v = {} \/ \E x \in v : v = {x} /\ x \in S

IsEnv(e) ==
    /\ e.flag \in [DOMAIN DefaultFlag -> {"unset", "on", "off"}]
    /\ e.number \in [DOMAIN DefaultNumber -> Nat \cup {Unset, Garbage}]
    /\ IsOption(e.metrics_auth_token, Seq(Nat))
    /\ IsOption(e.allowed_ports, SUBSET Int)
    /\ IsOption(e.trusted_proxies, SUBSET Network)
    /\ IsOption(e.allowed_origins, SUBSET Origin)
    /\ IsOption(e.allowed_hosts, SUBSET Host)

MappedPrefix == <<0, 0, 0, 0, 0, 65535>>

\* An IPv4-mapped address with its IPv4 address, or another address with itself.
IsClient(c) ==
    \/ /\ c.plain \in [1 .. 4 -> Octet]
       /\ c.ip = MappedPrefix \o <<c.plain[1] * 256 + c.plain[2], c.plain[3] * 256 + c.plain[4]>>
    \/ /\ c.plain = c.ip /\ c.ip \in Address
       /\ Len(c.ip) = 8 => SubSeq(c.ip, 1, 6) # MappedPrefix

InSegments(x) == <<x[1] * 256 + x[2], x[3] * 256 + x[4]>>

\* In front of an IPv4 address in a mapped, a compatible and a NAT64 address.
CarryingPrefixes == {MappedPrefix, <<0, 0, 0, 0, 0, 0>>, <<100, 65435, 0, 0, 0, 0>>}

\* An address with the IPv4 address that it is or carries; 8194 is 6to4.
IsAnswer(a) ==
    \/ /\ a.carries \in [1 .. 4 -> Octet]
       /\ \/ a.ip = a.carries
          \/ \E p \in CarryingPrefixes : a.ip = p \o InSegments(a.carries)
          \/ /\ a.ip \in [1 .. 8 -> Segment]
             /\ a.ip[1] = 8194 /\ SubSeq(a.ip, 2, 3) = InSegments(a.carries)
    \/ /\ a.carries = NoIP
       /\ a.ip \in [1 .. 8 -> Segment]
       /\ a.ip[1] # 8194 /\ SubSeq(a.ip, 1, 6) \notin CarryingPrefixes

\* What v, v \div radix, ... k times are.
Shifts(v, radix, k) ==
    LET s[i \in 0 .. k] == IF i = 0 THEN v ELSE s[i - 1] \div radix IN s

\* These are the digits of v, with or without zeros in front.
Written(v, digits, radix) ==
    LET n == Len(digits)
        s == Shifts(v, radix, n)
    IN s[n] = 0 /\ \A i \in 1 .. n : digits[i] = s[n - i] % radix

IsLabel(l) ==
    /\ l \in [form : {"dec", "oct", "hex", "word", "bad"}, digits : Seq(0 .. 99)]
    /\ Dot \notin ToSet(l.digits)
    /\ l.form \in {"dec", "oct", "word"} => l.digits # <<>>
    /\ l.form \in {"dec", "oct"} => \A i \in DOMAIN l.digits : l.digits[i] < 10
    /\ l.form = "dec" /\ Len(l.digits) > 1 => l.digits[1] # 0

\* inet_aton takes numbers to be x: each but the last is an octet, the last
\* is all the other octets.
InetAton(values, x) ==
    LET n == Len(values) IN
    /\ n \in 1 .. 4 /\ \A i \in 1 .. n - 1 : values[i] = x[i]
    /\ values[n] \in Nat /\ Written(values[n], SubSeq(x, n, 4), 256)

\* inet_aton does not take numbers for an address.
NotInetAton(values) ==
    LET n == Len(values) IN
    \/ n \notin 1 .. 4 \/ NotANumber \in ToSet(values)
    \/ \E i \in 1 .. n - 1 : values[i] > 255
    \/ Shifts(values[n], 256, 5 - n)[5 - n] # 0

IsRemote(raw) ==
    /\ raw.host \in [v6 : {NoIP} \cup [1 .. 8 -> Segment], labels : Seq(ToSet(raw.host.labels)),
                     dot : BOOLEAN, upper : BOOLEAN, blank : BOOLEAN]
    /\ raw.values \in Seq(Nat \cup {NotANumber}) /\ Len(raw.values) = Len(raw.host.labels)
    /\ \A i \in DOMAIN raw.values :
          LET l == raw.host.labels[i] IN
          /\ IsLabel(l)
          /\ IF Digital(l) THEN raw.values[i] \in Nat /\ Written(raw.values[i], l.digits, Radix(l.form))
                           ELSE raw.values[i] = NotANumber
    /\ IF raw.host.v6 # NoIP
       THEN raw.values = <<>> /\ IsClient([ip |-> raw.host.v6, plain |-> raw.spells])
       ELSE IF NotInetAton(raw.values)
       THEN raw.spells = NoIP
       ELSE raw.spells \in [1 .. 4 -> Octet] /\ InetAton(raw.values, raw.spells)

\* The vector at i is the name, in some case and with any number of final dots.
Holds(s, i, name) ==
    /\ Len(name) <= s[i]
    /\ \A k \in 1 .. s[i] : s[i + k] % 100 = IF k <= Len(name) THEN name[k] ELSE Dot

\* Where the entries of a list are, up to the first one of type 0.
UpToType0(s, at, first, last) ==
    LET n == Len(at) IN
    /\ at \in Seq(first .. last - 1) /\ n > 0 /\ at[1] = first
    /\ \A k \in 1 .. n - 1 : s[at[k]] # 0 /\ at[k + 1] = at[k] + 2 + s[at[k] + 1]
    /\ s[at[n]] = 0 /\ at[n] + 1 + s[at[n] + 1] <= last

\* Any tokens; or a ClientHello as RFC 8446 has it, with its first name as
\* RFC 6066 has it, and where its extensions and names are up to that one.
IsHello(h) ==
    LET s == h.sent
        ciphers == 8 + s[7]
        methods == ciphers + 1 + s[ciphers]
        exts == methods + 1 + s[methods]
        sni == h.exts[Len(h.exts)]
        name == h.names[Len(h.names)] + 1
    IN /\ s \in Seq(Nat)
       /\ h.name # <<>> =>
             /\ Len(s) > 5 /\ SubSeq(s, 1, 5) = <<22, 3, Len(s) - 3, 1, Len(s) - 5>>
             /\ s[3] <= MAX_TLS_RECORD /\ {7, ciphers, methods, exts} \subseteq DOMAIN s
             /\ exts + s[exts] = Len(s)
             /\ UpToType0(s, h.exts, exts + 1, Len(s))
             /\ s[sni + 2] = s[sni + 1] - 1
             /\ UpToType0(s, h.names, sni + 3, sni + 1 + s[sni + 1])
             /\ Holds(s, name, h.name) /\ \A k \in 1 .. s[name] : s[name + k] # NotUtf8

Known == {c.ip : c \in Clients}
Token == DOMAIN Paseto \cup {NoToken}
Protocol == [auth : BOOLEAN, token : Token]

IsRequest(q) ==
    /\ q.peer \in Known /\ q.forwarded \in [1 .. 4 -> Seq(Known \cup {NoIP})]
    /\ IsOption(q.origin, Origin)
    /\ IsOption(q.host, Host)
    /\ q.token \in Token /\ q.bearer \in Token
    /\ q.protocols \in Seq(Protocol)
    /\ q.now \in Nat /\ q.later \in Nat
    /\ IsRemote(q.remote) /\ IsHello(q.hello)
    /\ q.answer \in Seq(ToSet(q.answer)) /\ \A a \in ToSet(q.answer) : IsAnswer(a)

ASSUME GatewayAssumption ==
    /\ \A c \in Clients : IsClient(c)
    /\ \A raw \in Remotes : IsRemote(raw)
    /\ \A t \in DOMAIN Paseto : Paseto[t].exp \in Nat
    /\ \A e \in Envs : IsEnv(e) /\ \A q \in Requests(e) : IsRequest(q)
    /\ \A s \in Scrapes : s.bearer \subseteq Seq(Nat) /\ s.query \subseteq Seq(Nat)

VARIABLES
    build, env,     \* how the process was built and started
    config,
    metrics_up,     \* the listener on MAILINER_METRICS_ADDR is bound
    pc,
    asked,          \* the request
    reply           \* what was decided so far

vars == <<build, env, config, metrics_up, pc, asked, reply>>
process == <<build, env, config, metrics_up>>

Nothing == [reason |-> "none"]

Init ==
    /\ build \in {"debug", "release"}
    /\ env \in Envs
    /\ config = Nothing /\ metrics_up = FALSE
    /\ pc = "starting"
    /\ asked = Nothing /\ reply = Nothing

Panic ==
    /\ pc = "starting" /\ panics(env, build)
    /\ pc' = "panicked"
    /\ UNCHANGED <<process, asked, reply>>

\* The metrics listener may fail to bind; the proxy serves all the same.
Start ==
    /\ pc = "starting" /\ ~panics(env, build)
    /\ pc' = "serving"
    /\ config' = apply_env(env)
    /\ metrics_up' \in IF config'.metrics_bind THEN BOOLEAN ELSE {FALSE}
    /\ UNCHANGED <<build, env, asked, reply>>

\* The RejectReason or status, whose request it was, where it goes.
Reply(reason, client, remote, addrs) ==
    [reason |-> reason, client |-> client, remote |-> remote, addrs |-> addrs]

Answer(q, reason, rest) ==
    /\ pc' = rest
    /\ asked' = q
    /\ reply' = Reply(reason, client_ip(q, q.peer, config), parse_remote(q.remote), <<>>)
    /\ UNCHANGED process

\* Up to the resolver nothing is awaited.  The limits are not asked here.
Gate(q) ==
    LET token == validate_token(proxy_token(q.token, q), q.remote, config, build, q.now, q.later)
        remote == parse_remote(q.remote)
    IN IF ~origin_allowed(q, config.allowed_origins) THEN Answer(q, "BadOrigin", "answered")
       ELSE IF ~host_allowed(q, config.allowed_hosts) THEN Answer(q, "BadHost", "answered")
       ELSE IF token # "Ok" THEN Answer(q, token, "answered")
       ELSE IF ~remote.ok THEN Answer(q, "InvalidRemote", "answered")
       ELSE IF check_policy(remote, config.dest) # "Ok"
            THEN Answer(q, check_policy(remote, config.dest), "answered")
       ELSE Answer(q, "none", "resolving")

\* tokio's lookup_host, and getaddrinfo behind it, has the host as it is in
\* Remote, without dots and blanks: if that is an address, it is the answer,
\* and DNS is not asked.
lookup_host(q) ==
    IF q.remote.spells = NoIP
    THEN q.answer
    ELSE <<[ip |-> q.remote.spells, carries |-> q.remote.spells]>>

\* Which address of those kept is dialed makes no difference here.
Resolve ==
    LET found == lookup_host(asked)
        addrs == resolve_filtered(reply.remote, config.dest, [i \in DOMAIN found |-> found[i].ip])
        probe == IF config.require_protocol_probe THEN probe_for_port(reply.remote.port) ELSE "None"
    IN /\ pc = "resolving"
       /\ pc' = IF addrs = <<>> THEN "answered" ELSE IF probe = "TlsSni" THEN "probing" ELSE "relaying"
       /\ reply' = Reply(IF addrs = <<>> THEN "PrivateIp" ELSE "none",
                         reply.client, reply.remote, addrs)
       /\ UNCHANGED <<process, asked>>

\* remote.host as it is in the configuration of the probe.
Letters(host) ==
    LET label(i) == Mark(host.labels[i].form) \o host.labels[i].digits
    IN FlattenSeq([i \in DOMAIN host.labels |-> IF i = 1 THEN label(i) ELSE <<Dot>> \o label(i)])

\* What the probe says of the first record.
Sniffed(q, remote) ==
    validate_tls_client_hello(q.hello.sent, Letters(remote.host), remote.ip_literal # NoIP)

ProbeTlsSni ==
    LET ok == Sniffed(asked, reply.remote) = "Ok" IN
    /\ pc = "probing"
    /\ pc' = IF ok THEN "relaying" ELSE "answered"
    /\ reply' = Reply(IF ok THEN "none" ELSE "Proto", reply.client, reply.remote, reply.addrs)
    /\ UNCHANGED <<process, asked>>

\* Where /metrics is routed.
Routed(port) == IF port = "metrics" THEN metrics_up ELSE ~config.metrics_bind

Scrape(s) ==
    /\ pc' = "scraped"
    /\ asked' = s
    /\ reply' = [reason |-> IF ~Routed(s.port) THEN "NotFound"
                            ELSE IF metrics_allowed(s.bearer, s.query, config) THEN "none"
                            ELSE "Unauthorized"]
    /\ UNCHANGED process

NextRequest ==
    /\ pc \in {"answered", "relaying", "scraped"}
    /\ pc' = "serving"
    /\ asked' = Nothing /\ reply' = Nothing
    /\ UNCHANGED process

Next ==
    \/ Panic \/ Start \/ Resolve \/ ProbeTlsSni \/ NextRequest
    \/ pc = "serving" /\ \/ \E q \in Requests(env) : Gate(q)
                         \/ \E s \in Scrapes : Scrape(s)

Spec == Init /\ [][Next]_vars

-----------------------------------------------------------------------------
(* What the properties compare with: definitions that follow the text of   *)
(* the RFCs and the documentation, bit by bit, not the code.               *)

\* The n-th bit of an address.
Bit(ip, n) ==
    LET w == DigitBits(ip) IN (ip[(n - 1) \div w + 1] \div 2 ^ (w - 1 - ((n - 1) % w))) % 2

SameNetwork(a, b, bits) == Len(a) = Len(b) /\ \A n \in 1 .. bits : Bit(a, n) = Bit(b, n)

InOrder(a, b) ==
    a = b \/ \E i \in DOMAIN a : a[i] < b[i] /\ \A j \in 1 .. i - 1 : a[j] = b[j]

\* First and last address of the ranges that is_global_v4 is to refuse, the
\* ones its comments name and the ones the predicates of std stand for.
SpecialV4 ==
    { <<<<0, 0, 0, 0>>, <<0, 255, 255, 255>>>>, <<<<10, 0, 0, 0>>, <<10, 255, 255, 255>>>>,
      <<<<100, 64, 0, 0>>, <<100, 127, 255, 255>>>>, <<<<127, 0, 0, 0>>, <<127, 255, 255, 255>>>>,
      <<<<169, 254, 0, 0>>, <<169, 254, 255, 255>>>>, <<<<172, 16, 0, 0>>, <<172, 31, 255, 255>>>>,
      <<<<192, 0, 0, 0>>, <<192, 0, 0, 255>>>>, <<<<192, 0, 2, 0>>, <<192, 0, 2, 255>>>>,
      <<<<192, 168, 0, 0>>, <<192, 168, 255, 255>>>>, <<<<198, 18, 0, 0>>, <<198, 19, 255, 255>>>>,
      <<<<198, 51, 100, 0>>, <<198, 51, 100, 255>>>>, <<<<203, 0, 113, 0>>, <<203, 0, 113, 255>>>>,
      <<<<224, 0, 0, 0>>, <<255, 255, 255, 255>>>> }

\* The same for is_global_v6: first and last value of the three segments that
\* tell these ranges apart.  It is not IANA's registry, which has 3fff::/20
\* and 5f00::/16 as not global as well, and parts of 2001::/23 as global.
SpecialV6 ==
    { <<<<100, 65435, 1>>, <<100, 65435, 1>>>>, <<<<8193, 0, 0>>, <<8193, 511, 65535>>>>,
      <<<<8193, 3512, 0>>, <<8193, 3512, 65535>>>>, <<<<64512, 0, 0>>, <<65023, 65535, 65535>>>>,
      <<<<65152, 0, 0>>, <<65215, 65535, 65535>>>>, <<<<65280, 0, 0>>, <<65535, 65535, 65535>>>> }

Within(ip, ranges) == \E r \in ranges : InOrder(r[1], ip) /\ InOrder(ip, r[2])

\* Each address of an answer comes with the IPv4 address it carries, or NoIP.
Public(a) ==
    IF a.carries # NoIP
    THEN ~Within(a.carries, SpecialV4)
    ELSE ~Within(SubSeq(a.ip, 1, 3), SpecialV6) /\ SubSeq(a.ip, 1, 4) # <<256, 0, 0, 0>>

Admitted == pc \in {"probing", "relaying"}

\* The texts differ in case, in a final dot and in blanks around them at most.
SameText(a, b) ==
    DOMAIN a = DOMAIN b /\ \A f \in DOMAIN a \ {"upper", "dot", "blank"} : a[f] = b[f]

\* What an unset list, or a list with nothing usable on it, is.
Listed(list) == UNION list

Plain(ip) == (CHOOSE c \in Clients : c.ip = ip).plain

Width(ip) == Len(ip) * DigitBits(ip)

\* An entry of MAILINER_TRUSTED_PROXIES stands for a network with this address.
\* One that is written as an IPv4-mapped address, and not as an IPv4 one, stands
\* for the IPv4 network of at most 32 of its bits to the mapped addresses.
Trusts(entry, ip) ==
    LET bits == IF entry.bits = Unset THEN Width(entry.addr) ELSE entry.bits
        bothMapped == Plain(ip) # ip /\ unmapped(entry.addr) # entry.addr
    IN /\ entry.addr # NoIP /\ bits \in 0 .. Width(entry.addr)
       /\ IF bothMapped
          THEN SameNetwork(Plain(ip), unmapped(entry.addr), IF bits > 32 THEN 32 ELSE bits)
          ELSE SameNetwork(IF IsV4(entry.addr) THEN Plain(ip) ELSE ip, entry.addr, bits)

\* The number of bits a budget is shared by, as the environment has it.
PrefixBits(name, ip) ==
    LET n == env.number[name] IN
    IF n \in Nat THEN (IF n > Width(ip) THEN Width(ip) ELSE n) ELSE DefaultNumber[name]

\* A host name: type 0, and then the name with its length in front of it.
Mentions(sent, name) ==
    \E i \in DOMAIN sent :
       /\ sent[i] = 0 /\ i + 1 \in DOMAIN sent /\ i + 1 + sent[i + 1] <= Len(sent)
       /\ Holds(sent, i + 1, name)

Judged == pc \in {"answered", "resolving", "probing", "relaying"}

\* The texts of `remote` that are accepted.
Accepted == {raw \in Remotes : parse_remote(raw).ok}
AcceptedKey == [raw \in Accepted |-> dest_key(parse_remote(raw))]

\* An IPv4 address and its IPv4-mapped form; another address.
Forms(x) == IF IsV4(x) THEN {x, MappedPrefix \o InSegments(x)} ELSE {x}

\* What lookup_host finds for two texts, the answers of DNS being what they
\* may, is one address, or the answer to one question.
SameDest(a, b) == a.spells = b.spells /\ (a.spells = NoIP => SameText(a.host, b.host))

\* There is nothing around the host, and it has no more than 32 characters.
AsIs(raw) == ~raw.host.dot /\ ~raw.host.blank /\ TextLen(raw.host) <= 32

\* A name, or an address that does not pass for one.
Noticed(raw) == raw.spells # NoIP => AsIs(raw)

\* A protocol that is not marked as one is no token.
Presented(q) ==
    ({q.token, q.bearer} \cup {p.token : p \in {p \in ToSet(q.protocols) : p.auth}}) \ {NoToken}

\* A token that was issued for this request, is not expired, and was not
\* issued for longer than tokens may be.
Entitles(t, q) ==
    LET ttl == env_number(env.number.paseto_max_ttl, DefaultNumber.paseto_max_ttl) IN
    /\ Paseto[t].sealed /\ Paseto[t].remote = q.remote
    /\ Paseto[t].exp > q.now
    /\ ttl # 0 => q.later <= Paseto[t].exp /\ Paseto[t].exp <= q.later + ttl

-----------------------------------------------------------------------------
(* Properties. *)

\* In a release build without MAILINER_UNSAFE, whatever else the environment
\* says, a request that is let through goes to a mail port or a port that
\* was listed, to a name and not to an address, unless that is dressed up
\* (see NoLiteralDialed), from no page but those of the listed origins when
\* no token is asked for, past the probe where there is one, and under all
\* six caps that make a public proxy safe.
ReleaseIsRestricted ==
    build = "release" /\ env.unsafe # "on" /\ Admitted =>
       /\ reply.remote.port \in {143, 465, 587, 993} \cup Listed(env.allowed_ports)
       /\ Noticed(asked.remote) => asked.remote.spells = NoIP
       /\ env.auth = "public" =>
             \A o \in asked.origin : \E l \in Listed(env.allowed_origins) : SameText(o, l)
       /\ pc = "relaying" /\ reply.remote.port \in {465, 993} => Sniffed(asked, reply.remote) = "Ok"
       /\ \A cap \in Caps : config.number[cap] # 0

\* The process refuses to start only for something in the environment that
\* says so: a required secret is missing, or a protection is switched off in
\* words.  Defaults, blank lists and numbers that are none do not switch
\* anything off.  A flag is "off" here whenever it is set and is not one of
\* the words for on, as env_bool has it.
StartsWhenSafe ==
    LET origins == {o.text : o \in Listed(env.allowed_origins)} \ {Blank}
        usable == {p \in Listed(env.trusted_proxies) :
                      p.addr # NoIP /\ p.bits \in {Unset} \cup (0 .. Width(p.addr))}
        switchedOff ==
           \/ env.auth = "public" /\ (origins = {} \/ "*" \in origins)
           \/ {Wildcard} \in env.allowed_ports
           \/ "on" \in {env.flag.allow_private_destinations, env.flag.allow_ip_literals}
           \/ env.flag.trust_forwarded_client_ip = "on" /\ usable = {}
           \/ env.flag.require_protocol_probe = "off"
           \/ \E cap \in Caps : env.number[cap] = 0
    IN pc = "panicked" /\ env.log_level_ok =>
          /\ build = "release"
          /\ \/ env.metrics_auth_token = {}
             \/ env.auth # "public" /\ env.secret # 32
             \/ env.unsafe # "on" /\ switchedOff

\* A release build that serves has what it needs to judge a token: nobody
\* gets a server error for a missing secret, not even with MAILINER_UNSAFE.
NeverKeyless == build = "release" => reply.reason # "InternalServerError"

\* A request is charged to its peer unless the operator named the peer's
\* network as a proxy's, and is then charged to the first address that the
\* proxy's headers have; an IPv4-mapped peer is in the IPv4 network.
PeerCharged ==
    Judged =>
       LET usable == UNION {{<<name, i>> : i \in {i \in DOMAIN asked.forwarded[name] :
                                                    asked.forwarded[name][i] # NoIP}} :
                               name \in DOMAIN asked.forwarded}
           proxied == /\ env.flag.trust_forwarded_client_ip = "on"
                      /\ \E entry \in Listed(env.trusted_proxies) : Trusts(entry, asked.peer)
       IN IF proxied /\ usable # {}
          THEN \E u \in usable : /\ \A v \in usable : InOrder(u, v)
                                 /\ reply.client = asked.forwarded[u[1]][u[2]]
          ELSE reply.client = asked.peer

\* Two clients share a budget if and only if they are in one network of the
\* configured size, however large a size was configured; a client cannot
\* get a second budget by writing its IPv4 address as an IPv6 one.
BudgetShared ==
    Judged =>
       \A other \in Clients :
          LET me == Plain(reply.client)
              bits == PrefixBits(IF IsV4(me) THEN "ipv4_prefix" ELSE "ipv6_prefix", me)
              key(ip) == limit_key(ip, config.number.ipv4_prefix, config.number.ipv6_prefix)
          IN key(other.ip) = key(reply.client) <=> SameNetwork(other.plain, me, bits)

\* Where tokens are asked for, a release build lets through only a request
\* with a token of its own: sealed with the key, for this text of `remote`,
\* not expired at either reading of the clock, and not issued for longer
\* than MAILINER_PASETO_MAX_TTL_SECS; and it refuses none of those.
TokenBound ==
    build = "release" /\ env.auth # "public" =>
       /\ pc \in {"resolving", "probing", "relaying"} => \E t \in Presented(asked) : Entitles(t, asked)
       /\ pc = "answered" /\ reply.reason = "Unauthorized" =>
             ~ \E t \in Presented(asked) : Presented(asked) = {t} /\ Entitles(t, asked)

\* Where hosts are listed, a request that gets past the Host header names
\* one of them, with the port if one was listed.
HostsKnown ==
    pc \in {"resolving", "probing", "relaying"} =>
       LET listed == {h \in Listed(env.allowed_hosts) : h.text # Blank} IN
       listed # {} => \E got \in asked.host, h \in listed :
                         SameText([got EXCEPT !.port = h.port], h) /\ h.port \in {0, got.port}

\* However an IPv4 address is embedded in an answer, at the very edges of the
\* special ranges, and for an address that passed for a name, exactly the
\* public addresses are left to dial.
DialedIsPublic ==
    LET found == lookup_host(asked)
        public == Retain(found, {a \in ToSet(found) : Public(a)})
        name == reply.remote.ip_literal = NoIP
    IN /\ Admitted /\ env.flag.allow_private_destinations # "on" /\ name =>
             reply.addrs = [i \in DOMAIN public |-> public[i].ip]
       /\ pc = "answered" /\ reply.reason = "PrivateIp" /\ name => public = <<>>

\* An address is recognised in every notation of inet_aton, as the address
\* it is, if there is nothing around it and it has 32 characters at most;
\* no name is taken for an address, and no address for another one.
LiteralsSeen ==
    Judged /\ reply.remote.ok =>
       /\ Noticed(asked.remote) => reply.remote.ip_literal \in Forms(asked.remote.spells)
       /\ reply.remote.ip_literal \in {NoIP} \cup Forms(asked.remote.spells)

\* README.md:65: "Hostnames only by default - raw IP literals are rejected
\* (including dword / hex / octal / short IPv4 forms that `getaddrinfo` would
\* accept)".  They are not: 8.8.8.8. is no literal to parse_remote, which
\* then hands 8.8.8.8 to the resolver.
NoLiteralDialed ==
    Admitted /\ env.flag.allow_ip_literals # "on" => asked.remote.spells = NoIP

\* Requests that count against one destination go to one.  Requests that go
\* to one count against one, in whatever case, notation or embedding they
\* spell it, unless it is an address that passed for a name.
OneKeyPerDest ==
    Judged /\ reply.remote.ok =>
       \A other \in Accepted :
          other.port = asked.remote.port =>
             LET oneKey == AcceptedKey[other] = dest_key(reply.remote)
                 oneDest == SameDest(other, asked.remote)
             IN /\ oneKey => oneDest
                /\ oneDest /\ Noticed(asked.remote) /\ Noticed(other) => oneKey

\* A record that passes the probe mentions the host of the request, and one
\* that is as RFC 8446 has it and names the host first passes, whatever
\* else is in it.
SniMatches ==
    Judged /\ config.require_protocol_probe /\ reply.remote.ok /\ asked.remote.spells = NoIP =>
       LET host == Letters(asked.remote.host) IN
       /\ pc = "relaying" /\ asked.remote.port \in {465, 993} => Mentions(asked.hello.sent, host)
       /\ reply.reason = "Proto" => asked.hello.name # host

\* In a release build the metrics go only to who knows METRICS_AUTH_TOKEN,
\* and with MAILINER_METRICS_ADDR they are not on the public port even when
\* that address could not be bound.
MetricsGuarded ==
    build = "release" /\ pc = "scraped" /\ reply.reason = "none" =>
       /\ env.metrics_auth_token \subseteq asked.bearer \cup asked.query
       /\ asked.port = "proxy" => env.metrics_addr # "address"
=============================================================================

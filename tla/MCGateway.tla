----------------------------- MODULE MCGateway ------------------------------
(***************************************************************************)
(* Environments and requests for Gateway.tla: two ordinary deployments     *)
(* with one or two variables changed, an ordinary request with one part of *)
(* it changed.                                                             *)
(***************************************************************************)
EXTENDS Gateway, TLC

-----------------------------------------------------------------------------
(* Environments. *)

origin(text, scheme) == [text |-> text, scheme |-> scheme, upper |-> FALSE, dot |-> FALSE]
host(text, port) ==
    [text |-> text, port |-> port, upper |-> FALSE, dot |-> FALSE, bracketed |-> FALSE]
cidr(addr, bits) == [addr |-> addr, bits |-> bits]

App == origin("app", "https")
Edge == <<10, 1, 2, 3>>
Mapped(x) == <<0, 0, 0, 0, 0, 65535, x[1] * 256 + x[2], x[3] * 256 + x[4]>>

\* Nothing is set but what a release build needs.
Bare ==
    [ auth |-> "unset", secret |-> 32, metrics_auth_token |-> {<<5, 6>>},
      metrics_addr |-> "unset", log_level_ok |-> TRUE, unsafe |-> "unset",
      allowed_ports |-> {}, trusted_proxies |-> {}, allowed_origins |-> {}, allowed_hosts |-> {},
      flag |-> [f \in DOMAIN DefaultFlag |-> "unset"],
      number |-> [n \in DOMAIN DefaultNumber |-> Unset] ]

PublicEnv == [Bare EXCEPT !.auth = "public", !.secret = Unset, !.allowed_origins = {{App}}]

Changed(e) ==
    {[e EXCEPT !.flag[f] = v] : f \in DOMAIN DefaultFlag, v \in {"on", "off"}}
       \cup {[e EXCEPT !.number[n] = v] : n \in Caps, v \in {0, Garbage}}
       \cup {[e EXCEPT !.number.ipv4_prefix = v] : v \in {0, 9, 24, 256, Garbage}}
       \cup {[e EXCEPT !.number.ipv6_prefix = v] : v \in {0, 48, 65, 256}}
       \cup {[e EXCEPT !.number.paseto_max_ttl = v] : v \in {0, 2}}
       \cup {[e EXCEPT !.allowed_ports = {v}] :
                v \in {{}, {Wildcard}, {993, 25}, {Wildcard, 993}, {Garbage, 0, 70000}}}
       \cup {[e EXCEPT !.allowed_origins = {v}] :
                v \in {{}, {Star}, {App, Star}, {origin(Blank, "")}, {[App EXCEPT !.upper = TRUE]}}}
       \cup {[e EXCEPT !.allowed_hosts = {v}] :
                v \in {{host("proxy", 0)}, {host("proxy", 443)}, {host(Blank, 0)},
                       {[host("proxy", 0) EXCEPT !.dot = TRUE]}}}
       \cup {[e EXCEPT !.trusted_proxies = {v}, !.flag.trust_forwarded_client_ip = "on"] :
                v \in {{}, {cidr(Edge, Unset)}, {cidr(Edge, 9)}, {cidr(Edge, 33), cidr(NoIP, 8)},
                       {cidr(<<8193, 3512, 0, 0, 0, 0, 0, 0>>, 33)}, {cidr(<<0, 0, 0, 0>>, 0)},
                       {cidr(Mapped(Edge), 128)}, {cidr(Mapped(Edge), 9)}, {cidr(Mapped(Edge), 104)}}}
       \cup {[e EXCEPT !.secret = v] : v \in {Unset, 31, 32}}
       \cup {[e EXCEPT !.metrics_auth_token = v] : v \in {{}, {<<>>}}}
       \cup {[e EXCEPT !.metrics_addr = v] : v \in {"empty", "address"}}
       \cup {[e EXCEPT !.auth = "Token"], [e EXCEPT !.log_level_ok = FALSE]}

MCEnvs ==
    LET once == UNION {Changed(e) : e \in {Bare, PublicEnv}}
    IN once \cup {[e EXCEPT !.unsafe = "on"] : e \in once}
            \cup {[Bare EXCEPT !.unsafe = "off", !.number.max_lifetime = 0]}

-----------------------------------------------------------------------------
(* Addresses. *)

Embeddings(x) ==
    LET hi == x[1] * 256 + x[2]
        lo == x[3] * 256 + x[4]
    IN { x, Mapped(x), <<0, 0, 0, 0, 0, 0, hi, lo>>, <<100, 65435, 0, 0, 0, 0, hi, lo>>,
         <<8194, hi, lo, 7, 0, 0, 0, 1>> }

V4Clients == {Edge, <<10, 1, 2, 200>>, <<10, 127, 0, 1>>, <<10, 128, 0, 1>>, <<8, 8, 8, 8>>}
V6Clients == { <<8193, 3512, 0, 7, 0, 0, 0, 1>>, <<8193, 3512, 0, 7, 0, 0, 0, 2>>,
               <<8193, 3512, 0, 7, 32768, 0, 0, 1>>, <<8193, 3512, 0, 8, 0, 0, 0, 1>>,
               <<8193, 3512, 32768, 7, 0, 0, 0, 1>> }

MCClients ==
    {[ip |-> x, plain |-> x] : x \in V4Clients \cup V6Clients}
       \cup {[ip |-> Mapped(x), plain |-> x] : x \in V4Clients}

\* The neighbours of an address, where they do not carry over.
Near(x) == {[x EXCEPT ![4] = v] : v \in {x[4] - 1, x[4] + 1} \cap (0 .. 255)}
           \cup {[x EXCEPT ![2] = v] : v \in {x[2] - 1, x[2] + 1} \cap (0 .. 255)}

V4Answers == UNION {{r[1], r[2]} \cup Near(r[1]) \cup Near(r[2]) : r \in SpecialV4}

V6Answers ==
    {t \o <<v, 0, 0, 0, 1>> : v \in {0, 9},
        t \in UNION {{r[1], r[2], [r[1] EXCEPT ![3] = 2], [r[2] EXCEPT ![2] = 600],
                      [r[1] EXCEPT ![1] = @ - 1]} : r \in SpecialV6} \cup {<<256, 0, 0>>}}

answer(ip, x) == [ip |-> ip, carries |-> x]

DefaultAnswer == <<answer(<<8, 8, 8, 8>>, <<8, 8, 8, 8>>)>>

Embedded == UNION {{r[1], r[2]} : r \in SpecialV4} \cup {<<8, 8, 8, 8>>, <<9, 255, 255, 255>>}

Answers ==
    {<<answer(x, x)>> : x \in V4Answers}
       \cup UNION {{<<answer(e, x)>> : e \in Embeddings(x)} : x \in Embedded}
       \cup {<<answer(ip, NoIP)>> : ip \in V6Answers}
       \cup {<<answer(Edge, Edge)>> \o DefaultAnswer \o <<answer(Mapped(Edge), Edge)>>, <<>>}

-----------------------------------------------------------------------------
(* Destinations: an address below 128.0.0.0 in the notations of inet_aton. *)

\* The digits of n.
Digits(n, radix) ==
    LET length == Min({k \in 1 .. (IF radix = 10 THEN 10 ELSE IF radix = 8 THEN 11 ELSE 8) :
                          n \div radix ^ (k - 1) < radix})
    IN [i \in 1 .. length |-> (n \div radix ^ (length - i)) % radix]

number(n, form) == [form |-> form, digits |-> Digits(n, Radix(form))]
word(letters) == [form |-> "word", digits |-> letters]

\* The address in k parts.
Parts(x, k) ==
    LET place(i) == IF i < k THEN 0 ELSE x[i] * 256 ^ (4 - i)
    IN [i \in 1 .. k |-> IF i < k THEN x[i] ELSE place(1) + place(2) + place(3) + place(4)]

Named(labels) == [NoHost EXCEPT !.labels = labels]
Mail == Named(<<word(<<11, 12>>), word(<<13>>)>>)

\* The labels of a name are no numbers, but for the ones that are told.
text(h, port, spells) ==
    [opened |-> FALSE, closed |-> FALSE, colon |-> TRUE, host |-> h, port |-> port,
     values |-> [i \in DOMAIN h.labels |-> NotANumber], spells |-> spells]
valued(values, raw) == [raw EXCEPT !.values = values]
bracketed(raw) == [raw EXCEPT !.opened = TRUE, !.closed = TRUE]

Spellings(x) ==
    {valued(Parts(x, k),
        text(Named([i \in 1 .. k |-> number(Parts(x, k)[i], IF i = k THEN last ELSE form)]), 993, x)) :
           k \in 1 .. 4, form \in {"dec", "oct", "hex"}, last \in {"dec", "hex"}}
       \cup {bracketed(text([NoHost EXCEPT !.v6 = Mapped(x)], 993, x))}

\* Numbers with dots between them, and what they spell.
decimal(numbers, spells) ==
    valued(numbers, text(Named([i \in DOMAIN numbers |-> number(numbers[i], "dec")]), 993, spells))

\* 8., and a second part as it is written.
odd(value, form, digits, spells) ==
    valued(<<8, value>>,
           text(Named(<<number(8, "dec"), [form |-> form, digits |-> digits]>>), 993, spells))

\* With five parts, one that is too large or a bad digit, it is a name.
NotSpelled ==
    {decimal(v, NoIP) : v \in {<<8, 8, 8, 8, 8>>, <<8, 8, 256, 8>>, <<8, 65536 * 256>>}}
       \cup {odd(NotANumber, "oct", <<8>>, NoIP), odd(NotANumber, "hex", <<>>, NoIP)}

\* An address with a final dot, blanks around it, or more than 32 characters.
Dressed ==
    LET plain == {decimal(<<8, 8, 0, 10>>, <<8, 8, 0, 10>>), decimal(<<8, 8, 10>>, <<8, 8, 0, 10>>),
                  decimal(<<8, 8, 0, 11>>, <<8, 8, 0, 11>>), decimal(<<127, 0, 0, 1>>, <<127, 0, 0, 1>>)}
    IN {[raw EXCEPT !.host.dot = d, !.host.blank = ~d] : raw \in plain, d \in BOOLEAN}
       \cup {bracketed([raw EXCEPT !.host.blank = TRUE]) : raw \in plain}
       \cup {odd(1, "hex", [i \in 1 .. n |-> i \div n], <<8, 0, 0, 1>>) : n \in {28, 29}}

Names ==
    { text(Mail, 993, NoIP), bracketed(text(Mail, 993, NoIP)),
      text([Mail EXCEPT !.upper = TRUE], 993, NoIP), text([Mail EXCEPT !.dot = TRUE], 993, NoIP),
      text([Mail EXCEPT !.dot = TRUE, !.blank = TRUE], 993, NoIP),
      text(Named(<<word(<<11, 12>>)>>), 993, NoIP) }

Literal6 == <<9734, 18176, 0, 0, 0, 0, 0, 17>>

MCRemotes ==
    Names \cup NotSpelled \cup Dressed \cup Spellings(<<8, 8, 0, 10>>) \cup Spellings(<<127, 0, 0, 1>>)
       \cup {bracketed(text([NoHost EXCEPT !.v6 = Literal6], 993, Literal6))}

BadRemotes ==
    LET raw == text(Mail, 993, NoIP) IN
    {[raw EXCEPT !.port = p] : p \in {25, 143, 465, 587, 8080, 0, 65536, Garbage}}
       \cup { [raw EXCEPT !.colon = FALSE], [raw EXCEPT !.opened = TRUE],
               text(NoHost, 993, NoIP), [raw EXCEPT !.host.labels[2].form = "bad"],
               text([NoHost EXCEPT !.v6 = Literal6], 993, Literal6),
               bracketed(text([NoHost EXCEPT !.v6 = Literal6, !.blank = TRUE], 993, Literal6)) }

-----------------------------------------------------------------------------
(* First records. *)

Vec(s) == <<Len(s)>> \o s
Entries(list) == FlattenSeq([i \in DOMAIN list |-> <<list[i][1]>> \o Vec(list[i][2])])

Sni(names) == <<0, Vec(Entries(names))>>
Other == <<16, <<0, 2, 1>>>>

Record(exts) ==
    LET list == IF exts = <<>> THEN <<>> ELSE Vec(Entries(exts))
        hello == <<3>> \o Vec(<<0>>) \o Vec(<<0, 1>>) \o Vec(<<>>) \o list
    IN <<22, 3>> \o Vec(<<1>> \o Vec(hello))

HostName == <<11, 12, Dot, 13>>

nameless(exts) == [sent |-> Record(exts), name |-> <<>>, exts |-> <<>>, names |-> <<>>]

Starts(list, first) ==
    [i \in 1 .. Min({i \in DOMAIN list : list[i][1] = 0}) |-> first + Len(Entries(SubSeq(list, 1, i - 1)))]

\* A server_name with these names, of which name is the first; the
\* extensions of Record start at 14.
record(before, names, after, name) ==
    LET exts == Starts(Append(before, Sni(names)), 14)
    IN [nameless(before \o <<Sni(names)>> \o after) EXCEPT
          !.name = name, !.exts = exts, !.names = Starts(names, exts[Len(exts)] + 3)]

GoodHello == record(<<>>, <<<<0, HostName>>>>, <<>>, HostName)

Hellos ==
    LET hidden == <<16, Entries(<<<<0, HostName>>>>)>> IN
    { GoodHello, nameless(<<>>), nameless(<<Other>>), nameless(<<hidden>>),
      record(<<Other, Other>>, <<<<0, HostName>>>>, <<>>, HostName),
      record(<<>>, <<<<7, <<4>>>>, <<0, HostName>>, <<0, <<9>>>>>>, <<Other>>, HostName),
      record(<<>>, <<<<0, <<111, 12, Dot, 113, Dot>>>>>>, <<>>, HostName),
      record(<<>>, <<<<0, <<111, 112, Dot, 13, Dot, Dot>>>>>>, <<>>, HostName),
      record(<<>>, <<<<0, <<9>>>>, <<0, HostName>>>>, <<>>, <<9>>),
      record(<<>>, <<<<0, <<9>>>>>>, <<hidden, Sni(<<<<0, HostName>>>>)>>, <<9>>),
      nameless(<<Sni(<<>>)>>), nameless(<<Sni(<<<<0, <<>>>>>>)>>),
      nameless(<<Sni(<<<<0, <<1, NotUtf8>>>>>>)>>) }

\* Cut short, or with one token off.
BadHellos ==
    {[nameless(<<>>) EXCEPT !.sent = v] :
        v \in {SubSeq(GoodHello.sent, 1, n) : n \in 0 .. Len(GoodHello.sent) - 1}
                 \cup {[GoodHello.sent EXCEPT ![i] = v] : i \in DOMAIN GoodHello.sent, v \in {0, 1, 2, 20000}}}

-----------------------------------------------------------------------------
(* Tokens.  It is 100, or becomes 101 between the two readings. *)

paseto(sealed, exp, remote) == [sealed |-> sealed, exp |-> exp, remote |-> remote]

MCPaseto ==
    LET here == text(Mail, 993, NoIP) IN
    ("good" :> paseto(TRUE, 102, here)) @@ ("last" :> paseto(TRUE, 101, here))
       @@ ("late" :> paseto(TRUE, 100, here)) @@ ("long" :> paseto(TRUE, 3701, here))
       @@ ("forever" :> paseto(TRUE, NoExpiry, here)) @@ ("forged" :> paseto(FALSE, 102, here))
       @@ ("other" :> paseto(TRUE, 102, text(Named(<<word(<<19>>)>>), 993, NoIP)))
       @@ ("testtoken" :> paseto(FALSE, NoExpiry, here))

-----------------------------------------------------------------------------
(* Requests. *)

Usual ==
    [ peer |-> <<8, 8, 8, 8>>, forwarded |-> << <<>>, <<>>, <<>>, <<>> >>,
      origin |-> {App}, host |-> {host("proxy", 0)},
      token |-> "good", bearer |-> "", protocols |-> <<>>,
      remote |-> text(Mail, 993, NoIP), answer |-> DefaultAnswer, hello |-> GoodHello,
      now |-> 100, later |-> 100 ]

Tokens == DOMAIN MCPaseto \cup {""}

protocol(auth, token) == [auth |-> auth, token |-> token]

ByClient ==
    {[Usual EXCEPT !.peer = c.ip, !.forwarded = v] : c \in MCClients,
        v \in { << <<>>, <<>>, <<>>, <<>> >>,
                << <<NoIP>>, <<>>, <<NoIP, Mapped(Edge)>>, <<<<8, 8, 8, 8>>>> >>,
                << <<>>, <<<<8193, 3512, 0, 7, 0, 0, 0, 1>>>>, <<Edge, <<8, 8, 8, 8>>>>, <<>> >> }}

ByToken ==
    {[Usual EXCEPT !.token = t, !.bearer = b, !.later = l] :
        t \in Tokens, b \in {"", "good", "late"}, l \in {100, 101}}
       \cup {[Usual EXCEPT !.token = "", !.protocols = <<protocol(a, t), protocol(TRUE, u)>>] :
                a \in BOOLEAN, t \in {"", "good", "forged"}, u \in {"last", "other"}}
       \cup {[Usual EXCEPT !.token = "", !.protocols = <<protocol(FALSE, "good")>>]}

ByTarget ==
    {[Usual EXCEPT !.answer = v] : v \in Answers}
       \cup {[Usual EXCEPT !.remote = v] : v \in MCRemotes}
       \cup {[Usual EXCEPT !.hello = v] : v \in Hellos \cup BadHellos}

ByPage ==
    {[Usual EXCEPT !.origin = v] :
        v \in {{}, {[App EXCEPT !.upper = TRUE, !.dot = TRUE]}, {origin("evil", "https")},
               {origin("app", "http")}, {origin("app", "")}, {Star}}}
       \cup {[Usual EXCEPT !.host = v] :
                v \in {{}, {host("proxy", 443)}, {host("proxy", 80)}, {host("other", 0)},
                       {[host("proxy", 0) EXCEPT !.upper = TRUE, !.dot = TRUE]},
                       {[host("proxy", 443) EXCEPT !.dot = TRUE]},
                       {[host("proxy", 443) EXCEPT !.bracketed = TRUE]}}}

\* One request of every other kind.
Few ==
    {[Usual EXCEPT !.remote = v] : v \in BadRemotes \cup {valued(<<134744072>>,
           text(Named(<<number(134744072, "dec")>>), 993, <<8, 8, 8, 8>>))}}
       \cup {[Usual EXCEPT !.answer = <<answer(Mapped(Edge), Edge)>>],
             [Usual EXCEPT !.hello = nameless(<<>>)], [Usual EXCEPT !.token = ""],
             [Usual EXCEPT !.token = "testtoken"], [Usual EXCEPT !.peer = Edge]}

\* The requests that what was changed can make a difference to.
MCRequests(e) ==
    LET plain == [e EXCEPT !.flag = Bare.flag, !.unsafe = "unset"] IN
    ByPage \cup Few
       \cup (IF plain \in {Bare, PublicEnv} THEN ByTarget ELSE {})
       \cup (IF \/ e.trusted_proxies # {}
                \/ {e.number.ipv4_prefix, e.number.ipv6_prefix} # {Unset} THEN ByClient ELSE {})
       \cup (IF \/ plain = Bare \/ e.secret # 32 \/ e.number.paseto_max_ttl # Unset
             THEN ByToken ELSE {})

MCScrapes ==
    [port : {"proxy", "metrics"}, bearer : {{}, {<<5>>}, {<<5, 6>>}, {<<5, 6, 0>>}},
     query : {{}, {<<>>}, {<<5, 6>>}, {<<5, 6, 7>>}}]
=============================================================================

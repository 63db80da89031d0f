--------------------------- MODULE GatewayProofs ----------------------------
(***************************************************************************)
(* What holds of every environment, every request and every scrape.        *)
(***************************************************************************)
EXTENDS Gateway, Sums, SequenceTheorems

\* The process serves with the configuration of its environment, and only
\* if that did not make main panic.
Configured ==
    /\ env \in Envs
    /\ pc = "panicked" => panics(env, build)
    /\ pc \notin {"starting", "panicked"} => config = apply_env(env) /\ ~panics(env, build)

\* Before the start there is no configuration to hold anything about.
LEMMA ConfiguredInit == Init => Configured
  BY DEF Init, Configured

\* Only the start writes the configuration; every later step keeps it.
LEMMA ConfiguredStep == Configured /\ [Next]_vars => Configured'
  <1> SUFFICES ASSUME Configured, [Next]_vars PROVE Configured'
    OBVIOUS
  <1>1. CASE UNCHANGED vars
    BY <1>1 DEF vars, Configured
  <1>2. CASE Panic
    BY <1>2 DEF Panic, process, Configured
  <1>3. CASE Start
    BY <1>3 DEF Start, Configured
  <1>4. ASSUME NEW q \in Requests(env), pc = "serving", Gate(q) PROVE Configured'
    <2>1. UNCHANGED <<build, env, config>> /\ pc' \in {"answered", "resolving"}
      BY <1>4 DEF Gate, Answer, process
    <2> QED
      BY <1>4, <2>1 DEF Configured
  <1>5. CASE Resolve \/ ProbeTlsSni \/ NextRequest
    BY <1>5 DEF Resolve, ProbeTlsSni, NextRequest, process, Configured
  <1>6. ASSUME NEW s \in Scrapes, pc = "serving", Scrape(s) PROVE Configured'
    BY <1>6 DEF Scrape, process, Configured
  <1> QED
    BY <1>1, <1>2, <1>3, <1>4, <1>5, <1>6 DEF Next

\* The configuration of a running server is what Config::load makes of the
\* environment the process was started with, at every moment of its life.
THEOREM AlwaysConfigured == Spec => []Configured
  BY ConfiguredInit, ConfiguredStep, PTL DEF Spec

\* A list that is set is the only one.
LEMMA OnlyList ==
    ASSUME NEW list, NEW S, IsOption(list, S), list # {}
    PROVE  LET raw == CHOOSE r \in list : TRUE IN
           raw \in S /\ list = {raw} /\ Listed(list) = raw
  <1> DEFINE raw == CHOOSE r \in list : TRUE
  <1>1. PICK x \in list : list = {x} /\ x \in S
    BY DEF IsOption
  <1>2. raw \in list
    BY <1>1
  <1> HIDE DEF raw
  <1>3. raw = x
    BY <1>1, <1>2
  <1> QED
    BY <1>1, <1>3 DEF Listed, raw

-----------------------------------------------------------------------------
(* Why a process does not start. *)

\* What the parsers make of a list that is set or not.
LEMMA ListsRead ==
    ASSUME NEW e, IsEnv(e)
    PROVE  LET c == apply_env(e) IN
           /\ c.dest.allowed_ports.any <=> {Wildcard} \in e.allowed_ports
           /\ c.allowed_origins = {o \in Listed(e.allowed_origins) : o.text # Blank}
           /\ c.allowed_hosts = {h \in Listed(e.allowed_hosts) : h.text # Blank}
           /\ c.trusted_proxies = UNION {Cidr_parse(p) : p \in Listed(e.trusted_proxies)}
           /\ Listed(e.trusted_proxies) \subseteq Network
           /\ Listed(e.allowed_origins) \subseteq Origin
           /\ Listed(e.allowed_hosts) \subseteq Host
  <1> DEFINE c == apply_env(e)
             raw(list) == CHOOSE r \in list : TRUE
  <1>1. /\ c.dest.allowed_ports = IF e.allowed_ports = {} THEN [any |-> FALSE, set |-> DEFAULT_ALLOWED_PORTS]
                                  ELSE parse_allowed_ports(raw(e.allowed_ports))
        /\ c.trusted_proxies = IF e.trusted_proxies = {} THEN {} ELSE parse_cidrs(raw(e.trusted_proxies))
        /\ c.allowed_origins = IF e.allowed_origins = {} THEN {} ELSE parse_csv_set(raw(e.allowed_origins))
        /\ c.allowed_hosts = IF e.allowed_hosts = {} THEN {} ELSE parse_csv_set(raw(e.allowed_hosts))
    BY DEF apply_env, OrDefault
  <1>2. Listed({}) = {}
    BY DEF Listed
  <1>3. ASSUME NEW list, NEW S, IsOption(list, S), list # {}
        PROVE  raw(list) \in S /\ list = {raw(list)} /\ Listed(list) = raw(list)
    BY <1>3, OnlyList
  <1>4. /\ IsOption(e.allowed_ports, SUBSET Int) /\ IsOption(e.trusted_proxies, SUBSET Network)
        /\ IsOption(e.allowed_origins, SUBSET Origin) /\ IsOption(e.allowed_hosts, SUBSET Host)
    BY DEF IsEnv
  <1> HIDE DEF c, raw
  <1>5. c.dest.allowed_ports.any <=> {Wildcard} \in e.allowed_ports
    <2>1. CASE e.allowed_ports = {}
      BY <1>1, <2>1
    <2>2. CASE e.allowed_ports # {}
      <3>1. e.allowed_ports = {raw(e.allowed_ports)}
        BY <1>3, <1>4, <2>2
      <3>2. parse_allowed_ports(raw(e.allowed_ports)).any = (raw(e.allowed_ports) = {Wildcard})
        BY DEF parse_allowed_ports
      <3> QED
        BY <1>1, <2>2, <3>1, <3>2
    <2> QED
      BY <2>1, <2>2
  <1>6. /\ c.allowed_origins = {o \in Listed(e.allowed_origins) : o.text # Blank}
        /\ Listed(e.allowed_origins) \subseteq Origin
    <2>1. CASE e.allowed_origins = {}
      BY <1>1, <1>2, <2>1
    <2>2. CASE e.allowed_origins # {}
      <3>1. raw(e.allowed_origins) \in SUBSET Origin /\ Listed(e.allowed_origins) = raw(e.allowed_origins)
        BY <1>3, <1>4, <2>2
      <3>2. c.allowed_origins = parse_csv_set(raw(e.allowed_origins))
        BY <1>1, <2>2
      <3> QED
        BY <3>1, <3>2 DEF parse_csv_set
    <2> QED
      BY <2>1, <2>2
  <1>7. /\ c.allowed_hosts = {h \in Listed(e.allowed_hosts) : h.text # Blank}
        /\ Listed(e.allowed_hosts) \subseteq Host
    <2>1. CASE e.allowed_hosts = {}
      BY <1>1, <1>2, <2>1
    <2>2. CASE e.allowed_hosts # {}
      <3>1. raw(e.allowed_hosts) \in SUBSET Host /\ Listed(e.allowed_hosts) = raw(e.allowed_hosts)
        BY <1>3, <1>4, <2>2
      <3>2. c.allowed_hosts = parse_csv_set(raw(e.allowed_hosts))
        BY <1>1, <2>2
      <3> QED
        BY <3>1, <3>2 DEF parse_csv_set
    <2> QED
      BY <2>1, <2>2
  <1>8. /\ c.trusted_proxies = UNION {Cidr_parse(p) : p \in Listed(e.trusted_proxies)}
        /\ Listed(e.trusted_proxies) \subseteq Network
    <2>1. CASE e.trusted_proxies = {}
      BY <1>1, <1>2, <2>1
    <2>2. CASE e.trusted_proxies # {}
      <3>1. raw(e.trusted_proxies) \in SUBSET Network /\ Listed(e.trusted_proxies) = raw(e.trusted_proxies)
        BY <1>3, <1>4, <2>2
      <3>2. c.trusted_proxies = parse_cidrs(raw(e.trusted_proxies))
        BY <1>1, <2>2
      <3> QED
        BY <3>1, <3>2 DEF parse_cidrs
    <2> QED
      BY <2>1, <2>2
  <1> QED
    BY <1>5, <1>6, <1>7, <1>8 DEF c

\* What the environment says of flags and numbers is what main goes by.
LEMMA SettingsRead ==
    ASSUME NEW e, IsEnv(e)
    PROVE  LET c == apply_env(e) IN
           /\ c.dest.allow_private_destinations <=> e.flag.allow_private_destinations = "on"
           /\ c.dest.allow_ip_literals <=> e.flag.allow_ip_literals = "on"
           /\ c.trust_forwarded_client_ip <=> e.flag.trust_forwarded_client_ip = "on"
           /\ ~c.require_protocol_probe <=> e.flag.require_protocol_probe = "off"
           /\ \A cap \in Caps : c.number[cap] = 0 <=> e.number[cap] = 0
           /\ c.auth_mode = IF e.auth = "public" THEN "Public" ELSE "Paseto"
           /\ c.secret_key <=> e.secret = 32
  <1> DEFINE c == apply_env(e)
             number == [n \in DOMAIN DefaultNumber |-> env_number(e.number[n], DefaultNumber[n])]
  <1>1. \A f \in DOMAIN DefaultFlag : e.flag[f] \in {"unset", "on", "off"}
    BY DEF IsEnv
  <1>2. /\ c.dest.allow_private_destinations <=> e.flag.allow_private_destinations = "on"
        /\ c.dest.allow_ip_literals <=> e.flag.allow_ip_literals = "on"
        /\ c.trust_forwarded_client_ip <=> e.flag.trust_forwarded_client_ip = "on"
        /\ ~c.require_protocol_probe <=> e.flag.require_protocol_probe = "off"
    BY <1>1 DEF apply_env, DefaultFlag, env_bool
  <1>3. /\ c.auth_mode = IF e.auth = "public" THEN "Public" ELSE "Paseto"
        /\ c.secret_key <=> e.secret = 32
    BY DEF apply_env, parse_auth_mode, parse_secret_key
  <1>4. c.number = clamp_prefix(number)
    BY DEF apply_env
  <1>5. \A cap \in Caps : cap \in DOMAIN DefaultNumber /\ DefaultNumber[cap] \in Nat \ {0}
    BY DEF Caps, DefaultNumber
  <1>6. \A cap \in Caps : number[cap] = 0 <=> e.number[cap] = 0
    BY <1>5 DEF env_number
  <1>7. \A cap \in Caps : clamp_prefix(number)[cap] = number[cap]
    BY <1>5 DEF clamp_prefix, Caps
  <1> HIDE DEF c, number
  <1> QED
    BY <1>2, <1>3, <1>4, <1>6, <1>7 DEF c

\* The length of a sequence that is given as a function.
LEMMA LenOf ==
    ASSUME NEW n \in Nat, NEW S, NEW s \in [1 .. n -> S]
    PROVE  s \in Seq(S) /\ Len(s) = n
  OBVIOUS

\* An address has four octets or eight segments.
LEMMA AddressShape ==
    ASSUME NEW ip \in Address
    PROVE  /\ IsV4(ip) => /\ ip \in [1 .. 4 -> Octet] /\ Len(ip) = 4
                          /\ Width(ip) = 32 /\ DigitBits(ip) = 8
           /\ ~IsV4(ip) => /\ ip \in [1 .. 8 -> Segment] /\ Len(ip) = 8
                           /\ Width(ip) = 128 /\ DigitBits(ip) = 16
  <1>1. CASE ip \in [1 .. 4 -> Octet]
    <2>1. Len(ip) = 4
      BY <1>1, LenOf
    <2>2. IsV4(ip) /\ DigitBits(ip) = 8
      BY <2>1 DEF IsV4, DigitBits
    <2> QED
      BY <1>1, <2>1, <2>2 DEF Width
  <1>2. CASE ip \in [1 .. 8 -> Segment]
    <2>1. Len(ip) = 8
      BY <1>2, LenOf
    <2>2. ~IsV4(ip) /\ DigitBits(ip) = 16
      BY <2>1 DEF IsV4, DigitBits
    <2> QED
      BY <1>2, <2>1, <2>2 DEF Width
  <1>3. ip \in [1 .. 4 -> Octet] \/ ip \in [1 .. 8 -> Segment]
    BY DEF Address
  <1> QED
    BY <1>1, <1>2, <1>3

\* An address is not the absence of one.
LEMMA AddressIsSome ==
    ASSUME NEW ip \in Address
    PROVE  ip # NoIP
  <1>1. Len(ip) = 4 \/ Len(ip) = 8
    BY AddressShape
  <1>2. Len(NoIP) = 0
    BY EmptySeq DEF NoIP
  <1> QED
    BY <1>1, <1>2

\* A configuration with a safety error comes from an environment that says so.
LEMMA ErrorsHaveCauses ==
    ASSUME NEW e, IsEnv(e), public_safety_errors(apply_env(e)) # {}
    PROVE  LET origins == {o.text : o \in Listed(e.allowed_origins)} \ {Blank}
               usable == {p \in Listed(e.trusted_proxies) :
                             p.addr # NoIP /\ p.bits \in {Unset} \cup (0 .. Width(p.addr))}
           IN  \/ e.auth = "public" /\ (origins = {} \/ "*" \in origins)
               \/ {Wildcard} \in e.allowed_ports
               \/ "on" \in {e.flag.allow_private_destinations, e.flag.allow_ip_literals}
               \/ e.flag.trust_forwarded_client_ip = "on" /\ usable = {}
               \/ e.flag.require_protocol_probe = "off"
               \/ \E cap \in Caps : e.number[cap] = 0
  <1> DEFINE c == apply_env(e)
             origins == {o.text : o \in Listed(e.allowed_origins)} \ {Blank}
             usable == {p \in Listed(e.trusted_proxies) :
                           p.addr # NoIP /\ p.bits \in {Unset} \cup (0 .. Width(p.addr))}
  <1>1. \/ c.dest.allowed_ports.any
        \/ c.dest.allow_private_destinations
        \/ c.dest.allow_ip_literals
        \/ ~c.require_protocol_probe
        \/ c.trust_forwarded_client_ip /\ c.trusted_proxies = {}
        \/ c.auth_mode = "Public" /\ (c.allowed_origins = {} \/ Star \in c.allowed_origins)
        \/ \E cap \in Caps : c.number[cap] = 0
    <2> HIDE DEF c
    <2> DEFINE wrong ==
          [ allowed_ports |-> c.dest.allowed_ports.any,
            allow_private_destinations |-> c.dest.allow_private_destinations,
            allow_ip_literals |-> c.dest.allow_ip_literals,
            require_protocol_probe |-> ~c.require_protocol_probe,
            trusted_proxies |-> c.trust_forwarded_client_ip /\ c.trusted_proxies = {},
            allowed_origins |-> /\ c.auth_mode = "Public"
                                /\ c.allowed_origins = {} \/ Star \in c.allowed_origins ]
    <2>1. public_safety_errors(c) # {}
      BY DEF c
    <2>2. (\E name \in DOMAIN wrong : wrong[name]) \/ \E cap \in Caps : c.number[cap] = 0
      BY <2>1 DEF public_safety_errors
    <2>3. DOMAIN wrong = {"allowed_ports", "allow_private_destinations", "allow_ip_literals",
                          "require_protocol_probe", "trusted_proxies", "allowed_origins"}
      OBVIOUS
    <2>4. /\ wrong["allowed_ports"] = c.dest.allowed_ports.any
          /\ wrong["allow_private_destinations"] = c.dest.allow_private_destinations
          /\ wrong["allow_ip_literals"] = c.dest.allow_ip_literals
          /\ wrong["require_protocol_probe"] = ~c.require_protocol_probe
          /\ wrong["trusted_proxies"] = (c.trust_forwarded_client_ip /\ c.trusted_proxies = {})
          /\ wrong["allowed_origins"] =
                (c.auth_mode = "Public" /\ (c.allowed_origins = {} \/ Star \in c.allowed_origins))
      OBVIOUS
    <2> HIDE DEF wrong
    <2> QED
      BY <2>2, <2>3, <2>4
  <1>2. c.allowed_origins = {} => origins = {}
    BY ListsRead
  <1>3. Star \in c.allowed_origins => "*" \in origins
    <2> SUFFICES ASSUME Star \in c.allowed_origins PROVE "*" \in origins
      OBVIOUS
    <2>1. Star \in Listed(e.allowed_origins) /\ Star.text # Blank
      BY ListsRead
    <2>2. Star.text = "*"
      BY DEF Star
    <2> QED
      BY <2>1, <2>2
  <1>4. c.trusted_proxies = {} => usable = {}
    <2> SUFFICES ASSUME NEW p \in usable PROVE Cidr_parse(p) # {} /\ p \in Listed(e.trusted_proxies)
      BY ListsRead
    <2>1. p \in Network /\ p.addr # NoIP
      BY ListsRead
    <2>2. p.addr \in Address
      BY <2>1 DEF Network
    <2>3. Width(p.addr) = IF IsV4(p.addr) THEN 32 ELSE 128
      BY <2>2, AddressShape
    <2> DEFINE max == IF IsV4(p.addr) THEN 32 ELSE 128
               bits == IF p.bits = Unset THEN max ELSE p.bits
    <2>4. max \in Nat /\ (p.bits = Unset \/ p.bits \in 0 .. max)
      BY <2>3
    <2>5. Cidr_parse(p) = IF p.addr = NoIP \/ bits \notin 0 .. max THEN {}
                          ELSE {[addr |-> p.addr, bits |-> bits]}
      BY DEF Cidr_parse
    <2> HIDE DEF max
    <2>6. bits \in 0 .. max
      BY <2>4
    <2> HIDE DEF bits
    <2> QED
      BY <2>1, <2>5, <2>6
  <1> HIDE DEF origins, usable
  <1>5. /\ c.dest.allow_private_destinations <=> e.flag.allow_private_destinations = "on"
        /\ c.dest.allow_ip_literals <=> e.flag.allow_ip_literals = "on"
        /\ c.trust_forwarded_client_ip <=> e.flag.trust_forwarded_client_ip = "on"
        /\ ~c.require_protocol_probe <=> e.flag.require_protocol_probe = "off"
        /\ \A cap \in Caps : c.number[cap] = 0 <=> e.number[cap] = 0
        /\ c.auth_mode = IF e.auth = "public" THEN "Public" ELSE "Paseto"
    BY SettingsRead
  <1>6. c.dest.allowed_ports.any <=> {Wildcard} \in e.allowed_ports
    BY ListsRead
  <1> HIDE DEF c
  <1> QED
    BY <1>1, <1>2, <1>3, <1>4, <1>5, <1>6 DEF origins, usable

\* For every environment: main panics only for a missing secret or for a
\* protection that was switched off in words.
THEOREM AlwaysStartsWhenSafe == Spec => []StartsWhenSafe
  <1>1. Configured => StartsWhenSafe
    <2> SUFFICES ASSUME Configured, pc = "panicked", env.log_level_ok
                 PROVE  StartsWhenSafe
      BY DEF StartsWhenSafe
    <2>1. IsEnv(env)
      BY GatewayAssumption DEF Configured
    <2>2. /\ build = "release"
          /\ \/ env.metrics_auth_token = {}
             \/ public_safety_errors(apply_env(env)) # {} /\ ~env_bool(env.unsafe, FALSE)
             \/ apply_env(env).auth_mode = "Paseto" /\ ~apply_env(env).secret_key
      BY DEF Configured, panics
    <2>3. ~env_bool(env.unsafe, FALSE) => env.unsafe # "on"
      BY DEF env_bool
    <2>4. apply_env(env).auth_mode = "Paseto" /\ ~apply_env(env).secret_key =>
             env.auth # "public" /\ env.secret # 32
      BY <2>1, SettingsRead
    <2>5. CASE env.metrics_auth_token = {}
      BY <2>2, <2>5 DEF StartsWhenSafe
    <2>6. CASE public_safety_errors(apply_env(env)) # {} /\ ~env_bool(env.unsafe, FALSE)
      BY <2>1, <2>2, <2>3, <2>6, ErrorsHaveCauses DEF StartsWhenSafe
    <2>7. CASE apply_env(env).auth_mode = "Paseto" /\ ~apply_env(env).secret_key
      BY <2>2, <2>4, <2>7 DEF StartsWhenSafe
    <2> QED
      BY <2>2, <2>5, <2>6, <2>7
  <1> QED
    BY <1>1, AlwaysConfigured, PTL

-----------------------------------------------------------------------------
(* No release build answers with a server error for want of a secret. *)

\* A server that came up in a release build has what validate_token needs: it
\* never answers a token with an internal error.
LEMMA TokensCanBeJudged ==
    ASSUME Configured, build = "release", pc = "serving",
           NEW t, NEW remote, NEW now, NEW later
    PROVE  validate_token(t, remote, config, build, now, later) # "InternalServerError"
  <1>1. config.auth_mode \in {"Public", "Paseto"}
    BY DEF Configured, apply_env, parse_auth_mode
  <1>2. config.auth_mode = "Paseto" => config.secret_key
    BY DEF Configured, panics
  <1> QED
    BY <1>1, <1>2 DEF validate_token

\* check_policy's answers, none of which is an internal error.
LEMMA PolicyAnswers ==
    ASSUME NEW remote, NEW policy
    PROVE  check_policy(remote, policy) \in {"Ok", "BadPort", "IpLiteral", "PrivateIp"}
  BY DEF check_policy

\* No step of a release server gives the internal error of a missing key.
LEMMA KeylessStep == Configured /\ NeverKeyless /\ [Next]_vars => NeverKeyless'
  <1> SUFFICES ASSUME Configured, NeverKeyless, [Next]_vars, build' = "release"
               PROVE  reply'.reason # "InternalServerError"
    BY DEF NeverKeyless
  <1>1. CASE UNCHANGED vars
    BY <1>1 DEF vars, NeverKeyless
  <1>2. CASE Panic \/ Start
    BY <1>2 DEF Panic, Start, process, NeverKeyless
  <1>3. ASSUME NEW q \in Requests(env), pc = "serving", Gate(q)
        PROVE  reply'.reason # "InternalServerError"
    <2>1. build = "release"
      BY <1>3 DEF Gate, Answer, process
    <2> DEFINE token == validate_token(proxy_token(q.token, q), q.remote, config, build, q.now, q.later)
    <2>2. token # "InternalServerError"
      BY <1>3, <2>1, TokensCanBeJudged
    <2>3. check_policy(parse_remote(q.remote), config.dest) # "InternalServerError"
      BY PolicyAnswers
    <2> HIDE DEF token
    <2>4. \E reason : reply'.reason = reason
                      /\ \/ reason \in {"BadOrigin", "BadHost", "InvalidRemote", "none"}
                         \/ reason = token
                         \/ reason = check_policy(parse_remote(q.remote), config.dest)
      BY <1>3 DEF Gate, Answer, Reply, token
    <2> QED
      BY <2>2, <2>3, <2>4
  <1>4. CASE Resolve \/ ProbeTlsSni
    BY <1>4 DEF Resolve, ProbeTlsSni, Reply
  <1>5. CASE NextRequest
    BY <1>5 DEF NextRequest, Nothing
  <1>6. ASSUME NEW s \in Scrapes, Scrape(s) PROVE reply'.reason # "InternalServerError"
    BY <1>6 DEF Scrape
  <1> QED
    BY <1>1, <1>2, <1>3, <1>4, <1>5, <1>6 DEF Next

\* A release build that serves can judge every token: whatever was set,
\* MAILINER_UNSAFE included, no request finds the secret missing.
THEOREM AlwaysKeyed == Spec => []NeverKeyless
  <1>1. Init => NeverKeyless
    BY DEF Init, NeverKeyless, Nothing
  <1> QED
    BY <1>1, KeylessStep, AlwaysConfigured, PTL DEF Spec

-----------------------------------------------------------------------------
(* The metrics. *)

\* token_eq accepts equal tokens only: same length, and no byte that differs.
LEMMA TokenEq ==
    ASSUME NEW a \in Seq(Nat), NEW b \in Seq(Nat), token_eq(a, b)
    PROVE  a = b
  <1>1. Len(a) = Len(b)
    BY DEF token_eq
  <1>2. \A i \in 1 .. Len(a) : a[i] = b[i]
    BY <1>1 DEF token_eq, At
  <1> QED
    BY <1>1, <1>2

\* A scrape that metrics_allowed lets through presented the configured token,
\* in its header or in its query.
LEMMA KeyPresented ==
    ASSUME Configured, NEW s \in Scrapes, pc = "serving", metrics_allowed(s.bearer, s.query, config)
    PROVE  env.metrics_auth_token \subseteq s.bearer \cup s.query
  <1> SUFFICES ASSUME NEW key \in env.metrics_auth_token
               PROVE  key \in s.bearer \cup s.query
    OBVIOUS
  <1>1. config.metrics_auth_key = env.metrics_auth_token
    BY DEF Configured, apply_env
  <1>2. PICK provided \in IF s.bearer # {} THEN s.bearer ELSE s.query : token_eq(provided, key)
    BY <1>1 DEF metrics_allowed
  <1>3. provided \in s.bearer \cup s.query
    BY <1>2
  <1>4. provided \in Seq(Nat) /\ key \in Seq(Nat)
    <2>1. IsEnv(env)
      BY GatewayAssumption DEF Configured
    <2>2. key \in Seq(Nat)
      BY <2>1 DEF IsEnv, IsOption
    <2> QED
      BY <1>3, <2>2, GatewayAssumption
  <1> QED
    BY <1>2, <1>3, <1>4, TokenEq

\* Answering a scrape keeps the metrics guarded.
LEMMA ScrapeGuarded ==
    ASSUME Configured, NEW s \in Scrapes, pc = "serving", Scrape(s)
    PROVE  MetricsGuarded'
  <1>1. asked' = s /\ env' = env /\ build' = build
    BY DEF Scrape, process
  <1> SUFFICES ASSUME reply'.reason = "none"
               PROVE  /\ env.metrics_auth_token \subseteq s.bearer \cup s.query
                      /\ s.port = "proxy" => env.metrics_addr # "address"
    BY <1>1 DEF MetricsGuarded
  <1>2. Routed(s.port) /\ metrics_allowed(s.bearer, s.query, config)
    BY DEF Scrape
  <1>3. s.port = "proxy" => ~config.metrics_bind
    BY <1>2 DEF Routed
  <1>4. config.metrics_bind = (env.metrics_addr = "address")
    BY DEF Configured, apply_env
  <1> QED
    BY <1>2, <1>3, <1>4, KeyPresented

\* Whatever the environment, a release build shows its metrics only to who
\* presents METRICS_AUTH_TOKEN, and never on the public port once they have
\* an address of their own.
THEOREM MetricsAlwaysGuarded == Spec => []MetricsGuarded
  <1>1. Init => MetricsGuarded
    BY DEF Init, MetricsGuarded
  <1>2. Configured /\ MetricsGuarded /\ [Next]_vars => MetricsGuarded'
    <2> SUFFICES ASSUME Configured, MetricsGuarded, [Next]_vars PROVE MetricsGuarded'
      OBVIOUS
    <2>1. CASE UNCHANGED vars
      BY <2>1 DEF vars, MetricsGuarded
    <2>2. ASSUME NEW q \in Requests(env), Gate(q) PROVE MetricsGuarded'
      <3>1. pc' # "scraped"
        BY <2>2 DEF Gate, Answer
      <3> QED
        BY <3>1 DEF MetricsGuarded
    <2>3. CASE Panic \/ Start \/ Resolve \/ ProbeTlsSni \/ NextRequest
      BY <2>3 DEF Panic, Start, Resolve, ProbeTlsSni, NextRequest, MetricsGuarded
    <2> QED
      BY <2>1, <2>2, <2>3, ScrapeGuarded DEF Next
  <1> QED
    BY <1>1, <1>2, AlwaysConfigured, PTL DEF Spec

-----------------------------------------------------------------------------
(* What a release build lets through. *)

\* What Gate, Resolve and ProbeTlsSni have each found out.
Passed ==
    /\ pc \in {"resolving", "probing", "relaying"} =>
          /\ \E q \in Requests(env) : asked = q
          /\ origin_allowed(asked, config.allowed_origins)
          /\ host_allowed(asked, config.allowed_hosts)
          /\ reply.remote.ok /\ check_policy(reply.remote, config.dest) = "Ok"
    /\ pc = "relaying" /\ config.require_protocol_probe /\ probe_for_port(reply.remote.port) = "TlsSni" =>
          Sniffed(asked, reply.remote) = "Ok"

\* A request that goes on to resolve its destination has passed every gate.
LEMMA GatePasses ==
    ASSUME NEW q \in Requests(env), Gate(q)
    PROVE  Passed'
  <1>1. CASE pc' = "resolving"
    <2>1. /\ origin_allowed(q, config.allowed_origins)
          /\ host_allowed(q, config.allowed_hosts)
          /\ parse_remote(q.remote).ok /\ check_policy(parse_remote(q.remote), config.dest) = "Ok"
          /\ asked' = q /\ reply'.remote = parse_remote(q.remote)
          /\ UNCHANGED <<env, config>>
      BY <1>1 DEF Gate, Answer, Reply, process
    <2> QED
      BY <1>1, <2>1 DEF Passed
  <1>2. CASE pc' = "answered"
    BY <1>2 DEF Passed
  <1> QED
    BY <1>1, <1>2 DEF Gate, Answer

\* What the gates decided stays true while the request is resolved and dialed.
LEMMA PassedStep == Passed /\ [Next]_vars => Passed'
  <1> SUFFICES ASSUME Passed, [Next]_vars PROVE Passed'
    OBVIOUS
  <1>1. CASE UNCHANGED vars
    BY <1>1 DEF vars, Passed
  <1>2. CASE Panic \/ Start \/ NextRequest
    BY <1>2 DEF Panic, Start, NextRequest, Passed
  <1>3. CASE Resolve
    <2>1. /\ UNCHANGED <<env, config, asked>> /\ reply'.remote = reply.remote
          /\ pc = "resolving" /\ pc' \in {"answered", "probing", "relaying"}
          /\ pc' = "relaying" =>
                ~(config.require_protocol_probe /\ probe_for_port(reply.remote.port) = "TlsSni")
      BY <1>3 DEF Resolve, Reply, process
    <2> QED
      BY <2>1 DEF Passed
  <1>4. CASE ProbeTlsSni
    <2>1. /\ UNCHANGED <<env, config, asked>> /\ reply'.remote = reply.remote
          /\ pc = "probing" /\ pc' \in {"answered", "relaying"}
          /\ pc' = "relaying" => Sniffed(asked, reply.remote) = "Ok"
      BY <1>4 DEF ProbeTlsSni, Reply, process
    <2> QED
      BY <2>1 DEF Passed
  <1>5. ASSUME NEW s \in Scrapes, Scrape(s) PROVE Passed'
    BY <1>5 DEF Scrape, Passed
  <1> QED
    BY <1>1, <1>2, <1>3, <1>4, <1>5, GatePasses DEF Next

\* A configuration that a release build starts with has no safety errors.
LEMMA StartedSafely ==
    ASSUME Configured, build = "release", env.unsafe # "on", Admitted
    PROVE  /\ config.dest.allowed_ports.any = FALSE
           /\ config.dest.allow_ip_literals = FALSE
           /\ config.require_protocol_probe = TRUE
           /\ config.auth_mode = "Public" => Star \notin config.allowed_origins /\ config.allowed_origins # {}
           /\ \A cap \in Caps : config.number[cap] # 0
  <1>1. config = apply_env(env) /\ public_safety_errors(config) = {}
    BY DEF Configured, Admitted, panics, env_bool
  <1>2. \A cap \in Caps : config.number[cap] # 0
    BY <1>1 DEF public_safety_errors
  <1> DEFINE wrong ==
          [ allowed_ports |-> config.dest.allowed_ports.any,
            allow_private_destinations |-> config.dest.allow_private_destinations,
            allow_ip_literals |-> config.dest.allow_ip_literals,
            require_protocol_probe |-> ~config.require_protocol_probe,
            trusted_proxies |-> config.trust_forwarded_client_ip /\ config.trusted_proxies = {},
            allowed_origins |-> /\ config.auth_mode = "Public"
                                /\ config.allowed_origins = {} \/ Star \in config.allowed_origins ]
  <1>3. \A name \in DOMAIN wrong : ~wrong[name]
    BY <1>1 DEF public_safety_errors
  <1>4. /\ ~config.dest.allowed_ports.any
        /\ ~config.dest.allow_ip_literals
        /\ config.require_protocol_probe
        /\ config.auth_mode = "Public" => Star \notin config.allowed_origins /\ config.allowed_origins # {}
    <2>1. ~wrong["allowed_ports"] /\ ~wrong["allow_ip_literals"] /\ ~wrong["require_protocol_probe"]
             /\ ~wrong["allowed_origins"]
      BY <1>3
    <2> QED
      BY <2>1
  <1> QED
    BY <1>1, <1>2, <1>4

\* The allowed ports are the default ones or ones the environment lists.
LEMMA ListedPorts ==
    ASSUME Configured, pc \notin {"starting", "panicked"}
    PROVE  config.dest.allowed_ports.set \subseteq DEFAULT_ALLOWED_PORTS \cup Listed(env.allowed_ports)
  <1>1. config.dest.allowed_ports =
           IF env.allowed_ports = {} THEN [any |-> FALSE, set |-> DEFAULT_ALLOWED_PORTS]
           ELSE parse_allowed_ports(CHOOSE r \in env.allowed_ports : TRUE)
    <2>1. config = apply_env(env)
      BY DEF Configured
    <2>2. apply_env(env).dest.allowed_ports =
             OrDefault(env.allowed_ports, parse_allowed_ports, [any |-> FALSE, set |-> DEFAULT_ALLOWED_PORTS])
      BY DEF apply_env
    <2> QED
      BY <2>1, <2>2 DEF OrDefault
  <1>2. CASE env.allowed_ports = {}
    BY <1>1, <1>2
  <1>3. CASE env.allowed_ports # {}
    <2> DEFINE raw == CHOOSE r \in env.allowed_ports : TRUE
    <2>1. raw \in env.allowed_ports
      BY <1>3
    <2>2. parse_allowed_ports(raw).set \subseteq DEFAULT_ALLOWED_PORTS \cup raw
      <3> HIDE DEF raw
      <3> DEFINE ports == 1 .. 65535
                 valid == {p \in raw : p \in ports}
                 set == IF raw = {} THEN DEFAULT_ALLOWED_PORTS ELSE valid
      <3>1. parse_allowed_ports(raw) = [any |-> raw = {Wildcard}, set |-> set]
        BY DEF parse_allowed_ports
      <3> HIDE DEF ports
      <3>2. set \subseteq DEFAULT_ALLOWED_PORTS \cup raw
        OBVIOUS
      <3> HIDE DEF set
      <3> QED
        BY <3>1, <3>2
    <2> QED
      BY <1>1, <1>3, <2>1, <2>2 DEF Listed
  <1> QED
    BY <1>2, <1>3

\* The allowed origins are ones the environment lists.
LEMMA ListedOrigins ==
    ASSUME Configured, pc \notin {"starting", "panicked"}
    PROVE  /\ config.allowed_origins \subseteq Listed(env.allowed_origins)
           /\ config.allowed_origins \subseteq Origin
  <1>1. IsEnv(env)
    BY GatewayAssumption DEF Configured
  <1> QED
    BY <1>1, ListsRead DEF Configured

\* Origins that are the same to the gate are the same text.
LEMMA NormalizedIsSame ==
    ASSUME NEW a \in Origin, NEW b \in Origin, normalize_origin(a) = normalize_origin(b)
    PROVE  SameText(a, b)
  <1>1. normalize_origin(a).text = a.text /\ normalize_origin(a).scheme = a.scheme
    BY DEF normalize_origin, Origin
  <1>2. normalize_origin(b).text = b.text /\ normalize_origin(b).scheme = b.scheme
    BY DEF normalize_origin, Origin
  <1>3. a.text = b.text /\ a.scheme = b.scheme
    BY <1>1, <1>2
  <1>4. DOMAIN a = {"text", "scheme", "upper", "dot"} /\ DOMAIN b = {"text", "scheme", "upper", "dot"}
    BY DEF Origin
  <1> QED
    BY <1>3, <1>4 DEF SameText

\* In public mode an admitted page comes from a listed origin.
LEMMA PageIsListed ==
    ASSUME Configured, Passed, build = "release", env.unsafe # "on", Admitted,
           env.auth = "public", NEW o \in asked.origin
    PROVE  \E l \in Listed(env.allowed_origins) : SameText(o, l)
  <1>1. config.auth_mode = "Public"
    BY DEF Configured, Admitted, apply_env, parse_auth_mode
  <1>2. Star \notin config.allowed_origins /\ config.allowed_origins # {}
    BY <1>1, StartedSafely
  <1>3. PICK l \in config.allowed_origins : normalize_origin(l) = normalize_origin(o)
    BY <1>2 DEF Passed, Admitted, origin_allowed
  <1>4. o \in Origin
    <2>1. IsRequest(asked)
      BY GatewayAssumption DEF Passed, Admitted, Configured
    <2> QED
      BY <2>1 DEF IsRequest, IsOption
  <1>5. l \in Origin /\ l \in Listed(env.allowed_origins)
    BY ListedOrigins DEF Admitted
  <1> QED
    BY <1>3, <1>4, <1>5, NormalizedIsSame


-----------------------------------------------------------------------------
(* The Host header. *)

\* The fields of a host that the gate compares.
LEMMA HostFields ==
    ASSUME NEW h \in Host
    PROVE  /\ DOMAIN h = {"text", "port", "upper", "dot", "bracketed"}
           /\ normalize_host(h).text = h.text /\ normalize_host(h).port = h.port
           /\ normalize_host(h).bracketed = h.bracketed
           /\ before_colon(normalize_host(h)).port = 0
           /\ before_colon(normalize_host(h)).text = IF h.bracketed THEN "[" ELSE h.text
           /\ before_colon(normalize_host(h)).bracketed = h.bracketed
  BY DEF Host, normalize_host, before_colon

\* A host that passes for a listed one is that one, on any port or on its own.
LEMMA HostMatches ==
    ASSUME NEW got \in Host, NEW h \in Host,
           normalize_host(h) \in {normalize_host(got), before_colon(normalize_host(got))}
    PROVE  SameText([got EXCEPT !.port = h.port], h) /\ h.port \in {0, got.port}
  <1> DEFINE asListed == [got EXCEPT !.port = h.port]
  <1>1. h.text = got.text /\ h.bracketed = got.bracketed /\ h.port \in {0, got.port}
    <2>1. CASE normalize_host(h) = normalize_host(got)
      BY <2>1, HostFields
    <2>2. CASE normalize_host(h) = before_colon(normalize_host(got))
      <3>1. h.text = (IF got.bracketed THEN "[" ELSE got.text) /\ h.port = 0
               /\ h.bracketed = got.bracketed
        BY <2>2, HostFields
      <3>2. h.text # "["
        BY DEF Host
      <3> QED
        BY <3>1, <3>2
    <2> QED
      BY <2>1, <2>2
  <1>2. /\ DOMAIN asListed = {"text", "port", "upper", "dot", "bracketed"}
        /\ asListed.text = got.text /\ asListed.bracketed = got.bracketed
        /\ asListed.port = h.port
    BY HostFields
  <1> HIDE DEF asListed
  <1>3. SameText(asListed, h)
    BY <1>1, <1>2, HostFields DEF SameText
  <1> QED
    BY <1>1, <1>3 DEF asListed

\* For every allowlist and every Host header: what gets past the gate names a
\* listed host, on the port that was listed with it.
THEOREM HostsAlwaysKnown == Spec => []HostsKnown
  <1>1. Init => Passed
    BY DEF Init, Passed
  <1>2. Configured /\ Passed => HostsKnown
    <2> DEFINE listed == {h \in Listed(env.allowed_hosts) : h.text # Blank}
    <2> SUFFICES ASSUME Configured, Passed, pc \in {"resolving", "probing", "relaying"}, listed # {}
                 PROVE  \E got \in asked.host, h \in listed :
                           SameText([got EXCEPT !.port = h.port], h) /\ h.port \in {0, got.port}
      BY DEF HostsKnown
    <2>1. IsEnv(env) /\ IsRequest(asked)
      BY GatewayAssumption DEF Configured, Passed
    <2>2. config.allowed_hosts = listed /\ listed \subseteq Host
      BY <2>1, ListsRead DEF Configured
    <2> HIDE DEF listed
    <2>3. PICK got \in asked.host, h \in listed :
             normalize_host(h) \in {normalize_host(got), before_colon(normalize_host(got))}
      BY <2>2 DEF Passed, host_allowed
    <2>4. got \in Host /\ h \in Host
      BY <2>1, <2>2, <2>3 DEF IsRequest, IsOption
    <2> QED
      BY <2>3, <2>4, HostMatches
  <1> QED
    BY <1>1, <1>2, PassedStep, AlwaysConfigured, PTL DEF Spec


-----------------------------------------------------------------------------
(* Tokens. *)

\* The reply to a request is about that request.
Recorded ==
    Judged => /\ \E q \in Requests(env) : asked = q
              /\ reply.client = client_ip(asked, asked.peer, config)
              /\ reply.remote = parse_remote(asked.remote)

Verdict(q) == validate_token(proxy_token(q.token, q), q.remote, config, build, q.now, q.later)

\* What the token was found to be, past the gate and in its refusals.
Verified ==
    /\ pc \in {"resolving", "probing", "relaying"} => Verdict(asked) = "Ok"
    /\ pc = "answered" /\ reply.reason = "Unauthorized" => Verdict(asked) = "Unauthorized"

\* Gate writes down the request and the verdict on its token.
LEMMA GateRecords ==
    ASSUME NEW q \in Requests(env), Gate(q)
    PROVE  Recorded' /\ Verified'
  <1>1. /\ asked' = q /\ UNCHANGED process /\ pc' \in {"answered", "resolving"}
        /\ reply'.client = client_ip(q, q.peer, config)
        /\ reply'.remote = parse_remote(q.remote)
    BY DEF Gate, Answer, Reply
  <1>2. Recorded'
    BY <1>1 DEF Recorded, process
  <1>3. Verdict(asked)' = Verdict(q)
    BY <1>1 DEF Verdict, process
  <1>4. check_policy(parse_remote(q.remote), config.dest) # "Unauthorized"
    BY DEF check_policy
  <1>5. /\ pc' = "resolving" => Verdict(q) = "Ok"
        /\ reply'.reason = "Unauthorized" => Verdict(q) = "Unauthorized"
    BY <1>4 DEF Gate, Answer, Reply, Verdict
  <1> QED
    BY <1>1, <1>2, <1>3, <1>5 DEF Verified

\* The resolver and the probe leave the request as it was judged.
LEMMA RecordedStep == Recorded /\ Verified /\ [Next]_vars => Recorded' /\ Verified'
  <1> SUFFICES ASSUME Recorded, Verified, [Next]_vars PROVE Recorded' /\ Verified'
    OBVIOUS
  <1>1. CASE UNCHANGED vars
    BY <1>1 DEF vars, Recorded, Verified, Verdict, Judged
  <1>2. CASE Panic \/ Start \/ NextRequest
    BY <1>2 DEF Panic, Start, NextRequest, Recorded, Verified, Judged
  <1>3. CASE Resolve \/ ProbeTlsSni
    <2>1. /\ UNCHANGED <<build, env, config, asked>>
          /\ reply'.remote = reply.remote /\ reply'.client = reply.client
          /\ reply'.reason # "Unauthorized"
          /\ pc \in {"resolving", "probing"} /\ pc' \in {"answered", "probing", "relaying"}
      BY <1>3 DEF Resolve, ProbeTlsSni, Reply, process
    <2>2. Recorded'
      BY <2>1 DEF Recorded, Judged
    <2>3. Verified'
      BY <2>1 DEF Verified, Verdict
    <2> QED
      BY <2>2, <2>3
  <1>4. ASSUME NEW s \in Scrapes, Scrape(s) PROVE Recorded' /\ Verified'
    BY <1>4 DEF Scrape, Recorded, Verified, Judged
  <1> QED
    BY <1>1, <1>2, <1>3, <1>4, GateRecords DEF Next

\* Every reply is about the request that was asked.
THEOREM AlwaysRecorded == Spec => [](Recorded /\ Verified)
  <1>1. Init => Recorded /\ Verified
    BY DEF Init, Recorded, Verified, Judged
  <1> QED
    BY <1>1, RecordedStep, PTL DEF Spec

\* The first protocol that is a token, if one is.
LEMMA ProtocolToken ==
    ASSUME NEW q, q.protocols \in Seq(Protocol)
    PROVE  LET offered == {p.token : p \in {p \in ToSet(q.protocols) : p.auth}} \ {NoToken}
               t == protocol_token(q)
           IN  /\ t \in Token
               /\ t # NoToken => t \in offered
               /\ t = NoToken => offered = {}
  <1> DEFINE ps == q.protocols
             I == {i \in 1 .. Len(ps) : ps[i].auth /\ ps[i].token # NoToken}
             offered == {p.token : p \in {p \in ToSet(ps) : p.auth}} \ {NoToken}
             t == protocol_token(q)
  <1>1. SelectInSeq(ps, LAMBDA p : p.auth /\ p.token # NoToken) = IF I # {} THEN Min(I) ELSE 0
    BY Zenon DEF SelectInSeq
  <1>2. t = IF I # {} THEN (IF Min(I) = 0 THEN NoToken ELSE ps[Min(I)].token) ELSE NoToken
    <2>1. t = LET i == SelectInSeq(ps, LAMBDA p : p.auth /\ p.token # NoToken)
              IN IF i = 0 THEN NoToken ELSE ps[i].token
      BY Zenon DEF protocol_token
    <2> HIDE DEF I, t
    <2> QED
      BY <1>1, <2>1
  <1>0. Len(ps) \in Nat /\ DOMAIN ps = 1 .. Len(ps)
    OBVIOUS
  <1>3. \A i \in 1 .. Len(ps) : ps[i].token \in Token /\ ps[i] \in ToSet(ps)
    <2>1. \A i \in 1 .. Len(ps) : ps[i] \in Protocol
      OBVIOUS
    <2>2. \A i \in 1 .. Len(ps) : ps[i] \in ToSet(ps)
      BY <1>0 DEF ToSet
    <2> QED
      BY <2>1, <2>2 DEF Protocol
  <1>4. \A p \in ToSet(ps) : \E i \in 1 .. Len(ps) : p = ps[i]
    BY <1>0 DEF ToSet
  <1> HIDE DEF ps
  <1>5. I # {} => Min(I) \in I
    <2>1. I \subseteq Nat
      BY <1>0
    <2> HIDE DEF I
    <2> QED
      BY <2>1, LeastIsMin
  <1>6. CASE I = {}
    <2>1. t = NoToken
      BY <1>2, <1>6
    <2>2. offered = {}
      BY <1>4, <1>6
    <2> QED
      BY <2>1, <2>2 DEF Token, ps
  <1>7. CASE I # {}
    <2> DEFINE i == Min(I)
    <2>1. i \in 1 .. Len(ps) /\ ps[i].auth /\ ps[i].token # NoToken
      BY <1>5, <1>7
    <2>2. t = ps[i].token
      <3>1. i # 0
        BY <1>0, <2>1
      <3> HIDE DEF t
      <3> QED
        BY <1>2, <1>7, <3>1
    <2> HIDE DEF i, t, I
    <2>3. ps[i] \in ToSet(ps) /\ ps[i].token \in Token
      BY <1>3, <2>1
    <2>4. t \in offered
      BY <2>1, <2>2, <2>3
    <2> QED
      BY <2>1, <2>2, <2>3, <2>4 DEF t, ps
  <1> QED
    BY <1>6, <1>7 DEF ps


\* The token that is judged was presented; without one, none was.
LEMMA TokenPresented ==
    ASSUME NEW q, IsRequest(q)
    PROVE  LET t == proxy_token(q.token, q) IN
           /\ t \in Token
           /\ t # NoToken => t \in Presented(q)
           /\ t = NoToken => Presented(q) = {}
  <1> DEFINE t == proxy_token(q.token, q)
             p == protocol_token(q)
             offered == {p1.token : p1 \in {p1 \in ToSet(q.protocols) : p1.auth}} \ {NoToken}
  <1>1. p \in Token /\ (p # NoToken => p \in offered) /\ (p = NoToken => offered = {})
    BY ProtocolToken DEF IsRequest
  <1>2. q.token \in Token /\ q.bearer \in Token
    BY DEF IsRequest
  <1>3. t = IF q.token # NoToken THEN q.token ELSE IF q.bearer # NoToken THEN q.bearer ELSE p
    BY DEF proxy_token
  <1>4. Presented(q) = ({q.token, q.bearer} \ {NoToken}) \cup offered
    BY DEF Presented
  <1> HIDE DEF t, p, offered
  <1> QED
    BY <1>1, <1>2, <1>3, <1>4 DEF t

\* The longest time a token may have left, as the environment has it.
LEMMA MaxTtlRead ==
    ASSUME NEW e, IsEnv(e)
    PROVE  LET ttl == env_number(e.number.paseto_max_ttl, DefaultNumber.paseto_max_ttl) IN
           apply_env(e).number.paseto_max_ttl = ttl /\ ttl \in Nat
  <1> DEFINE number == [n \in DOMAIN DefaultNumber |-> env_number(e.number[n], DefaultNumber[n])]
             ttl == env_number(e.number.paseto_max_ttl, DefaultNumber.paseto_max_ttl)
  <1>1. apply_env(e).number = clamp_prefix(number)
    BY DEF apply_env
  <1>2. "paseto_max_ttl" \in DOMAIN DefaultNumber /\ DefaultNumber.paseto_max_ttl \in Nat
    BY DEF DefaultNumber
  <1>3. number.paseto_max_ttl = ttl
    BY <1>2
  <1>4. clamp_prefix(number).paseto_max_ttl = number.paseto_max_ttl
    BY <1>2 DEF clamp_prefix
  <1>5. ttl \in Nat
    BY <1>2 DEF env_number
  <1> HIDE DEF number, ttl
  <1> QED
    BY <1>1, <1>3, <1>4, <1>5 DEF ttl

\* Where tokens are asked for, a release build takes a token if and only if
\* it entitles to the request.
LEMMA VerdictOfToken ==
    ASSUME Configured, Judged, build = "release", env.auth # "public",
           NEW q, IsRequest(q)
    PROVE  LET t == proxy_token(q.token, q) IN
           /\ t = NoToken => Verdict(q) = "Unauthorized"
           /\ t # NoToken => Verdict(q) = IF Entitles(t, q) THEN "Ok" ELSE "Unauthorized"
  <1> DEFINE t == proxy_token(q.token, q)
             ttl == env_number(env.number.paseto_max_ttl, DefaultNumber.paseto_max_ttl)
             claims == Paseto[t]
  <1>1. IsEnv(env) /\ config = apply_env(env) /\ ~panics(env, build)
    BY GatewayAssumption DEF Configured, Judged
  <1>2. config.auth_mode = "Paseto"
    BY <1>1 DEF apply_env, parse_auth_mode
  <1>3. config.secret_key
    BY <1>1, <1>2 DEF panics
  <1>4. config.number.paseto_max_ttl = ttl /\ ttl \in Nat
    BY <1>1, MaxTtlRead
  <1>5. q.now \in Nat /\ q.later \in Nat
    BY DEF IsRequest
  <1>6. t \in Token
    BY TokenPresented
  <1>7. t # NoToken => claims.exp \in Nat
    BY <1>6, GatewayAssumption DEF Token
  <1> HIDE DEF t, ttl
  <1>8. Verdict(q) = IF t = NoToken THEN "Unauthorized"
                     ELSE IF /\ claims.sealed
                             /\ claims.exp # NoExpiry /\ claims.exp > q.now
                             /\ claims.remote = q.remote
                             /\ ttl # 0 => claims.exp - q.later \in 0 .. ttl
                     THEN "Ok" ELSE "Unauthorized"
    BY <1>2, <1>3, <1>4 DEF Verdict, validate_token, t
  <1>9. Entitles(t, q) <=> /\ claims.sealed /\ claims.remote = q.remote
                           /\ claims.exp > q.now
                           /\ ttl # 0 => q.later <= claims.exp /\ claims.exp <= q.later + ttl
    BY DEF Entitles, ttl
  <1>10. t # NoToken => /\ claims.exp > q.now => claims.exp # NoExpiry
                        /\ claims.exp - q.later \in 0 .. ttl <=>
                              q.later <= claims.exp /\ claims.exp <= q.later + ttl
    BY <1>4, <1>5, <1>7 DEF NoExpiry
  <1> HIDE DEF claims
  <1> QED
    BY <1>8, <1>9, <1>10 DEF t

\* For every token, every environment and every pair of clock readings:
\* where tokens are asked for, a release build lets through exactly the
\* requests whose token was issued for them and is in time.
THEOREM TokensAlwaysBound == Spec => []TokenBound
  <1>1. Configured /\ Recorded /\ Verified => TokenBound
    <2> SUFFICES ASSUME Configured, Recorded, Verified, build = "release", env.auth # "public", Judged
                 PROVE  /\ pc \in {"resolving", "probing", "relaying"} =>
                              \E t \in Presented(asked) : Entitles(t, asked)
                        /\ pc = "answered" /\ reply.reason = "Unauthorized" =>
                              ~ \E t \in Presented(asked) : Presented(asked) = {t} /\ Entitles(t, asked)
      BY DEF TokenBound, Judged
    <2> DEFINE t == proxy_token(asked.token, asked)
    <2>1. IsRequest(asked)
      BY GatewayAssumption DEF Configured, Recorded
    <2>2. /\ t # NoToken => t \in Presented(asked)
          /\ t = NoToken => Presented(asked) = {}
      BY <2>1, TokenPresented
    <2>3. /\ t = NoToken => Verdict(asked) = "Unauthorized"
          /\ t # NoToken => Verdict(asked) = IF Entitles(t, asked) THEN "Ok" ELSE "Unauthorized"
      BY <2>1, VerdictOfToken
    <2> HIDE DEF t
    <2>4. ASSUME pc \in {"resolving", "probing", "relaying"}
          PROVE  \E u \in Presented(asked) : Entitles(u, asked)
      <3>1. Verdict(asked) = "Ok"
        BY <2>4 DEF Verified
      <3> QED
        BY <2>2, <2>3, <3>1
    <2>5. ASSUME pc = "answered", reply.reason = "Unauthorized",
                 NEW u \in Presented(asked), Presented(asked) = {u}, Entitles(u, asked)
          PROVE  FALSE
      <3>1. Verdict(asked) = "Unauthorized"
        BY <2>5 DEF Verified
      <3>2. t = u
        BY <2>2, <2>5
      <3>3. t # NoToken
        BY <2>2, <2>5
      <3> QED
        BY <2>3, <2>5, <3>1, <3>2, <3>3
    <2> QED
      BY <2>4, <2>5
  <1> QED
    BY <1>1, AlwaysConfigured, AlwaysRecorded, PTL


-----------------------------------------------------------------------------
(* Networks, bit by bit.  The provers know powers of two only as numbers,  *)
(* so that one is the double of the one before is looked up for each.      *)

\* A power of two is positive, and the next one is its double.
LEMMA Powers ==
    ASSUME NEW j \in 0 .. 16
    PROVE  2 ^ j \in Nat /\ 2 ^ j > 0 /\ (j # 16 => 2 ^ (j + 1) = 2 * 2 ^ j)
  <1> DEFINE power == [n \in 0 .. 16 |-> 2 ^ n]
  <1>1. \A n \in 0 .. 16 : power[n] = 2 ^ n
    OBVIOUS
  <1>2. /\ power[0] = 1 /\ power[1] = 2 /\ power[2] = 4
        /\ power[3] = 8 /\ power[4] = 16 /\ power[5] = 32
        /\ power[6] = 64 /\ power[7] = 128 /\ power[8] = 256
        /\ power[9] = 512 /\ power[10] = 1024 /\ power[11] = 2048
        /\ power[12] = 4096 /\ power[13] = 8192 /\ power[14] = 16384
        /\ power[15] = 32768 /\ power[16] = 65536
    OBVIOUS
  <1> HIDE DEF power
  <1>3. power[j] \in Nat /\ power[j] > 0 /\ (j # 16 => power[j + 1] = 2 * power[j])
    BY <1>2
  <1>4. j # 16 => j + 1 \in 0 .. 16
    OBVIOUS
  <1> QED
    BY <1>1, <1>3, <1>4

\* Units and a rest.
LEMMA Division ==
    ASSUME NEW x \in Nat, NEW u \in Nat, u > 0, NEW q, q = x \div u, NEW r, r = x % u
    PROVE  q \in Nat /\ r \in 0 .. u - 1 /\ x = u * q + r
  <1>1. r = x - u * q
    OBVIOUS
  <1>2. q \in Nat
    OBVIOUS
  <1>3. r \in 0 .. u - 1
    OBVIOUS
  <1>4. u * q \in Nat
    BY <1>2
  <1>5. x = u * q + r
    BY <1>1, <1>3, <1>4
  <1> QED
    BY <1>2, <1>3, <1>5

\* The quotient is the only one.
LEMMA Quotient ==
    ASSUME NEW x \in Nat, NEW u \in Nat, u > 0, NEW p \in Nat, NEW r \in 0 .. u - 1,
           x = u * p + r
    PROVE  x \div u = p
  OBVIOUS

\* A digit without its rest is as many units as there are in it.
LEMMA MaskedDigit ==
    ASSUME NEW x \in Nat, NEW y \in Nat, NEW u \in Nat, u > 0
    PROVE  x - (x % u) = y - (y % u) <=> x \div u = y \div u
  <1>1. PICK a, r : a = x \div u /\ r = x % u
    OBVIOUS
  <1>2. PICK b, s : b = y \div u /\ s = y % u
    OBVIOUS
  <1>3. a \in Nat /\ r \in 0 .. u - 1 /\ x = u * a + r
    BY <1>1, Division
  <1>4. b \in Nat /\ s \in 0 .. u - 1 /\ y = u * b + s
    BY <1>2, Division
  <1>5. u * a = u * b <=> a = b
    BY <1>3, <1>4
  <1>6. u * a \in Nat /\ u * b \in Nat
    BY <1>3, <1>4
  <1>7. x - r = y - s <=> a = b
    BY <1>3, <1>4, <1>5, <1>6
  <1> QED
    BY <1>1, <1>2, <1>7

\* One more bit of a digit.
LEMMA NextBit ==
    ASSUME NEW x \in Nat, NEW u \in Nat, u > 0,
           NEW q, q = x \div u, NEW p, p = x \div (2 * u)
    PROVE  p \in Nat /\ \E s \in {0, 1} : s = q % 2 /\ q = 2 * p + s
  <1>1. PICK r : r = x % u
    OBVIOUS
  <1>2. q \in Nat /\ r \in 0 .. u - 1 /\ x = u * q + r
    BY <1>1, Division
  <1>3. PICK h \in Nat, s \in {0, 1} : q = 2 * h + s /\ s = q % 2
    BY <1>2
  <1>4. u * q = (2 * u) * h + u * s
    BY <1>3
  <1>5. u * s \in {0, u}
    BY <1>3
  <1>6. u * s + r \in 0 .. 2 * u - 1 /\ 2 * u \in Nat /\ 2 * u > 0
    BY <1>2, <1>5
  <1>7. x = (2 * u) * h + (u * s + r)
    BY <1>2, <1>3, <1>4, <1>5
  <1>8. x \div (2 * u) = h
    BY <1>3, <1>6, <1>7, Quotient
  <1>9. p = h
    BY <1>8, Zenon
  <1>10. q = 2 * p + s
    BY <1>3, <1>9
  <1> QED
    BY <1>2, <1>3, <1>9, <1>10

\* Doubled and a bit more.
LEMMA Doubled ==
    ASSUME NEW a \in Nat, NEW b \in Nat, NEW c \in Nat, NEW d \in Nat,
           \E s \in {0, 1} : s = c % 2 /\ c = 2 * a + s,
           \E s \in {0, 1} : s = d % 2 /\ d = 2 * b + s
    PROVE  c = d <=> a = b /\ c % 2 = d % 2
  <1>1. PICK s \in {0, 1} : s = c % 2 /\ c = 2 * a + s
    OBVIOUS
  <1>2. PICK t \in {0, 1} : t = d % 2 /\ d = 2 * b + t
    OBVIOUS
  <1>3. 2 * a + s = 2 * b + t <=> a = b /\ s = t
    OBVIOUS
  <1> QED
    BY <1>1, <1>2, <1>3

\* Numbers that are built up bit by bit are the same as far as their bits are.
LEMMA BitsAgree ==
    ASSUME NEW w \in Nat, NEW X \in [0 .. w -> Nat], NEW Y \in [0 .. w -> Nat], X[0] = Y[0],
           \A k \in 1 .. w : /\ \E s \in {0, 1} : s = X[k] % 2 /\ X[k] = 2 * X[k - 1] + s
                             /\ \E s \in {0, 1} : s = Y[k] % 2 /\ Y[k] = 2 * Y[k - 1] + s
    PROVE  \A k \in 0 .. w : X[k] = Y[k] <=> \A m \in 1 .. k : X[m] % 2 = Y[m] % 2
  <1>0. ASSUME NEW k \in 1 .. w
        PROVE  X[k] = Y[k] <=> X[k - 1] = Y[k - 1] /\ X[k] % 2 = Y[k] % 2
    <2>1. X[k] \in Nat /\ X[k - 1] \in Nat /\ Y[k] \in Nat /\ Y[k - 1] \in Nat
      OBVIOUS
    <2>2. /\ \E s \in {0, 1} : s = X[k] % 2 /\ X[k] = 2 * X[k - 1] + s
          /\ \E s \in {0, 1} : s = Y[k] % 2 /\ Y[k] = 2 * Y[k - 1] + s
      OBVIOUS
    <2>3. PICK c, d, e, f : c = X[k] /\ d = Y[k] /\ e = X[k - 1] /\ f = Y[k - 1]
      OBVIOUS
    <2>4. /\ c \in Nat /\ d \in Nat /\ e \in Nat /\ f \in Nat
          /\ \E s \in {0, 1} : s = c % 2 /\ c = 2 * e + s
          /\ \E s \in {0, 1} : s = d % 2 /\ d = 2 * f + s
      BY <2>1, <2>2, <2>3, Zenon
    <2>5. c = d <=> e = f /\ c % 2 = d % 2
      BY <2>4, Doubled
    <2> QED
      BY <2>3, <2>5, Zenon
  <1> DEFINE Agree(k) == X[k] = Y[k] <=> \A m \in 1 .. k : X[m] % 2 = Y[m] % 2
             Bad == {k \in 0 .. w : ~Agree(k)}
  <1> SUFFICES ASSUME Bad # {} PROVE FALSE
    OBVIOUS
  <1>1. PICK k \in Bad : \A j \in Bad : k <= j
    <2>1. Bad \subseteq Nat
      OBVIOUS
    <2> HIDE DEF Bad
    <2> QED
      BY <2>1, LeastNatural
  <1>2. k \in 1 .. w
    <2>1. Agree(0)
      OBVIOUS
    <2> QED
      BY <1>1, <2>1
  <1>3. Agree(k - 1)
    <2>1. k - 1 \in 0 .. w /\ ~(k <= k - 1)
      BY <1>2
    <2> HIDE DEF Agree
    <2> QED
      BY <1>1, <2>1
  <1>4. X[k] = Y[k] <=> X[k - 1] = Y[k - 1] /\ X[k] % 2 = Y[k] % 2
    BY <1>0, <1>2
  <1>5. (\A m \in 1 .. k : X[m] % 2 = Y[m] % 2) <=>
           (\A m \in 1 .. k - 1 : X[m] % 2 = Y[m] % 2) /\ X[k] % 2 = Y[k] % 2
    <2> DEFINE B(m) == X[m] % 2 = Y[m] % 2
    <2>1. \A m : m \in 1 .. k <=> m \in 1 .. k - 1 \/ m = k
      BY <1>2, SMTT(40)
    <2> HIDE DEF B
    <2>2. (\A m \in 1 .. k : B(m)) <=> (\A m \in 1 .. k - 1 : B(m)) /\ B(k)
      BY <2>1
    <2> QED
      BY <2>2 DEF B
  <1>6. Agree(k)
    BY <1>3, <1>4, <1>5
  <1> QED
    BY <1>1, <1>6

\* Two digits have the same high bits if and only if they are masked to the same.
LEMMA DigitsAgree ==
    ASSUME NEW w \in {8, 16}, NEW x \in 0 .. 2 ^ w - 1, NEW y \in 0 .. 2 ^ w - 1,
           NEW k \in 0 .. w
    PROVE  x - (x % 2 ^ (w - k)) = y - (y % 2 ^ (w - k)) <=>
              \A m \in 1 .. k : (x \div 2 ^ (w - m)) % 2 = (y \div 2 ^ (w - m)) % 2
  <1> DEFINE U == [n \in 0 .. w |-> 2 ^ (w - n)]
             X == [n \in 0 .. w |-> x \div U[n]]
             Y == [n \in 0 .. w |-> y \div U[n]]
  <1>1. \A n \in 0 .. w : w - n \in 0 .. 16
    OBVIOUS
  <1>2. \A n \in 0 .. w : U[n] = 2 ^ (w - n) /\ U[n] \in Nat /\ U[n] > 0
    BY <1>1, Powers
  <1>3. \A n \in 1 .. w : U[n - 1] = 2 * U[n]
    <2> TAKE n \in 1 .. w
    <2>1. w - n \in 0 .. 16 /\ w - n # 16 /\ w - n + 1 = w - (n - 1) /\ n \in 0 .. w /\ n - 1 \in 0 .. w
      OBVIOUS
    <2>2. 2 ^ (w - n + 1) = 2 * 2 ^ (w - n)
      BY <2>1, Powers
    <2> QED
      BY <1>2, <2>1, <2>2
  <1>4. U[0] = 2 ^ w
    BY <1>2
  <1>5. x \in Nat /\ y \in Nat /\ x \in 0 .. U[0] - 1 /\ y \in 0 .. U[0] - 1
    BY <1>4
  <1> HIDE DEF U
  <1>6. \A n \in 0 .. w : X[n] = x \div U[n] /\ Y[n] = y \div U[n]
    OBVIOUS
  <1>7. DOMAIN X = 0 .. w /\ DOMAIN Y = 0 .. w /\ X = [n \in 0 .. w |-> X[n]] /\ Y = [n \in 0 .. w |-> Y[n]]
    OBVIOUS
  <1> HIDE DEF X, Y
  <1>8. \A n \in 0 .. w : X[n] \in Nat /\ Y[n] \in Nat
    <2> TAKE n \in 0 .. w
    <2>1. PICK r, s : r = x % U[n] /\ s = y % U[n]
      OBVIOUS
    <2> QED
      BY <1>2, <1>5, <1>6, <2>1, Division
  <1>9. X[0] = 0 /\ Y[0] = 0
    <2>1. ASSUME NEW v \in Nat, NEW u \in Nat, v \in 0 .. u - 1 PROVE v \div u = 0
      BY <2>1
    <2>2. U[0] \in Nat /\ X[0] = x \div U[0] /\ Y[0] = y \div U[0]
      BY <1>2, <1>6
    <2>3. x \div U[0] = 0 /\ y \div U[0] = 0
      BY <1>5, <2>1, <2>2
    <2> QED
      BY <2>2, <2>3
  <1>10. \A n \in 1 .. w : /\ \E s \in {0, 1} : s = X[n] % 2 /\ X[n] = 2 * X[n - 1] + s
                           /\ \E s \in {0, 1} : s = Y[n] % 2 /\ Y[n] = 2 * Y[n - 1] + s
    <2> TAKE n \in 1 .. w
    <2>1. n \in 0 .. w /\ n - 1 \in 0 .. w
      OBVIOUS
    <2>2. X[n] = x \div U[n] /\ X[n - 1] = x \div (2 * U[n])
      BY <1>3, <1>6, <2>1
    <2>3. Y[n] = y \div U[n] /\ Y[n - 1] = y \div (2 * U[n])
      BY <1>3, <1>6, <2>1
    <2>4. U[n] \in Nat /\ U[n] > 0
      BY <1>2, <2>1
    <2>5. \E s \in {0, 1} : s = X[n] % 2 /\ X[n] = 2 * X[n - 1] + s
      BY <1>5, <2>2, <2>4, NextBit
    <2>6. \E s \in {0, 1} : s = Y[n] % 2 /\ Y[n] = 2 * Y[n - 1] + s
      BY <1>5, <2>3, <2>4, NextBit
    <2> QED
      BY <2>5, <2>6
  <1>11. X[k] = Y[k] <=> \A m \in 1 .. k : X[m] % 2 = Y[m] % 2
    <2>1. X \in [0 .. w -> Nat] /\ Y \in [0 .. w -> Nat]
      BY <1>7, <1>8
    <2>2. w \in Nat
      OBVIOUS
    <2>3. X[0] = Y[0]
      BY <1>9
    <2>4. \A n \in 0 .. w : X[n] = Y[n] <=> \A m \in 1 .. n : X[m] % 2 = Y[m] % 2
      BY <1>10, <2>1, <2>2, <2>3, BitsAgree, Zenon
    <2> QED
      BY <2>4
  <1>12. x - (x % U[k]) = y - (y % U[k]) <=> X[k] = Y[k]
    <2>1. U[k] \in Nat /\ U[k] > 0 /\ X[k] = x \div U[k] /\ Y[k] = y \div U[k]
      BY <1>2, <1>6
    <2> QED
      BY <1>5, <2>1, MaskedDigit
  <1>13. \A m \in 1 .. k : X[m] = x \div 2 ^ (w - m) /\ Y[m] = y \div 2 ^ (w - m)
    <2> TAKE m \in 1 .. k
    <2>1. m \in 0 .. w
      OBVIOUS
    <2> QED
      BY <1>2, <1>6, <2>1
  <1>14. U[k] = 2 ^ (w - k)
    BY <1>2
  <1> QED
    BY <1>11, <1>12, <1>13, <1>14

DigitWidths == {8, 16}

\* The digit a bit of an address is in, and its place there.
LEMMA PlaceOfBit ==
    ASSUME NEW w \in DigitWidths, NEW L \in Nat, NEW bits \in 0 .. L * w, NEW n \in 1 .. bits,
           NEW i, i = (n - 1) \div w + 1, NEW m, m = ((n - 1) % w) + 1
    PROVE  /\ i \in 1 .. L /\ m \in 1 .. clamp(bits - w * (i - 1), 0, w)
           /\ w - 1 - ((n - 1) % w) = w - m
  <1>1. CASE w = 8
    BY <1>1 DEF clamp
  <1>2. CASE w = 16
    BY <1>2 DEF clamp
  <1> QED
    BY <1>1, <1>2 DEF DigitWidths

\* The bit of an address that is at a place in a digit.
LEMMA BitAtPlace ==
    ASSUME NEW w \in DigitWidths, NEW L \in Nat, NEW bits \in 0 .. L * w, NEW i \in 1 .. L,
           NEW m \in 1 .. clamp(bits - w * (i - 1), 0, w), NEW n, n = w * (i - 1) + m
    PROVE  n \in 1 .. bits /\ (n - 1) \div w + 1 = i /\ ((n - 1) % w) + 1 = m
  <1>1. CASE w = 8
    BY <1>1 DEF clamp
  <1>2. CASE w = 16
    BY <1>2 DEF clamp
  <1> QED
    BY <1>1, <1>2 DEF DigitWidths

\* Masked to the same if and only if the bits are the same.
LEMMA MaskedAgree ==
    ASSUME NEW a \in Address, NEW b \in Address, Len(a) = Len(b),
           NEW bits \in 0 .. Len(a) * DigitBits(a)
    PROVE  Masked(a, bits) = Masked(b, bits) <=> \A n \in 1 .. bits : Bit(a, n) = Bit(b, n)
  <1>1. PICK w \in DigitWidths, L \in Nat :
           /\ DigitBits(a) = w /\ DigitBits(b) = w /\ Len(a) = L /\ Len(b) = L
           /\ \A i \in 1 .. L : a[i] \in 0 .. 2 ^ w - 1 /\ b[i] \in 0 .. 2 ^ w - 1
    <2>1. CASE IsV4(a)
      <3>1. /\ a \in [1 .. 4 -> Octet] /\ Len(a) = 4 /\ DigitBits(a) = 8
            /\ b \in [1 .. 4 -> Octet] /\ Len(b) = 4 /\ DigitBits(b) = 8
        BY <2>1, AddressShape DEF IsV4
      <3>2. \A i \in 1 .. 4 : a[i] \in 0 .. 2 ^ 8 - 1 /\ b[i] \in 0 .. 2 ^ 8 - 1
        BY <3>1 DEF Octet
      <3> QED
        BY <3>1, <3>2, Zenon DEF DigitWidths
    <2>2. CASE ~IsV4(a)
      <3>1. /\ a \in [1 .. 8 -> Segment] /\ Len(a) = 8 /\ DigitBits(a) = 16
            /\ b \in [1 .. 8 -> Segment] /\ Len(b) = 8 /\ DigitBits(b) = 16
        BY <2>2, AddressShape, ZenonT(60) DEF IsV4
      <3>2. \A i \in 1 .. 8 : a[i] \in 0 .. 2 ^ 16 - 1 /\ b[i] \in 0 .. 2 ^ 16 - 1
        BY <3>1, ZenonT(60) DEF Segment
      <3> QED
        BY <3>1, <3>2, Zenon DEF DigitWidths
    <2> QED
      BY <2>1, <2>2
  <1> DEFINE K(i) == clamp(bits - w * (i - 1), 0, w)
             A(i) == a[i] - (a[i] % 2 ^ (w - K(i)))
             B(i) == b[i] - (b[i] % 2 ^ (w - K(i)))
             P(i, m) == (a[i] \div 2 ^ (w - m)) % 2 = (b[i] \div 2 ^ (w - m)) % 2
  <1>2. Masked(a, bits) = [i \in 1 .. L |-> A(i)] /\ Masked(b, bits) = [i \in 1 .. L |-> B(i)]
    BY <1>1, Zenon DEF Masked
  <1>3. bits \in 0 .. L * w /\ \A i \in 1 .. L : K(i) \in 0 .. w
    BY <1>1 DEF clamp, DigitWidths
  <1>4. \A i \in 1 .. L : A(i) = B(i) <=> \A m \in 1 .. K(i) : P(i, m)
    <2> TAKE i \in 1 .. L
    <2>1. a[i] \in 0 .. 2 ^ w - 1 /\ b[i] \in 0 .. 2 ^ w - 1 /\ K(i) \in 0 .. w
      BY <1>1, <1>3
    <2> HIDE DEF K
    <2> QED
      BY <2>1, DigitsAgree, ZenonT(60) DEF DigitWidths
  <1>5. \A n \in 1 .. bits : \A i, m :
           i = (n - 1) \div w + 1 /\ m = ((n - 1) % w) + 1 =>
              /\ i \in 1 .. L /\ m \in 1 .. K(i)
              /\ Bit(a, n) = Bit(b, n) <=> P(i, m)
    <2> TAKE n \in 1 .. bits
    <2> SUFFICES ASSUME NEW i, NEW m, i = (n - 1) \div w + 1, m = ((n - 1) % w) + 1
                 PROVE  /\ i \in 1 .. L /\ m \in 1 .. K(i)
                        /\ Bit(a, n) = Bit(b, n) <=> P(i, m)
      OBVIOUS
    <2>1. i \in 1 .. L /\ m \in 1 .. K(i) /\ w - 1 - ((n - 1) % w) = w - m
      BY <1>3, PlaceOfBit
    <2>2. /\ Bit(a, n) = (a[i] \div 2 ^ (w - m)) % 2
          /\ Bit(b, n) = (b[i] \div 2 ^ (w - m)) % 2
      BY <1>1, <2>1, Zenon DEF Bit
    <2> QED
      BY <2>1, <2>2
  <1>6. \A i \in 1 .. L : \A m \in 1 .. K(i) : \E n \in 1 .. bits :
           (n - 1) \div w + 1 = i /\ ((n - 1) % w) + 1 = m
    <2> TAKE i \in 1 .. L
    <2> TAKE m \in 1 .. K(i)
    <2>1. PICK n : n = w * (i - 1) + m
      OBVIOUS
    <2>2. n \in 1 .. bits /\ (n - 1) \div w + 1 = i /\ ((n - 1) % w) + 1 = m
      BY <1>3, <2>1, BitAtPlace
    <2> QED
      BY <2>2
  <1> HIDE DEF A, B, P, K
  <1>7. Masked(a, bits) = Masked(b, bits) <=> \A i \in 1 .. L : A(i) = B(i)
    BY <1>2
  <1>8. (\A n \in 1 .. bits : Bit(a, n) = Bit(b, n)) <=>
           \A i \in 1 .. L : \A m \in 1 .. K(i) : P(i, m)
    BY <1>5, <1>6, ZenonT(60)
  <1> QED
    BY <1>4, <1>7, <1>8


-----------------------------------------------------------------------------
(* Addresses in their plain form. *)

\* Four octets are an address.
LEMMA FourOctets ==
    ASSUME NEW a \in Octet, NEW b \in Octet, NEW c \in Octet, NEW d \in Octet
    PROVE  /\ <<a, b, c, d>> \in Address /\ IsV4(<<a, b, c, d>>)
           /\ <<a, b, c, d>> # NoIP
  <1>1. <<a, b, c, d>> \in [1 .. 4 -> Octet] /\ Len(<<a, b, c, d>>) = 4
    OBVIOUS
  <1> QED
    BY <1>1 DEF Address, IsV4, NoIP

\* A segment is two octets.
LEMMA SegmentOctets ==
    ASSUME NEW s \in Segment
    PROVE  s \div 256 \in Octet /\ s % 256 \in Octet
  <1>1. s \in Nat /\ s < 65536
    BY DEF Segment
  <1>2. s \div 256 \in Nat /\ s \div 256 < 256
    BY <1>1
  <1>3. s % 256 \in Nat /\ s % 256 < 256
    BY <1>1
  <1> QED
    BY <1>2, <1>3 DEF Octet

\* Two octets are a segment.
LEMMA OctetsSegment ==
    ASSUME NEW a \in Octet, NEW b \in Octet
    PROVE  /\ a * 256 + b \in Segment
           /\ (a * 256 + b) \div 256 = a /\ (a * 256 + b) % 256 = b
  <1>1. a \in Nat /\ a < 256 /\ b \in Nat /\ b < 256
    BY DEF Octet
  <1>2. a * 256 + b \in Nat /\ a * 256 + b < 65536
    BY <1>1
  <1>3. (a * 256 + b) \div 256 = a /\ (a * 256 + b) % 256 = b
    BY <1>1
  <1> QED
    BY <1>2, <1>3 DEF Segment

\* What is unmapped is an address: an IPv4 one, or the same.
LEMMA UnmappedShape ==
    ASSUME NEW ip \in Address
    PROVE  /\ unmapped(ip) \in Address
           /\ IsV4(unmapped(ip)) \/ unmapped(ip) = ip
  <1>1. CASE IsV4(ip) \/ to_ipv4_mapped(ip) = NoIP
    BY <1>1 DEF unmapped
  <1>2. CASE ~IsV4(ip) /\ to_ipv4_mapped(ip) # NoIP
    <2>1. unmapped(ip) = Octets(ip[7], ip[8])
      BY <1>2 DEF unmapped, to_ipv4_mapped
    <2>2. ip[7] \in Segment /\ ip[8] \in Segment
      BY <1>2, AddressShape
    <2> QED
      BY <2>1, <2>2, SegmentOctets, FourOctets DEF Octets
  <1> QED
    BY <1>1, <1>2

\* The shape of an IPv4-mapped address.
LEMMA MappedShape ==
    ASSUME NEW hi \in Segment, NEW lo \in Segment
    PROVE  LET ip == MappedPrefix \o <<hi, lo>> IN
           /\ ip \in [1 .. 8 -> Segment] /\ Len(ip) = 8 /\ ip[7] = hi /\ ip[8] = lo
           /\ SubSeq(ip, 1, 6) = MappedPrefix
  <1> DEFINE M == MappedPrefix
             t == <<hi, lo>>
             ip == M \o t
  <1>1. 0 \in Segment /\ 65535 \in Segment
    BY DEF Segment
  <1>2. M \in Seq(Segment) /\ Len(M) = 6
    BY <1>1 DEF MappedPrefix
  <1>3. t \in Seq(Segment) /\ Len(t) = 2 /\ t[1] = hi /\ t[2] = lo
    OBVIOUS
  <1> HIDE DEF M, t
  <1>4. /\ ip \in Seq(Segment) /\ Len(ip) = Len(M) + Len(t)
        /\ \A i \in 1 .. Len(M) + Len(t) : ip[i] = IF i <= Len(M) THEN M[i] ELSE t[i - Len(M)]
    <2>1. M \in Seq(Segment) /\ t \in Seq(Segment)
      BY <1>2, <1>3
    <2> QED
      BY <2>1, ConcatProperties, Zenon
  <1> HIDE DEF ip
  <1>5. Len(ip) = 8 /\ ip[7] = hi /\ ip[8] = lo /\ \A i \in 1 .. 6 : ip[i] = M[i]
    BY <1>2, <1>3, <1>4
  <1>6. SubSeq(ip, 1, 6) = M
    BY <1>2, <1>4, <1>5
  <1>7. ip \in [1 .. 8 -> Segment]
    BY <1>4, <1>5, LenProperties
  <1> QED
    BY <1>4, <1>5, <1>6, <1>7 DEF ip, M, t

\* The plain form of a client's address is what the code unmaps it to.
LEMMA PlainIsUnmapped ==
    ASSUME NEW c, IsClient(c)
    PROVE  c.ip \in Address /\ unmapped(c.ip) = c.plain
  <1>1. CASE c.plain \in [1 .. 4 -> Octet]
               /\ c.ip = MappedPrefix \o <<c.plain[1] * 256 + c.plain[2], c.plain[3] * 256 + c.plain[4]>>
    <2> DEFINE p == c.plain
               hi == p[1] * 256 + p[2]
               lo == p[3] * 256 + p[4]
               ip == MappedPrefix \o <<hi, lo>>
    <2>1. p[1] \in Octet /\ p[2] \in Octet /\ p[3] \in Octet /\ p[4] \in Octet
      BY <1>1
    <2>2. p = <<p[1], p[2], p[3], p[4]>>
      BY <1>1
    <2>3. /\ hi \in Segment /\ hi \div 256 = p[1] /\ hi % 256 = p[2]
          /\ lo \in Segment /\ lo \div 256 = p[3] /\ lo % 256 = p[4]
      BY <2>1, OctetsSegment
    <2> HIDE DEF p, hi, lo
    <2>4. /\ ip \in [1 .. 8 -> Segment] /\ Len(ip) = 8 /\ ip[7] = hi /\ ip[8] = lo
          /\ SubSeq(ip, 1, 6) = MappedPrefix
      BY <2>3, MappedShape
    <2> HIDE DEF ip
    <2>5. to_ipv4_mapped(ip) = p
      BY <2>2, <2>3, <2>4 DEF to_ipv4_mapped, Octets, MappedPrefix
    <2>6. p # NoIP
      BY <2>1, <2>2, FourOctets
    <2>7. unmapped(ip) = p
      BY <2>4, <2>5, <2>6 DEF unmapped, IsV4
    <2>8. ip \in Address
      BY <2>4 DEF Address
    <2> QED
      BY <1>1, <2>7, <2>8 DEF ip, hi, lo, p
  <1>2. CASE /\ c.plain = c.ip /\ c.ip \in Address
             /\ Len(c.ip) = 8 => SubSeq(c.ip, 1, 6) # MappedPrefix
    <2>1. CASE IsV4(c.ip)
      BY <1>2, <2>1 DEF unmapped
    <2>2. CASE ~IsV4(c.ip)
      <3>1. Len(c.ip) = 8
        BY <1>2, <2>2, AddressShape
      <3>2. to_ipv4_mapped(c.ip) = NoIP
        BY <1>2, <3>1 DEF to_ipv4_mapped, MappedPrefix
      <3> QED
        BY <1>2, <3>2 DEF unmapped
    <2> QED
      BY <1>2, <2>1, <2>2
  <1> QED
    BY <1>1, <1>2 DEF IsClient

\* The same of an address that some client has.
LEMMA KnownIsPlain ==
    ASSUME NEW ip \in Known
    PROVE  /\ ip \in Address /\ Plain(ip) = unmapped(ip)
           /\ Plain(ip) \in Address /\ (IsV4(Plain(ip)) \/ Plain(ip) = ip)
  <1> DEFINE c == CHOOSE c \in Clients : c.ip = ip
  <1>1. c \in Clients /\ c.ip = ip
    BY DEF Known
  <1>2. Plain(ip) = c.plain
    BY DEF Plain
  <1> HIDE DEF c
  <1>3. ip \in Address /\ unmapped(ip) = c.plain
    BY <1>1, PlainIsUnmapped, GatewayAssumption
  <1> QED
    BY <1>2, <1>3, UnmappedShape


-----------------------------------------------------------------------------
(* Budgets. *)

\* Masked addresses are of the length of the addresses.
LEMMA MaskedLength ==
    ASSUME NEW a \in Address, NEW b \in Address, NEW m, NEW n, Masked(a, m) = Masked(b, n)
    PROVE  Len(a) = Len(b)
  <1>1. DOMAIN Masked(a, m) = 1 .. Len(a) /\ DOMAIN Masked(b, n) = 1 .. Len(b)
    BY DEF Masked
  <1>2. Len(a) \in Nat /\ Len(b) \in Nat
    BY AddressShape
  <1> QED
    BY <1>1, <1>2

\* Two addresses are in one network if and only if they mask to the same.
LEMMA NetworkMasked ==
    ASSUME NEW a \in Address, NEW b \in Address, NEW bits \in 0 .. Width(b)
    PROVE  Masked(a, bits) = Masked(b, bits) <=> SameNetwork(a, b, bits)
  <1>1. Len(a) = Len(b) => Width(a) = Width(b)
    BY DEF Width, DigitBits, IsV4
  <1>2. CASE Len(a) = Len(b)
    <2>1. bits \in 0 .. Len(a) * DigitBits(a)
      BY <1>1, <1>2 DEF Width
    <2>2. Masked(a, bits) = Masked(b, bits) <=> \A n \in 1 .. bits : Bit(a, n) = Bit(b, n)
      BY <1>2, <2>1, MaskedAgree
    <2> QED
      BY <1>2, <2>2 DEF SameNetwork
  <1>3. CASE Len(a) # Len(b)
    BY <1>3, MaskedLength DEF SameNetwork
  <1> QED
    BY <1>2, <1>3

\* The key of a client is its plain address without the low bits.
LEMMA KeyOfClient ==
    ASSUME NEW ip \in Address, NEW v4, NEW v6
    PROVE  limit_key(ip, v4, v6) =
              Masked(unmapped(ip), IF IsV4(unmapped(ip)) THEN clamp(v4, 0, 32) ELSE clamp(v6, 0, 128))
  BY UnmappedShape DEF limit_key

\* The prefix lengths that are counted with are those of the environment,
\* or as many bits as there are.
LEMMA PrefixesRead ==
    ASSUME NEW e, IsEnv(e)
    PROVE  LET n == apply_env(e).number
               set(name, max) == IF e.number[name] \in Nat
                                 THEN IF e.number[name] > max THEN max ELSE e.number[name]
                                 ELSE DefaultNumber[name]
           IN  /\ clamp(n.ipv4_prefix, 0, 32) = set("ipv4_prefix", 32)
               /\ clamp(n.ipv6_prefix, 0, 128) = set("ipv6_prefix", 128)
               /\ clamp(n.ipv4_prefix, 0, 32) \in 0 .. 32
               /\ clamp(n.ipv6_prefix, 0, 128) \in 0 .. 128
  <1> DEFINE number == [n \in DOMAIN DefaultNumber |-> env_number(e.number[n], DefaultNumber[n])]
             v4 == env_number(e.number.ipv4_prefix, DefaultNumber.ipv4_prefix)
             v6 == env_number(e.number.ipv6_prefix, DefaultNumber.ipv6_prefix)
  <1>1. apply_env(e).number = clamp_prefix(number)
    BY DEF apply_env
  <1>2. /\ "ipv4_prefix" \in DOMAIN DefaultNumber /\ DefaultNumber.ipv4_prefix = 32
        /\ "ipv6_prefix" \in DOMAIN DefaultNumber /\ DefaultNumber.ipv6_prefix = 64
    BY DEF DefaultNumber
  <1>3. number.ipv4_prefix = v4 /\ number.ipv6_prefix = v6
    BY <1>2
  <1>4. /\ clamp_prefix(number).ipv4_prefix = clamp(number.ipv4_prefix, 0, 32)
        /\ clamp_prefix(number).ipv6_prefix = clamp(number.ipv6_prefix, 0, 128)
    BY <1>2 DEF clamp_prefix
  <1>5. /\ v4 = IF e.number.ipv4_prefix \in Nat THEN e.number.ipv4_prefix ELSE 32
        /\ v6 = IF e.number.ipv6_prefix \in Nat THEN e.number.ipv6_prefix ELSE 64
    BY <1>2 DEF env_number
  <1> HIDE DEF number, v4, v6
  <1>6. v4 \in Nat /\ v6 \in Nat
    BY <1>5
  <1>7. /\ clamp(clamp(v4, 0, 32), 0, 32) = IF v4 > 32 THEN 32 ELSE v4
        /\ clamp(clamp(v6, 0, 128), 0, 128) = IF v6 > 128 THEN 128 ELSE v6
    BY <1>6 DEF clamp
  <1> QED
    BY <1>1, <1>2, <1>3, <1>4, <1>5, <1>6, <1>7


\* The first entry that is an address, if one is.
LEMMA FirstIp ==
    ASSUME NEW entries, Len(entries) \in Nat, DOMAIN entries = 1 .. Len(entries)
    PROVE  LET ip == first_ip(entries) IN
           \/ ip = NoIP /\ \A i \in DOMAIN entries : entries[i] = NoIP
           \/ \E i \in DOMAIN entries : /\ entries[i] = ip /\ ip # NoIP
                                        /\ \A j \in DOMAIN entries : j < i => entries[j] = NoIP
  <1> DEFINE I == {i \in 1 .. Len(entries) : entries[i] # NoIP}
             k == SelectInSeq(entries, LAMBDA ip : ip # NoIP)
  <1>1. k = IF I # {} THEN Min(I) ELSE 0
    BY Zenon DEF SelectInSeq
  <1>2. first_ip(entries) = IF k = 0 THEN NoIP ELSE entries[k]
    BY Zenon DEF first_ip
  <1>3. I \subseteq Nat
    OBVIOUS
  <1> HIDE DEF k
  <1>4. CASE I = {}
    BY <1>1, <1>2, <1>4
  <1>5. CASE I # {}
    <2>1. k \in I /\ \A j \in I : k <= j
      <3> HIDE DEF I
      <3> QED
        BY <1>1, <1>3, <1>5, LeastIsMin
    <2>2. k \in DOMAIN entries /\ k # 0 /\ entries[k] # NoIP
      BY <2>1
    <2>3. \A j \in DOMAIN entries : j < k => entries[j] = NoIP
      BY <2>1
    <2> QED
      BY <1>2, <2>2, <2>3
  <1> QED
    BY <1>4, <1>5

\* The first address that the headers have, in their order and in their own.
LEMMA FirstForwarded ==
    ASSUME NEW q, IsRequest(q)
    PROVE  LET ip == forwarded_client_ip(q)
               h == q.forwarded
           IN  \/ /\ ip = NoIP
                  /\ \A n \in 1 .. 4 : \A i \in DOMAIN h[n] : h[n][i] = NoIP
               \/ /\ ip # NoIP
                  /\ \E n \in 1 .. 4 : \E i \in DOMAIN h[n] :
                        /\ h[n][i] = ip
                        /\ \A j \in DOMAIN h[n] : j < i => h[n][j] = NoIP
                        /\ \A m \in 1 .. 4 : m < n => \A j \in DOMAIN h[m] : h[m][j] = NoIP
  <1> DEFINE h == q.forwarded
             firsts == [name \in DOMAIN h |-> first_ip(h[name])]
             ip == forwarded_client_ip(q)
  <1>1. h \in [1 .. 4 -> Seq(Known \cup {NoIP})]
    BY DEF IsRequest
  <1>2. \A n \in 1 .. 4 : Len(h[n]) \in Nat /\ DOMAIN h[n] = 1 .. Len(h[n])
    BY <1>1
  <1>3. ip = first_ip(firsts)
    BY DEF forwarded_client_ip
  <1>4. DOMAIN firsts = 1 .. 4 /\ \A n \in 1 .. 4 : firsts[n] = first_ip(h[n])
    BY <1>1
  <1>5. Len(firsts) = 4
    <2>1. firsts \in [1 .. 4 -> {first_ip(h[n]) : n \in 1 .. 4}]
      BY <1>1
    <2> HIDE DEF firsts
    <2> QED
      BY <2>1, LenOf
  <1> HIDE DEF firsts, ip, h
  <1>6. \A n \in 1 .. 4 :
           \/ firsts[n] = NoIP /\ \A i \in DOMAIN h[n] : h[n][i] = NoIP
           \/ \E i \in DOMAIN h[n] : /\ h[n][i] = firsts[n] /\ firsts[n] # NoIP
                                     /\ \A j \in DOMAIN h[n] : j < i => h[n][j] = NoIP
    BY <1>2, <1>4, FirstIp
  <1>7. \/ ip = NoIP /\ \A n \in 1 .. 4 : firsts[n] = NoIP
        \/ \E n \in 1 .. 4 : /\ firsts[n] = ip /\ ip # NoIP
                             /\ \A m \in 1 .. 4 : m < n => firsts[m] = NoIP
    <2>1. Len(firsts) \in Nat /\ DOMAIN firsts = 1 .. Len(firsts)
      BY <1>4, <1>5
    <2>2. \/ ip = NoIP /\ \A n \in DOMAIN firsts : firsts[n] = NoIP
          \/ \E n \in DOMAIN firsts : /\ firsts[n] = ip /\ ip # NoIP
                                       /\ \A m \in DOMAIN firsts : m < n => firsts[m] = NoIP
      BY <1>3, <2>1, FirstIp, Zenon
    <2> QED
      BY <1>4, <2>2, Zenon
  <1>8. CASE ip = NoIP /\ \A n \in 1 .. 4 : firsts[n] = NoIP
    <2>1. ip = NoIP /\ \A n \in 1 .. 4 : \A i \in DOMAIN h[n] : h[n][i] = NoIP
      BY <1>6, <1>8
    <2> QED
      BY <2>1 DEF ip, h
  <1>9. CASE \E n \in 1 .. 4 : /\ firsts[n] = ip /\ ip # NoIP
                               /\ \A m \in 1 .. 4 : m < n => firsts[m] = NoIP
    <2>1. PICK n \in 1 .. 4 : /\ firsts[n] = ip /\ ip # NoIP
                              /\ \A m \in 1 .. 4 : m < n => firsts[m] = NoIP
      BY <1>9
    <2>2. PICK i \in DOMAIN h[n] : /\ h[n][i] = ip
                                   /\ \A j \in DOMAIN h[n] : j < i => h[n][j] = NoIP
      BY <1>6, <2>1
    <2>3. \A m \in 1 .. 4 : m < n => \A j \in DOMAIN h[m] : h[m][j] = NoIP
      BY <1>6, <2>1
    <2> QED
      BY <2>1, <2>2, <2>3 DEF ip, h
  <1> QED
    BY <1>7, <1>8, <1>9

\* A request is charged to an address of some client.
LEMMA ChargedIsKnown ==
    ASSUME NEW q, IsRequest(q), NEW c
    PROVE  client_ip(q, q.peer, c) \in Known
  <1>1. q.peer \in Known /\ q.forwarded \in [1 .. 4 -> Seq(Known \cup {NoIP})]
    BY DEF IsRequest
  <1>2. forwarded_client_ip(q) # NoIP => forwarded_client_ip(q) \in Known
    <2> SUFFICES ASSUME forwarded_client_ip(q) # NoIP PROVE forwarded_client_ip(q) \in Known
      OBVIOUS
    <2>1. PICK n \in 1 .. 4 : \E i \in DOMAIN q.forwarded[n] : q.forwarded[n][i] = forwarded_client_ip(q)
      BY FirstForwarded
    <2>2. q.forwarded[n] \in Seq(Known \cup {NoIP})
      BY <1>1
    <2>3. \A i \in DOMAIN q.forwarded[n] : q.forwarded[n][i] \in Known \cup {NoIP}
      BY <2>2
    <2> QED
      BY <2>1, <2>3
  <1> QED
    BY <1>1, <1>2 DEF client_ip

\* For every set of addresses, every prefix length and every header: two
\* clients count against one budget if and only if they are in one network.
THEOREM BudgetAlwaysShared == Spec => []BudgetShared
  <1>1. Configured /\ Recorded => BudgetShared
    <2> SUFFICES ASSUME Configured, Recorded, Judged, NEW other \in Clients
                 PROVE  LET me == Plain(reply.client)
                            bits == PrefixBits(IF IsV4(me) THEN "ipv4_prefix" ELSE "ipv6_prefix", me)
                            key(ip) == limit_key(ip, config.number.ipv4_prefix, config.number.ipv6_prefix)
                        IN key(other.ip) = key(reply.client) <=> SameNetwork(other.plain, me, bits)
      BY DEF BudgetShared
    <2> DEFINE me == Plain(reply.client)
               bits == PrefixBits(IF IsV4(me) THEN "ipv4_prefix" ELSE "ipv6_prefix", me)
               key(ip) == limit_key(ip, config.number.ipv4_prefix, config.number.ipv6_prefix)
               v4 == clamp(config.number.ipv4_prefix, 0, 32)
               v6 == clamp(config.number.ipv6_prefix, 0, 128)
    <2>1. IsEnv(env) /\ IsRequest(asked)
      BY GatewayAssumption DEF Configured, Recorded
    <2>2. reply.client \in Known
      BY <2>1, ChargedIsKnown DEF Recorded
    <2>3. /\ reply.client \in Address /\ unmapped(reply.client) = me /\ me \in Address
          /\ other.ip \in Address /\ unmapped(other.ip) = other.plain /\ other.plain \in Address
      BY <2>2, KnownIsPlain, PlainIsUnmapped, UnmappedShape, GatewayAssumption
    <2>4. config = apply_env(env)
      BY DEF Configured, Judged
    <2>5. v4 \in 0 .. 32 /\ v6 \in 0 .. 128 /\ bits = IF IsV4(me) THEN v4 ELSE v6
      <3>1. Width(me) = IF IsV4(me) THEN 32 ELSE 128
        BY <2>3, AddressShape
      <3> HIDE DEF me
      <3> QED
        BY <2>1, <2>4, <3>1, PrefixesRead DEF PrefixBits
    <2>6. bits \in 0 .. Width(me)
      BY <2>3, <2>5, AddressShape
    <2>7. /\ key(reply.client) = Masked(me, bits)
          /\ key(other.ip) = Masked(other.plain, IF IsV4(other.plain) THEN v4 ELSE v6)
      BY <2>3, <2>5, KeyOfClient
    <2> HIDE DEF me, bits, key, v4, v6
    <2>8. IsV4(other.plain) = IsV4(me) => (key(other.ip) = key(reply.client) <=>
                                              SameNetwork(other.plain, me, bits))
      BY <2>3, <2>5, <2>6, <2>7, NetworkMasked
    <2>9. IsV4(other.plain) # IsV4(me) => /\ key(other.ip) # key(reply.client)
                                          /\ ~SameNetwork(other.plain, me, bits)
      BY <2>3, <2>7, MaskedLength DEF IsV4, SameNetwork
    <2> QED
      BY <2>8, <2>9 DEF me, bits, key, IsV4
  <1> QED
    BY <1>1, AlwaysConfigured, AlwaysRecorded, PTL


-----------------------------------------------------------------------------
(* Proxies. *)

\* A network contains what the entry it was read from stands for.
LEMMA ContainsWhatIsTrusted ==
    ASSUME NEW entry \in Network, NEW ip \in Known
    PROVE  (\E c \in Cidr_parse(entry) : contains(c, ip)) <=> Trusts(entry, ip)
  <1> DEFINE addr == entry.addr
             max == IF IsV4(addr) THEN 32 ELSE 128
             bits == IF entry.bits = Unset THEN max ELSE entry.bits
             p == Plain(ip)
             u == unmapped(addr)
             bothMapped == p # ip /\ u # addr
             few == IF bits > 32 THEN 32 ELSE bits
             same == IF bothMapped THEN SameNetwork(p, u, few)
                     ELSE SameNetwork(IF IsV4(addr) THEN p ELSE ip, addr, bits)
  <1>1. CASE addr = NoIP
    BY <1>1 DEF Cidr_parse, Trusts
  <1>2. CASE addr # NoIP
    <2>1. addr \in Address
      BY <1>2 DEF Network
    <2>2. Width(addr) = max
      BY <2>1, AddressShape
    <2>3. Trusts(entry, ip) <=> bits \in 0 .. max /\ same
      BY <1>2, <2>2 DEF Trusts
    <2>4. Cidr_parse(entry) = IF bits \notin 0 .. max THEN {} ELSE {[addr |-> addr, bits |-> bits]}
      BY <1>2 DEF Cidr_parse
    <2>5. /\ ip \in Address /\ p \in Address /\ unmapped(ip) = p /\ (IsV4(p) \/ p = ip)
          /\ u \in Address /\ (IsV4(u) \/ u = addr)
      BY <2>1, KnownIsPlain, UnmappedShape
    <2>6. IsV4(ip) => p = ip
      BY <2>5 DEF unmapped
    <2>7. IsV4(addr) => u = addr
      BY DEF unmapped
    <2>8. ASSUME bits \in 0 .. max
          PROVE  contains([addr |-> addr, bits |-> bits], ip) <=> same
      <3> DEFINE c == [addr |-> addr, bits |-> bits]
      <3>1. c.addr = addr /\ c.bits = bits
        OBVIOUS
      <3> HIDE DEF c
      <3>2. bits \in 0 .. Width(addr)
        BY <2>2, <2>8
      <3>3. CASE IsV4(addr)
        <4>1. contains(c, ip) <=> IsV4(p) /\ Masked(p, bits) = Masked(addr, bits)
          BY <2>5, <3>1, <3>3 DEF contains, in_network
        <4>2. Masked(p, bits) = Masked(addr, bits) <=> SameNetwork(p, addr, bits)
          BY <2>1, <2>5, <3>2, NetworkMasked
        <4>3. SameNetwork(p, addr, bits) => IsV4(p)
          BY <3>3 DEF SameNetwork, IsV4
        <4> QED
          BY <2>7, <3>3, <4>1, <4>2, <4>3 DEF c
      <3>4. CASE ~IsV4(addr) /\ bothMapped
        <4>1. IsV4(p) /\ IsV4(u) /\ ~IsV4(ip)
          BY <2>5, <2>6, <3>4
        <4>2. max = 128 /\ few \in 0 .. 32 /\ clamp(bits, 0, 32) = few
          BY <2>8, <3>4 DEF clamp
        <4>3. contains(c, ip) <=> Masked(p, few) = Masked(u, few)
          BY <2>5, <3>1, <3>4, <4>1, <4>2 DEF contains, in_network
        <4>4. few \in 0 .. Width(u)
          BY <2>5, <4>1, <4>2, AddressShape
        <4>5. Masked(p, few) = Masked(u, few) <=> SameNetwork(p, u, few)
          BY <2>5, <4>4, NetworkMasked
        <4> QED
          BY <3>4, <4>3, <4>5 DEF c
      <3>5. CASE ~IsV4(addr) /\ ~bothMapped
        <4>1. ~(IsV4(p) /\ IsV4(u) /\ ~IsV4(ip))
          BY <2>5, <3>5
        <4>2. contains(c, ip) <=> ~IsV4(ip) /\ Masked(ip, bits) = Masked(addr, bits)
          BY <2>5, <3>1, <3>5, <4>1 DEF contains, in_network
        <4>3. Masked(ip, bits) = Masked(addr, bits) <=> SameNetwork(ip, addr, bits)
          BY <2>1, <2>5, <3>2, NetworkMasked
        <4>4. SameNetwork(ip, addr, bits) => ~IsV4(ip)
          BY <3>5 DEF SameNetwork, IsV4
        <4> QED
          BY <3>5, <4>2, <4>3, <4>4 DEF c
      <3> QED
        BY <3>3, <3>4, <3>5
    <2> HIDE DEF addr, max, bits, same
    <2> QED
      BY <2>3, <2>4, <2>8
  <1> QED
    BY <1>1, <1>2

\* For every list of trusted proxies, every peer and every set of headers: a
\* request is charged to its peer, or to the first address in the headers
\* of a peer that the operator named as a proxy.
THEOREM PeerAlwaysCharged == Spec => []PeerCharged
  <1>1. Configured /\ Recorded => PeerCharged
    <2> SUFFICES ASSUME Configured, Recorded, Judged PROVE PeerCharged
      BY DEF PeerCharged
    <2> DEFINE h == asked.forwarded
               usable == UNION {{<<name, i>> : i \in {i \in DOMAIN asked.forwarded[name] :
                                                        asked.forwarded[name][i] # NoIP}} :
                                   name \in DOMAIN asked.forwarded}
               proxied == /\ env.flag.trust_forwarded_client_ip = "on"
                          /\ \E entry \in Listed(env.trusted_proxies) : Trusts(entry, asked.peer)
               fwd == forwarded_client_ip(asked)
    <2>1. IsEnv(env) /\ IsRequest(asked) /\ config = apply_env(env)
      BY GatewayAssumption DEF Configured, Recorded, Judged
    <2>2. asked.peer \in Known /\ h \in [1 .. 4 -> Seq(Known \cup {NoIP})]
      BY <2>1 DEF IsRequest
    <2>3. config.trust_forwarded_client_ip <=> env.flag.trust_forwarded_client_ip = "on"
      BY <2>1, SettingsRead
    <2>4. (\E c \in config.trusted_proxies : contains(c, asked.peer)) <=>
             \E entry \in Listed(env.trusted_proxies) : Trusts(entry, asked.peer)
      <3>1. /\ config.trusted_proxies = UNION {Cidr_parse(p) : p \in Listed(env.trusted_proxies)}
            /\ Listed(env.trusted_proxies) \subseteq Network
        BY <2>1, ListsRead
      <3>2. \A entry \in Listed(env.trusted_proxies) :
               (\E c \in Cidr_parse(entry) : contains(c, asked.peer)) <=> Trusts(entry, asked.peer)
        BY <2>2, <3>1, ContainsWhatIsTrusted
      <3> QED
        BY <3>1, <3>2
    <2>5. reply.client = IF proxied /\ fwd # NoIP THEN fwd ELSE asked.peer
      BY <2>3, <2>4 DEF Recorded, client_ip
    <2>6. \A u : u \in usable <=>
             \E n \in 1 .. 4 : \E i \in DOMAIN h[n] : u = <<n, i>> /\ h[n][i] # NoIP
      BY <2>2
    <2>7. \A n \in 1 .. 4 : \A i \in DOMAIN h[n] : i \in Nat
      BY <2>2
    <2> HIDE DEF usable, proxied, fwd
    <2>8. CASE fwd = NoIP
      <3>1. \A n \in 1 .. 4 : \A i \in DOMAIN h[n] : h[n][i] = NoIP
        BY <2>1, <2>8, FirstForwarded DEF fwd
      <3>2. usable = {}
        BY <2>6, <3>1
      <3> QED
        BY <2>5, <2>8, <3>2 DEF PeerCharged, usable, proxied
    <2>9. CASE fwd # NoIP
      <3>1. PICK n \in 1 .. 4 : \E i \in DOMAIN h[n] :
               /\ h[n][i] = fwd
               /\ \A j \in DOMAIN h[n] : j < i => h[n][j] = NoIP
               /\ \A m \in 1 .. 4 : m < n => \A j \in DOMAIN h[m] : h[m][j] = NoIP
        BY <2>1, <2>9, FirstForwarded DEF fwd
      <3>2. PICK i \in DOMAIN h[n] :
               /\ h[n][i] = fwd
               /\ \A j \in DOMAIN h[n] : j < i => h[n][j] = NoIP
               /\ \A m \in 1 .. 4 : m < n => \A j \in DOMAIN h[m] : h[m][j] = NoIP
        BY <3>1
      <3> HIDE DEF h
      <3>3. <<n, i>> \in usable
        BY <2>6, <2>9, <3>2
      <3>4. ASSUME NEW v \in usable PROVE InOrder(<<n, i>>, v)
        <4>1. PICK m \in 1 .. 4 : \E j \in DOMAIN h[m] : v = <<m, j>> /\ h[m][j] # NoIP
          BY <2>6, <3>4
        <4>2. PICK j \in DOMAIN h[m] : v = <<m, j>> /\ h[m][j] # NoIP
          BY <4>1
        <4>3. n < m \/ n = m
          BY <3>2, <4>2
        <4>4. CASE n < m
          BY <4>2, <4>4 DEF InOrder
        <4>5. CASE n = m
          <5>1. i < j \/ i = j
            BY <2>7, <3>2, <4>2, <4>5
          <5> QED
            BY <4>2, <4>5, <5>1 DEF InOrder
        <4> QED
          BY <4>3, <4>4, <4>5
      <3>5. <<n, i>>[1] = n /\ <<n, i>>[2] = i
        OBVIOUS
      <3>6. ASSUME proxied
            PROVE  \E u \in usable : /\ \A v \in usable : InOrder(u, v)
                                     /\ reply.client = h[u[1]][u[2]]
        <4>1. reply.client = h[n][i]
          BY <2>5, <2>9, <3>2, <3>6
        <4> QED
          BY <3>3, <3>4, <3>5, <4>1
      <3> QED
        BY <2>5, <2>9, <3>3, <3>6 DEF PeerCharged, usable, proxied, h
    <2> QED
      BY <2>8, <2>9
  <1> QED
    BY <1>1, AlwaysConfigured, AlwaysRecorded, PTL

-----------------------------------------------------------------------------
(* The special ranges.  A network is compared digit by digit with the      *)
(* first and the last address of the range.                                *)

\* A digit masks to a multiple of the unit if it is in the unit that starts there.
LEMMA DigitInUnit ==
    ASSUME NEW x \in Nat, NEW u \in Nat, u > 0, NEW p \in Nat, NEW n \in Nat, n = u * p
    PROVE  x - (x % u) = n - (n % u) <=> n <= x /\ x < n + u
  <1>1. PICK q, r : q = x \div u /\ r = x % u
    OBVIOUS
  <1>2. q \in Nat /\ r \in 0 .. u - 1 /\ x = u * q + r
    BY <1>1, Division
  <1>3. n \div u = p
    <2>1. 0 \in 0 .. u - 1 /\ n = u * p + 0
      OBVIOUS
    <2> QED
      BY <2>1, Quotient
  <1>4. x - (x % u) = n - (n % u) <=> q = p
    BY <1>1, <1>3, MaskedDigit
  <1>5. q = p => n <= x /\ x < n + u
    BY <1>2
  <1>6. ASSUME n <= x, x < n + u PROVE q = p
    <2>1. x - n \in 0 .. u - 1 /\ x = u * p + (x - n)
      BY <1>6
    <2>2. x \div u = p
      BY <2>1, Quotient
    <2> QED
      BY <1>1, <2>2
  <1> QED
    BY <1>4, <1>5, <1>6

\* A network's digits are multiples of the units its mask leaves.
InUnits(net, n, w, bits, u, p) ==
    \A i \in 1 .. n : /\ u[i] > 0 /\ net[i] = u[i] * p[i]
                      /\ 2 ^ (w - clamp(bits - w * (i - 1), 0, w)) = u[i]

\* An address is in a network if each of its digits is in the network's unit.
LEMMA NetworkDigits ==
    ASSUME NEW n \in Nat, NEW ip \in [1 .. n -> Nat], NEW net \in [1 .. n -> Nat],
           NEW w \in Nat, Len(ip) = n, Len(net) = n, DigitBits(ip) = w, DigitBits(net) = w,
           NEW bits \in Nat, NEW u \in [1 .. n -> Nat], NEW p \in [1 .. n -> Nat],
           InUnits(net, n, w, bits, u, p)
    PROVE  in_network(ip, net, bits) <=> \A i \in 1 .. n : net[i] <= ip[i] /\ ip[i] < net[i] + u[i]
  <1> USE DEF InUnits
  <1>1. /\ Masked(ip, bits) = [i \in 1 .. n |-> ip[i] - (ip[i] % u[i])]
        /\ Masked(net, bits) = [i \in 1 .. n |-> net[i] - (net[i] % u[i])]
    BY Zenon DEF Masked
  <1>2. in_network(ip, net, bits) <=>
           \A i \in 1 .. n : ip[i] - (ip[i] % u[i]) = net[i] - (net[i] % u[i])
    BY <1>1, Zenon DEF in_network
  <1>3. ASSUME NEW i \in 1 .. n
        PROVE  ip[i] - (ip[i] % u[i]) = net[i] - (net[i] % u[i])
                  <=> net[i] <= ip[i] /\ ip[i] < net[i] + u[i]
    <2>1. ip[i] \in Nat /\ net[i] \in Nat /\ u[i] \in Nat /\ u[i] > 0 /\ p[i] \in Nat
          /\ net[i] = u[i] * p[i]
      OBVIOUS
    <2> QED
      BY <2>1, DigitInUnit
  <1> QED
    BY <1>2, <1>3, Zenon

\* What leaves no rest is a number of units.
LEMMA WholeUnits ==
    ASSUME NEW x \in Nat, NEW u \in Nat, u > 0, x % u = 0
    PROVE  \E p \in Nat : x = u * p
  <1>1. PICK q, r : q = x \div u /\ r = x % u
    OBVIOUS
  <1>2. q \in Nat /\ x = u * q + r
    BY <1>1, Division
  <1>3. u * q \in Nat /\ r = 0
    BY <1>1, <1>2
  <1> QED
    BY <1>2, <1>3

\* A network, with the units that its mask leaves of its octets.
NetworkOf4(na, nb, nc, nd, bits, ua, ub, uc, ud) ==
    /\ na \in Octet /\ nb \in Octet /\ nc \in Octet /\ nd \in Octet /\ bits \in Nat
    /\ ua \in Nat \ {0} /\ ub \in Nat \ {0} /\ uc \in Nat \ {0} /\ ud \in Nat \ {0}
    /\ 2 ^ (8 - clamp(bits, 0, 8)) = ua /\ 2 ^ (8 - clamp(bits - 8, 0, 8)) = ub
    /\ 2 ^ (8 - clamp(bits - 16, 0, 8)) = uc /\ 2 ^ (8 - clamp(bits - 24, 0, 8)) = ud
    /\ na % ua = 0 /\ nb % ub = 0 /\ nc % uc = 0 /\ nd % ud = 0

\* What is in an IPv4 network.
LEMMA NetworkV4 ==
    ASSUME NEW a \in Octet, NEW b \in Octet, NEW c \in Octet, NEW d \in Octet,
           NEW na, NEW nb, NEW nc, NEW nd, NEW bits, NEW ua, NEW ub, NEW uc, NEW ud,
           NetworkOf4(na, nb, nc, nd, bits, ua, ub, uc, ud)
    PROVE  in_network(<<a, b, c, d>>, <<na, nb, nc, nd>>, bits) <=>
              /\ na <= a /\ a < na + ua /\ nb <= b /\ b < nb + ub
              /\ nc <= c /\ c < nc + uc /\ nd <= d /\ d < nd + ud
  <1>0. /\ na \in Nat /\ nb \in Nat /\ nc \in Nat /\ nd \in Nat
        /\ ua \in Nat /\ ub \in Nat /\ uc \in Nat /\ ud \in Nat
        /\ ua > 0 /\ ub > 0 /\ uc > 0 /\ ud > 0
    BY DEF Octet, NetworkOf4
  <1>z. bits \in Nat /\ na % ua = 0 /\ nb % ub = 0 /\ nc % uc = 0 /\ nd % ud = 0
    BY DEF NetworkOf4
  <1>a. PICK pa \in Nat : na = ua * pa
    BY <1>0, <1>z, WholeUnits
  <1>b. PICK pb \in Nat : nb = ub * pb
    BY <1>0, <1>z, WholeUnits
  <1>c. PICK pk \in Nat : nc = uc * pk
    BY <1>0, <1>z, WholeUnits
  <1>d. PICK pd \in Nat : nd = ud * pd
    BY <1>0, <1>z, WholeUnits
  <1> DEFINE ip == <<a, b, c, d>>
             net == <<na, nb, nc, nd>>
             u == <<ua, ub, uc, ud>>
             p == <<pa, pb, pk, pd>>
  <1>1. /\ ip \in [1 .. 4 -> Nat] /\ net \in [1 .. 4 -> Nat] /\ Len(ip) = 4 /\ Len(net) = 4
        /\ u \in [1 .. 4 -> Nat] /\ p \in [1 .. 4 -> Nat]
    BY DEF Octet, NetworkOf4
  <1>2. DigitBits(ip) = 8 /\ DigitBits(net) = 8
    BY <1>1 DEF DigitBits, IsV4
  <1>3. ASSUME NEW i \in 1 .. 4
        PROVE  /\ u[i] > 0 /\ net[i] = u[i] * p[i]
               /\ 2 ^ (8 - clamp(bits - 8 * (i - 1), 0, 8)) = u[i]
    <2>1. i = 1 \/ i = 2 \/ i = 3 \/ i = 4
      OBVIOUS
    <2>2. /\ bits - 8 * (1 - 1) = bits /\ bits - 8 * (2 - 1) = bits - 8
          /\ bits - 8 * (3 - 1) = bits - 16 /\ bits - 8 * (4 - 1) = bits - 24
      BY <1>z
    <2>3. CASE i = 1
      BY <2>2, <2>3, <1>a DEF NetworkOf4
    <2>4. CASE i = 2
      BY <2>2, <2>4, <1>b DEF NetworkOf4
    <2>5. CASE i = 3
      BY <2>2, <2>5, <1>c DEF NetworkOf4
    <2>6. CASE i = 4
      BY <2>2, <2>6, <1>d DEF NetworkOf4
    <2> QED
      BY <2>1, <2>3, <2>4, <2>5, <2>6
  <1>4. in_network(ip, net, bits) <=>
           \A i \in 1 .. 4 : net[i] <= ip[i] /\ ip[i] < net[i] + u[i]
    <2> HIDE DEF ip, net, u, p
    <2>1. 4 \in Nat /\ 8 \in Nat
      OBVIOUS
    <2>2. InUnits(net, 4, 8, bits, u, p)
      BY <1>3, Zenon DEF InUnits
    <2> QED
      BY <1>1, <1>2, <1>z, <2>1, <2>2, NetworkDigits
  <1> QED
    BY <1>4

Ordered(a, b, c, d, e, f, g, h) ==
    a < e \/ (a = e /\ (b < f \/ (b = f /\ (c < g \/ (c = g /\ d <= h)))))

\* Addresses of four digits in order.
LEMMA InOrderV4 ==
    ASSUME NEW a \in Int, NEW b \in Int, NEW c \in Int, NEW d \in Int,
           NEW e \in Int, NEW f \in Int, NEW g \in Int, NEW h \in Int
    PROVE  InOrder(<<a, b, c, d>>, <<e, f, g, h>>) <=> Ordered(a, b, c, d, e, f, g, h)
  <1> DEFINE x == <<a, b, c, d>>
             y == <<e, f, g, h>>
             Less(i) == x[i] < y[i] /\ \A j \in 1 .. i - 1 : x[j] = y[j]
  <1>1. DOMAIN x = {1, 2, 3, 4} /\ (x = y <=> a = e /\ b = f /\ c = g /\ d = h)
    OBVIOUS
  <1>2. Less(1) <=> a < e
    OBVIOUS
  <1>3. Less(2) <=> b < f /\ a = e
    OBVIOUS
  <1>4. Less(3) <=> c < g /\ a = e /\ b = f
    OBVIOUS
  <1>5. Less(4) <=> d < h /\ a = e /\ b = f /\ c = g
    OBVIOUS
  <1>6. InOrder(x, y) <=> x = y \/ \E i \in DOMAIN x : Less(i)
    BY DEF InOrder
  <1> HIDE DEF x, y, Less
  <1>7. InOrder(x, y) <=> x = y \/ Less(1) \/ Less(2) \/ Less(3) \/ Less(4)
    BY <1>1, <1>6
  <1>8. InOrder(x, y) <=> a < e \/ (a = e /\ (b < f \/ (b = f /\ (c < g \/ (c = g /\ d <= h)))))
    BY <1>1, <1>2, <1>3, <1>4, <1>5, <1>7
  <1> QED
    BY <1>8 DEF x, y, Ordered
\* The IPv4 networks, with their units.
LEMMA NetworksV4 ==
    /\ NetworkOf4(0, 0, 0, 0, 32, 1, 1, 1, 1)
    /\ NetworkOf4(127, 0, 0, 0, 8, 1, 256, 256, 256)
    /\ NetworkOf4(10, 0, 0, 0, 8, 1, 256, 256, 256)
    /\ NetworkOf4(172, 16, 0, 0, 12, 1, 16, 256, 256)
    /\ NetworkOf4(192, 168, 0, 0, 16, 1, 1, 256, 256)
    /\ NetworkOf4(169, 254, 0, 0, 16, 1, 1, 256, 256)
    /\ NetworkOf4(255, 255, 255, 255, 32, 1, 1, 1, 1)
    /\ NetworkOf4(192, 0, 2, 0, 24, 1, 1, 1, 256)
    /\ NetworkOf4(198, 51, 100, 0, 24, 1, 1, 1, 256)
    /\ NetworkOf4(203, 0, 113, 0, 24, 1, 1, 1, 256)
    /\ NetworkOf4(224, 0, 0, 0, 4, 16, 256, 256, 256)
    /\ NetworkOf4(0, 0, 0, 0, 8, 1, 256, 256, 256)
    /\ NetworkOf4(100, 64, 0, 0, 10, 1, 64, 256, 256)
    /\ NetworkOf4(192, 0, 0, 0, 24, 1, 1, 1, 256)
    /\ NetworkOf4(198, 18, 0, 0, 15, 1, 2, 256, 256)
    /\ NetworkOf4(240, 0, 0, 0, 4, 16, 256, 256, 256)
  BY DEF NetworkOf4, clamp, Octet

\* The networks that is_global_v4 excludes, digit by digit.
LEMMA ExcludedV4 ==
    ASSUME NEW a \in Octet, NEW b \in Octet, NEW c \in Octet, NEW d \in Octet
    PROVE  /\ in_network(<<a, b, c, d>>, <<0, 0, 0, 0>>, 32) <=> a = 0 /\ b = 0 /\ c = 0 /\ d = 0
           /\ in_network(<<a, b, c, d>>, <<127, 0, 0, 0>>, 8) <=> a = 127
           /\ in_network(<<a, b, c, d>>, <<10, 0, 0, 0>>, 8) <=> a = 10
           /\ in_network(<<a, b, c, d>>, <<172, 16, 0, 0>>, 12) <=> a = 172 /\ 16 <= b /\ b <= 31
           /\ in_network(<<a, b, c, d>>, <<192, 168, 0, 0>>, 16) <=> a = 192 /\ b = 168
           /\ in_network(<<a, b, c, d>>, <<169, 254, 0, 0>>, 16) <=> a = 169 /\ b = 254
           /\ in_network(<<a, b, c, d>>, <<255, 255, 255, 255>>, 32) <=> a = 255 /\ b = 255 /\ c = 255 /\ d = 255
           /\ in_network(<<a, b, c, d>>, <<192, 0, 2, 0>>, 24) <=> a = 192 /\ b = 0 /\ c = 2
           /\ in_network(<<a, b, c, d>>, <<198, 51, 100, 0>>, 24) <=> a = 198 /\ b = 51 /\ c = 100
           /\ in_network(<<a, b, c, d>>, <<203, 0, 113, 0>>, 24) <=> a = 203 /\ b = 0 /\ c = 113
           /\ in_network(<<a, b, c, d>>, <<224, 0, 0, 0>>, 4) <=> 224 <= a /\ a <= 239
           /\ in_network(<<a, b, c, d>>, <<0, 0, 0, 0>>, 8) <=> a = 0
           /\ in_network(<<a, b, c, d>>, <<100, 64, 0, 0>>, 10) <=> a = 100 /\ 64 <= b /\ b <= 127
           /\ in_network(<<a, b, c, d>>, <<192, 0, 0, 0>>, 24) <=> a = 192 /\ b = 0 /\ c = 0
           /\ in_network(<<a, b, c, d>>, <<198, 18, 0, 0>>, 15) <=> a = 198 /\ 18 <= b /\ b <= 19
           /\ in_network(<<a, b, c, d>>, <<240, 0, 0, 0>>, 4) <=> 240 <= a
  <1>0. a \in 0 .. 255 /\ b \in 0 .. 255 /\ c \in 0 .. 255 /\ d \in 0 .. 255
    BY DEF Octet
  <1>1. in_network(<<a, b, c, d>>, <<0, 0, 0, 0>>, 32) <=>
           /\ 0 <= a /\ a < 0 + 1 /\ 0 <= b /\ b < 0 + 1
           /\ 0 <= c /\ c < 0 + 1 /\ 0 <= d /\ d < 0 + 1
    BY NetworksV4, NetworkV4
  <1>2. in_network(<<a, b, c, d>>, <<127, 0, 0, 0>>, 8) <=>
           /\ 127 <= a /\ a < 127 + 1 /\ 0 <= b /\ b < 0 + 256
           /\ 0 <= c /\ c < 0 + 256 /\ 0 <= d /\ d < 0 + 256
    BY NetworksV4, NetworkV4
  <1>3. in_network(<<a, b, c, d>>, <<10, 0, 0, 0>>, 8) <=>
           /\ 10 <= a /\ a < 10 + 1 /\ 0 <= b /\ b < 0 + 256
           /\ 0 <= c /\ c < 0 + 256 /\ 0 <= d /\ d < 0 + 256
    BY NetworksV4, NetworkV4
  <1>4. in_network(<<a, b, c, d>>, <<172, 16, 0, 0>>, 12) <=>
           /\ 172 <= a /\ a < 172 + 1 /\ 16 <= b /\ b < 16 + 16
           /\ 0 <= c /\ c < 0 + 256 /\ 0 <= d /\ d < 0 + 256
    BY NetworksV4, NetworkV4
  <1>5. in_network(<<a, b, c, d>>, <<192, 168, 0, 0>>, 16) <=>
           /\ 192 <= a /\ a < 192 + 1 /\ 168 <= b /\ b < 168 + 1
           /\ 0 <= c /\ c < 0 + 256 /\ 0 <= d /\ d < 0 + 256
    BY NetworksV4, NetworkV4
  <1>6. in_network(<<a, b, c, d>>, <<169, 254, 0, 0>>, 16) <=>
           /\ 169 <= a /\ a < 169 + 1 /\ 254 <= b /\ b < 254 + 1
           /\ 0 <= c /\ c < 0 + 256 /\ 0 <= d /\ d < 0 + 256
    BY NetworksV4, NetworkV4
  <1>7. in_network(<<a, b, c, d>>, <<255, 255, 255, 255>>, 32) <=>
           /\ 255 <= a /\ a < 255 + 1 /\ 255 <= b /\ b < 255 + 1
           /\ 255 <= c /\ c < 255 + 1 /\ 255 <= d /\ d < 255 + 1
    BY NetworksV4, NetworkV4
  <1>8. in_network(<<a, b, c, d>>, <<192, 0, 2, 0>>, 24) <=>
           /\ 192 <= a /\ a < 192 + 1 /\ 0 <= b /\ b < 0 + 1
           /\ 2 <= c /\ c < 2 + 1 /\ 0 <= d /\ d < 0 + 256
    BY NetworksV4, NetworkV4
  <1>9. in_network(<<a, b, c, d>>, <<198, 51, 100, 0>>, 24) <=>
           /\ 198 <= a /\ a < 198 + 1 /\ 51 <= b /\ b < 51 + 1
           /\ 100 <= c /\ c < 100 + 1 /\ 0 <= d /\ d < 0 + 256
    BY NetworksV4, NetworkV4
  <1>10. in_network(<<a, b, c, d>>, <<203, 0, 113, 0>>, 24) <=>
           /\ 203 <= a /\ a < 203 + 1 /\ 0 <= b /\ b < 0 + 1
           /\ 113 <= c /\ c < 113 + 1 /\ 0 <= d /\ d < 0 + 256
    BY NetworksV4, NetworkV4
  <1>11. in_network(<<a, b, c, d>>, <<224, 0, 0, 0>>, 4) <=>
           /\ 224 <= a /\ a < 224 + 16 /\ 0 <= b /\ b < 0 + 256
           /\ 0 <= c /\ c < 0 + 256 /\ 0 <= d /\ d < 0 + 256
    BY NetworksV4, NetworkV4
  <1>12. in_network(<<a, b, c, d>>, <<0, 0, 0, 0>>, 8) <=>
           /\ 0 <= a /\ a < 0 + 1 /\ 0 <= b /\ b < 0 + 256
           /\ 0 <= c /\ c < 0 + 256 /\ 0 <= d /\ d < 0 + 256
    BY NetworksV4, NetworkV4
  <1>13. in_network(<<a, b, c, d>>, <<100, 64, 0, 0>>, 10) <=>
           /\ 100 <= a /\ a < 100 + 1 /\ 64 <= b /\ b < 64 + 64
           /\ 0 <= c /\ c < 0 + 256 /\ 0 <= d /\ d < 0 + 256
    BY NetworksV4, NetworkV4
  <1>14. in_network(<<a, b, c, d>>, <<192, 0, 0, 0>>, 24) <=>
           /\ 192 <= a /\ a < 192 + 1 /\ 0 <= b /\ b < 0 + 1
           /\ 0 <= c /\ c < 0 + 1 /\ 0 <= d /\ d < 0 + 256
    BY NetworksV4, NetworkV4
  <1>15. in_network(<<a, b, c, d>>, <<198, 18, 0, 0>>, 15) <=>
           /\ 198 <= a /\ a < 198 + 1 /\ 18 <= b /\ b < 18 + 2
           /\ 0 <= c /\ c < 0 + 256 /\ 0 <= d /\ d < 0 + 256
    BY NetworksV4, NetworkV4
  <1>16. in_network(<<a, b, c, d>>, <<240, 0, 0, 0>>, 4) <=>
           /\ 240 <= a /\ a < 240 + 16 /\ 0 <= b /\ b < 0 + 256
           /\ 0 <= c /\ c < 0 + 256 /\ 0 <= d /\ d < 0 + 256
    BY NetworksV4, NetworkV4
  <1> QED
    BY <1>0, <1>1, <1>2, <1>3, <1>4, <1>5, <1>6, <1>7, <1>8, <1>9, <1>10, <1>11, <1>12, <1>13, <1>14, <1>15, <1>16
\* The special IPv4 ranges, digit by digit.
LEMMA RangesV4 ==
    ASSUME NEW a \in Octet, NEW b \in Octet, NEW c \in Octet, NEW d \in Octet
    PROVE  Within(<<a, b, c, d>>, SpecialV4) <=>
              \/ a = 0
              \/ a = 10
              \/ a = 100 /\ 64 <= b /\ b <= 127
              \/ a = 127
              \/ a = 169 /\ b = 254
              \/ a = 172 /\ 16 <= b /\ b <= 31
              \/ a = 192 /\ b = 0 /\ c = 0
              \/ a = 192 /\ b = 0 /\ c = 2
              \/ a = 192 /\ b = 168
              \/ a = 198 /\ 18 <= b /\ b <= 19
              \/ a = 198 /\ b = 51 /\ c = 100
              \/ a = 203 /\ b = 0 /\ c = 113
              \/ 224 <= a
  <1> DEFINE x == <<a, b, c, d>>
             In(r) == InOrder(r[1], x) /\ InOrder(x, r[2])
  <1>0. a \in 0 .. 255 /\ b \in 0 .. 255 /\ c \in 0 .. 255 /\ d \in 0 .. 255
    BY DEF Octet
  <1>1. In(<<<<0, 0, 0, 0>>, <<0, 255, 255, 255>>>>) <=> a = 0
    <2>1. In(<<<<0, 0, 0, 0>>, <<0, 255, 255, 255>>>>) <=>
             Ordered(0, 0, 0, 0, a, b, c, d) /\ Ordered(a, b, c, d, 0, 255, 255, 255)
      BY <1>0, InOrderV4
    <2> QED
      BY <1>0, <2>1 DEF Ordered
  <1>2. In(<<<<10, 0, 0, 0>>, <<10, 255, 255, 255>>>>) <=> a = 10
    <2>1. In(<<<<10, 0, 0, 0>>, <<10, 255, 255, 255>>>>) <=>
             Ordered(10, 0, 0, 0, a, b, c, d) /\ Ordered(a, b, c, d, 10, 255, 255, 255)
      BY <1>0, InOrderV4
    <2> QED
      BY <1>0, <2>1 DEF Ordered
  <1>3. In(<<<<100, 64, 0, 0>>, <<100, 127, 255, 255>>>>) <=> a = 100 /\ 64 <= b /\ b <= 127
    <2>1. In(<<<<100, 64, 0, 0>>, <<100, 127, 255, 255>>>>) <=>
             Ordered(100, 64, 0, 0, a, b, c, d) /\ Ordered(a, b, c, d, 100, 127, 255, 255)
      BY <1>0, InOrderV4, SMTT(40)
    <2> QED
      BY <1>0, <2>1 DEF Ordered
  <1>4. In(<<<<127, 0, 0, 0>>, <<127, 255, 255, 255>>>>) <=> a = 127
    <2>1. In(<<<<127, 0, 0, 0>>, <<127, 255, 255, 255>>>>) <=>
             Ordered(127, 0, 0, 0, a, b, c, d) /\ Ordered(a, b, c, d, 127, 255, 255, 255)
      BY <1>0, InOrderV4, SMTT(40)
    <2> QED
      BY <1>0, <2>1 DEF Ordered
  <1>5. In(<<<<169, 254, 0, 0>>, <<169, 254, 255, 255>>>>) <=> a = 169 /\ b = 254
    <2>1. In(<<<<169, 254, 0, 0>>, <<169, 254, 255, 255>>>>) <=>
             Ordered(169, 254, 0, 0, a, b, c, d) /\ Ordered(a, b, c, d, 169, 254, 255, 255)
      BY <1>0, InOrderV4, SMTT(40)
    <2> QED
      BY <1>0, <2>1 DEF Ordered
  <1>6. In(<<<<172, 16, 0, 0>>, <<172, 31, 255, 255>>>>) <=> a = 172 /\ 16 <= b /\ b <= 31
    <2>1. In(<<<<172, 16, 0, 0>>, <<172, 31, 255, 255>>>>) <=>
             Ordered(172, 16, 0, 0, a, b, c, d) /\ Ordered(a, b, c, d, 172, 31, 255, 255)
      BY <1>0, InOrderV4, SMTT(40)
    <2> QED
      BY <1>0, <2>1 DEF Ordered
  <1>7. In(<<<<192, 0, 0, 0>>, <<192, 0, 0, 255>>>>) <=> a = 192 /\ b = 0 /\ c = 0
    <2>1. In(<<<<192, 0, 0, 0>>, <<192, 0, 0, 255>>>>) <=>
             Ordered(192, 0, 0, 0, a, b, c, d) /\ Ordered(a, b, c, d, 192, 0, 0, 255)
      BY <1>0, InOrderV4, SMTT(40)
    <2> QED
      BY <1>0, <2>1 DEF Ordered
  <1>8. In(<<<<192, 0, 2, 0>>, <<192, 0, 2, 255>>>>) <=> a = 192 /\ b = 0 /\ c = 2
    <2>1. In(<<<<192, 0, 2, 0>>, <<192, 0, 2, 255>>>>) <=>
             Ordered(192, 0, 2, 0, a, b, c, d) /\ Ordered(a, b, c, d, 192, 0, 2, 255)
      BY <1>0, InOrderV4, SMTT(40)
    <2> QED
      BY <1>0, <2>1 DEF Ordered
  <1>9. In(<<<<192, 168, 0, 0>>, <<192, 168, 255, 255>>>>) <=> a = 192 /\ b = 168
    <2>1. In(<<<<192, 168, 0, 0>>, <<192, 168, 255, 255>>>>) <=>
             Ordered(192, 168, 0, 0, a, b, c, d) /\ Ordered(a, b, c, d, 192, 168, 255, 255)
      BY <1>0, InOrderV4, SMTT(40)
    <2> QED
      BY <1>0, <2>1 DEF Ordered
  <1>10. In(<<<<198, 18, 0, 0>>, <<198, 19, 255, 255>>>>) <=> a = 198 /\ 18 <= b /\ b <= 19
    <2>1. In(<<<<198, 18, 0, 0>>, <<198, 19, 255, 255>>>>) <=>
             Ordered(198, 18, 0, 0, a, b, c, d) /\ Ordered(a, b, c, d, 198, 19, 255, 255)
      BY <1>0, InOrderV4, SMTT(40)
    <2> QED
      BY <1>0, <2>1 DEF Ordered
  <1>11. In(<<<<198, 51, 100, 0>>, <<198, 51, 100, 255>>>>) <=> a = 198 /\ b = 51 /\ c = 100
    <2>1. In(<<<<198, 51, 100, 0>>, <<198, 51, 100, 255>>>>) <=>
             Ordered(198, 51, 100, 0, a, b, c, d) /\ Ordered(a, b, c, d, 198, 51, 100, 255)
      BY <1>0, InOrderV4, SMTT(40)
    <2> QED
      BY <1>0, <2>1 DEF Ordered
  <1>12. In(<<<<203, 0, 113, 0>>, <<203, 0, 113, 255>>>>) <=> a = 203 /\ b = 0 /\ c = 113
    <2>1. In(<<<<203, 0, 113, 0>>, <<203, 0, 113, 255>>>>) <=>
             Ordered(203, 0, 113, 0, a, b, c, d) /\ Ordered(a, b, c, d, 203, 0, 113, 255)
      BY <1>0, InOrderV4, SMTT(40)
    <2> QED
      BY <1>0, <2>1 DEF Ordered
  <1>13. In(<<<<224, 0, 0, 0>>, <<255, 255, 255, 255>>>>) <=> 224 <= a
    <2>1. In(<<<<224, 0, 0, 0>>, <<255, 255, 255, 255>>>>) <=>
             Ordered(224, 0, 0, 0, a, b, c, d) /\ Ordered(a, b, c, d, 255, 255, 255, 255)
      BY <1>0, InOrderV4, SMTT(40)
    <2> QED
      BY <1>0, <2>1 DEF Ordered
  <1>14. Within(x, SpecialV4) <=>
            \/ In(<<<<0, 0, 0, 0>>, <<0, 255, 255, 255>>>>)
            \/ In(<<<<10, 0, 0, 0>>, <<10, 255, 255, 255>>>>)
            \/ In(<<<<100, 64, 0, 0>>, <<100, 127, 255, 255>>>>)
            \/ In(<<<<127, 0, 0, 0>>, <<127, 255, 255, 255>>>>)
            \/ In(<<<<169, 254, 0, 0>>, <<169, 254, 255, 255>>>>)
            \/ In(<<<<172, 16, 0, 0>>, <<172, 31, 255, 255>>>>)
            \/ In(<<<<192, 0, 0, 0>>, <<192, 0, 0, 255>>>>)
            \/ In(<<<<192, 0, 2, 0>>, <<192, 0, 2, 255>>>>)
            \/ In(<<<<192, 168, 0, 0>>, <<192, 168, 255, 255>>>>)
            \/ In(<<<<198, 18, 0, 0>>, <<198, 19, 255, 255>>>>)
            \/ In(<<<<198, 51, 100, 0>>, <<198, 51, 100, 255>>>>)
            \/ In(<<<<203, 0, 113, 0>>, <<203, 0, 113, 255>>>>)
            \/ In(<<<<224, 0, 0, 0>>, <<255, 255, 255, 255>>>>)
    <2>1. Within(x, SpecialV4) <=> \E r \in SpecialV4 : In(r)
      BY Zenon DEF Within
    <2> HIDE DEF x, In
    <2> QED
      BY <2>1 DEF SpecialV4
  <1> HIDE DEF In, x
  <1> QED
    BY <1>1, <1>2, <1>3, <1>4, <1>5, <1>6, <1>7, <1>8, <1>9, <1>10, <1>11, <1>12, <1>13, <1>14 DEF x

\* is_global_v4 leaves out the ranges of SpecialV4, and nothing else.
LEMMA GlobalV4 ==
    ASSUME NEW a \in Octet, NEW b \in Octet, NEW c \in Octet, NEW d \in Octet
    PROVE  is_global_v4(<<a, b, c, d>>) <=> ~Within(<<a, b, c, d>>, SpecialV4)
  <1> DEFINE x == <<a, b, c, d>>
             In(net) == in_network(x, net[1], net[2])
  <1>1. a \in 0 .. 255 /\ b \in 0 .. 255 /\ c \in 0 .. 255 /\ d \in 0 .. 255
    BY DEF Octet
  <1>2. ~is_global_v4(x) <=>
            \/ In(<<<<0, 0, 0, 0>>, 32>>)
            \/ In(<<<<127, 0, 0, 0>>, 8>>)
            \/ In(<<<<10, 0, 0, 0>>, 8>>)
            \/ In(<<<<172, 16, 0, 0>>, 12>>)
            \/ In(<<<<192, 168, 0, 0>>, 16>>)
            \/ In(<<<<169, 254, 0, 0>>, 16>>)
            \/ In(<<<<255, 255, 255, 255>>, 32>>)
            \/ In(<<<<192, 0, 2, 0>>, 24>>)
            \/ In(<<<<198, 51, 100, 0>>, 24>>)
            \/ In(<<<<203, 0, 113, 0>>, 24>>)
            \/ In(<<<<224, 0, 0, 0>>, 4>>)
            \/ In(<<<<0, 0, 0, 0>>, 8>>)
            \/ In(<<<<100, 64, 0, 0>>, 10>>)
            \/ In(<<<<192, 0, 0, 0>>, 24>>)
            \/ In(<<<<198, 18, 0, 0>>, 15>>)
            \/ In(<<<<240, 0, 0, 0>>, 4>>)
    <2>1. ~is_global_v4(x) <=> \E net \in NotGlobalV4 : In(net)
      BY Zenon DEF is_global_v4
    <2> HIDE DEF x, In
    <2> QED
      BY <2>1 DEF NotGlobalV4
  <1>3. /\ In(<<<<0, 0, 0, 0>>, 32>>) <=> in_network(<<a, b, c, d>>, <<0, 0, 0, 0>>, 32)
        /\ In(<<<<127, 0, 0, 0>>, 8>>) <=> in_network(<<a, b, c, d>>, <<127, 0, 0, 0>>, 8)
        /\ In(<<<<10, 0, 0, 0>>, 8>>) <=> in_network(<<a, b, c, d>>, <<10, 0, 0, 0>>, 8)
        /\ In(<<<<172, 16, 0, 0>>, 12>>) <=> in_network(<<a, b, c, d>>, <<172, 16, 0, 0>>, 12)
        /\ In(<<<<192, 168, 0, 0>>, 16>>) <=> in_network(<<a, b, c, d>>, <<192, 168, 0, 0>>, 16)
        /\ In(<<<<169, 254, 0, 0>>, 16>>) <=> in_network(<<a, b, c, d>>, <<169, 254, 0, 0>>, 16)
        /\ In(<<<<255, 255, 255, 255>>, 32>>) <=> in_network(<<a, b, c, d>>, <<255, 255, 255, 255>>, 32)
        /\ In(<<<<192, 0, 2, 0>>, 24>>) <=> in_network(<<a, b, c, d>>, <<192, 0, 2, 0>>, 24)
        /\ In(<<<<198, 51, 100, 0>>, 24>>) <=> in_network(<<a, b, c, d>>, <<198, 51, 100, 0>>, 24)
        /\ In(<<<<203, 0, 113, 0>>, 24>>) <=> in_network(<<a, b, c, d>>, <<203, 0, 113, 0>>, 24)
        /\ In(<<<<224, 0, 0, 0>>, 4>>) <=> in_network(<<a, b, c, d>>, <<224, 0, 0, 0>>, 4)
        /\ In(<<<<0, 0, 0, 0>>, 8>>) <=> in_network(<<a, b, c, d>>, <<0, 0, 0, 0>>, 8)
        /\ In(<<<<100, 64, 0, 0>>, 10>>) <=> in_network(<<a, b, c, d>>, <<100, 64, 0, 0>>, 10)
        /\ In(<<<<192, 0, 0, 0>>, 24>>) <=> in_network(<<a, b, c, d>>, <<192, 0, 0, 0>>, 24)
        /\ In(<<<<198, 18, 0, 0>>, 15>>) <=> in_network(<<a, b, c, d>>, <<198, 18, 0, 0>>, 15)
        /\ In(<<<<240, 0, 0, 0>>, 4>>) <=> in_network(<<a, b, c, d>>, <<240, 0, 0, 0>>, 4)
    OBVIOUS
  <1> HIDE DEF In, x
  <1>4. ~is_global_v4(x) <=>
            \/ a = 0
            \/ a = 10
            \/ a = 100 /\ 64 <= b /\ b <= 127
            \/ a = 127
            \/ a = 169 /\ b = 254
            \/ a = 172 /\ 16 <= b /\ b <= 31
            \/ a = 192 /\ b = 0 /\ c = 0
            \/ a = 192 /\ b = 0 /\ c = 2
            \/ a = 192 /\ b = 168
            \/ a = 198 /\ 18 <= b /\ b <= 19
            \/ a = 198 /\ b = 51 /\ c = 100
            \/ a = 203 /\ b = 0 /\ c = 113
            \/ 224 <= a
    BY <1>1, <1>2, <1>3, ExcludedV4, SMTT(40)
  <1> QED
    BY <1>4, RangesV4 DEF x

\* An IPv6 network of at most 64 bits, with the units of its first segments.
NetworkOf8(na, nb, nc, nd, bits, ua, ub, uc, ud) ==
    /\ na \in Segment /\ nb \in Segment /\ nc \in Segment /\ nd \in Segment /\ bits \in 0 .. 64
    /\ ua \in Nat \ {0} /\ ub \in Nat \ {0} /\ uc \in Nat \ {0} /\ ud \in Nat \ {0}
    /\ 2 ^ (16 - clamp(bits, 0, 16)) = ua /\ 2 ^ (16 - clamp(bits - 16, 0, 16)) = ub
    /\ 2 ^ (16 - clamp(bits - 32, 0, 16)) = uc /\ 2 ^ (16 - clamp(bits - 48, 0, 16)) = ud
    /\ na % ua = 0 /\ nb % ub = 0 /\ nc % uc = 0 /\ nd % ud = 0

\* A segment is a number of sixteen bits.
LEMMA SegmentIs == \A s : s \in Segment <=> s \in Nat /\ s < 65536
  <1>1. \A s : s \in Segment <=> s \in Int /\ 0 <= s /\ s <= 2 ^ 16 - 1
    BY DEF Segment
  <1>2. 2 ^ 16 - 1 = 65535
    OBVIOUS
  <1> QED
    BY <1>1, <1>2

\* What is in such a network.
LEMMA NetworkV6 ==
    ASSUME NEW ip \in [1 .. 8 -> Segment],
           NEW na, NEW nb, NEW nc, NEW nd, NEW bits, NEW ua, NEW ub, NEW uc, NEW ud,
           NetworkOf8(na, nb, nc, nd, bits, ua, ub, uc, ud)
    PROVE  in_network(ip, <<na, nb, nc, nd, 0, 0, 0, 0>>, bits) <=>
              /\ na <= ip[1] /\ ip[1] < na + ua /\ nb <= ip[2] /\ ip[2] < nb + ub
              /\ nc <= ip[3] /\ ip[3] < nc + uc /\ nd <= ip[4] /\ ip[4] < nd + ud
  <1>0. /\ na \in Nat /\ nb \in Nat /\ nc \in Nat /\ nd \in Nat
        /\ ua \in Nat /\ ub \in Nat /\ uc \in Nat /\ ud \in Nat
        /\ ua > 0 /\ ub > 0 /\ uc > 0 /\ ud > 0
    BY SegmentIs DEF NetworkOf8
  <1>z. /\ bits \in Nat /\ bits <= 64
        /\ na % ua = 0 /\ nb % ub = 0 /\ nc % uc = 0 /\ nd % ud = 0
    BY DEF NetworkOf8
  <1>a. PICK pa \in Nat : na = ua * pa
    BY <1>0, <1>z, WholeUnits
  <1>b. PICK pb \in Nat : nb = ub * pb
    BY <1>0, <1>z, WholeUnits
  <1>c. PICK pk \in Nat : nc = uc * pk
    BY <1>0, <1>z, WholeUnits
  <1>d. PICK pd \in Nat : nd = ud * pd
    BY <1>0, <1>z, WholeUnits
  <1>e. PICK all : all = 2 ^ 16
    OBVIOUS
  <1>f. all = 65536 /\ all \in Nat /\ all > 0
    BY <1>e
  <1> DEFINE net == <<na, nb, nc, nd, 0, 0, 0, 0>>
             u == <<ua, ub, uc, ud, all, all, all, all>>
             p == <<pa, pb, pk, pd, 0, 0, 0, 0>>
  <1>1. /\ ip \in [1 .. 8 -> Nat] /\ Len(ip) = 8
        /\ \A i \in 1 .. 8 : ip[i] < all
    <2>1. Len(ip) = 8
      BY LenOf
    <2> QED
      BY <2>1, <1>f, SegmentIs
  <1>2. net \in [1 .. 8 -> Nat] /\ Len(net) = 8 /\ u \in [1 .. 8 -> Nat] /\ p \in [1 .. 8 -> Nat]
    BY <1>0, <1>f
  <1>3. DigitBits(ip) = 16 /\ DigitBits(net) = 16
    BY <1>1, <1>2 DEF DigitBits, IsV4
  <1>4. ASSUME NEW i \in 1 .. 8
        PROVE  /\ u[i] > 0 /\ net[i] = u[i] * p[i]
               /\ 2 ^ (16 - clamp(bits - 16 * (i - 1), 0, 16)) = u[i]
    <2>1. i \in {5, 6, 7, 8} \/ i = 1 \/ i = 2 \/ i = 3 \/ i = 4
      OBVIOUS
    <2>2. /\ bits - 16 * (1 - 1) = bits /\ bits - 16 * (2 - 1) = bits - 16
          /\ bits - 16 * (3 - 1) = bits - 32 /\ bits - 16 * (4 - 1) = bits - 48
      BY <1>z
    <2>3. CASE i = 1
      BY <2>2, <2>3, <1>a DEF NetworkOf8
    <2>4. CASE i = 2
      BY <2>2, <2>4, <1>b DEF NetworkOf8
    <2>5. CASE i = 3
      BY <2>2, <2>5, <1>c DEF NetworkOf8
    <2>6. CASE i = 4
      BY <2>2, <2>6, <1>d DEF NetworkOf8
    <2>7. CASE i \in {5, 6, 7, 8}
      <3>1. clamp(bits - 16 * (i - 1), 0, 16) = 0
        BY <1>z, <2>7 DEF clamp
      <3>2. 16 - clamp(bits - 16 * (i - 1), 0, 16) = 16
        BY <3>1
      <3>3. u[i] = all /\ net[i] = 0 /\ p[i] = 0
        BY <2>7
      <3>4. u[i] > 0 /\ net[i] = u[i] * p[i]
        <4> HIDE DEF u, net, p
        <4> QED
          BY <1>f, <3>3
      <3> HIDE DEF u, net, p
      <3> QED
        BY <1>e, <3>2, <3>3, <3>4, Zenon
    <2> QED
      BY <2>1, <2>3, <2>4, <2>5, <2>6, <2>7
  <1>5. in_network(ip, net, bits) <=>
           \A i \in 1 .. 8 : net[i] <= ip[i] /\ ip[i] < net[i] + u[i]
    <2> HIDE DEF net, u, p
    <2>1. 8 \in Nat /\ 16 \in Nat
      OBVIOUS
    <2>2. InUnits(net, 8, 16, bits, u, p)
      BY <1>4, Zenon DEF InUnits
    <2> QED
      BY <1>1, <1>2, <1>3, <1>z, <2>1, <2>2, NetworkDigits
  <1>6. \A i \in 5 .. 8 : net[i] = 0 /\ u[i] = all /\ ip[i] \in Nat /\ ip[i] < all
    BY <1>1
  <1>7. /\ net[1] = na /\ net[2] = nb /\ net[3] = nc /\ net[4] = nd
        /\ u[1] = ua /\ u[2] = ub /\ u[3] = uc /\ u[4] = ud
    OBVIOUS
  <1>8. \A i \in 1 .. 8 : i \in 5 .. 8 \/ i = 1 \/ i = 2 \/ i = 3 \/ i = 4
    OBVIOUS
  <1> HIDE DEF net, u
  <1>9. in_network(ip, net, bits) <=>
              /\ na <= ip[1] /\ ip[1] < na + ua /\ nb <= ip[2] /\ ip[2] < nb + ub
              /\ nc <= ip[3] /\ ip[3] < nc + uc /\ nd <= ip[4] /\ ip[4] < nd + ud
    BY <1>f, <1>5, <1>6, <1>7, <1>8
  <1> QED
    BY <1>9 DEF net

\* The IPv6 networks, with their units.
LEMMA NetworksV6 ==
    /\ NetworkOf8(65280, 0, 0, 0, 8, 256, 65536, 65536, 65536)
    /\ NetworkOf8(65152, 0, 0, 0, 10, 64, 65536, 65536, 65536)
    /\ NetworkOf8(64512, 0, 0, 0, 7, 512, 65536, 65536, 65536)
    /\ NetworkOf8(8193, 0, 0, 0, 23, 1, 512, 65536, 65536)
    /\ NetworkOf8(8193, 3512, 0, 0, 32, 1, 1, 65536, 65536)
    /\ NetworkOf8(256, 0, 0, 0, 64, 1, 1, 1, 1)
    /\ NetworkOf8(100, 65435, 1, 0, 48, 1, 1, 1, 65536)
  BY SegmentIs DEF NetworkOf8, clamp

\* The networks that is_global_v6 excludes, digit by digit.
LEMMA ExcludedV6 ==
    ASSUME NEW ip \in [1 .. 8 -> Segment], NEW a, NEW b, NEW c, NEW d,
           a = ip[1], b = ip[2], c = ip[3], d = ip[4]
    PROVE  /\ in_network(ip, <<65280, 0, 0, 0, 0, 0, 0, 0>>, 8) <=> 65280 <= a
           /\ in_network(ip, <<65152, 0, 0, 0, 0, 0, 0, 0>>, 10) <=> 65152 <= a /\ a <= 65215
           /\ in_network(ip, <<64512, 0, 0, 0, 0, 0, 0, 0>>, 7) <=> 64512 <= a /\ a <= 65023
           /\ in_network(ip, <<8193, 0, 0, 0, 0, 0, 0, 0>>, 23) <=> a = 8193 /\ b <= 511
           /\ in_network(ip, <<8193, 3512, 0, 0, 0, 0, 0, 0>>, 32) <=> a = 8193 /\ b = 3512
           /\ in_network(ip, <<256, 0, 0, 0, 0, 0, 0, 0>>, 64) <=> a = 256 /\ b = 0 /\ c = 0 /\ d = 0
           /\ in_network(ip, <<100, 65435, 1, 0, 0, 0, 0, 0>>, 48) <=> a = 100 /\ b = 65435 /\ c = 1
  <1>0. /\ a \in Nat /\ b \in Nat /\ c \in Nat /\ d \in Nat
        /\ a < 65536 /\ b < 65536 /\ c < 65536 /\ d < 65536
    BY SegmentIs
  <1>1. in_network(ip, <<65280, 0, 0, 0, 0, 0, 0, 0>>, 8) <=>
           /\ 65280 <= ip[1] /\ ip[1] < 65280 + 256 /\ 0 <= ip[2] /\ ip[2] < 0 + 65536
           /\ 0 <= ip[3] /\ ip[3] < 0 + 65536 /\ 0 <= ip[4] /\ ip[4] < 0 + 65536
    BY NetworksV6, NetworkV6
  <1>2. in_network(ip, <<65152, 0, 0, 0, 0, 0, 0, 0>>, 10) <=>
           /\ 65152 <= ip[1] /\ ip[1] < 65152 + 64 /\ 0 <= ip[2] /\ ip[2] < 0 + 65536
           /\ 0 <= ip[3] /\ ip[3] < 0 + 65536 /\ 0 <= ip[4] /\ ip[4] < 0 + 65536
    BY NetworksV6, NetworkV6
  <1>3. in_network(ip, <<64512, 0, 0, 0, 0, 0, 0, 0>>, 7) <=>
           /\ 64512 <= ip[1] /\ ip[1] < 64512 + 512 /\ 0 <= ip[2] /\ ip[2] < 0 + 65536
           /\ 0 <= ip[3] /\ ip[3] < 0 + 65536 /\ 0 <= ip[4] /\ ip[4] < 0 + 65536
    BY NetworksV6, NetworkV6
  <1>4. in_network(ip, <<8193, 0, 0, 0, 0, 0, 0, 0>>, 23) <=>
           /\ 8193 <= ip[1] /\ ip[1] < 8193 + 1 /\ 0 <= ip[2] /\ ip[2] < 0 + 512
           /\ 0 <= ip[3] /\ ip[3] < 0 + 65536 /\ 0 <= ip[4] /\ ip[4] < 0 + 65536
    BY NetworksV6, NetworkV6
  <1>5. in_network(ip, <<8193, 3512, 0, 0, 0, 0, 0, 0>>, 32) <=>
           /\ 8193 <= ip[1] /\ ip[1] < 8193 + 1 /\ 3512 <= ip[2] /\ ip[2] < 3512 + 1
           /\ 0 <= ip[3] /\ ip[3] < 0 + 65536 /\ 0 <= ip[4] /\ ip[4] < 0 + 65536
    BY NetworksV6, NetworkV6
  <1>6. in_network(ip, <<256, 0, 0, 0, 0, 0, 0, 0>>, 64) <=>
           /\ 256 <= ip[1] /\ ip[1] < 256 + 1 /\ 0 <= ip[2] /\ ip[2] < 0 + 1
           /\ 0 <= ip[3] /\ ip[3] < 0 + 1 /\ 0 <= ip[4] /\ ip[4] < 0 + 1
    BY NetworksV6, NetworkV6
  <1>7. in_network(ip, <<100, 65435, 1, 0, 0, 0, 0, 0>>, 48) <=>
           /\ 100 <= ip[1] /\ ip[1] < 100 + 1 /\ 65435 <= ip[2] /\ ip[2] < 65435 + 1
           /\ 1 <= ip[3] /\ ip[3] < 1 + 1 /\ 0 <= ip[4] /\ ip[4] < 0 + 65536
    BY NetworksV6, NetworkV6
  <1> QED
    BY <1>0, <1>1, <1>2, <1>3, <1>4, <1>5, <1>6, <1>7

Ordered3(a, b, c, e, f, g) == a < e \/ (a = e /\ (b < f \/ (b = f /\ c <= g)))

\* Three segments in order.
LEMMA InOrderV6 ==
    ASSUME NEW a \in Int, NEW b \in Int, NEW c \in Int, NEW e \in Int, NEW f \in Int, NEW g \in Int
    PROVE  InOrder(<<a, b, c>>, <<e, f, g>>) <=> Ordered3(a, b, c, e, f, g)
  <1> DEFINE x == <<a, b, c>>
             y == <<e, f, g>>
             Less(i) == x[i] < y[i] /\ \A j \in 1 .. i - 1 : x[j] = y[j]
  <1>1. DOMAIN x = {1, 2, 3} /\ (x = y <=> a = e /\ b = f /\ c = g)
    OBVIOUS
  <1>2. Less(1) <=> a < e
    OBVIOUS
  <1>3. Less(2) <=> b < f /\ a = e
    OBVIOUS
  <1>4. Less(3) <=> c < g /\ a = e /\ b = f
    OBVIOUS
  <1>5. InOrder(x, y) <=> x = y \/ \E i \in DOMAIN x : Less(i)
    BY DEF InOrder
  <1> HIDE DEF x, y, Less
  <1>6. InOrder(x, y) <=> x = y \/ Less(1) \/ Less(2) \/ Less(3)
    BY <1>1, <1>5
  <1>7. InOrder(x, y) <=> a < e \/ (a = e /\ (b < f \/ (b = f /\ c <= g)))
    BY <1>1, <1>2, <1>3, <1>4, <1>6
  <1> QED
    BY <1>7 DEF x, y, Ordered3

\* The special IPv6 ranges, digit by digit.
LEMMA RangesV6 ==
    ASSUME NEW a \in Segment, NEW b \in Segment, NEW c \in Segment
    PROVE  Within(<<a, b, c>>, SpecialV6) <=>
              \/ a = 100 /\ b = 65435 /\ c = 1
              \/ a = 8193 /\ b <= 511
              \/ a = 8193 /\ b = 3512
              \/ 64512 <= a /\ a <= 65023
              \/ 65152 <= a /\ a <= 65215
              \/ 65280 <= a
  <1> DEFINE x == <<a, b, c>>
             In(r) == InOrder(r[1], x) /\ InOrder(x, r[2])
  <1>0. /\ a \in Nat /\ b \in Nat /\ c \in Nat
        /\ a < 65536 /\ b < 65536 /\ c < 65536
    BY SegmentIs
  <1>1. In(<<<<100, 65435, 1>>, <<100, 65435, 1>>>>) <=> a = 100 /\ b = 65435 /\ c = 1
    <2>1. In(<<<<100, 65435, 1>>, <<100, 65435, 1>>>>) <=>
             Ordered3(100, 65435, 1, a, b, c) /\ Ordered3(a, b, c, 100, 65435, 1)
      BY <1>0, InOrderV6, SMT
    <2> HIDE DEF In, x
    <2> QED
      BY <1>0, <2>1, SMT DEF Ordered3
  <1>2. In(<<<<8193, 0, 0>>, <<8193, 511, 65535>>>>) <=> a = 8193 /\ b <= 511
    <2>1. In(<<<<8193, 0, 0>>, <<8193, 511, 65535>>>>) <=>
             Ordered3(8193, 0, 0, a, b, c) /\ Ordered3(a, b, c, 8193, 511, 65535)
      BY <1>0, InOrderV6, SMT
    <2> HIDE DEF In, x
    <2> QED
      BY <1>0, <2>1, SMT DEF Ordered3
  <1>3. In(<<<<8193, 3512, 0>>, <<8193, 3512, 65535>>>>) <=> a = 8193 /\ b = 3512
    <2>1. In(<<<<8193, 3512, 0>>, <<8193, 3512, 65535>>>>) <=>
             Ordered3(8193, 3512, 0, a, b, c) /\ Ordered3(a, b, c, 8193, 3512, 65535)
      BY <1>0, InOrderV6, SMT
    <2> HIDE DEF In, x
    <2> QED
      BY <1>0, <2>1, SMT DEF Ordered3
  <1>4. In(<<<<64512, 0, 0>>, <<65023, 65535, 65535>>>>) <=> 64512 <= a /\ a <= 65023
    <2>1. In(<<<<64512, 0, 0>>, <<65023, 65535, 65535>>>>) <=>
             Ordered3(64512, 0, 0, a, b, c) /\ Ordered3(a, b, c, 65023, 65535, 65535)
      BY <1>0, InOrderV6, SMT
    <2> HIDE DEF In, x
    <2> QED
      BY <1>0, <2>1, SMT DEF Ordered3
  <1>5. In(<<<<65152, 0, 0>>, <<65215, 65535, 65535>>>>) <=> 65152 <= a /\ a <= 65215
    <2>1. In(<<<<65152, 0, 0>>, <<65215, 65535, 65535>>>>) <=>
             Ordered3(65152, 0, 0, a, b, c) /\ Ordered3(a, b, c, 65215, 65535, 65535)
      BY <1>0, InOrderV6, SMT
    <2> HIDE DEF In, x
    <2> QED
      BY <1>0, <2>1, SMT DEF Ordered3
  <1>6. In(<<<<65280, 0, 0>>, <<65535, 65535, 65535>>>>) <=> 65280 <= a
    <2>1. In(<<<<65280, 0, 0>>, <<65535, 65535, 65535>>>>) <=>
             Ordered3(65280, 0, 0, a, b, c) /\ Ordered3(a, b, c, 65535, 65535, 65535)
      BY <1>0, InOrderV6, SMT
    <2> HIDE DEF In, x
    <2> QED
      BY <1>0, <2>1, SMT DEF Ordered3
  <1>7. Within(x, SpecialV6) <=>
            \/ In(<<<<100, 65435, 1>>, <<100, 65435, 1>>>>)
            \/ In(<<<<8193, 0, 0>>, <<8193, 511, 65535>>>>)
            \/ In(<<<<8193, 3512, 0>>, <<8193, 3512, 65535>>>>)
            \/ In(<<<<64512, 0, 0>>, <<65023, 65535, 65535>>>>)
            \/ In(<<<<65152, 0, 0>>, <<65215, 65535, 65535>>>>)
            \/ In(<<<<65280, 0, 0>>, <<65535, 65535, 65535>>>>)
    <2>1. Within(x, SpecialV6) <=> \E r \in SpecialV6 : In(r)
      BY Zenon DEF Within
    <2> HIDE DEF x, In
    <2> QED
      BY <2>1, SMT DEF SpecialV6
  <1> HIDE DEF In, x
  <1> QED
    BY <1>1, <1>2, <1>3, <1>4, <1>5, <1>6, <1>7, SMT DEF x

\* is_global_v6 leaves out the ranges of SpecialV6, and nothing else, among the
\* addresses that carry no IPv4 address.
LEMMA GlobalV6 ==
    ASSUME NEW ip \in [1 .. 8 -> Segment], embedded_ipv4(ip) = NoIP,
           ~(\A i \in 1 .. 6 : ip[i] = 0)
    PROVE  is_global_v6(ip) <=> /\ ~Within(<<ip[1], ip[2], ip[3]>>, SpecialV6)
                                /\ <<ip[1], ip[2], ip[3], ip[4]>> # <<256, 0, 0, 0>>
  <1> DEFINE In(net) == in_network(ip, net[1], net[2])
             One == <<0, 0, 0, 0, 0, 0, 0, 1>>
  <1>1. PICK a, b, c, d : a = ip[1] /\ b = ip[2] /\ c = ip[3] /\ d = ip[4]
    OBVIOUS
  <1>2. /\ a \in Nat /\ b \in Nat /\ c \in Nat /\ d \in Nat
        /\ a < 65536 /\ b < 65536 /\ c < 65536 /\ d < 65536
        /\ a \in Segment /\ b \in Segment /\ c \in Segment
    BY <1>1, SegmentIs
  <1>3. ~is_global_v6(ip) <=>
            \/ In(<<Segments(0, 0, 0), 128>>) \/ In(<<One, 128>>)
            \/ In(<<Segments(65280, 0, 0), 8>>)
            \/ In(<<Segments(65152, 0, 0), 10>>)
            \/ In(<<Segments(64512, 0, 0), 7>>)
            \/ In(<<Segments(8193, 0, 0), 23>>)
            \/ In(<<Segments(8193, 3512, 0), 32>>)
            \/ In(<<Segments(256, 0, 0), 64>>)
            \/ In(<<Segments(100, 65435, 1), 48>>)
    <2>1. ~is_global_v6(ip) <=> \E net \in NotGlobalV6 : In(net)
      BY Zenon DEF is_global_v6
    <2> HIDE DEF In
    <2> QED
      BY <2>1, SMT DEF NotGlobalV6
  <1>4. ~In(<<Segments(0, 0, 0), 128>>) /\ ~In(<<One, 128>>)
    <2>1. ASSUME NEW n \in {0, 1}
          PROVE  ~in_network(ip, <<0, 0, 0, 0, 0, 0, 0, n>>, 128)
      <3> DEFINE net == <<0, 0, 0, 0, 0, 0, 0, n>>
                 u == [i \in 1 .. 8 |-> 1]
      <3>1. /\ ip \in [1 .. 8 -> Nat] /\ Len(ip) = 8
            /\ net \in [1 .. 8 -> Nat] /\ Len(net) = 8 /\ u \in [1 .. 8 -> Nat]
        <4>1. Len(ip) = 8
          BY LenOf
        <4> QED
          BY <4>1, SegmentIs
      <3>2. DigitBits(ip) = 16 /\ DigitBits(net) = 16
        BY <3>1 DEF DigitBits, IsV4
      <3>3. InUnits(net, 8, 16, 128, u, net)
        <4> SUFFICES ASSUME NEW i \in 1 .. 8
                     PROVE  /\ u[i] > 0 /\ net[i] = u[i] * net[i]
                            /\ 2 ^ (16 - clamp(128 - 16 * (i - 1), 0, 16)) = u[i]
          BY Zenon DEF InUnits
        <4>1. clamp(128 - 16 * (i - 1), 0, 16) = 16
          BY DEF clamp
        <4>2. 16 - clamp(128 - 16 * (i - 1), 0, 16) = 0 /\ 2 ^ 0 = 1
          BY <4>1
        <4>3. u[i] = 1 /\ net[i] \in Nat
          BY <3>1
        <4>4. 1 > 0 /\ net[i] = 1 * net[i]
          <5> HIDE DEF net
          <5> QED
            BY <4>3
        <4> HIDE DEF u, net
        <4> QED
          BY <4>2, <4>3, <4>4, Zenon
      <3>4. in_network(ip, net, 128) =>
               \A i \in 1 .. 8 : net[i] <= ip[i] /\ ip[i] < net[i] + u[i]
        <4> HIDE DEF net, u
        <4>1. 8 \in Nat /\ 16 \in Nat /\ 128 \in Nat
          OBVIOUS
        <4> QED
          BY <3>1, <3>2, <3>3, <4>1, NetworkDigits
      <3>5. \A i \in 1 .. 6 : i \in 1 .. 8 /\ net[i] = 0 /\ u[i] = 1 /\ ip[i] \in Nat
        BY <3>1
      <3> HIDE DEF u, net
      <3>6. ~in_network(ip, net, 128)
        BY <3>4, <3>5
      <3> QED
        BY <3>6 DEF net
    <2> QED
      BY <2>1 DEF Segments
  <1>5. /\ In(<<Segments(65280, 0, 0), 8>>) <=> in_network(ip, <<65280, 0, 0, 0, 0, 0, 0, 0>>, 8)
        /\ In(<<Segments(65152, 0, 0), 10>>) <=> in_network(ip, <<65152, 0, 0, 0, 0, 0, 0, 0>>, 10)
        /\ In(<<Segments(64512, 0, 0), 7>>) <=> in_network(ip, <<64512, 0, 0, 0, 0, 0, 0, 0>>, 7)
        /\ In(<<Segments(8193, 0, 0), 23>>) <=> in_network(ip, <<8193, 0, 0, 0, 0, 0, 0, 0>>, 23)
        /\ In(<<Segments(8193, 3512, 0), 32>>) <=> in_network(ip, <<8193, 3512, 0, 0, 0, 0, 0, 0>>, 32)
        /\ In(<<Segments(256, 0, 0), 64>>) <=> in_network(ip, <<256, 0, 0, 0, 0, 0, 0, 0>>, 64)
        /\ In(<<Segments(100, 65435, 1), 48>>) <=> in_network(ip, <<100, 65435, 1, 0, 0, 0, 0, 0>>, 48)
    BY DEF Segments
  <1> HIDE DEF In
  <1>6. ~is_global_v6(ip) <=>
            \/ a = 100 /\ b = 65435 /\ c = 1
            \/ a = 8193 /\ b <= 511
            \/ a = 8193 /\ b = 3512
            \/ 64512 <= a /\ a <= 65023
            \/ 65152 <= a /\ a <= 65215
            \/ 65280 <= a
            \/ a = 256 /\ b = 0 /\ c = 0 /\ d = 0
    BY <1>1, <1>2, <1>3, <1>4, <1>5, ExcludedV6, SMT
  <1>7. <<a, b, c, d>> # <<256, 0, 0, 0>> <=> ~(a = 256 /\ b = 0 /\ c = 0 /\ d = 0)
    BY SMT
  <1>8. is_global_v6(ip) <=> ~Within(<<a, b, c>>, SpecialV6) /\ <<a, b, c, d>> # <<256, 0, 0, 0>>
    BY <1>2, <1>6, <1>7, RangesV6, SMT
  <1> QED
    BY <1>1, <1>8, SMT

\* The first segments of an address.
LEMMA FirstSegments ==
    ASSUME NEW ip \in [1 .. 8 -> Segment]
    PROVE  /\ SubSeq(ip, 1, 6) = <<ip[1], ip[2], ip[3], ip[4], ip[5], ip[6]>>
           /\ SubSeq(ip, 1, 3) = <<ip[1], ip[2], ip[3]>>
           /\ SubSeq(ip, 1, 4) = <<ip[1], ip[2], ip[3], ip[4]>>
           /\ SubSeq(ip, 2, 3) = <<ip[2], ip[3]>>
  <1>1. ip \in Seq(Segment) /\ Len(ip) = 8
    BY LenOf
  <1>2. ASSUME NEW m \in 1 .. 8, NEW n \in m .. 8
        PROVE  /\ SubSeq(ip, m, n) \in [1 .. n - m + 1 -> Segment]
               /\ Len(SubSeq(ip, m, n)) = n - m + 1
               /\ \A i \in 1 .. n - m + 1 : SubSeq(ip, m, n)[i] = ip[m + i - 1]
    <2>1. /\ \A i \in m .. n : ip[i] \in Segment
          /\ m \in Int /\ n \in Int /\ m <= n
      OBVIOUS
    <2>2. /\ SubSeq(ip, m, n) \in Seq(Segment)
          /\ Len(SubSeq(ip, m, n)) = n - m + 1
          /\ \A i \in 1 .. n - m + 1 : SubSeq(ip, m, n)[i] = ip[m + i - 1]
      BY <2>1, SubSeqProperties
    <2>3. SubSeq(ip, m, n) \in [1 .. Len(SubSeq(ip, m, n)) -> Segment]
      BY <2>2, LenProperties
    <2> QED
      BY <2>2, <2>3, Zenon
  <1> DEFINE f == SubSeq(ip, 1, 6)
             g == SubSeq(ip, 1, 3)
             h == SubSeq(ip, 1, 4)
             k == SubSeq(ip, 2, 3)
  <1>3. /\ f \in [1 .. 6 -> Segment] /\ Len(f) = 6 /\ \A i \in 1 .. 6 : f[i] = ip[i]
        /\ g \in [1 .. 3 -> Segment] /\ Len(g) = 3 /\ \A i \in 1 .. 3 : g[i] = ip[i]
        /\ h \in [1 .. 4 -> Segment] /\ Len(h) = 4 /\ \A i \in 1 .. 4 : h[i] = ip[i]
        /\ k \in [1 .. 2 -> Segment] /\ Len(k) = 2 /\ \A i \in 1 .. 2 : k[i] = ip[i + 1]
    <2>1. /\ 6 - 1 + 1 = 6 /\ 3 - 1 + 1 = 3 /\ 4 - 1 + 1 = 4 /\ 3 - 2 + 1 = 2
          /\ 1 \in 1 .. 8 /\ 2 \in 1 .. 8 /\ 6 \in 1 .. 8 /\ 3 \in 1 .. 8 /\ 4 \in 1 .. 8 /\ 3 \in 2 .. 8
          /\ \A i \in 1 .. 6 : 1 + i - 1 = i /\ 2 + i - 1 = i + 1
      OBVIOUS
    <2>2. /\ f \in [1 .. 6 -> Segment] /\ Len(f) = 6 /\ \A i \in 1 .. 6 : f[i] = ip[1 + i - 1]
      BY <1>2, <2>1
    <2>3. /\ g \in [1 .. 3 -> Segment] /\ Len(g) = 3 /\ \A i \in 1 .. 3 : g[i] = ip[1 + i - 1]
      BY <1>2, <2>1
    <2>4. /\ h \in [1 .. 4 -> Segment] /\ Len(h) = 4 /\ \A i \in 1 .. 4 : h[i] = ip[1 + i - 1]
      BY <1>2, <2>1
    <2>5. /\ k \in [1 .. 2 -> Segment] /\ Len(k) = 2 /\ \A i \in 1 .. 2 : k[i] = ip[2 + i - 1]
      BY <1>2, <2>1
    <2> HIDE DEF f, g, h, k
    <2> QED
      BY <2>1, <2>2, <2>3, <2>4, <2>5
  <1> HIDE DEF f, g, h, k
  <1>4. f = <<ip[1], ip[2], ip[3], ip[4], ip[5], ip[6]>>
    BY <1>3
  <1>5. g = <<ip[1], ip[2], ip[3]>>
    BY <1>3
  <1>6. h = <<ip[1], ip[2], ip[3], ip[4]>>
    BY <1>3
  <1>7. k = <<ip[2], ip[3]>>
    BY <1>3
  <1> QED
    BY <1>4, <1>5, <1>6, <1>7 DEF f, g, h, k

\* What a mapped, compatible, NAT64 or 6to4 address carries, and no other.
LEMMA EmbeddedIs ==
    ASSUME NEW ip \in [1 .. 8 -> Segment]
    PROVE  /\ SubSeq(ip, 1, 6) \in CarryingPrefixes => embedded_ipv4(ip) = Octets(ip[7], ip[8])
           /\ ip[1] = 8194 => embedded_ipv4(ip) = Octets(ip[2], ip[3])
           /\ SubSeq(ip, 1, 6) \notin CarryingPrefixes /\ ip[1] # 8194 => embedded_ipv4(ip) = NoIP
           /\ ip[1] = 8194 => SubSeq(ip, 1, 6) \notin CarryingPrefixes
  <1> DEFINE s == SubSeq(ip, 1, 6)
             M == <<0, 0, 0, 0, 0, 65535>>
             C == <<0, 0, 0, 0, 0, 0>>
             N == <<100, 65435, 0, 0, 0, 0>>
             six == ip[1] = 8194
  <1>1. s = <<ip[1], ip[2], ip[3], ip[4], ip[5], ip[6]>>
    BY FirstSegments
  <1>2. M # C /\ M # N /\ C # N
    BY SMT
  <1>3. /\ s = M => ip[1] = 0
        /\ s = C => ip[1] = 0
        /\ s = N => ip[1] = 100
    BY <1>1, SMT
  <1>4. s \in {M, C, N} => ~six
    BY <1>3, SMT
  <1>5. \A hi, lo : Octets(hi, lo) # NoIP
    BY DEF Octets, NoIP
  <1>6. /\ to_ipv4_mapped(ip) = IF s = M THEN Octets(ip[7], ip[8]) ELSE NoIP
        /\ embedded_ipv4(ip) = CASE to_ipv4_mapped(ip) # NoIP -> to_ipv4_mapped(ip)
                                 [] s = C -> Octets(ip[7], ip[8])
                                 [] s = N -> Octets(ip[7], ip[8])
                                 [] six -> Octets(ip[2], ip[3])
                                 [] OTHER -> NoIP
    BY SMT DEF to_ipv4_mapped, embedded_ipv4
  <1>7. CarryingPrefixes = {M, C, N}
    BY SMT DEF CarryingPrefixes, MappedPrefix
  <1> HIDE DEF s, M, C, N, six
  <1>8. /\ s \in {M, C, N} => embedded_ipv4(ip) = Octets(ip[7], ip[8])
        /\ six => embedded_ipv4(ip) = Octets(ip[2], ip[3])
        /\ s \notin {M, C, N} /\ ~six => embedded_ipv4(ip) = NoIP
    <2>1. CASE s = M
      <3>1. to_ipv4_mapped(ip) = Octets(ip[7], ip[8]) /\ to_ipv4_mapped(ip) # NoIP
        BY <1>5, <1>6, <2>1
      <3> QED
        BY <1>2, <1>4, <1>6, <2>1, <3>1
    <2>2. CASE s # M
      <3>1. to_ipv4_mapped(ip) = NoIP
        BY <1>6, <2>2
      <3>2. CASE s = C
        BY <1>2, <1>4, <1>6, <2>2, <3>1, <3>2
      <3>3. CASE s = N
        BY <1>2, <1>4, <1>6, <2>2, <3>1, <3>3
      <3>4. CASE s # C /\ s # N
        BY <1>6, <2>2, <3>1, <3>4
      <3> QED
        BY <3>2, <3>3, <3>4
    <2> QED
      BY <2>1, <2>2
  <1> QED
    BY <1>4, <1>7, <1>8, SMT DEF s, six

Carries(ip, M, hi, lo) == ip = M \o <<hi, lo>>

\* An IPv4 address in the last two segments.
LEMMA CarriedShape ==
    ASSUME NEW M \in Seq(Segment), Len(M) = 6, NEW hi \in Segment, NEW lo \in Segment,
           NEW ip, Carries(ip, M, hi, lo)
    PROVE  /\ ip \in [1 .. 8 -> Segment] /\ ip[7] = hi /\ ip[8] = lo
           /\ SubSeq(ip, 1, 6) = M
  <1> DEFINE t == <<hi, lo>>
  <1>0. ip = M \o t
    BY DEF Carries
  <1>1. t \in Seq(Segment) /\ Len(t) = 2 /\ t[1] = hi /\ t[2] = lo
    OBVIOUS
  <1> HIDE DEF t
  <1>2. /\ ip \in Seq(Segment) /\ Len(ip) = Len(M) + Len(t)
        /\ \A i \in 1 .. Len(M) + Len(t) : ip[i] = IF i <= Len(M) THEN M[i] ELSE t[i - Len(M)]
    <2>1. /\ (M \o t) \in Seq(Segment) /\ Len(M \o t) = Len(M) + Len(t)
          /\ \A i \in 1 .. Len(M) + Len(t) :
                (M \o t)[i] = IF i <= Len(M) THEN M[i] ELSE t[i - Len(M)]
      BY <1>1, ConcatProperties, Zenon
    <2> QED
      BY <1>0, <2>1, Zenon
  <1>3. Len(ip) = 8 /\ ip[7] = hi /\ ip[8] = lo /\ \A i \in 1 .. 6 : ip[i] = M[i]
    BY <1>1, <1>2
  <1>4. SubSeq(ip, 1, 6) = M
    BY <1>2, <1>3
  <1>5. ip \in [1 .. 8 -> Segment]
    BY <1>2, <1>3, LenProperties
  <1> QED
    BY <1>3, <1>4, <1>5

\* Exactly the public addresses are global to is_global_unicast.
THEOREM PublicIsGlobal ==
    ASSUME NEW a, IsAnswer(a)
    PROVE  is_global_unicast(a.ip) <=> Public(a)
  <1> DEFINE x == a.carries
             ip == a.ip
             v4 == <<x[1], x[2], x[3], x[4]>>
  <1>1. ASSUME x \in [1 .. 4 -> Octet]
        PROVE  /\ x = v4 /\ IsV4(x) /\ x # NoIP
               /\ x[1] \in Octet /\ x[2] \in Octet /\ x[3] \in Octet /\ x[4] \in Octet
               /\ is_global_v4(x) <=> ~Within(x, SpecialV4)
               /\ Public(a) <=> ~Within(x, SpecialV4)
    <2>1. Len(x) = 4
      BY <1>1, LenOf
    <2>2. x = v4
      BY <1>1, <2>1
    <2>3. x[1] \in Octet /\ x[2] \in Octet /\ x[3] \in Octet /\ x[4] \in Octet
      BY <1>1
    <2>4. IsV4(v4) /\ v4 # NoIP
      BY <2>3, FourOctets
    <2>5. is_global_v4(v4) <=> ~Within(v4, SpecialV4)
      BY <2>3, GlobalV4
    <2>6. x # NoIP
      BY <2>2, <2>4, Zenon
    <2>7. Public(a) <=> ~Within(x, SpecialV4)
      BY <2>6, Zenon DEF Public
    <2> QED
      BY <2>2, <2>3, <2>4, <2>5, <2>6, <2>7, Zenon
  <1>2. ASSUME NEW y \in [1 .. 8 -> Segment]
        PROVE  ~IsV4(y)
    BY LenOf DEF IsV4
  <1>3. ASSUME x \in [1 .. 4 -> Octet], ip \in [1 .. 8 -> Segment], embedded_ipv4(ip) = x
        PROVE  is_global_unicast(ip) <=> Public(a)
    BY <1>1, <1>2, <1>3 DEF is_global_unicast, is_global_v6
  <1> DEFINE hi == x[1] * 256 + x[2]
             lo == x[3] * 256 + x[4]
  <1>4. ASSUME x \in [1 .. 4 -> Octet]
        PROVE  hi \in Segment /\ lo \in Segment /\ Octets(hi, lo) = x
    <2>1. /\ hi \in Segment /\ hi \div 256 = x[1] /\ hi % 256 = x[2]
          /\ lo \in Segment /\ lo \div 256 = x[3] /\ lo % 256 = x[4]
      BY <1>1, <1>4, OctetsSegment
    <2> HIDE DEF hi, lo
    <2> QED
      BY <1>1, <1>4, <2>1, Zenon DEF Octets
  <1>5. CASE x \in [1 .. 4 -> Octet] /\ ip = x
    BY <1>1, <1>5 DEF is_global_unicast
  <1>6. ASSUME x \in [1 .. 4 -> Octet], NEW p \in CarryingPrefixes, ip = p \o InSegments(x)
        PROVE  is_global_unicast(ip) <=> Public(a)
    <2>1. p \in Seq(Segment) /\ Len(p) = 6
      <3>1. 0 \in Segment /\ 100 \in Segment /\ 65435 \in Segment /\ 65535 \in Segment
        BY SegmentIs
      <3> QED
        <4>1. <<0, 0, 0, 0, 0, 65535>> \in Seq(Segment) /\ Len(<<0, 0, 0, 0, 0, 65535>>) = 6
          BY <3>1, SMT
        <4>2. <<0, 0, 0, 0, 0, 0>> \in Seq(Segment) /\ Len(<<0, 0, 0, 0, 0, 0>>) = 6
          BY <3>1, SMT
        <4>3. <<100, 65435, 0, 0, 0, 0>> \in Seq(Segment) /\ Len(<<100, 65435, 0, 0, 0, 0>>) = 6
          BY <3>1, SMT
        <4> DEFINE M == <<0, 0, 0, 0, 0, 65535>>
                   C == <<0, 0, 0, 0, 0, 0>>
                   N == <<100, 65435, 0, 0, 0, 0>>
        <4>4. p \in {M, C, N}
          BY <1>6, SMT DEF CarryingPrefixes, MappedPrefix
        <4>5. \A q \in {M, C, N} : q \in Seq(Segment) /\ Len(q) = 6
          <5>1. /\ M \in Seq(Segment) /\ Len(M) = 6
                /\ C \in Seq(Segment) /\ Len(C) = 6
                /\ N \in Seq(Segment) /\ Len(N) = 6
            BY <4>1, <4>2, <4>3, SMT
          <5> HIDE DEF M, C, N
          <5> QED
            BY <5>1, Zenon
        <4> HIDE DEF M, C, N
        <4> QED
          BY <4>4, <4>5, Zenon
    <2>2. ip = p \o <<hi, lo>> /\ hi \in Segment /\ lo \in Segment
      BY <1>4, <1>6, Zenon DEF InSegments
    <2> HIDE DEF hi, lo
    <2>3. ip \in [1 .. 8 -> Segment] /\ ip[7] = hi /\ ip[8] = lo /\ SubSeq(ip, 1, 6) = p
      <3>1. PICK y, h, l : y = ip /\ h = hi /\ l = lo
        OBVIOUS
      <3>2. Carries(y, p, h, l) /\ h \in Segment /\ l \in Segment
        BY <2>2, <3>1, Zenon DEF Carries
      <3>3. y \in [1 .. 8 -> Segment] /\ y[7] = h /\ y[8] = l /\ SubSeq(y, 1, 6) = p
        BY <2>1, <3>2, CarriedShape
      <3> QED
        BY <3>1, <3>3, Zenon
    <2>4. embedded_ipv4(ip) = x
      <3>1. embedded_ipv4(ip) = Octets(ip[7], ip[8])
        <4>1. ip \in [1 .. 8 -> Segment] /\ SubSeq(ip, 1, 6) \in CarryingPrefixes
          BY <1>6, <2>3, Zenon
        <4> HIDE DEF ip
        <4> QED
          BY <4>1, EmbeddedIs
      <3> QED
        BY <1>4, <1>6, <2>3, <3>1, Zenon
    <2> QED
      BY <1>3, <1>6, <2>3, <2>4
  <1>7. CASE /\ x \in [1 .. 4 -> Octet] /\ ip \in [1 .. 8 -> Segment]
             /\ ip[1] = 8194 /\ SubSeq(ip, 2, 3) = InSegments(x)
    <2>1. <<ip[2], ip[3]>> = <<hi, lo>>
      BY <1>7, FirstSegments DEF InSegments
    <2> HIDE DEF hi, lo
    <2>2. ip[2] = hi /\ ip[3] = lo
      BY <2>1
    <2>3. embedded_ipv4(ip) = x
      BY <1>4, <1>7, <2>2, EmbeddedIs
    <2> QED
      BY <1>3, <1>7, <2>3
  <1>8. CASE /\ x = NoIP /\ ip \in [1 .. 8 -> Segment]
             /\ ip[1] # 8194 /\ SubSeq(ip, 1, 6) \notin CarryingPrefixes
    <2>1. embedded_ipv4(ip) = NoIP
      BY <1>8, EmbeddedIs
    <2>2. ~(\A i \in 1 .. 6 : ip[i] = 0)
      <3>1. <<ip[1], ip[2], ip[3], ip[4], ip[5], ip[6]>> # <<0, 0, 0, 0, 0, 0>>
        BY <1>8, FirstSegments DEF CarryingPrefixes
      <3> QED
        BY <3>1
    <2>3. is_global_v6(ip) <=> /\ ~Within(<<ip[1], ip[2], ip[3]>>, SpecialV6)
                               /\ <<ip[1], ip[2], ip[3], ip[4]>> # <<256, 0, 0, 0>>
      BY <1>8, <2>1, <2>2, GlobalV6
    <2>4. Public(a) <=> /\ ~Within(SubSeq(ip, 1, 3), SpecialV6)
                        /\ SubSeq(ip, 1, 4) # <<256, 0, 0, 0>>
      BY <1>8, SMT DEF Public
    <2>5. is_global_unicast(ip) <=> is_global_v6(ip)
      BY <1>2, <1>8 DEF is_global_unicast
    <2> QED
      <3>1. /\ SubSeq(ip, 1, 3) = <<ip[1], ip[2], ip[3]>>
            /\ SubSeq(ip, 1, 4) = <<ip[1], ip[2], ip[3], ip[4]>>
        BY <1>8, FirstSegments
      <3>2. Public(a) <=> /\ ~Within(<<ip[1], ip[2], ip[3]>>, SpecialV6)
                          /\ <<ip[1], ip[2], ip[3], ip[4]>> # <<256, 0, 0, 0>>
        <4> DEFINE Discard == <<256, 0, 0, 0>>
        <4>1. Public(a) <=> /\ ~Within(SubSeq(ip, 1, 3), SpecialV6)
                            /\ SubSeq(ip, 1, 4) # Discard
          BY <2>4
        <4> HIDE DEF Discard
        <4>2. Public(a) <=> /\ ~Within(<<ip[1], ip[2], ip[3]>>, SpecialV6)
                            /\ <<ip[1], ip[2], ip[3], ip[4]>> # Discard
          BY <3>1, <4>1, Zenon
        <4> QED
          BY <4>2 DEF Discard
      <3> QED
        BY <2>3, <2>5, <3>2, SMT
  <1> QED
    BY <1>5, <1>6, <1>7, <1>8, SMT DEF IsAnswer

Ips(s) == [i \in DOMAIN s |-> s[i].ip]

\* The addresses of a longer answer.
LEMMA IpsAppend ==
    ASSUME NEW T, NEW s \in Seq(T), NEW e \in T
    PROVE  Ips(Append(s, e)) = Append(Ips(s), e.ip)
  <1> DEFINE U == {x.ip : x \in T}
             n == Len(s)
             a == Append(s, e)
  <1>1. n \in Nat /\ DOMAIN s = 1 .. n /\ s \in [1 .. n -> T]
    BY LenProperties
  <1>2. /\ a \in Seq(T) /\ Len(a) = n + 1 /\ DOMAIN a = 1 .. n + 1
        /\ \A i \in 1 .. n : a[i] = s[i]
        /\ a[n + 1] = e
    <2>1. a \in Seq(T) /\ Len(a) = n + 1
      BY AppendProperties
    <2>2. DOMAIN a = 1 .. Len(a)
      BY <2>1, LenProperties
    <2> QED
      BY <2>1, <2>2, AppendProperties
  <1>3. \A x \in T : x.ip \in U
    OBVIOUS
  <1> HIDE DEF a, U
  <1>4. Ips(s) \in [1 .. n -> U] /\ Ips(s) \in Seq(U) /\ Len(Ips(s)) = n
    <2>1. Ips(s) \in [1 .. n -> U]
      BY <1>1, <1>3 DEF Ips
    <2> HIDE DEF n
    <2> QED
      BY <1>1, <2>1, LenOf
  <1>5. Ips(a) \in [1 .. n + 1 -> U] /\ Ips(a) \in Seq(U) /\ Len(Ips(a)) = n + 1
    <2>1. \A i \in 1 .. n + 1 : a[i] \in T
      BY <1>2, ElementOfSeq
    <2>2. Ips(a) \in [1 .. n + 1 -> U]
      BY <1>2, <1>3, <2>1 DEF Ips
    <2>3. n + 1 \in Nat
      BY <1>1
    <2> HIDE DEF n
    <2> QED
      BY <2>2, <2>3, LenOf
  <1> DEFINE b == Append(Ips(s), e.ip)
  <1>6. b \in Seq(U) /\ Len(b) = n + 1 /\ b[n + 1] = e.ip /\ \A i \in 1 .. n : b[i] = Ips(s)[i]
    <2>1. e.ip \in U
      BY <1>3
    <2> HIDE DEF n
    <2> QED
      BY <1>1, <1>4, <2>1, AppendProperties
  <1>7. ASSUME NEW i \in 1 .. n + 1 PROVE Ips(a)[i] = b[i]
    <2>1. Ips(a)[i] = a[i].ip
      BY <1>2 DEF Ips
    <2>2. CASE i = n + 1
      BY <1>2, <1>6, <2>1, <2>2
    <2>3. CASE i \in 1 .. n
      <3>1. Ips(s)[i] = s[i].ip
        BY <1>1, <2>3 DEF Ips
      <3> QED
        BY <1>2, <1>6, <2>1, <2>3, <3>1
    <2>4. i = n + 1 \/ i \in 1 .. n
      BY <1>1
    <2> QED
      BY <2>2, <2>3, <2>4
  <1> HIDE DEF b, n
  <1>8. Ips(a) = b
    BY <1>5, <1>6, <1>7, SeqEqual
  <1> QED
    BY <1>8 DEF a, b

\* Only an empty answer has no addresses.
LEMMA NoIps ==
    ASSUME NEW T, NEW s \in Seq(T), Ips(s) = <<>>
    PROVE  s = <<>>
  <1>1. DOMAIN Ips(s) = DOMAIN s
    BY DEF Ips
  <1>2. DOMAIN <<>> = {}
    OBVIOUS
  <1>3. DOMAIN s = {}
    BY <1>1, <1>2, Zenon
  <1> QED
    BY <1>3, EmptySeq, LenProperties

\* There is one sequence of nothing.
LEMMA SeqOfNone ==
    ASSUME NEW S, S = {}, NEW s \in Seq(S)
    PROVE  s = <<>>
  BY EmptySeq, LenProperties

\* Filtering the addresses of an answer is filtering the answer.
LEMMA RetainIps ==
    ASSUME NEW T, NEW s \in Seq(T), NEW D, NEW P,
           \A i \in DOMAIN s : s[i].ip \in D <=> s[i] \in P
    PROVE  Retain(Ips(s), D) = Ips(Retain(s, P))
  <1> DEFINE n == Len(s)
             f == Kept(Ips(s), D)
             g == Kept(s, P)
             Good == {k \in 0 .. n : g[k] \in Seq(T) /\ f[k] = Ips(g[k])}
  <1>0. n \in Nat /\ DOMAIN s = 1 .. n /\ \A i \in 1 .. n : s[i] \in T
    BY LenProperties, ElementOfSeq
  <1>1. Len(Ips(s)) = n /\ \A i \in 1 .. n : Ips(s)[i] = s[i].ip
    <2> DEFINE U == {x.ip : x \in T}
    <2>1. \A i \in 1 .. n : s[i].ip \in U
      BY <1>0
    <2> HIDE DEF U, n
    <2>2. Ips(s) \in [1 .. n -> U]
      BY <1>0, <2>1 DEF Ips
    <2>3. Len(Ips(s)) = n
      BY <1>0, <2>2, LenOf
    <2> QED
      BY <1>0, <2>3 DEF Ips
  <1> HIDE DEF n
  <1>2. /\ f[0] = <<>>
        /\ \A i \in 1 .. n : f[i] = IF Ips(s)[i] \in D THEN Append(f[i - 1], Ips(s)[i]) ELSE f[i - 1]
    BY <1>0, <1>1, KeptStep
  <1>3. /\ g[0] = <<>>
        /\ \A i \in 1 .. n : g[i] = IF s[i] \in P THEN Append(g[i - 1], s[i]) ELSE g[i - 1]
    BY <1>0, KeptStep DEF n
  <1> HIDE DEF f, g
  <1>4. 0 \in Good
    <2>1. Ips(<<>>) = <<>>
      BY DEF Ips
    <2>2. <<>> \in Seq(T) /\ 0 \in 0 .. n
      BY <1>0
    <2> QED
      BY <1>2, <1>3, <2>1, <2>2, Zenon
  <1>5. ASSUME NEW k \in 1 .. n, k - 1 \in Good PROVE k \in Good
    <2>1. g[k - 1] \in Seq(T) /\ f[k - 1] = Ips(g[k - 1]) /\ k \in 0 .. n /\ s[k] \in T
      BY <1>0, <1>5
    <2>2. Ips(s)[k] = s[k].ip /\ (s[k].ip \in D <=> s[k] \in P)
      BY <1>0, <1>1
    <2>3. CASE s[k] \in P
      <3>1. g[k] = Append(g[k - 1], s[k]) /\ f[k] = Append(f[k - 1], s[k].ip)
        BY <1>2, <1>3, <2>2, <2>3, Zenon
      <3>2. Ips(g[k]) = Append(Ips(g[k - 1]), s[k].ip)
        BY <2>1, <3>1, IpsAppend
      <3>3. Append(g[k - 1], s[k]) \in Seq(T)
        BY <2>1, AppendProperties
      <3> QED
        BY <2>1, <3>1, <3>2, <3>3, Zenon
    <2>4. CASE s[k] \notin P
      <3>1. g[k] = g[k - 1] /\ f[k] = f[k - 1]
        BY <1>2, <1>3, <2>2, <2>4, Zenon
      <3> QED
        BY <2>1, <3>1, Zenon
    <2> QED
      BY <2>3, <2>4
  <1>6. n \in Good
    <2>1. n \in 0 .. n
      BY <1>0
    <2> HIDE DEF Good
    <2> QED
      BY <1>0, <1>4, <1>5, <2>1, UpTo
  <1>7. f[n] = Ips(g[n])
    BY <1>6
  <1> QED
    BY <1>1, <1>7, Zenon DEF Retain, f, g, n

-----------------------------------------------------------------------------
(* What is dialed. *)

\* What a `remote` that is accepted is taken to be.
LEMMA ParsedRemote ==
    ASSUME NEW raw, parse_remote(raw).ok
    PROVE  LET ip == parse_literal(raw.host) IN
           /\ parse_remote(raw) =
                 [ok |-> TRUE, port |-> raw.port, ip_literal |-> ip,
                  host |-> IF ip # NoIP THEN ip_canonical(ip) ELSE normalize_hostname(raw.host)]
           /\ ip = NoIP => is_valid_dns_hostname(normalize_hostname(raw.host))
  <1> DEFINE ip == parse_literal(raw.host)
             name == normalize_hostname(raw.host)
             remote(host) == [ok |-> TRUE, host |-> host, port |-> raw.port, ip_literal |-> ip]
             guard == \/ ~raw.colon
                      \/ raw.opened /\ ~raw.closed
                      \/ ~raw.opened /\ raw.host.v6 # NoIP
                      \/ raw.port \notin PortNumber
             valid == is_valid_dns_hostname(name)
             with == remote(ip_canonical(ip))
             without == remote(name)
  <1>1. parse_remote(raw) = IF guard THEN InvalidRemote ELSE IF ip # NoIP THEN with
                            ELSE IF valid THEN without ELSE InvalidRemote
    BY Zenon DEF parse_remote
  <1>2. parse_remote(raw) # InvalidRemote
    BY DEF InvalidRemote
  <1> HIDE DEF guard, valid, ip, name, with, without
  <1>3. parse_remote(raw) = IF ip # NoIP THEN with ELSE without
    BY <1>1, <1>2, Zenon
  <1>5. ip = NoIP => valid
    BY <1>1, <1>2, Zenon
  <1>4. parse_remote(raw) = [ok |-> TRUE, port |-> raw.port, ip_literal |-> ip,
                             host |-> IF ip # NoIP THEN ip_canonical(ip) ELSE name]
    BY <1>3 DEF with, without
  <1> QED
    BY <1>4, <1>5, Zenon DEF ip, name, valid

\* What the resolver finds is a sequence of addresses, also for an address
\* that passed for a name: that one is an IPv4 address.
LEMMA FoundIsAnswer ==
    ASSUME NEW q, IsRequest(q), parse_remote(q.remote).ok, parse_remote(q.remote).ip_literal = NoIP
    PROVE  LET s == lookup_host(q) IN s \in Seq(ToSet(s)) /\ \A a \in ToSet(s) : IsAnswer(a)
  <1> DEFINE x == q.remote.spells
             only == [ip |-> x, carries |-> x]
  <1>1. CASE x = NoIP
    <2>1. lookup_host(q) = q.answer
      BY <1>1 DEF lookup_host
    <2> QED
      BY <2>1, Zenon DEF IsRequest
  <1>2. CASE x # NoIP
    <2>1. lookup_host(q) = <<only>>
      BY <1>2 DEF lookup_host
    <2>2. q.remote.host.v6 = NoIP
      <3>1. is_valid_dns_hostname(normalize_hostname(q.remote.host))
        BY ParsedRemote
      <3>2. normalize_hostname(q.remote.host).v6 = q.remote.host.v6
        BY DEF normalize_hostname, IsRequest, IsRemote
      <3> QED
        BY <3>1, <3>2 DEF is_valid_dns_hostname
    <2>3. x \in [1 .. 4 -> Octet]
      BY <1>2, <2>2 DEF IsRequest, IsRemote
    <2>4. IsAnswer(only)
      BY <2>3 DEF IsAnswer
    <2> HIDE DEF only
    <2>5. ToSet(<<only>>) = {only} /\ <<only>> \in Seq({only})
      BY DEF ToSet
    <2> QED
      BY <2>1, <2>4, <2>5
  <1> QED
    BY <1>1, <1>2

Left(q) == resolve_filtered(reply.remote, config.dest, Ips(lookup_host(q)))

\* The addresses a request goes on with are what the resolver left of the
\* answer, and one that is refused for them had nothing left.
Resolved ==
    /\ Admitted => reply.addrs = Left(asked)
    /\ pc = "answered" /\ reply.reason = "PrivateIp" /\ reply.remote.ip_literal = NoIP =>
          Left(asked) = <<>>
    /\ pc \in {"resolving", "probing", "relaying"} => reply.remote.ok
    /\ pc = "answered" /\ reply.reason = "PrivateIp" => reply.remote.ok

\* Only an address is refused as private before the lookup.
LEMMA GateResolves ==
    ASSUME NEW q \in Requests(env), Gate(q)
    PROVE  Resolved'
  <1>1. /\ pc' \in {"answered", "resolving"}
        /\ reply'.remote = parse_remote(q.remote)
    BY DEF Gate, Answer, Reply
  <1>2. Verdict(q) \in {"Ok", "Unauthorized", "InternalServerError"}
    BY DEF Verdict, validate_token
  <1>3. check_policy(parse_remote(q.remote), config.dest) = "PrivateIp" =>
           parse_remote(q.remote).ip_literal # NoIP
    BY DEF check_policy
  <1>4. reply'.reason = "PrivateIp" =>
           parse_remote(q.remote).ok /\ parse_remote(q.remote).ip_literal # NoIP
    BY <1>2, <1>3 DEF Gate, Answer, Reply, Verdict
  <1>5. pc' = "resolving" => parse_remote(q.remote).ok
    BY DEF Gate, Answer
  <1> QED
    BY <1>1, <1>4, <1>5 DEF Resolved, Admitted

\* The resolver filters the answer, and what comes after it keeps the result.
LEMMA ResolvedStep == Resolved /\ [Next]_vars => Resolved'
  <1> SUFFICES ASSUME Resolved, [Next]_vars PROVE Resolved'
    OBVIOUS
  <1>1. CASE UNCHANGED vars
    BY <1>1 DEF vars, Resolved, Admitted, Left
  <1>2. CASE Panic \/ Start \/ NextRequest
    BY <1>2 DEF Panic, Start, NextRequest, Resolved, Admitted
  <1>3. CASE Resolve
    <2> DEFINE left == resolve_filtered(reply.remote, config.dest, Ips(lookup_host(asked)))
    <2>1. /\ UNCHANGED <<config, asked>> /\ pc = "resolving"
          /\ reply'.remote = reply.remote /\ reply'.addrs = left
          /\ left # <<>> => reply'.reason = "none"
      BY <1>3 DEF Resolve, Reply, process, Ips
    <2>2. Left(asked)' = left
      BY <2>1 DEF Left
    <2> HIDE DEF left
    <2> QED
      BY <2>1, <2>2 DEF Resolved
  <1>4. CASE ProbeTlsSni
    <2>1. /\ UNCHANGED <<config, asked>> /\ pc = "probing"
          /\ reply'.remote = reply.remote /\ reply'.addrs = reply.addrs
          /\ reply'.reason \in {"none", "Proto"}
      BY <1>4 DEF ProbeTlsSni, Reply, process
    <2>2. Left(asked)' = Left(asked)
      BY <2>1 DEF Left
    <2> QED
      BY <2>1, <2>2 DEF Resolved, Admitted
  <1>5. ASSUME NEW x \in Scrapes, Scrape(x) PROVE Resolved'
    BY <1>5 DEF Scrape, Resolved, Admitted
  <1> QED
    BY <1>1, <1>2, <1>3, <1>4, <1>5, GateResolves DEF Next

\* Whatever a name resolves to, or the address is that passed for a name, and
\* however an IPv4 address is embedded in it, exactly the addresses outside of
\* SpecialV4 and SpecialV6 are left to dial (resolve_filtered and
\* is_global_unicast of src/dest.rs).
THEOREM OnlyPublicDialed == Spec => []DialedIsPublic
  <1>1. Init => Resolved
    BY DEF Init, Resolved, Admitted
  <1>2. Configured /\ Recorded /\ Resolved => DialedIsPublic
    <2> SUFFICES ASSUME Configured, Recorded, Resolved PROVE DialedIsPublic
      OBVIOUS
    <2> DEFINE s == lookup_host(asked)
               P == {a \in ToSet(s) : Public(a)}
               public == Retain(s, P)
               D(policy) == {ip \in ToSet(Ips(s)) :
                               policy.allow_private_destinations \/ is_global_unicast(ip)}
    <2>1. ASSUME Judged, reply.remote.ok, reply.remote.ip_literal = NoIP
          PROVE  /\ Left(asked) = Retain(Ips(s), D(config.dest))
                 /\ s \in Seq(ToSet(s)) /\ \A a \in ToSet(s) : IsAnswer(a)
                 /\ DOMAIN Ips(s) = DOMAIN s /\ \A i \in DOMAIN s : Ips(s)[i] = s[i].ip
                 /\ config.dest.allow_private_destinations
                       <=> env.flag.allow_private_destinations = "on"
      <3>1. Left(asked) = Retain(Ips(s), D(config.dest))
        BY <2>1, Zenon DEF Left, resolve_filtered
      <3>2. PICK q \in Requests(env) : asked = q
        BY <2>1 DEF Recorded
      <3>3. IsEnv(env) /\ IsRequest(asked)
        BY <3>2, GatewayAssumption DEF Configured
      <3>4. config = apply_env(env)
        BY <2>1 DEF Judged, Configured
      <3>5. s \in Seq(ToSet(s)) /\ \A a \in ToSet(s) : IsAnswer(a)
        <4>1. IsRemote(asked.remote) /\ reply.remote = parse_remote(asked.remote)
          BY <2>1, <3>3 DEF Recorded, IsRequest
        <4> QED
          BY <2>1, <3>3, <4>1, FoundIsAnswer
      <3>6. DOMAIN Ips(s) = DOMAIN s /\ \A i \in DOMAIN s : Ips(s)[i] = s[i].ip
        BY DEF Ips
      <3>7. config.dest.allow_private_destinations
               <=> env.flag.allow_private_destinations = "on"
        BY <3>3, <3>4, SettingsRead
      <3> QED
        BY <3>1, <3>5, <3>6, <3>7, Zenon
    <2>2. ASSUME Judged, reply.remote.ok, reply.remote.ip_literal = NoIP,
                 env.flag.allow_private_destinations # "on"
          PROVE  Left(asked) = Ips(public)
      <3>1. ASSUME NEW i \in DOMAIN s
            PROVE  s[i].ip \in D(config.dest) <=> s[i] \in P
        <4>1. s[i] \in ToSet(s) /\ s[i].ip \in ToSet(Ips(s))
          BY <2>1, <2>2, Zenon DEF ToSet
        <4>2. is_global_unicast(s[i].ip) <=> Public(s[i])
          BY <2>1, <2>2, <4>1, PublicIsGlobal
        <4>3. ~config.dest.allow_private_destinations
          BY <2>1, <2>2
        <4> QED
          BY <4>1, <4>2, <4>3, Zenon
      <3> DEFINE E == D(config.dest)
                 T == ToSet(s)
      <3>2. s \in Seq(T) /\ \A i \in DOMAIN s : s[i].ip \in E <=> s[i] \in P
        BY <2>1, <2>2, <3>1, Zenon
      <3>3. Left(asked) = Retain(Ips(s), E)
        BY <2>1, <2>2, Zenon
      <3> HIDE DEF E, P, s, T
      <3>4. Retain(Ips(s), E) = Ips(Retain(s, P))
        BY <3>2, RetainIps
      <3> QED
        BY <3>3, <3>4, Zenon
    <2>3. ASSUME Judged, reply.remote.ok, reply.remote.ip_literal = NoIP, Left(asked) = <<>>
          PROVE  public = <<>>
      <3>1. CASE env.flag.allow_private_destinations # "on"
        <4>1. Ips(public) = <<>>
          BY <2>2, <2>3, <3>1
        <4>2. public \in Seq({x \in P : \E i \in DOMAIN s : s[i] = x})
          <5> DEFINE T == ToSet(s)
          <5>1. s \in Seq(T)
            BY <2>1, <2>3
          <5> HIDE DEF s, P, T
          <5> QED
            BY <5>1, RetainedIn
        <4> HIDE DEF public
        <4> QED
          BY <4>1, <4>2, NoIps
      <3>2. CASE env.flag.allow_private_destinations = "on"
        <4> DEFINE E == D(config.dest)
                   T == ToSet(s)
        <4>1. ASSUME NEW i \in DOMAIN s
              PROVE  s[i].ip \in E <=> s[i] \in T
          <5>1. s[i] \in ToSet(s) /\ s[i].ip \in ToSet(Ips(s))
            BY <2>1, <2>3, Zenon DEF ToSet
          <5>2. config.dest.allow_private_destinations
            BY <2>1, <2>3, <3>2
          <5> QED
            BY <5>1, <5>2, Zenon
        <4>2. Left(asked) = Retain(Ips(s), E) /\ s \in Seq(T)
          BY <2>1, <2>3, Zenon
        <4>3. \A i \in DOMAIN s : s[i] \in T
          BY Zenon DEF ToSet
        <4> HIDE DEF E, s, T, P, public
        <4>4. Ips(Retain(s, T)) = <<>>
          <5>1. Retain(Ips(s), E) = Ips(Retain(s, T))
            BY <4>1, <4>2, RetainIps
          <5> QED
            BY <2>3, <4>2, <5>1, Zenon
        <4>5. Retain(s, T) = <<>>
          <5>1. Retain(s, T) \in Seq({x \in T : \E i \in DOMAIN s : s[i] = x})
            BY <4>2, RetainedIn
          <5> QED
            BY <4>4, <5>1, NoIps
        <4>6. \A i \in DOMAIN s : FALSE
          BY <4>2, <4>3, <4>5, NothingRetained
        <4>7. Retain(s, P) \in Seq({x \in P : \E i \in DOMAIN s : s[i] = x})
          BY <4>2, RetainedIn
        <4>8. {x \in P : \E i \in DOMAIN s : s[i] = x} = {}
          BY <4>6, Zenon
        <4> QED
          BY <4>7, <4>8, SeqOfNone DEF public
      <3> QED
        BY <3>1, <3>2
    <2>4. Admitted => Judged /\ reply.remote.ok
      BY DEF Admitted, Judged, Resolved
    <2>5. pc = "answered" /\ reply.reason = "PrivateIp" => Judged /\ reply.remote.ok
      BY DEF Judged, Resolved
    <2>6. Admitted /\ env.flag.allow_private_destinations # "on" /\ reply.remote.ip_literal = NoIP =>
             reply.addrs = Ips(public)
      BY <2>2, <2>4 DEF Resolved
    <2>7. pc = "answered" /\ reply.reason = "PrivateIp" /\ reply.remote.ip_literal = NoIP =>
             public = <<>>
      BY <2>3, <2>5 DEF Resolved
    <2> QED
      BY <2>6, <2>7, Zenon DEF DialedIsPublic, Ips
  <1> QED
    BY <1>1, <1>2, ResolvedStep, AlwaysConfigured, AlwaysRecorded, PTL DEF Spec

-----------------------------------------------------------------------------
(* Numbers and their digits. *)

Radices == {8, 10, 16, 256}

\* One division after the other.
LEMMA ShiftsStep ==
    ASSUME NEW v \in Nat, NEW r \in Radices, NEW k \in Nat
    PROVE  /\ Shifts(v, r, k) \in [0 .. k -> Nat] /\ Shifts(v, r, k)[0] = v
           /\ \A i \in 1 .. k : Shifts(v, r, k)[i] = Shifts(v, r, k)[i - 1] \div r
  <1> DEFINE Eq(s) == s = [i \in 0 .. k |-> IF i = 0 THEN v ELSE s[i - 1] \div r]
             G == [i \in 1 .. k |-> [x \in Nat |-> x \div r]]
  <1>1. \A x \in Nat : x \div r \in Nat
    BY DEF Radices
  <1>2. G \in [1 .. k -> [Nat -> Nat]]
    BY <1>1
  <1>3. \A i \in 1 .. k : \A x \in Nat : G[i][x] = x \div r
    OBVIOUS
  <1> HIDE DEF G
  <1>4. PICK f : Solution(f, k, Nat, v, G)
    BY <1>2, Recursion
  <1>5. \A i \in 1 .. k : i - 1 \in 0 .. k /\ f[i - 1] \in Nat
    BY <1>4 DEF Solution
  <1>6. \A i \in 1 .. k : f[i] = f[i - 1] \div r
    BY <1>3, <1>4, <1>5 DEF Solution
  <1>7. Eq(f)
    BY <1>4, <1>6 DEF Solution
  <1>8. Eq(Shifts(v, r, k))
    BY <1>7, Zenon DEF Shifts
  <1> DEFINE s == Shifts(v, r, k)
  <1>9. s = [i \in 0 .. k |-> IF i = 0 THEN v ELSE s[i - 1] \div r]
    BY <1>8
  <1> HIDE DEF s
  <1>10. s[0] = v /\ \A i \in 1 .. k : s[i] = s[i - 1] \div r
    BY <1>9
  <1>11. DOMAIN s = 0 .. k /\ s = [i \in 0 .. k |-> s[i]]
    BY <1>9
  <1>12. \A i \in 0 .. k : s[i] \in Nat
    <2> DEFINE Good == {i \in 0 .. k : s[i] \in Nat}
    <2>1. 0 \in Good
      BY <1>10
    <2>2. ASSUME NEW i \in 1 .. k, i - 1 \in Good PROVE i \in Good
      <3>1. s[i - 1] \in Nat /\ i \in 0 .. k /\ s[i] = s[i - 1] \div r
        BY <1>10, <2>2
      <3> QED
        BY <1>1, <3>1
    <2> HIDE DEF Good
    <2>3. \A i \in 0 .. k : i \in Good
      BY <2>1, <2>2, UpTo
    <2> QED
      BY <2>3 DEF Good
  <1> QED
    BY <1>10, <1>11, <1>12 DEF s

\* One digit after the other.
LEMMA RadixStep ==
    ASSUME NEW d \in Seq(Nat), NEW r \in Radices
    PROVE  /\ from_str_radix(d, r)[0] = 0
           /\ \A i \in 0 .. Len(d) : from_str_radix(d, r)[i] \in Nat
           /\ \A i \in 1 .. Len(d) :
                 from_str_radix(d, r)[i] = from_str_radix(d, r)[i - 1] * r + d[i]
  <1> DEFINE k == Len(d)
             Eq(s) == s = [i \in 0 .. k |-> IF i = 0 THEN 0 ELSE s[i - 1] * r + d[i]]
             G == [i \in 1 .. k |-> [x \in Nat |-> x * r + d[i]]]
  <1>0. k \in Nat /\ \A i \in 1 .. k : d[i] \in Nat
    BY LenProperties, ElementOfSeq
  <1> HIDE DEF k
  <1>1. \A i \in 1 .. k : \A x \in Nat : x * r + d[i] \in Nat
    BY <1>0 DEF Radices
  <1>2. G \in [1 .. k -> [Nat -> Nat]]
    BY <1>1
  <1>3. \A i \in 1 .. k : \A x \in Nat : G[i][x] = x * r + d[i]
    OBVIOUS
  <1> HIDE DEF G
  <1>4. PICK f : Solution(f, k, Nat, 0, G)
    <2>1. 0 \in Nat
      OBVIOUS
    <2> QED
      BY <1>0, <1>2, <2>1, Recursion
  <1>5. \A i \in 1 .. k : i - 1 \in 0 .. k /\ f[i - 1] \in Nat
    BY <1>0, <1>4 DEF Solution
  <1>6. \A i \in 1 .. k : f[i] = f[i - 1] * r + d[i]
    BY <1>3, <1>4, <1>5 DEF Solution
  <1>7. Eq(f)
    BY <1>0, <1>4, <1>6 DEF Solution
  <1>8. Eq(from_str_radix(d, r))
    BY <1>7, Zenon DEF from_str_radix, k
  <1> DEFINE s == from_str_radix(d, r)
  <1>9. s = [i \in 0 .. k |-> IF i = 0 THEN 0 ELSE s[i - 1] * r + d[i]]
    BY <1>8
  <1> HIDE DEF s
  <1>10. s[0] = 0 /\ \A i \in 1 .. k : s[i] = s[i - 1] * r + d[i]
    BY <1>0, <1>9
  <1>11. \A i \in 0 .. k : s[i] \in Nat
    <2> DEFINE Good == {i \in 0 .. k : s[i] \in Nat}
    <2>1. 0 \in Good
      BY <1>0, <1>10
    <2>2. ASSUME NEW i \in 1 .. k, i - 1 \in Good PROVE i \in Good
      <3>1. s[i - 1] \in Nat /\ i \in 0 .. k /\ s[i] = s[i - 1] * r + d[i]
        BY <1>0, <1>10, <2>2
      <3> QED
        BY <1>1, <3>1
    <2> HIDE DEF Good
    <2>3. \A i \in 0 .. k : i \in Good
      BY <1>0, <2>1, <2>2, UpTo
    <2> QED
      BY <2>3 DEF Good
  <1> QED
    BY <1>10, <1>11 DEF s, k

\* from_str_radix reads the number that was written.
LEMMA ReadsWritten ==
    ASSUME NEW v \in Nat, NEW d \in Seq(Nat), NEW r \in Radices, Written(v, d, r)
    PROVE  from_str_radix(d, r)[Len(d)] = v
  <1> DEFINE n == Len(d)
             s == Shifts(v, r, n)
             h == from_str_radix(d, r)
             Good == {i \in 0 .. n : h[i] = s[n - i]}
  <1>1. n \in Nat
    BY LenProperties
  <1>2. /\ s \in [0 .. n -> Nat] /\ s[0] = v
        /\ \A i \in 1 .. n : s[i] = s[i - 1] \div r
    BY <1>1, ShiftsStep
  <1>3. /\ h[0] = 0 /\ \A i \in 1 .. n : h[i] = h[i - 1] * r + d[i]
    BY RadixStep
  <1>4. s[n] = 0 /\ \A i \in 1 .. n : d[i] = s[n - i] % r
    BY DEF Written
  <1> HIDE DEF n, s, h
  <1>5. 0 \in Good
    BY <1>1, <1>3, <1>4
  <1>6. ASSUME NEW i \in 1 .. n, i - 1 \in Good PROVE i \in Good
    <2> DEFINE x == s[n - i]
    <2>1. n - i \in 0 .. n /\ n - i + 1 \in 1 .. n /\ n - (i - 1) = n - i + 1 /\ i \in 0 .. n
      BY <1>1
    <2>2. x \in Nat /\ s[n - i + 1] = x \div r
      <3>1. s[n - i + 1] = s[(n - i + 1) - 1] \div r /\ (n - i + 1) - 1 = n - i
        BY <1>1, <1>2, <2>1
      <3> QED
        BY <1>2, <2>1, <3>1
    <2>3. h[i] = (x \div r) * r + (x % r)
      BY <1>3, <1>4, <1>6, <2>1, <2>2
    <2> HIDE DEF x
    <2>4. (x \div r) * r + (x % r) = x
      BY <2>2 DEF Radices
    <2> QED
      BY <2>1, <2>3, <2>4 DEF x
  <1>7. n \in Good
    <2>1. n \in 0 .. n
      BY <1>1
    <2> HIDE DEF Good
    <2> QED
      BY <1>1, <1>5, <1>6, <2>1, UpTo
  <1> QED
    BY <1>1, <1>2, <1>7 DEF n, s, h

\* Shifting by octets is dividing by a power of 256.
LEMMA OctetShifts ==
    ASSUME NEW v \in Nat, NEW k \in 0 .. 4
    PROVE  \A j \in 0 .. k : Shifts(v, 256, k)[j] = v \div 256 ^ j
  <1> DEFINE s == Shifts(v, 256, k)
  <1>1. s[0] = v /\ \A i \in 1 .. k : s[i] = s[i - 1] \div 256
    <2> DEFINE r == 256
    <2>1. r \in Radices /\ k \in Nat
      BY DEF Radices
    <2> HIDE DEF r
    <2>2. Shifts(v, r, k)[0] = v /\ \A i \in 1 .. k : Shifts(v, r, k)[i] = Shifts(v, r, k)[i - 1] \div r
      BY <2>1, ShiftsStep
    <2> QED
      BY <2>2 DEF r
  <1> HIDE DEF s
  <1>2. k >= 1 => s[1] = v \div 256
    BY <1>1
  <1>3. k >= 2 => s[2] = v \div 65536
    BY <1>1, <1>2
  <1>4. k >= 3 => s[3] = v \div 16777216
    <2>1. k >= 3 => s[3] = (v \div 65536) \div 256
      BY <1>1, <1>3
    <2> QED
      BY <2>1
  <1>5. k >= 4 => s[4] = v \div 4294967296
    <2>1. k >= 4 => s[4] = (v \div 16777216) \div 256
      BY <1>1, <1>4
    <2> QED
      BY <2>1
  <1>6. /\ 256 ^ 0 = 1 /\ 256 ^ 1 = 256 /\ 256 ^ 2 = 65536
        /\ 256 ^ 3 = 16777216 /\ 256 ^ 4 = 4294967296
    OBVIOUS
  <1>7. v \div 1 = v
    OBVIOUS
  <1>8. ASSUME NEW j \in 0 .. k PROVE s[j] = v \div 256 ^ j
    <2>1. CASE j = 0
      BY <1>1, <1>6, <1>7, <2>1
    <2>2. CASE j = 1
      BY <1>2, <1>6, <2>2
    <2>3. CASE j = 2
      BY <1>3, <1>6, <2>3
    <2>4. CASE j = 3
      BY <1>4, <1>6, <2>4
    <2>5. CASE j = 4
      BY <1>5, <1>6, <2>5
    <2> QED
      BY <2>1, <2>2, <2>3, <2>4, <2>5
  <1> QED
    BY <1>8 DEF s

\* A label is read as the number it spells, if that has 32 bits.
LEMMA ComponentReads ==
    ASSUME NEW raw, IsRemote(raw), NEW i \in DOMAIN raw.values
    PROVE  /\ raw.values[i] \in Nat \cup {NotANumber}
           /\ parse_ipv4_component(raw.host.labels[i]) =
                 IF raw.values[i] \in Nat /\ raw.values[i] \div 65536 < 65536
                 THEN raw.values[i] ELSE NotANumber
  <1> DEFINE l == raw.host.labels[i]
             v == raw.values[i]
  <1>1. /\ v \in Nat \cup {NotANumber} /\ IsLabel(l)
        /\ IF Digital(l) THEN v \in Nat /\ Written(v, l.digits, Radix(l.form)) ELSE v = NotANumber
    <2>1. raw.values \in Seq(Nat \cup {NotANumber})
      BY DEF IsRemote
    <2>2. v \in Nat \cup {NotANumber}
      BY <2>1, ElementOfSeq, LenProperties
    <2> QED
      BY <2>2 DEF IsRemote
  <1>2. l.digits \in Seq(Nat)
    <2>1. l.digits \in Seq(0 .. 99) /\ 0 .. 99 \subseteq Nat
      BY <1>1 DEF IsLabel
    <2> QED
      BY <2>1, SeqMonotonic
  <1>3. Radix(l.form) \in Radices
    BY DEF Radix, Radices
  <1> HIDE DEF l, v
  <1>4. Digital(l) => from_str_radix(l.digits, Radix(l.form))[Len(l.digits)] = v
    BY <1>1, <1>2, <1>3, ReadsWritten
  <1>5. NotANumber \notin Nat
    BY DEF NotANumber
  <1>6. parse_ipv4_component(l) = IF v \in Nat /\ v \div 65536 < 65536 THEN v ELSE NotANumber
    BY <1>1, <1>4, <1>5 DEF parse_ipv4_component
  <1> QED
    BY <1>1, <1>6 DEF l, v

\* An address in one to four numbers is read as the address it is.
LEMMA LooseSpells ==
    ASSUME NEW raw, IsRemote(raw), NEW x \in [1 .. 4 -> Octet], InetAton(raw.values, x)
    PROVE  ipv4_of_parts(raw.host.labels) = x
  <1> DEFINE n == Len(raw.values)
             v == raw.values[n]
             k == 5 - n
             d == SubSeq(x, n, 4)
             num == [i \in 1 .. n |-> parse_ipv4_component(raw.host.labels[i])]
             last == LastOctets(v, k)
  <1>1. /\ n \in 1 .. 4 /\ \A i \in 1 .. n - 1 : raw.values[i] = x[i]
        /\ v \in Nat /\ Written(v, d, 256)
    BY DEF InetAton
  <1>2. DOMAIN raw.values = 1 .. n /\ Len(raw.host.labels) = n
    BY LenProperties DEF IsRemote
  <1> HIDE DEF n, v, d, num, last
  <1>3. x \in Seq(Nat) /\ Len(x) = 4 /\ \A i \in 1 .. 4 : x[i] \in Nat /\ x[i] <= 255
    <2>1. \A i \in 1 .. 4 : x[i] \in Octet
      OBVIOUS
    <2>2. \A i \in 1 .. 4 : x[i] \in Nat /\ x[i] <= 255
      BY <2>1 DEF Octet
    <2>3. x = [i \in 1 .. 4 |-> x[i]]
      OBVIOUS
    <2> HIDE DEF Octet
    <2> QED
      BY <2>2, <2>3
  <1>4. Len(d) = k /\ \A i \in 1 .. k : d[i] = x[n + i - 1]
    BY <1>1, <1>3 DEF d
  <1>6. k \in 1 .. 4
    BY <1>1
  <1> HIDE DEF k
  <1>5. /\ Shifts(v, 256, k)[k] = 0 /\ \A i \in 1 .. k : d[i] = Shifts(v, 256, k)[k - i] % 256
    BY <1>1, <1>4, ZenonT(60) DEF Written
  <1> USE DEF num, last
  <1>7. \A j \in 0 .. k : Shifts(v, 256, k)[j] = v \div 256 ^ j
    <2>1. k \in 0 .. 4
      BY <1>6
    <2> QED
      BY <1>1, <2>1, OctetShifts, ZenonT(60)
  <1>8. v \div 256 ^ k = 0 /\ \A i \in 1 .. k : d[i] = (v \div 256 ^ (k - i)) % 256
    BY <1>5, <1>6, <1>7
  <1>9. v < 256 ^ k /\ 256 ^ k \in Nat /\ v < 4294967296
    <2>1. CASE k = 1
      BY <1>1, <1>8, <2>1
    <2>2. CASE k = 2
      BY <1>1, <1>8, <2>2
    <2>3. CASE k = 3
      BY <1>1, <1>8, <2>3
    <2>4. CASE k = 4
      BY <1>1, <1>8, <2>4
    <2> QED
      BY <1>6, <2>1, <2>2, <2>3, <2>4
  <1>10. \A i \in 1 .. n : num[i] = raw.values[i]
    <2> TAKE i \in 1 .. n
    <2>1. parse_ipv4_component(raw.host.labels[i]) =
             IF raw.values[i] \in Nat /\ raw.values[i] \div 65536 < 65536
             THEN raw.values[i] ELSE NotANumber
      BY <1>2, ComponentReads
    <2>2. raw.values[i] \in Nat /\ raw.values[i] < 4294967296
      <3>1. CASE i = n
        BY <1>1, <1>9, <3>1 DEF v
      <3>2. CASE i # n
        BY <1>1, <1>3, <3>2, SMTT(40)
      <3> QED
        BY <3>1, <3>2
    <2>3. raw.values[i] \div 65536 < 65536
      BY <2>2
    <2> QED
      BY <2>1, <2>2, <2>3
  <1>11. num \in Seq(Nat) /\ Len(num) = n
    <2>1. \A i \in 1 .. n : num[i] \in Nat
      <3> TAKE i \in 1 .. n
      <3>1. CASE i = n
        BY <1>1, <1>10, <3>1 DEF v
      <3>2. CASE i # n
        BY <1>1, <1>3, <1>10, <3>2, SMTT(40)
      <3> QED
        BY <3>1, <3>2
    <2> QED
      BY <1>1, <2>1
  <1> HIDE DEF num
  <1>12. last \in Seq(Nat) /\ Len(last) = k /\ \A i \in 1 .. k : last[i] = x[n + i - 1]
    <2>1. last = [i \in 1 .. k |-> (v \div 256 ^ (k - i)) % 256]
      BY DEF LastOctets, last
    <2>2. \A i \in 1 .. k : (v \div 256 ^ (k - i)) % 256 = x[n + i - 1]
      BY <1>4, <1>8
    <2>3. \A i \in 1 .. k : x[n + i - 1] \in Nat
      BY <1>1, <1>3, SMTT(40) DEF k
    <2> QED
      BY <1>6, <2>1, <2>2, <2>3, SMTT(40)
  <1> HIDE DEF last
  <1> DEFINE first == SubSeq(num, 1, n - 1)
  <1>13. first \in Seq(Nat) /\ Len(first) = n - 1 /\ \A i \in 1 .. n - 1 : first[i] = x[i]
    <2>1. \A i \in 1 .. n - 1 : num[i] = x[i] /\ num[i] \in Nat
      BY <1>1, <1>3, <1>10, SMTT(40)
    <2> QED
      BY <1>1, <1>11, <2>1, SMTT(40)
  <1>14. first \o last = x
    <2> HIDE DEF first
    <2>1. /\ first \o last \in Seq(Nat) /\ Len(first \o last) = 4
          /\ \A i \in 1 .. 4 : (first \o last)[i] = IF i <= n - 1 THEN first[i] ELSE last[i - (n - 1)]
      <3>1. /\ first \o last \in Seq(Nat) /\ Len(first \o last) = Len(first) + Len(last)
            /\ \A i \in 1 .. Len(first) + Len(last) :
                  (first \o last)[i] = IF i <= Len(first) THEN first[i] ELSE last[i - Len(first)]
        BY <1>12, <1>13, ConcatProperties
      <3>2. Len(first) + Len(last) = 4
        BY <1>1, <1>12, <1>13 DEF k
      <3> QED
        BY <1>13, <3>1, <3>2
    <2>2. \A i \in 1 .. 4 : (first \o last)[i] = x[i]
      <3> TAKE i \in 1 .. 4
      <3>1. CASE i <= n - 1
        BY <1>1, <1>13, <2>1, <3>1, SMTT(40)
      <3>2. CASE ~(i <= n - 1)
        <4>1. i - (n - 1) \in 1 .. k /\ n + (i - (n - 1)) - 1 = i
          BY <1>1, <3>2 DEF k
        <4> QED
          BY <1>12, <2>1, <3>2, <4>1
      <3> QED
        BY <3>1, <3>2
    <2>3. x \in Seq(Nat) /\ Len(x) = 4
      BY <1>3
    <2> QED
      BY <2>1, <2>2, <2>3, SeqEqual
  <1>15. /\ \A i \in 1 .. n : num[i] # NotANumber
         /\ \A i \in 1 .. n - 1 : num[i] <= 255
         /\ n > 1 => num[n] < 256 ^ (5 - n)
    <2>1. NotANumber \notin Nat
      BY DEF NotANumber
    <2>2. \A i \in 1 .. n : num[i] \in Nat
      BY <1>11, ElementOfSeq
    <2>3. num[n] = v
      BY <1>1, <1>10 DEF v
    <2>4. \A i \in 1 .. n - 1 : num[i] <= 255
      BY <1>1, <1>3, <1>10, SMTT(40)
    <2> QED
      BY <1>9, <2>1, <2>2, <2>3, <2>4 DEF k
  <1>16. num[n] = v
    BY <1>1, <1>10 DEF v
  <1> QED
    BY <1>1, <1>2, <1>14, <1>15, <1>16 DEF ipv4_of_parts, num, last, first, k

\* Nothing else is read as an address.
LEMMA LooseSpellsNot ==
    ASSUME NEW raw, IsRemote(raw), NotInetAton(raw.values)
    PROVE  ipv4_of_parts(raw.host.labels) = NoIP
  <1> DEFINE n == Len(raw.values)
             v == raw.values[n]
             num == [i \in 1 .. n |-> parse_ipv4_component(raw.host.labels[i])]
             Fits == /\ n \in 1 .. 4
                     /\ \A i \in 1 .. n : num[i] # NotANumber
                     /\ \A i \in 1 .. n - 1 : num[i] <= 255
                     /\ n > 1 => num[n] < 256 ^ (5 - n)
  <1>1. DOMAIN raw.values = 1 .. n /\ Len(raw.host.labels) = n /\ n \in Nat
    BY LenProperties DEF IsRemote
  <1>2. \A i \in 1 .. n : /\ raw.values[i] \in Nat \cup {NotANumber}
                          /\ num[i] = IF raw.values[i] \in Nat /\ raw.values[i] \div 65536 < 65536
                                      THEN raw.values[i] ELSE NotANumber
    BY <1>1, ComponentReads
  <1> HIDE DEF n, num
  <1>3. ASSUME Fits PROVE FALSE
    <2>1. \A i \in 1 .. n : num[i] = raw.values[i] /\ raw.values[i] \in Nat
                            /\ raw.values[i] \div 65536 < 65536
      BY <1>2, <1>3
    <2>3. NotInetAton(raw.values)
      OBVIOUS
    <2>4. NotANumber \notin ToSet(raw.values)
      BY <1>1, <2>1 DEF ToSet, NotANumber
    <2>5. ~ \E i \in 1 .. n - 1 : raw.values[i] > 255
      BY <1>1, <1>3, <2>1
    <2>6. Shifts(v, 256, 5 - n)[5 - n] # 0
      <3>1. n \in 1 .. 4
        BY <1>3
      <3> QED
        BY <2>3, <2>4, <2>5, <3>1, Zenon DEF NotInetAton, n
    <2> DEFINE k == 5 - n
    <2>7. k \in 0 .. 4 /\ k \in 0 .. k
      BY <1>3
    <2>8. v \in Nat /\ v \div 65536 < 65536 /\ v = num[n]
      BY <1>3, <2>1
    <2> HIDE DEF k, v
    <2>9. Shifts(v, 256, k)[k] = v \div 256 ^ k
      <3>0. v \in Nat /\ k \in 0 .. 4
        BY <2>7, <2>8
      <3>1. \A j \in 0 .. k : Shifts(v, 256, k)[j] = v \div 256 ^ j
        BY ONLY <3>0, OctetShifts, ZenonT(60)
      <3> QED
        BY <2>7, <3>1
    <2>10. v \div 256 ^ k = 0
      <3>1. CASE n = 1
        <4>1. 256 ^ k = 4294967296
          BY <3>1 DEF k
        <4> QED
          BY <2>8, <4>1
      <3>2. CASE n = 2
        <4>1. 256 ^ k = 16777216 /\ v < 16777216
          BY <1>3, <2>8, <3>2 DEF k
        <4> QED
          BY <2>8, <4>1
      <3>3. CASE n = 3
        <4>1. 256 ^ k = 65536 /\ v < 65536
          BY <1>3, <2>8, <3>3 DEF k
        <4> QED
          BY <2>8, <4>1
      <3>4. CASE n = 4
        <4>1. 256 ^ k = 256 /\ v < 256
          BY <1>3, <2>8, <3>4 DEF k
        <4> QED
          BY <2>8, <4>1
      <3> QED
        BY <1>3, <3>1, <3>2, <3>3, <3>4
    <2> QED
      BY <2>6, <2>9, <2>10 DEF k
  <1> QED
    BY <1>1, <1>3 DEF ipv4_of_parts, num, n

-----------------------------------------------------------------------------
(* Destinations. *)

\* The parts of a host are read as the address that they spell, and as none if
\* they spell none.
LEMMA PartsSpell ==
    ASSUME NEW raw, IsRemote(raw)
    PROVE  /\ raw.host.v6 = NoIP => /\ ipv4_of_parts(raw.host.labels) = raw.spells
                                    /\ raw.spells = NoIP \/ raw.spells \in [1 .. 4 -> Octet]
           /\ raw.host.v6 # NoIP => ipv4_of_parts(raw.host.labels) = NoIP
  <1>1. CASE raw.host.v6 # NoIP
    <2>1. raw.values = <<>>
      BY <1>1 DEF IsRemote
    <2>2. NotInetAton(raw.values)
      BY <2>1 DEF NotInetAton
    <2> QED
      BY <1>1, <2>2, LooseSpellsNot
  <1>2. CASE raw.host.v6 = NoIP
    <2>1. CASE NotInetAton(raw.values)
      BY <1>2, <2>1, LooseSpellsNot DEF IsRemote
    <2>2. CASE ~NotInetAton(raw.values)
      <3>1. raw.spells \in [1 .. 4 -> Octet] /\ InetAton(raw.values, raw.spells)
        BY <1>2, <2>2 DEF IsRemote
      <3> QED
        BY <1>2, <3>1, LooseSpells
    <2> QED
      BY <2>1, <2>2
  <1> QED
    BY <1>1, <1>2

\* A host is read as a form of the address that it spells or as none, and as
\* none only if it spells none or is dressed up.
LEMMA LiteralIsSpelled ==
    ASSUME NEW raw, IsRemote(raw)
    PROVE  LET ip == parse_literal(raw.host) IN
           /\ ip # NoIP => /\ ip \in Forms(raw.spells) /\ raw.spells # NoIP
                           /\ ip \in Address /\ unmapped(ip) = raw.spells
           /\ ip = NoIP /\ Noticed(raw) => raw.spells = NoIP
  <1> DEFINE ip == parse_literal(raw.host)
  <1>1. CASE raw.host.v6 # NoIP
    <2> DEFINE c == [ip |-> raw.host.v6, plain |-> raw.spells]
    <2>1. IsClient(c)
      BY <1>1 DEF IsRemote
    <2>2. c.ip \in Address /\ unmapped(c.ip) = c.plain
      BY <2>1, PlainIsUnmapped
    <2>3. c.plain \in Address
      BY <2>2, UnmappedShape
    <2>4. c.plain # NoIP
      BY <2>3, AddressIsSome
    <2>5. c.ip \in Forms(c.plain)
      <3>1. CASE c.plain = c.ip
        BY <3>1 DEF Forms
      <3>2. CASE c.plain \in [1 .. 4 -> Octet] /\
                   c.ip = MappedPrefix \o <<c.plain[1] * 256 + c.plain[2], c.plain[3] * 256 + c.plain[4]>>
        <4>1. IsV4(c.plain)
          BY <3>2, LenOf DEF IsV4
        <4>2. c.ip = MappedPrefix \o InSegments(c.plain)
          BY <3>2, Zenon DEF InSegments
        <4> HIDE DEF c
        <4> QED
          BY <4>1, <4>2, Zenon DEF Forms
      <3> QED
        BY <2>1, <3>1, <3>2 DEF IsClient
    <2>6. ipv4_of_parts(raw.host.labels) = NoIP
      BY <1>1, PartsSpell
    <2>7. ip = IF ~raw.host.dot /\ ~raw.host.blank THEN raw.host.v6 ELSE NoIP
      BY <1>1, <2>6 DEF parse_literal, parse_loose_ipv4
    <2>8. ip = NoIP /\ Noticed(raw) => raw.spells = NoIP
      BY <1>1, <2>7 DEF Noticed, AsIs
    <2> HIDE DEF ip
    <2> QED
      BY <2>2, <2>4, <2>5, <2>7, <2>8 DEF ip
  <1>2. CASE raw.host.v6 = NoIP
    <2> DEFINE x == raw.spells
    <2>1. ip = IF AsIs(raw) THEN ipv4_of_parts(raw.host.labels) ELSE NoIP
      BY <1>2 DEF parse_literal, parse_loose_ipv4, AsIs
    <2>2. ipv4_of_parts(raw.host.labels) = x /\ (x = NoIP \/ x \in [1 .. 4 -> Octet])
      BY <1>2, PartsSpell
    <2>3. ip = NoIP /\ Noticed(raw) => x = NoIP
      BY <2>1, <2>2 DEF Noticed
    <2> HIDE DEF ip, x
    <2>4. x # NoIP => x \in Forms(x) /\ x \in Address /\ unmapped(x) = x
      <3> HAVE x # NoIP
      <3>1. x \in Address /\ Len(x) = 4
        BY <2>2, LenOf DEF Address
      <3> QED
        BY <3>1 DEF IsV4, Forms, unmapped
    <2> QED
      BY <2>1, <2>2, <2>3, <2>4 DEF ip, x
  <1> QED
    BY <1>1, <1>2

\* An address is recognised in every notation that is read, as the address
\* it is, unless there is something around it or it has more than 32
\* characters; no name is taken for an address, and no address for another.
THEOREM LiteralsAlwaysSeen == Spec => []LiteralsSeen
  <1>1. Configured /\ Recorded => LiteralsSeen
    <2> DEFINE raw == asked.remote
               ip == parse_literal(raw.host)
    <2> SUFFICES ASSUME Configured, Recorded, Judged, reply.remote.ok
                 PROVE  /\ Noticed(raw) => reply.remote.ip_literal \in Forms(raw.spells)
                        /\ reply.remote.ip_literal \in {NoIP} \cup Forms(raw.spells)
      BY DEF LiteralsSeen
    <2>1. IsRemote(raw) /\ reply.remote = parse_remote(raw)
      BY GatewayAssumption DEF Configured, Recorded, IsRequest
    <2>2. reply.remote.ip_literal = ip
      <3>1. parse_remote(raw).ok
        BY <2>1
      <3> QED
        BY <2>1, <3>1, ParsedRemote
    <2>3. (ip # NoIP => ip \in Forms(raw.spells)) /\ (ip = NoIP /\ Noticed(raw) => raw.spells = NoIP)
      BY <2>1, LiteralIsSpelled
    <2>4. NoIP \in Forms(NoIP)
      BY DEF Forms, NoIP, IsV4
    <2> HIDE DEF ip
    <2> QED
      BY <2>2, <2>3, <2>4
  <1> QED
    BY <1>1, AlwaysConfigured, AlwaysRecorded, PTL

\* For every environment and every request: what a release build lets
\* through, started without MAILINER_UNSAFE, is bound by every restriction
\* that main promises to insist on; of the addresses, by those that parse_remote
\* takes for what the resolver takes them for.
THEOREM AlwaysRestricted == Spec => []ReleaseIsRestricted
  <1>1. Init => Passed
    BY DEF Init, Passed
  <1>2. Configured /\ Recorded /\ Passed => ReleaseIsRestricted
    <2> SUFFICES ASSUME Configured, Recorded, Passed, build = "release", env.unsafe # "on", Admitted
                 PROVE  /\ reply.remote.port \in {143, 465, 587, 993} \cup Listed(env.allowed_ports)
                        /\ Noticed(asked.remote) => asked.remote.spells = NoIP
                        /\ pc = "relaying" /\ reply.remote.port \in {465, 993} =>
                              Sniffed(asked, reply.remote) = "Ok"
                        /\ \A cap \in Caps : config.number[cap] # 0
      BY PageIsListed DEF ReleaseIsRestricted
    <2>1. check_policy(reply.remote, config.dest) = "Ok"
      BY DEF Passed, Admitted
    <2>2. reply.remote.port \in config.dest.allowed_ports.set
      BY <2>1, StartedSafely DEF check_policy, port_allowed
    <2>3. Noticed(asked.remote) => asked.remote.spells = NoIP
      <3>1. reply.remote.ip_literal = NoIP
        BY <2>1, StartedSafely DEF check_policy
      <3>2. IsRemote(asked.remote) /\ reply.remote = parse_remote(asked.remote)
        BY GatewayAssumption DEF Configured, Recorded, IsRequest, Admitted, Judged
      <3>3. parse_remote(asked.remote).ok
        BY <3>2 DEF Passed, Admitted
      <3>4. reply.remote.ip_literal = parse_literal(asked.remote.host)
        BY <3>2, <3>3, ParsedRemote
      <3> QED
        BY <3>1, <3>2, <3>4, LiteralIsSpelled
    <2>4. pc = "relaying" /\ reply.remote.port \in {465, 993} => Sniffed(asked, reply.remote) = "Ok"
      <3> SUFFICES ASSUME pc = "relaying", reply.remote.port \in {465, 993}
                   PROVE  Sniffed(asked, reply.remote) = "Ok"
        OBVIOUS
      <3>1. probe_for_port(465) = "TlsSni" /\ probe_for_port(993) = "TlsSni"
        BY DEF probe_for_port
      <3>2. probe_for_port(reply.remote.port) = "TlsSni"
        BY <3>1
      <3> QED
        BY <3>2, StartedSafely, ZenonT(60) DEF Passed
    <2>5. config.dest.allowed_ports.set \subseteq DEFAULT_ALLOWED_PORTS \cup Listed(env.allowed_ports)
      BY ListedPorts DEF Admitted
    <2>6. DEFAULT_ALLOWED_PORTS = {143, 465, 587, 993}
      BY DEF DEFAULT_ALLOWED_PORTS
    <2>7. \A cap \in Caps : config.number[cap] # 0
      BY StartedSafely
    <2>8. reply.remote.port \in {143, 465, 587, 993} \cup Listed(env.allowed_ports)
      BY <2>2, <2>5, <2>6
    <2> QED
      BY <2>3, <2>4, <2>7, <2>8
  <1> QED
    BY <1>1, <1>2, PassedStep, AlwaysConfigured, AlwaysRecorded, PTL DEF Spec

\* The digits of an octet.
LEMMA OctetDigits ==
    ASSUME NEW v \in 0 .. 255
    PROVE  LET q == v \div 10 h == v \div 100 IN
           /\ q \in 0 .. 25 /\ h \in 0 .. 2 /\ v % 10 \in 0 .. 9 /\ q % 10 \in 0 .. 9
           /\ q \div 10 = h /\ h \div 10 = 0 /\ h % 10 = h
           /\ v = q * 10 + (v % 10) /\ q = h * 10 + (q % 10)
           /\ v < 10 <=> q = 0
           /\ v < 100 <=> h = 0
           /\ h = 0 => q % 10 = q
           /\ q = 0 => v % 10 = v
  <1> DEFINE q == v \div 10
             h == v \div 100
  <1>1. v = q * 10 + (v % 10)
    OBVIOUS
  <1>13. v % 10 \in 0 .. 9
    OBVIOUS
  <1>2. q \in 0 .. 25
    OBVIOUS
  <1>3. h \in 0 .. 2
    OBVIOUS
  <1>4. (v \div 10) \div 10 = h
    OBVIOUS
  <1>5. h \div 10 = 0
    BY <1>3
  <1>6. h % 10 = h
    BY <1>3
  <1>7. v < 100 <=> h = 0
    OBVIOUS
  <1> HIDE DEF h
  <1>8. v < 10 <=> q = 0
    OBVIOUS
  <1>9. q = 0 => v % 10 = v
    OBVIOUS
  <1>10. q \div 10 = h
    BY <1>4
  <1> HIDE DEF q
  <1>11. q % 10 \in 0 .. 9 /\ q = h * 10 + (q % 10)
    BY <1>2, <1>10
  <1>12. h = 0 => q % 10 = q
    BY <1>2, <1>11
  <1> QED
    BY <1>1, <1>2, <1>3, <1>5, <1>6, <1>7, <1>8, <1>9, <1>10, <1>11, <1>12, <1>13, Zenon DEF q, h

\* What Decimal(v) reads as.
LEMMA DecimalReads ==
    ASSUME NEW v \in 0 .. 255
    PROVE  /\ Decimal(v) \in Seq(Nat) /\ Decimal(v) # <<>>
           /\ \A i \in DOMAIN Decimal(v) : Decimal(v)[i] < 10
           /\ from_str_radix(Decimal(v), 10)[Len(Decimal(v))] = v
  <1> DEFINE d == Decimal(v)
             h == from_str_radix(d, 10)
  <1>1. d \in Seq(Nat) =>
           h[0] = 0 /\ \A i \in 1 .. Len(d) : h[i] = h[i - 1] * 10 + d[i]
    <2> DEFINE r == 10
    <2>1. r \in Radices
      BY DEF Radices
    <2> HIDE DEF r
    <2>2. d \in Seq(Nat) =>
             /\ from_str_radix(d, r)[0] = 0
             /\ \A i \in 1 .. Len(d) : from_str_radix(d, r)[i] = from_str_radix(d, r)[i - 1] * r + d[i]
      BY <2>1, RadixStep
    <2> QED
      BY <2>2 DEF r
  <1> HIDE DEF h, d
  <1>2. CASE v < 10
    <2>1. d = <<v>>
      BY <1>2 DEF d, Decimal
    <2>2. d \in Seq(Nat) /\ Len(d) = 1 /\ d[1] = v
      BY <2>1
    <2>3. h[1] = h[0] * 10 + d[1] /\ h[0] = 0
      BY <1>1, <2>2
    <2>4. h[Len(d)] = v /\ d # <<>> /\ DOMAIN d = 1 .. 1
      BY <2>1, <2>2, <2>3
    <2>5. \A i \in DOMAIN d : d[i] < 10
      BY <1>2, <2>2, <2>4
    <2> QED
      BY <2>2, <2>4, <2>5 DEF d, h
  <1>3. CASE ~(v < 10) /\ v < 100
    <2>1. d = <<v \div 10, v % 10>>
      BY <1>3 DEF d, Decimal
    <2>2. v \div 10 \in 0 .. 9 /\ v % 10 \in 0 .. 9 /\ (v \div 10) * 10 + (v % 10) = v
      BY <1>3
    <2>3. d \in Seq(Nat) /\ Len(d) = 2 /\ d[1] = v \div 10 /\ d[2] = v % 10
      BY <2>1, <2>2
    <2>4. h[2] = h[1] * 10 + d[2] /\ h[1] = h[0] * 10 + d[1] /\ h[0] = 0
      BY <1>1, <2>3
    <2>5. h[Len(d)] = v /\ d # <<>> /\ DOMAIN d = 1 .. 2
      BY <2>1, <2>2, <2>3, <2>4
    <2>6. \A i \in DOMAIN d : d[i] < 10
      BY <2>2, <2>3, <2>5
    <2> QED
      BY <2>3, <2>5, <2>6 DEF d, h
  <1>4. CASE ~(v < 10) /\ ~(v < 100)
    <2>1. d = <<v \div 100, (v \div 10) % 10, v % 10>>
      BY <1>4 DEF d, Decimal
    <2>2. /\ v \div 100 \in 0 .. 9 /\ (v \div 10) % 10 \in 0 .. 9 /\ v % 10 \in 0 .. 9
          /\ ((v \div 100) * 10 + ((v \div 10) % 10)) * 10 + (v % 10) = v
      <3>1. /\ v \div 100 \in 0 .. 9 /\ (v \div 10) % 10 \in 0 .. 9 /\ v % 10 \in 0 .. 9
            /\ v = (v \div 10) * 10 + (v % 10) /\ v \div 10 = (v \div 100) * 10 + ((v \div 10) % 10)
        BY OctetDigits
      <3> QED
        BY <3>1, Zenon
    <2>3. d \in Seq(Nat) /\ Len(d) = 3 /\ d[1] = v \div 100 /\ d[2] = (v \div 10) % 10 /\ d[3] = v % 10
      BY <2>1, <2>2
    <2>4. h[3] = h[2] * 10 + d[3] /\ h[2] = h[1] * 10 + d[2] /\ h[1] = h[0] * 10 + d[1] /\ h[0] = 0
      BY <1>1, <2>3
    <2>5. h[Len(d)] = v /\ d # <<>> /\ DOMAIN d = 1 .. 3
      BY <2>1, <2>2, <2>3, <2>4
    <2>6. \A i \in DOMAIN d : d[i] < 10
      BY <2>2, <2>3, <2>5
    <2> QED
      BY <2>3, <2>5, <2>6 DEF d, h
  <1> QED
    BY <1>2, <1>3, <1>4

\* The fields of a name.
LEMMA Normalized ==
    ASSUME NEW h, NEW v, NEW l, NEW d, NEW u, NEW b,
           h = [v6 |-> v, labels |-> l, dot |-> d, upper |-> u, blank |-> b]
    PROVE  normalize_hostname(h) =
              [v6 |-> v, labels |-> l, dot |-> FALSE, upper |-> FALSE, blank |-> FALSE]
  <1> DEFINE g == normalize_hostname(h)
             F == {"v6", "labels", "dot", "upper", "blank"}
  <1>1. DOMAIN g = DOMAIN h /\ g = [f \in DOMAIN h |-> g[f]]
    BY Zenon DEF normalize_hostname
  <1>2. g.v6 = v /\ g.labels = l
    BY DEF normalize_hostname
  <1>3. g.dot = FALSE /\ g.upper = FALSE /\ g.blank = FALSE
    BY DEF normalize_hostname
  <1>4. DOMAIN h = F
    OBVIOUS
  <1> HIDE DEF g
  <1> DEFINE r == [v6 |-> v, labels |-> l, dot |-> FALSE, upper |-> FALSE, blank |-> FALSE]
  <1>5. r.v6 = v /\ r.labels = l /\ r.dot = FALSE /\ r.upper = FALSE /\ r.blank = FALSE
    OBVIOUS
  <1>6. DOMAIN r = F /\ r = [f \in DOMAIN r |-> r[f]]
    OBVIOUS
  <1> HIDE DEF r
  <1>7. \A f \in F : g[f] = r[f]
    BY <1>2, <1>3, <1>5, Zenon
  <1>8. g = r
    BY <1>1, <1>4, <1>6, <1>7, Zenon
  <1> QED
    BY <1>8 DEF g, r

\* The text that an address is known by.
CanonicalHost(x) ==
    IF IsV4(x)
    THEN [NoHost EXCEPT !.labels = [i \in 1 .. 4 |-> [form |-> "dec", digits |-> Decimal(x[i])]]]
    ELSE [NoHost EXCEPT !.v6 = x]

\* What the host of an accepted `remote` is: the text of the address it was
\* taken for, which is the one it spells, or the name.
LEMMA KeptHost ==
    ASSUME NEW raw, IsRemote(raw), parse_remote(raw).ok
    PROVE  LET ip == parse_literal(raw.host) IN
           /\ dest_key(parse_remote(raw)) =
                 << IF ip # NoIP THEN CanonicalHost(raw.spells) ELSE normalize_hostname(raw.host),
                    raw.port >>
           /\ ip # NoIP => raw.spells \in Address
           /\ ip = NoIP => raw.host.v6 = NoIP
           /\ ip = NoIP /\ Noticed(raw) => raw.spells = NoIP
  <1> DEFINE ip == parse_literal(raw.host)
             x == raw.spells
             name == normalize_hostname(raw.host)
  <1>1. /\ ip # NoIP => ip \in Forms(x) /\ ip \in Address /\ unmapped(ip) = x
        /\ ip = NoIP /\ Noticed(raw) => x = NoIP
    BY LiteralIsSpelled
  <1>2. /\ parse_remote(raw) =
              [ok |-> TRUE, port |-> raw.port, ip_literal |-> ip,
               host |-> IF ip # NoIP THEN ip_canonical(ip) ELSE name]
        /\ ip = NoIP => is_valid_dns_hostname(name)
    BY ParsedRemote
  <1>3. ip = NoIP => raw.host.v6 = NoIP
    <2>1. name.v6 = raw.host.v6
      BY DEF normalize_hostname, IsRemote
    <2> HIDE DEF ip, name
    <2> QED
      BY <1>2, <2>1 DEF is_valid_dns_hostname
  <1> HIDE DEF ip, name, x
  <1>4. ip # NoIP => ip_canonical(ip) = CanonicalHost(x)
    <2> HAVE ip # NoIP
    <2>1. unmapped(ip) = x
      BY <1>1
    <2>2. CASE IsV4(x)
      BY <2>1, <2>2, Zenon DEF ip_canonical, CanonicalHost
    <2>3. CASE ~IsV4(x)
      <3>1. ip = x
        BY <1>1, <2>3 DEF Forms
      <3> QED
        BY <2>1, <2>3, <3>1, Zenon DEF ip_canonical, CanonicalHost
    <2> QED
      BY <2>2, <2>3
  <1>5. ip # NoIP => x \in Address
    BY <1>1, UnmappedShape
  <1>6. dest_key(parse_remote(raw)) = <<IF ip # NoIP THEN CanonicalHost(x) ELSE name, raw.port>>
    <2>1. dest_key(parse_remote(raw)) = <<IF ip # NoIP THEN ip_canonical(ip) ELSE name, raw.port>>
      BY <1>2 DEF dest_key
    <2> QED
      BY <1>4, <2>1, Zenon
  <1> QED
    BY <1>1, <1>3, <1>5, <1>6 DEF ip, x, name

\* Two addresses are known by one text only if they are one address.
LEMMA CanonicalHostInjective ==
    ASSUME NEW x \in Address, NEW y \in Address, CanonicalHost(x) = CanonicalHost(y)
    PROVE  x = y
  <1>1. x # NoIP /\ y # NoIP
    BY AddressIsSome
  <1>2. CASE IsV4(x) /\ IsV4(y)
    <2>1. x \in [1 .. 4 -> Octet] /\ y \in [1 .. 4 -> Octet]
      BY <1>2, AddressShape
    <2>2. \A i \in 1 .. 4 : Decimal(x[i]) = Decimal(y[i])
      <3>1. CanonicalHost(x).labels = [i \in 1 .. 4 |-> [form |-> "dec", digits |-> Decimal(x[i])]]
        BY <1>2 DEF CanonicalHost, NoHost
      <3>2. CanonicalHost(y).labels = [i \in 1 .. 4 |-> [form |-> "dec", digits |-> Decimal(y[i])]]
        BY <1>2 DEF CanonicalHost, NoHost
      <3>3. \A i \in 1 .. 4 : /\ CanonicalHost(x).labels[i].digits = Decimal(x[i])
                              /\ CanonicalHost(y).labels[i].digits = Decimal(y[i])
        BY <3>1, <3>2
      <3> QED
        BY <3>3
    <2>3. \A i \in 1 .. 4 : x[i] = y[i]
      <3> TAKE i \in 1 .. 4
      <3>1. x[i] \in 0 .. 255 /\ y[i] \in 0 .. 255
        BY <2>1 DEF Octet
      <3>2. from_str_radix(Decimal(x[i]), 10)[Len(Decimal(x[i]))] = x[i]
        BY <3>1, DecimalReads
      <3>3. from_str_radix(Decimal(y[i]), 10)[Len(Decimal(y[i]))] = y[i]
        BY <3>1, DecimalReads
      <3> QED
        BY <2>2, <3>2, <3>3, Zenon
    <2> QED
      BY <2>1, <2>3
  <1>3. CASE ~(IsV4(x) /\ IsV4(y))
    <2>1. CanonicalHost(x).v6 = IF IsV4(x) THEN NoIP ELSE x
      BY DEF CanonicalHost, NoHost
    <2>2. CanonicalHost(y).v6 = IF IsV4(y) THEN NoIP ELSE y
      BY DEF CanonicalHost, NoHost
    <2> QED
      BY <1>1, <1>3, <2>1, <2>2
  <1> QED
    BY <1>2, <1>3

\* A name that is the text of an address spells that address.
LEMMA NameSpells ==
    ASSUME NEW raw, IsRemote(raw), raw.host.v6 = NoIP, NEW x \in Address,
           normalize_hostname(raw.host) = CanonicalHost(x)
    PROVE  raw.spells = x
  <1> DEFINE h == raw.host
             name == normalize_hostname(h)
             L == [i \in 1 .. 4 |-> [form |-> "dec", digits |-> Decimal(x[i])]]
  <1>1. h = [v6 |-> NoIP, labels |-> h.labels, dot |-> h.dot, upper |-> h.upper, blank |-> h.blank]
    BY DEF IsRemote
  <1>2. name = [v6 |-> NoIP, labels |-> h.labels, dot |-> FALSE, upper |-> FALSE, blank |-> FALSE]
    <2> HIDE DEF h
    <2> QED
      BY <1>1, Normalized
  <1>3. /\ Len(raw.values) = Len(h.labels) /\ raw.values \in Seq(Nat \cup {NotANumber})
        /\ h.labels \in Seq(ToSet(h.labels))
        /\ DOMAIN raw.values = 1 .. Len(raw.values) /\ DOMAIN h.labels = 1 .. Len(raw.values)
    BY LenProperties DEF IsRemote
  <1>4. \A i \in DOMAIN raw.values :
           /\ IsLabel(h.labels[i])
           /\ IF Digital(h.labels[i])
              THEN raw.values[i] \in Nat /\ Written(raw.values[i], h.labels[i].digits, Radix(h.labels[i].form))
              ELSE raw.values[i] = NotANumber
    BY DEF IsRemote
  <1>5. x # NoIP
    BY AddressIsSome
  <1>6. IsV4(x) => x \in [1 .. 4 -> Octet] /\ Len(x) = 4
    BY AddressShape DEF IsV4
  <1>7. IsV4(x) => CanonicalHost(x).labels = L
    BY DEF CanonicalHost, NoHost
  <1>8. ~IsV4(x) => CanonicalHost(x).v6 = x
    BY DEF CanonicalHost, NoHost
  <1> HIDE DEF h, name, L
  <1>9. IsV4(x) /\ h.labels = L
    <2>1. name = CanonicalHost(x)
      BY DEF name, h
    <2> QED
      BY <1>2, <1>5, <1>7, <1>8, <2>1
  <1>10. raw.values = x
    <2>1. Len(raw.values) = 4 /\ DOMAIN raw.values = 1 .. 4
      <3>1. Len(L) = 4
        BY DEF L
      <3> QED
        BY <1>3, <1>9, <3>1
    <2>2. ASSUME NEW i \in 1 .. 4 PROVE raw.values[i] = x[i]
      <3> DEFINE l == h.labels[i]
                 v == raw.values[i]
                 d == Decimal(x[i])
      <3>1. l = [form |-> "dec", digits |-> d]
        BY <1>9, <2>2 DEF L
      <3>2. x[i] \in 0 .. 255
        BY <1>6, <1>9, <2>2 DEF Octet
      <3>3. /\ d \in Seq(Nat) /\ d # <<>> /\ (\A j \in DOMAIN d : d[j] < 10)
            /\ from_str_radix(d, 10)[Len(d)] = x[i]
        BY <3>2, DecimalReads
      <3>4. IF Digital(l) THEN v \in Nat /\ Written(v, l.digits, Radix(l.form)) ELSE v = NotANumber
        BY <1>4, <2>1, <2>2
      <3> HIDE DEF l, v, d
      <3>5. l.form = "dec" /\ l.digits = d /\ Radix(l.form) = 10
        BY <3>1 DEF Radix
      <3>6. Digital(l)
        BY <3>3, <3>5 DEF Digital
      <3>7. v \in Nat /\ Written(v, d, 10)
        BY <3>4, <3>5, <3>6
      <3>8. from_str_radix(d, 10)[Len(d)] = v
        <4> DEFINE r == 10
        <4>1. r \in Radices
          BY DEF Radices
        <4>2. Written(v, d, r)
          BY <3>7
        <4> HIDE DEF r
        <4>3. from_str_radix(d, r)[Len(d)] = v
          BY <3>3, <3>7, <4>1, <4>2, ReadsWritten
        <4> QED
          BY <4>3 DEF r
      <3> QED
        BY <3>3, <3>8 DEF v
    <2>3. raw.values = [i \in 1 .. 4 |-> raw.values[i]]
      BY <1>3, <2>1, SMTT(40)
    <2>4. x = [i \in 1 .. 4 |-> x[i]]
      BY <1>6, <1>9
    <2> QED
      BY <2>2, <2>3, <2>4, Zenon
  <1>11. InetAton(raw.values, x)
    <2>1. Len(x) = 4 /\ x[4] \in 0 .. 255
      BY <1>6, <1>9 DEF Octet
    <2>2. Len(SubSeq(x, 4, 4)) = 1 /\ SubSeq(x, 4, 4)[1] = x[4]
      <3>1. \A i \in 4 .. 4 : x[i] \in Nat
        BY <2>1
      <3> DEFINE k == 4
      <3>2. k \in Int /\ \A i \in k .. k : x[i] \in Nat
        BY <3>1
      <3> HIDE DEF k
      <3>3. /\ Len(SubSeq(x, k, k)) = IF k <= k THEN k - k + 1 ELSE 0
            /\ \A i \in 1 .. k - k + 1 : SubSeq(x, k, k)[i] = x[k + i - 1]
        BY <3>2, SubSeqProperties
      <3>4. Len(SubSeq(x, k, k)) = 1 /\ SubSeq(x, k, k)[1] = x[k]
        <4>1. k <= k /\ k - k + 1 = 1 /\ k + 1 - 1 = k /\ 1 \in 1 .. k - k + 1
          BY <3>2
        <4>2. SubSeq(x, k, k)[1] = x[k + 1 - 1]
          BY <3>3, <4>1, Zenon
        <4> QED
          BY <3>3, <4>1, <4>2, Zenon
      <3> QED
        BY <3>4, Zenon DEF k
    <2>4. Written(x[4], SubSeq(x, 4, 4), 256)
      <3> DEFINE v == x[4]
                 d == SubSeq(x, 4, 4)
      <3>1. v \in Nat /\ 1 \in 0 .. 4
        BY <2>1
      <3>2. v \div 256 = 0 /\ v % 256 = v /\ Len(d) = 1 /\ d[1] = v
        BY <2>1, <2>2
      <3> HIDE DEF v, d
      <3>3. \A j \in 0 .. 1 : Shifts(v, 256, 1)[j] = v \div 256 ^ j
        BY <3>1, OctetShifts, ZenonT(60)
      <3>4. Shifts(v, 256, 1)[0] = v /\ Shifts(v, 256, 1)[1] = 0
        BY <3>1, <3>2, <3>3
      <3>5. Written(v, d, 256)
        BY <3>2, <3>4 DEF Written
      <3> QED
        BY <3>5 DEF v, d
    <2>5. InetAton(x, x)
      BY <2>1, <2>4 DEF InetAton
    <2> QED
      BY <1>10, <2>5
  <1>12. ipv4_of_parts(h.labels) = x
    BY <1>6, <1>9, <1>11, LooseSpells DEF h
  <1> QED
    BY <1>12, PartsSpell DEF h

\* Two names are kept as one name if they differ in case, in a final dot and in
\* blanks around them at most.
LEMMA NamesKept ==
    ASSUME NEW a, NEW b, IsRemote(a), IsRemote(b)
    PROVE  /\ normalize_hostname(a.host) = normalize_hostname(b.host) <=> SameText(a.host, b.host)
           /\ SameText(a.host, b.host) => a.host.labels = b.host.labels
  <1> DEFINE h == a.host
             k == b.host
  <1>1. h = [v6 |-> h.v6, labels |-> h.labels, dot |-> h.dot, upper |-> h.upper, blank |-> h.blank]
    BY DEF IsRemote
  <1>2. k = [v6 |-> k.v6, labels |-> k.labels, dot |-> k.dot, upper |-> k.upper, blank |-> k.blank]
    BY DEF IsRemote
  <1> HIDE DEF h, k
  <1>3. /\ normalize_hostname(h) =
              [v6 |-> h.v6, labels |-> h.labels, dot |-> FALSE, upper |-> FALSE, blank |-> FALSE]
        /\ DOMAIN h = {"v6", "labels", "dot", "upper", "blank"}
    BY <1>1, Normalized
  <1>4. /\ normalize_hostname(k) =
              [v6 |-> k.v6, labels |-> k.labels, dot |-> FALSE, upper |-> FALSE, blank |-> FALSE]
        /\ DOMAIN k = {"v6", "labels", "dot", "upper", "blank"}
    BY <1>2, Normalized
  <1>5. normalize_hostname(h) = normalize_hostname(k) <=> h.v6 = k.v6 /\ h.labels = k.labels
    <2> DEFINE g == normalize_hostname(h)
               i == normalize_hostname(k)
    <2>1. g.v6 = h.v6 /\ g.labels = h.labels /\ i.v6 = k.v6 /\ i.labels = k.labels
      BY <1>3, <1>4
    <2>2. h.v6 = k.v6 /\ h.labels = k.labels => g = i
      BY <1>3, <1>4, Zenon
    <2> QED
      BY <2>1, <2>2, Zenon
  <1>6. SameText(h, k) <=> h.v6 = k.v6 /\ h.labels = k.labels
    <2>1. {"v6", "labels", "dot", "upper", "blank"} \ {"upper", "dot", "blank"} = {"v6", "labels"}
      OBVIOUS
    <2> QED
      BY <1>3, <1>4, <2>1 DEF SameText
  <1> QED
    BY <1>5, <1>6 DEF h, k

\* Two accepted texts with one port have one key only if they are one
\* destination, and have one if none of them is an address that passed for a
\* name.
LEMMA OneKey ==
    ASSUME NEW a, NEW b, IsRemote(a), IsRemote(b), parse_remote(a).ok, parse_remote(b).ok,
           a.port = b.port
    PROVE  LET oneKey == dest_key(parse_remote(a)) = dest_key(parse_remote(b)) IN
           /\ oneKey => SameDest(a, b)
           /\ SameDest(a, b) /\ Noticed(a) /\ Noticed(b) => oneKey
  <1> DEFINE x == a.spells
             y == b.spells
             m == normalize_hostname(a.host)
             n == normalize_hostname(b.host)
             isA == parse_literal(a.host) # NoIP
             isB == parse_literal(b.host) # NoIP
             oneKey == dest_key(parse_remote(a)) = dest_key(parse_remote(b))
             oneHost == (IF isA THEN CanonicalHost(x) ELSE m) = (IF isB THEN CanonicalHost(y) ELSE n)
  <1>1. /\ dest_key(parse_remote(a)) = <<IF isA THEN CanonicalHost(x) ELSE m, a.port>>
        /\ isA => x \in Address
        /\ ~isA => a.host.v6 = NoIP /\ (Noticed(a) => x = NoIP)
    BY KeptHost
  <1>2. /\ dest_key(parse_remote(b)) = <<IF isB THEN CanonicalHost(y) ELSE n, b.port>>
        /\ isB => y \in Address
        /\ ~isB => b.host.v6 = NoIP /\ (Noticed(b) => y = NoIP)
    BY KeptHost
  <1> HIDE DEF x, y, m, n, isA, isB
  <1>3. oneKey <=> oneHost
    BY <1>1, <1>2
  <1>4. (isA => x # NoIP) /\ (isB => y # NoIP)
    BY <1>1, <1>2, AddressIsSome
  <1>5. SameDest(a, b) <=> x = y /\ (x = NoIP => SameText(a.host, b.host))
    BY DEF SameDest, x, y
  <1> HIDE DEF oneKey
  <1>6. ASSUME oneHost PROVE SameDest(a, b)
    <2>1. CASE isA /\ isB
      <3>1. x = y
        BY <1>1, <1>2, <1>6, <2>1, CanonicalHostInjective
      <3> QED
        BY <1>4, <1>5, <2>1, <3>1
    <2>2. CASE ~isA /\ isB
      <3>1. x = y
        BY <1>1, <1>2, <1>6, <2>2, NameSpells DEF x, m
      <3> QED
        BY <1>4, <1>5, <2>2, <3>1
    <2>3. CASE isA /\ ~isB
      <3>1. y = x
        BY <1>1, <1>2, <1>6, <2>3, NameSpells DEF y, n
      <3> QED
        BY <1>4, <1>5, <2>3, <3>1
    <2>4. CASE ~isA /\ ~isB
      <3>1. SameText(a.host, b.host) /\ a.host.labels = b.host.labels
        BY <1>6, <2>4, NamesKept DEF m, n
      <3>2. ipv4_of_parts(a.host.labels) = x /\ ipv4_of_parts(b.host.labels) = y
        BY <1>1, <1>2, <2>4, PartsSpell DEF x, y
      <3> QED
        BY <1>5, <3>1, <3>2
    <2> QED
      BY <2>1, <2>2, <2>3, <2>4
  <1>7. ASSUME SameDest(a, b), Noticed(a), Noticed(b) PROVE oneHost
    <2>1. CASE x # NoIP
      <3>1. isA /\ isB /\ x = y
        BY <1>1, <1>2, <1>5, <1>7, <2>1
      <3> QED
        BY <3>1
    <2>2. CASE x = NoIP
      <3>1. ~isA /\ ~isB /\ SameText(a.host, b.host)
        BY <1>4, <1>5, <1>7, <2>2
      <3>2. m = n
        BY <3>1, NamesKept DEF m, n
      <3> QED
        BY <3>1, <3>2
    <2> QED
      BY <2>1, <2>2
  <1> HIDE DEF oneHost
  <1> QED
    BY <1>3, <1>6, <1>7 DEF oneKey

\* Two requests count against one destination only if it is one, and they do
\* if it is, in whatever case, notation or embedding they spell it, unless it
\* is an address that passed for a name (dest_key).
THEOREM DestinationsAlwaysKeyed == Spec => []OneKeyPerDest
  <1>1. Configured /\ Recorded => OneKeyPerDest
    <2> DEFINE raw == asked.remote
    <2> SUFFICES ASSUME Configured, Recorded, Judged, reply.remote.ok,
                        NEW other \in Accepted, other.port = raw.port
                 PROVE  /\ AcceptedKey[other] = dest_key(reply.remote) => SameDest(other, raw)
                        /\ SameDest(other, raw) /\ Noticed(raw) /\ Noticed(other) =>
                              AcceptedKey[other] = dest_key(reply.remote)
      BY DEF OneKeyPerDest
    <2>1. IsRemote(raw) /\ reply.remote = parse_remote(raw)
      BY GatewayAssumption DEF Configured, Recorded, IsRequest
    <2>2. IsRemote(other) /\ parse_remote(other).ok
      BY GatewayAssumption DEF Accepted
    <2>3. AcceptedKey[other] = dest_key(parse_remote(other))
      BY DEF AcceptedKey
    <2> QED
      BY <2>1, <2>2, <2>3, OneKey
  <1> QED
    BY <1>1, AlwaysConfigured, AlwaysRecorded, PTL

-----------------------------------------------------------------------------
(* The first record. *)

\* t is what is in s after o.
Piece(t, s, o) ==
    /\ t \in Seq(Nat) /\ o \in Nat /\ o + Len(t) <= Len(s)
    /\ \A i \in 1 .. Len(t) : t[i] = s[o + i]

\* A part of a part.
LEMMA PieceOfPiece ==
    ASSUME NEW s \in Seq(Nat), NEW t, NEW o, Piece(t, s, o),
           NEW a \in Nat, NEW b \in Nat, 1 <= a, a <= b + 1, b <= Len(t)
    PROVE  Piece(SubSeq(t, a, b), s, o + a - 1) /\ Len(SubSeq(t, a, b)) = b - a + 1
  <1> DEFINE u == SubSeq(t, a, b)
  <1>1. t \in Seq(Nat) /\ o \in Nat /\ Len(t) \in Nat /\ o + Len(t) <= Len(s) /\ Len(s) \in Nat
    BY LenProperties DEF Piece
  <1>2. u \in Seq(Nat) /\ Len(u) = b - a + 1 /\ \A i \in 1 .. b - a + 1 : u[i] = t[a + i - 1]
    <2>1. \A i \in a .. b : i \in 1 .. Len(t)
      BY <1>1
    <2> QED
      BY <1>1, <2>1, SubSeqProperties, SMTT(40)
  <1> HIDE DEF u
  <1>3. ASSUME NEW i \in 1 .. Len(u) PROVE u[i] = s[(o + a - 1) + i]
    <2>1. i \in 1 .. b - a + 1 /\ i \in Nat
      BY <1>1, <1>2
    <2>2. a + i - 1 \in 1 .. Len(t)
      BY <1>1, <2>1
    <2>3. o + (a + i - 1) = (o + a - 1) + i
      BY <1>1, <2>1
    <2>4. u[i] = t[a + i - 1]
      BY <1>2, <2>1
    <2>5. t[a + i - 1] = s[o + (a + i - 1)]
      BY <2>2 DEF Piece
    <2> QED
      BY <2>3, <2>4, <2>5
  <1>4. (o + a - 1) \in Nat /\ (o + a - 1) + Len(u) <= Len(s)
    BY <1>1, <1>2
  <1>5. Piece(u, s, o + a - 1)
    BY <1>2, <1>3, <1>4 DEF Piece
  <1> QED
    BY <1>2, <1>5 DEF u

\* A vector that ends in a record has its length there.
LEMMA SkipFits ==
    ASSUME NEW t \in Seq(Nat), NEW i \in Nat, 1 <= i
    PROVE  /\ Skip(t, i) \in Nat /\ 1 <= Skip(t, i)
           /\ i \in DOMAIN t => t[i] \in Nat /\ Skip(t, i) = i + 1 + t[i] /\ i <= Len(t)
           /\ Skip(t, i) <= Len(t) + 1 => i \in DOMAIN t
  <1>1. Len(t) \in Nat /\ DOMAIN t = 1 .. Len(t)
    BY LenProperties
  <1>2. \A j \in 1 .. Len(t) : t[j] \in Nat
    BY ElementOfSeq
  <1> QED
    BY <1>1, <1>2 DEF Skip

ScanBody(list, f, j) ==
    IF j + 1 > Len(list) THEN None
    ELSE IF Skip(list, j + 1) > Len(list) + 1 THEN Err("Malformed")
    ELSE IF list[j] = 0 THEN Some(SubSeq(list, j + 2, Skip(list, j + 1) - 1))
    ELSE f[Skip(list, j + 1)]

\* The scan of a list goes on after the entry it is at.
LEMMA ScanAhead ==
    ASSUME NEW list \in Seq(Nat), NEW f, NEW g, NEW j \in 1 .. Len(list) + 1,
           \A i \in j + 1 .. Len(list) + 1 : f[i] = g[i]
    PROVE  ScanBody(list, f, j) = ScanBody(list, g, j)
  <1> DEFINE L == Len(list)
             k == Skip(list, j + 1)
  <1>1. L \in Nat /\ j + 1 \in Nat /\ 1 <= j + 1
    BY LenProperties
  <1>2. k \in Nat /\ (k <= L + 1 => j + 1 \in DOMAIN list)
        /\ (j + 1 \in DOMAIN list => list[j + 1] \in Nat /\ k = j + 1 + 1 + list[j + 1])
    BY <1>1, SkipFits
  <1> HIDE DEF L, k
  <1>3. ~(k > L + 1) => f[k] = g[k]
    BY <1>1, <1>2 DEF L
  <1> QED
    BY <1>3, Zenon DEF ScanBody, L, k

\* The scan of a list is the one of its definition.
LEMMA ScanExists ==
    ASSUME NEW list \in Seq(Nat)
    PROVE  \E f : /\ FirstOfType0(list) = f[1]
                  /\ \A j \in 1 .. Len(list) + 1 : f[j] = ScanBody(list, f, j)
  <1> DEFINE L == Len(list)
             From(a, f) == f = [j \in a .. L + 1 |-> ScanBody(list, f, j)]
             Good == {m \in 0 .. L : \E f : From(L + 1 - m, f)}
  <1>0. L \in Nat
    BY LenProperties
  <1> HIDE DEF L
  <1>1. 0 \in Good
    <2> DEFINE f == [j \in L + 1 .. L + 1 |-> None]
    <2>1. \A j \in L + 1 .. L + 1 : ScanBody(list, f, j) = None
      BY <1>0 DEF ScanBody, L
    <2>2. From(L + 1, f)
      BY <2>1
    <2> HIDE DEF From
    <2>3. L + 1 - 0 = L + 1 /\ 0 \in 0 .. L
      BY <1>0
    <2> QED
      BY <2>2, <2>3
  <1>2. ASSUME NEW m \in 1 .. L, m - 1 \in Good PROVE m \in Good
    <2> DEFINE a == L + 1 - m
    <2>1. a \in Nat /\ 1 <= a /\ a <= L /\ L + 1 - (m - 1) = a + 1
      BY <1>0
    <2>2. PICK f : From(a + 1, f)
      <3> HIDE DEF From
      <3> QED
        BY <1>2, <2>1
    <2> HIDE DEF a
    <2> DEFINE g == [j \in a .. L + 1 |-> IF j = a THEN ScanBody(list, f, a) ELSE f[j]]
    <2>3. \A j \in a + 1 .. L + 1 : g[j] = f[j]
      BY <1>0, <2>1
    <2>4. g[a] = ScanBody(list, f, a)
      BY <1>0, <2>1
    <2>5. g = [j \in a .. L + 1 |-> g[j]]
      OBVIOUS
    <2> HIDE DEF g
    <2>6. ASSUME NEW j \in a .. L + 1 PROVE g[j] = ScanBody(list, g, j)
      <3>1. j \in 1 .. Len(list) + 1 /\ \A i \in j + 1 .. Len(list) + 1 : f[i] = g[i]
        BY <1>0, <2>1, <2>3 DEF L
      <3>2. ScanBody(list, f, j) = ScanBody(list, g, j)
        BY <3>1, ScanAhead
      <3>3. CASE j = a
        BY <2>4, <3>2, <3>3
      <3>4. CASE j # a
        <4>1. j \in a + 1 .. L + 1
          BY <1>0, <2>1, <3>4
        <4>2. f[j] = ScanBody(list, f, j)
          <5> DEFINE body(i) == ScanBody(list, f, i)
          <5>1. f = [i \in a + 1 .. L + 1 |-> body(i)]
            BY <2>2
          <5> HIDE DEF body
          <5>2. f[j] = body(j)
            BY <4>1, <5>1
          <5> QED
            BY <5>2 DEF body
        <4> QED
          BY <2>3, <3>2, <4>1, <4>2
      <3> QED
        BY <3>3, <3>4
    <2>7. From(a, g)
      <3> DEFINE body(i) == ScanBody(list, g, i)
      <3>1. \A j \in a .. L + 1 : g[j] = body(j)
        BY <2>6
      <3> HIDE DEF body
      <3>2. g = [j \in a .. L + 1 |-> body(j)]
        BY <2>5, <3>1
      <3> QED
        BY <3>2 DEF body
    <2> HIDE DEF From
    <2>8. m \in 0 .. L
      BY <1>0
    <2> QED
      BY <2>7, <2>8 DEF a
  <1>3. L \in Good
    <2> HIDE DEF Good
    <2>1. L \in 0 .. L
      BY <1>0
    <2> QED
      BY <1>0, <1>1, <1>2, <2>1, UpTo
  <1>4. PICK f : From(1, f)
    <2> HIDE DEF From
    <2>1. L + 1 - L = 1
      BY <1>0
    <2> QED
      BY <1>3, <2>1
  <1> DEFINE h == CHOOSE h : From(1, h)
  <1>5. From(1, h)
    BY <1>4, Zenon
  <1>6. FirstOfType0(list) = h[1]
    BY Zenon DEF FirstOfType0, ScanBody, L
  <1> HIDE DEF h
  <1>7. \A j \in 1 .. L + 1 : h[j] = ScanBody(list, h, j)
    <2> DEFINE body(i) == ScanBody(list, h, i)
    <2>1. h = [j \in 1 .. L + 1 |-> body(j)]
      BY <1>5
    <2> HIDE DEF body
    <2>2. \A j \in 1 .. L + 1 : h[j] = body(j)
      BY <2>1
    <2> QED
      BY <2>2 DEF body
  <1> QED
    BY <1>6, <1>7, Zenon DEF L

\* The entry of type 0 at i, with all of its data in the list.
EntryAt(list, i) ==
    /\ i \in Nat /\ 1 <= i /\ i + 1 <= Len(list)
    /\ list[i] = 0 /\ list[i + 1] \in Nat /\ i + 1 + list[i + 1] <= Len(list)

\* What is said of a record or a list without a name.
Nothings == {None, Err("Malformed"), Err("NotTls")}

\* What the scan finds is an entry of type 0.
LEMMA FirstIsEntry ==
    ASSUME NEW list \in Seq(Nat), FirstOfType0(list) \notin Nothings
    PROVE  \E i : /\ EntryAt(list, i)
                  /\ FirstOfType0(list) = Some(SubSeq(list, i + 2, i + 1 + list[i + 1]))
  <1> DEFINE L == Len(list)
             Data(i) == SubSeq(list, i + 2, i + 1 + list[i + 1])
             Found(x) == x \notin Nothings => \E i : EntryAt(list, i) /\ x = Some(Data(i))
  <1>1. L \in Nat /\ DOMAIN list = 1 .. L
    BY LenProperties
  <1>2. PICK f : /\ FirstOfType0(list) = f[1]
                 /\ \A j \in 1 .. L + 1 : f[j] = ScanBody(list, f, j)
    BY ScanExists
  <1> DEFINE Good == {m \in 0 .. L : \A j \in L + 1 - m .. L + 1 : Found(f[j])}
  <1> HIDE DEF L, Found
  <1>3. ASSUME NEW j \in 1 .. L + 1, \A i \in j + 1 .. L + 1 : Found(f[i]) PROVE Found(f[j])
    <2> DEFINE k == Skip(list, j + 1)
    <2>1. f[j] = ScanBody(list, f, j)
      BY <1>2
    <2>2. k \in Nat /\ (k <= L + 1 => j + 1 \in DOMAIN list)
          /\ (j + 1 \in DOMAIN list => list[j + 1] \in Nat /\ k = j + 1 + 1 + list[j + 1])
      <3>1. j + 1 \in Nat /\ 1 <= j + 1
        BY <1>1
      <3> QED
        BY <3>1, SkipFits DEF L
    <2>3. CASE j + 1 > L \/ k > L + 1
      <3>1. f[j] = None \/ f[j] = Err("Malformed")
        <4> HIDE DEF k
        <4>1. f[j] = IF j + 1 > L THEN None ELSE IF k > L + 1 THEN Err("Malformed")
                     ELSE IF list[j] = 0 THEN Some(SubSeq(list, j + 2, k - 1)) ELSE f[k]
          BY <2>1, Zenon DEF ScanBody, L, k
        <4> QED
          BY <2>3, <4>1, Zenon
      <3> QED
        BY <3>1, Zenon DEF Found, Nothings
    <2>4. CASE ~(j + 1 > L) /\ ~(k > L + 1) /\ list[j] = 0
      <3>1. k <= L + 1
        BY <1>1, <2>2, <2>4
      <3>2. list[j + 1] \in Nat /\ k = j + 2 + list[j + 1]
        BY <2>2, <3>1
      <3>3. f[j] = Some(SubSeq(list, j + 2, k - 1))
        <4> HIDE DEF k
        <4>1. f[j] = IF j + 1 > L THEN None ELSE IF k > L + 1 THEN Err("Malformed")
                     ELSE IF list[j] = 0 THEN Some(SubSeq(list, j + 2, k - 1)) ELSE f[k]
          BY <2>1, Zenon DEF ScanBody, L, k
        <4> QED
          BY <2>4, <4>1, Zenon
      <3>4. k - 1 = j + 1 + list[j + 1]
        BY <1>1, <3>2
      <3>5. EntryAt(list, j)
        BY <1>1, <2>4, <3>1, <3>2 DEF EntryAt, L
      <3> QED
        BY <3>3, <3>4, <3>5 DEF Found
    <2>5. CASE ~(j + 1 > L) /\ ~(k > L + 1) /\ list[j] # 0
      <3>1. k <= L + 1
        BY <1>1, <2>2, <2>5
      <3>2. k \in j + 1 .. L + 1
        BY <1>1, <2>2, <3>1
      <3>3. f[j] = f[k]
        <4> HIDE DEF k
        <4>1. f[j] = IF j + 1 > L THEN None ELSE IF k > L + 1 THEN Err("Malformed")
                     ELSE IF list[j] = 0 THEN Some(SubSeq(list, j + 2, k - 1)) ELSE f[k]
          BY <2>1, Zenon DEF ScanBody, L, k
        <4> QED
          BY <2>5, <4>1, Zenon
      <3> QED
        BY <1>3, <3>2, <3>3
    <2> QED
      BY <2>3, <2>4, <2>5
  <1>4. 0 \in Good
    <2>1. Found(f[L + 1])
      <3>1. L + 1 \in 1 .. L + 1 /\ \A i \in (L + 1) + 1 .. L + 1 : Found(f[i])
        BY <1>1
      <3> QED
        BY <1>3, <3>1
    <2> QED
      BY <1>1, <2>1
  <1>5. ASSUME NEW m \in 1 .. L, m - 1 \in Good PROVE m \in Good
    <2> DEFINE a == L + 1 - m
    <2>1. a \in 1 .. L + 1 /\ \A i \in a + 1 .. L + 1 : Found(f[i])
      BY <1>1, <1>5
    <2>2. Found(f[a])
      BY <1>3, <2>1
    <2> QED
      BY <1>1, <2>1, <2>2
  <1>6. L \in Good
    <2> HIDE DEF Good
    <2>1. L \in 0 .. L
      BY <1>1
    <2> QED
      BY <1>1, <1>4, <1>5, <2>1, UpTo
  <1>7. Found(f[1])
    BY <1>1, <1>6
  <1> QED
    BY <1>2, <1>7 DEF Found

\* The first entry of type 0 of a list is found.
LEMMA FirstReached ==
    ASSUME NEW s \in Seq(Nat), NEW list, NEW o, Piece(list, s, o), NEW at,
           UpToType0(s, at, o + 1, o + Len(list)), NEW e, e = at[Len(at)] - o
    PROVE  EntryAt(list, e) /\ FirstOfType0(list) = Some(SubSeq(list, e + 2, e + 1 + list[e + 1]))
  <1> DEFINE L == Len(list)
             n == Len(at)
  <1>1. /\ list \in Seq(Nat) /\ o \in Nat /\ L \in Nat /\ o + L <= Len(s)
        /\ \A i \in 1 .. L : list[i] = s[o + i] /\ list[i] \in Nat
    BY LenProperties, ElementOfSeq DEF Piece
  <1>2. /\ at \in Seq(o + 1 .. (o + L) - 1) /\ n \in Nat /\ n > 0 /\ at[1] = o + 1
        /\ \A k \in 1 .. n - 1 : s[at[k]] # 0 /\ at[k + 1] = at[k] + 2 + s[at[k] + 1]
        /\ s[at[n]] = 0 /\ at[n] + 1 + s[at[n] + 1] <= o + L
    BY LenProperties DEF UpToType0
  <1>3. \A k \in 1 .. n : at[k] \in o + 1 .. (o + L) - 1
    BY <1>2, ElementOfSeq
  <1>4. PICK f : /\ FirstOfType0(list) = f[1]
                 /\ \A j \in 1 .. L + 1 : f[j] = ScanBody(list, f, j)
    BY <1>1, ScanExists
  <1> HIDE DEF L, n
  <1>5. ASSUME NEW k \in 1 .. n
        PROVE  LET j == at[k] - o IN
               /\ j \in Nat /\ 1 <= j /\ j + 1 <= L
               /\ list[j] = s[at[k]] /\ list[j + 1] = s[at[k] + 1] /\ list[j + 1] \in Nat
               /\ Skip(list, j + 1) = j + 2 + list[j + 1]
               /\ f[j] = IF j + 2 + list[j + 1] > L + 1 THEN Err("Malformed")
                         ELSE IF list[j] = 0 THEN Some(SubSeq(list, j + 2, j + 1 + list[j + 1]))
                         ELSE f[j + 2 + list[j + 1]]
    <2> DEFINE j == at[k] - o
               next == j + 2 + list[j + 1]
    <2>1. at[k] \in Nat /\ j \in Nat /\ 1 <= j /\ j + 1 <= L /\ o + j = at[k] /\ o + (j + 1) = at[k] + 1
      <3> DEFINE x == at[k]
      <3>1. x \in o + 1 .. (o + L) - 1
        BY <1>3
      <3> HIDE DEF x
      <3>2. x \in Nat /\ x - o \in Nat /\ 1 <= x - o /\ x - o + 1 <= L /\ o + (x - o) = x
            /\ o + ((x - o) + 1) = x + 1
        BY <1>1, <3>1
      <3> QED
        BY <3>2 DEF x
    <2> HIDE DEF j
    <2>2. list[j] = s[at[k]] /\ list[j + 1] = s[at[k] + 1] /\ list[j + 1] \in Nat
      <3>1. j \in 1 .. L /\ j + 1 \in 1 .. L
        BY <1>1, <2>1
      <3>2. list[j] = s[o + j] /\ list[j + 1] = s[o + (j + 1)] /\ list[j + 1] \in Nat
        BY <1>1, <3>1
      <3> QED
        BY <2>1, <3>2
    <2>3. Skip(list, j + 1) = next
      <3>0. DOMAIN list = 1 .. L
        BY <1>1, LenProperties DEF L
      <3>1. j + 1 \in Nat /\ 1 <= j + 1 /\ j + 1 \in DOMAIN list
        BY ONLY <1>1, <2>1, <3>0
      <3>2. Skip(list, j + 1) = j + 1 + 1 + list[j + 1]
        BY <1>1, <3>1, SkipFits
      <3> QED
        BY <2>1, <2>2, <3>2
    <2>4. next - 1 = j + 1 + list[j + 1]
      <3> DEFINE y == list[j + 1]
      <3>1. j \in Nat /\ y \in Nat
        BY <2>1, <2>2
      <3> HIDE DEF y
      <3>2. (j + 2 + y) - 1 = j + 1 + y
        BY <3>1
      <3> QED
        BY <3>2 DEF next, y
    <2>5. f[j] = ScanBody(list, f, j) /\ ~(j + 1 > L)
      BY <1>1, <1>4, <2>1
    <2> HIDE DEF next
    <2>6. f[j] = IF next > L + 1 THEN Err("Malformed")
                 ELSE IF list[j] = 0 THEN Some(SubSeq(list, j + 2, next - 1)) ELSE f[next]
      BY <2>3, <2>5, Zenon DEF ScanBody, L
    <2> QED
      BY <2>1, <2>2, <2>3, <2>4, <2>6 DEF j, next
  <1> DEFINE Good == {k \in 0 .. n - 1 : f[at[k + 1] - o] = f[1]}
  <1>6. 0 \in Good
    <2>1. 0 + 1 = 1 /\ (o + 1) - o = 1 /\ 0 \in 0 .. n - 1
      BY <1>1, <1>2
    <2>2. at[0 + 1] - o = 1
      BY <1>2, <2>1
    <2> QED
      BY <2>1, <2>2
  <1>7. ASSUME NEW k \in 1 .. n - 1, k - 1 \in Good PROVE k \in Good
    <2> DEFINE j == at[k] - o
    <2>1. f[j] = f[1]
      <3>1. (k - 1) + 1 = k
        OBVIOUS
      <3> QED
        BY <1>7, <3>1
    <2>2. k \in 1 .. n /\ k + 1 \in 1 .. n
      BY <1>2
    <2>3. /\ j \in Nat /\ list[j] = s[at[k]] /\ list[j + 1] = s[at[k] + 1] /\ list[j + 1] \in Nat
          /\ f[j] = IF j + 2 + list[j + 1] > L + 1 THEN Err("Malformed")
                    ELSE IF list[j] = 0 THEN Some(SubSeq(list, j + 2, j + 1 + list[j + 1]))
                    ELSE f[j + 2 + list[j + 1]]
      BY <1>5, <2>2
    <2>4. s[at[k]] # 0 /\ at[k + 1] = at[k] + 2 + s[at[k] + 1] /\ at[k + 1] \in o + 1 .. (o + L) - 1
          /\ at[k] \in Nat
      <3>1. at[k] \in o + 1 .. (o + L) - 1 /\ at[k + 1] \in o + 1 .. (o + L) - 1
        BY <1>3, <2>2
      <3>2. \A x \in o + 1 .. (o + L) - 1 : x \in Nat
        BY <1>1
      <3> QED
        BY <1>2, <3>1, <3>2
    <2>5. j + 2 + list[j + 1] = at[k + 1] - o
      <3> DEFINE x == at[k]
                 y == list[j + 1]
      <3>1. x \in Nat /\ y \in Nat /\ at[k + 1] = x + 2 + y
        BY <2>3, <2>4
      <3> HIDE DEF x, y
      <3>2. (x - o) + 2 + y = (x + 2 + y) - o
        BY <1>1, <3>1
      <3> QED
        BY <3>1, <3>2 DEF x, y
    <2>6. ~(j + 2 + list[j + 1] > L + 1)
      BY <1>1, <2>4, <2>5
    <2> HIDE DEF j
    <2>7. f[j] = f[at[k + 1] - o]
      BY <2>3, <2>4, <2>5, <2>6
    <2> QED
      BY <1>2, <2>1, <2>7
  <1>8. n - 1 \in Good
    <2> HIDE DEF Good
    <2>1. n - 1 \in Nat /\ n - 1 \in 0 .. n - 1
      BY <1>2
    <2> QED
      BY <1>6, <1>7, <2>1, UpTo
  <1> DEFINE i == at[n] - o
  <1>9. f[i] = f[1]
    <2>1. (n - 1) + 1 = n
      BY <1>2
    <2> QED
      BY <1>8, <2>1
  <1>10. n \in 1 .. n
    BY <1>2
  <1>11. /\ i \in Nat /\ 1 <= i /\ i + 1 <= L
         /\ list[i] = s[at[n]] /\ list[i + 1] = s[at[n] + 1] /\ list[i + 1] \in Nat
         /\ f[i] = IF i + 2 + list[i + 1] > L + 1 THEN Err("Malformed")
                   ELSE IF list[i] = 0 THEN Some(SubSeq(list, i + 2, i + 1 + list[i + 1]))
                   ELSE f[i + 2 + list[i + 1]]
    BY <1>5, <1>10
  <1>12. at[n] \in Nat
    BY <1>1, <1>3, <1>10
  <1>13. i + 1 + list[i + 1] <= L
    <2> DEFINE x == at[n]
               y == list[i + 1]
    <2>1. x \in Nat /\ y \in Nat /\ x + 1 + y <= o + L
      BY <1>2, <1>11, <1>12
    <2> HIDE DEF x, y
    <2>2. (x - o) + 1 + y <= L
      BY <1>1, <2>1
    <2> QED
      BY <2>2 DEF x, y
  <1>14. list[i] = 0
    BY <1>2, <1>11
  <1> HIDE DEF i
  <1>15. f[i] = Some(SubSeq(list, i + 2, i + 1 + list[i + 1]))
    <2>1. ~(i + 2 + list[i + 1] > L + 1)
      <3>1. i \in Nat /\ list[i + 1] \in Nat /\ L \in Nat
        BY <1>1, <1>11
      <3> QED
        BY ONLY <1>13, <3>1
    <2> QED
      BY <1>11, <1>14, <2>1
  <1>16. EntryAt(list, i)
    BY <1>11, <1>13, <1>14 DEF EntryAt, L
  <1> QED
    <2>1. e = i
      BY DEF i, n
    <2> QED
      BY <1>4, <1>9, <1>15, <1>16, <2>1

\* e is a name in lower case and without its final dots.
Trimmed(name, e) ==
    /\ e \in Seq(Nat) /\ Len(e) <= Len(name)
    /\ \A k \in 1 .. Len(name) : name[k] % 100 = IF k <= Len(e) THEN e[k] ELSE Dot
    /\ Len(e) > 0 => e[Len(e)] # Dot

\* normalize_name trims.
LEMMA NormalIsTrimmed ==
    ASSUME NEW name \in Seq(Nat), NEW e, Trimmed(name, e)
    PROVE  normalize_name(name) = e
  <1> DEFINE n == Len(name)
             m == Len(e)
             lower == [i \in DOMAIN name |-> name[i] % 100]
             end == SelectLastInSeq(lower, LAMBDA c : c # Dot)
             I == {i \in 1 .. Len(lower) : lower[i] # Dot}
  <1>1. /\ n \in Nat /\ m \in Nat /\ m <= n /\ e \in Seq(Nat) /\ DOMAIN name = 1 .. n
        /\ \A k \in 1 .. n : name[k] % 100 = IF k <= m THEN e[k] ELSE Dot
        /\ m > 0 => e[m] # Dot
    BY LenProperties DEF Trimmed
  <1>2. lower \in Seq(Nat) /\ Len(lower) = n /\ \A k \in 1 .. n : lower[k] = IF k <= m THEN e[k] ELSE Dot
    <2>1. \A k \in 1 .. n : name[k] % 100 \in Nat
      <3>1. \A k \in 1 .. n : name[k] \in Nat
        BY ElementOfSeq
      <3> QED
        BY <3>1
    <2> QED
      BY <1>1, <2>1
  <1>3. end = IF I # {} THEN Max(I) ELSE 0
    BY Zenon DEF SelectLastInSeq
  <1>4. normalize_name(name) = SubSeq(lower, 1, end)
    BY Zenon DEF normalize_name
  <1> HIDE DEF n, m, lower, end
  <1>5. end = m
    <2>1. CASE m = 0
      <3>1. I = {}
        BY <1>1, <1>2, <2>1
      <3> QED
        BY <1>3, <2>1, <3>1
    <2>2. CASE m > 0
      <3>1. m \in I /\ \A j \in I : m >= j
        BY <1>1, <1>2, <2>2
      <3>2. I \subseteq Nat
        BY <1>2
      <3> HIDE DEF I
      <3>3. Max(I) \in I /\ \A j \in I : Max(I) >= j
        BY <3>1, Zenon DEF Max
      <3>4. Max(I) = m
        <4> DEFINE x == Max(I)
        <4>1. x \in Nat /\ m >= x /\ x >= m
          BY <3>1, <3>2, <3>3
        <4> HIDE DEF x
        <4>2. x = m
          BY <1>1, <4>1
        <4> QED
          BY <4>2 DEF x
      <3> QED
        BY <1>3, <3>1, <3>4
    <2> QED
      BY <1>1, <2>1, <2>2
  <1> DEFINE u == SubSeq(lower, 1, m)
  <1>6. u \in Seq(Nat) /\ Len(u) = m /\ \A k \in 1 .. m : u[k] = e[k]
    <2>1. Len(u) = m /\ u \in Seq(Nat) /\ \A k \in 1 .. m : u[k] = lower[k]
      <3>1. \A k \in 1 .. m : k \in 1 .. Len(lower) /\ lower[k] \in Nat
        BY <1>1, <1>2, ElementOfSeq
      <3> QED
        BY <1>1, <1>2, <3>1
    <2> QED
      BY <1>1, <1>2, <2>1, SMTT(40)
  <1> HIDE DEF u
  <1>7. u = e
    BY <1>1, <1>6, SeqEqual DEF m
  <1> QED
    BY <1>4, <1>5, <1>7 DEF u

\* Every name can be trimmed.
LEMMA TrimmedExists ==
    ASSUME NEW name \in Seq(Nat)
    PROVE  \E e : Trimmed(name, e)
  <1> DEFINE n == Len(name)
             D == {d \in Nat : d <= n /\ (d < n => name[n - d] % 100 # Dot)}
  <1>1. n \in Nat
    BY LenProperties
  <1>2. \A k \in 1 .. n : name[k] \in Nat
    BY ElementOfSeq
  <1>3. n \in D
    BY <1>1
  <1>4. PICK d \in D : \A x \in D : d <= x
    <2>1. D \subseteq Nat /\ D # {}
      BY <1>3
    <2> HIDE DEF D
    <2> QED
      BY <2>1, LeastNatural
  <1> DEFINE m == n - d
             e == [k \in 1 .. m |-> name[k] % 100]
  <1>5. d \in Nat /\ d <= n /\ (d < n => name[n - d] % 100 # Dot)
    BY <1>4
  <1>6. m \in Nat /\ m <= n
    BY <1>1, <1>5
  <1>7. e \in Seq(Nat) /\ Len(e) = m
    <2>1. \A k \in 1 .. m : name[k] % 100 \in Nat
      BY <1>1, <1>2, <1>6
    <2> QED
      BY <1>6, <2>1
  <1>8. \A k \in 1 .. n : name[k] % 100 = IF k <= m THEN e[k] ELSE Dot
    <2> TAKE k \in 1 .. n
    <2>1. CASE k <= m
      BY <1>6, <2>1
    <2>2. CASE ~(k <= m)
      <3>1. n - k \in Nat /\ n - k <= n /\ n - k < d /\ n - (n - k) = k
        BY <1>1, <1>5, <2>2
      <3>2. n - k \notin D
        BY <1>4, <1>5, <3>1
      <3> QED
        BY <2>2, <3>1, <3>2
    <2> QED
      BY <2>1, <2>2
  <1>9. m > 0 => e[m] # Dot
    <2> HAVE m > 0
    <2>1. d < n /\ m \in 1 .. m
      BY <1>1, <1>5, <1>6
    <2> QED
      BY <1>5, <2>1
  <1> HIDE DEF m, e
  <1>10. Trimmed(name, e)
    BY <1>6, <1>7, <1>8, <1>9 DEF Trimmed
  <1> QED
    BY <1>10

\* A record is complete when all the tokens that it says it has are there.
LEMMA RecordComplete ==
    ASSUME NEW s \in Seq(Nat)
    PROVE  tls_record_needed(s) = Some(0) <=>
              /\ Len(s) >= 3 /\ s[1] = 22 /\ s[2] = 3 /\ s[3] \in 1 .. MAX_TLS_RECORD
              /\ Len(s) >= 3 + s[3]
  <1> DEFINE n == Len(s)
             z == s[3]
             more == IF n >= Header + z THEN 0 ELSE Header + z - n
  <1>1. n \in Nat /\ (s = <<>> <=> n = 0) /\ (n >= 3 => z \in Nat)
    <2>1. n >= 3 => 3 \in 1 .. n
      OBVIOUS
    <2> QED
      BY <2>1, LenProperties, ElementOfSeq, EmptySeq
  <1>2. tls_record_needed(s) =
           IF s = <<>> THEN Some(Header)
           ELSE IF s[1] # 22 THEN Err("NotTls")
           ELSE IF n < Header THEN Some(Header - n)
           ELSE IF s[2] # 3 THEN Err("NotTls")
           ELSE IF z \notin 1 .. MAX_TLS_RECORD THEN Err("Malformed")
           ELSE Some(more)
    BY Zenon DEF tls_record_needed
  <1>3. \A x : Some(x) = Some(0) <=> x = 0
    <2>1. \A x : Some(x).some = {x}
      BY DEF Some
    <2> QED
      BY <2>1
  <1>4. \A x : Err(x) # Some(0)
    <2>1. \A x : Err(x).some = {} /\ Some(0).some = {0}
      BY DEF Err, Some
    <2> QED
      BY <2>1
  <1> HIDE DEF n, z, more
  <1>5. CASE n >= 3 /\ s[1] = 22 /\ s[2] = 3 /\ z \in 1 .. MAX_TLS_RECORD
    <2>1. tls_record_needed(s) = Some(more)
      BY <1>1, <1>2, <1>5 DEF Header
    <2>2. more = 0 <=> n >= 3 + z
      BY <1>1, <1>5 DEF more, Header
    <2>3. tls_record_needed(s) = Some(0) <=> n >= 3 + z
      BY <1>3, <2>1, <2>2, Zenon
    <2> QED
      BY <1>5, <2>3 DEF n, z
  <1>6. CASE ~(n >= 3 /\ s[1] = 22 /\ s[2] = 3 /\ z \in 1 .. MAX_TLS_RECORD)
    <2>1. tls_record_needed(s) # Some(0)
      <3>1. CASE s = <<>>
        <4>1. tls_record_needed(s) = Some(Header) /\ Header # 0
          BY <1>2, <3>1 DEF Header
        <4> QED
          BY <1>3, <4>1
      <3>2. CASE s # <<>> /\ s[1] # 22
        BY <1>2, <1>4, <3>2
      <3>3. CASE s # <<>> /\ s[1] = 22 /\ n < Header
        <4>1. tls_record_needed(s) = Some(Header - n) /\ Header - n # 0
          BY <1>1, <1>2, <3>3 DEF Header
        <4> QED
          BY <1>3, <4>1
      <3>4. CASE s # <<>> /\ s[1] = 22 /\ ~(n < Header)
        <4>1. n >= 3
          BY <1>1, <3>4 DEF Header
        <4>2. tls_record_needed(s) \in {Err("NotTls"), Err("Malformed")}
          BY <1>2, <1>6, <3>4, <4>1, Zenon
        <4> QED
          BY <1>4, <4>2
      <3> QED
        BY <3>1, <3>2, <3>3, <3>4
    <2> QED
      BY <1>6, <2>1, Zenon DEF n, z
  <1> QED
    BY <1>5, <1>6

\* What the entry at position i of a list holds.
Held(list, i) == SubSeq(list, i + 2, i + 1 + list[i + 1])

\* The entry at i of a part of s that starts after o is an entry of s.
Sits(s, o, list, i) ==
    /\ EntryAt(s, o + i) /\ s[o + i + 1] = list[i + 1]
    /\ Piece(Held(list, i), s, o + i + 1) /\ Len(Held(list, i)) = list[i + 1]

\* An entry of a part of a record is one of the record.
LEMMA EntryInPiece ==
    ASSUME NEW s \in Seq(Nat), NEW list, NEW o, Piece(list, s, o), NEW i, EntryAt(list, i)
    PROVE  Sits(s, o, list, i)
  <1> DEFINE data == Held(list, i)
  <1> DEFINE y == list[i + 1]
  <1>1. /\ list \in Seq(Nat) /\ o \in Nat /\ Len(list) \in Nat /\ Len(s) \in Nat
        /\ o + Len(list) <= Len(s) /\ \A j \in 1 .. Len(list) : list[j] = s[o + j]
    BY LenProperties DEF Piece
  <1>2. i \in Nat /\ 1 <= i /\ i + 1 <= Len(list) /\ list[i] = 0 /\ y \in Nat /\ i + 1 + y <= Len(list)
    BY DEF EntryAt
  <1>3. s[o + i] = 0 /\ s[o + i + 1] = y
    <2>1. i \in 1 .. Len(list) /\ i + 1 \in 1 .. Len(list) /\ o + (i + 1) = o + i + 1
      BY <1>1, <1>2
    <2> QED
      BY <1>1, <1>2, <2>1
  <1>8. data = SubSeq(list, i + 2, i + 1 + y)
    BY DEF Held
  <1> HIDE DEF y, data
  <1>4. EntryAt(s, o + i)
    <2>1. o + i \in Nat /\ 1 <= o + i /\ (o + i) + 1 <= Len(s) /\ (o + i) + 1 + y <= Len(s)
      <3> DEFINE n == Len(list)
                 m == Len(s)
      <3>1. /\ n \in Nat /\ m \in Nat /\ o \in Nat /\ i \in Nat /\ y \in Nat
            /\ o + n <= m /\ 1 <= i /\ i + 1 + y <= n
        BY <1>1, <1>2
      <3> HIDE DEF n, m
      <3>2. o + i \in Nat /\ 1 <= o + i /\ (o + i) + 1 <= m /\ (o + i) + 1 + y <= m
        BY ONLY <3>1
      <3> QED
        BY <3>2 DEF m
    <2> DEFINE q == o + i
    <2>2. s[q] = 0 /\ s[q + 1] = y /\ y \in Nat
      BY <1>2, <1>3
    <2>3. q \in Nat /\ 1 <= q /\ q + 1 <= Len(s) /\ q + 1 + y <= Len(s)
      BY <2>1
    <2> HIDE DEF q
    <2>4. EntryAt(s, q)
      BY <2>2, <2>3, Zenon DEF EntryAt
    <2> QED
      BY <2>4 DEF q
  <1>5. Piece(data, s, o + (i + 2) - 1) /\ Len(data) = (i + 1 + y) - (i + 2) + 1
    <2>1. /\ i + 2 \in Nat /\ i + 1 + y \in Nat /\ 1 <= i + 2 /\ i + 2 <= (i + 1 + y) + 1
          /\ i + 1 + y <= Len(list)
      BY <1>1, <1>2
    <2> DEFINE a == i + 2
               b == i + 1 + y
    <2> HIDE DEF a, b
    <2>2. Piece(SubSeq(list, a, b), s, o + a - 1) /\ Len(SubSeq(list, a, b)) = b - a + 1
      BY <2>1, PieceOfPiece DEF a, b
    <2> QED
      BY <1>8, <2>2 DEF a, b
  <1>6. o + (i + 2) - 1 = o + i + 1 /\ (i + 1 + y) - (i + 2) + 1 = y
    BY <1>1, <1>2
  <1>7. Piece(data, s, o + i + 1) /\ Len(data) = y
    BY <1>5, <1>6
  <1> QED
    BY <1>3, <1>4, <1>7, Zenon DEF y, data, Sits

\* An extension is read to the end of its list of names.
LEMMA ExtensionRead ==
    ASSUME NEW s \in Seq(Nat), NEW data, NEW o, Piece(data, s, o),
           Len(data) >= 1, 1 + data[1] <= Len(data)
    PROVE  LET names == SubSeq(data, 2, 1 + data[1])
               first == FirstOfType0(names)
           IN /\ Piece(names, s, o + 1) /\ Len(names) = data[1] /\ data[1] = s[o + 1]
              /\ parse_sni_extension(data) =
                    IF \E name \in first.some : name = <<>> \/ NotUtf8 \in ToSet(name)
                    THEN Err("Malformed") ELSE first
  <1> DEFINE y == data[1]
             names == SubSeq(data, 2, 1 + y)
             first == FirstOfType0(names)
  <1>1. data \in Seq(Nat) /\ o \in Nat /\ Len(data) \in Nat /\ DOMAIN data = 1 .. Len(data)
        /\ \A j \in 1 .. Len(data) : data[j] = s[o + j]
    BY LenProperties DEF Piece
  <1>2. 1 \in DOMAIN data /\ y \in Nat /\ y = s[o + 1]
    <2>1. 1 \in 1 .. Len(data)
      BY <1>1
    <2> QED
      BY <1>1, <2>1, ElementOfSeq
  <1>3. Skip(data, 1) = 1 + 1 + y
    BY <1>2, Zenon DEF Skip
  <1>4. 1 + y <= Len(data)
    OBVIOUS
  <1> HIDE DEF y
  <1>5. Piece(names, s, o + 1) /\ Len(names) = y
    <2> DEFINE a == 2
               b == 1 + y
    <2>1. a \in Nat /\ b \in Nat /\ 1 <= a /\ a <= b + 1 /\ b <= Len(data)
      BY <1>1, <1>2, <1>4, SMTT(40)
    <2>2. o + a - 1 = o + 1 /\ b - a + 1 = y
      BY <1>1, <1>2, SMTT(40)
    <2> HIDE DEF a, b
    <2>3. Piece(SubSeq(data, a, b), s, o + a - 1) /\ Len(SubSeq(data, a, b)) = b - a + 1
      BY <2>1, PieceOfPiece
    <2>4. Piece(SubSeq(data, a, b), s, o + 1) /\ Len(SubSeq(data, a, b)) = y
      BY <2>2, <2>3
    <2> QED
      BY <2>4 DEF a, b
  <1>6. Skip(data, 1) - 1 = 1 + y /\ ~(Skip(data, 1) > Len(data) + 1)
    <2> DEFINE l == Len(data)
               x == Skip(data, 1)
    <2>1. l \in Nat /\ y \in Nat /\ x = 1 + 1 + y /\ 1 + y <= l
      BY <1>1, <1>2, <1>3, <1>4
    <2> HIDE DEF l, x
    <2>2. x - 1 = 1 + y /\ ~(x > l + 1)
      BY ONLY <2>1, SMTT(40)
    <2> QED
      BY <2>2 DEF l, x
  <1>7. parse_sni_extension(data) =
           IF \E name \in first.some : name = <<>> \/ NotUtf8 \in ToSet(name)
           THEN Err("Malformed") ELSE first
    <2> DEFINE head == FirstOfType0(SubSeq(data, 2, Skip(data, 1) - 1))
               odd(f) == \E name \in f.some : name = <<>> \/ NotUtf8 \in ToSet(name)
    <2>1. parse_sni_extension(data) =
             IF Skip(data, 1) > Len(data) + 1 THEN Err("Malformed")
             ELSE IF odd(head) THEN Err("Malformed") ELSE head
      BY Zenon DEF parse_sni_extension
    <2>2. head = first
      BY <1>6, Zenon
    <2> HIDE DEF head, first, odd
    <2>3. parse_sni_extension(data) = IF odd(first) THEN Err("Malformed") ELSE first
      BY <1>6, <2>1, <2>2, Zenon
    <2> QED
      BY <2>3, Zenon DEF odd
  <1> QED
    BY <1>2, <1>5, <1>7 DEF y

\* A name that an extension yields is one of its entries.
LEMMA ExtensionMentions ==
    ASSUME NEW s \in Seq(Nat), NEW data, NEW o, Piece(data, s, o), parse_sni_extension(data) \notin Nothings
    PROVE  \E i, name : /\ EntryAt(s, i) /\ Piece(name, s, i + 1) /\ Len(name) = s[i + 1]
                        /\ parse_sni_extension(data) = Some(name)
  <1> DEFINE names == SubSeq(data, 2, 1 + data[1])
             first == FirstOfType0(names)
             odd == \E name \in first.some : name = <<>> \/ NotUtf8 \in ToSet(name)
             result == parse_sni_extension(data)
  <1>0. data \in Seq(Nat) /\ Len(data) \in Nat /\ o \in Nat
    BY LenProperties DEF Piece
  <1>1. result \notin Nothings /\ Err("Malformed") \in Nothings
    BY Zenon DEF Nothings
  <1>2. ~(Skip(data, 1) > Len(data) + 1)
    <2>1. Skip(data, 1) > Len(data) + 1 => parse_sni_extension(data) = Err("Malformed")
      BY Zenon DEF parse_sni_extension
    <2> QED
      BY <1>1, <2>1, Zenon
  <1>3. Len(data) >= 1 /\ 1 + data[1] <= Len(data)
    <2>1. Skip(data, 1) \in Nat
      BY <1>0, SkipFits
    <2>2. Skip(data, 1) <= Len(data) + 1
      BY <1>0, <1>2, <2>1
    <2>3. 1 \in DOMAIN data
      BY <1>0, <2>2, SkipFits
    <2>4. data[1] \in Nat /\ Skip(data, 1) = 1 + 1 + data[1] /\ 1 <= Len(data)
      BY <1>0, <2>3, SkipFits
    <2> QED
      BY <1>0, <2>2, <2>4
  <1>4. Piece(names, s, o + 1) /\ result = IF odd THEN Err("Malformed") ELSE first
    BY <1>3, ExtensionRead
  <1> HIDE DEF names, first, odd
  <1>5. result = first /\ first \notin Nothings
    BY <1>1, <1>4, Zenon
  <1>6. PICK i : EntryAt(names, i) /\ first = Some(SubSeq(names, i + 2, i + 1 + names[i + 1]))
    <2>1. names \in Seq(Nat)
      BY <1>4 DEF Piece
    <2> QED
      BY <1>5, <2>1, FirstIsEntry DEF first
  <1> DEFINE name == SubSeq(names, i + 2, i + 1 + names[i + 1])
             p == (o + 1) + i
  <1>7. /\ EntryAt(s, p) /\ s[p + 1] = names[i + 1]
        /\ Piece(name, s, p + 1) /\ Len(name) = names[i + 1]
    <2>1. name = Held(names, i)
      BY DEF Held
    <2>2. Sits(s, o + 1, names, i)
      BY <1>4, <1>6, EntryInPiece, Zenon
    <2> HIDE DEF name
    <2> QED
      BY <2>1, <2>2, Zenon DEF p, Sits
  <1>8. result = Some(name)
    BY <1>5, <1>6
  <1> HIDE DEF name, p, result
  <1>9. EntryAt(s, p) /\ Piece(name, s, p + 1) /\ Len(name) = s[p + 1]
    BY <1>7
  <1> QED
    BY <1>8, <1>9 DEF result

SniBody(s) == SubSeq(s, Header + 1, Header + s[3])
SniHello(s) == SubSeq(SniBody(s), 3, 2 + SniBody(s)[2])
SniExts(s) == Skip(SniHello(s), Skip(SniHello(s), Skip(SniHello(s), 2)))
SniList(s) == SubSeq(SniHello(s), SniExts(s) + 1, Skip(SniHello(s), SniExts(s)) - 1)

\* parse_sni with its parts named.
LEMMA SniParsed ==
    ASSUME NEW s
    PROVE  parse_sni(s) =
              IF Len(SniBody(s)) < 2 \/ SniBody(s)[1] # 1 THEN Err("NotTls")
              ELSE IF 2 + SniBody(s)[2] > Len(SniBody(s)) THEN Err("Malformed")
              ELSE IF SniExts(s) = Len(SniHello(s)) + 1 THEN None
              ELSE IF SniExts(s) \notin DOMAIN SniHello(s)
                        \/ Skip(SniHello(s), SniExts(s)) > Len(SniHello(s)) + 1 THEN Err("Malformed")
              ELSE IF FirstOfType0(SniList(s)).some = {} THEN FirstOfType0(SniList(s))
              ELSE parse_sni_extension(CHOOSE data \in FirstOfType0(SniList(s)).some : TRUE)
  BY Zenon DEF parse_sni, SniBody, SniHello, SniExts, SniList

\* The handshake message.
LEMMA SniBodyRead ==
    ASSUME NEW s \in Seq(Nat), tls_record_needed(s) = Some(0)
    PROVE  /\ Piece(SniBody(s), s, 3) /\ Len(SniBody(s)) = s[3] /\ s[3] \in Nat
           /\ Len(SniBody(s)) >= 2 =>
                 SniBody(s)[1] = s[4] /\ SniBody(s)[2] = s[5] /\ SniBody(s)[2] \in Nat
  <1> DEFINE n == Len(s)
             z == s[3]
             body == SniBody(s)
             a == 4
             b == 3 + z
  <1>1. n \in Nat /\ z \in Nat /\ n >= 3 + z
    <2>1. z \in 1 .. MAX_TLS_RECORD /\ Len(s) >= 3 + z
      BY RecordComplete
    <2>2. \A y \in 1 .. MAX_TLS_RECORD : y \in Nat
      OBVIOUS
    <2>3. n \in Nat
      BY LenProperties
    <2> QED
      BY <2>1, <2>2, <2>3
  <1> HIDE DEF n, z
  <1>2. Piece(s, s, 0)
    BY LenProperties DEF Piece
  <1>3. body = SubSeq(s, a, b)
    BY DEF SniBody, Header, z
  <1>4. a \in Nat /\ b \in Nat /\ 1 <= a /\ a <= b + 1 /\ b <= n /\ 0 + a - 1 = 3 /\ b - a + 1 = z
    BY <1>1
  <1> HIDE DEF a, b, body
  <1>5. Piece(SubSeq(s, a, b), s, 0 + a - 1) /\ Len(SubSeq(s, a, b)) = b - a + 1
    BY <1>2, <1>4, PieceOfPiece DEF n
  <1>6. Piece(body, s, 3) /\ Len(body) = z
    BY <1>3, <1>4, <1>5
  <1>7. Len(body) >= 2 => body[1] = s[4] /\ body[2] = s[5] /\ body[2] \in Nat
    <2> HAVE Len(body) >= 2
    <2>1. body \in Seq(Nat) /\ 1 \in 1 .. Len(body) /\ 2 \in 1 .. Len(body)
      BY <1>1, <1>6 DEF Piece
    <2>2. body[1] = s[3 + 1] /\ body[2] = s[3 + 2] /\ body[2] \in Nat
      BY <1>6, <2>1, ElementOfSeq DEF Piece
    <2> QED
      BY <2>2
  <1> QED
    BY <1>1, <1>6, <1>7 DEF body, z

\* The ClientHello and where its extensions are.
LEMMA SniHelloRead ==
    ASSUME NEW s \in Seq(Nat), tls_record_needed(s) = Some(0),
           Len(SniBody(s)) >= 2, 2 + SniBody(s)[2] <= Len(SniBody(s))
    PROVE  /\ Piece(SniHello(s), s, 5) /\ Len(SniHello(s)) = s[5]
           /\ SniExts(s) \in Nat /\ 1 <= SniExts(s)
  <1> DEFINE body == SniBody(s)
             z == body[2]
             hello == SniHello(s)
             a == 3
             b == 2 + z
  <1>1. Piece(body, s, 3) /\ z = s[5] /\ z \in Nat /\ 2 + z <= Len(body) /\ Len(body) \in Nat
    <2>1. Piece(body, s, 3) /\ z = s[5] /\ z \in Nat /\ 2 + z <= Len(body)
      BY SniBodyRead
    <2> QED
      BY <2>1, LenProperties DEF Piece
  <1>2. hello = SubSeq(body, a, b)
    BY DEF SniHello
  <1> HIDE DEF z, body
  <1>3. a \in Nat /\ b \in Nat /\ 1 <= a /\ a <= b + 1 /\ b <= Len(body) /\ 3 + a - 1 = 5 /\ b - a + 1 = z
    <2> DEFINE l == Len(body)
    <2>1. l \in Nat /\ z \in Nat /\ 2 + z <= l
      BY <1>1
    <2> HIDE DEF l
    <2>2. a \in Nat /\ b \in Nat /\ 1 <= a /\ a <= b + 1 /\ b <= l /\ 3 + a - 1 = 5 /\ b - a + 1 = z
      BY ONLY <2>1, SMTT(40) DEF a, b
    <2> QED
      BY <2>2 DEF l
  <1> HIDE DEF a, b, hello
  <1>4. Piece(SubSeq(body, a, b), s, 3 + a - 1) /\ Len(SubSeq(body, a, b)) = b - a + 1
    BY <1>1, <1>3, PieceOfPiece
  <1>5. Piece(hello, s, 5) /\ Len(hello) = z
    BY <1>2, <1>3, <1>4
  <1>6. \A i \in Nat : 1 <= i => Skip(hello, i) \in Nat /\ 1 <= Skip(hello, i)
    <2>1. hello \in Seq(Nat)
      BY <1>5 DEF Piece
    <2> QED
      BY <2>1, SkipFits
  <1>7. SniExts(s) \in Nat /\ 1 <= SniExts(s)
    <2> DEFINE i == Skip(hello, 2)
               j == Skip(hello, i)
               k == Skip(hello, j)
    <2>1. i \in Nat /\ 1 <= i
      BY <1>6
    <2> HIDE DEF i
    <2>2. j \in Nat /\ 1 <= j
      BY <1>6, <2>1
    <2> HIDE DEF j
    <2>3. k \in Nat /\ 1 <= k
      BY <1>6, <2>2
    <2> QED
      BY <2>3 DEF SniExts, hello, i, j, k
  <1> QED
    BY <1>1, <1>5, <1>7 DEF hello

\* The extensions.
LEMMA SniListRead ==
    ASSUME NEW s \in Seq(Nat), tls_record_needed(s) = Some(0),
           Len(SniBody(s)) >= 2, 2 + SniBody(s)[2] <= Len(SniBody(s)),
           SniExts(s) \in DOMAIN SniHello(s), Skip(SniHello(s), SniExts(s)) <= Len(SniHello(s)) + 1
    PROVE  Piece(SniList(s), s, 5 + SniExts(s)) /\ Len(SniList(s)) = s[5 + SniExts(s)]
  <1> DEFINE hello == SniHello(s)
             x == SniExts(s)
             y == hello[x]
             list == SniList(s)
             a == x + 1
             b == Skip(hello, x) - 1
  <1>1. Piece(hello, s, 5) /\ x \in Nat /\ 1 <= x
    BY SniHelloRead
  <1>2. hello \in Seq(Nat) /\ Len(hello) \in Nat /\ DOMAIN hello = 1 .. Len(hello)
    BY <1>1, LenProperties DEF Piece
  <1>3. x \in DOMAIN hello /\ Skip(hello, x) <= Len(hello) + 1
    OBVIOUS
  <1> HIDE DEF hello, x
  <1>4. y \in Nat /\ Skip(hello, x) = x + 1 + y
    BY <1>1, <1>2, <1>3, SkipFits
  <1>5. y = s[5 + x]
    BY <1>1, <1>2, <1>3 DEF Piece
  <1>6. list = SubSeq(hello, a, b)
    BY DEF SniList, hello, x
  <1> HIDE DEF y
  <1>7. /\ a \in Nat /\ b \in Nat /\ 1 <= a /\ a <= b + 1 /\ b <= Len(hello)
        /\ 5 + a - 1 = 5 + x /\ b - a + 1 = y
    BY <1>1, <1>2, <1>3, <1>4
  <1> HIDE DEF a, b, list
  <1>8. Piece(SubSeq(hello, a, b), s, 5 + a - 1) /\ Len(SubSeq(hello, a, b)) = b - a + 1
    BY <1>1, <1>7, PieceOfPiece
  <1>9. Piece(list, s, 5 + x) /\ Len(list) = y
    BY <1>6, <1>7, <1>8
  <1> QED
    BY <1>5, <1>9 DEF list, x

\* The name that is found in a record is one of its entries.
LEMMA SniIsMentioned ==
    ASSUME NEW s \in Seq(Nat), tls_record_needed(s) = Some(0), parse_sni(s) \notin Nothings
    PROVE  \E i, name : /\ EntryAt(s, i) /\ Piece(name, s, i + 1) /\ Len(name) = s[i + 1]
                        /\ parse_sni(s) = Some(name)
  <1> DEFINE body == SniBody(s)
             hello == SniHello(s)
             x == SniExts(s)
             list == SniList(s)
             sni == FirstOfType0(list)
             data == CHOOSE d \in sni.some : TRUE
             result == parse_sni(s)
  <1>1. {None, Err("Malformed"), Err("NotTls")} \subseteq Nothings
    BY Zenon DEF Nothings
  <1>2. result =
           IF Len(body) < 2 \/ body[1] # 1 THEN Err("NotTls")
           ELSE IF 2 + body[2] > Len(body) THEN Err("Malformed")
           ELSE IF x = Len(hello) + 1 THEN None
           ELSE IF x \notin DOMAIN hello \/ Skip(hello, x) > Len(hello) + 1 THEN Err("Malformed")
           ELSE IF sni.some = {} THEN sni
           ELSE parse_sni_extension(data)
    BY SniParsed, Zenon
  <1>3. result \notin Nothings
    OBVIOUS
  <1> HIDE DEF body, hello, x, list, sni, data, result
  <1>4. /\ ~(Len(body) < 2) /\ ~(2 + body[2] > Len(body))
        /\ x \in DOMAIN hello /\ ~(Skip(hello, x) > Len(hello) + 1)
        /\ result = IF sni.some = {} THEN sni ELSE parse_sni_extension(data)
    BY <1>1, <1>2, <1>3, Zenon
  <1>5. Len(body) >= 2 /\ 2 + body[2] <= Len(body)
    <2>1. Len(body) \in Nat /\ (Len(body) >= 2 => body[2] \in Nat)
      BY SniBodyRead, LenProperties DEF Piece, body
    <2> QED
      BY <1>4, <2>1
  <1>6. Skip(hello, x) <= Len(hello) + 1
    <2>1. Piece(hello, s, 5) /\ x \in Nat /\ 1 <= x
      BY <1>5, SniHelloRead DEF hello, x, body
    <2>2. hello \in Seq(Nat) /\ Len(hello) \in Nat
      BY <2>1, LenProperties DEF Piece
    <2>3. Skip(hello, x) \in Nat
      BY <2>1, <2>2, SkipFits
    <2> QED
      BY <1>4, <2>2, <2>3
  <1> DEFINE o == 5 + x
  <1>7. Piece(list, s, o)
    BY <1>4, <1>5, <1>6, SniListRead DEF list, hello, x, body
  <1> HIDE DEF o
  <1>8. list \in Seq(Nat)
    BY <1>7 DEF Piece
  <1>9. PICK i : EntryAt(list, i) /\ sni = Some(SubSeq(list, i + 2, i + 1 + list[i + 1]))
    <2>1. sni \notin Nothings
      <3>1. \A y \in Nothings : y.some = {}
        BY DEF Nothings, None, Err
      <3> QED
        BY <1>3, <1>4, <3>1, Zenon
    <2> QED
      BY <1>8, <2>1, FirstIsEntry DEF sni
  <1> DEFINE d == SubSeq(list, i + 2, i + 1 + list[i + 1])
  <1>10. Piece(d, s, o + i + 1)
    <2>1. d = Held(list, i) /\ Sits(s, o, list, i)
      BY <1>7, <1>9, EntryInPiece, Zenon DEF Held
    <2> HIDE DEF d
    <2> QED
      BY <2>1, Zenon DEF Sits
  <1> HIDE DEF d
  <1>11. sni.some = {d} /\ data = d
    <2>1. sni.some = {d}
      BY <1>9 DEF Some, d
    <2> QED
      BY <2>1 DEF data
  <1>12. result = parse_sni_extension(d) /\ parse_sni_extension(d) \notin Nothings
    BY <1>3, <1>4, <1>11
  <1>13. PICK j, name : /\ EntryAt(s, j) /\ Piece(name, s, j + 1) /\ Len(name) = s[j + 1]
                        /\ parse_sni_extension(d) = Some(name)
    BY <1>10, <1>12, ExtensionMentions
  <1>14. result = Some(name)
    BY <1>12, <1>13
  <1> QED
    BY <1>13, <1>14 DEF result

\* A vector of a part of a record ends where it does in the record.
LEMMA SkipInPiece ==
    ASSUME NEW s \in Seq(Nat), NEW t, NEW o, Piece(t, s, o),
           NEW p \in Nat, o + 1 <= p, p <= o + Len(t)
    PROVE  /\ p - o \in DOMAIN t /\ s[p] \in Nat
           /\ Skip(t, p - o) = (p + 1 + s[p]) - o
  <1> DEFINE i == p - o
  <1>1. t \in Seq(Nat) /\ o \in Nat /\ Len(t) \in Nat /\ DOMAIN t = 1 .. Len(t)
        /\ \A j \in 1 .. Len(t) : t[j] = s[o + j]
    BY LenProperties DEF Piece
  <1>2. i \in 1 .. Len(t) /\ o + i = p /\ i \in Nat /\ 1 <= i
    BY <1>1
  <1> HIDE DEF i
  <1>3. t[i] = s[p] /\ t[i] \in Nat
    BY <1>1, <1>2, ElementOfSeq
  <1>4. Skip(t, i) = i + 1 + t[i]
    BY <1>1, <1>2, SkipFits
  <1> DEFINE y == s[p]
  <1>5. y \in Nat /\ Skip(t, i) = i + 1 + y
    BY <1>3, <1>4
  <1> HIDE DEF y
  <1>6. i + 1 + y = (p + 1 + y) - o
    BY <1>1, <1>2, <1>5
  <1> QED
    BY <1>1, <1>2, <1>5, <1>6 DEF i, y

\* The first name of a ClientHello is found.
LEMMA SniIsFound ==
    ASSUME NEW h, IsHello(h), h.name # <<>>, h.name \in Seq(Nat)
    PROVE  LET p == h.names[Len(h.names)] + 1 IN
           /\ tls_record_needed(h.sent) = Some(0)
           /\ \E name : /\ Piece(name, h.sent, p) /\ Len(name) = h.sent[p]
                        /\ parse_sni(h.sent) = Some(name)
  <1> DEFINE s == h.sent
             n == Len(s)
             ciphers == 8 + s[7]
             methods == ciphers + 1 + s[ciphers]
             exts == methods + 1 + s[methods]
             sni == h.exts[Len(h.exts)]
             m == h.names[Len(h.names)]
             p == m + 1
             z == s[sni + 1]
  <1>1. /\ s \in Seq(Nat) /\ n > 5 /\ SubSeq(s, 1, 5) = <<22, 3, n - 3, 1, n - 5>>
        /\ s[3] <= MAX_TLS_RECORD /\ {7, ciphers, methods, exts} \subseteq DOMAIN s
        /\ exts + s[exts] = n
    BY Zenon DEF IsHello
  <1>2. /\ UpToType0(s, h.exts, exts + 1, n)
        /\ s[sni + 2] = z - 1
        /\ UpToType0(s, h.names, sni + 3, sni + 1 + z)
        /\ Holds(s, p, h.name) /\ \A k \in 1 .. s[p] : s[p + k] # NotUtf8
    BY Zenon DEF IsHello
  <1>3. n \in Nat /\ DOMAIN s = 1 .. n /\ \A k \in 1 .. n : s[k] \in Nat
    BY <1>1, LenProperties, ElementOfSeq
  <1> HIDE DEF s, n, ciphers, methods, exts, sni, m, p, z
  <1>4. s[1] = 22 /\ s[2] = 3 /\ s[3] = n - 3 /\ s[4] = 1 /\ s[5] = n - 5
    <2> DEFINE u == SubSeq(s, 1, 5)
    <2>1. u[1] = s[1] /\ u[2] = s[2] /\ u[3] = s[3] /\ u[4] = s[4] /\ u[5] = s[5]
      BY <1>1, <1>3 DEF n
    <2>2. u = <<22, 3, n - 3, 1, n - 5>>
      BY <1>1
    <2> HIDE DEF u
    <2> QED
      BY <2>1, <2>2
  <1>5. tls_record_needed(s) = Some(0)
    <2>1. /\ n >= 3 /\ s[1] = 22 /\ s[2] = 3 /\ s[3] \in 1 .. MAX_TLS_RECORD
          /\ n >= 3 + s[3]
      BY <1>1, <1>3, <1>4 DEF MAX_TLS_RECORD
    <2> QED
      BY <1>1, <2>1, RecordComplete DEF n
  <1> DEFINE body == SniBody(s)
             hello == SniHello(s)
             x == SniExts(s)
             list == SniList(s)
  <1>6. Len(body) >= 2 /\ body[1] = 1 /\ 2 + body[2] <= Len(body)
    <2>1. /\ Len(body) = s[3]
          /\ Len(body) >= 2 => body[1] = s[4] /\ body[2] = s[5]
      BY <1>1, <1>5, SniBodyRead
    <2>2. Len(body) = n - 3 /\ n - 3 >= 2
      BY <1>1, <1>3, <1>4, <2>1
    <2>3. body[1] = 1 /\ body[2] = n - 5
      BY <1>3, <1>4, <2>1, <2>2
    <2> QED
      BY <1>3, <2>2, <2>3
  <1>7. Piece(hello, s, 5) /\ Len(hello) = n - 5
    BY <1>1, <1>4, <1>5, <1>6, SniHelloRead
  <1>8. /\ ciphers \in Nat /\ methods \in Nat /\ exts \in Nat
        /\ 6 <= ciphers /\ 6 <= methods /\ 6 <= exts
        /\ ciphers <= n /\ methods <= n /\ exts <= n /\ 7 <= n /\ s[7] \in Nat
        /\ s[ciphers] \in Nat /\ s[methods] \in Nat /\ s[exts] \in Nat
    <2>1. 7 \in 1 .. n /\ ciphers \in 1 .. n /\ methods \in 1 .. n /\ exts \in 1 .. n
      BY <1>1, <1>3
    <2>2. s[7] \in Nat /\ s[ciphers] \in Nat /\ s[methods] \in Nat /\ s[exts] \in Nat
      BY <1>3, <2>1
    <2>3. 6 <= ciphers
      BY <2>2 DEF ciphers
    <2>4. 6 <= methods
      BY <1>3, <2>1, <2>2, <2>3 DEF methods
    <2>5. 6 <= exts
      BY <1>3, <2>1, <2>2, <2>4 DEF exts
    <2> QED
      BY <1>3, <2>1, <2>2, <2>3, <2>4, <2>5
  <1>9. ASSUME NEW q \in Nat, 6 <= q, q <= n
        PROVE  q - 5 \in DOMAIN hello /\ Skip(hello, q - 5) = (q + 1 + s[q]) - 5
    <2> DEFINE o == 5
    <2>1. Piece(hello, s, o) /\ o + 1 <= q /\ q <= o + Len(hello)
      BY <1>3, <1>7, <1>9
    <2> HIDE DEF o
    <2>2. q - o \in DOMAIN hello /\ Skip(hello, q - o) = (q + 1 + s[q]) - o
      BY <1>1, <2>1, SkipInPiece
    <2> QED
      BY <2>2 DEF o
  <1>10. x = exts - 5
    <2>1. Skip(hello, 2) = ciphers - 5
      <3>1. Skip(hello, 7 - 5) = (7 + 1 + s[7]) - 5
        <4> DEFINE c == 7
        <4>1. c \in Nat /\ 6 <= c /\ c <= n
          BY <1>8
        <4> HIDE DEF c
        <4>2. Skip(hello, c - 5) = (c + 1 + s[c]) - 5
          BY <1>9, <4>1
        <4> QED
          BY <4>2 DEF c
      <3>2. 7 - 5 = 2 /\ (7 + 1 + s[7]) - 5 = ciphers - 5
        BY <1>8 DEF ciphers
      <3> QED
        BY <3>1, <3>2
    <2>2. Skip(hello, ciphers - 5) = methods - 5
      BY <1>8, <1>9 DEF methods
    <2>3. Skip(hello, methods - 5) = exts - 5
      BY <1>8, <1>9 DEF exts
    <2> QED
      BY <2>1, <2>2, <2>3 DEF SniExts
  <1>11. x \in DOMAIN hello /\ Skip(hello, x) = n - 4 /\ x # n - 4
    <2>1. exts - 5 \in DOMAIN hello /\ Skip(hello, exts - 5) = (exts + 1 + s[exts]) - 5
      BY <1>8, <1>9
    <2>2. (exts + 1 + s[exts]) - 5 = n - 4
      <3> DEFINE y == s[exts]
      <3>1. y \in Nat /\ exts + y = n
        BY <1>1, <1>8
      <3> HIDE DEF y
      <3>2. (exts + 1 + y) - 5 = n - 4
        BY <1>3, <1>8, <3>1
      <3> QED
        BY <3>2 DEF y
    <2>3. exts - 5 # n - 4
      BY <1>3, <1>8
    <2> QED
      BY <1>10, <2>1, <2>2, <2>3
  <1>12. Piece(list, s, exts) /\ Len(list) = s[exts]
    <2>1. Skip(hello, x) <= Len(hello) + 1
      BY <1>3, <1>7, <1>11
    <2>2. 5 + x = exts
      BY <1>8, <1>10
    <2>3. Piece(list, s, 5 + x) /\ Len(list) = s[5 + x]
      BY <1>1, <1>5, <1>6, <1>11, <2>1, SniListRead
    <2> QED
      BY <2>2, <2>3
  <1> DEFINE first == FirstOfType0(list)
             i == sni - exts
             data == SubSeq(list, i + 2, i + 1 + list[i + 1])
  <1>13. EntryAt(list, i) /\ first = Some(data)
    <2>1. UpToType0(s, h.exts, exts + 1, exts + Len(list))
      BY <1>1, <1>2, <1>12
    <2> DEFINE at == h.exts
               e == at[Len(at)] - exts
    <2> HIDE DEF at, list
    <2>2. EntryAt(list, e) /\ FirstOfType0(list) = Some(SubSeq(list, e + 2, e + 1 + list[e + 1]))
      <3>1. s \in Seq(Nat) /\ Piece(list, s, exts) /\ UpToType0(s, at, exts + 1, exts + Len(list))
        BY <1>1, <1>12, <2>1 DEF at
      <3> QED
        BY <3>1, FirstReached, ZenonT(60)
    <2> QED
      BY <2>2, Zenon DEF sni, at
  <1>14. sni \in Nat /\ exts + i = sni
    <2>1. sni \in exts + 1 .. n - 1
      <3>1. h.exts \in Seq(exts + 1 .. n - 1) /\ Len(h.exts) > 0 /\ Len(h.exts) \in Nat
        BY <1>2, LenProperties DEF UpToType0
      <3> QED
        <4>1. Len(h.exts) \in 1 .. Len(h.exts)
          BY <3>1
        <4> QED
          BY <3>1, <4>1, ElementOfSeq DEF sni
    <2> QED
      BY <1>3, <1>8, <2>1
  <1>15. Piece(data, s, sni + 1) /\ Len(data) = z /\ z \in Nat /\ EntryAt(s, sni)
    <2> HIDE DEF i, list
    <2>1. /\ EntryAt(s, exts + i) /\ s[exts + i + 1] = list[i + 1]
          /\ Piece(data, s, exts + i + 1) /\ Len(data) = list[i + 1]
      <3>1. data = Held(list, i)
        BY DEF Held
      <3>2. Sits(s, exts, list, i)
        BY <1>1, <1>12, <1>13, EntryInPiece, Zenon
      <3> HIDE DEF data
      <3> QED
        BY <3>1, <3>2, Zenon DEF Sits
    <2>2. list[i + 1] \in Nat
      BY <1>13 DEF EntryAt
    <2> HIDE DEF data
    <2> QED
      BY <1>14, <2>1, <2>2 DEF z
  <1> HIDE DEF i
  <1>16. z >= 3
    <2>1. h.names \in Seq(sni + 3 .. (sni + 1 + z) - 1) /\ Len(h.names) > 0 /\ Len(h.names) \in Nat
      BY <1>2, LenProperties DEF UpToType0
    <2>2. h.names[1] \in sni + 3 .. (sni + 1 + z) - 1
      <3>1. 1 \in 1 .. Len(h.names)
        BY <2>1
      <3> QED
        BY <2>1, <3>1, ElementOfSeq
    <2> QED
      BY <1>14, <1>15, <2>2
  <1> DEFINE names == SubSeq(data, 2, 1 + data[1])
             found == FirstOfType0(names)
             odd == \E name \in found.some : name = <<>> \/ NotUtf8 \in ToSet(name)
  <1>17. data[1] = z - 1
    <2> HIDE DEF data
    <2>1. 1 \in 1 .. Len(data)
      BY <1>15, <1>16
    <2>2. data[1] = s[(sni + 1) + 1]
      BY <1>15, <2>1 DEF Piece
    <2>3. (sni + 1) + 1 = sni + 2
      BY <1>14
    <2> QED
      BY <1>2, <2>2, <2>3
  <1> HIDE DEF data
  <1>18. /\ Piece(names, s, sni + 2) /\ Len(names) = z - 1
         /\ parse_sni_extension(data) = IF odd THEN Err("Malformed") ELSE found
    <2>1. Len(data) >= 1 /\ 1 + data[1] <= Len(data)
      BY <1>15, <1>16, <1>17
    <2> DEFINE o == sni + 1
    <2> HIDE DEF o
    <2>2. Piece(data, s, o)
      BY <1>15 DEF o
    <2>3. /\ Piece(names, s, o + 1) /\ Len(names) = data[1]
          /\ parse_sni_extension(data) = IF odd THEN Err("Malformed") ELSE found
      BY <1>1, <2>1, <2>2, ExtensionRead
    <2>4. o + 1 = sni + 2
      BY <1>14 DEF o
    <2> HIDE DEF names, found, odd
    <2> QED
      BY <1>17, <2>3, <2>4
  <1> HIDE DEF names
  <1> DEFINE q == sni + 2
             j == m - q
             name == SubSeq(names, j + 2, j + 1 + names[j + 1])
  <1>19. EntryAt(names, j) /\ found = Some(name)
    <2>1. q + 1 = sni + 3 /\ q + Len(names) = sni + 1 + z /\ q \in Nat
      BY <1>14, <1>15, <1>18
    <2>2. UpToType0(s, h.names, q + 1, q + Len(names)) /\ Piece(names, s, q)
      BY <1>2, <1>18, <2>1
    <2> HIDE DEF q
    <2> DEFINE at == h.names
               e == at[Len(at)] - q
    <2> HIDE DEF at
    <2>3. EntryAt(names, e) /\ FirstOfType0(names) = Some(SubSeq(names, e + 2, e + 1 + names[e + 1]))
      <3>1. s \in Seq(Nat) /\ Piece(names, s, q) /\ UpToType0(s, at, q + 1, q + Len(names))
        BY <1>1, <2>2 DEF at
      <3> QED
        BY <3>1, FirstReached, ZenonT(60)
    <2> QED
      BY <2>3, Zenon DEF m, at
  <1>20. m \in Nat /\ q + j = m
    <2>1. m \in sni + 3 .. (sni + 1 + z) - 1
      <3>1. h.names \in Seq(sni + 3 .. (sni + 1 + z) - 1) /\ Len(h.names) > 0 /\ Len(h.names) \in Nat
        BY <1>2, LenProperties DEF UpToType0
      <3> QED
        <4>1. Len(h.names) \in 1 .. Len(h.names)
          BY <3>1
        <4> QED
          BY <3>1, <4>1, ElementOfSeq DEF m
    <2> QED
      BY <1>14, <1>15, <2>1
  <1>21. Piece(name, s, p) /\ Len(name) = s[p] /\ s[p] \in Nat
    <2>0. Piece(names, s, q)
      BY <1>18
    <2> HIDE DEF q, j
    <2>1. /\ s[q + j + 1] = names[j + 1]
          /\ Piece(name, s, q + j + 1) /\ Len(name) = names[j + 1]
      <3>1. name = Held(names, j)
        BY DEF Held
      <3>2. Sits(s, q, names, j)
        BY <1>1, <1>19, <2>0, EntryInPiece, Zenon
      <3> HIDE DEF name
      <3> QED
        BY <3>1, <3>2, Zenon DEF Sits
    <2>2. names[j + 1] \in Nat
      BY <1>19 DEF EntryAt
    <2> HIDE DEF name
    <2> QED
      BY <1>20, <2>1, <2>2 DEF p
  <1> HIDE DEF name, found
  <1>22. ~odd
    <2>1. found.some = {name}
      BY <1>19 DEF Some
    <2>2. name # <<>>
      <3>1. Len(h.name) <= s[p] /\ Len(h.name) > 0 /\ Len(h.name) \in Nat
        BY <1>2, LenProperties, EmptySeq DEF Holds
      <3> QED
        BY <1>21, <3>1
    <2>3. NotUtf8 \notin ToSet(name)
      <3>1. name \in Seq(Nat) /\ DOMAIN name = 1 .. s[p]
        BY <1>21, LenProperties DEF Piece
      <3>2. \A k \in 1 .. s[p] : name[k] = s[p + k]
        BY <1>21 DEF Piece
      <3> QED
        BY <1>2, <3>1, <3>2 DEF ToSet
    <2> QED
      BY <2>1, <2>2, <2>3
  <1> HIDE DEF odd
  <1>23. parse_sni_extension(data) = Some(name)
    BY <1>18, <1>19, <1>22
  <1>24. parse_sni(s) = Some(name)
    <2>1. /\ ~(Len(body) < 2 \/ body[1] # 1) /\ ~(2 + body[2] > Len(body))
          /\ x # Len(hello) + 1
          /\ ~(x \notin DOMAIN hello \/ Skip(hello, x) > Len(hello) + 1)
      <3>1. Len(hello) + 1 = n - 4 /\ ~(n - 4 > n - 4)
        BY <1>3, <1>7
      <3>2. Len(body) \in Nat /\ body[2] \in Nat
        BY <1>1, <1>5, <1>6, SniBodyRead
      <3>3. ~(Len(body) < 2) /\ ~(2 + body[2] > Len(body))
        BY <1>6, <3>2
      <3> HIDE DEF body, hello, x
      <3> QED
        BY <1>6, <1>11, <3>1, <3>3
    <2>2. first.some = {data}
      BY <1>13 DEF Some
    <2>3. (CHOOSE d \in first.some : TRUE) = data
      BY <2>2
    <2>4. parse_sni(s) =
             IF Len(body) < 2 \/ body[1] # 1 THEN Err("NotTls")
             ELSE IF 2 + body[2] > Len(body) THEN Err("Malformed")
             ELSE IF x = Len(hello) + 1 THEN None
             ELSE IF x \notin DOMAIN hello \/ Skip(hello, x) > Len(hello) + 1 THEN Err("Malformed")
             ELSE IF first.some = {} THEN first
             ELSE parse_sni_extension(CHOOSE d \in first.some : TRUE)
      BY SniParsed, Zenon
    <2> HIDE DEF body, hello, x, first
    <2>5. first.some # {}
      BY <2>2
    <2>6. parse_sni(s) = parse_sni_extension(CHOOSE d \in first.some : TRUE)
      BY <2>1, <2>4, <2>5, Zenon
    <2> QED
      BY <1>23, <2>3, <2>6
  <1> QED
    BY <1>5, <1>21, <1>24 DEF s, m, p

\* Sequences that are put together: all their elements, and at the end the
\* last of them.
LEMMA Flattened ==
    ASSUME NEW S, NEW seqs \in Seq(Seq(S)), seqs # <<>>
    PROVE  LET n == Len(seqs) IN \E t \in Seq(S) : FlattenSeq(seqs) = t \o seqs[n]
  <1> DEFINE n == Len(seqs)
             T == Seq(S)
             G == [i \in 1 .. n - 1 |-> [x \in T |-> x \o seqs[i + 1]]]
             Body(f, i) == IF i = 1 THEN seqs[i] ELSE f[i - 1] \o seqs[i]
             Flat(f) == f = [i \in 1 .. n |-> Body(f, i)]
  <1>1. n \in Nat /\ n >= 1 /\ n - 1 \in Nat
    BY LenProperties, EmptySeq
  <1>2. \A i \in 1 .. n : seqs[i] \in T
    BY ElementOfSeq
  <1>3. \A x, y \in T : x \o y \in T
    BY ConcatProperties
  <1>4. FlattenSeq(seqs) = (CHOOSE f : Flat(f))[n]
    <2>1. ~(Len(seqs) = 0)
      BY <1>1
    <2> QED
      BY <2>1, Zenon DEF FlattenSeq
  <1>5. <<>> \in T
    OBVIOUS
  <1> HIDE DEF n, T
  <1>6. G \in [1 .. n - 1 -> [T -> T]]
    <2>1. ASSUME NEW i \in 1 .. n - 1 PROVE i + 1 \in 1 .. n
      BY <1>1
    <2> QED
      BY <1>2, <1>3, <2>1
  <1>7. \E f : Flat(f)
    <2> DEFINE m == n - 1
               b == seqs[1]
    <2>1. b \in T /\ m \in Nat /\ G \in [1 .. m -> [T -> T]]
      BY <1>1, <1>2, <1>6
    <2> HIDE DEF m, b, G
    <2>2. PICK g : Solution(g, m, T, b, G)
      BY <2>1, Recursion
    <2>3. g \in [0 .. m -> T] /\ g[0] = b /\ \A i \in 1 .. m : g[i] = G[i][g[i - 1]]
      BY <2>2 DEF Solution
    <2> DEFINE f == [i \in 1 .. n |-> g[i - 1]]
    <2>4. \A i \in 1 .. n : f[i] = g[i - 1]
      OBVIOUS
    <2>5. f = [i \in 1 .. n |-> f[i]]
      OBVIOUS
    <2> HIDE DEF f
    <2>6. ASSUME NEW i \in 1 .. n PROVE f[i] = Body(f, i)
      <3>1. CASE i = 1
        <4>1. f[1] = g[0]
          BY <2>4, <3>1
        <4> QED
          BY <2>3, <3>1, <4>1 DEF b
      <3>2. CASE i # 1
        <4> DEFINE j == i - 1
        <4>1. j \in 1 .. m /\ j + 1 = i /\ j \in 1 .. n /\ j - 1 \in 0 .. m
          BY <1>1, <3>2 DEF m
        <4>2. f[i] = g[j] /\ f[j] = g[j - 1]
          BY <2>4, <4>1
        <4> HIDE DEF j
        <4>3. g[j] = G[j][g[j - 1]] /\ g[j - 1] \in T
          BY <2>3, <4>1
        <4>4. G[j][g[j - 1]] = g[j - 1] \o seqs[j + 1]
          BY <4>1, <4>3 DEF G, m
        <4>5. f[i] = f[j] \o seqs[i]
          BY <4>1, <4>2, <4>3, <4>4
        <4> QED
          BY <3>2, <4>5 DEF j
      <3> QED
        BY <3>1, <3>2
    <2>7. Flat(f)
      <3> HIDE DEF Body
      <3> QED
        BY <2>5, <2>6
    <2> HIDE DEF Flat
    <2> QED
      BY <2>7
  <1> DEFINE h == CHOOSE f : Flat(f)
  <1>8. Flat(h)
    BY <1>7, Zenon
  <1> HIDE DEF h
  <1>9. \A i \in 1 .. n : h[i] = Body(h, i)
    <2> HIDE DEF Body
    <2> QED
      BY <1>8
  <1> DEFINE Good == {k \in 0 .. n - 1 : \E t \in T : h[k + 1] = t \o seqs[k + 1]}
  <1>10. ASSUME NEW k \in 0 .. n - 1, k = 0 \/ h[k] \in T
         PROVE  \E t \in T : h[k + 1] = t \o seqs[k + 1]
    <2>1. CASE k = 0
      <3>1. 1 \in 1 .. n /\ k + 1 = 1
        BY <1>1, <2>1
      <3>2. h[1] = seqs[1] /\ seqs[1] \in T
        BY <1>2, <1>9, <3>1
      <3>3. seqs[1] = <<>> \o seqs[1]
        BY <3>2 DEF T
      <3> QED
        BY <1>5, <3>1, <3>2, <3>3
    <2>2. CASE k # 0
      <3>1. k + 1 \in 1 .. n /\ k + 1 # 1 /\ (k + 1) - 1 = k
        BY <1>1, <2>2
      <3>2. h[k + 1] = h[k] \o seqs[k + 1]
        BY <1>9, <3>1
      <3> QED
        BY <1>10, <2>2, <3>2
    <2> QED
      BY <2>1, <2>2
  <1>11. 0 \in Good
    <2>1. 0 \in 0 .. n - 1
      BY <1>1
    <2>2. \E t \in T : h[0 + 1] = t \o seqs[0 + 1]
      BY <1>10, <2>1
    <2> QED
      BY <2>1, <2>2
  <1>12. ASSUME NEW k \in 1 .. n - 1, k - 1 \in Good PROVE k \in Good
    <2>1. k \in 0 .. n - 1 /\ (k - 1) + 1 = k /\ k \in 1 .. n
      BY <1>1
    <2>2. PICK t \in T : h[k] = t \o seqs[k]
      BY <1>12, <2>1
    <2>3. h[k] \in T
      BY <1>2, <1>3, <2>1, <2>2
    <2> QED
      BY <1>10, <2>1, <2>3
  <1>13. n - 1 \in Good
    <2> DEFINE m == n - 1
    <2>1. m \in 0 .. m /\ m \in Nat
      BY <1>1
    <2>2. 0 \in Good /\ \A k \in 1 .. m : k - 1 \in Good => k \in Good
      BY <1>11, <1>12
    <2> HIDE DEF Good, m
    <2> QED
      BY <2>1, <2>2, UpTo DEF m
  <1>14. (n - 1) + 1 = n
    BY <1>1
  <1> QED
    BY <1>4, <1>13, <1>14 DEF h, n, T

\* t ends in something that is no dot.
Ends(t) == t # <<>> /\ t[Len(t)] # Dot

\* What ends a text ends it whatever is in front.
LEMMA EndsConcat ==
    ASSUME NEW S, NEW s \in Seq(S), NEW t \in Seq(S), Ends(t)
    PROVE  s \o t \in Seq(S) /\ Ends(s \o t)
  <1> DEFINE u == s \o t
  <1>1. u \in Seq(S) /\ Len(u) = Len(s) + Len(t) /\ Len(s) \in Nat /\ Len(t) \in Nat
        /\ \A i \in 1 .. Len(s) + Len(t) : u[i] = IF i <= Len(s) THEN s[i] ELSE t[i - Len(s)]
    BY ConcatProperties, LenProperties
  <1>2. Len(t) > 0
    BY <1>1, EmptySeq DEF Ends
  <1> DEFINE m == Len(s)
             n == Len(t)
  <1> HIDE DEF u, m, n
  <1>3. m + n \in 1 .. m + n /\ ~(m + n <= m) /\ (m + n) - m = n /\ m + n # 0
    BY <1>1, <1>2 DEF m, n
  <1>4. u[m + n] = t[n]
    BY <1>1, <1>3 DEF m, n
  <1>5. u # <<>> /\ Len(u) = m + n
    BY <1>1, <1>3 DEF m, n
  <1>6. Ends(u)
    BY <1>4, <1>5 DEF Ends, n
  <1> QED
    BY <1>1, <1>6 DEF u

Letter == 0 .. 99

\* The text of a label.
LEMMA LabelEnds ==
    ASSUME NEW l, IsLabel(l), l.form # "bad"
    PROVE  Mark(l.form) \o l.digits \in Seq(Letter) /\ Ends(Mark(l.form) \o l.digits)
  <1> DEFINE d == l.digits
             m == Mark(l.form)
  <1>1. d \in Seq(Letter) /\ Dot \notin ToSet(d) /\ (d = <<>> => l.form = "hex")
    BY DEF IsLabel, Letter
  <1>2. m \in Seq(Letter) /\ (l.form = "hex" => m = <<0, 33>>)
    <2>1. <<0, 33>> \in Seq(Letter) /\ <<0>> \in Seq(Letter) /\ <<>> \in Seq(Letter)
      BY DEF Letter
    <2>2. m = <<0, 33>> \/ m = <<0>> \/ m = <<>>
      BY DEF Mark
    <2>3. l.form = "hex" => m = <<0, 33>>
      BY DEF Mark
    <2> HIDE DEF m
    <2> QED
      BY <2>1, <2>2, <2>3
  <1> HIDE DEF d, m
  <1>3. CASE d = <<>>
    <2>1. m \o d = <<0, 33>>
      <3>1. m \o <<>> = m
        BY <1>2, ConcatEmptySeq
      <3> QED
        BY <1>1, <1>2, <1>3, <3>1
    <2>2. Ends(<<0, 33>>)
      BY DEF Ends, Dot
    <2>3. m \o d \in Seq(Letter) /\ Ends(m \o d)
      BY <1>1, <1>2, <1>3, <2>1, <2>2
    <2> QED
      BY <2>3 DEF m, d
  <1>4. CASE d # <<>>
    <2>1. Len(d) \in DOMAIN d
      BY <1>1, <1>4, LenProperties, EmptySeq
    <2>2. d[Len(d)] \in ToSet(d)
      BY <2>1 DEF ToSet
    <2>3. Ends(d)
      BY <1>1, <1>4, <2>2 DEF Ends
    <2>4. m \o d \in Seq(Letter) /\ Ends(m \o d)
      BY <1>1, <1>2, <2>3, EndsConcat
    <2> QED
      BY <2>4 DEF m, d
  <1> QED
    BY <1>3, <1>4

\* A name is a text that does not end in a dot.
LEMMA LettersEnd ==
    ASSUME NEW host, host.labels \in Seq(ToSet(host.labels)), host.labels # <<>>,
           \A i \in DOMAIN host.labels : IsLabel(host.labels[i]) /\ host.labels[i].form # "bad"
    PROVE  Letters(host) \in Seq(Letter) /\ Ends(Letters(host))
  <1> DEFINE L == host.labels
             label(i) == Mark(L[i].form) \o L[i].digits
             part(i) == IF i = 1 THEN label(i) ELSE <<Dot>> \o label(i)
             seqs == [i \in DOMAIN L |-> part(i)]
             n == Len(L)
  <1>1. Letters(host) = FlattenSeq(seqs)
    BY Zenon DEF Letters
  <1>2. n \in Nat /\ n >= 1 /\ DOMAIN L = 1 .. n
    BY LenProperties, EmptySeq
  <1>3. \A i \in DOMAIN L : label(i) \in Seq(Letter) /\ Ends(label(i))
    BY LabelEnds
  <1> HIDE DEF label
  <1>4. ASSUME NEW i \in DOMAIN L PROVE part(i) \in Seq(Letter) /\ Ends(part(i))
    <2>1. <<Dot>> \in Seq(Letter)
      BY DEF Letter, Dot
    <2> DEFINE s == <<Dot>>
               u == label(i)
    <2>2. u \in Seq(Letter) /\ Ends(u) /\ s \in Seq(Letter)
      BY <1>3, <2>1
    <2>3. part(i) = IF i = 1 THEN u ELSE s \o u
      OBVIOUS
    <2> HIDE DEF s, u, part
    <2>4. s \o u \in Seq(Letter) /\ Ends(s \o u)
      BY <2>2, EndsConcat
    <2> QED
      BY <2>2, <2>3, <2>4
  <1> HIDE DEF part, L, n
  <1>5. seqs \in [1 .. n -> Seq(Letter)]
    BY <1>2, <1>4
  <1>6. seqs \in Seq(Seq(Letter)) /\ Len(seqs) = n /\ seqs # <<>>
    <2>1. Len(seqs) = n
      BY <1>2, <1>5, LenOf
    <2>2. seqs \in Seq(Seq(Letter))
      BY <1>2, <1>5
    <2> HIDE DEF seqs
    <2> QED
      BY <1>2, <2>1, <2>2
  <1>7. n \in DOMAIN L /\ seqs[n] = part(n)
    BY <1>2
  <1> HIDE DEF seqs
  <1>8. PICK t \in Seq(Letter) : FlattenSeq(seqs) = t \o seqs[n]
    BY <1>6, Flattened
  <1>9. seqs[n] \in Seq(Letter) /\ Ends(seqs[n])
    BY <1>4, <1>7
  <1>10. t \o seqs[n] \in Seq(Letter) /\ Ends(t \o seqs[n])
    BY <1>8, <1>9, EndsConcat
  <1> QED
    BY <1>1, <1>8, <1>10

\* A name as it is in the configuration of the probe is in lower case and has
\* no final dot.
LEMMA LettersTrimmed ==
    ASSUME NEW t \in Seq(Letter), Ends(t)
    PROVE  t \in Seq(Nat) /\ Trimmed(t, t) /\ normalize_name(t) = t
  <1>1. t \in Seq(Nat) /\ Len(t) \in Nat
    <2>1. Letter \subseteq Nat
      BY DEF Letter
    <2> QED
      BY <2>1, SeqMonotonic, LenProperties
  <1>2. \A k \in 1 .. Len(t) : t[k] % 100 = t[k]
    <2>1. \A k \in 1 .. Len(t) : t[k] \in Letter
      BY ElementOfSeq
    <2>2. \A x \in Letter : x % 100 = x
      BY DEF Letter
    <2> QED
      BY <2>1, <2>2
  <1>3. Trimmed(t, t)
    BY <1>1, <1>2 DEF Trimmed, Ends
  <1> QED
    BY <1>1, <1>3, NormalIsTrimmed

\* The probe as one condition.
LEMMA ProbeOk ==
    ASSUME NEW s \in Seq(Nat), NEW host
    PROVE  validate_tls_client_hello(s, host, FALSE) = "Ok" <=>
              /\ tls_record_needed(s) = Some(0)
              /\ \E i, name : /\ EntryAt(s, i) /\ Piece(name, s, i + 1) /\ Len(name) = s[i + 1]
                             /\ parse_sni(s) = Some(name)
              /\ \A name : parse_sni(s) = Some(name) => normalize_name(name) = normalize_name(host)
  <1> DEFINE need == tls_record_needed(s)
             sni == parse_sni(s)
             same == {normalize_name(name) : name \in sni.some} = {normalize_name(host)}
             v == validate_tls_client_hello(s, host, FALSE)
             Read(i, name) == /\ EntryAt(s, i) /\ Piece(name, s, i + 1) /\ Len(name) = s[i + 1]
                              /\ sni = Some(name)
  <1>1. v = IF need # Some(0) THEN IF need.some = {} THEN need.err ELSE "Malformed"
            ELSE IF sni.err # "none" THEN sni.err
            ELSE IF sni.some = {} THEN "MissingSni"
            ELSE IF same THEN "Ok" ELSE "SniMismatch"
    BY Zenon DEF validate_tls_client_hello
  <1>2. need.some # {} \/ need.err \in {"NotTls", "Malformed"}
    <2>1. need \in {Err("NotTls"), Err("Malformed")} \/ \E x : need = Some(x)
      BY Zenon DEF tls_record_needed
    <2>2. (\A x : Some(x).some # {}) /\ \A x : Err(x).err = x
      BY DEF Err, Some
    <2> HIDE DEF need
    <2>3. ASSUME NEW x, need = Some(x) PROVE need.some # {}
      BY <2>2, <2>3
    <2>4. ASSUME need \in {Err("NotTls"), Err("Malformed")} PROVE need.err \in {"NotTls", "Malformed"}
      BY <2>2, <2>4
    <2> QED
      BY <2>1, <2>3, <2>4
  <1>3. sni \in Nothings => sni.some = {} /\ sni.err \in {"none", "NotTls", "Malformed"}
    <2> HIDE DEF sni
    <2> QED
      BY DEF Nothings, None, Err
  <1>4. \A name : sni = Some(name) =>
           /\ sni.err = "none" /\ sni.some = {name}
           /\ same <=> normalize_name(name) = normalize_name(host)
    <2> HIDE DEF sni
    <2> TAKE name
    <2> HAVE sni = Some(name)
    <2>1. sni.err = "none" /\ sni.some = {name}
      BY DEF Some
    <2>2. {normalize_name(m) : m \in sni.some} = {normalize_name(name)}
      BY <2>1
    <2> QED
      BY <2>1, <2>2
  <1>5. need = Some(0) /\ sni \notin Nothings => \E i, name : Read(i, name)
    BY SniIsMentioned, Zenon
  <1> HIDE DEF need, sni, same, v
  <1>6. ASSUME v = "Ok" PROVE need = Some(0) /\ sni \notin Nothings /\ same
    <2>1. need = Some(0)
      BY <1>1, <1>2, <1>6
    <2>2. sni \notin Nothings
      BY <1>1, <1>3, <1>6, <2>1
    <2>3. PICK i, name : Read(i, name)
      BY <1>5, <2>1, <2>2
    <2>4. sni.err = "none" /\ sni.some # {}
      <3>1. sni = Some(name)
        BY <2>3
      <3>2. sni.err = "none" /\ sni.some = {name}
        BY <1>4, <3>1, Zenon
      <3> QED
        BY <3>2
    <2> QED
      BY <1>1, <1>6, <2>1, <2>2, <2>4
  <1>7. ASSUME NEW name, need = Some(0), sni = Some(name), normalize_name(name) = normalize_name(host)
        PROVE  v = "Ok"
    <2>1. sni.err = "none" /\ sni.some # {} /\ same
      BY <1>4, <1>7
    <2> QED
      BY <1>1, <1>7, <2>1, Zenon
  <1>8. v = "Ok" <=> /\ need = Some(0) /\ \E i, name : Read(i, name)
                     /\ \A name : sni = Some(name) => normalize_name(name) = normalize_name(host)
    <2>1. ASSUME v = "Ok"
          PROVE  /\ need = Some(0) /\ \E i, name : Read(i, name)
                 /\ \A name : sni = Some(name) => normalize_name(name) = normalize_name(host)
      <3>1. need = Some(0) /\ sni \notin Nothings /\ same
        BY <1>6, <2>1
      <3>2. \E i, name : Read(i, name)
        BY <1>5, <3>1
      <3>3. ASSUME NEW name, sni = Some(name) PROVE normalize_name(name) = normalize_name(host)
        BY <1>4, <3>1, <3>3, Zenon
      <3> QED
        BY <3>1, <3>2, <3>3
    <2>2. ASSUME need = Some(0), \E i, name : Read(i, name),
                 \A name : sni = Some(name) => normalize_name(name) = normalize_name(host)
          PROVE  v = "Ok"
      BY <1>7, <2>2, Zenon
    <2> QED
      BY <2>1, <2>2
  <1> QED
    BY <1>8 DEF need, sni, v

\* A record that passes mentions the name.
LEMMA PassedIsMention ==
    ASSUME NEW s \in Seq(Nat), NEW host \in Seq(Letter), Ends(host),
           validate_tls_client_hello(s, host, FALSE) = "Ok"
    PROVE  Mentions(s, host)
  <1>1. PICK i, name : /\ EntryAt(s, i) /\ Piece(name, s, i + 1) /\ Len(name) = s[i + 1]
                       /\ normalize_name(name) = normalize_name(host)
    BY ProbeOk
  <1>2. PICK e : Trimmed(name, e)
    BY <1>1, TrimmedExists DEF Piece
  <1>3. e = host
    <2>1. normalize_name(name) = e
      BY <1>1, <1>2, NormalIsTrimmed DEF Piece
    <2> QED
      BY <1>1, <2>1, LettersTrimmed
  <1>4. Len(host) <= s[i + 1] /\ \A k \in 1 .. s[i + 1] : name[k] % 100 = IF k <= Len(host) THEN host[k] ELSE Dot
    BY <1>1, <1>2, <1>3 DEF Trimmed
  <1>5. \A k \in 1 .. s[i + 1] : name[k] = s[(i + 1) + k]
    BY <1>1 DEF Piece
  <1>6. Holds(s, i + 1, host)
    <2> DEFINE p == i + 1
    <2>1. Len(host) <= s[p] /\ \A k \in 1 .. s[p] : s[p + k] % 100 = IF k <= Len(host) THEN host[k] ELSE Dot
      BY <1>4, <1>5
    <2> HIDE DEF p
    <2>2. Holds(s, p, host)
      BY <2>1, Zenon DEF Holds
    <2> QED
      BY <2>2 DEF p
  <1>7. /\ i \in DOMAIN s /\ s[i] = 0 /\ i + 1 \in DOMAIN s /\ i + 1 + s[i + 1] <= Len(s)
    <2>1. DOMAIN s = 1 .. Len(s) /\ Len(s) \in Nat
      BY LenProperties
    <2> QED
      BY <1>1, <2>1 DEF EntryAt
  <1> QED
    BY <1>6, <1>7 DEF Mentions

\* A ClientHello with the name in front passes.
LEMMA NamedPasses ==
    ASSUME NEW h, IsHello(h), h.name \in Seq(Letter), Ends(h.name)
    PROVE  validate_tls_client_hello(h.sent, h.name, FALSE) = "Ok"
  <1> DEFINE s == h.sent
             host == h.name
             p == h.names[Len(h.names)] + 1
  <1>1. s \in Seq(Nat) /\ host # <<>> /\ host \in Seq(Nat) /\ normalize_name(host) = host
    BY LettersTrimmed DEF IsHello, Ends
  <1>2. Holds(s, p, host)
    BY <1>1, Zenon DEF IsHello
  <1>3. tls_record_needed(s) = Some(0)
    BY <1>1, SniIsFound
  <1>4. PICK name : Piece(name, s, p) /\ Len(name) = s[p] /\ parse_sni(s) = Some(name)
    BY <1>1, SniIsFound
  <1> HIDE DEF s, host, p
  <1>5. Trimmed(name, host)
    <2>1. \A k \in 1 .. Len(name) : name[k] = s[p + k]
      BY <1>4 DEF Piece
    <2>2. Len(host) <= s[p] /\ \A k \in 1 .. s[p] : s[p + k] % 100 = IF k <= Len(host) THEN host[k] ELSE Dot
      BY <1>2 DEF Holds
    <2>3. Ends(host)
      BY DEF host
    <2> QED
      BY <1>1, <1>4, <2>1, <2>2, <2>3 DEF Trimmed, Ends
  <1>6. normalize_name(name) = host
    BY <1>4, <1>5, NormalIsTrimmed DEF Piece
  <1>7. \A x : parse_sni(s) = Some(x) => x = name
    <2>1. \A x : Some(x).some = {x}
      BY DEF Some
    <2> QED
      BY <1>4, <2>1
  <1>8. parse_sni(s) \notin Nothings
    <2>1. parse_sni(s).some = {name}
      BY <1>4 DEF Some
    <2>2. \A y \in Nothings : y.some = {}
      BY DEF Nothings, None, Err
    <2> QED
      BY <2>1, <2>2
  <1>9. \E i, x : /\ EntryAt(s, i) /\ Piece(x, s, i + 1) /\ Len(x) = s[i + 1]
                  /\ parse_sni(s) = Some(x)
    BY <1>1, <1>3, <1>8, SniIsMentioned
  <1>10. validate_tls_client_hello(s, host, FALSE) = "Ok"
    BY <1>1, <1>3, <1>6, <1>7, <1>9, ProbeOk
  <1> QED
    BY <1>10 DEF s, host

\* Only the probe refuses a request for its first record.
Refused == Judged /\ reply.reason = "Proto" => Sniffed(asked, reply.remote) # "Ok"

\* No step but the probe's gives that reason.
LEMMA RefusedStep == Refused /\ [Next]_vars => Refused'
  <1> SUFFICES ASSUME Refused, [Next]_vars PROVE Refused'
    OBVIOUS
  <1>1. CASE UNCHANGED vars
    BY <1>1 DEF vars, Refused, Judged, Sniffed
  <1>2. CASE Panic \/ Start \/ NextRequest
    BY <1>2 DEF Panic, Start, NextRequest, Refused, Judged
  <1>3. CASE Resolve
    <2>1. reply'.reason \in {"PrivateIp", "none"}
      BY <1>3 DEF Resolve, Reply
    <2> QED
      BY <2>1 DEF Refused
  <1>4. CASE ProbeTlsSni
    <2>1. /\ asked' = asked /\ reply'.remote = reply.remote
          /\ reply'.reason = "Proto" => Sniffed(asked, reply.remote) # "Ok"
      BY <1>4 DEF ProbeTlsSni, Reply
    <2>2. Sniffed(asked, reply.remote)' = Sniffed(asked, reply.remote)
      BY <2>1 DEF Sniffed
    <2> QED
      BY <2>1, <2>2 DEF Refused
  <1>5. ASSUME NEW q \in Requests(env), Gate(q) PROVE Refused'
    <2>1. Verdict(q) \in {"Ok", "Unauthorized", "InternalServerError"}
      BY DEF Verdict, validate_token
    <2>2. check_policy(parse_remote(q.remote), config.dest) # "Proto"
      BY DEF check_policy
    <2>3. reply'.reason # "Proto"
      BY <1>5, <2>1, <2>2 DEF Gate, Answer, Reply, Verdict
    <2> QED
      BY <2>3 DEF Refused
  <1>6. ASSUME NEW x \in Scrapes, Scrape(x) PROVE Refused'
    BY <1>6 DEF Scrape, Refused, Judged
  <1> QED
    BY <1>1, <1>2, <1>3, <1>4, <1>5, <1>6 DEF Next

\* The name that the probe compares with is the one that was asked for.
LEMMA ProbedName ==
    ASSUME NEW raw, IsRemote(raw), parse_remote(raw).ok, raw.spells = NoIP
    PROVE  /\ Letters(raw.host) \in Seq(Letter) /\ Ends(Letters(raw.host))
           /\ parse_remote(raw).port = raw.port
           /\ \A q : Sniffed(q, parse_remote(raw)) =
                        validate_tls_client_hello(q.hello.sent, Letters(raw.host), FALSE)
  <1> DEFINE h == raw.host
             name == normalize_hostname(h)
             r == parse_remote(raw)
  <1>1. parse_literal(h) = NoIP
    BY LiteralIsSpelled
  <1>2. r.host = name /\ r.ip_literal = NoIP /\ r.port = raw.port /\ is_valid_dns_hostname(name)
    <2> DEFINE ip == parse_literal(h)
    <2>1. /\ r = [ok |-> TRUE, port |-> raw.port, ip_literal |-> ip,
                  host |-> IF ip # NoIP THEN ip_canonical(ip) ELSE name]
          /\ ip = NoIP => is_valid_dns_hostname(name)
      BY ParsedRemote
    <2> HIDE DEF ip, name, r
    <2> QED
      BY <1>1, <2>1 DEF ip
  <1>3. h = [v6 |-> h.v6, labels |-> h.labels, dot |-> h.dot, upper |-> h.upper, blank |-> h.blank]
    BY DEF IsRemote
  <1>4. name.labels = h.labels
    <2> HIDE DEF h
    <2>1. name = [v6 |-> h.v6, labels |-> h.labels, dot |-> FALSE, upper |-> FALSE, blank |-> FALSE]
      BY <1>3, Normalized
    <2> HIDE DEF name
    <2> QED
      BY <2>1
  <1>5. /\ h.labels \in Seq(ToSet(h.labels)) /\ Len(raw.values) = Len(h.labels)
        /\ DOMAIN raw.values = 1 .. Len(raw.values) /\ DOMAIN h.labels = 1 .. Len(h.labels)
        /\ \A i \in DOMAIN raw.values : IsLabel(h.labels[i])
    BY LenProperties DEF IsRemote
  <1> HIDE DEF r, h, name
  <1>6. h.labels # <<>> /\ \A i \in DOMAIN h.labels : h.labels[i].form # "bad"
    BY <1>2, <1>4 DEF is_valid_dns_hostname
  <1>7. Letters(h) \in Seq(Letter) /\ Ends(Letters(h))
    BY <1>5, <1>6, LettersEnd
  <1>8. Letters(name) = Letters(h)
    BY <1>4, Zenon DEF Letters
  <1>9. ASSUME NEW q PROVE Sniffed(q, r) = validate_tls_client_hello(q.hello.sent, Letters(h), FALSE)
    <2>1. Sniffed(q, r) = validate_tls_client_hello(q.hello.sent, Letters(r.host), r.ip_literal # NoIP)
      BY DEF Sniffed
    <2>2. (r.ip_literal # NoIP) = FALSE
      BY <1>2
    <2> QED
      BY <1>2, <1>8, <2>1, <2>2, Zenon
  <1> QED
    BY <1>2, <1>7, <1>9 DEF r, h

\* On a TLS port only a record that mentions the host of the request passes
\* the probe, and a ClientHello that names it first always passes, whatever
\* else it holds (validate_tls_client_hello and parse_sni).
THEOREM SniAlwaysMatches == Spec => []SniMatches
  <1>1. Init => Refused /\ Passed
    BY DEF Init, Refused, Passed, Judged
  <1>2. Configured /\ Recorded /\ Passed /\ Refused => SniMatches
    <2> DEFINE raw == asked.remote
               sent == asked.hello.sent
               host == Letters(raw.host)
    <2> SUFFICES ASSUME Configured, Recorded, Passed, Refused,
                        Judged, config.require_protocol_probe, reply.remote.ok, raw.spells = NoIP
                 PROVE  /\ pc = "relaying" /\ raw.port \in {465, 993} => Mentions(sent, host)
                        /\ reply.reason = "Proto" => asked.hello.name # host
      BY Zenon DEF SniMatches
    <2>1. IsRemote(raw) /\ IsHello(asked.hello) /\ reply.remote = parse_remote(raw)
      BY GatewayAssumption DEF Configured, Recorded, IsRequest
    <2>2. sent \in Seq(Nat)
      BY <2>1 DEF IsHello
    <2>3. /\ host \in Seq(Letter) /\ Ends(host) /\ reply.remote.port = raw.port
          /\ Sniffed(asked, reply.remote) = validate_tls_client_hello(sent, host, FALSE)
      BY <2>1, ProbedName
    <2> HIDE DEF host
    <2>4. ASSUME pc = "relaying", raw.port \in {465, 993} PROVE Mentions(sent, host)
      <3>1. probe_for_port(465) = "TlsSni" /\ probe_for_port(993) = "TlsSni"
        BY DEF probe_for_port
      <3>2. Sniffed(asked, reply.remote) = "Ok"
        <4>1. probe_for_port(reply.remote.port) = "TlsSni"
          BY <2>3, <2>4, <3>1
        <4> QED
          BY <2>4, <4>1 DEF Passed
      <3>3. validate_tls_client_hello(sent, host, FALSE) = "Ok"
        BY <2>3, <3>2
      <3> HIDE DEF sent
      <3> QED
        BY <2>2, <2>3, <3>3, PassedIsMention
    <2>5. ASSUME reply.reason = "Proto", asked.hello.name = host PROVE FALSE
      <3> DEFINE hello == asked.hello
      <3>1. IsHello(hello) /\ hello.name \in Seq(Letter) /\ Ends(hello.name) /\ hello.name = host
        BY <2>1, <2>3, <2>5
      <3> HIDE DEF hello
      <3>2. validate_tls_client_hello(hello.sent, hello.name, FALSE) = "Ok"
        BY <3>1, NamedPasses
      <3>3. Sniffed(asked, reply.remote) # "Ok"
        BY <2>5 DEF Refused
      <3> QED
        BY <2>3, <3>1, <3>2, <3>3, Zenon DEF hello
    <2> QED
      BY <2>4, <2>5
  <1> QED
    BY <1>1, <1>2, PassedStep, RefusedStep, AlwaysConfigured, AlwaysRecorded, PTL DEF Spec
=============================================================================

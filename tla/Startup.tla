------------------------------ MODULE Startup ------------------------------
(***************************************************************************)
(* From the environment to a configuration, or to a refusal to start:      *)
(* src/main.rs and src/config.rs.                                          *)
(*                                                                         *)
(* An environment has a field for every variable, under the name of what   *)
(* it sets.  A flag is "unset", "on" (1, true, yes, on) or "off" (anything *)
(* else).  A number is Unset, Garbage or itself.  A list is {} when unset, *)
(* and the set of the one list it is set to otherwise.                     *)
(***************************************************************************)
EXTENDS Addr, FiniteSets

Unset == -1
Garbage == -2       \* what does not parse
Wildcard == -3      \* "any" and "*" in the list of ports

DEFAULT_ALLOWED_PORTS == {143, 993, 465, 587}

\* Config::default, LimitsConfig::default, DestPolicy::default.
DefaultFlag ==
    [ allow_private_destinations |-> FALSE, allow_ip_literals |-> FALSE,
      trust_forwarded_client_ip |-> FALSE, require_protocol_probe |-> TRUE ]

DefaultNumber ==
    [ max_bytes_per_connection |-> 262144000, max_lifetime |-> 86400, dns_timeout |-> 5,
      ws_max_message_bytes |-> 1048576, ws_max_frame_bytes |-> 262144,
      paseto_max_ttl |-> 3600, max_global_connections |-> 5000, max_conns_per_ip |-> 16,
      max_conns_per_dest |-> 200, connects_per_ip |-> 10, distinct_dests_per_ip |-> 10,
      global_connects |-> 20, max_bytes_per_ip |-> 1073741824,
      ipv4_prefix |-> 32, ipv6_prefix |-> 64, max_tracked_ips |-> 50000 ]

-----------------------------------------------------------------------------
(* Reading a variable. *)

env_bool(value, default) == IF value = "unset" THEN default ELSE value = "on"

\* Mutated: what does not parse is 0.
env_number_zero(value, default) ==
    IF value = Unset THEN default ELSE IF value \in Nat THEN value ELSE 0

\* env_u64, env_usize and env_secs.
env_number(value, default) == IF value \in Nat THEN value ELSE default

\* None or one Cidr; without a slash it is a single host.
Cidr_parse(raw) ==
    LET max == IF IsV4(raw.addr) THEN 32 ELSE 128
        bits == IF raw.bits = Unset THEN max ELSE raw.bits
    IN IF raw.addr = NoIP \/ bits \notin 0 .. max
       THEN {}
       ELSE {[addr |-> raw.addr, bits |-> bits]}

parse_cidrs(raw) == UNION {Cidr_parse(part) : part \in raw}

parse_allowed_ports(raw) ==
    [ any |-> raw = {Wildcard},
      set |-> IF raw = {} THEN DEFAULT_ALLOWED_PORTS ELSE {p \in raw : p \in 1 .. 65535} ]

Blank == "blank"

parse_csv_set(raw) == {s \in raw : s.text # Blank}

parse_auth_mode(raw) == IF raw = "public" THEN "Public" ELSE "Paseto"

\* None unless it is exactly 32 bytes; the environment has its length.
parse_secret_key(raw) == raw = 32

-----------------------------------------------------------------------------
(* The configuration. *)

\* One of the lists, or what it is when the variable is not set.
OrDefault(raw, parse(_), default) == IF raw = {} THEN default ELSE parse(CHOOSE r \in raw : TRUE)

\* Mutated: `as u8` alone.
clamp_prefix_u8(number) ==
    [number EXCEPT !.ipv4_prefix = @ % 256, !.ipv6_prefix = @ % 256]

clamp_prefix(number) ==
    [number EXCEPT !.ipv4_prefix = clamp(@, 0, 32), !.ipv6_prefix = clamp(@, 0, 128)]

\* The Config literal of main, then apply_env.
apply_env(env) ==
    LET flag == [f \in DOMAIN DefaultFlag |-> env_bool(env.flag[f], DefaultFlag[f])]
        number == [n \in DOMAIN DefaultNumber |-> env_number(env.number[n], DefaultNumber[n])]
    IN [ auth_mode |-> parse_auth_mode(env.auth),
         secret_key |-> parse_secret_key(env.secret),
         metrics_auth_key |-> env.metrics_auth_token,
         metrics_bind |-> env.metrics_addr = "address",
         dest |-> [ allowed_ports |-> OrDefault(env.allowed_ports, parse_allowed_ports,
                                                [any |-> FALSE, set |-> DEFAULT_ALLOWED_PORTS]),
                    allow_private_destinations |-> flag.allow_private_destinations,
                    allow_ip_literals |-> flag.allow_ip_literals ],
         trust_forwarded_client_ip |-> flag.trust_forwarded_client_ip,
         trusted_proxies |-> OrDefault(env.trusted_proxies, parse_cidrs, {}),
         require_protocol_probe |-> flag.require_protocol_probe,
         allowed_origins |-> OrDefault(env.allowed_origins, parse_csv_set, {}),
         allowed_hosts |-> OrDefault(env.allowed_hosts, parse_csv_set, {}),
         number |-> clamp_prefix(number) ]

Star == [text |-> "*", scheme |-> "", upper |-> FALSE, dot |-> FALSE]

Caps == {"max_global_connections", "max_conns_per_ip", "connects_per_ip",
         "max_bytes_per_connection", "max_bytes_per_ip", "max_lifetime"}

\* Mutated: an allowlist of origins is an allowlist, whatever is on it.
public_safety_errors_star(c) ==
    {cap \in Caps : c.number[cap] = 0}
       \cup {name \in {"allowed_ports"} : c.dest.allowed_ports.any}
       \cup {name \in {"allowed_origins"} : c.auth_mode = "Public" /\ c.allowed_origins = {}}

\* What makes a public deployment unsafe.
public_safety_errors(c) ==
    LET wrong ==
          [ allowed_ports |-> c.dest.allowed_ports.any,
            allow_private_destinations |-> c.dest.allow_private_destinations,
            allow_ip_literals |-> c.dest.allow_ip_literals,
            require_protocol_probe |-> ~c.require_protocol_probe,
            trusted_proxies |-> c.trust_forwarded_client_ip /\ c.trusted_proxies = {},
            allowed_origins |-> /\ c.auth_mode = "Public"
                                /\ c.allowed_origins = {} \/ Star \in c.allowed_origins ]
    IN {name \in DOMAIN wrong : wrong[name]} \cup {cap \in Caps : c.number[cap] = 0}

\* Mutated: MAILINER_UNSAFE lets the process start without a secret, too.
panics_unsafe(env, build) ==
    \/ ~env.log_level_ok
    \/ /\ build = "release" /\ ~env_bool(env.unsafe, FALSE)
       /\ \/ env.metrics_auth_token = {}
          \/ public_safety_errors(apply_env(env)) # {}
          \/ apply_env(env).auth_mode = "Paseto" /\ ~apply_env(env).secret_key

\* The panics of parse_log_level, parse_metrics_auth_key and main.
panics(env, build) ==
    \/ ~env.log_level_ok
    \/ /\ build = "release"
       /\ \/ env.metrics_auth_token = {}
          \/ public_safety_errors(apply_env(env)) # {} /\ ~env_bool(env.unsafe, FALSE)
          \/ apply_env(env).auth_mode = "Paseto" /\ ~apply_env(env).secret_key
=============================================================================

------------------------------- MODULE Gates --------------------------------
(***************************************************************************)
(* What proxy_handler and metrics_handler of src/server.rs decide from the *)
(* headers of a request and the configuration: whose request it is, where  *)
(* it comes from, and what it is authorised for.                           *)
(*                                                                         *)
(* A header that is missing, or that is not text, is {}; one that is there *)
(* is the set of its one value.  A token is the empty text or a name; what *)
(* is in it, as the library finds it, is the record Paseto[token].         *)
(***************************************************************************)
EXTENDS Startup, SequencesExt

CONSTANT Paseto     \* token -> [sealed, exp, remote]: encrypted with our key,
                    \* its expiry (NoExpiry when absent or not a date), its remote

NoExpiry == 0
NoToken == ""

-----------------------------------------------------------------------------
(* The client's address. *)

\* The first of some entries that is an address.
first_ip(entries) ==
    LET i == SelectInSeq(entries, LAMBDA ip : ip # NoIP)
    IN IF i = 0 THEN NoIP ELSE entries[i]

\* The headers in the order of NAMES, each split at its commas.
forwarded_client_ip(headers) ==
    first_ip([name \in DOMAIN headers.forwarded |-> first_ip(headers.forwarded[name])])

\* Mutated: the headers of every peer are believed.
client_ip_always(headers, peer, config) ==
    IF config.trust_forwarded_client_ip /\ forwarded_client_ip(headers) # NoIP
    THEN forwarded_client_ip(headers)
    ELSE peer

client_ip(headers, peer, config) ==
    IF /\ config.trust_forwarded_client_ip
       /\ \E c \in config.trusted_proxies : contains(c, peer)
       /\ forwarded_client_ip(headers) # NoIP
    THEN forwarded_client_ip(headers)
    ELSE peer

-----------------------------------------------------------------------------
(* Origin and Host. *)

\* Lower case; the trailing dots of a host go, those before a port stay.
normalize_host(h) == [h EXCEPT !.upper = FALSE, !.dot = @ /\ h.port # 0]

\* split(':').next(), which of a bracketed address is a bracket.
before_colon(h) == [h EXCEPT !.port = 0, !.text = IF h.bracketed THEN "[" ELSE @]

\* Text without a scheme ("null") is not a host.
normalize_origin(o) == [o EXCEPT !.upper = FALSE, !.dot = @ /\ o.scheme = ""]

\* Native clients send no Origin.
origin_allowed(headers, allowed) ==
    \/ allowed = {} \/ Star \in allowed
    \/ \A got \in headers.origin : \E o \in allowed : normalize_origin(o) = normalize_origin(got)

\* Mutated: a missing Host is let through like a missing Origin.
host_allowed_missing(headers, allowed) ==
    \/ allowed = {}
    \/ \A got \in headers.host : \E h \in allowed :
          normalize_host(h) \in {normalize_host(got), before_colon(normalize_host(got))}

\* An entry without a port allows every port.
host_allowed(headers, allowed) ==
    \/ allowed = {}
    \/ \E got \in headers.host, h \in allowed :
          normalize_host(h) \in {normalize_host(got), before_colon(normalize_host(got))}

-----------------------------------------------------------------------------
(* Tokens. *)

\* The first offered protocol that is `bearer.` and a token, or a raw token.
protocol_token(headers) ==
    LET i == SelectInSeq(headers.protocols, LAMBDA p : p.auth /\ p.token # NoToken)
    IN IF i = 0 THEN NoToken ELSE headers.protocols[i].token

\* The query before the Authorization header before the protocols.
proxy_token(query, headers) ==
    IF query # NoToken THEN query
    ELSE IF headers.bearer # NoToken THEN headers.bearer
    ELSE protocol_token(headers)

\* Mutated: the claim is not compared with the request.
validate_token_unbound(token, remote, config, build, now, later) ==
    LET claims == Paseto[token] IN
    IF config.auth_mode = "Public" THEN "Ok"
    ELSE IF build = "debug" /\ token = "testtoken" THEN "Ok"
    ELSE IF token = NoToken THEN "Unauthorized"
    ELSE IF ~config.secret_key THEN "InternalServerError"
    ELSE IF /\ claims.sealed /\ claims.exp > now
            /\ config.number.paseto_max_ttl # 0 =>
                  claims.exp - later \in 0 .. config.number.paseto_max_ttl
    THEN "Ok"
    ELSE "Unauthorized"

\* The clock is read twice: against the expiry, then against the longest
\* time a token may have left.
validate_token(token, remote, config, build, now, later) ==
    LET claims == Paseto[token] IN
    IF config.auth_mode = "Public" THEN "Ok"
    ELSE IF build = "debug" /\ token = "testtoken" THEN "Ok"
    ELSE IF token = NoToken THEN "Unauthorized"
    ELSE IF ~config.secret_key THEN "InternalServerError"
    ELSE IF /\ claims.sealed
            /\ claims.exp # NoExpiry /\ claims.exp > now
            /\ claims.remote = remote
            /\ config.number.paseto_max_ttl # 0 =>
                  claims.exp - later \in 0 .. config.number.paseto_max_ttl
    THEN "Ok"
    ELSE "Unauthorized"

-----------------------------------------------------------------------------
(* /metrics *)

At(bytes, i) == IF i \in DOMAIN bytes THEN bytes[i] ELSE 0

\* Mutated: the lengths are left to the padding.
token_eq_padded(a, b) == \A i \in DOMAIN a \cup DOMAIN b : At(a, i) = At(b, i)

\* Every byte is looked at, the shorter one padded, and the lengths count.
token_eq(a, b) == Len(a) = Len(b) /\ \A i \in DOMAIN a \cup DOMAIN b : At(a, i) = At(b, i)

\* The Authorization header before the query; without a key, everybody.
metrics_allowed(bearer, query, config) ==
    \A key \in config.metrics_auth_key :
       \E provided \in IF bearer # {} THEN bearer ELSE query : token_eq(provided, key)
=============================================================================

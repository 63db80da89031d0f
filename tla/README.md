# ws-tcp-proxy in TLA+

A specification of the WebSocket-to-TCP mail proxy of this repository: what
environment it agrees to start in, what a request meets on its way to a
session, what the admission limits promise and how `limits.rs` keeps the
promise, what a session does with the bytes, the clocks and the peers it has,
and how the process stops. The modules are checked with TLC on small
instances; the main results are proved with TLAPS for every configuration.

## The system

| Component | State | Operations | Talks to |
|---|---|---|---|
| Admission limits (`limits.rs`) | one `Mutex<Inner>`: live counters (global, per client prefix, per destination), queues of recent attempts and byte charges per prefix, queue of all recent attempts, time of the last collection | `record_attempt`, `acquire`, `add_bytes`, `Drop` of `ConnectionLease` (`release`); every call may collect idle rows | called by handlers and sessions of all tasks |
| Request handler (`server.rs`) | locals of one task per request | gates (Origin, Host, token, destination), count the attempt, resolve, dial, acquire, upgrade | limits, resolver, upstream, client |
| Destination policy, resolver, dialer (`dest.rs`) | none; immutable policy | `parse_remote`, `check_policy`, `resolve_filtered`, `connect_addrs` | DNS, upstream |
| Session (`connection.rs`) | locals of one task: probe buffer, `conn_bytes`, deadline, the WebSocket sink; owns the lease and the socket | protocol probe, relay loop, teardown | client, upstream, limits (`add_bytes`) |
| Protocol probes (`proto.rs`) | none | when a ClientHello or a greeting is complete and whether it passes | session |
| Token, Origin, Host, client address (`server.rs`, `config.rs`) | none | pure checks of headers, claims and the peer's address | handler |
| Configuration and startup (`config.rs`, `main.rs`) | the immutable `Config` | read the environment, refuse to start, bind | everything |
| Server lifecycle (`server.rs`, `main.rs`) | accepting, draining or gone | accept, stop on a signal, drain, drop the remaining tasks | handlers, sessions |
| Metrics (`metrics.rs`) | a gauge and counters no decision reads | up and down with a session; `/metrics` | sessions, operators |

What is hard here, and what would make it wrong:

* **Limits.** Calls of all tasks interleave; a collection run by one call
  rewrites the rows others rely on; refused calls leave rows behind; sums are
  kept beside the queues they sum; decrements saturate, so a drifted counter
  is silent. Correct means: the counters are the leases, the caps hold, and
  the pruned queues answer as the full history would.
* **Handler.** Three awaits, at each of which the client may vanish, and a
  lease that passes from the handler to a closure that may never run. Correct
  means: every path out gives the lease back, and only addresses that passed
  the filter are dialed.
* **Session.** Every await races a timeout and two peers that stall, finish
  and vanish. Correct means: bytes keep their order from the probe into the
  relay and through failed writes, caps and deadline hold, the client learns
  of the end, and the end comes.

* **Gates.** Texts that mean the same and are written differently: addresses
  in five notations and three embeddings, names with case and dots, nested
  lengths in a ClientHello. Correct means: the same is the same and different
  is different, compared with a definition that does not follow the code.
* **Startup.** Some thirty variables, each missing, empty, garbage or a
  value. Correct means: no combination lets a release build start unsafely
  without being told to, and none of the harmless ones keeps it from starting.
* **Stopping.** A signal arrives at any point of any request. Correct means:
  handlers are answered, the process ends, nothing leaks on the way.

`PROJECT.json` lists the hazards line by line with the properties aimed at
them.

## Modules

| Module | Models |
|---|---|
| `LimitsParams` | `LimitsConfig` and the other parameters, with their assumptions |
| `Admission` | the promise: leases, attempts and charges that exist, admitted only when the truth leaves room |
| `Limits` | `limits.rs`; `Implements` is its refinement of `Admission` |
| `Proxy` | `proxy_handler`, the policy, resolver and dialer, composed with `Limits` |
| `Session` | `Connection::run` and the probes |
| `Service` | the promise of the server: wait, be served at most so often, go; nobody new after the stop |
| `Server` | `run_proxy` and the end of `main` around `Proxy`; `KeepsContract` is its refinement of `Service` |
| `Filter` | `iter().filter().collect()`, for the two models of `resolve_filtered` |
| `Addr` | addresses: networks, budgets, which are dialed |
| `Remote` | `parse_remote`, `check_policy`, the resolver's filter |
| `Startup` | the environment, `Config`, the safety rules, the panics |
| `Gates` | client address, Origin, Host, tokens, `/metrics` |
| `ClientHello` | the TLS record and its SNI |
| `Gateway` | a process from its environment to one request at a time, composed of the five above |
| `MCLimits`, `MCProxy`, `MCSession`, `MCGateway` | instances for TLC |
| `LimitsProofs`, `WindowProofs`, `ProxyProofs`, `ServerProofs`, `GatewayProofs`, `SessionProofs` | theorems |
| `Sums` | lemmas on induction, sums, cardinalities and filtered sequences, for the proofs on windows, dials and answers |
| `Runs` | lemmas on pieces of a byte stream, for `SessionProofs` |

How they fit: `Proxy` EXTENDS `Limits`, `Server` EXTENDS `Proxy`. `Gateway`
computes what `Proxy` takes as constants: `LimitKey` is `limit_key`,
`LiteralOf` is what `parse_remote` finds, `GlobalIPs` is `is_global_unicast`,
`PortAllowed` is `port_allowed`. The gates keep no state between requests, so
they are checked on one request at a time with rich data, and their
interleaving is checked in `Proxy` with a verdict that may be anything.

**Limits.** `inner` is the record behind the Mutex. Every method holds the
lock from its first to its last line, so it is an operator from the old record
to a result and a new record (`record_attempt`, `acquire`, `add_bytes`,
`release`) and one action that applies it. The clock stands still within a
call: `add_bytes` reads `Instant::now()` twice under the lock (for the
collection and for the charge), and what may pass between the two readings is
less than the second that `now` counts in. `now` advances by `Tick` between calls, in seconds. A `HashMap` is a
function with a finite domain, a `VecDeque` a sequence of stamped entries;
popping expired entries from the front is `prune_queue`. `limit_key` is the
constant function `LimitKey` from addresses to prefixes. The constants
`GcInterval` and `GcRows` are the code's 30 s and 10000 rows. `leases`,
`attempts` and `charges` are history: what was granted, for the comparison
with `Admission`.

**Proxy.** `pc[r]` is the await request `r` is in; an action is what the
handler does up to the next one. `Refuse` stands for the Origin, Host and
token checks and `parse_remote`, whose verdicts are arbitrary here.
`RefuseDest` and `Admit` are the policy and `record_attempt`; `Resolve` takes
any DNS answer up to `MaxAnswers` addresses; `DialSucceeds` is a successful
connect followed, with no await between, by `acquire`. `Cancel` is the loss of
the client at an await. After `acquire`, the closure given to `on_upgrade`
owns socket and lease: `UpgradeFails` drops it, `Upgrade` starts the session.
A session is reduced to its calls into the limits.

**Session.** `pc` is the await the task is in: the two probe reads, their
writes, the select of the relay loop, the writes of the relay, and the three
awaits of closing. Bytes are positions in their sender's stream, so order,
loss and repetition can be seen. `wsOut` is the WebSocket sink: a send puts
its message there and waits for the flush; a send that times out leaves it
there. The idle timeout, the write timeouts and the probe timeout count down
in `timer`; the deadline is `relayAge >= max_lifetime`. The select is biased,
so each branch is guarded by the branches before it not being ready. The
upstream's bytes have the classes the greeting check tells apart; the client's
first record is valid, not TLS, or refused (malformed, no SNI, another host).
Text and Binary messages behave alike and are one kind. `age`, `probed`,
`why`, `up`, `down` and `gotClose` only observe.

The WebSocket library's automatic replies are left out: the code answers pings
itself. A client that sent a Close gets one frame from the code in the model;
in the program the library's reply takes its place.

**Server.** `phase` is "serving" until the signal, "draining" while
`axum::serve` waits for the connections it drives (those in a handler, up to
the upgrade), "dropping" when `main` has returned and the runtime drops the
tasks that are left, and then "exited". A dropped session runs its destructors
and nothing else (`Abort`, `DropTask`): the lease and the gauge go down, no
Close is sent. `active_connections` is the exported gauge.

**Startup, Gates, Remote, Addr, ClientHello.** Pure operators under the
source's names. An address is its sequence of octets or segments, so masks and
embeddings are arithmetic on real digits. A host is a sequence of labels, a
label a notation (`dec`, `oct`, `hex` or a word) and its digits, which
`from_str_radix` reads and `Decimal` writes; case, a final dot and blanks around
it are marks on a text, which `normalize_hostname` takes off. A record is a sequence of tokens, one for each number of the wire format
and each letter of a name, so that every length in it can lie. A token's
contents are the constant `Paseto`, as the library would find them; the clock
is read twice, as `validate_token` does.

**Gateway.** `Panic` or `Start` is `main`; `Gate` is `proxy_handler` up to
its first await, `Resolve` the filter on what the resolver finds (`lookup_host`:
an answer of DNS, or the host itself if that is an address once dots and blanks
are gone), `ProbeTlsSni` the verdict on the first record; `Scrape` is `metrics_handler`. The limits are not
asked: they are in `Proxy`. The properties compare with definitions written
from the RFCs and the documentation: bit by bit, by intervals, or by what the
instance says a text stands for (`spells`, `values`, `carries`, `plain`, and
for a ClientHello `name`). What the instance may say is not free: `IsRemote`,
`IsAnswer`, `IsClient` and `IsHello` tie it to the text, digit by digit and
length by length, in the direction opposite to the code's: a number is what its
digits leave when it is divided by the radix, an address what `inet_aton` puts
together from its parts, a name what the positions of the entries lead to.
`spells` in particular is what the resolver takes the host for, not what
`parse_remote` does: dots behind the host, blanks around it and its length make
no difference to it. `Noticed` is the condition under which the two agree, and
`gateway_literal` is what happens where they do not.

## Runs

| Run | Checks | Shows |
|---|---|---|
| `limits_leases` | `TypeOK`, `LeaseAccounting`, `LeaseVerdict`, `LeasesWithinCaps`, `GcExact`, `AttemptVerdict` | counters are the leases; collection keeps exactly the rows that matter; the cap on all attempts is exact when prefixes share it |
| `limits_windows` | `AttemptVerdict`, `RatesWithinCaps`, `ByteVerdict`, `BytesWithinCap`, `Implements` | sliding windows are exact for attempts, destinations and bytes; `bytes_sum` is what its window holds |
| `proxy` | `LeaseFollowsRequest`, `NothingLeaks`, `DialedIsAllowed`, `EveryRequestSettles`, `GaugeExact`, `StopEnds`, `KeepsContract` | no path out of a request or of the process leaks a lease; only filtered addresses are dialed; every request is settled, a stop ends, and `Server` implements `Service` with its fairness |
| `session` | `TypeOK`, `BytesInOrder`, `HeardOut`, `RelayWithinCap`, `RelayWithinLifetime`, `ProperDisconnect`, `GreetingVerdict`, `HelloVerdict` | the probes under every segmentation, the hand-over, the relay and its end |
| `session_live` | `RelayEnds`, `ClosingEnds` | the relay ends; closing ends unless the client stalls for ever |
| `gateway` | `ReleaseIsRestricted`, `StartsWhenSafe`, `NeverKeyless` | startup: unsafe settings do not start, safe ones do, and what starts is restricted end to end |
| | `PeerCharged`, `BudgetShared` | whom a request is charged to and who shares a budget |
| | `TokenBound`, `HostsKnown`, `MetricsGuarded` | what passes the gates of `/proxy` and `/metrics` |
| | `LiteralsSeen`, `OneKeyPerDest`, `DialedIsPublic`, `SniMatches` | destinations: notation, identity, addresses dialed, name in the hello |

Six runs show where the code and its own text part:

| Run | Property | What happens |
|---|---|---|
| `gateway_literal` | `NoLiteralDialed` | `8.8.8.8.`, or an address with a blank before the colon or of more than 32 characters, is a name to `parse_remote`; the resolver gets the bare address, which is dialed although literals are not allowed |
| `proxy_tracked` | `TrackedWithinCap` | `acquire` brings back a row that was collected during the dial, past `max_tracked_ips` |
| `session_cap` | `SessionWithinCap` | bytes forwarded by the probe are not counted |
| `session_lifetime` | `HardLifetime` | the lifetime starts after the probe, which pings prolong for ever |
| `session_teardown` | `AlwaysTornDown` | `ws.close()` has no timeout and comes before the upstream's shutdown and the lease |
| `session_blank_line` | `BlankLinesSkipped` | a blank line in a segment of its own ends the read too early |

### Bounds

* Limits: `limits_leases` has two prefixes, one of them with two addresses, and
  up to four sessions; `limits_windows` has one prefix with two sessions, two
  destinations and charges of two sizes, since attempts of different prefixes
  meet only in the cap on all attempts and in collection, which `limits_leases`
  has. Caps of 1 to 4 make every cap the first one hit. Windows of 1 to 2
  seconds and `GcInterval` 2 against `MaxTime` of up to 4 let rows expire, be
  collected and return within a run; the windows of a row differ, so that its
  queues empty apart. `MaxTime` bounds the clock and nothing else.
* Proxy: two requests are enough for every race on one slot; three kinds of
  destination (a name, an allowed literal, a refused literal) and answers of
  up to two addresses, one of them private. Requests return to "free" and come
  in again.
* Session: a few bytes each way, messages of 0 to 2 bytes, queues of at most
  two messages, a hello of two bytes, greetings of up to four classes (good,
  bad, cut at the limit, after blanks and after a blank line), timeouts
  of one tick and a lifetime of two. `AgeCap` stops the clocks one tick past
  the last instant a property tells apart, so time itself is unbounded. A
  session that is done stops, so deadlock is not an error there; that it does
  not stop earlier is what the liveness runs check.
* Server: the stop may come at any state of the `proxy` run. An exited process
  stops, so `proxy` does not check deadlock; `StopEnds` says that it exits.
* Gateway: two base environments with one variable changed, each with and
  without `MAILINER_UNSAFE`, in both builds; for each environment the requests
  that differ from a good one in one part (`MCRequests` picks the parts the
  environment makes a difference to). Numbers stay below 2^31, which is as far as
  TLC counts; the proofs have no such bound. Addresses are
  chosen at both edges of every special range and in every embedding; records
  are a good one, one that is wrong in each of its lengths, and ones with a
  name in a place where it does not count. A destination is written in one to
  four parts in every notation, in the ways that just miss being one (five
  parts, an octet of 256, a digit too high), and dressed up: a final dot, a blank
  before the colon or in brackets, 32 and 33 characters. Since the gates are
  stateless, one request after a start reaches everything: depth 5. A process that panicked
  stops, so deadlock is not checked.

### Fairness

* `FairServerSpec`: weak fairness of each request's handler, of the return of
  `serve` once it drives nothing, of the drop of each task and of the exit. The
  lookup and every dial are inside a `timeout`, hyper completes or fails an
  upgrade, and dropping a runtime drops its tasks. Nothing is assumed of
  sessions, clients, the clock or the signal.
* `FairSpec` (Session): weak fairness of the task and of the clock: the
  runtime polls a task that is ready, timers fire, time goes on. Nothing is
  assumed of the peers. A timer that is due fires before the next tick.

## Proofs

`LimitsProofs`, for every configuration, finite sets of sessions and prefixes,
set of destinations, and with no bound on time:

* `TypeCorrect`, `LeasesCounted`: `TypeOK /\ LeaseAccounting` is inductive.
  Type correctness alone is not enough to see that `release` finds a positive
  count, and the accounting alone does not say that rows are rows; together
  they are closed under every call. The argument runs over one relation,
  `SameCounts`: pruning, collection, `record_attempt` and `add_bytes` change
  rows but no counter, because a row that is dropped counts no connection.
  `acquire` and `release` change each counter by one, as the sets of leases do
  (`GrantCardinality`, `ReturnCardinality`).
* `AcquireExact`: from the accounting, the verdict of `acquire` is the verdict
  of `Admission`.
* `CapsHold`: the leases that exist stay within the three caps.

`WindowProofs`, under the same assumptions, compares the queues with the whole
history of attempts and charges. `WindowInv` is inductive with `TypeOK`: a
queue of a row is the end of its log, and what it lacks has expired (`Window`);
`bytes_sum` is the sum of its queue; a prefix without a row has nothing recent;
the logs are in the order of time. The global queue mixes all prefixes, so its
entries are matched with the recent attempts by an injection (`GlobalOK`).
Exactness alone is not inductive: an entry that was dropped must still be
expired at the next tick, and a row that was collected may come back. (The
injection makes `WindowInv` a formula TLC cannot evaluate; what follows from it
is checked by the `limits_*` runs.)

* `AttemptsJudgedExactly`, `BytesJudgedExactly`: with each queue pruned at the
  call, its length, its destinations and its sum are those of the window.
* `CollectionExact`: a row is dropped exactly when it counts no lease and all
  its queues prune to nothing. This needs `LeaseAccounting` as well.
* `RatesHold`, `BytesHold`: time only takes entries out of a window, and a call
  adds one only where the exact verdict left room.
* `LimitsImplementPromise`: `Limits` implements `Admission`. Every call that
  succeeds is a step the promise allows. A refusal is a stuttering step of the
  promise; that none is given without need is what `AcquireExact`,
  `AttemptsJudgedExactly` and `BytesJudgedExactly` say.

`Sums` has what these need and the library does not: sums over finite sets as
`MapThenSumSet` has them, the size of a union of disjoint sets, and what
`Retain` keeps. Induction goes through a least counterexample or a well-founded
set, not through a predicate as a parameter.

`ProxyProofs`, for any number of requests:

* `ProxyUsesLimits`: the composed system implements `Limits!Spec`; every step
  of a handler is a call or leaves the limits alone. The accounting and the
  caps carry over (`ProxyLeasesCounted`, `ProxyCapsHold`).
* `LeaseFollows`: `LeaseFollowsRequest` is inductive together with what is
  known of a request in flight (`RequestsKnown`).
* `NoLeak`: from the two, with no request in flight every counter is zero.
* `ProxyRatesHold`, `ProxyBytesHold`, `ProxyKeepsPromise`: with
  `ProxyUsesLimits`, the windows are exact and the promise of `Admission` is
  kept while any number of requests interleave.
* `OnlyAllowedDialed`: `DialInv` adds the addresses a request still has to try
  (`Targets`): all of them passed the filter for this request's destination, so
  the next one it dials did. `RetainedIn` is the fact about the filter.

`ServerProofs`, for any number of requests and a stop at any point:

* `ServerUsesProxy`: every step of the server is a step of `Proxy` or leaves it
  alone, so `ServerLeases`: all of the above holds to the exit.
* `ContractKept`: the server implements `Service!ServiceSpec`. The step that
  matters is `acquire`: that the limiter's row is below the cap has to mean
  that fewer requests of that prefix are served, which is `LeaseAccounting`
  and `LeaseFollowsRequest` together.
* `ServerWithinLimits`: the rates, the byte budgets and the filter on what is
  dialed, for the process as a whole.
* `GaugeAlwaysExact`: the gauge is the number of sessions, and it and the
  upgrades under way are the global counter. One step changes one side of each
  equation by one; the cardinalities are the argument.

`GatewayProofs`, for all environments, requests and scrapes of the shape
`GatewayAssumption` states:

* `AlwaysConfigured`: a process that is past its start has the configuration
  of its environment, and did not panic. The rest follows from it.
* `AlwaysKeyed`, `MetricsAlwaysGuarded`: the invariant, and that `token_eq` is
  equality (`TokenEq`), padding included.
* `AlwaysRestricted`: with a second invariant, `Passed` (a request that is past
  a gate was let through by it), `ReleaseIsRestricted` follows from the empty
  list of safety errors, rule by rule (`StartedSafely`, `ListedPorts`,
  `PageIsListed`). Of addresses it says what is true of the code: none that is
  written bare and in at most 32 characters is let through (`Noticed`).
* `AlwaysStartsWhenSafe`: the other direction, from each reason to panic to
  the variable that gives it.
* `PeerAlwaysCharged`, `BudgetAlwaysShared`: a third invariant, `Recorded`, says
  that the client of a request is what `client_ip` made of it. The code masks
  digits and the properties compare bits; the two agree because a mask of one
  bit more doubles the remainders, shown bit by bit for octets and segments.
  The first address of the headers is found by least index.
* `TokensAlwaysBound`: `Verified` keeps the verdict of `validate_token` as of the
  request's own two readings of the clock. `HostsAlwaysKnown`: `Passed`, and
  that normalisation keeps what `SameText` compares.
* `PublicIsGlobal`: for every IPv4 and IPv6 address, `is_global_unicast` is true
  exactly outside `SpecialV4` and `SpecialV6`. These are the ranges that the
  code's comments name and the predicates of `std` stand for, as first and last
  addresses; they are not IANA's registry (see the observations). Each network of the tables is
  set against the first and the last address of its range, digit by digit; an
  embedded IPv4 address is judged as itself. `OnlyPublicDialed` follows with
  `Resolved`, and with `RetainIps`: to filter and to take the addresses commute.

* `LiteralsAlwaysSeen`: `parse_ipv4_component` multiplies and adds, the
  reference divides; `ReadsWritten` says that they meet, for any number of
  digits in the radices 8, 10 and 16, and `OctetShifts` the same for the octets
  that the last part of an address fills. `LooseSpells` and `LooseSpellsNot` are
  the two directions, with 256, 2^16, 2^24 and 2^32 as the exact limits of the
  last part; together (`PartsSpell`) the parts of a host are read as what the
  resolver reads them as. That `parse_loose_ipv4` gives up before it looks at the
  parts, for a dot, a blank or the 33rd character, is why `LiteralIsSpelled` needs
  `Noticed` in one direction; in the other, that nothing is taken for an address
  that it is not, there is no such condition.
* `DestinationsAlwaysKeyed`: `ip_canonical` writes an address as text and names
  are kept as text, so that one key means one destination is three facts: two
  addresses never have the same text (`CanonicalHostInjective`, from
  `DecimalReads`), a name that has the text of an address spells that address
  (`NameSpells`), and two names with one text spell the same. The converse has
  `Noticed` as a condition: `8.8.10.` and `8.8.0.10.` go to one address under two
  keys.
* `SniAlwaysMatches`: with `Passed`, and with `Refused` (only the probe refuses
  for the record). Everything the parser takes is a piece of the record at a
  known place (`Piece`, `PieceOfPiece`), so what `FirstOfType0` finds in a list
  within a list is an entry of the record itself (`FirstIsEntry`,
  `EntryInPiece`, `SniIsMentioned`): no length that lies makes it find a name
  that is not there. The other way, the positions that a ClientHello comes with
  lead the scan step by step to the first name (`FirstReached`, `SniIsFound`).
  `Trimmed` is what `normalize_name` makes of a name, and `LettersEnd` says that
  the configured one has nothing to trim.

`GatewayAssumption` says that a variable is set once or not at all, that
numbers and addresses are in their ranges, that the text inside a Host's
brackets is not itself a lone bracket, that each client and each address of an
answer comes with the IPv4 address it stands for, each `remote` with the numbers
and the address that it spells, and a record that is said to be a ClientHello
with the places of its entries up to the first name. Every address, every text
of labels and every sequence of tokens can be given such a form, so the
assumption leaves none out.

`SessionProofs`, for all timeouts, caps, buffer and message sizes, streams and
lengths of a record, and queues of any length. `SessionInv` is inductive; every
theorem follows from a part of it, and each part is there because the property
alone is not preserved:

* `SessionInTime`: `InTime` adds the timer, since a write under way has the rest
  of its own timeout and no more. `SessionCloses`: `Goodbye` adds that a session
  that is closing still has its Close in the sink, so that a flush that timed
  out can be tried again.
* `SessionInOrder`: bytes are positions, and a piece of a stream is a run `a+1 ..
  b` (`Runs.tla`). `Upload` says that what the upstream has, what the task holds
  and what is queued are runs that follow each other; `Download` says the same
  of the other direction while the client is there, and needs `Sink`: a client
  that is there never finds more than one message and a Close behind it, because
  whatever leaves a message unflushed ends the session. After a write that fails
  half-way nothing is known of the rest, and nothing of it is written.
* `SessionHeardOut`: `UpstreamHeard` and `ClientHeard` say that an end of a
  stream is seen behind its last byte. `SessionCapped`: `Capped` adds what is on
  its way. `SessionJudges`: `Judged`, with `Upload` for the number of bytes seen.
* `SessionGreets`: `Greeted` says that the probe's buffer and what waits to be
  read are a beginning of the stream; that where the stream does not pass, the
  session gets no further than the refusal and has nothing for the client; and
  that a verdict is never given on a greeting that passes on its first line.
  A greeting that passes in a part passes in the whole (`GreetingOf`); the other
  way, a refusal, needs that the marker is on the first line and within
  `MaxGreeting` (`OnFirstLine`). Without that it is false, as
  `session_blank_line` shows.
* `SessionTyped`: from the above, `down` included.

The proofs use the named assumptions of `LimitsParams`, `Proxy`, `Gateway` and
`Session`, which TLC evaluates on every run of those modules.

Every invariant and every action property that a passing run checks is a theorem. Only
model-checked are the liveness properties (`EveryRequestSettles`, `StopEnds`,
`RelayEnds`, `ClosingEnds`) and, with them, the fair half of `KeepsContract`,
whose other half is `ContractKept`: liveness under fairness is out of the
prover's reach. So are theorems by induction over a predicate; where a recursive
function or a fold is met (`from_str_radix`, `Shifts`, `FirstOfType0`,
`FlattenSeq`, `Retain`), `Sums` has the existence of its values (`Recursion`) and
induction over a set of good indices (`UpTo`) in place of it.

`DialedIsPublic` speaks of requests whose remote the code took for a name, also
of those that are an address; a literal is judged by `check_policy`.

`MCProxy` has TLC confirm that `Retain` is `SelectSeq`; it is a recursive
function because the provers cannot see into `SelectSeq`.

## Observations

Not errors against any text of the repository, but worth knowing:

* `public_safety_errors` looks at six of the ten caps; the caps per
  destination, on distinct destinations, on all attempts and on tracked
  prefixes may be 0 in a release build.
* A flag set to something that is not a word for yes is off:
  `MAILINER_REQUIRE_PROTOCOL_PROBE=enabled` turns the probe off, and a release
  build then refuses to start.
* An empty `METRICS_AUTH_TOKEN` counts as set; `/metrics?token=` then opens it.
* `host_allowed` takes a bracketed IPv6 Host with a port for the text before
  its first colon, so an entry without a port does not match it.
* A `Cidr` with an IPv4-mapped address uses the smaller of its bits and 32: a
  `/120` becomes a single host. It trusts less than was written, never more;
  `Trusts` in `Gateway` says the same of an entry and a peer that are both mapped.
* `proto.rs` says of a ClientHello that "if SNI is present" it must match; the
  code also refuses one without (`MissingSni`), as README.md says.
* A stop drops running sessions without a Close. Where a signal handler cannot
  be installed, `shutdown_signal` is done at once and the process stops.
* `is_global_v6` does not know 3fff::/20 (documentation, RFC 9637) and 5f00::/16
  (segment routing, RFC 9602), which IANA's registry has as not globally
  reachable: the proxy would dial them if DNS gave them, though README.md says
  that only globally routable addresses are dialed. It refuses all of 2001::/23,
  of which the registry has parts as global. The properties and theorems on
  public addresses are about the code's own list.
* On a multi-threaded runtime the gauge and the lease of a session that ends go
  down one after the other; in `Server` they do in one step, so the second
  conjunct of `GaugeExact` is about the moments outside of that destructor.

## Not modelled

The text and status of refusals, the negotiated subprotocol, the limits of 63
and 253 on the lengths of labels and names, a list of ports that says `any`
twice, message and frame limits (the WebSocket library's), counters and
histograms, logging, the build and the deployment scripts. `/health` has no
state. Counters are lost with the process and nothing is persisted, so there
is no recovery to model. A connection is modelled from its request on: a head
that hyper has read in part is not, so `StopEnds` does not speak of it, and
neither is the moment between the 101 and the first poll of the closure given to
`on_upgrade` (`Upgrade` is both). In `Session` a first byte that is not TLS settles
the verdict; `tls_record_needed` also refuses at the fifth byte, to the same
end. What the WebSocket library still has to send when a probe ends (its reply
to a Close) is the library's. The per-prefix byte budget is answered arbitrarily in
`Session` and exactly in `Limits`; the two are not composed into one module,
since a session reads nothing from the limits but that verdict.

# TLA+ models of the intranet RPC demo

This directory holds TLA+ models of the kameo remote-actor demo in
`src/examples/`. There are three programs:

- `intranet_server.rs`, with its actors in `intranet_common.rs`;
- `intranet_client.rs`;
- `intranet_rpc.rs`, the libp2p swarm set-up and event loops that both
  programs use.

The directory also has the TLC configurations that model-check these modules,
and TLAPS proofs of type correctness, of the correlation of replies, and of
the refinement of an abstract demo loop.

## The system

**Server** (`main`, intranet_server.rs:88-141). It runs these steps in order:

1. It builds the swarm and spawns the event loop.
2. It registers a `CalculatorActor` under `"calculator"`. A failed `?` ends
   the process.
3. It registers a `NotificationActor` under `"notification"`. A failed `?` ends
   the process.
4. It spawns three push loops: status, task and event.
5. It waits for Ctrl-C.

Each push loop iteration builds a notification, calls
`RemoteActorRef::lookup("client_handler")` once, and tells the one handler it
finds. The loop never reads the `NotificationActor`'s subscription table
(`_notification_ref` is unused), and nobody ever sends `StreamDataItem`.

**Server actors** (intranet_common.rs):

- `CalculatorActor` counts each request in `request_count` and replies with
  the result of `a+b`, `a-b` or `a*b`.
- For divide, it replies `None` when `b == 0.0`, or when the quotient is
  infinite or NaN.
- `NotificationActor` answers `SubscribeDataStream` with
  `"sub-{peer}-{event_count}"`. It then increments `event_count` and inserts
  the peer into `connected_clients`, overwriting any earlier entry for that
  peer.

**Client** (`main`, intranet_client.rs:54-100). It runs these steps in order:

1. It registers its `ClientNotificationHandler` under `"client_handler"`
   (`?`).
2. It looks up `"notification"` (`?`). `None` means it carries on without
   pushes.
3. It asks the notification service to subscribe (`?`).
4. It runs `run_demo_mode` forever. Each round finds a calculator other than
   itself through `lookup_all`, then asks it the five fixed calculations one
   after the other.

An `Err` from one of the calculation asks is only logged. The handler adds one
to `notification_count` for every push it receives.

**Transport** (kameo over libp2p, intranet_rpc.rs):

- An `ask` carries a correlation id.
- It resolves with the reply carrying that id, or with an error when the
  request timeout fires (the client's `with_request_timeout`,
  intranet_rpc.rs:215-217) or the
  transport fails. After that, a late reply is an orphan.
- A `tell` is fire-and-forget.
- A connection that closes loses what was in flight on it. The event loops
  only log `ConnectionClosed`.
- The registry is kameo's. A registration is a record that stays after its
  owner ends. Nothing in `src/` removes it.

## Modules

| Module | What it models |
|---|---|
| `F64` | The f64 arithmetic of the four `CalculatorActor` handlers and the replies they build (`AddReply` … `DivideReply`, `CalcReply`). A finite value is an exact rational `n/d`; a magnitude above `MaxMag` overflows to ±infinity; infinities and NaN follow IEEE 754; the sign of zero is not kept (the code's only zero test, `b == 0.0`, holds for both zeros). Rounding is not modelled. |
| `Calculator` | The `CalculatorActor` alone: one request at a time (its mailbox), any operation on any two operands of a bounded set, checked against reference definitions of spec §8. `request_count` is left out here (it is only logged). |
| `DemoCalls` | The abstract demo loop: per client, a round asks calculations `1..NCalcs` in order; each ends with its right answer accepted or with nothing accepted. It is a safety specification. |
| `IntranetRpc` | The whole system: servers, clients, the registry and the transport. `Calls` instantiates `DemoCalls` with the refinement mapping. |
| `MC_IntranetRpc` | TLC harness of `IntranetRpc`; its constants are set in the cfgs. |
| `MC_Calculator` | TLC harness: the operand set `MCOperands`. |
| `IntranetRpcProofs` | TLAPS proofs: type correctness, correlation, the refinement of `DemoCalls`. |
| `CalculatorProofs` | TLAPS proofs of `Calculator`'s type invariant and divide contract. |

`IntranetRpc` state and its code counterparts:

| Variables | Code |
|---|---|
| `registry`, a set of `[name, peer]` records | kameo's registry |
| `spc` | where each server's `main` is |
| `request_count` | `CalculatorActor::request_count` |
| `connected_clients` | the key set of `NotificationActor::connected_clients` |
| `event_count` | `NotificationActor::event_count` |
| `pushes` | the iterations each push loop has done |
| `cpc` | where each client's `main` is |
| `round`, `ci`, `calculator` | `run_demo_mode`'s round, the calculation index, and the calculator found |
| `callId` | the correlation id of the client's latest ask |
| `lastOk` | the last calculation result the client accepted |
| `notification_count` | `ClientNotificationHandler::notification_count` |
| `exitCause` | why a client process ended |
| `reqs`, `reps`, `notes` | messages in flight |

Actions, one per handler or step:

- **Server:** `RegisterCalculator`, `RegisterNotification` (which includes
  `start_push_services`), `ServerStop`, `CalculatorHandle`,
  `NotificationSubscribe`, and `PushNotification(s, k)` for one iteration of
  loop `k`.
- **Client:**
  - `RegisterHandler`, `LookupNotification` (found / `None` / `Err`),
    `Subscribed`, `SubscribeError` (the `?` on the subscribe ask, with a
    Timeout or a Transport error);
  - `FindCalculator` (one round, with `find_calculator_service`),
    `CalcReplied` (the `Ok` arms of `execute_*`), `CalcError` (the `Err`
    arms);
  - `HandleNotification`.
- **Environment:** `ClientKilled` (the process is killed), `LoseMessage` (a
  connection closes under a message; libp2p's doing, which the event loops
  only log), and `Terminated`, the stuttering end once everything has
  stopped. No line of `src/` performs these, so they have no entry in the map.

`AskCalc` and `NextCalc` are the helpers for "ask calculation i" and
"after a calculation, ask the next one or end the round".

The definitions named `…PastEnd`, `…AnyId` (in `IntranetRpc`) and
`…NoFiniteCheck`, `…MulAsDiv` (in `F64`) are validation variants: plausible bugs that the properties must catch.

**Abstractions:**

- Names, payloads, log text and the subscription-id string are left out. The
  subscription reply carries the `event_count` the id is made of.
- A client never has two asks outstanding (the demo awaits each one), so
  `max_concurrent_streams` is never reached and is not modelled.
- The sleeps are not modelled: they only order steps that the model already
  interleaves freely.
- A lookup is modelled as returning any record ever registered under the
  name, whether its owner is alive or not (`Providers`). This comes from the
  spec (§4.1, "the registry does not eagerly validate liveness"), since the
  registry code is not in this repository.

## Runs

| Run | cfg | Instance | Checks | Result |
|---|---|---|---|---|
| calls | `MC_Calls.cfg` | 1 server, 1 client, `MaxRounds = 1`, `MaxPushes = 1` | `TypeOK`, `ReplyMatchesRequest` | pass (1,203,092 states) |
| calculator | `MC_Calculator.cfg` | `MaxMag = 4`, 7 operands | `TypeOK`, `DivideContract` | pass (197 states) |
| push_fan_out | `MC_PushFanOut.cfg` | 1 server, 2 clients | `PushReachesEveryHandler` | violation (finding) |
| fatal_subscribe | `MC_FatalSubscribe.cfg` | 1 server, 1 client | `SubscribeTimeoutNotFatal` | violation (finding) |

### What the runs check

- **`TypeOK` (IntranetRpc):** every variable stays in its type. It is not
  trivial here: the off-by-one variant `NextCalcPastEnd` asks a sixth
  calculation and breaks it.
- **`ReplyMatchesRequest`:** the result a client accepts for calculation `i`
  is `Result(i)`. This holds even after earlier asks timed out and their
  replies arrived during a later ask. Breaking it takes a client ask, a
  timeout, the next ask, and a server reply to the first one, in that order.
  The variant that takes a reply without checking its id (`CalcRepliedAnyId`)
  breaks it.
- **`DivideContract`:** the divide handler replies `None` for a zero divisor
  and for every quotient that is not finite (overflow, infinite or NaN
  operands), `0` for a finite number over an infinity, and the exact quotient
  otherwise. The reference (`DivideOk`) is written with exact rationals and a
  range test, independently of `FDiv`. With `MaxMag = 4`, `4 / (1/2)`
  overflows. The handler without its `is_infinite() || is_nan()` check fails
  this. The zero check alone would not catch it, and in IEEE arithmetic the
  zero check is in fact redundant with the result check (`x/0` is infinite or
  NaN).
- **`TypeOK` (Calculator):** add, subtract and multiply reply an f64 (finite,
  infinite or NaN) and divide only a finite value or `None`. Dispatching
  multiply to the divide handler breaks it.

The calls run also runs the push loops, the subscription and the handler, so
that every action of `IntranetRpc` fires in a passing run.

### Bounds

- One full demo round covers every transition of the client loop:
  - all five calculations;
  - a timeout on each;
  - a late reply for each;
  - a loss of each message;
  - the end of the round and the failed `FindCalculator` of the next round.
- Two rounds add no new control paths and grow the state space to millions of
  states.
- One push per loop lets the three loops interleave with the subscription,
  the demo round and the kills.
- Two clients are the smallest instance in which a lookup has a choice; the
  push_fan_out run uses them.

### Operands

The calculator run's seven operands hold zero, a fraction, a negative, the
largest finite value, both infinities and NaN. With `MaxMag = 4` every class
of result occurs: exact, overflow of add, multiply and divide, `inf - inf`,
`0 * inf`, `x / inf`, and NaN operands.

### No fairness, no liveness

The specifications are safety specifications: `Spec == Init /\ [][Next]_vars`.
That a pending ask resolves, and that a push loop keeps iterating, rest only
on kameo's request timer and on the loop's own next iteration. The model could
only assume these as weak fairness on `CalcError`, `SubscribeError` and
`PushNotification`, and a liveness property would then restate the
assumption. Such properties are therefore not stated. The hazards these
behaviours carry are listed in `PROJECT.json` with that note.

## Findings

1. **The push fan-out diverges from the spec (run push_fan_out).**
   intranet_server.rs:277, 327 and 390 call `lookup`, which returns one
   handler, not `lookup_all`. With several clients registered under
   `"client_handler"`, each push reaches at most one of them. §4.3 of the spec
   says each push goes to every registered client endpoint.
2. **A subscribe timeout ends the client (run fatal_subscribe).** The
   subscribe ask at intranet_client.rs:235 ends in `.await?`, so a Timeout
   returns from `subscribe_to_push_services` and `main` exits at line 89. §7
   of the spec lists Timeout among the per-call errors, which stay local to
   the call. §4.3 adds that a degraded push capability is logged, not a hard
   failure. TLC's trace: the server registers both services, the client
   registers its handler, finds `"notification"`, asks it to subscribe, and
   the ask times out. The handler is already registered, so a stale
   `client_handler` record stays behind.
   Not part of the finding: a Transport error on the same ask, and the `Err`
   of `lookup("notification")` at line 216. §7 makes transport and registry
   errors at startup fatal, so there the code does what the spec says.

### Other observations, not run

- `StreamDataItem` is never pushed.
- The subscription table is written but never read.
- Registrations outlive their owners. §4.4 of the spec expects a closed
  connection to invalidate them.

## Proofs (checked by `tlapm`)

The proofs of `IntranetRpcProofs` hold for all sets `Servers` and `Clients` and all bounds. They
assume only `ConstantsAssumption` (servers and clients are disjoint, `NoPeer`
is neither, and the bounds are naturals).

### TypeCorrect: `Spec => []TypeOK`

`TypeOK` alone is not inductive. A step that asks the next calculation sends
it to `calculator[c]`, which `TypeOK` allows to be `NoPeer`. The inductive
invariant `TypeInv` therefore adds `CallingHasCalculator`: a calling client's
calculator is a server.

The proof has these parts:

- one step per action;
- lemmas `AskCalcType` and `NextCalcType` for the shared helpers;
- `NoneVal` and `ResultVal` for the reply values;
- a closing PTL step.

### RepliesCorrelated: `Spec => []ReplyMatchesRequest`

The inductive invariant `CorrInv` is `TypeInv` together with three
conjuncts:

- `IdsIssued`: every message in flight carries an id in
  `1..callId[client]`. So once an ask takes a fresh id, no old message can
  match it.
- `PendingRequest`: the request carrying a calling client's current id is for
  calculation `ci[c]`.
- `PendingReply`: the reply carrying that id holds `Result(ci[c])`.

These facts explain why the property holds:

- the client takes only a reply whose id equals its current `callId`;
- every ask takes a new id;
- the server copies the id from the request into the reply.

The argument does not depend on how many asks timed out before. TLC checked
`CorrInv` as an invariant of the calls run before the proof was written.

### CallsRefinement: `Spec => Calls!Spec`

`DemoCalls` is a safety specification, so this is the whole of its contract.
The mapping is close to the identity on the client's variables: its content
beyond the order of the calculations is the correlation of `ReplyMatchesRequest`.
For that reason no run checks it separately. The proof follows the usual layout:

- `InitCalls`: initial states map to the initial state;
- `NextCalls`: under `CorrInv`, every step maps to a step of `DemoCalls` or a
  stutter.

The step cases are:

- `FindCalculator` finding a calculator is `StartRound`;
- `CalcReplied` is `Answered`;
- `CalcError` is `Failed`;
- `ClientKilled` of a calling client is `Stop`;
- every other step is a stutter (`CallsStutter`).

`NextCalcAdvance` shows that `NextCalc` is `Advance`. `CalcReplied` needs
`PendingReply` from `CorrInv`: the reply with the current id carries
`Result(ci[c])`. This is why the refinement rests on the correlation
invariant.

### CalcTypeCorrect, DivideSafe (`CalculatorProofs`)

These prove `TypeOK` and `DivideContract` of `Calculator`
for every `MaxMag` and for every operand set that satisfies
`OperandsAssumption`. That assumption says each operand is an infinity, NaN,
or a rational `Fin(n, d)` with `d > 0`. The invariant needs no strengthening,
since `Handle` rewrites `last` whole. The work is in lemmas about `F64`:

- `RoundedInRange`: `Rounded(n, d)` is `n/d` in range and an infinity out of
  it.
- `DivideFinite`: for finite operands with a divisor that is not zero, the
  quotient is `Rounded(a.n*b.d*s, a.d*b.n*s)` with `s` the divisor's sign.
  This is `None` exactly when the reference `OutOfRange` holds, and the exact
  quotient otherwise. The proof splits on the sign of the divisor.
- `DivideAll`: the other pairs of operands (zero divisor, infinities, NaN).
- `ReplyKind`: the kind of each reply.

### What the proofs found

Writing `DivideAll` exposed a fault in the definitions. A TLA+ `CASE` whose
guards overlap does not pick the first true arm: its value is any one of the
true arms. `FAdd`, `FMul` and `FDiv` had overlapping guards with different
values (inf+inf, inf·0, inf/inf), and so did the reference `DivideOk`
(0/0). TLC evaluates a `CASE` first-match, which hid this. These
definitions now use `IF` chains or disjoint guards, so they mean what TLC
computed, and every run gives the same results as before.

### Not proved

The violations above are counterexamples, not theorems. Liveness is neither
proved nor checked (see "No fairness, no liveness").

No action property is stated. The candidates (ids echoed in replies, results
taken only with the current id, counters that only grow) each restate one
guard or one assignment of an action.

## Not modelled

- **The swarm set-up and CLI parsing:** these are I/O only.
- **Interactive mode:** it is unreachable, because clap's `bool` flag defaults
  to true.
- **Kademlia record expiry:** it is kameo-internal.
- **Float rounding:** exact rationals stand in for f64 values.
- **The connection layer of the event loops:** the dial in `RpcClient::new`
  is not modelled, nor the `ConnectionEstablished`, `ConnectionClosed` and
  `OutgoingConnectionError` events. These arms only log. Their effect on
  messages is `LoseMessage`, and a failed dial (which is never retried) shows
  up as lookups that miss.

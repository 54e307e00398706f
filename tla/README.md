# A formal model of InferenceMesh

InferenceMesh is a single-process inference gateway: a FastAPI application that
admits chat and embedding calls, routes each to one of several backends, fails
over while nothing has been streamed, and relays streams. This directory holds
its specification in TLA+, the model-checking configurations, and proofs. Line
numbers refer to `src/inferencemesh/` of the repository.

## The system

Everything runs on one asyncio event loop. Tasks interleave only where they
suspend; a stretch of code without a real suspension is one atomic step. A
cancellation (client disconnect) or a timer can strike a task at any suspension.

| Component | State | Operations | Modelled in |
|---|---|---|---|
| Admission controller, `admission.py` | `_active`, `_tenants`, `_queue`, `_released` of each lease | `acquire`, `release`, `admit`, `snapshot` | `AdmissionPool`, `Admission` |
| Router and circuit breaker, `routing.py` | one `BackendCandidate` per backend | `select`, `started`, `finished`, `is_ready` | `Candidates`, `Router` |
| Inference service, `service.py` | `_next_health`, `_health_lock`; per call: excluded backends, decision, outcome | `refresh_health`, `complete_chat`, `prepare_stream`, `_stream`, `embed` | `Service` |
| Stream relay, `service.py` | the first chunk, the adapter's generator, `outcome`, what was sent | the loop of `prepare_stream`, `_stream` | `StreamRelay` |
| Request budget, `budget.py` | a deque of reservations per tenant | `reserve` | `Budget` |
| Request handlers, `api.py` | what a call holds: lease, stream, attempt | `chat_completions`, `embeddings`, `cleanup`, `ready`; `create_app` and the checks before a call is charged | `Gateway`, `Registry` |
| Adapter interface, `backends/base.py` | none of its own | `stream`, `BackendUnavailable` | `AdapterStream` |
| HTTP adapter, `backends/http.py` | `finished`, `data` and the lines of one call | `stream`, `complete`, `embed`; `health` | `HTTPBackend`; `health` by its outcomes in `Service` |
| Demo adapter, `backends/fake.py` | none of its own | `stream`, `complete` | `DemoStream` |
| Settings and authentication, `config.py`, `auth.py` | the settings, which never change | the validator, `authenticate` | `Registry` |
| Request and response models, `domain.py` | none | their validation | by what a call is decided on, in `Registry` |
| Metrics, entry point, gRPC contract | none, or write-only | | not modelled |

How they interact: a handler checks its input, reserves budget, acquires a lease
(and may queue), calls the service, and gives the lease back. The service
refreshes health if it is stale (one task does it for all, under a lock),
selects a candidate and marks it started in one step, awaits the adapter, and
records the end of the attempt with the router. A plain call gives its lease
back in a `finally`; a stream's lease travels with the response, and both the
generator's `finally` and a background task run `cleanup`.

What is hard in this code, and what each component must guarantee:

- **Admission.** Waiters are notified all together and run later; a deadline or
  a disconnect may strike one that was notified already; `_release` tasks
  outlive their callers. Counters must equal the leases out, no wake-up may be
  lost, no dead ticket may block the line, no newcomer overtake it.
- **Router.** Attempts outlive changes of the circuit. An old success must not
  close it, an old end must not free the place of the probe, a cancelled probe
  must not keep it.
- **Service.** The holder of the health lock, or any waiter, may be cancelled.
  Health must be refreshed once, used fresh, and nobody may be stranded; no
  backend is tried twice; every attempt is recorded once.
- **Streams.** Upstream may break off anywhere and the client may leave
  anywhere: no false `[DONE]`, no gap, no second backend's text, a recorded
  outcome that agrees with what was sent, and an upstream connection that is
  given up in the end.
- **Adapters.** Events come in lines, and lines in any cut; a half event, a
  `[DONE]` before its time or a list in another order must not be passed on as
  if it were right.
- **Settings.** Two tables are built of one list of backends: whatever the first
  accepts must have a candidate in the second.
- **Budget.** Exactness at the edge of the window, and a deque that is pruned
  only by its own tenant's calls.
- **Handlers.** Two resources nested by hand in two shapes: a lease must
  enclose every attempt and come back on every path.

`PROJECT.json` lists these hazards one by one with the lines where they bite.

## Modules

- **`AdmissionPool`** is what admission promises: a line and a set of holders; a
  request is admitted past nobody whose tenant has room.
- **`Admission`** is the code. `pc` says where the task of a request stands:
  `waiting` in `Condition.wait`, `notified` (its future is resolved, it has not
  run), `expired` or `cancelled` (struck, the exception not yet delivered).
  `acquire` is split at its one suspension into `AcquireAtOnce`,
  `RejectQueueFull`, `Enqueue`, `ResumeGranted`, `ResumeWaits` and `Abandon`;
  `release` into `CallRelease` and the shielded task's `RunRelease` and
  `RunReleaseAgain`. The condition's lock needs no state: it is held only
  between suspensions. `PoolSpec` maps `queue` to the line and the unreleased
  leases to the holders.
- **`Candidates`** has the candidate record and the pure effect of `_available`,
  `started` and `finished`; **`Router`** runs attempts through it. `Start` is
  `select` and `started`, which nothing separates; `FailOver` is `finished` with
  an error and the `select` that follows at once. `retry_at` is kept as the
  ticks left until it, `failures` up to the threshold, the only value it is
  compared with. The score only picks among eligible candidates, so any of them
  may be picked.
- **`Service`** adds the health lock (`healthQueue`, the stage `refreshing`),
  freshness (`freshFor`, the ticks until `_next_health`), the excluded backends
  and the life of a stream. `RouterSpec` states that it implements `Router`; the
  variables of `Router` are among its own.
- **`AdapterStream`** is what the service may rely on in an adapter's stream:
  chunks worth passing on, then one of three ends, and a return only after a
  finish reason. A chunk is kept as the four facts `service.py` tests in it.
- **`StreamRelay`** is one streamed chat over such a stream: the failover loop of
  `prepare_stream`, which pulls the role chunk before it returns, and the
  generator `_stream`. `passed` and `status` are the adapter's side, `sent` is
  what the client got, `records` what the router was told. An action is what one
  event makes the generators do until they wait again. The close of upstream is
  a step of its own (`UpstreamCloses`), since a second cancellation may come
  while it is under way; `Records` follows it, except where only the role is
  out: there the shield in `_stream`'s `finally` lets upstream close later.
  The place of a chunk in its stream stands for its text. `Due` says which chunks
  a client must get, independently of the condition of `_stream` (`GoesOut`).
  `Spec` takes it that closing a response does not raise `BackendUnavailable`, and
  all but one run and every theorem are about it; any other error there leaves
  the `finally` of `_stream` to record the attempt and changes nothing. In
  `CloseMayFailSpec` closing may raise it (`CloseFails`); where the client leaves at
  an `await` and not at a chunk, that is an attempt that breaks off, as in `Spec`.
- **`HTTPBackend`** is one call of the adapter that implements that promise: the
  lines of an event stream, one action per kind of line, or the reply of a unary
  call with what `int()` and `float()` make of its numbers: a count, an error the
  adapter expects, or one it does not (`Converted`). A data line may be empty;
  `Json` is what decoding makes of an event's lines, empty ones being blank to
  it. `AdapterSpec` states that it
  implements `AdapterStream`. An exception that the adapter does not catch maps
  to a closed stream, for the service treats it as a cancellation.
  What the lines mean is defined apart from the reader, on the whole log at once:
  `Blanks` are the places where events may end, `Dispatched` the data lines
  between one of them and the next, `EventsIn` those that are not empty and
  `ChunksIn` what they carry once each is decoded (`Decoded`). The properties compare the reader with that.
- **`DemoStream`** is the demo adapter's text, cut to `max_tokens`, and its stream;
  `DemoAdapterSpec` states that it implements `AdapterStream` too.
- **`Registry`** goes from settings to served models: the validator, the two
  tables `create_app` builds (the models of a task, the candidates by name), and
  the checks a request passes. Dictionaries keep the last entry of a name.
- **`Filters`** has one operator, `Kept`: the elements of a sequence that lie in a
  set, as a recursive function that proofs can reason about.
- **`Budget`** keeps reservations with their ages. `granted` is an auxiliary
  variable: the reservations of the last window, independently of the pruning:
  `Tick` filters them with `Kept`, while `Recent` is what the code's loop of
  `popleft` leaves, which stops at the first reservation that is young enough.
  `BudgetComesBack` says that a spent budget of requests, and one with no tokens
  for even the smallest completion, gives some back.
- **`Gateway`** composes `AdmissionPool` and `Router`, through the steps those
  modules define, with the paths of `chat_completions` and `embeddings`.
- **`MC...`** modules give the constants small values; **`...Proofs`** modules
  and `SequenceFacts` hold the theorems. `AdapterProofs` has those of both
  adapters and `RequestChecksProofs` those of `Budget` and `Registry`; for that
  the names in the second of each pair say what they specify (`DemoInit`,
  `DemoNext`, `DemoSpec`, `demoVars`; `ChecksInit`, `ChecksNext`, `ChecksSpec`,
  `checksVars`, `ChecksTypeOK`).

Some operators are marked as faults: each is a plausible mistake in the
definition below it, put in its place to see that a property notices.

## What is checked

| Run | Module | Shows | Distinct states |
|---|---|---|---|
| `admission` | `Admission` | `TypeOK`, `LeaseAccounting`, `QueueIsExactlyTheSuspended`, `NoLostWakeup`, `OvertakesOnlySaturatedTenants`, `NoStarvation`, implements `AdmissionPool` | 186,395 |
| `router` | `Router` | `TypeOK`, `LoadAccounting`, `SingleProbe`, `CircuitMirrorsFailures`, `OnlyTheProbeDecides`, `CircuitRecovers` | 8,412 |
| `service` | `Service` | `HealthLockExact`, `AttemptsMatchStages`, `RefreshOnlyWhenStale`, `RoutesOnFreshHealth`, `NeverRetriesABackend`, `EveryRequestEnds`, implements `Router` | 39,111 |
| `budget` | `Budget` | `NeverOverBudget`, `JudgedByTheWindow`, `DequeBounded`, `BudgetComesBack` | 213,444 |
| `stream_relay` | `StreamRelay` | `FaithfulRelay`, `NoFalseDone`, `RecordedAsSeen`, `NoSwitchAfterOutput`, `UpstreamIsReleased` | 40,484 |
| `stream_failover` | `StreamRelay` | `ErrorsFollowContent` is violated, see below | |
| `stream_close` | `StreamRelay` | `LeftIsRecorded` is violated, see below | |
| `gateway` | `Gateway` | `WorkIsAdmitted`, `NothingLeftBehind`, `LeasesComeBack` | 13,640 |
| `http_adapter` | `HTTPBackend` | `PassesOnWholeEvents`, `EndsWhereUpstreamEnds`, `VectorsInInputOrder`, implements `AdapterStream` | 2,343,835 |
| `http_malformed` | `HTTPBackend` | `MalformedIsUnavailable` is violated, see below | |
| `demo_stream` | `DemoStream` | `BilledAsSent`, implements `AdapterStream` (`DemoAdapterSpec`) | 1,015 |
| `registry` | `Registry` | `AcceptedIsServable`, `PublicDemoIsClosed` | 259,584 |

The type invariants of `Service`, `StreamRelay`, `Registry` and `Budget` are
proved, not run.

Bounds, and why they are enough to be interesting:

- Admission: five requests of three tenants (two of them with two requests), two
  slots, one per tenant, a queue of two. A tenant can be saturated while a slot is free, the slots can be
  gone while a tenant has room, and the queue overflows. `MaxReleaseCalls = 2`
  is what a streaming handler does. Longer queues are left to the proofs. Requests are slots used again and again, so
  no behaviour ends for want of requests.
- Router and service: two backends, one of which is full with one attempt;
  threshold two, so that a failure may count or not; cooldown of one or two
  ticks; three or four requests, so that an old attempt, a probe and a would-be
  second probe coexist. In `Service` one request streams, one does not and one is
  a readiness probe that never routes.
- Budget: a window of three ticks has a reservation that is new, one in the
  middle and one about to expire; amounts include 0 (embeddings) and one above
  the whole budget.
- Streams: `MaxChunks = 3` holds content, a finish reason and a usage chunk in
  any order, or any of them twice; two backends make failover possible once.
- HTTP adapter: six lines hold two events in every cut, three that are one line
  each, or a chunk in two data lines followed by `[DONE]`. `MaxTexts = 3` makes
  lists of up to four vectors: every order, one lost, one too many.
- Demo adapter: the sentence has 12 words; `MaxTokens = 15` is one more than the
  sentence with the longest preview (`MaxPreview = 2`), so every cut occurs, and
  none.
- Settings: two backends, names and models, so that names and models coincide or
  differ; each backend with chat, embeddings or both.
- Gateway: two leases for three requests, a plain and a streamed shape.

No run uses symmetry. Deadlock is checked everywhere but in `StreamRelay`,
`HTTPBackend` and `DemoStream`, where one call comes to its end.

**Fairness.** Tasks that are scheduled run, because the event loop is fair.
Attempts and health requests end, because the HTTP client has timeouts; that a
stream ends rests on `max_tokens` and the upstream honouring it. Time goes on. A
handler that got a lease calls `release` (`CallRelease` in `Admission`; that the
handlers really do is `LeasesComeBack` in `Gateway`). In `StreamRelay` only the
tasks that close upstream and unwind `_stream` are fair, not the client and not
upstream. Nothing is assumed of
deadlines, disconnects, new requests, the outcome of attempts or health: so
`NoStarvation` does not lean on the queue timeout, nor `CircuitRecovers` on a
backend that recovers.

**Three divergences.** `README.md:19` says "Alternate backend attempts before streamed
content begins", and a comment at `backends/http.py:100` says that role-only
events are ignored "so the gateway can still fail over before output". The reader
passes on every event with usage as well (line 101), and `prepare_stream` stops
failing over at the first event passed on. So a first event with usage and no
content, followed by a failure, gives the client a role chunk and an error event
although another backend could have been tried. `stream_failover` shows it.

`test_malformed_upstream_completion_is_sanitized` (`tests/test_http_backend.py`)
and the comment on `BackendUnavailable` (`backends/base.py:12`) say that a
malformed reply is `BackendUnavailable`. `int()` of a JSON number that overflows
to infinity raises `OverflowError` (`backends/http.py:48`, `:129` for
embeddings), and so does `float()` of an integer that is too large for it
(`:128`), which the adapter does not catch: no failover, no failure counted
by the router. `http_malformed` shows it.

`test_disconnect_releases_backend_and_gateway_admission`
(`tests/test_reliability.py:167`) ends with the expectation that the backend's
load is 0 once the client is gone. If the client leaves at a chunk, `GeneratorExit`
unwinds `aclosing(upstream)` and the adapter closes its response, inside the `try`
whose `except` makes `BackendUnavailable` of an `httpx` error (`backends/http.py:107`).
`_stream` catches that (`service.py:188`) and yields the error event while it is
being closed. Python answers with `RuntimeError` ("async generator ignored
GeneratorExit") and does not resume the generator, not even when it is collected:
its `finally` never runs, the attempt is never recorded, and the load of the
backend stays. The lease comes back, since `cleanup` has a `finally` of its own.
Whether closing a response raises is up to `httpx` and the transport, which are
external; `stream_close` shows what follows if it does.

## What is proved

Each theorem is about the specification for all values of its constants, under
the named assumptions of its module (finitely many requests; limits positive as
`config.py` demands, a queue depth of 0 allowed). Every invariant and every
action property of the passing runs is stated by one, and so is every refinement.

- **`AdmissionProofs`**: every invariant of `admission`, the order of grants,
  and that `Admission` implements `AdmissionPool`. The accounting is not
  inductive by itself: nothing in it says when a release task may still be
  pending. `LeaseBookkeeping` adds that only a task that was handed a lease has
  called `release`, and that it has no more `_release` tasks pending than it made
  calls, so no `_release` runs for a lease that nobody holds. `NoLostWakeup` needs the accounting (a tenant's room changes only with its
  counter) and the exact queue (a ticket found first belongs to a suspended
  task). The proof has a lemma per kind of step: a grant adds one holder, a
  release removes one, an abandoned ticket leaves the order of the others.
- **`RouterProofs`**: every invariant of `router` and `OnlyTheProbeDecides`. The
  invariant says of each candidate that it agrees with the set of attempts on it
  and the set of probes among them; lemmas show that `Started`, `Finished`, a
  health update and a tick preserve this agreement, and one lemma per action
  applies them to the one or two candidates a step touches.
- **`ServiceProofs`**: every safety and action property of `service`, the types,
  and that `Service` implements `Router`. The invariant says that attempts match
  the stages of the requests, that the line for the lock is exact, and that a
  request without an attempt has no probe flag. Loads are integers in it and no
  more: that they are not negative follows once the refinement is known, since
  `RouterInvariantsHold` then takes over what `RouterProofs` proves of `Router`.
- **`GatewayProofs`**: `WorkIsAdmitted` and `NothingLeftBehind`. The invariant ties
  leases and attempts to the stage of the handler; one lemma (`MoveStep`) covers
  all steps of a request, and the steps only show which move they are.
  `LineMatchesStages` adds that the line of `AdmissionPool` is exactly the
  handlers that wait. `ImplementsParts` says that the composition is one: its
  behaviours are behaviours of `AdmissionPool` and of `Router`. So what is proved
  of `Router` holds of `Gateway`, and together with `WorkIsAdmitted` and
  `TenantsHaveRoom` it gives `LoadIsAdmitted`, which neither part has alone: no
  backend's `active` exceeds the leases of the whole gateway, whatever its own
  capacity, and no tenant has more attempts in flight than its limit.
- **`StreamRelayProofs`**: `NoFalseDone`, `RecordedAsSeen`, `NoSwitchAfterOutput`,
  `FaithfulRelay` and the types, for any number of backends and chunks. None is
  inductive: what is recorded depends on where the generators stand (`Standing`)
  and on what the response ended with (`EndsAsSent`); a `[DONE]` is right only
  because a finish reason never stays behind (`FinishIsOut`) and the adapter
  returns only after one, which is the promise of `AdapterStream`.
  `FaithfulRelay` needs all of that and `AllPassedOn`, that the adapter yields
  only chunks worth passing on: of those, the condition of `_stream` drops
  exactly what is not due. Its lemmas say what one more chunk adds to the events
  that are due (`DueEventsAppend`, `ExpectedGrows`).
- **`AdapterProofs`**, the HTTP adapter: it keeps the promise of `AdapterStream`
  (the invariant says that `finished` is borne out by a chunk that was passed
  on), and it reads streams of any length right. That is the invariant
  `Reading`: `data` is what stands behind the last blank line (`OpenData`),
  `passed` is `ChunksIn` of the events before it, and a stream that is still
  open had no event but chunks. The lemmas say what one more line does to each
  stage of the decoding: `BlanksAppend`, `OpenDataAppend`, `DispatchedAppend`,
  `EventsAppend`, `DecodedAppend`, `ChunksAppend`. `VectorsInInputOrder` rests on
  `OrderedIsIdentity`: a permutation of 1..n that puts distinct indices from 1..n
  in order yields exactly 1, 2, ..., n.
- **`AdapterProofs`**, the demo adapter: `BilledAsSent` and that it implements
  `AdapterStream`, for a sentence, a preview and a `max_tokens` of any length. By
  `DemoInv`, what was yielded is settled by the request and the number of chunks.
- **`RequestChecksProofs`**, `Budget`: all three invariants, for any window,
  limits, amounts and tenants. `NeverOverBudget` is inductive only with
  `JudgedByTheWindow`, since `Reserve` looks at what the loop of `popleft` leaves
  and not at the window; that these are the same needs the deque in order of age
  (`DequeBounded`): then what is too old is a prefix (`Split`), and the loop,
  which never looks behind the first young reservation, leaves what a filter
  would (`RecentAll`, `RecentOlder`). The sums are a recursive function; lemmas
  say how they change when a log grows, ages or loses its oldest part
  (`TokensAppend`, `TokensOlder`, `TokensSuffix`).
- **`RequestChecksProofs`**, `Registry`: `AcceptedIsServable` and
  `PublicDemoIsClosed`, for any list of backends. Since names are unique, the
  last entry of a name is the only one, and what `Supported` finds in the list
  the router has as a candidate.
- **`SequenceFacts`**: what the others share. `RemoveAt` keeps the order of a
  queue (used for the queue of `Admission`, the line of `Gateway` and that of the
  health lock), and `Kept` of a sequence that grows by one element is known from
  the `Kept` before.

Induction over data. The library's induction theorems take an operator as a
parameter, which the provers cannot instantiate. `SequenceFacts` states induction
for a set instead (`Induction`: a set that holds 0 and the successor of each of
its members holds every natural number), from `Least`, which follows from `<`
being well-founded on the naturals. `RecursionExists` then gives the function a
step function makes, `KeptDefined` and `TokensDefined` the equations of the two
recursive functions of the models, and with them sums and filters of any length
are within reach.

Together: both adapters keep `AdapterStream`, over which the relay is proved; the
service keeps `Router`, over which load, probes and circuits are proved;
admission keeps `AdmissionPool`, and `Gateway` composes that with `Router`.

Only model-checked: the liveness properties, which are outside the prover's reach
(fairness and `ENABLED`): `NoStarvation`, `CircuitRecovers`, `EveryRequestEnds`,
`BudgetComesBack`, `UpstreamIsReleased`, `LeasesComeBack`. The three divergences are
shown by counterexamples, which need no proof.

## What is not modelled

- The score of the router, latencies and error rates: they choose among eligible
  candidates and nothing else depends on them.
- Bodies and headers of requests and responses, and the validation of their
  fields: no state that decisions read. That a response cannot be built (a
  `system_fingerprint` that is no string, `service.py:102`) after the attempt
  was taken for a success is a hazard no property covers.
- The key of the metrics endpoint, and the parsing of the authorization header.
- The budget is not a part of `Gateway`: a reservation is made before the lease
  and never given back, so no later step depends on it.
- `health` of an adapter is a boolean in `Service`: it answers yes or no, and
  turns the exceptions it catches into no. Any other leaves `refresh_health` as a
  cancellation does (`CancelledEarly`).
- Metrics, the entry point and the gRPC contract: nothing reads the first, and
  the others do nothing in this repository but start or describe.
- `aclose` at shutdown. Nothing is persisted, so a restart is an initial state.
- Starlette, uvicorn and httpx are external. Assumed: a disconnect cancels the
  handler or closes the generator of the response; of a response that was begun
  the generator is closed or the background task is run (else its lease would
  be held until the generator is collected); client timeouts end calls. Outside
  `CloseMayFailSpec`, closing a response does not fail: `Service` and `Gateway` have
  every attempt recorded, as `Spec` of `StreamRelay` does.
- Real time is counted in ticks; floating-point rounding of `time.monotonic()`
  is left out.

## Plan

Done, in this order: `AdmissionPool` and `Admission` with proofs; `Candidates`
and `Router` with proofs; `Service` over `Router` with proofs; `Budget` with
proofs; `AdapterStream` with `StreamRelay` and its proofs; `HTTPBackend` and
`DemoStream` as implementations of it, with proofs; `Registry` with proofs;
`Gateway` over `AdmissionPool` and `Router` with proofs.

Left:

1. In `Gateway`, the two runs of `cleanup` as steps of their own, and the budget
   in front of `acquire`; the theorems of `GatewayProofs` again for them.
2. `StreamRelay` as an implementation of the stream of `Service` (`FirstChunk`,
   `StreamEnds`, `StreamRecorded`), so that what the router is told is one
   statement from the chunk to the circuit.
3. The safety halves of the liveness properties, as theorems: from every state of
   the inductive invariant the next step towards the goal is enabled, stated with
   the guards instead of `ENABLED`.

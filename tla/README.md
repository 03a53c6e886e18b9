# PhoneBoost in TLA+

PhoneBoost lets a Linux host borrow memory and computing time of an Android
phone. The host (the *controller*, initiator of the connection) and the phone
(the *worker*, responder) share an authenticated session; under it the host takes
a lease, reserves memory, fills remote buffers and has BLAKE3 computed over them.
This directory models both sides in TLA+, checks them with TLC on small
instances, and proves the main invariants with TLAPS for every value of the
constants.

`PROJECT.json` lists the components, the runs with their properties, a mutant for
every property (a plausible bug of the code that the property catches), the
source lines behind every definition, the hazards and the theorems.

## 1. The system

| part | code | state | operations |
| --- | --- | --- | --- |
| C04 discovery, transport | `pb-host/{discovery,transport}.rs`, `LocalIpTransport.kt` | announced services, candidates, sockets | poll, resolve, connect, accept |
| C05 pairing, state files | `pb-secure`, `pb-runtime-secure/{runtime,storage}.rs` | identity, trusted peer, pairing attempt, guard against wrong codes | handshake, confirm, refuse, commit a peer, reconnect |
| C05/C06 session channel | `pb-runtime-secure/{initiator,runtime}.rs` | request numbers, queue, outstanding request | send, receive, cancel, time out |
| C06 PBMUX | `pb-pbmux` | partial messages, quotas | encode, decode, cut, reassemble |
| C07 controller lease | `pb-worker-core/lease.rs` | lease in force, deadline, sequence number, cache of answers, lease released last | ACQUIRE, RENEW, RELEASE, expiry |
| C08 resource guard | `pb-worker-core/{resource_guard,lib}.rs` | reservations, allocated bytes, RESERVE decisions, answered requests, health bands | RESERVE, COMMIT, RELEASE, consume, give back, record health, tick |
| C09 remote buffers | `pb-worker-core/remote_buffer.rs` | buffers with bytes, spans, owner, deadlines, tombstones | ALLOC, PUT, GET, STAT, TOUCH, FREE, expiry |
| C10 compute jobs | `pb-worker-core/{compute,lib}.rs` | jobs, SUBMIT and CANCEL tables | SUBMIT, STATUS, CANCEL |
| worker host | `android/core-jni`, `PhoneBoostService.kt` | one `WorkerCore` behind one mutex, the service and its threads | handlers, health sampler, start, stop |
| C11 planner, C13 profiles | `pb-host/{planner,profile_store}.rs` | files of measurements | decide, store, load |
| C12 auto-use | `pb-host/{auto_use,auto_use_control}.rs` | connection epoch, status, ledger of cleanup obligations, stored preference | enable, disable, execute, fall back, reconcile |
| C12 import, local API | `pb-host/{import_store,local_api,admission}.rs` | imported objects, local connections | create, receive, cancel, consume, serve |
| host start | `pb-host/startup.rs`, `phoneboostd` | the control socket | inspect, recover, bind, listen |
| clients | `pb-cli`, `pb-web-bridge` | handlers, lanes, deadlines | import, compute, set, present |

What makes these parts hard:

* **One mutex on the worker.** `with_worker` (core-jni) runs every handler with the
  worker's mutex held, so a handler is one atomic step. BLAKE3 runs *inside* the
  SUBMIT handler: meanwhile time passes and the transport may be lost, but no
  other handler, and no end of the session, is seen by a running job.
* **Lazy expiry.** No timer ends a lease, a reservation or a buffer. Every handler
  begins by expiring what the clock says has ended, and the Android service's
  health sampler calls in every two seconds for the case that nobody else does.
* **Ownership in a chain.** A session has a lease, a lease has reservations, a
  committed reservation is *consumed* by one buffer or one job, which gives its
  bytes back when it ends. Each link may end on its own, in any order.
* **Retries.** Answers are lost with the transport, so every request may be
  repeated, now or after its answer was forgotten. Four tables on the worker (C07
  commands, C08 requests, C08 decisions, C10 submissions) recognise repetitions,
  each with its own key, capacity and retention.
* **Many threads on the host.** The manager of auto-use, executions, sessions, local
  clients and the user share state under several locks, and read it under one
  lock to use it under the next.
* **Files.** Identity, trusted peers, guard, preference and profiles are replaced by
  write, sync, rename, sync; a process may die and a machine may stop between any two.

## 2. Modules

| module | models |
| --- | --- |
| `EagerLease` | what a controller lease promises: it ends on its deadline and executes each command once |
| `ControllerLease` | `lease.rs`: lazy expiry, sequence numbers, cache of answers |
| `Reservations` | the reservation table of `resource_guard.rs` and its ageing, as operators |
| `ResourceGuard` | C08 requests over it, with both idempotence tables |
| `HealthBands` | classification of health samples and the budget |
| `ByteStore`, `BufferRanges` | what a buffer promises of its bytes; PUT, GET and `merge_range` |
| `ComputeJobs` | C10: jobs, SUBMIT and CANCEL tables, sessions and leases ending |
| `WorkerCore` | the composition: `EXTENDS ControllerLease, Reservations`, adds buffers, jobs, the mutex, sessions and the transport |
| `SessionChannel` | client threads, queue, driver and both halves of the authenticated loop, over two byte streams |
| `Fragments` | cutting and reassembly of long messages, with quotas |
| `WireMessages` | the fixed payloads: layouts and the conditions of encoders and decoders |
| `Pairing` | both endpoints: handshakes, code, confirmation, commit, PING/PONG, reconnection |
| `PairingGuard`, `PairingCooldown` | the guard against wrong codes as operators; its life in memory and on disk |
| `AtomicFile` | a directory and the four calls that replace a file, with what a crash leaves |
| `StateStore` | identity, guard and peer files over `AtomicFile` |
| `AutoUsePreference` | the durable ON/OFF preference over `AtomicFile` |
| `AutoUse` | the auto-use controller: user, manager, execution and session threads, with epochs, gates and locks |
| `CleanupLedger` | what the host owes to the phone: every reservation from its RESERVE until it is proved gone |
| `Planner`, `CapacityPlacement`, `ProfileStore` | the decision; the decision as an execution asks for it; the files of measurements |
| `ImportStore` | imports with their receivers, limits, expiry, cancellation and consumption |
| `HostStartup` | the control socket, system call by system call |
| `LocalFraming`, `LocalRequests` | local connections, lines and descriptors; validation and handling of one request |
| `WebBridge` | handlers, lanes and deadlines of the bridge with the clients of the local interface |
| `PhoneService` | the foreground service, its transport threads, the native registry and the slot of the worker |
| `Discovery` | the Avahi backend, its cache of candidates and the loop that asks for one |
| `MC...` | constants, symmetry, and components side by side for TLC |
| `...Proofs` | theorems and lemmas (section 4) |

### How they correspond to the code

*Time* is an integer advanced by a tick; every deadline comparison has the
direction it has in the code (`now >= expires` for a lease, `now - at > Retention`
for what is forgotten). `HealthBands` and `Discovery` keep ages instead of instants,
capped, so that their state spaces are finite without a horizon. *Identifiers* are
128 random bits in the code and never zero: here a fresh one is the next number, or
an unused member of a set, and 0 or a model value stands for none. *Absent records*
of a map are records in state `Unused` (never there) or `Dropped` (removed).
*History variables* (what was handled, acknowledged, confirmed, missed) are there
for the properties.

**ControllerLease.** `active`, `released` and `granted` are the fields of
`ControllerLeaseManager`. `Current` is `expire_if_needed`, `Admission` is
`begin_mutation_internal`, and each command is an action with one disjunct per
early return. `reply` is the answer of the last step. The `pending` set is filled
and emptied within one call and has no variable.

**Reservations, ResourceGuard.** `guard` is the pair of the reservation map and
`allocated_bytes`. `Execute` is the whole of `apply_resource_request` after the
outer cache missed: ageing, the decision, its idempotence entry, the answer and
whether it is cached (the `INTERNAL_ERROR` answer returns before the insertion).
The lease and the consumers are the environment.

**HealthBands.** `RecordHealth` is `record_health`; `SafetyRefused` and `Budget` are
what RESERVE and COMMIT read from `health_status`. Thresholds are the code's.

**BufferRanges.** `MergeRange` sorts and folds as `merge_range` does; `Put` compares
the result with the single span of the whole buffer.

**ComputeJobs.** `SubmitBegin` is `stage` and `publish_running`, `SubmitEnd` is
`terminalize`; between them `running` holds the mutex.

**WorkerCore.** `Handler` requires the mutex; `Authorized` and `Unauthorized` run
`reconcile_expired_controller_lease` first, as every C08 to C10 handler does. A
request that names a live buffer of another session ends it (`Foreign`, `Stale`),
although `NoneOutlives` shows that no such buffer is ever found. `Revoke` is the loss
of the transport, possible while a handler runs; `SessionEnded` is the call of
`authenticated_session_ended` that follows.

**SessionChannel.** One module for `InitiatorSessionClient` (`Enqueue`, `TakeAnswer`,
`CancelClear` by any number of threads), the `sync_channel`, the driver with the
initiator's half of the authenticated loop, and the responder's half. A step is what
happens under one lock or between two blocking calls. A deadline may fire whenever
the code would look at the clock. `Drain` and `DropDriver` are what happens when the
loop has returned, in the code's order.

**Fragments, WireMessages.** A byte of a long message is the pair of the message and a
position, so that what is put together in the wrong place shows. A payload is the
sequence of its fields; encoders and decoders are the field order, the lengths and
the conditions the code puts on the values.

**Pairing, PairingCooldown, StateStore.** In `Pairing` the session thread of an end and
its user's calls share `RuntimeInner`; the network may cut a connection with any
suffix of what is in flight lost. Noise and SAS are abstracted to agreement of both
ends of one connection. `PairingCooldown` has the guard in memory and on disk, streams
that pair or serve a known peer, and a wall clock that may be set back; every
authentication clears the guard, as `mark_authenticated` does. What is owed is told
beside it, without the guard: `debt` by what the process did, `diskDebt` by what was
written. `StateStore` has the files, one system call a step.

**AutoUse, CleanupLedger.** In `AutoUse` one step is one region under the data lock, or
one call on the session client. A session identity is its serial. `CleanupLedger` has
the requests that `AutoUse` only counts: what an execution and the manager do to
reservations, buffers and jobs on the phone, and to the ledger, when answers are lost.

**ImportStore, LocalFraming, LocalRequests, WebBridge, HostStartup.** The table of
imports is under one mutex, its receivers are threads of their own. A local
connection is a sequence of segments with descriptors, read in chunks. The bridge's
clients never repeat a request. In `HostStartup` an object has an inode number, which
the code compares, and an identity, which it cannot see.

**PhoneService, Discovery.** The transport of the phone is one accept thread and two
stream threads, stopped under a monitor by the main thread or by a late callback.
`Discovery` applies one signal and resolves one service at a poll.

## 3. What is checked

Most modules are checked *side by side*: an MC module puts components next to one
another, a variable `part` chooses in the initial state which of them moves, and the
others stay as they started. A behaviour is then a behaviour of one component; a
property says of which. Sizes are distinct states; a run takes about a minute. Components that really interact are composed in a module of
their own (`WorkerCore`, `CleanupLedger`, `SessionChannel`, `PhoneService`).

| run | states | properties | what it shows |
| --- | --- | --- | --- |
| `worker_parts` | 20,838 | `BandsHeld`, `ImplementsEagerLease`, `BandsSettle`, `ImplementsByteStore`, `HoldingsEnd` | The lazily expired lease behaves as one with an exact timer, under commands in order, repeated, late and of two peers. Health bands get worse at once and better only in time, and settle when the samples do. PUTs in any order and overlap make a plain byte store. What a silent host holds ends by the sampler's tick alone. |
| `worker_requests` | 125,370 | `OneReservationPerRequest`, `AnswersStand`, `RunsOnce`, `AnswersTrue` | Retries before and after answers were forgotten, over two leases: no request holds memory twice, what was acknowledged stands; no SUBMIT runs twice, and what is answered from the tables is true and crosses to no other session. |
| `worker_core` | 153,919 | `ConsumedIffOwned`, `BacksOnce`, `NoneOutlives`, `BudgetExact`, `EndedForGood` | Two buffers and a job while leases expire, sessions end and the transport is lost during BLAKE3: reservations and owners match one to one, nothing outlives its session or lease, the budget is the sum of what is held, what ended stays ended. |
| `session` | 959,261 | `KnownMeansUnsent`, `OkMeansHandledOnce`, `InStep`, `EndsClean`, `Reassembles`, `OneMeaning` | Two client threads, a canceller, the driver and the phone, cut off at any point. A request that fails with a definite error was never handled, one that succeeds was handled once; both ends agree on sequence numbers and on who moves next; the end of a session leaves nobody behind. Fragments are put together exactly, within quotas. Every payload has one encoding and one meaning. |
| `pairing` | 1,005,843 | `CooldownServed`, `TrustAgreed`, `TrustStands`, `StateKept` | Two users confirm, refuse and cancel over connections that are cut, with crashes and failed writes: trust rests on the one code both confirmed, and whoever is authenticated has a peer that trusts it. A cooldown is served in full, unless a session is authenticated in between, though the clock is set back, the process starts again, a write fails or another stream is at work. Files are whole after any crash. |
| `auto_use` | 711,996 | `PreferenceKept`, `PublishedIsTrue`, `RequestsAreCurrent`, `NothingForgotten`, `RemoteExactly`, `WorseNeverRemote`, `RemoteIsEarned` | The stored preference survives crashes and decides; what the controller publishes is true; no request leaves under a superseded epoch; whatever the phone still holds is in the ledger; work goes to the phone exactly when it may, never because something got worse, and for speed only on a measurement in force. |
| `local` | 955,422 | `ImportsAccounted`, `StartsSafely`, `RequestsExact`, `BridgeIsTrue`, `StopIsComplete`, `HintsAreTrue` | Imports are counted until their file is gone and consumed once; daemons started one after another find a socket and keep it; requests are read as the lines that were sent, with the descriptors sent for them by a client that waits for its answers, and with descriptors in order by one that does not; the bridge tells the truth; a stopped transport is quiet; candidates are fresh and handed out in turn. |
| `live` | 54,102 | `ManagerSettles`, `LedgerDrains`, `EveryoneReturns` | After a disable the manager comes to rest, left on it recovers; the ledger drains; requests, waiters, connections and the destruction of the phone's service return. |
| `decision_retention`, `pairing_stall`, `auto_use_refusal`, `startup_active` | violation | one each | See "Findings". |

### Bounds

Durations keep their order rather than their size (in the code: lease 60 s,
reservation 30 s, health stale after 6 s, buffer 300 s and at most 1,800 s,
retentions 300 s, provider 30 s). Every bound is a named constant.

* On the worker, `Horizon` exceeds the longest chain that matters: a lease granted,
  expired and granted again with its objects still retained. `LastGrant` and the
  guard `now + ReservationTtl <= Horizon` make sure that whatever is granted can run
  out before time stops, so that liveness is no artefact. Capacities are 1 or 2, so
  that eviction and fullness happen; `SeqLimit` stands for `u64::MAX` and is reached.
  Two reservations, buffers, leases, sessions and peers: takeovers and a second owner
  of everything.
* Health samples vary one input at a time, over both sides of each threshold.
* The session run has two client threads, two requests, well formed or not, one
  PING, one heartbeat and a queue of one: a full queue, a cancellation at every
  point, a stale answer. More requests repeat these, since one is outstanding at a time.
* Pairing has two connections and one fault in either end, the files two faults. The
  cooldown has a limit of 2 mismatches, two streams, four admitted attempts (a second
  cooldown after the first) and a clock set back once, by any amount.
* Auto-use has three epochs, so that a thread of the first may find the preference off
  (the second) or on again (the third), and two faults; `MaxTurns` bounds epochs and
  faults together, so the third epoch comes with one fault. The ledger has capacity 2
  with five requests and two faults, and capacity 3 with six requests and one fault: a
  passed probe needs the third place, and resolves what was superseded. Placements and
  profiles have evidence on both sides of each threshold.
* Locally: two connections, imports of zero to three chunks, a limit that is reached in
  each dimension; two daemons, two deaths and a foreign object; lines of the maximum
  length and one more, cut anywhere and joined with the next; three calls over two lanes;
  two services with a table of one. The phone's service has two connections and two
  stream threads when every join ends in time, one of each when a join may time out.
* Symmetry is used for sets of model values in runs without liveness properties.
  `worker_core` identifies states that differ only in `reply` (`VIEW MCView`): no step
  of the worker reads it and no property of the run mentions it.

Deadlock is checked in `worker_parts` and `worker_core`, where time always goes on.
The other runs have parts that may stop: a session that is over, a daemon that has
ended, requests and faults that are used up.

### Fairness

Only what goes on by itself is fair, and only weakly.

* Worker: time, and the health sampler, a timer of the Android service that reposts
  itself every `HEALTH_INTERVAL_MS` (`PhoneBoostService.kt:72`) and needs nothing but
  the mutex. No peer, no request and no end of a session is assumed. For the health
  bands, sampling is fair; which sample is not.
* Auto-use: the manager thread, the execution that holds the operation lock, the
  cancellation in `Drop` and the session threads. Each of their waits has a timeout.
  The user is never fair. In the ledger: the manager, an execution, and each request
  under way, which ends with an answer or with its session.
* Session: the driver, the phone's handler (its work is bounded), the thread in
  `wait_authenticated`, a cancellation once begun, and a client that has the admission
  lock or an answer waiting. The network owes nothing: a deadline fires instead.
* Bridge: its handlers, its deadlines, and the client's own steps. The daemon is not fair.
* Phone: `onDestroy`, `stopInternal`, the accept thread, the offer of a connection and
  the stream threads. The network is not fair.

## 4. What is proved

Twenty-nine theorems in eight modules, for every value of the constants that
satisfies the named assumptions of each module: any number of peers, threads,
reservations, buffers, jobs and requests, any capacity and any duration. Seventeen of
them state a property that a run checks; the run shows on a small instance what the
theorem says of all.

| module | theorems (run property) |
| --- | --- |
| `WorkerPartProofs` | `LeaseTypeCorrect`, `EachNumberOnce`, `RepeatedReleaseAnswered`, `DeadlineMovesWithSequence`, `LazyLeaseIsEager` (`ImplementsEagerLease`); `HealthBandsHold` (`BandsHeld`) |
| `WorkerTableProofs`, `WorkerStepProofs`, `WorkerCoreProofs` | `WorkerTypeCorrect`, `ConsumedHasOneOwner` (`ConsumedIffOwned`), `ReservationBacksOnce` (`BacksOnce`), `BuffersEndWithOwner` (`NoneOutlives`), `EndedStaysEnded` (`EndedForGood`) |
| `GuardAndStoreProofs` | `RetriesHoldOnce` (`OneReservationPerRequest`), `AnswersAlwaysStand` (`AnswersStand`); `StoredStateKept` (`StateKept`) |
| `SessionChannelProofs`, `SessionStepProofs` | `KnownAlwaysUnsent` (`KnownMeansUnsent`), `OkAlwaysHandledOnce` (`OkMeansHandledOnce`), `EndsAlwaysClean` (`EndsClean`), `AlwaysInStep` (`InStep`) |
| `FileAndJobProofs` | `MismatchesAlwaysAddUp`, `CooldownAlwaysEnds`, `CooldownAlwaysServed` (`CooldownServed`); `ViewAlwaysApplied`, `OffAlwaysFirst`, `AcknowledgedAlwaysSurvives`, `FileNeverTorn`, `UnreadableNeverRepaired`, `PreferenceAlwaysKept` (`PreferenceKept`); `JobsRunOnce` (`RunsOnce`), `JobAnswersTrue` (`AnswersTrue`) |

**The lease.** The inductive invariant `LeaseInv` is `LeaseTypeOK /\ CacheContiguous /\
ReleaseAnswerKept`. The three need one another: that a cached number is below `next`
follows from the shape of the cache, and the shape is kept because `Admission` lets
through only `next`, which is cached by no entry (`AdmitsOnlyNext`,
`CompleteActiveCloses`). `LazyLeaseIsEager` is the refinement of `EagerLease` under
the mapping that replaces the lease by the one a handler would see. The interesting
step is `Tick`: the abstract lease ends on the tick that reaches the deadline, while
the concrete variable does not change, and the step that later clears it is a stutter.

**The worker.** `WorkerInv` (in `WorkerStepProofs`) has five parts: `LeaseInv`, for
which the worker's steps are shown to be steps of the lease (`WorkerLeaseStep`);
`Consistent(res, buffers, jobs)`, that is types, `Held` (a consumed reservation has an
owner, and owners match it in class and size), `Once` (no reservation appears in two
records) and `Spent` (a reservation in any record, forgotten ones too, is consumed,
given back or forgotten); `Scheduled`, the running job is the one that holds the
mutex; `SessionOK`; and `NoneOutlives`. `ConsumedIffOwned` alone is not inductive:
giving back the reservation of one owner would take it from another that shared it
(hence `Once`), and a new owner could take a reservation that an old record still
names (hence `Spent`). Every action is a composition of three kinds of step on the
tables, proved once in `WorkerTableProofs`: the guard ages, a buffer or a job takes a
reservation, owners end and give back. `EndedStaysEnded` is an action property: a
transitive relation `Ages` orders the states of a reservation by how far its life has
gone, `Buried` says the same of buffers and jobs, and each step of a handler is shown
to move along them.

**Health bands.** `HealthInv` keeps, for each band, the age of the last sample that
speaks against it. `BandsHeld` alone is not inductive: while a recovery is under way it
also has to be known that no such sample is younger than the recovery, and that a
battery on its way from the throttled band left the refused one a recovery before.

**Requests of the resource guard.** `IInv` of `GuardAndStoreProofs` is about clocks,
types, and three facts. `Single`: a request of a lease has at most one open decision.
`Backed`: as long as a reservation of the lease in force holds memory, the decision
about its request is remembered and open, so that a repetition finds it; this is what
makes `OneReservationPerRequest` inductive, although the answers themselves are
forgotten after the retention. `Stands`: what an answer of the cache said is the state
of the reservation or one it can only have come to later, by a relation that every
ageing, commit and release moves along.

**The request channel.** `IInv` of `SessionChannelProofs` says where a request is:
numbered but not queued, in the queue, on the wire, at the phone, or answered; a
request that is not yet past the queue was not handled (`Known`, `Later`), one at the
phone was handled at most once and its answer was earned (`AtPhone`, `Responses`,
`Earned`). From it follow the meanings of success and of a definite failure. On top of
it, `EndInv` of `SessionStepProofs` follows the end of a session: cancellation is
final, what is queued is owned by a client that waits, and once the driver is dropped
no request is without an answer. `Lockstep` says that the sequence numbers of both
directions agree over what is still in the stream, and that an exchange is in exactly
one of three places (on its way, at the phone, on its way back); the run had checked
it over 6.4 million states before it was proved.

**Jobs.** `JobsInv` says that a job in the map has a spent reservation that no other job
has, that the running job holds the mutex under the lease and session in force
(`JobsOK`), and that its SUBMIT entry is what the job is, as long as it can be looked up
(`SubmitsOK`). A repeated SUBMIT then finds the entry, and nothing is computed again.
That no table outgrows its capacity needs `IsFiniteSet(ReqNos)` and no more.

**Files.** `CooldownInv` says that the guard in memory fits what is owed by what the
process did, and the file what is owed by what was written (`Fits`): the count has every
mismatch up to the saturation of the `u8`, a cooldown runs exactly when the limit is
reached, and it ends no earlier than the debt. Nothing weaker is inductive: a start reads
the file, so the file must fit on its own. `StateInv` follows a save call by call: both
copies of the directory hold whole files, a write that is done is in both, no identity
but the stored one was ever used. `IInv` of the preference is `Shapes /\ DiskOK /\ WriterOK /\ ControllerOK /\ AckedOK`: both
copies of the directory are whole and among the last acknowledged and the one being
written, call by call of the replacement, so that a stopped machine finds one of them.

The theorems about `Spec` are about the module alone, the run properties of the same
name about the module beside others; a bundle changes nothing in the part that moves.

**Only model-checked.**

* Liveness, since TLAPS does not reason about fairness here: `BandsSettle`,
  `HoldingsEnd`, `ManagerSettles`, `LedgerDrains`, `EveryoneReturns`.
* What a fold or a sum computes, which needs induction over data: `BudgetExact`,
  `ImplementsByteStore` (`MergeRange`), `Reassembles`, and the sums of
  `ImportsAccounted`.
* `OneMeaning` is a finite comparison of fixed layouts: TLC's run is the whole argument
  for the values it enumerates.
* Invariants that are within reach and not proved yet: `TrustAgreed`, `TrustStands`,
  `PublishedIsTrue`, `RequestsAreCurrent`, `NothingForgotten`, `RemoteExactly`, `WorseNeverRemote`,
  `RemoteIsEarned`, and those of `local`.

## 5. Findings

**C08 decisions outlive their retention** (`decision_retention`,
`resource_guard.rs:653`). When a buffer or a job ends, `release_consumed` ends its
reservation but does not mark the RESERVE decision terminal, as every other path does.
The decision then stays until the lease ends, while the reservation is forgotten after
the retention. The wire addendum
(`docs/protocol/PHONEBOOST_C08_C09_WIRE_ADDENDUM_V0_1_LOCKED_001.md:77`) says
five-minute terminal retention or lease end, whichever occurs first. A lease renewed for
long enough fills the table of 1,024 entries with decisions about reservations that no
longer exist. `OneReservationPerRequest` is not affected.

**Two ends that confirmed can wait for one another** (`pairing_stall`,
`runtime.rs:1161`). The responder sends its PAIR_CONFIRM at the top of a turn and reads a
frame in the same turn, before it commits. The initiator may commit and send its only
PING in between; a PING that comes before the commit is dropped. Both have then stored
their trust and wait until the pairing times out; the next connection authenticates.

**AVAILABLE over a refusal** (`auto_use_refusal`, `auto_use.rs:1512`). The renewal
branch reads the status and publishes AVAILABLE under two locks. An execution that the
worker refuses in between marks the node DEGRADED, and the publication puts AVAILABLE
back without a probe, which a test at `auto_use.rs:4253` names as what must not happen.

**A daemon's socket removed by another start** (`startup_active`, `startup.rs:349`). A
socket that is bound but not yet listening refuses connections and counts as stale, and
the second look and the unlink are two calls. Of two daemons started at the same time one
may remove the socket of the other, which is READY by then, and both run. Starts one
after the other are safe (`StartsSafely`).

Three more disagreements between text and code are not runs of their own:
at its start the daemon reports SAVED for any file it can read (`auto_use_control.rs:243`),
also for one whose writer died before the last sync, while
`PHONEBOOST_DESKTOP_AUTO_USE_CONTROL_PROPOSAL_V0_1.md:56` says of SAVED that it is durable;
`import_store.rs:772` reports an expired import as cancelled
(`PHONEBOOST_C12_IMPORT_RESOURCE_DECISION_V0_1.md:124`), and `ImportsAccounted` takes
either for the end of the import; and `next_line_bytes` adds the descriptors of a receive
to the line it is reading (`framing.rs:319`), so that those of a request sent ahead can
reach the one before it, or refuse it when the two have more than two together. The
comment at `framing.rs:31` speaks of the descriptors delivered with the bytes of a line.
`RequestsExact` says that each request has its own descriptors only for clients that wait
for their answers, as those of the repository do; for the others it says what does hold:
whole lines, descriptors in order, each once, and none later than its request.

## 6. Not modelled, and boundaries

Not modelled: cryptography, the HTTP parser, the text of messages, Avahi and the
kernel beyond what the code sees of them, the states `TransportManager` shows, the order
in which the daemon starts its other parts, the diagnostic commands, the user interfaces
and the demonstration backend. `WorkerCore` and `PhoneService` are not composed: a worker
that is destroyed and created again is two workers to one, and a slot to the other.
`import_descriptor`, the Speed and Balanced modes and the profile store have no caller
outside the tests; the last two are modelled, the first is not. The timers of a session
are nondeterministic: a deadline may fire at any look at the clock. In `Discovery`
the pause between two polls is the retry delay: a connection that lasts longer only ages
the table further, and the wait without a committed peer asks for nothing.

What the models show to be so, and no document says otherwise:

* *Ledger.* A ledger full of superseded RESERVEs that were never answered cannot prove a
  purge (`auto_use.rs:1816`), and with one entry less the probe is refused for as long as
  they stay (`auto_use.rs:1788`). An execution that outlives its session, and a probe
  whose reservation is gone, leave their entry until the next reconnect; `LedgerDrains`
  says so.
* *Worker.* Samples that alternate between two cooler bands restart the recovery each
  time and keep the worse band (`resource_guard.rs:731`). A transport lost after the last
  look at it leaves a job of that session completed, which no later session can look up
  (`compute.rs:528`). A repeated RESERVE about a forgotten reservation is answered with
  INTERNAL_ERROR (`lib.rs:378`). The table of CANCEL has no limit of its own
  (`compute.rs:387`).
* *Pairing and files.* `MAX_PEERS` is checked when the files are loaded, not when a peer is
  committed (`storage.rs:232`): one peer more than the limit is stored and every later
  start refused. `StateKept` shows that nothing else refuses one. The loop after the commit has no timeout of its own
  (`runtime.rs:1268`). A failed write of the preference leaves its effect open until the
  next start.
* *Local services.* A response is sent without a timeout (`framing.rs:251`), and one longer
  than a line is refused by its own sender (`local_api.rs:841`). READY imports expire on
  the next request only. A lane whose holder panicked stays refused (`pb-web-bridge`
  `lib.rs:429`). `Drop` of the ready runtime never runs in the daemon.
* *Discovery.* From the fifth retry on the pauses are so long that every service is due
  at each poll, and only the first in the map's order is resolved (`discovery.rs:179`); a
  full table turns services away until the browser starts anew
  (`discovery.rs:208`); a silent restart of Avahi is not noticed (`discovery.rs:145`).
* *Phone.* A transport whose threads do not end in time is shown as LOST; one whose
  registration fails late stays, stopped, with the service (`PhoneBoostService.kt:102`).
  Only a debuggable build may keep a stream thread in a blocking read.

Next: the invariants listed as within reach above, `TrustAgreed` and `NothingForgotten`
first; then the composition of `CleanupLedger` with `WorkerCore` in place of the reduced
phone.

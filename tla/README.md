# Formal specification of Society

Society (`src/`) runs paid language-model actors inside a ledgered institution.
Everything that matters is a command accepted or rejected by the kernel
(`crates/society-kernel`), stored in PostgreSQL and replayable; a daemon
(`crates/societyd`) supervises native processes and turns what they do into
ledger commands; a peer protocol (`crates/society-pi`) talks to a TypeScript
host (`packages/society-pi-host`) that drives the provider's SDK; an
application (`applications/correction-latency`) runs experiments on top.

This directory holds TLA+ models of that system, the TLC runs that check them
on small instances, and TLAPS proofs that hold for every instance.
`PROJECT.json` lists runs, mutants, theorems, hazards and, for every definition
that models code, the lines it models.

## Components

| Part | State | Operations | Hard behaviour | What makes it correct | Module |
|---|---|---|---|---|---|
| Operating cycle (`store.rs`) | `operating_cycles` state, treatment, admission generation; admission and reconciliation rows | propose, admit, start, quiesce, drained, resume, reconcile, close | every receipt may arrive in any state; a freeze moves the cycle from any state | one open cycle; a closed cycle left nothing; the generation fences stale authority | `OperatingCycle` |
| Budget (`store.rs`, `kernel.sql`) | envelopes (ceiling, reserved, spent), reservations, charge rows, cost Postmortems | reserve, reconcile known/unknown, freeze, close Postmortem | eight handlers update the same counters by increments; unknown cost; overrun | counters are the sums; ceilings hold; unknown cost never becomes zero; cost is final | `OperatingCycle` |
| Cancellation (`store.rs`) | request state, propagation and its target snapshot | request, begin propagation, reconcile propagation, reconcile request | races with freezes and with draining | a duty fences its cycle until it is reconciled | `OperatingCycle`, `NativeChild` |
| Office session and turn (`store.rs`) | session and turn state, bound reservation, prompt, usage, terminal and Dispose receipts | start, ready, open turn, authorise, settle, Dispose, failures | receipts after the cycle moved on | prompts are never authorised behind a fence; the reservation is settled exactly once | `OperatingCycle` |
| Native child custody (`store.rs`, SQL triggers) | spawn admission, child and protocol state, liveness observations, signal, reap, stream-seal and recovery receipts | admit, inert spawn, not spawned, create session, ready, abort, signal, liveness, reap, recover, finalize | process exits race signals; process identity reuse; daemon restart | a child is finalized only on proof of absence; nothing leaves a terminal state | `NativeChild`, `ChildCustody` |
| Coordination (`store.rs`) | projects, tickets, work items, leases, attempts, graph revisions, reviews, challenges, causal Postmortems, episodes, outcomes | one command per transition of each | closure looks across tables; leases expire, retries and new cycles revive old rows | a closed project left nothing open; execution has a lease; reviewers are independent; acceptance was earned | `Coordination` |
| Study, episodes, Forum (`study.rs`) | protocol, run, pairs, episodes, obligations with exposure, reads, decision and runtime binding, Forum messages | 33 commands, launch allocation and claim | two populations, two arms and native children advance independently | a Reset successor cannot reach the past; populations do not overlap; corrections match; nobody acts after the reveal | `Study` |
| Command ledger (`store.rs`, `postgres.rs`) and daemon loop (`daemon.rs`) | command, body and event rows, fingerprints, grants, serve mode, sealing operation | execute, reject, abort, retry, bind (decode, validate, replay), dispatch, founding mission, crash | a retried identity with another body; rejection after partial writes; crash between steps; 118 command and 112 event bodies written three times by hand | a receipt answers only its own request; every row reads back; the daemon can restart from what it wrote | `CommandLedger`, `CommandCodec`, `StudyCodec`, `CommandAuthority` |
| Task attempt (`task_attempt_scheduler.rs`, `pi_execution.rs`, `supervision.rs`, `peer.rs`) | schedule, driver phases, peer, control pipe, cancellation and reap, the attempt's receipts | the calls of `TaskAttemptRunner` | an untrusted host; a kernel that refuses; partial writes; descendants of a dead child | the ledger says what the host said; a broken boundary is fenced and contained; completion means the processes are gone | `TaskSession` |
| Harness of a task attempt (`native_task_driver.rs`) | the step of its loop, the time since the start | execute, contain | time-outs against a silent host; values read early and used late | a failed attempt is contained | `TaskDriver` |
| Pi host, evaluator, content, product, world, provisioning, CLI | see `PROJECT.json` | | | | not modelled |

Interaction: the daemon is the only writer of most receipts; it calls
`KernelStore::execute`, which runs each command in one serialised transaction
with a savepoint. Commands carry an expected admission generation, so a command
decided on a stale view is rejected rather than applied. `CommandLedger` shows
what this mechanism gives and where it ends; the domain modules
(`OperatingCycle`, `NativeChild`, `Coordination`, `Study`) rely on it when they
make each accepted command one atomic action and leave rejected ones out. The
runner of a task attempt makes those commands from what a child process says:
`TaskSession` has the driver, the supervisor, the peer and the attempt's
receipts in one module because each call changes all four, and `TaskDriver`
composes it with the harness that makes the calls.

## Modules

| Module | Role |
|---|---|
| `OperatingCycle` | the kernel's operating cycle with its money, cancellation, Office session, work and children |
| `OperatingCycleMoney` | proofs about money: ceilings, holds, the accounts, finality of cost |
| `OperatingCycleFences` | proofs about the fences, from the money invariant; finality of a closed cycle; the refinement of `ChildCustody` |
| `NativeChild` | the receipts of native children, the processes they speak of, and the propagation of cancellations |
| `ChildCustody` | what the ledger promises of one child: the abstract lifecycle |
| `NativeChildProofs` | proofs about one child (types, absence at the end, the refinement of `ChildCustody`) and, on top, about cancellation propagation |
| `Coordination` | projects, tickets, work, reviews, Postmortems, episodes, outcomes |
| `CoordinationProofs` | proofs about `Coordination`: references, leases, acceptance, reviews, closure |
| `Study` | the study ledger |
| `StudyProofs` | proofs about `Study`: treatment, handover, correction, reveal, closure |
| `CommandCodec`, `StudyCodec` | fields, fingerprints and columns of every command and event |
| `CommandAuthority` | codes, capabilities and principals of every command, and its event |
| `CommandLedger` | execution, retry, abort, crash, bind and replay, over the three modules above |
| `CommandCodecProofs` | proofs about the codecs: bodies read back, fingerprints tell requests and events apart, for any values |
| `CommandLedgerProofs` | proofs about the ledger: rows read back, receipts, replay, the mission's source |
| `TaskSession` | one task attempt: runner, driver, supervisor, peer, receipts, process |
| `TaskSessionProofs` | proofs about a session (evidence, containment, completion) and about the harness, which implements it |
| `PolledSession` | `TaskSession` with the deadlines of its containment and the time-out of the caller that polls it |
| `TaskDriver` | `TaskSession` under the harness that drives it |
| `MC...` | symmetry and bounds for TLC |

### OperatingCycle

A table is a function from row identities to rows, and an identity whose row
has state `"None"` has not been inserted. One action is one command: its guard
is the conjunction of the handler's checks, its effect the handler's writes,
nested calls included (`Freeze` is `freeze_budget_admission`, `TransitionCycle`
is `transition_cycle`, and so on). A rejected command changes nothing and is
not a step.

Abstractions, beyond names and texts:

* An accepted command always names the current generation
  (`cycle_for_generation`), so commands carry none. Rows that *remember* a
  generation (a spawn admission, a prompt) keep it.
* The four treatments are two: `PiSdkQualificationV1` is `"Qualification"`, the
  three others, which the handlers modelled here do not tell apart, are
  `"Office"`.
* The two charge rows of a reservation are always written alike: one column,
  `held`. `CostObservation::Unavailable` behaves as `Unknown`; `EmergencyStop`
  as `GracefulCancel`; Recovery and Cancellation turns as Closure turns.
* A prompt's delivery, acceptance, usage and terminal receipts are folded into
  the settlement, which takes the cumulative cost they carried.
* A cycle has one work item with one lease or attempt; children are owned by
  the Office session or by a qualification cycle, not yet by an attempt.
* A child's custody between spawn and end is coarse (`RecordChildCustody`); its
  states and moves are those of `ChildCustody`, which both modules implement
  (`ChildrenFollowCustody` here, `CustodyLifecycle` in `NativeChild`).
* Storage CHECKs on amounts are not guards: `TypeOK` and `CeilingHeld` show that they
  never bind.
* Bounds: the identity sets bound how many rows can be inserted (a freeze that
  has to open a duty needs a free request identity), `MaxGeneration` stands for
  `i64::MAX`.

### NativeChild

One cycle with its attempts, sessions and experiments, each of which may own one
child. The ledger's tables are in `cycle`, `owner`, `request`, `propagation`
and `child`; `process` and `foreign` are the operating system. A receipt may be
recorded whenever what it reports is true or was observed: `"Absent"` once the
group is gone, `"Present"` or `"Inaccessible"` while something answers to the
identity, which may be a stranger (`ReusePid`); a reap by the daemon that waited,
a recovery by one that is no longer the parent (`RestartDaemon`). Nothing forces
a receipt to be recorded soon or at all.

The correspondence: `child[k].state` is the state of the spawn admission, then of
the child; `protocol` its Pi protocol; `absent`, `absentSinceReap`, `lingering`,
`wait`, `tried`, `delivered`, `aborted` and `sealed` are what the handlers'
queries over the receipt tables can tell apart. `StorageAccepts` is the CHECK of
`native_children` against what the reappearance trigger has just written. The
snapshot's SQL `CASE` is `Snapshot`, its reconciliation `Refreshed`.

Abstractions: *Reconciling* and *Closed* cycles are folded into `"Drained"`
(custody receipts are accepted alike); the money, which only decides when
`freeze_budget_admission` runs, is `FreezeBudgetAdmission` at any time; the
qualification child is in `OperatingCycle` only. An attempt or session ends as
custody allows it to, at any time. A Pi child seals 4 streams and an evaluator
2 in the code; `PiStreams` and `EvaluatorStreams` are smaller in the runs, as
seals only count. Exit codes are one `"Exited"`.

### Coordination

A table is a sequence of rows and an identity a position, as the identity
columns number them. The handlers look across tables (a project closes only if
its tickets, reviews, Postmortems, episodes and outcomes allow it; a retry looks
at the attempt and the work item, not at the ticket), and that is what the
actions keep; texts, principals and the content of graph objects are left out.
An attempt has its Pi child only as far as coordination sees it: admitted, or lost
in a restart, which lets `SettleActorTaskAttemptAfterRecovery` end the attempt and
nothing else (`Stranded`).

`MaxOf` bounds each table and `MaxRows` all of them together, with an episode,
a Postmortem and an outcome counted three times (`Weight`): every pair of
tables gets its rows in some behaviour without all of them having them at once.

### Study

An obligation is named by its seat `<<episode, phase, role>>`, which
`kernel.sql` makes unique. There is one protocol with one world, measurement and
institution revision, and one run. `ReadForum` is one action: the daemon renders
and seals a range and commits the receipt, and a command between them makes the
commit refuse. What an episode can do without (failures, charges, messages,
retractions, reads, decisions, launches) is bounded together by `MaxEvents`:
`Planned` gives each its weight.

### CommandLedger, CommandCodec, StudyCodec, CommandAuthority

`store.rs` and `study.rs` write every body three times: to the bytes of its
fingerprint, to the columns of its table, and back. `CommandCodec` and
`StudyCodec` hold, for each variant, the fields it declares and the order in
which each of the three functions handles them; values are samples of the
field's type. `CommandAuthority` holds the codes, the capability each command
needs, who holds it and the event it leaves. `CommandLedger` uses these tables:
the initial state chooses a kind and two bodies that differ in a field or in
two neighbours; then requests with either body are sent, retried with the other
body or another envelope, rejected, aborted and interrupted by a crash, and the
daemon binds again and decodes, checks and re-executes every row. What a domain
handler decides is reduced to whether the body has been applied. The replayed state
is compared whole; the code compares the tables of `MATERIALIZED_TABLES`, which
leaves out the two launch-claim tables and `study_actor_work_allocations`
(`store.rs:21327`).

### TaskSession, PolledSession and TaskDriver

One action is one call of `TaskAttemptRunner`, with everything the call does in
driver, supervisor, peer and kernel; its parameter is the answer the caller
gets. `reconcile` is three actions, split where it can return an error after
part of its work. The host may write any frame or none and exit at any time; a
frame that is not well-formed, or that carries a foreign sequence, session or
correlation, is `"Broken"`. The kernel may refuse any command, whatever the
receipts in the model say, because its cycle may have moved on. Deadlines that
the caller passes may be over at any call.

`PolledSession` adds what the liveness of containment depends on: `left`, how many
of the cancellation's two deadlines (TERM after 1 s, KILL 2 s later) still come
before the 300 s at which the harness stops polling. It is chosen when the
cancellation is armed, each signal uses one up, and none is sent when none is left.
Its next-state relation is the session's with one more conjunct, so what is proved
of `TaskSession` holds of it.

`TaskDriver` fixes the order of the calls and what happens after each answer.
Its clock has three values, as all limits count from the start of the attempt:
handshake and control limits (30 s) are one point, the terminal limit (300 s)
another.

Left out: FollowUp, Steer, Abort and GetState, which a task attempt never sends;
cancellation on request with its modes; the Office and the qualification
child, whose drivers repeat these steps with other receipts.

## Runs

| Run | Instance | Shows |
|---|---|---|
| `office` | 1 Office cycle, 2 reservations, 2 requests, 1 child, amounts 1 and 2, observed costs 0 to 3, hard ceiling 3, 3 generations | all budget, fence and cancellation invariants, and `CostIsFinal`. Two reservations let one be frozen while the other settles; observed cost 3 overruns both amounts; three generations allow quiesce, resume and cancel |
| `succession` | 2 cycles of both treatments, 2 reservations, 1 request, 1 child | the second cycle starts only after the first closed, against what the first left in the society's envelope; a closed cycle stays as it is whatever arrives late (`ClosedIsFinal`: a spawn admitted before the drain may be recorded after the close, but never works); and children follow the custody lifecycle (`ChildrenFollowCustody`) |
| `custody` | 1 session, 1 request, 1 identity, 2 streams, all observations, 4 wait statuses, 2 generations | `EndedIsGone`, `AwaitedCanAnswer` and the refinement `CustodyLifecycle`, with restarts, descendants and a reused identity |
| `propagation` | 1 attempt, 1 experiment, 2 identities, 1 request, no streams | a snapshot of two owners that races both forks, spawn receipts and ends; it observes only absence, the observations being the subject of `custody` |
| `coordination` | at most 10 rows (weighted) and 2 cycles; 2 tickets, leases and attempts | closure, leases, independence of reviews and acceptance in every order of commands, the settlement of an attempt after recovery included |
| `study` | 3 episodes (a pair and a fork), 2 roles, populations of 1, 3 optional events | treatment, handover, correction, closure and reveal |
| `ledger` | every command kind, 3 rows, 1 abort | idempotency, reading back, restart and the founding mission's content; and `StartsFaithful`, what the tables give for each of the 2117 scenarios (a kind and two bodies). Before it starts TLC evaluates `TablesAgree`, on which the theorems rest |
| `session` | 1 attempt, 1 Forum call, 9 frames, amount 1, totals 1 to 3, of which 3 exceeds the kernel's integers | `EvidenceAgrees`, `FencedIsContained`, `CompletedIsOver` and the liveness property `ContainmentEnds`. Nine frames are a whole handshake, turn and Dispose; a turn that is retried or calls a tool and then ends with *Stop* and is disposed of needs ten, which takes too long to be kept as a run; the theorems cover it |
| `drained_reconcile`, `replay_gap`, `stale_frontier`, `silent_host` | small instances of their modules | the disagreements below |

Deadlock is not checked: identities are finite, a society whose last cycle is
closed may stop, and so may a session nobody drives.

### Disagreements found

* `drained_reconcile`: a cost frozen during *Reconciling* brings the cycle back
  to *Drained* with its reconciliation row already inserted; reconciling again
  violates the row's primary key, so the cycle stays open for ever, and with it
  the society.
* `replay_gap`: an aborted transaction has drawn identities from PostgreSQL
  sequences that the re-execution at bind time does not draw; every later row
  differs, and the daemon refuses its own ledger for good.
* `stale_frontier`: the pilot backend seals the prompt and then spawns the
  attempt; the events of the spawn and the handshake follow, so the frontier the
  prompt names is never the ledger's last event, and its authorization is
  always rejected. `NoAttemptIsPrompted` proves that this is so in every
  behaviour of the harness, not only in the run's trace.
* `silent_host`: when an attempt fails for another reason than its boundary (a
  refused binding, a silent host whose deadline every poll computes anew, a
  refused prompt), `drive_containment` refuses the child, and the harness
  returns with the host alive.

### Other disagreements

Each of these definitions states what a comment or a document says and is
violated by the code. Add it to the named run's configuration as an
`INVARIANT` (or `PROPERTY`, for the last) and TLC shows how.

| Definition (run) | What is said | What the code does |
|---|---|---|
| `DrainedOwnsNoExecution` (`office`) | "Drained only says that owned execution has stopped" (`store.rs:7677`) | a cancellation is reconciled without asking for work leases and attempts (`store.rs:8101`) |
| `ClosedOwnsNoLiveChild` (`succession`) | "a cycle cannot disappear while any process remains live or indeterminate" (`store.rs:14328`) | `close_cycle` counts spawned children, not open spawn admissions, and the spawn is accepted in the closed cycle |
| `ExitedChildBarsClosure` (`office`) | "A physically exited child therefore does not make a cycle close-eligible yet" (`store.rs:7687`) | `close_cycle` ignores undisposed workspaces |
| `ReuseIsRecordable` (`custody`) | a reappearance is "not an invalid caller request that may simply disappear from the ledger" (`store.rs:13001`) | the trigger writes a disposition, the handler then `CancellationRequested`, and the CHECK refuses both |
| `AtMostOneOutstandingTarget` (`propagation`, with two requests and three generations) | more than one outstanding target "is an invariant breach" (`store.rs:12408`) | a request without a spawned child completes with its propagation open; the next request's awaits the same admission, and neither can be answered |
| `SignalledChildWasCancelled` (`propagation`, with two requests and three generations) | no action is "retroactively attributed to cancellation" (`store.rs:12811`) | such an open propagation survives the resumption, and a child admitted afterwards is attached to it |
| `SupervisorMaySpeakForRoot` (`ledger`) | "The supervisor may authorize a founding or Root Authority command" (`daemon.rs:2382`) | `dispatch_supervisor` refuses every capability the kernel service has too, so four Root commands are always refused |
| `DescendantsAreReconciled` (`study`) | "Every actor and native descendant must be reconciled before episode closure" (`ARCHITECTURE.md:260`) | an obligation may end between the spawn of its child and the binding, and the episode closes with the child alive |
| `CompletionIsFinal` (`coordination`) | a ticket has "explicit completion or failure" (`GLOSSARY.md:163`) | retrying an old failed attempt takes a ticket that a later attempt completed back to *Ready* |

### Observations

What the models do as the code does, no document contradicts, and a maintainer
may want to know:

* The identity of a child that ended as *LostParentage* can never be recorded
  for another child; a child whose direct process was reaped before a restart,
  or that a signal nobody delivered killed, can stay short of *Finalized* for
  ever (`store.rs:12304`, `13683`).
* A proposed cycle can be cancelled, drained and resumed into *Running* without
  having been admitted. A frozen reservation of a qualification cycle can never
  be resolved, because `CloseCostPostmortem` is fenced by the treatment
  (`store.rs:2401`). A turn that is not ordinary work, or whose cost froze, can
  never be ended, so its session stays live and its cycle cannot close.
* An episode whose obligations together charged more than the protocol's ceiling
  never closes (`study.rs:4657`). After a retraction a second read of the same
  range is refused for ever, because its seal exists with other bytes
  (`content.rs:88`). A message that was read in two overlapping ranges can no
  longer be cited (`study.rs:3990`). A decision may be recorded after the reveal
  and even after closure (`study.rs:3952`).
* `SettleActorTaskAttemptAfterRecovery` ends an attempt and leaves its lease
  *Active*, its item *Running* and its ticket *Claimed* (`study.rs:3749`). Nothing
  ends that lease (`RecoveryStrandsForGood`): an expiry wants a lease without
  attempt, a retry a settled item. `record_cycle_drained`, `resume_cycle` and
  `close_cycle` count it (`store.rs:7640`, `7685`, `7750`), so its cycle drains only
  by a cancellation, is never resumed or closed, and has no successor; and its
  project is never closed.
* Containment by the harness ends 300 s after the attempt's start, and it does
  not reconcile after a failure (`native_task_driver.rs:169`): a boundary that
  fails in the last second before is armed and never signalled, one that fails in
  the last three is sent TERM and not KILL. A host that has
  not exited in the instant after its *Disposed* frame fails the attempt
  (`native_task_driver.rs:356`).
* A transcript that cannot be sealed leaves a child that is neither disposed nor
  contained (`task_attempt_scheduler.rs:1264`). A Forum call is lost when the
  study ledger answers an error (`task_attempt_scheduler.rs:1115`). A refused
  receipt of the group's sweep, or a refused finalization, leaves a child no
  later call can finish (`pi_execution.rs:5992`, `6052`); a child whose
  registration failed is let go although its group may still live
  (`supervision.rs:2297`). A child whose binding was refused ends
  *PhysicalReconciled*, and its obligation stays open.

### Fairness

Only `PolledSession` assumes any, for `ContainmentEnds`. `contain`, the only caller
of `drive_containment` (`native_task_driver.rs:164-176`), polls every 10 ms and
stops 300 s after the attempt's start. So a poll that sends the next signal is
weakly fair *while a deadline is left* (`Poll` is disabled once `left` is 0), and
not afterwards; and a process that was sent KILL dies (`KillWorks`). Nothing
else in the session is fair: the host, the kernel and the other calls may stop.
The property claims an end only for a cancellation that was armed with both
deadlines left, and excepts a group that could not be signalled (`pipe.lost`), as
the code sends each signal once. A boundary that fails later than that is one of the observations
above; a containment that never starts is `silent_host`.

Nothing else is fair. Most commands of the kernel are issued by principals that
are under no obligation (a Root Authority decides to quiesce or to close), so no
liveness property of the ledger modules would be justified by the code.

## Proofs

All theorems are about the modules TLC runs, with their constants left open:
any sets of cycles, reservations, children, episodes and calls, any table
sizes, amounts, budgets and bounds. `PROJECT.json` lists them. They state every
invariant and every action property of the passing runs and both refinements;
only the liveness property is left to TLC.

`OperatingCycleMoney` proves that `MoneyInv` is inductive. `CeilingHeld` alone
is not: a settlement keeps the ceiling only because what it spends is at most
what it releases, which needs `ReservationHold` (the charge rows hold exactly
the uncharged rest); a Postmortem keeps it only because it recorded the same
rest when it was opened (`PostmortemMatches`), and both need rows to refer to
existing rows (`RowsLinked`). Every action touches money through one of six
effects, each with a lemma; the actions cite them. On top of it `AccountInv`
proves `EnvelopeAccounting`: the counters that eight handlers move by increments
are the sums over the reservations. It adds that a reservation not yet inserted
was charged nothing and that finitely many were inserted. What a sum does when
one summand changes is a lemma, proved by induction over the set (below). `CostIsFinal`, about steps, follows from the same
invariants.

`OperatingCycleFences` adds `FenceInv`: a closed cycle stays closed only
because nothing that could freeze is left (`NothingLeft`), the fences about
generations need that every generation remembered is at most the current one
(`GenerationsFenced`), and a new duty is unique because `Freeze` and
`RequestCancellation` look for one first (`DutyFenced`). `ClosedChildrenInert` adds that no
child of a closed cycle works or is about to: `close_cycle` looks at spawned
children only, so a spawn admitted before the drain may be recorded later, and
`ClosedIsFinal` holds because nothing that child may still record gives it work
or touches the closed cycle's rows. The refinement `ChildrenFollowCustody` is
shown step by step: each receipt moves one child along the lifecycle, and the
coarse `RecordChildCustody` makes only moves of it.

The assumptions are those of `OperatingCycle`: amounts are natural numbers, the
society is not a cycle, `None` is not an identity.

`NativeChildProofs` proves `EndedIsGone` for any owners, requests and process
identities. It is not inductive alone: finalization trusts a remembered
absence, and a recovery trusts a present one, so `AllAccounted` adds that a
recorded spawn was forked (an absent group then is a *gone* one, not one still
to come) and that what the reap receipt remembers as absent is gone. The
refinement `CustodyLifecycle` needs types only: each receipt writes one row, and
`EndingFollows` shows once that whatever a receipt does to a spawned child that
is not terminal is a move of the lifecycle.

On top of it the same module proves `ReconciledIsContained` and `AwaitedCanAnswer`
from `PropagationInv`: an open propagation awaits every caught child that may
still have or get a process (`Watched`), which needs that an invalidated
admission was never forked (`NeverForked`) and that a later admission is told
apart by its generation (`NotAhead`). The assumptions are that owners of
different kinds, causes and identities are distinct, and what observations
there are.

`CoordinationProofs` proves the four properties of `Coordination` one on top of
the other. `Sound` has the types and the foreign keys, with the columns an
attempt copies from its work item and lease. `ExecutionInv` makes
`LeaseBacksExecution` inductive: a ticket has at most one work item, whose state
decides the state of the ticket, whether a lease is active and whether an attempt
holds it, and of either there is at most one. The uniqueness of the item is needed
because what one item does to its ticket could otherwise contradict another.
An attempt holds its item while it lives and, if it was settled after recovery,
for ever (`HoldsItem`); nothing but that settlement ends an attempt with a child
(`ChildFollowsAttempt`). `RecoveryStrandsForGood`, about steps, says of such
an attempt that its item stays running and its lease active.
`AcceptanceIsEarned` rests on it: an attempt stays validated, and what takes a
ticket back does so through its item. `ReviewIsIndependent` needs that a challenge
exists only after its reviewer was assigned (`ChallengeFollowsReview`), and
`ClosedProjectIsSettled` is reduced to `ClosedIsFinished` (completed tickets,
reconciled attempts, ended reviews and follow-ups), because a completed ticket's
item is settled, has no lease and no attempt that holds it by `ExecutionInv`; whatever
inserts or revives a row, a retry included, finds its project open.

`TaskSessionProofs` proves `SessionInv`. The peer keeps its own promises whatever
frame it judges (`PeerSound`, frame by frame). `FencedIsContained` is the
invariant of every call that can fail; `EvidenceAgrees` needs that the driver
noted what the peer saw before it settles (`DriverFollows`) and that a receipt
fixes the phases that may follow (`ReceiptsFollow`); `CompletedIsOver` needs
that nothing brings back a group found absent (`ReapIsFinal`). The bounds on
frames and calls are arbitrary, so a turn with retries and tool calls, too
long for the run, is covered. `DriverImplementsSession` shows that the harness of
`TaskDriver` implements the session (the mapping is the identity, and a time-out
stutters), so all of this holds of it. `NoAttemptIsPrompted` is the general form
of the `stale_frontier` disagreement: from the spawn on the frontier is stale,
so the harness never gets past offering its prompt. A theorem about attempts it
completes would be empty, and is not stated.
`FailedBoundariesAreAttended` adds to the session's invariant that only a dead
process was waited for (`WaitedIsDead`), and concludes that a child whose
boundary failed is dead or has its cancellation armed; for the harness this is
`FailedAttemptsFailClosed`, which confines the `silent_host` disagreement to
boundaries that never failed.

`StudyProofs` proves `StudyInv`, which speaks of rows: an episode and the length
of its thread, a message and its episode, an obligation, its episode and its
child, a pair and its arms. `ResetForgets` follows from where each exposure
begins (`ExposureOf`) and from the frozen head staying the last message until
the correction; `CorrectionIsMatched` from `PairsSound` (both arms corrected in
one step, no episode in two pairs) and `CorrectionsPlaced`;
`PopulationsDoNotOverlap` and `ClosedIsReconciled` from `SeatSound` and
`RuntimeSound`. `RevealEndsActing`, about steps, follows from the guards and the
same invariant. It assumes that there is a measurement slot (`Slots # {}`, as
`StudyMeasurementSlotCount` admits 1 to 64): without one an episode could
close unrevealed.

The codecs are proved in three layers. What the hand-written tables contain is
`TablesInStep`: for every command and event kind, the fingerprint names every
declared field, the insertion order gives each a column of its own, the reader
reads in that order, codes are declared once and stored codes invert them. It
is a closed formula over finite tables, with no constant and no variable in it,
so TLC's evaluation of `ASSUME TablesAgree` at the start of a run settles it
completely; the prover cannot, as the tables are built with `@@`.
`CommandCodecProofs` shows what any tables in step give, for bodies of *any*
values, texts of any length included: `BodiesReadBack` and
`FingerprintsTellBodiesApart`, which needs that an encoding can be read in only
one way even when more bytes follow (`ReadOneWay`, field type by field type and
then by induction over the layout). From these and `TablesAgree`,
`RequestsAreToldApart` and `EventsAreToldApart` hold for any two requests or
events of the system. BLAKE3 itself is left out: fingerprints are the bytes that
are hashed, so the theorems speak of the system up to a collision.

`CommandLedgerProofs` then needs no hypothesis about the scenario but its types:
`OpenSpec` is the ledger with two bodies of any values of any kind, `SpecIsOpen`
shows that the run's sampled scenarios are among them, and
`ScenariosAreFaithful` that each is faithful (`StartsAreFaithful` is the run's
`StartsFaithful`). From it `FaithfulInv` follows: each row
came from a request whose envelope agrees with it, and executing the rows again
from nothing rebuilds the ledger (`Rebuilds`), which is what `RestartIsPossible`
needs and what `ReceiptIsForItsOwnRequest` and `LedgerReadsBack` are read from.
The replay is followed row by row: the ledgers after each prefix form a history,
every accepted step of the daemon extends it, and the fold that replays the rows
passes through it. `TypeOK` and `MissionHasItsSource` need neither tables nor a
typed scenario. This proof found a slip in the model: three definitions chose the first applicable verdict
with a `CASE` whose guards overlap, which TLC reads from the top and TLA+ does
not; they are chains of IF now.

Induction over data is needed three times, for sums, for the replay and for the
fields of a body. The library's
induction theorems cannot be instantiated by the installed provers, so both go
through the least counterexample: `<` is well-founded on the naturals, a set of
naturals has a least member, and the least number of rows (of summands, of
fields) for which the claim fails is 0 or follows one for which it holds.

Only model-checked: `ContainmentEnds`, as liveness under fairness is out of the
prover's reach; the contents of the tables (`TablesAgree`, evaluated whole); and
the four runs that show a disagreement.

An evaluator across cancellation and resumption, the only owner a resumed cycle
can have a child of, is in no run; the theorems of `NativeChildProofs` cover it.

## Not modelled

* The Pi host (TypeScript): it is the environment of `TaskSession`, which trusts
  it with nothing. A model of it would be one of the SDK it wraps.
* The Office and qualification paths of `pi_execution.rs`: the same calls with
  other receipts. `OperatingCycle` has the receipts that matter to the cycle.
* Cancellation on request in `supervision.rs` with its modes and the Abort frame.
* Content objects, forensic manifests and deterministic experiments: insert-only
  rows tied by foreign keys. Sealing appears where its failure matters.
* The deterministic evaluator's driver: a blocking sequence; its child's
  receipts are in `NativeChild`.
* Study admission, plan and root provisioning, the qualification runner: fixed
  lists of commands, each an action elsewhere, retried by identity.
* Product delivery, observability, CLI, statistical analysis and the
  correction-latency world's arithmetic: pure functions of their inputs.

## Plan

Done: all modules above, and a theorem for every invariant and action property
the runs check.

Next: the Office path of the driver as a second instance of the session's
calls, and requested cancellation in the supervisor.

# A formal model of the execution kernel of homun

homun is a local-first assistant: an Electron app talks to a Rust gateway, which
runs chat turns, background tasks and automations against models, tools, a
browser and chat channels.  What makes it trustworthy is the part underneath: a
turn that was started must end exactly once whatever dies on the way, a message
must not be sent twice, a cancelled turn must stay cancelled, and something that
waits must be woken.  This directory models that part, the *execution kernel*
(`crates/task-runtime` and the worker, runtime and projection files of
`crates/desktop-gateway`), checks it with TLC and proves its core with TLAPS.

All paths below are relative to the repository; `tr/` stands for
`crates/task-runtime/src/` and `gw/` for `crates/desktop-gateway/src/`.

## 1. Inventory

| part | state | operations | interacts with |
|---|---|---|---|
| execution journal (`tr/execution_store.rs`) | per execution an append-only event log, folded into revisions; `execution_wakes` | create, start, reclaim and fence an attempt, commit an outcome, continue as new, deliver a wake, wake due timers, discard wakes, resolve a receipt | called by the runtime, the broker, the routes; enqueues outbox rows |
| projection outbox (`tr/projection_outbox.rs`) | one row per committed revision: status, claim owner, generation, token, time | enqueue, claim, renew, complete, retry, block, requeue | written by the journal, drained by the worker |
| projection worker (`gw/projection_worker.rs`, `gw/execution_projection.rs`) | a claim, a heartbeat task | drain, project a chat execution, send, acknowledge | chat store, channels, task rows |
| effect receipts (`tr/store.rs`, `gw/effect_host.rs`, `gw/gateway_tool_execution.rs`) | receipt per effect: prepared, started, uncertain, completed | prepare and claim, complete, mark uncertain, release, drop, resolve | tool calls of an attempt, projection worker, user |
| task rows and leases (`tr/store.rs`, `tr/lease.rs`) | status, lease owner, fence, expiry, attempt count | acquire, heartbeat, recover stale | worker, projector, broker, journal |
| task executor (`gw/gateway_task_executor.rs`) | N worker loops, a watchdog per run | `run_next_task_once`, `cancel_task` | leases, scheduler, runtime |
| execution runtime (`gw/execution_runtime.rs`) | none of its own | `execute`: recover, fence, start, run the adapter, normalise, commit | journal, task rows, adapters |
| turn broker (`tr/broker.rs`, `gw/gateway_turn_broker.rs`) | active turn per thread | enqueue or steer, promote, cancel, recover at boot, resume | task rows, journal, chat store |
| turn steering (`gw/steering_control.rs`, `gw/model_client.rs`, `turn_steering` in `tr/store.rs`) | steering rows with status, revision, run and attempts | append, edit, withdraw, claim, interpret, defer, apply, complete, hold, promote | broker, agent loop, a model |
| scheduling (`tr/scheduler.rs`, `tr/resources.rs`, `tr/recurrence.rs`) | dependencies, reservations, deadlines, rules | ready tasks, block, expire, recur, reserve | worker |
| approvals (`tr/approval.rs`, `gw/gateway_remote_approval.rs`) | approval requests, remote approvals | request, approve, reject, notify, claim | task rows, channels, wakes |
| agent loop (`crates/engine`) | loop state, plan, run journal | one attempt of a chat turn: rounds, controls, the finalization fence, parking | runtime, effect host, steering |
| the rest: memory, capabilities, vault, inference, drivers, UI, sidecars | data | I/O and data processing | through adapters and routes |

All gateway code of one process shares the task store behind one mutex.  A
handler takes the lock several times, so what it read in one section may have
changed in the next; several processes may share the SQLite file for a while
(an old gateway that has not died yet, a new one that starts).  The hard
behaviours follow from that: interleavings of lock sections, leases and claims
that lapse under a living holder, deaths between two transactions, answers of a
channel that are lost, wakes that cross a cancellation, retries.

`PROJECT.json` lists all components with what is and is not modelled, and under
`hazards` the lines where these behaviours bite, with the properties that cover
them.

What makes each part correct:

* journal: one outcome per revision, for ever; fences rise; a pending wake can
  always be delivered; the checks before an append agree with the fold after it;
* outbox and receipts: an outcome becomes visible once and in order; nothing
  that may have arrived is sent again unless the user says so; everything is
  projected or visibly waits for the user;
* leases, worker, runtime: only the current attempt commits; nothing stays
  running for ever; every timer fires;
* effects of tools: sent once whatever dies or is repeated; what may have been
  sent stays on record until the user decides;
* broker and steering: a turn whose cancellation went through is not answered and
  not woken; a message is followed by one run or given back to the user, as last
  written;
* scheduling: limits hold, dependencies are respected, a recurrence survives;
* approvals: a decision takes effect once.

## 2. Modules

| module | models | uses |
|---|---|---|
| `ExecutionContract` | abstract: what the store promises (outcomes in order, no reopening of a terminal execution, continuations born with their parent's end) | |
| `ExecutionJournal` | the journal and the wake table | refines `ExecutionContract` |
| `ExecutionJournalProofs` | the journal's inductive invariant and the state properties that follow | |
| `ExecutionJournalSteps` | theorems about what a step of the journal may never do | extends `ExecutionJournalProofs` |
| `ExecutionJournalRefinement` | the journal implements `ExecutionContract`; continuations form chains | extends `ExecutionJournalProofs` |
| `ProjectionOutbox` | outbox, projection worker, adapter-output receipts, resolution by the user | executions are those of `ExecutionContract` |
| `ExecutionRuntime` | task rows, leases, workers, runtime, projector's row write, cancellation, restart | composes with `ExecutionJournal`: its steps call the journal's operations |
| `EffectReceipts` | the receipts of tool calls, their settlement, the suspension on one and the user's decision | extends `ExecutionRuntime` with receipts |
| `ExecutionRuntimeProofs`, `EffectReceiptsProofs`, `ProjectionOutboxProofs`, `TurnSteeringProofs` | the inductive invariants of the four modules and the theorems that follow | each extends its module; `EffectReceiptsProofs` also those of the runtime and the refinement |
| `TurnSteering` | the turns of one thread, steering rows, the coordinator, the loop's controls and fence, cancellation, restart | |
| `MC...` | instances for TLC | |

**ExecutionJournal.**  `journal[x]` is the folded log of execution `x`: a
sequence of revisions with fence, state, attempt, outcome and delivered payload;
`wakes` is the table.  Each public operation is one immediate transaction, hence
one action with all its effects.  What an operation checks before it appends
(`MayCommit`, `MayReclaimAttempt`, ...) and what the arm of `fold_journal` for
its event requires (`Folds...`) are separate operators, as they are separate
code.  `JournalNext` lets any client call any operation with any arguments, so
its results hold for every caller in the gateway, present or future.  One
argument is excluded: a plain commit carries no continuation (`PlainOutcomes`),
since outcomes that do go through `continue_execution_as_new`.
Timestamps are left out: they only make an operation fail and roll back when the
wall clock ran backwards.

**ProjectionOutbox.**  A worker's steps are its lock sections: claim, load, the
check before a dispatch, the claim of the receipt, the send, the settlement of
the receipt, the turn event, the end of the claim.  Several gateway processes
run it; they die, panic (the drop of the lease marks a started receipt
uncertain), sleep past their heartbeat and are superseded.  The channel is
external: a message arrives and is confirmed, arrives or not and the answer is
lost, or is refused.  `delivered` and `denials` are ghost counters.

**ExecutionRuntime.**  A row of `tasks` is status, lease (owner, fence, not
expired) and attempt count.  A worker goes through `run_next_task_once`: read
the clock, pick (recover stale leases, deliver due timers, choose), acquire,
open the execution, start the attempt, run the adapter, commit, and for a plain
task report, settle and write the row; an error takes the other branch.  The row
a worker writes is the record it acquired, attempt count included.  The row of a
chat turn is written by the projector.  The clock is a counter: a new reading is
even and larger than every fence it can be compared with, so the `fence + 1` of
a delivered wake never collides with a reading.  Resources, dependencies, deadlines,
recurrences, back-off and the workspaces of rows are left out: a queued row is
due.  `ProjectTaskState` abstracts the drain of `ProjectionOutbox` to what it
does to the row: in order, possibly repeated.

The cancellation of a chat turn is a series of commits under one lock: the row,
the discard of its wakes, the Cancelled outcome.  Nobody else in the process sees
a state between them, so one that reaches the end is one action
(`CancelChatTurn`).  One that does not is `CancelCutShort`: the row is cancelled,
the wakes are discarded or still there, an open revision stays open, and either a
commit failed and the gateway goes on (`CancelFails`) or the process died
(`CrashInCancel`).  The ghost `torn` remembers such turns until a later
cancellation goes through.  Nothing in the code repairs them: cancelling a
cancelled turn again does nothing and the recovery at boot keeps the row.  Only the user's
next message in the thread discards a wake that was left (`DiscardStaleWake`);
approvals, timers and a model that becomes available do not look at the row and
resume the turn.

**EffectReceipts.**  The steps of `ExecutionRuntime` for a chat turn, and inside
its `run` phase the effectful tool call: claim (`EffectHost::begin`), send,
settle, or be dropped by a steering message, a cancellation or a panic.  Every
settlement is an update `WHERE status = 'started'`.  A claim that finds the
receipt settled or under way needs no lease, any other needs the live lease, the
fence and the revision, and the owner in the contract's *input*, which is the
worker that created the execution (`creator`).  The receipt is also the wake
condition of a turn that waits for the user; `ResolveEffect` records the
decision and delivers the wake in one transaction.  `sent` and `denied` are
ghosts: how often the effect left the process, and which effects the user once
declared not applied.  Such a receipt is prepared again, but for the revision it
was claimed in, which is closed by then, so no later revision claims it.
An attempt may make a call of an earlier one again, since rounds start at 0 in
every attempt.

**TurnSteering.**  A message sent to a free thread becomes a turn, to a busy one
a steering row of the active turn.  The actions are lock sections: the
coordinator lists, claims for the running agent run, lets a model interpret
outside the lock and writes back; a loop reads an interpreted row, changes its
conversation and acknowledges in a second section; a delivered answer passes the
finalization fence first.  Users edit, withdraw and promote rows and cancel
turns; the process dies and restarts.  A task row keeps its status twice, in the
column the broker queries (`col`) and in the record everyone else decodes and
writes back (`row`), because the fence writes only the first.  What the model
answers, and whether it answers, is a free choice.  Leases, attempts and the
outbox are reduced to what a turn's rows can see; "completed" stands for a failed
turn too.  A cancellation may be cut short here as well (`CancelFails`,
`CrashInCancel`): the rows are held first, then the task row is cancelled, then
the execution.  The cancelled loop is aborted by the broker's signal, or by the
monitor of its attempt, which polls the row (`AbortLoop`).  `followed` is a ghost:
which runs have a message in their conversation, and whether they acknowledged
it, are still to, or never will because the row was held by a cancellation that
was cut short.

Definitions named after a fault (`MayCommitUnfenced`, `ClaimableInAnyOrder`,
...) are not used by any specification: each is a plausible mistake in the
definition that follows it, kept to show that a property would notice it.

## 3. Runs

Run one with `tlc -workers 2 -config X.cfg M`.

| run | module, cfg | states | shows |
|---|---|---|---|
| journal | `MCExecutionJournal` | 47 k | any interleaving of store calls keeps one consistent history (`JournalConsistent`), every pending wake deliverable, the two sets of checks in agreement, fences rising, outcomes final, continuations never shared or missing, and implements `ExecutionContract` |
| outbox | `MCProjectionOutbox` | 373 k | nothing is sent again by itself, outcomes are acknowledged once and in order, a superseded worker is harmless, and every committed outcome is projected or blocked on the user |
| runtime | `MCExecutionRuntime` | 1.23 M | only the attempt the journal names commits; a chat turn whose cancellation went through is neither answered nor left with a wake |
| runtime_liveness | `RuntimeLiveness` | 107 k | no task stays running, every timer fires or is discarded |
| effects | `MCEffectReceipts` | 539 k | an effect is sent at most once (`SentOnce`), one that was sent stays on record (`SentIsRecorded`), a turn waits only for a decision that can still be taken (`EffectWaitsResolvable`), and all of it goes through steps of the runtime (`RunsUnderTheRuntime`) |
| steering | `MCTurnSteering` | 409 k | a message is followed by one run or given back (`FollowedOnce`, `GivenBackStays`), as last written (`DecisionIsCurrent`), and one still pending when its turn ended comes back to the user (`OrphansSurface`) |
| outbox_stranded, outbox_unresolvable, runtime_waiting, runtime_cancelled, runtime_retries, steering_one_turn | | | disagreements, section 5 |

**Bounds.**  The journal run has two executions (a parent and its continuation),
two owners, a timer and a signal, two payloads, three fences and two revisions:
enough for a reclaim by the other owner, a wake shared by two executions, a
delivery, and a stale caller of each kind; the theorems remove the bounds.
The
outbox run has one execution with two revisions (order matters from two on; rows
of different executions never read one another), two processes, two starts,
two faults and one NotApplied decision; a notice expires at its third claim.  A
process that died is like one that never moves again, and a third would see the
second's claims as the second sees the first's.
The runtime runs have one task: rows of different tasks only share the batch of
due timers, whose delivery is covered by the journal run and its theorem.  With
two workers `MaxFence = 9` lets four ticks read the clock, so that each worker
can run, lose its lease and come back, and it does bind; for the liveness run
`MaxFence = 19` is never reached, so no behaviour is cut short.  `MaxAttempts = 2`
is the least value with a retry; faults (a death, a write that fails, a
cancellation cut short) are one (two in the liveness run).
`MaxRevision = 2` allows one suspension and one resumption, three for the retry
run.  The effects run has one turn with one call, two workers, two revisions and
one fault.  `MaxFence = 7` lets three ticks read the clock: an attempt, a second
one that meets the receipt of the first, still on its way or left by a crash,
and, after the suspension and the user's decision, the resumption.  The theorems
hold for any number.  An attempt does not suspend in the last revision of the
bound.  Calls with different ids
never read one another's receipts.  The steering run has two messages, so that
one steers, is held, promoted or repeated while the other's turn runs; one
further request (the second message, or the first one again), two agent runs of
a turn, one incident (an edit, a failed interpretation, a crash or a cancellation
that is cut short) and two orphan attempts.  Rows of different threads never meet.  Symmetry is used over owners, payloads, executions and gateways in safety
runs only.  Deadlock is not checked: a system whose tasks have all ended stops.

**Fairness.**  `WF` of a worker's steps: the loops poll for ever, and adapters
have timeouts, so each returns.  `WF` of a restart: the app supervises the
gateway.  `WF` of the projector on a row: `Converges` in run `outbox` shows it
from its own assumptions, unless a row is blocked on the user.  `WF` of a lapse
nobody prevents: time passes.
`SF` that a tick delivers the timer of an execution: a tick may come before the
time, but ticks go on and the time comes.  Nothing is assumed of the user, of
signals or of the channel.  In `TurnSteering`, `SF` per message that a poll of
the coordinator lists it while it is due (a poll may come before the back-off is
over, but polls go on), and `WF` of what the gateway has begun: the poll it is
in, the drain and the recovery of a restart.  Only in `outbox_unresolvable` is
the user assumed to act: he resolves whatever he may resolve.

## 4. Proofs

Every invariant and every action property that a passing run checks is also a
theorem: it holds for every set of executions, workers, gateways, messages,
receipts and payloads, and for every value of the bounds.  `tlapm M.tla` checks a
module from nothing.

| module | theorem | states |
|---|---|---|
| `ExecutionJournalProofs` | `JournalStaysConsistent` | `JournalConsistent`: log and wake table describe one history |
| | `PendingWakesStayDeliverable` | the error branches of `deliver_pending_wake_on` are unreachable, so no row rolls back the batch of due timers on every tick |
| | `OperationsAlwaysFold` | an operation that passes its own checks is never rolled back by the fold |
| `ExecutionJournalSteps` | `FencedForEver`, `OutcomesStaySealed` | fences rise; outcomes are final |
| `ExecutionJournalRefinement` | `JournalImplementsContract` | `JournalSpec` implements `ExecutionContract` |
| | `ContinuationsFormChains` | `ContinuationLineage` |
| `ExecutionRuntimeProofs` | `RuntimeStaysConsistent`, `RuntimeKeepsItsTypes` | `RuntimeInv`, `RuntimeTypeOK` |
| | `RuntimeUsesTheJournal` | `RuntimeSpec => JournalSpec` |
| | `OutcomesAreCommittedByAttempts` | `CommittedByAttempt` |
| | `CancelledTurnsHaveNoWake`, `CancelledTurnsAreNotAnswered` | a turn whose cancellation went through is neither woken nor answered while its row stays cancelled |
| `EffectReceiptsProofs` | `EffectsUseTheRuntime` | `EffectSpec => RuntimeSpec` |
| | `TurnsKeepTheContract` | a turn with effects implements the contract and has the runtime's action properties |
| | `ReceiptsStaySettled`, `EffectsAreSentOnce`, `SentEffectsAreRecorded` | `ReceiptsInv`, `SentOnce`, `SentIsRecorded` |
| | `EffectsKeepTheirTypes`, `ReceiptsStayDecidable`, `WaitingTurnsCanBeDecided` | `EffectTypeOK`, `DecidableInv`, `EffectWaitsResolvable` |
| `ProjectionOutboxProofs` | `OutboxStaysConsistent`, `OutboxKeepsItsTypes` | `OutboxInv`, `OutboxTypeOK` |
| | `MessagesAreDeliveredOnce`, `OutcomesAppearInOrder`, `StaleWorkersDoNoHarm` | `DeliveredOnce`, `AcknowledgedInOrder`, `StaleWorkersHarmless` |
| `TurnSteeringProofs` | `SteeringStaysSettled`, `SteeringKeepsItsTypes` | `SteeringInv`, `SteeringTypeOK` |
| | `DecisionsAreCurrent`, `MessagesAreFollowedOnce`, `RowsStayGivenBack` | `DecisionIsCurrent`, `FollowedOnce`, `GivenBackStays` |

**One chain.**  The specifications are stacked: `EffectSpec` implies
`RuntimeSpec`, which implies `JournalSpec`, which implies `ContractSpec`.  A
result is proved at the lowest level that has the state it speaks of, and the
theorems above it inherit it.  That a level implies the next needs its own
invariant: a runtime step is a journal step only if the arguments it passes are
ones the store accepts (the worker's execution, fence and revision exist:
`WorkersPlaced`), and a step with a receipt is a runtime step only if the worker
that makes the call is in the phase `run` (`CallsRun`).

**Journal.**  `JournalConsistent` is inductive: the type; per revision, that
state, attempt, outcome and delivery agree; per execution, that only the latest
revision is open and fences rise along the chain; per wake row, that it mirrors
the suspended revision that registered it and is its only row; and that a
suspended revision has room within the bounds.  Deliverability alone is not
inductive: that the row of the latest revision is the only one with its key, and
that no later revision exists, follow only from the chain and row conjuncts.
The argument is by lemmas on chains (replace the latest revision, append a fresh
one), then one lemma per action.  For the steps, lemma `StepEffect` says that a
step leaves each chain alone, creates it, rewrites its open latest revision, or
resumes it.

**Refinement and lineage.**  The mapping takes the outcomes of the sealed
revisions, in order, and whether the latest is open.  Each of the four effects of
`StepEffect` on a chain is a step of the contract or a stutter.  `ContinuationLineage` is
then a fact about the contract's view: only `Continue` adds a continuation, to
one parent, and it creates that execution in the same step; so a name has one
parent and none of its descendants can name it back.

**Runtime.**  `RuntimeInv` adds to `JournalConsistent`: typed rows, leased while
they run (`RowsTyped`); workers in a phase have the execution, clock reading and
revision the phase presupposes (`WorkersPlaced`); clock readings are distinct
(`ClocksDistinct`), hence whoever carries the fence of a running attempt is its
owner (`AttemptsOwned`).  The last is what `CommittedByAttempt` needs: `commit`
compares the fence and the owner it was given, so a stale worker could pass only
with a fence that is not its own.  `CancelledFinal` says of a cancelled chat turn
that is not `torn` that nothing waits for a wake and that a worker about to commit its open revision
has the cancellation as its result.  `CancelledTurnHasNoWake` is only the first
half and is not inductive: a worker that already holds a suspension would commit
it after the cancellation.  It holds because `cancel_chat_turn` commits the
outcome itself when the row is cancelled, and the check after the adapter covers
whatever the cancellation could not commit.  Of a turn whose cancellation was cut
short neither half holds, and section 5 says what becomes of it.

**Receipts of effects.**  `ReceiptsInv` is local to a receipt until the user
denies its effect: it was sent once at most, not at all while it is absent or
prepared, and a worker that has claimed it and not yet sent is the only one that may still settle it.
Without the last conjunct two claims could both be under way.  A denial prepares
the receipt again, and what keeps `SentOnce` is then in the journal: a receipt is
claimed for its own revision only, and a denied one belongs to a revision that
has its outcome, which stays.  `OnceInv` says so: a receipt that can be claimed,
absent or prepared under a running revision, was not sent and is claimed by nobody.
It needs the runtime's invariant, for a worker in a call is in a revision that
exists.  `WaitingTurnsCanBeDecided`
needs more, since a settlement, a suspension and a decision cross: `EffectInv`
joins it with `RuntimeInv`, and with receipts of revisions that exist, executions that
know their creator, and calls of running workers only.  `DecidableInv` then says,
for the receipt of a running revision, that one worker at most can still settle
it, and that whoever is about to suspend on it has seen it uncertain, a status
that only the decision changes; and for a pending wake on a receipt of its
revision, that the receipt is uncertain.  The step that could break it is a
late `complete` of a superseded attempt; the claim of the second attempt has
moved the receipt from started to uncertain before the suspension, and every settlement is
`WHERE status = 'started'`.

**Outbox.**  `OutboxInv` has the type, one row per outcome and no event without
one (`RowsPlaced`), workers only on rows whose predecessors are completed, and
completing only what has its event (`WorkersPlaced`), and a budget per receipt:
messages that arrived, workers that may still send, and the claim that the
receipt still permits are together no more than one plus the user's NotApplied
decisions (`Budget`).  `DeliveredOnce` is a part of the budget and is not inductive by itself, because a
worker that is sending has not been counted yet.

**Steering.**  `SteeringInv` has the shape; rows that belong to turns and runs
that exist, and attempts bounded by the incidents (`RowsSettled`); turns whose
two statuses differ only by the fence, and whose end has an outcome unless it is
a cancellation that was cut short (`TurnsSettled`); that such a turn has no row
left that a loop could read, since rows are held first (`CancelledHeld`); that every copy the coordinator made of a row is of its present
revision, of an older one, or of a row that left its hands (`CopiesKnown`); that
the run with a message in its conversation is the one it was interpreted for, and
either is still to acknowledge it, or has, or was cancelled in between, wholly or
in part (`FollowersKnown`); and `DecisionIsCurrent` itself.  `CopiesKnown` is what an
interpretation needs that comes back after an edit: equal revisions mean equal
text.

**Assumptions.**  Each module names its own and TLC evaluates them in every run.
`JournalAssumption`: timers are conditions, `None` is none of the values, bounds
are naturals.  `RuntimeAssumption`: approvals are conditions that are not timers,
there is a timer to suspend on, the two bodies differ.  `EffectAssumption`:
receipts are approvals and each belongs to an execution.  `OutboxAssumption`:
`NoOne` is no gateway, and the outcomes say whether they are sent.
`SteeringAssumption`: the first message is a message, `None` is not, and there
are finitely many messages (a row's id counts the rows stored before it).
Sets of executions, workers and gateways may be infinite.

**Model-checked only.**  Liveness needs fairness and ENABLED, which this prover
does not handle: `RunningRecovered`, `TimersFire`, `Converges` and
`OrphansSurface` stay with TLC.  So do the violations of section 5.

## 5. Where the code and its documents disagree

* **outbox_stranded**: marking a receipt uncertain and blocking the row on it are
  two transactions; a resolution between them leaves a resolved receipt behind a
  blocked row, which the design document excludes.  Repeating the decision
  requeues the row.
* **outbox_unresolvable**: the receipt of an approval notice belongs to a
  suspended revision and has no wake, so no resolution of it is accepted; its
  row blocks every later revision of the execution.
* **runtime_waiting**: `project_task_state` does not look whether its revision is
  still the latest.  Projected after a cancellation or a resumption, it puts the
  row back to `waiting_time` without a pending wake, a state the integrity audit
  reports as an error.
* **runtime_cancelled**: cancelling a plain task keeps the pending wake of its
  execution, and the wake queues the cancelled task again.
* **runtime_retries**: the attempt count is incremented only for failures that
  are not turned into a timer suspension, so with two attempts or more a
  transient failure is retried without end.

* **steering_one_turn**: the finalization fence frees the thread by writing
  `finalizing` to the status column only.  If the turn's lease is renewed before
  the turn ends, the heartbeat writes the decoded record, still running, over it:
  a turn admitted in between and the first one are active together.

The exact lines and quotations are under `findings` in `PROJECT.json`.

Seen while modelling, and listed under `hazards` without a run of their own:

* A cancellation that is cut short between its commits leaves a cancelled row
  with an open revision or a pending wake.  A worker past its last look at the row commits its
  reply; an approval, a timer or a model that becomes available queues the turn
  again.  Cancelling again does not help and the restart keeps the state.
* A steering row that was claimed or interpreted when its turn ended is stranded:
  the coordinator lists only pending rows, the restart looks at none, and the
  close in `finalize_turn_steering` (`gw/gateway_turn_broker.rs:1411`) names the
  stream where rows are kept under the task, so it closes nothing.
  `OrphansSurface` therefore speaks of pending rows only.
* A receipt the user declared not applied keeps its revision, so the resumed
  revision's claim of it is refused and the retry the design document promises
  never happens.  Were it repaired, `SentOnce` would have to allow one more send
  for each denial.
* The receipt of a call that was interrupted before a turn suspended for another
  reason can no longer be decided once the turn is resumed;
  `EffectWaitsResolvable` speaks of the revision that waits.
* Made-up tool-call ids repeat from one attempt to the next, so a different call
  can be answered by the replay of an old one.
* A parked turn is not resumed by the coordinator.

## 6. Plan

Done: the journal, the outbox, the runtime, the receipts of tool calls and the
turns of a thread with their steering; the proofs of section 4.  Next:

1. Scheduling over `ExecutionRuntime`: dependencies, reservations, deadlines and
   recurrences, the last with a death between completion and re-insertion.
2. The turn reducer as operators against a reference fold.

## 7. Not modelled

Memory, capabilities, orchestrator, inference, vault, drivers, skills, UI and
sidecars are data processing, I/O or external programs: they make up most of the
repository's lines and keep no protocol among themselves that a model checker
would reach.  Inside the kernel: scheduling decides only when a queued task
starts, and `ExecutionRuntime` lets it start at any time; the agent loop's
budgets, plans, compaction and synthesis decide only when a round ends and what
it says, which are free choices here; compensation of receipts is never
requested; the calendar arithmetic of recurrences is a library's.

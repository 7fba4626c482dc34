--------------------------- MODULE ExecutionJournal ---------------------------
(***************************************************************************)
(* The execution journal of crates/task-runtime/src/execution_store.rs:    *)
(* for every execution an append-only event log that is folded into a      *)
(* sequence of revisions, and the table execution_wakes of durable wake    *)
(* receipts.  Every public operation is one IMMEDIATE SQLite transaction   *)
(* run under the gateway's task-store mutex, so it is one action here.  An *)
(* operation appends an event, re-folds and re-validates the whole journal *)
(* and commits only if the fold accepts it.                                *)
(*                                                                         *)
(* The state is the folded journal; the fold's arm for an event is a pair  *)
(* of operators: what the fold requires (Folds...) and the journal it      *)
(* leaves.  Timestamps are left out: the only thing they decide is that an *)
(* operation fails and rolls back when the wall clock ran backwards, which *)
(* is a step that changes nothing.                                         *)
(*                                                                         *)
(* Next lets any client call any operation with any arguments, so what     *)
(* holds here holds for every caller of the store.                         *)
(***************************************************************************)
EXTENDS Naturals, Sequences, FiniteSets

CONSTANTS
    Executions,   \* execution ids
    Owners,       \* attempt owners (worker ids)
    Conditions,   \* wake conditions an outcome can suspend on
    Timers,       \* those of the form WakeCondition::At
    Payloads,     \* wake payloads
    Bodies,       \* what tells two outcomes of the same kind apart
    None,         \* Option::None
    MaxFence,     \* bound on fencing tokens
    MaxRevision   \* bound on the revisions of one execution

ASSUME JournalAssumption ==
    /\ Timers \subseteq Conditions
    /\ None \notin Owners \cup Payloads \cup Executions \cup Conditions
    /\ MaxFence \in Nat
    /\ MaxRevision \in Nat

VARIABLES
    journal,      \* execution id -> its folded revisions, <<>> before creation
    wakes         \* rows of execution_wakes

journalVars == <<journal, wakes>>

-------------------------------------------------------------------------------
(* Records *)

TerminalKinds == {"completed", "cancelled", "failed"}

Terminal(kind, next) ==
    [kind : {kind}, wake : {None}, body : Bodies, next : next]

Suspended == [kind : {"suspended"}, wake : Conditions, body : Bodies, next : {None}]

\* ExecutionOutcome.  Only continue_execution_as_new is given a completed
\* outcome that names a continuation.
PlainOutcomes ==
    Suspended \cup UNION {Terminal(k, {None}) : k \in TerminalKinds}
LinkedOutcomes == Terminal("completed", Executions)
Outcomes == PlainOutcomes \cup LinkedOutcomes

NoOutcome == [kind |-> "none", wake |-> None, body |-> None, next |-> None]

Attempt == [owner : Owners, fence : 1 .. MaxFence]
NoAttempt == [owner |-> None, fence |-> 0]

\* One FoldedExecution: the contract's fencing token, the state, the attempt
\* that owns it, the committed outcome and the payload its wake delivered.
Revision ==
    [fence    : 1 .. MaxFence,
     state    : {"ready", "running", "suspended"} \cup TerminalKinds,
     attempt  : Attempt \cup {NoAttempt},
     outcome  : Outcomes \cup {NoOutcome},
     delivery : Payloads \cup {None}]

\* A row of execution_wakes; it is pending while its payload is None.
WakeRow ==
    [exec      : Executions,
     rev       : 1 .. MaxRevision,
     condition : Conditions,
     payload   : Payloads \cup {None}]

JournalTypeOK ==
    /\ journal \in [Executions -> Seq(Revision)]
    /\ \A x \in Executions : Len(journal[x]) <= MaxRevision
    /\ wakes \subseteq WakeRow

-------------------------------------------------------------------------------
(* Reading the folded journal *)

Exists(x) == journal[x] # <<>>
LatestRevision(x) == Len(journal[x])
Latest(x) == journal[x][LatestRevision(x)]
Pending == {w \in wakes : w.payload = None}
RowsOf(x, r) == {w \in wakes : w.exec = x /\ w.rev = r}

\* state_for_outcome
StateFor(outcome) == outcome.kind

FreshRevision(fence) ==
    [fence |-> fence, state |-> "ready", attempt |-> NoAttempt,
     outcome |-> NoOutcome, delivery |-> None]

\* The journal with its latest revision replaced by rv.
WithLatest(x, rv) ==
    [journal EXCEPT ![x] = [journal[x] EXCEPT ![LatestRevision(x)] = rv]]

-------------------------------------------------------------------------------
(* The arms of fold_journal *)

\* require_nonterminal_fold
Unsealed(rv) == rv.outcome = NoOutcome

FoldsFenceAdvanced(x, previous, fence) ==
    /\ Exists(x)
    /\ Unsealed(Latest(x))
    /\ Latest(x).fence = previous
    /\ fence > previous

FoldsAttemptStarted(x, fence) ==
    /\ Exists(x)
    /\ Latest(x).state = "ready"
    /\ Latest(x).attempt = NoAttempt
    /\ Unsealed(Latest(x))
    /\ fence = Latest(x).fence

FoldsAttemptReclaimed(x, previousOwner, previous, fence) ==
    /\ Exists(x)
    /\ Latest(x).state = "running"
    /\ Unsealed(Latest(x))
    /\ Latest(x).attempt = [owner |-> previousOwner, fence |-> previous]
    /\ fence > previous

FoldsOutcomeCommitted(x) ==
    /\ Exists(x)
    /\ Unsealed(Latest(x))

\* The WakeDelivered arm and the RevisionStarted arm that follows it in the
\* same transaction, validate_revision_transition included.
FoldsWakeDelivered(x, condition) ==
    /\ Exists(x)
    /\ Latest(x).delivery = None
    /\ Latest(x).outcome.kind = "suspended"
    /\ Latest(x).outcome.wake = condition

-------------------------------------------------------------------------------
(* Operations *)

\* create_execution, when the journal does not exist yet.  (An existing journal
\* is returned unchanged if its first contract is the same one.)
CreateExecution(x, fence) ==
    /\ ~Exists(x)
    /\ MaxRevision >= 1
    /\ journal' = [journal EXCEPT ![x] = <<FreshRevision(fence)>>]
    /\ UNCHANGED wakes

\* The conditions under which start_execution_attempt appends an event.
MayStartAttempt(x, r, fence) ==
    /\ Exists(x)
    /\ LatestRevision(x) = r
    /\ Latest(x).fence = fence
    /\ Latest(x).state = "ready"
    /\ Latest(x).outcome = NoOutcome

StartExecutionAttempt(x, r, fence, owner) ==
    /\ MayStartAttempt(x, r, fence)
    /\ FoldsAttemptStarted(x, fence)
    /\ journal' = WithLatest(x, [Latest(x) EXCEPT
                     !.state = "running",
                     !.attempt = [owner |-> owner, fence |-> fence]])
    /\ UNCHANGED wakes

MayReclaimAttempt(x, r, expected, fence) ==
    /\ fence > expected
    /\ Exists(x)
    /\ Latest(x).state = "running"
    /\ Latest(x).outcome = NoOutcome
    /\ LatestRevision(x) = r
    /\ Latest(x).fence = expected
    /\ Latest(x).attempt # NoAttempt

ReclaimExecutionAttempt(x, r, expected, fence, owner) ==
    /\ MayReclaimAttempt(x, r, expected, fence)
    /\ FoldsAttemptReclaimed(x, Latest(x).attempt.owner, expected, fence)
    /\ journal' = WithLatest(x, [Latest(x) EXCEPT
                     !.fence = fence,
                     !.attempt = [owner |-> owner, fence |-> fence]])
    /\ UNCHANGED wakes

MayAdvanceFence(x, r, expected, fence) ==
    /\ fence > expected
    /\ Exists(x)
    /\ LatestRevision(x) = r
    /\ Latest(x).fence = expected
    /\ Latest(x).outcome = NoOutcome
    /\ Latest(x).state = "ready"

AdvanceExecutionFence(x, r, expected, fence) ==
    /\ MayAdvanceFence(x, r, expected, fence)
    /\ FoldsFenceAdvanced(x, expected, fence)
    /\ journal' = WithLatest(x, [Latest(x) EXCEPT !.fence = fence])
    /\ UNCHANGED wakes

\* Faults: an outcome that is already committed is not looked for; the fence is
\* not compared.
MayCommitAgain(x, r, fence, requireRunning) ==
    /\ Exists(x)
    /\ r = LatestRevision(x)
    /\ journal[x][r].fence = fence
    /\ requireRunning => journal[x][r].state = "running"

MayCommitUnfenced(x, r, fence, requireRunning) ==
    /\ Exists(x)
    /\ r \in 1 .. LatestRevision(x)
    /\ journal[x][r].outcome = NoOutcome
    /\ requireRunning => journal[x][r].state = "running"
    /\ LatestRevision(x) = r

\* The binding checks of commit_execution_outcome_with_requirement, up to the
\* point where it appends: the revision's own fence, no outcome yet, a running
\* attempt if the caller requires one, and the latest revision.
MayCommit(x, r, fence, requireRunning) ==
    /\ Exists(x)
    /\ r \in 1 .. LatestRevision(x)
    /\ journal[x][r].fence = fence
    /\ journal[x][r].outcome = NoOutcome
    /\ requireRunning => journal[x][r].state = "running"
    /\ LatestRevision(x) = r

\* Bounds the model: a suspended revision can always be resumed within it.
RoomToResume(x) ==
    /\ LatestRevision(x) < MaxRevision
    /\ Latest(x).fence < MaxFence

SealedBy(x, outcome) ==
    [Latest(x) EXCEPT !.state = StateFor(outcome), !.outcome = outcome]

Committed(x, outcome) == WithLatest(x, SealedBy(x, outcome))

\* register_suspended_wake_on
RegisteredWake(x, r, outcome) ==
    IF outcome.kind = "suspended"
    THEN {[exec |-> x, rev |-> r, condition |-> outcome.wake, payload |-> None]}
    ELSE {}

CommitExecutionOutcome(x, r, fence, outcome, requireRunning) ==
    /\ MayCommit(x, r, fence, requireRunning)
    /\ FoldsOutcomeCommitted(x)
    /\ outcome.kind = "suspended" => RoomToResume(x)
    /\ journal' = Committed(x, outcome)
    /\ wakes' = wakes \cup RegisteredWake(x, r, outcome)

\* Faults: an existing continuation is taken as it is, or overwritten.
ContinueIntoExisting(x, r, fence, outcome, childFence) ==
    LET child == outcome.next IN
    /\ outcome.kind = "completed"
    /\ child \in Executions \ {x}
    /\ MayCommit(x, r, fence, FALSE)
    /\ journal' = IF Exists(child) THEN Committed(x, outcome)
                  ELSE [Committed(x, outcome) EXCEPT ![child] = <<FreshRevision(childFence)>>]
    /\ UNCHANGED wakes
ContinueOverExisting(x, r, fence, outcome, childFence) ==
    /\ outcome.next \in Executions \ {x}
    /\ MayCommit(x, r, fence, FALSE)
    /\ journal' = [Committed(x, outcome) EXCEPT
                     ![outcome.next] = <<FreshRevision(childFence)>>]
    /\ UNCHANGED wakes

\* continue_execution_as_new: the parent completes and its continuation is
\* created in one transaction.  No running attempt is required.
ContinueExecutionAsNew(x, r, fence, outcome, childFence) ==
    LET child == outcome.next IN
    /\ outcome.kind = "completed"
    /\ child \in Executions
    /\ child # x
    /\ MayCommit(x, r, fence, FALSE)
    /\ ~Exists(child)
    /\ FoldsOutcomeCommitted(x)
    /\ journal' = [Committed(x, outcome) EXCEPT ![child] = <<FreshRevision(childFence)>>]
    /\ UNCHANGED wakes

\* What verify_registered_wake_on and deliver_pending_wake_on require of a
\* pending row: it is the one row of the latest, suspended revision.
Deliverable(w) ==
    LET x == w.exec IN
    /\ Exists(x)
    /\ w.rev = LatestRevision(x)
    /\ Latest(x).outcome.kind = "suspended"
    /\ Latest(x).outcome.wake = w.condition
    /\ Latest(x).delivery = None
    /\ RowsOf(x, w.rev) = {w}

\* Faults: the next revision keeps its predecessor's fence, or takes the fence
\* of an attempt that never started, or replaces its predecessor.
ResumedSameFence(x, payload) ==
    Append([journal[x] EXCEPT ![LatestRevision(x)].delivery = payload],
           FreshRevision(Latest(x).fence))
ResumedAttemptFence(x, payload) ==
    Append([journal[x] EXCEPT ![LatestRevision(x)].delivery = payload],
           FreshRevision(Latest(x).attempt.fence))
ResumedInPlace(x, payload) ==
    [journal[x] EXCEPT ![LatestRevision(x)] = FreshRevision(Latest(x).fence + 1)]

\* The latest revision records the payload and a fresh revision follows it; the
\* fence advances by one.
ResumedChain(revisions, payload) ==
    LET latest == Len(revisions) IN
    Append([revisions EXCEPT ![latest].delivery = payload],
           FreshRevision(revisions[latest].fence + 1))

Resumed(x, payload) == ResumedChain(journal[x], payload)

\* Fault: the row is not marked delivered.
DeliverKeepingRow(D, payload) ==
    /\ D # {}
    /\ \A w \in D : Deliverable(w) /\ FoldsWakeDelivered(w.exec, w.condition)
    /\ journal' = [x \in Executions |->
                     IF \E w \in D : w.exec = x THEN Resumed(x, payload) ELSE journal[x]]
    /\ UNCHANGED wakes

\* deliver_pending_wake_on for every row of D, in one transaction.
DeliverWakes(D, payload) ==
    /\ D # {}
    /\ \A w \in D : Deliverable(w) /\ FoldsWakeDelivered(w.exec, w.condition)
    /\ journal' = [x \in Executions |->
                     IF \E w \in D : w.exec = x THEN Resumed(x, payload) ELSE journal[x]]
    /\ wakes' = (wakes \ D) \cup {[w EXCEPT !.payload = payload] : w \in D}

\* wake_due_executions: the timers that are due, any of the pending ones, are
\* delivered in one transaction: one that cannot be delivered stops them all.
WakeDueExecutions(D, payload) ==
    /\ D \subseteq {w \in Pending : w.condition \in Timers}
    /\ DeliverWakes(D, payload)

\* deliver_execution_signal, deliver_execution_wake and
\* deliver_execution_wake_with: every pending row with exactly this condition.
DeliverExecutionWake(condition, payload) ==
    DeliverWakes({w \in Pending : w.condition = condition}, payload)

\* discard_pending_execution_wakes
DiscardPendingWakes(x) ==
    /\ wakes' = wakes \ {w \in Pending : w.exec = x}
    /\ UNCHANGED journal

-------------------------------------------------------------------------------
(* Any client may call any operation *)

Fences == 1 .. MaxFence
Revisions == 1 .. MaxRevision

JournalInit ==
    /\ journal = [x \in Executions |-> <<>>]
    /\ wakes = {}

Create == \E x \in Executions, f \in Fences : CreateExecution(x, f)
StartAttempt ==
    \E x \in Executions, r \in Revisions, f \in Fences, o \in Owners :
        StartExecutionAttempt(x, r, f, o)
ReclaimAttempt ==
    \E x \in Executions, r \in Revisions, e, f \in Fences, o \in Owners :
        ReclaimExecutionAttempt(x, r, e, f, o)
AdvanceFence ==
    \E x \in Executions, r \in Revisions, e, f \in Fences :
        AdvanceExecutionFence(x, r, e, f)
Commit ==
    \E x \in Executions, r \in Revisions, f \in Fences, o \in PlainOutcomes, q \in BOOLEAN :
        CommitExecutionOutcome(x, r, f, o, q)
ContinueAsNew ==
    \E x \in Executions, r \in Revisions, f, g \in Fences :
        \E o \in LinkedOutcomes : ContinueExecutionAsNew(x, r, f, o, g)
WakeDue ==
    \E p \in Payloads : \E D \in SUBSET {w \in Pending : w.condition \in Timers} :
        WakeDueExecutions(D, p)
DeliverWake ==
    \E c \in Conditions \ Timers, p \in Payloads : DeliverExecutionWake(c, p)
Discard ==
    \E x \in Executions : (\E w \in Pending : w.exec = x) /\ DiscardPendingWakes(x)

JournalNext ==
    \/ Create
    \/ StartAttempt
    \/ ReclaimAttempt
    \/ AdvanceFence
    \/ Commit
    \/ ContinueAsNew
    \/ WakeDue
    \/ DeliverWake
    \/ Discard

JournalSpec == JournalInit /\ [][JournalNext]_journalVars

-------------------------------------------------------------------------------
(* What the journal shows its clients: the contract of ExecutionContract. *)

OpenExecutions == {x \in Executions : Exists(x) /\ Unsealed(Latest(x))}

SealedCount(x) == IF x \in OpenExecutions THEN Len(journal[x]) - 1 ELSE Len(journal[x])

SealedOutcomes ==
    [x \in Executions |-> [r \in 1 .. SealedCount(x) |-> journal[x][r].outcome]]

Contract == INSTANCE ExecutionContract WITH sealed <- SealedOutcomes, open <- OpenExecutions

\* Whatever its clients do, the store keeps its contract: an execution gets one
\* outcome per run, in order and for ever, a terminal one is never reopened,
\* and a continuation appears exactly when its parent completes into it.
ImplementsContract == Contract!ContractSpec

-------------------------------------------------------------------------------
(* Properties *)

\* Every pending wake row can be delivered: it is the only row of the latest
\* revision of its execution, which is suspended on that very condition.  The
\* error branches of deliver_pending_wake_on are unreachable, so no row can
\* block the all-or-nothing batch of wake_due_executions.
PendingWakesDeliverable == \A w \in Pending : Deliverable(w)

\* The checks an operation makes before it appends and the ones fold_journal
\* makes when it re-reads the journal agree: an operation that passes its own
\* checks is never rolled back by the fold.
OperationsFold ==
    \A x \in Executions :
        /\ \A r \in Revisions, e \in Fences :
             /\ MayStartAttempt(x, r, e) => FoldsAttemptStarted(x, e)
             /\ MayCommit(x, r, e, FALSE) => FoldsOutcomeCommitted(x)
             /\ \A f \in Fences :
                  /\ MayReclaimAttempt(x, r, e, f) =>
                       FoldsAttemptReclaimed(x, Latest(x).attempt.owner, e, f)
                  /\ MayAdvanceFence(x, r, e, f) => FoldsFenceAdvanced(x, e, f)
        /\ \A w \in Pending :
             Deliverable(w) => FoldsWakeDelivered(w.exec, w.condition)

\* Continuations form chains: one that a completed outcome names was created
\* with it, no two revisions complete into the same one, and no execution is
\* its own descendant (every set of executions has one that continues outside).
Continuations(x) == {journal[x][r].outcome.next : r \in 1 .. Len(journal[x])} \ {None}

ContinuationLineage ==
    /\ \A x \in Executions : \A y \in Continuations(x) : Exists(y)
    /\ \A x, y \in Executions :
         x # y => Continuations(x) \cap Continuations(y) = {}
    /\ \A X \in (SUBSET Executions) \ {{}} :
         \E x \in X : Continuations(x) \cap X = {}

\* Fencing: an execution's fence never goes back, a new revision has a larger
\* one, and an attempt that is running passes to another owner only with a
\* larger fence.
FenceRises ==
    \A x \in Executions :
        Exists(x) =>
            /\ Latest(x).fence <= Latest(x)'.fence
            /\ LatestRevision(x) < LatestRevision(x)' => Latest(x).fence < Latest(x)'.fence
            /\ /\ LatestRevision(x) = LatestRevision(x)'
               /\ Latest(x).attempt # NoAttempt
               /\ Latest(x).attempt # Latest(x)'.attempt
               => Latest(x).fence < Latest(x)'.fence
FencingHolds == [][FenceRises]_journalVars

\* A committed outcome is final: the revision that carries it keeps its
\* outcome, fence and attempt for ever, and the payload that resumed it is
\* decided once.
OutcomesKept ==
    \A x \in Executions : \A r \in 1 .. LatestRevision(x) :
        journal[x][r].outcome # NoOutcome =>
            /\ r <= LatestRevision(x)'
            /\ journal'[x][r].outcome = journal[x][r].outcome
            /\ journal'[x][r].fence = journal[x][r].fence
            /\ journal'[x][r].attempt = journal[x][r].attempt
            /\ journal[x][r].delivery # None =>
                 journal'[x][r].delivery = journal[x][r].delivery
OutcomesSealed == [][OutcomesKept]_journalVars

-------------------------------------------------------------------------------
(* The inductive invariant behind these properties *)

\* The fields of a revision agree with one another.
RevisionConsistent(rv) ==
    /\ rv.outcome # NoOutcome => rv.state = rv.outcome.kind
    /\ rv.outcome = NoOutcome => /\ rv.state \in {"ready", "running"}
                                 /\ rv.state = "ready" <=> rv.attempt = NoAttempt
    /\ rv.state = "running" => rv.attempt.fence = rv.fence
    /\ rv.delivery # None => rv.outcome.kind = "suspended"

\* Only the latest revision is open, and it is the only one not resumed from.
ChainConsistent(revisions) ==
    \A r \in 1 .. Len(revisions) :
        /\ RevisionConsistent(revisions[r])
        /\ r = Len(revisions) <=> revisions[r].delivery = None
        /\ r < Len(revisions) => revisions[r].fence < revisions[r + 1].fence

\* A wake row mirrors the suspended revision that registered it.
RowConsistent(w) ==
    /\ w.rev <= Len(journal[w.exec])
    /\ journal[w.exec][w.rev].outcome.kind = "suspended"
    /\ journal[w.exec][w.rev].outcome.wake = w.condition
    /\ journal[w.exec][w.rev].delivery = w.payload
    /\ \A v \in wakes : (v.exec = w.exec /\ v.rev = w.rev) => v = w

\* A suspended revision has room for its successor within the model's bounds.
SuspendedHasRoom ==
    \A x \in Executions :
        (Exists(x) /\ Latest(x).outcome.kind = "suspended") => RoomToResume(x)

\* The journal and the wake table always describe one history: each revision is
\* consistent, the revisions form a chain of delivered suspensions with rising
\* fences, and each wake row mirrors the revision that registered it.
JournalConsistent ==
    /\ JournalTypeOK
    /\ \A x \in Executions : ChainConsistent(journal[x])
    /\ \A w \in wakes : RowConsistent(w)
    /\ SuspendedHasRoom
===============================================================================

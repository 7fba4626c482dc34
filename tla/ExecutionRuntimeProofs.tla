------------------------ MODULE ExecutionRuntimeProofs ------------------------
(***************************************************************************)
(* Proofs about ExecutionRuntime, for any executions, workers, conditions  *)
(* and bounds.  The runtime is one of the clients ExecutionJournal allows: *)
(* every step of it is an operation of the store or leaves the store       *)
(* alone, so that what is proved of the journal holds of it.  To that are  *)
(* added                                                                   *)
(*   RowsTyped          the rows of tasks;                                 *)
(*   WorkersPlaced      what a worker carries fits the journal;            *)
(*   ClocksDistinct     no two workers hold the same clock reading;        *)
(*   AttemptsOwned      a running attempt's fence is its owner's reading;  *)
(*   CancelledFinal     what a chat turn can still be given once its       *)
(*                      cancellation went through.                         *)
(***************************************************************************)
EXTENDS ExecutionRuntime, ExecutionJournalSteps, WellFoundedInduction

USE JournalAssumption, RuntimeAssumption

-------------------------------------------------------------------------------
(* The inductive invariant *)

Statuses == {"queued", "running"} \cup WaitingStatus \cup EndedStatus
RowState == [status : Statuses, owner : Workers \cup {None}, fence : 0 .. MaxFence,
             live : BOOLEAN, attempts : 0 .. MaxAttempts - 1]
WorkerState ==
    [pc : Watched \cup {"idle", "pick", "acquire", "report", "settle", "write", "fail",
                        "write_failure"},
     x : Executions \cup {None}, now : 0 .. MaxFence, attempts : 0 .. MaxAttempts - 1,
     rev : 0 .. MaxRevision, result : Outcomes \cup {NoOutcome}]

RowTyped(row) ==
    /\ row \in RowState
    /\ row.status = "running" \/ row.live => row.owner # None
RowsTyped ==
    /\ tasks \in [Executions -> RowState]
    /\ \A x \in Executions : RowTyped(tasks[x])
    /\ chats \in SUBSET Executions
    /\ projected \in [Executions -> 0 .. MaxRevision]
    /\ \A x \in Executions : projected[x] <= SealedCount(x)
    /\ up \in BOOLEAN
    /\ faults \in 0 .. MaxFaults
    /\ torn \in SUBSET chats

Placed(worker) ==
    /\ worker \in WorkerState
    /\ worker.pc # "idle" => worker.now \in Fences
    /\ worker.pc \notin {"idle", "pick"} => worker.x \in Executions
    /\ worker.pc \in {"start", "run", "commit"} =>
         worker.rev \in 1 .. Len(journal[worker.x])
    /\ worker.pc = "commit" => worker.result \in PlainOutcomes
WorkersPlaced ==
    /\ workers \in [Workers -> WorkerState]
    /\ \A w \in Workers : Placed(workers[w])

ClocksDistinct ==
    \A v, w \in Workers : (workers[v].now = workers[w].now /\ workers[w].now # 0) => v = w

AttemptsOwned ==
    \A x \in Executions : (Exists(x) /\ Latest(x).state = "running") =>
        \A w \in Workers : workers[w].now = Latest(x).attempt.fence =>
            Latest(x).attempt.owner = w

\* Nothing waits for a wake, and a worker that is about to commit the open
\* revision has seen the cancellation.
CancelledRowFinal(x) ==
    /\ \A v \in Pending : v.exec # x
    /\ (Exists(x) /\ Unsealed(Latest(x))) =>
         \A w \in Workers : (workers[w].pc = "commit" /\ workers[w].x = x) =>
             workers[w].result = CancelledByUser
CancelledFinal ==
    \A x \in chats \ torn : tasks[x].status = "cancelled" => CancelledRowFinal(x)

RuntimeInv ==
    /\ JournalConsistent /\ RowsTyped /\ WorkersPlaced
    /\ ClocksDistinct /\ AttemptsOwned /\ CancelledFinal

-------------------------------------------------------------------------------
(* The runtime is a client of the journal *)

\* A worker past its pick has an execution, a fence and, once it opened the
\* execution, a revision of it.
LEMMA WorkerFacts ==
    ASSUME RuntimeInv, NEW w \in Workers
    PROVE  /\ Placed(workers[w])
           /\ workers[w] \in WorkerState
           /\ workers[w].now \in Nat /\ workers[w].rev \in Nat
           /\ workers[w].pc # "idle" => workers[w].now \in Fences
           /\ workers[w].pc \notin {"idle", "pick"} => workers[w].x \in Executions
  BY DEF RuntimeInv, WorkersPlaced, Placed, WorkerState

\* What the store knows of an execution that exists.
LEMMA OpenFacts ==
    ASSUME RuntimeInv, NEW x \in Executions, Exists(x)
    PROVE  /\ LatestRevision(x) \in Revisions
           /\ Latest(x).fence \in Fences
           /\ Latest(x) \in Revision
           /\ RevisionConsistent(Latest(x))
  BY LatestFacts DEF RuntimeInv, LatestRevision, Revisions, Fences

\* Opening an execution creates, reclaims or advances it.
LEMMA OpenIsJournalStep ==
    ASSUME RuntimeInv, NEW w \in Workers, OpenExecution(w)
    PROVE  [JournalNext]_journalVars
  <1> DEFINE f == workers[w].now
  <1>1. PICK x \in Executions : x = workers[w].x
    BY WorkerFacts DEF OpenExecution
  <1>2. f \in Fences
    BY WorkerFacts DEF OpenExecution
  <1>3. \/ UNCHANGED journalVars
        \/ Exists(x) /\ ReclaimExecutionAttempt(x, LatestRevision(x), Latest(x).fence, f, w)
        \/ Exists(x) /\ AdvanceExecutionFence(x, LatestRevision(x), Latest(x).fence, f)
        \/ CreateExecution(x, f)
    BY <1>1 DEF OpenExecution
  <1>4. CASE Exists(x) /\ ReclaimExecutionAttempt(x, LatestRevision(x), Latest(x).fence, f, w)
    <2>1. ReclaimAttempt
      BY <1>2, <1>4, OpenFacts DEF ReclaimAttempt, Workers
    <2> QED  BY <2>1 DEF JournalNext
  <1>5. CASE Exists(x) /\ AdvanceExecutionFence(x, LatestRevision(x), Latest(x).fence, f)
    <2>1. AdvanceFence
      BY <1>2, <1>5, OpenFacts DEF AdvanceFence
    <2> QED  BY <2>1 DEF JournalNext
  <1>6. CASE CreateExecution(x, f)
    <2>1. Create
      BY <1>2, <1>6 DEF Create
    <2> QED  BY <2>1 DEF JournalNext
  <1> QED  BY <1>3, <1>4, <1>5, <1>6

\* Starting a run starts the attempt or finds it started.
LEMMA StartIsJournalStep ==
    ASSUME RuntimeInv, NEW w \in Workers, StartRun(w)
    PROVE  [JournalNext]_journalVars
  <1> DEFINE f == workers[w].now
             r == workers[w].rev
  <1>1. PICK x \in Executions : x = workers[w].x
    BY WorkerFacts DEF StartRun
  <1>2. f \in Fences
    BY WorkerFacts DEF StartRun
  <1>3. StartExecutionAttempt(x, r, f, w) \/ UNCHANGED journalVars
    BY <1>1 DEF StartRun
  <1>4. CASE StartExecutionAttempt(x, r, f, w)
    <2>1. r \in Revisions
      BY <1>4, OpenFacts DEF StartExecutionAttempt, MayStartAttempt
    <2>2. StartAttempt
      BY <1>2, <1>4, <2>1 DEF StartAttempt, Workers
    <2> QED  BY <2>2 DEF JournalNext
  <1> QED  BY <1>3, <1>4

\* A commit is one of the store's or is refused.
LEMMA CommitIsJournalStep ==
    ASSUME RuntimeInv, NEW w \in Workers, CommitResult(w)
    PROVE  [JournalNext]_journalVars
  <1> DEFINE f == workers[w].now
             r == workers[w].rev
             outcome == workers[w].result
  <1>1. PICK x \in Executions : x = workers[w].x
    BY WorkerFacts DEF CommitResult
  <1>2. f \in Fences /\ outcome \in PlainOutcomes
    BY WorkerFacts DEF CommitResult, Placed
  <1>3. CommitExecutionOutcome(x, r, f, outcome, TRUE) \/ UNCHANGED journalVars
    BY <1>1 DEF CommitResult
  <1>4. CASE CommitExecutionOutcome(x, r, f, outcome, TRUE)
    <2>1. r \in Revisions
      BY <1>4, OpenFacts DEF CommitExecutionOutcome, MayCommit
    <2>2. Commit
      BY <1>2, <1>4, <2>1 DEF Commit
    <2> QED  BY <2>2 DEF JournalNext
  <1> QED  BY <1>3, <1>4

\* A tick delivers due timers in one transaction.
LEMMA PickIsJournalStep ==
    ASSUME RuntimeInv, NEW w \in Workers, PickStep(w)
    PROVE  [JournalNext]_journalVars
  <1>1. PICK D \in SUBSET DueTimers : PickTask(w, D)
    BY DEF PickStep
  <1>2. UNCHANGED journalVars \/ \E p \in Payloads : WakeDueExecutions(D, p)
    BY <1>1 DEF PickTask
  <1>3. ASSUME NEW p \in Payloads, WakeDueExecutions(D, p)  PROVE WakeDue
    BY <1>1, <1>3 DEF WakeDue, DueTimers
  <1> QED  BY <1>2, <1>3 DEF JournalNext

\* cancel_chat_turn: an execution that waits is not open, so that of the two
\* writes to the store only one has anything to do.
LEMMA CancelledJournal ==
    ASSUME RuntimeInv, NEW x \in Executions, CancelChatTurn(x)
    PROVE  \/ /\ Exists(x) /\ Unsealed(Latest(x))
              /\ CommitExecutionOutcome(x, LatestRevision(x), Latest(x).fence,
                                        CancelledByUser, FALSE)
           \/ /\ ~(Exists(x) /\ Unsealed(Latest(x)))
              /\ (\E v \in Pending : v.exec = x) => DiscardPendingWakes(x)
              /\ (~\E v \in Pending : v.exec = x) => UNCHANGED journalVars
              /\ journal' = journal /\ \A v \in Pending' : v.exec # x
  <1>1. wakes' = wakes \ {v \in Pending : v.exec = x}
    BY DEF CancelChatTurn
  <1>2. CASE Exists(x) /\ Unsealed(Latest(x))
    <2>1. \A v \in Pending : v.exec # x
      <3> SUFFICES ASSUME NEW v \in Pending, v.exec = x  PROVE FALSE
        OBVIOUS
      <3>1. v \in wakes /\ v.payload = None  BY DEF Pending
      <3>2. RowConsistent(v) /\ v.rev \in Nat \ {0} /\ ChainOK(journal[x])
        BY <3>1, ConsistentByChains DEF RuntimeInv, WakeRow
      <3>3. /\ v.rev \in 1 .. Len(journal[x])
            /\ journal[x][v.rev].delivery = None
            /\ journal[x][v.rev].outcome.kind = "suspended"
        BY <1>2, <3>1, <3>2, OpenFacts DEF RowConsistent, LatestRevision, Revisions
      <3>4. v.rev = Len(journal[x])
        BY <3>2, <3>3 DEF ChainOK, ChainConsistent
      <3>5. Latest(x).outcome.kind = "suspended"
        BY <3>3, <3>4 DEF Latest, LatestRevision
      <3> QED  BY <1>2, <3>5 DEF Unsealed, NoOutcome
    <2>2. wakes' = wakes
      BY <1>1, <2>1
    <2>3. journal' = Committed(x, CancelledByUser)
      BY <1>2 DEF CancelChatTurn
    <2>4. RegisteredWake(x, LatestRevision(x), CancelledByUser) = {}
      BY DEF RegisteredWake, CancelledByUser, OutcomeOf
    <2>5. MayCommit(x, LatestRevision(x), Latest(x).fence, FALSE)
      BY <1>2, OpenFacts DEF MayCommit, Unsealed, Latest, Revisions
    <2> QED
      BY <1>2, <2>2, <2>3, <2>4, <2>5
      DEF CommitExecutionOutcome, FoldsOutcomeCommitted, CancelledByUser, OutcomeOf
  <1>3. CASE ~(Exists(x) /\ Unsealed(Latest(x)))
    <2>1. journal' = journal
      BY <1>3 DEF CancelChatTurn
    <2>2. \A v \in Pending' : v.exec # x
      BY <1>1 DEF Pending
    <2> QED
      BY <1>1, <1>3, <2>1, <2>2 DEF DiscardPendingWakes, journalVars
  <1> QED  BY <1>2, <1>3

\* The outcome of a cancellation can be committed.
LEMMA CancelledByUserTyped == CancelledByUser \in PlainOutcomes
  BY DEF CancelledByUser, OutcomeOf, PlainOutcomes, Terminal, TerminalKinds

\* A cancellation commits an outcome or discards wakes.
LEMMA CancelIsJournalStep ==
    ASSUME RuntimeInv, NEW x \in Executions, CancelChatTurn(x)
    PROVE  [JournalNext]_journalVars
  <1>1. CASE /\ Exists(x) /\ Unsealed(Latest(x))
             /\ CommitExecutionOutcome(x, LatestRevision(x), Latest(x).fence,
                                       CancelledByUser, FALSE)
    <2>1. Commit
      BY <1>1, OpenFacts, CancelledByUserTyped DEF Commit
    <2> QED  BY <2>1 DEF JournalNext
  <1>2. CASE (\E v \in Pending : v.exec = x) /\ DiscardPendingWakes(x)
    <2>1. Discard
      BY <1>2 DEF Discard
    <2> QED  BY <2>1 DEF JournalNext
  <1> QED  BY <1>1, <1>2, CancelledJournal

\* A cancellation that was cut short.
CutShort(x) == CancelFails(x) \/ CrashInCancel(x)

\* Nobody but cancel_chat_turn and the user's next message takes wakes away.
LEMMA CutShortFacts ==
    ASSUME NEW x, CutShort(x) \/ DiscardStaleWake(x)
    PROVE  UNCHANGED journalVars \/ DiscardPendingWakes(x)
  BY DEF CutShort, CancelFails, CrashInCancel, CancelCutShort, DiscardStaleWake

\* Wakes are discarded, or there is none.
LEMMA CutShortIsJournalStep ==
    ASSUME NEW x \in Executions, CutShort(x) \/ DiscardStaleWake(x)
    PROVE  [JournalNext]_journalVars
  <1>1. CASE UNCHANGED journalVars
    BY <1>1
  <1>2. CASE DiscardPendingWakes(x) /\ \E v \in Pending : v.exec = x
    <2>1. Discard
      BY <1>2 DEF Discard
    <2> QED  BY <2>1 DEF JournalNext
  <1>3. CASE DiscardPendingWakes(x) /\ ~\E v \in Pending : v.exec = x
    BY <1>3 DEF DiscardPendingWakes, journalVars
  <1> QED  BY <1>1, <1>2, <1>3, CutShortFacts

\* Whatever the runtime does, the store sees one of its own operations.
LEMMA StepIsJournalStep ==
    ASSUME RuntimeInv, RuntimeNext
    PROVE  [JournalNext]_journalVars
  <1>1. ASSUME NEW w \in Workers, OpenExecution(w) \/ StartRun(w) \/ CommitResult(w) \/ PickStep(w)
        PROVE  [JournalNext]_journalVars
    BY <1>1, OpenIsJournalStep, StartIsJournalStep, CommitIsJournalStep, PickIsJournalStep
  <1>2. ASSUME NEW x \in Executions, CancelChatTurn(x)  PROVE [JournalNext]_journalVars
    BY <1>2, CancelIsJournalStep
  <1>3. ASSUME NEW c \in Conditions, DeliverSignal(c)  PROVE [JournalNext]_journalVars
    <2>1. DeliverWake
      BY <1>3 DEF DeliverSignal, DeliverWake
    <2> QED  BY <2>1 DEF JournalNext
  <1>4. CASE UNCHANGED journalVars
    BY <1>4
  <1>5. ASSUME NEW x \in Executions, CutShort(x) \/ DiscardStaleWake(x)
        PROVE  [JournalNext]_journalVars
    BY <1>5, CutShortIsJournalStep
  <1> QED
    BY <1>1, <1>2, <1>3, <1>4, <1>5
    DEF RuntimeNext, CutShort, WorkerStep, ReadClock, AcquireTask, AdapterReturns, ReportRun, SettleRun,
        WriteRow, CheckAfterError, WriteFailure, RunFails, Heartbeat, LeaseLapses,
        CancelTask, ProjectTaskState, CrashGateway, RestartGateway

\* Revisions and outcomes are never taken back.
LEMMA JournalGrows ==
    ASSUME RuntimeInv, [JournalNext]_journalVars, NEW x \in Executions
    PROVE  /\ JournalConsistent'
           /\ LatestRevision(x) \in Nat /\ LatestRevision(x)' \in 0 .. MaxRevision
           /\ LatestRevision(x) <= LatestRevision(x)'
           /\ SealedCount(x) \in Nat /\ SealedCount(x)' \in 0 .. MaxRevision
           /\ SealedCount(x) <= SealedCount(x)'
  <1> DEFINE n == Len(journal[x])
             k == Len(journal'[x])
  <1>1. JournalConsistent /\ JournalConsistent'
    BY StepConsistent DEF RuntimeInv
  <1>2. /\ journal[x] \in Seq(Revision) /\ journal'[x] \in Seq(Revision)
        /\ n <= MaxRevision /\ k <= MaxRevision
    BY <1>1 DEF JournalConsistent, JournalTypeOK
  <1>3. n \in Nat /\ k \in Nat /\ (Exists(x) <=> n # 0) /\ (Exists(x)' <=> k # 0)
    BY <1>2, EmptySeq, LenProperties DEF Exists
  <1>4. n <= k /\ (Exists(x) => Exists(x)')
    <2>1. Effect(x)  BY <1>1, StepEffect
    <2>2. ASSUME NEW p, ResumedBy(x, p)  PROVE k = n + 1
      BY <2>2 DEF ResumedBy
    <2> QED  BY <1>3, <2>1, <2>2 DEF Effect, Rewritten
  <1>5. /\ SealedCount(x) = IF Exists(x) /\ Unsealed(Latest(x)) THEN n - 1 ELSE n
        /\ SealedCount(x)' = IF Exists(x)' /\ Unsealed(Latest(x))' THEN k - 1 ELSE k
    BY DEF SealedCount, OpenExecutions
  <1>6. n = k => (Exists(x)' /\ Unsealed(Latest(x))' => Exists(x) /\ Unsealed(Latest(x)))
    <2>1. Effect(x)  BY <1>1, StepEffect
    <2>2. ASSUME NEW p, ResumedBy(x, p)  PROVE k = n + 1
      BY <2>2 DEF ResumedBy
    <2>3. CASE journal'[x] = journal[x]
      BY <2>3 DEF Exists, Latest, LatestRevision
    <2>4. CASE Exists(x) /\ Rewritten(x)
      BY <2>4 DEF Rewritten, Latest, LatestRevision
    <2> QED  BY <1>3, <2>1, <2>2, <2>3, <2>4 DEF Effect
  <1> HIDE DEF n, k
  <1>7. /\ SealedCount(x) \in Nat /\ SealedCount(x)' \in Nat
        /\ SealedCount(x) <= SealedCount(x)' /\ SealedCount(x)' <= k
    BY <1>3, <1>4, <1>5, <1>6
  <1> QED  BY <1>1, <1>2, <1>3, <1>4, <1>7 DEF LatestRevision, n, k

-------------------------------------------------------------------------------
(* Rows of tasks *)

\* A row that loses its lease keeps its status and its attempts.
LEMMA UnleasedTyped ==
    ASSUME NEW row, RowTyped(row), row.status # "running"
    PROVE  RowTyped(Unleased(row)) /\ Unleased(row).status = row.status
  <1> DEFINE a == [row EXCEPT !.owner = None]
             b == [a EXCEPT !.fence = 0]
             c == [b EXCEPT !.live = FALSE]
  <1>1. a \in RowState /\ a.status = row.status
    BY DEF RowTyped, RowState
  <1> HIDE DEF a
  <1>2. b \in RowState /\ b.status = row.status
    BY <1>1 DEF RowState
  <1> HIDE DEF b
  <1>3. c \in RowState /\ c.status = row.status /\ c.live = FALSE
    BY <1>2 DEF RowState
  <1>4. Unleased(row) = c
    BY DEF Unleased, a, b
  <1> HIDE DEF c
  <1> QED  BY <1>3, <1>4 DEF RowTyped

\* The write of a status, with a lease that ends.
LEMMA BecomeTyped ==
    ASSUME NEW row, RowTyped(row), NEW status \in Statuses \ {"running"}
    PROVE  /\ RowTyped(Become(row, status))
           /\ Become(row, status).status = status
           /\ Become(row, status).live = FALSE
  <1> DEFINE a == [row EXCEPT !.owner = None]
             b == [a EXCEPT !.fence = 0]
             c == [b EXCEPT !.live = FALSE]
             d == [c EXCEPT !.status = status]
  <1>1. a \in RowState
    BY DEF RowTyped, RowState
  <1> HIDE DEF a
  <1>2. b \in RowState
    BY <1>1 DEF RowState
  <1> HIDE DEF b
  <1>3. c \in RowState /\ c.live = FALSE
    BY <1>2 DEF RowState
  <1>4. Unleased(row) = c
    BY DEF Unleased, a, b
  <1> HIDE DEF c
  <1>5. d \in RowState /\ d.status = status /\ d.live = FALSE
    BY <1>3 DEF RowState
  <1>6. Become(row, status) = d
    BY <1>4 DEF Become
  <1> HIDE DEF d
  <1> QED  BY <1>5, <1>6 DEF RowTyped

\* The record a worker writes back.
LEMMA WrittenTyped ==
    ASSUME RuntimeInv, NEW w \in Workers, workers[w].x \in Executions,
           NEW status \in Statuses \ {"running"}, NEW attempts \in 0 .. MaxAttempts - 1
    PROVE  RowTyped(Written(w, status, attempts)) /\ Written(w, status, attempts).status = status
  <1> DEFINE row == Become(Task(w), status)
             new == [row EXCEPT !.attempts = attempts]
  <1>1. RowTyped(Task(w))
    BY DEF RuntimeInv, RowsTyped, Task
  <1>2. RowTyped(row) /\ row.status = status /\ row.live = FALSE
    BY <1>1, BecomeTyped
  <1> HIDE DEF row
  <1>3. new \in RowState /\ new.status = status /\ new.live = FALSE
    BY <1>2 DEF RowTyped, RowState
  <1>4. Written(w, status, attempts) = new
    BY DEF Written, row
  <1> HIDE DEF new
  <1> QED  BY <1>3, <1>4 DEF RowTyped

\* handle_failed_task_run
LEMMA AfterFailureTyped ==
    ASSUME RuntimeInv, NEW w \in Workers, workers[w].x \in Executions,
           NEW status \in Statuses \ {"running", "cancelled"}
    PROVE  RowTyped(AfterFailure(w, status)) /\ AfterFailure(w, status).status # "cancelled"
  <1>1. workers[w].attempts \in 0 .. MaxAttempts - 1
    BY WorkerFacts DEF WorkerState
  <1>2. "queued" \in Statuses \ {"running"} /\ MaxAttempts \in Nat
    BY DEF Statuses
  <1>3. CASE workers[w].attempts + 1 < MaxAttempts
    <2>1. workers[w].attempts + 1 \in 0 .. MaxAttempts - 1
      BY <1>1, <1>2, <1>3
    <2>2. AfterFailure(w, status) = Written(w, "queued", workers[w].attempts + 1)
      BY <1>3 DEF AfterFailure
    <2> QED  BY <1>2, <2>1, <2>2, WrittenTyped
  <1>4. CASE ~(workers[w].attempts + 1 < MaxAttempts)
    <2>1. AfterFailure(w, status) = Written(w, status, workers[w].attempts)
      BY <1>4 DEF AfterFailure
    <2> QED  BY <1>1, <2>1, WrittenTyped
  <1> QED  BY <1>3, <1>4

\* The row after a run, whatever its outcome.
LEMMA AfterRunTyped ==
    ASSUME RuntimeInv, NEW w \in Workers, workers[w].x \in Executions
    PROVE  RowTyped(AfterRun(w)) /\ AfterRun(w).status # "cancelled"
  <1> DEFINE status == StatusOf(workers[w].result)
  <1>1. workers[w].attempts \in 0 .. MaxAttempts - 1
    BY WorkerFacts DEF WorkerState
  <1>2. \/ status \in {"completed", "waiting_time", "waiting_user"} /\ AfterRun(w) = Written(w, status, workers[w].attempts)
        \/ AfterRun(w) \in {AfterFailure(w, "failed"), AfterFailure(w, "waiting_external")}
    BY DEF AfterRun
  <1> HIDE DEF status
  <1>3. CASE status \in {"completed", "waiting_time", "waiting_user"} /\ AfterRun(w) = Written(w, status, workers[w].attempts)
    <2>1. status \in Statuses \ {"running"}
      BY <1>3 DEF Statuses, WaitingStatus, EndedStatus
    <2> QED  BY <1>1, <1>3, <2>1, WrittenTyped
  <1>4. CASE AfterRun(w) \in {AfterFailure(w, "failed"), AfterFailure(w, "waiting_external")}
    <2>1. {"failed", "waiting_external"} \subseteq Statuses \ {"running", "cancelled"}
      BY DEF Statuses, WaitingStatus, EndedStatus
    <2> QED  BY <1>4, <2>1, AfterFailureTyped
  <1> QED  BY <1>2, <1>3, <1>4

\* A write to the rows; a row that is cancelled by it is written by the user or by
\* the projector.
TasksMove ==
    /\ tasks' \in [Executions -> RowState]
    /\ \A x \in Executions : RowTyped(tasks'[x])
Cancelling(x) ==
    \/ CancelTask(x) \/ CancelChatTurn(x) \/ CutShort(x)
    \/ \E done \in BOOLEAN : ProjectTaskState(x, done)
NewlyCancelled ==
    \A x \in Executions :
        tasks'[x].status = "cancelled" => tasks[x].status = "cancelled" \/ Cancelling(x)

\* A statement that writes one row.
LEMMA OneTaskMoves ==
    ASSUME RuntimeInv, NEW x \in Executions, NEW row, RowTyped(row), SetTask(x, row)
    PROVE  /\ TasksMove
           /\ tasks'[x] = row /\ \A y \in Executions \ {x} : tasks'[y] = tasks[y]
  BY DEF RuntimeInv, RowsTyped, RowTyped, TasksMove, SetTask

\* A statement that writes one row, and cancels it only for the user or the
\* projector.
LEMMA OneTaskKept ==
    ASSUME RuntimeInv, NEW x \in Executions, NEW row, RowTyped(row), SetTask(x, row),
           row.status = "cancelled" => tasks[x].status = "cancelled" \/ Cancelling(x)
    PROVE  TasksMove /\ NewlyCancelled
  BY OneTaskMoves DEF NewlyCancelled

\* A statement that queues some of the rows.
LEMMA QueuedRows ==
    ASSUME RuntimeInv, NEW X,
           tasks' = [x \in Executions |-> IF x \in X THEN Become(tasks[x], "queued")
                                          ELSE tasks[x]]
    PROVE  TasksMove /\ NewlyCancelled
  <1>1. "queued" \in Statuses \ {"running"}
    BY DEF Statuses
  <1>2. ASSUME NEW x \in Executions
        PROVE  /\ RowTyped(tasks'[x])
               /\ tasks'[x].status = "cancelled" => tasks[x].status = "cancelled"
    <2>1. RowTyped(tasks[x])
      BY DEF RuntimeInv, RowsTyped
    <2>2. CASE x \in X
      <3>1. tasks'[x] = Become(tasks[x], "queued")  BY <2>2
      <3> QED  BY <1>1, <2>1, <3>1, BecomeTyped
    <2>3. CASE x \notin X
      <3>1. tasks'[x] = tasks[x]  BY <2>3
      <3> QED  BY <2>1, <3>1
    <2> QED  BY <2>2, <2>3
  <1>3. tasks' \in [Executions -> RowState]
    <2>1. tasks' = [x \in Executions |-> tasks'[x]]
      OBVIOUS
    <2> QED  BY <1>2, <2>1 DEF RowTyped
  <1> QED  BY <1>2, <1>3 DEF TasksMove, NewlyCancelled

\* A revision below SealedCount has its outcome, and only the latest one can be
\* other than suspended.
LEMMA SealedTyped ==
    ASSUME JournalConsistent, NEW x \in Executions, NEW r \in 1 .. SealedCount(x)
    PROVE  /\ r \in 1 .. Len(journal[x])
           /\ journal[x][r].outcome \in Outcomes
           /\ r = Len(journal[x]) \/ journal[x][r].outcome.kind = "suspended"
           /\ r = Len(journal[x]) => Exists(x) /\ ~Unsealed(Latest(x))
  <1> DEFINE n == Len(journal[x])
  <1>1. journal[x] \in Seq(Revision) /\ ChainConsistent(journal[x])
    BY ConsistentByChains DEF ChainOK
  <1>2. n \in Nat
    BY <1>1
  <1>3. SealedCount(x) = IF Exists(x) /\ Unsealed(Latest(x)) THEN n - 1 ELSE n
    BY DEF SealedCount, OpenExecutions
  <1>4. r \in 1 .. n /\ (r = n => ~(Exists(x) /\ Unsealed(Latest(x))))
    BY <1>2, <1>3
  <1>5. Exists(x)
    <2>1. Len(<<>>) = 0  BY EmptySeq
    <2> QED  BY <1>2, <1>4, <2>1 DEF Exists
  <1>6. journal[x][r] \in Revision
    BY <1>1, <1>4, ElementOfSeq
  <1>7. r # n => journal[x][r].outcome.kind = "suspended"
    BY <1>1, <1>4 DEF ChainConsistent, RevisionConsistent
  <1>8. r = n => journal[x][r].outcome # NoOutcome
    BY <1>4, <1>5 DEF Unsealed, Latest, LatestRevision
  <1>9. journal[x][r].outcome # NoOutcome
    BY <1>7, <1>8 DEF NoOutcome
  <1>10. journal[x][r].outcome \in Outcomes
    BY <1>6, <1>9 DEF Revision
  <1> QED  BY <1>4, <1>5, <1>7, <1>10

\* The status of an outcome, which is cancelled only if the outcome is.
LEMMA StatusTyped ==
    ASSUME NEW outcome \in Outcomes
    PROVE  /\ StatusOf(outcome) \in Statuses \ {"running"}
           /\ StatusOf(outcome) = "cancelled" => outcome.kind = "cancelled"
  <1>1. outcome.kind \in {"suspended"} \cup TerminalKinds
    BY OutcomeKinds
  <1>2. CASE outcome.kind # "suspended"
    <2>0. outcome.wake = None
      BY <1>2 DEF Outcomes, PlainOutcomes, LinkedOutcomes, Suspended, Terminal
    <2>1. StatusOf(outcome) = outcome.kind
      BY <1>2, <2>0 DEF StatusOf
    <2>2. outcome.kind \in EndedStatus
      BY <1>1, <1>2 DEF TerminalKinds, EndedStatus
    <2> QED  BY <2>1, <2>2 DEF Statuses, EndedStatus
  <1>3. CASE outcome.kind = "suspended"
    <2>1. StatusOf(outcome) \in WaitingStatus
      BY <1>3 DEF StatusOf, WaitingStatus
    <2> QED  BY <2>1 DEF Statuses, WaitingStatus
  <1> QED  BY <1>2, <1>3

\* A tick queues the rows it recovers or wakes.
LEMMA PickMovesTasks ==
    ASSUME RuntimeInv, NEW w \in Workers, PickStep(w)
    PROVE  TasksMove /\ NewlyCancelled
  <1>1. PICK D \in SUBSET DueTimers : PickTask(w, D)
    BY DEF PickStep
  <1> DEFINE X == {x \in Executions : (\E v \in D : v.exec = x) \/ StaleLease(tasks[x])}
  <1>2. tasks' = [x \in Executions |-> IF x \in X THEN Become(tasks[x], "queued") ELSE tasks[x]]
    BY <1>1 DEF PickTask, Refreshed
  <1> QED  BY <1>2, QueuedRows

\* A signal queues the rows it wakes.
LEMMA SignalMovesTasks ==
    ASSUME RuntimeInv, NEW c \in Conditions, DeliverSignal(c)
    PROVE  TasksMove /\ NewlyCancelled
  <1> DEFINE X == {x \in Executions : \E v \in {u \in Pending : u.condition = c} : v.exec = x}
  <1>1. tasks' = [x \in Executions |-> IF x \in X THEN Become(tasks[x], "queued") ELSE tasks[x]]
    BY DEF DeliverSignal
  <1> QED  BY <1>1, QueuedRows

\* An acquired row runs and is leased.
LEMMA AcquireMovesTasks ==
    ASSUME RuntimeInv, NEW w \in Workers, AcquireTask(w)
    PROVE  TasksMove /\ NewlyCancelled
  <1> DEFINE now == workers[w].now
             row == Task(w)
             a == [row EXCEPT !.status = "running"]
             b == [a EXCEPT !.owner = w]
             c == [b EXCEPT !.fence = now]
             d == [c EXCEPT !.live = TRUE]
  <1>1. workers[w].x \in Executions /\ now \in 0 .. MaxFence
    BY WorkerFacts DEF AcquireTask, Fences
  <1>2. row \in RowState /\ w # None
    BY <1>1 DEF RuntimeInv, RowsTyped, RowTyped, Task, Workers
  <1> HIDE DEF now, row
  <1>3. a \in RowState /\ a.status = "running"
    BY <1>2 DEF RowState, Statuses
  <1> HIDE DEF a
  <1>4. b \in RowState /\ b.status = "running" /\ b.owner = w
    BY <1>3 DEF RowState
  <1> HIDE DEF b
  <1>5. c \in RowState /\ c.status = "running" /\ c.owner = w
    BY <1>1, <1>4 DEF RowState
  <1> HIDE DEF c
  <1>6. d \in RowState /\ d.status = "running" /\ d.owner = w
    BY <1>5 DEF RowState
  <1>7. UNCHANGED tasks \/ SetTask(workers[w].x, d)
    BY DEF AcquireTask, a, b, c, now, row
  <1> HIDE DEF d
  <1>8. RowTyped(d)
    BY <1>2, <1>6 DEF RowTyped
  <1>9. CASE SetTask(workers[w].x, d)
    BY <1>1, <1>6, <1>8, <1>9, OneTaskKept
  <1>10. CASE UNCHANGED tasks
    BY <1>10 DEF RuntimeInv, RowsTyped, TasksMove, NewlyCancelled
  <1> QED  BY <1>7, <1>9, <1>10

\* Heartbeats and lapses change only the lease.
LEMMA LiveTyped ==
    ASSUME NEW row, RowTyped(row), NEW b \in BOOLEAN, b => row.owner # None
    PROVE  RowTyped([row EXCEPT !.live = b]) /\ [row EXCEPT !.live = b].status = row.status
  BY DEF RowTyped, RowState

\* A lapse or a heartbeat changes only whether the lease is live.
LEMMA LeaseMovesTasks ==
    ASSUME RuntimeInv,
           \/ \E w \in Workers : Heartbeat(w)
           \/ \E x \in Executions : LeaseLapses(x)
    PROVE  TasksMove /\ NewlyCancelled
  <1>1. ASSUME NEW w \in Workers, Heartbeat(w)  PROVE TasksMove /\ NewlyCancelled
    <2> DEFINE row == [Task(w) EXCEPT !.live = TRUE]
    <2>1. workers[w].x \in Executions
      BY <1>1, WorkerFacts DEF Heartbeat, Watched
    <2>2. RowTyped(Task(w)) /\ Task(w).owner = w /\ w # None
      BY <1>1, <2>1 DEF Heartbeat, LeaseOurs, RuntimeInv, RowsTyped, Task, Workers
    <2>3. RowTyped(row) /\ row.status = Task(w).status
      BY <2>2, LiveTyped
    <2>4. SetTask(workers[w].x, row)
      BY <1>1 DEF Heartbeat
    <2> HIDE DEF row
    <2> QED  BY <2>1, <2>3, <2>4, OneTaskKept DEF Task
  <1>2. ASSUME NEW x \in Executions, LeaseLapses(x)  PROVE TasksMove /\ NewlyCancelled
    <2> DEFINE row == [tasks[x] EXCEPT !.live = FALSE]
    <2>1. RowTyped(tasks[x])
      BY DEF RuntimeInv, RowsTyped
    <2>2. RowTyped(row) /\ row.status = tasks[x].status
      BY <2>1, LiveTyped
    <2>3. SetTask(x, row)
      BY <1>2 DEF LeaseLapses
    <2> HIDE DEF row
    <2> QED  BY <2>2, <2>3, OneTaskKept
  <1> QED  BY <1>1, <1>2

\* The row written after a run is never cancelled by it.
LEMMA WriteMovesTasks ==
    ASSUME RuntimeInv, NEW w \in Workers, WriteRow(w) \/ WriteFailure(w)
    PROVE  TasksMove /\ NewlyCancelled
  <1>1. workers[w].x \in Executions
    BY WorkerFacts DEF WriteRow, WriteFailure
  <1>2. \/ SetTask(workers[w].x, AfterRun(w))
        \/ SetTask(workers[w].x, AfterFailure(w, "failed"))
    BY DEF WriteRow, WriteFailure
  <1>3. "failed" \in Statuses \ {"running", "cancelled"}
    BY DEF Statuses, EndedStatus
  <1> QED  BY <1>1, <1>2, <1>3, AfterRunTyped, AfterFailureTyped, OneTaskKept

\* The user's cancellation, of a row that runs or of one that does not.
LEMMA CancelledRowTyped ==
    ASSUME RuntimeInv, NEW x \in Executions
    PROVE  RowTyped(CancelledRow(x)) /\ CancelledRow(x).status = "cancelled"
  <1>1. RowTyped(tasks[x]) /\ "cancelled" \in Statuses \ {"running"}
    BY DEF RuntimeInv, RowsTyped, Statuses, EndedStatus
  <1>2. CASE tasks[x].status = "running"
    <2> DEFINE row == [tasks[x] EXCEPT !.status = "cancelled"]
    <2>1. CancelledRow(x) = row
      BY <1>2 DEF CancelledRow
    <2>2. row \in RowState /\ row.status = "cancelled" /\ row.owner = tasks[x].owner
      BY <1>1 DEF RowTyped, RowState
    <2>3. tasks[x].owner # None
      BY <1>1, <1>2 DEF RowTyped
    <2> HIDE DEF row
    <2> QED  BY <2>1, <2>2, <2>3 DEF RowTyped
  <1>3. CASE tasks[x].status # "running"
    <2>1. CancelledRow(x) = Become(tasks[x], "cancelled")
      BY <1>3 DEF CancelledRow
    <2>2. /\ RowTyped(Become(tasks[x], "cancelled"))
          /\ Become(tasks[x], "cancelled").status = "cancelled"
      BY <1>1, BecomeTyped
    <2> QED  BY <2>1, <2>2
  <1> QED  BY <1>2, <1>3

\* A cancellation and the projector write one row.
LEMMA CancelMovesTasks ==
    ASSUME RuntimeInv, NEW x \in Executions, Cancelling(x)
    PROVE  TasksMove /\ NewlyCancelled
  <1>1. CASE CancelTask(x) \/ CancelChatTurn(x) \/ CutShort(x)
    <2>1. SetTask(x, CancelledRow(x))
      BY <1>1
      DEF CancelTask, CancelChatTurn, CutShort, CancelFails, CrashInCancel, CancelCutShort
    <2> QED  BY <2>1, CancelledRowTyped, OneTaskKept
  <1>2. CASE \E done \in BOOLEAN : ProjectTaskState(x, done)
    <2> DEFINE r == projected[x] + 1
               status == StatusOf(journal[x][r].outcome)
    <2>1. projected[x] \in Nat /\ SealedCount(x) \in Nat
      <3>1. SealedCount(x) \in Nat
        <4>1. [JournalNext]_journalVars
          BY <1>2 DEF ProjectTaskState
        <4> QED  BY <4>1, JournalGrows
      <3> QED  BY <3>1 DEF RuntimeInv, RowsTyped
    <2>2. r \in 1 .. SealedCount(x)
      BY <1>2, <2>1 DEF ProjectTaskState
    <2>3. status \in Statuses \ {"running"}
      BY <2>2, SealedTyped, StatusTyped DEF RuntimeInv
    <2>4. SetTask(x, Become(tasks[x], status))
      BY <1>2 DEF ProjectTaskState
    <2> HIDE DEF status
    <2>5. RowTyped(tasks[x])
      BY DEF RuntimeInv, RowsTyped
    <2>6. RowTyped(Become(tasks[x], status))
      BY <2>3, <2>5, BecomeTyped
    <2> QED  BY <2>4, <2>6, OneTaskKept
  <1> QED  BY <1>1, <1>2 DEF Cancelling

\* A restart queues running turns and takes the lease of ended ones.
LEMMA RestartMovesTasks ==
    ASSUME RuntimeInv, RestartGateway
    PROVE  TasksMove /\ NewlyCancelled
  <1>1. "queued" \in Statuses \ {"running"}
    BY DEF Statuses
  <1>2. ASSUME NEW x \in Executions
        PROVE  /\ RowTyped(tasks'[x])
               /\ tasks'[x].status = "cancelled" => tasks[x].status = "cancelled"
    <2>1. RowTyped(tasks[x])
      BY DEF RuntimeInv, RowsTyped
    <2>2. tasks[x].status \in EndedStatus => tasks[x].status # "running"
      BY DEF EndedStatus
    <2>3. \/ tasks'[x] = tasks[x]
          \/ tasks'[x] = Become(tasks[x], "queued")
          \/ tasks[x].status \in EndedStatus /\ tasks'[x] = Unleased(tasks[x])
      BY DEF RestartGateway
    <2>4. /\ RowTyped(Become(tasks[x], "queued"))
          /\ Become(tasks[x], "queued").status = "queued"
      BY <1>1, <2>1, BecomeTyped
    <2>5. tasks[x].status \in EndedStatus =>
            /\ RowTyped(Unleased(tasks[x]))
            /\ Unleased(tasks[x]).status = tasks[x].status
      BY <2>1, <2>2, UnleasedTyped
    <2> QED  BY <2>1, <2>3, <2>4, <2>5
  <1>3. tasks' \in [Executions -> RowState]
    <2>1. tasks' = [x \in Executions |-> tasks'[x]]
      BY DEF RestartGateway
    <2> QED  BY <1>2, <2>1 DEF RowTyped
  <1> QED  BY <1>2, <1>3 DEF TasksMove, NewlyCancelled

\* The step that cancels a row is the user's or the projector's.
LEMMA StepMovesTasks ==
    ASSUME RuntimeInv, RuntimeNext
    PROVE  TasksMove /\ NewlyCancelled
  <1>1. CASE UNCHANGED tasks
    BY <1>1 DEF RuntimeInv, RowsTyped, TasksMove, NewlyCancelled
  <1>2. ASSUME NEW w \in Workers, PickStep(w) \/ AcquireTask(w) \/ WriteRow(w) \/ WriteFailure(w)
        PROVE  TasksMove /\ NewlyCancelled
    BY <1>2, PickMovesTasks, AcquireMovesTasks, WriteMovesTasks
  <1>3. ASSUME NEW x \in Executions, Cancelling(x)  PROVE TasksMove /\ NewlyCancelled
    BY <1>3, CancelMovesTasks
  <1>4. ASSUME NEW c \in Conditions, DeliverSignal(c)  PROVE TasksMove /\ NewlyCancelled
    BY <1>4, SignalMovesTasks
  <1> QED
    BY <1>1, <1>2, <1>3, <1>4, LeaseMovesTasks, RestartMovesTasks
    DEF RuntimeNext, WorkerStep, ReadClock, OpenExecution, StartRun, AdapterReturns,
        CommitResult, ReportRun, SettleRun, CheckAfterError, RunFails, CrashGateway,
        DiscardStaleWake, CutShort, Cancelling

\* Rows keep their types, and the projector stays behind the sealed revisions.
LEMMA RowsStayTyped ==
    ASSUME RuntimeInv, RuntimeNext
    PROVE  RowsTyped'
  <1>1. TasksMove
    BY StepMovesTasks
  <1>2. [JournalNext]_journalVars
    BY StepIsJournalStep
  <1>3. /\ chats' = chats /\ up' \in BOOLEAN /\ faults' \in 0 .. MaxFaults
        /\ torn' \in SUBSET chats'
    <2>1. faults' = faults \/ (faults < MaxFaults /\ faults' = faults + 1)
      BY DEF RuntimeNext, WorkerStep, ReadClock, PickStep, PickTask, AcquireTask, OpenExecution,
             StartRun, AdapterReturns, CommitResult, ReportRun, SettleRun, WriteRow,
             CheckAfterError, WriteFailure, RunFails, Heartbeat, LeaseLapses, CancelTask,
             CancelChatTurn, CancelFails, CrashInCancel, CancelCutShort, DiscardStaleWake,
             DeliverSignal, ProjectTaskState, CrashGateway, RestartGateway
    <2>2. chats' = chats /\ up' \in {up, TRUE, FALSE}
      BY DEF RuntimeNext, WorkerStep, ReadClock, PickStep, PickTask, AcquireTask, OpenExecution,
             StartRun, AdapterReturns, CommitResult, ReportRun, SettleRun, WriteRow,
             CheckAfterError, WriteFailure, RunFails, Heartbeat, LeaseLapses, CancelTask,
             CancelChatTurn, CancelFails, CrashInCancel, CancelCutShort, DiscardStaleWake,
             DeliverSignal, ProjectTaskState, CrashGateway, RestartGateway
    <2>3. faults \in 0 .. MaxFaults /\ up \in BOOLEAN /\ MaxFaults \in Nat
      BY DEF RuntimeInv, RowsTyped
    <2>4. faults' \in 0 .. MaxFaults
      BY <2>1, <2>3
    <2>5. up' \in BOOLEAN
      BY <2>2, <2>3, Zenon
    <2>6. torn' \in {torn} \/ \E x \in chats : torn' \in {torn \cup {x}, torn \ {x}}
      BY DEF RuntimeNext, WorkerStep, ReadClock, PickStep, PickTask, AcquireTask, OpenExecution,
             StartRun, AdapterReturns, CommitResult, ReportRun, SettleRun, WriteRow,
             CheckAfterError, WriteFailure, RunFails, Heartbeat, LeaseLapses, CancelTask,
             CancelChatTurn, CancelFails, CrashInCancel, CancelCutShort, DiscardStaleWake,
             DeliverSignal, ProjectTaskState, CrashGateway, RestartGateway
    <2>7. torn' \in SUBSET chats'
      BY <2>2, <2>6 DEF RuntimeInv, RowsTyped
    <2> QED  BY <2>2, <2>4, <2>5, <2>7
  <1>4. /\ projected' \in [Executions -> 0 .. MaxRevision]
        /\ \A x \in Executions : projected'[x] <= SealedCount(x)'
    <2>1. /\ projected \in [Executions -> 0 .. MaxRevision]
          /\ \A x \in Executions : projected[x] <= SealedCount(x)
      BY DEF RuntimeInv, RowsTyped
    <2>2. \A x \in Executions : /\ SealedCount(x) \in Nat /\ SealedCount(x)' \in 0 .. MaxRevision
                                /\ SealedCount(x) <= SealedCount(x)'
      BY <1>2, JournalGrows
    <2>3. CASE UNCHANGED projected
      BY <2>1, <2>2, <2>3
    <2>4. ASSUME NEW x \in Executions, NEW done \in BOOLEAN, ProjectTaskState(x, done)
          PROVE  /\ projected' \in [Executions -> 0 .. MaxRevision]
                 /\ \A y \in Executions : projected'[y] <= SealedCount(y)'
      <3>1. PICK q \in {projected[x], projected[x] + 1} : projected' = [projected EXCEPT ![x] = q]
        BY <2>4 DEF ProjectTaskState
      <3>2. q <= SealedCount(x) /\ q \in Nat
        BY <2>1, <2>2, <2>4 DEF ProjectTaskState
      <3>3. q \in 0 .. MaxRevision /\ q <= SealedCount(x)'
        BY <2>2, <3>2
      <3> QED  BY <2>1, <2>2, <3>1, <3>3
    <2> QED
      BY <2>3, <2>4
      DEF RuntimeNext, WorkerStep, ReadClock, PickStep, PickTask, AcquireTask, OpenExecution,
          StartRun, AdapterReturns, CommitResult, ReportRun, SettleRun, WriteRow,
          CheckAfterError, WriteFailure, RunFails, Heartbeat, LeaseLapses, CancelTask,
          CancelChatTurn, CancelFails, CrashInCancel, DiscardStaleWake, DeliverSignal,
          CrashGateway, RestartGateway
  <1> QED  BY <1>1, <1>3, <1>4 DEF RowsTyped, TasksMove, RuntimeInv

-------------------------------------------------------------------------------
(* Workers *)

\* A worker, field by field.
WorkerAt(pc, x, now, attempts, rev, result) ==
    [pc |-> pc, x |-> x, now |-> now, attempts |-> attempts, rev |-> rev, result |-> result]

\* Worker w becomes new, the others stay where they are.
Moved(w, new) ==
    /\ \A v \in Workers \ {w} : workers'[v] = workers[v]
    /\ workers'[w] = new
    /\ workers' = [v \in Workers |-> workers'[v]]

Pcs == Watched \cup {"idle", "pick", "acquire", "report", "settle", "write", "fail",
                     "write_failure"}

\* The updates of workers, each as a move of one worker to a record.
LEMMA RestMoves ==
    ASSUME RuntimeInv, NEW w \in Workers, Rest(w)
    PROVE  Moved(w, AtRest)
  BY DEF RuntimeInv, WorkersPlaced, Moved, Rest

\* A worker that goes on to another section.
LEMMA GotoMoves ==
    ASSUME RuntimeInv, NEW w \in Workers, NEW pc \in Pcs, Goto(w, pc), NEW old, old = workers[w]
    PROVE  Moved(w, WorkerAt(pc, old.x, old.now, old.attempts, old.rev, old.result))
  BY DEF RuntimeInv, WorkersPlaced, WorkerState, Moved, Goto, WorkerAt

\* A worker that picked a task.
LEMMA PickMoves ==
    ASSUME RuntimeInv, NEW w \in Workers, NEW x \in Executions, NEW old, old = workers[w],
           workers' = [workers EXCEPT ![w].pc = "acquire", ![w].x = x]
    PROVE  Moved(w, WorkerAt("acquire", x, old.now, old.attempts, old.rev, old.result))
  <1>1. workers \in [Workers -> WorkerState]
    BY DEF RuntimeInv, WorkersPlaced
  <1> DEFINE A == [workers EXCEPT ![w].pc = "acquire"]
             a == [old EXCEPT !.pc = "acquire"]
  <1>2. workers' = [A EXCEPT ![w].x = x]
    OBVIOUS
  <1>3. A = [workers EXCEPT ![w] = a]
    OBVIOUS
  <1>4. a = WorkerAt("acquire", old.x, old.now, old.attempts, old.rev, old.result)
    BY <1>1 DEF WorkerState, WorkerAt
  <1> HIDE DEF A, a
  <1>5. [a EXCEPT !.x = x] = WorkerAt("acquire", x, old.now, old.attempts, old.rev, old.result)
    BY <1>4 DEF WorkerAt
  <1>6. workers' = [workers EXCEPT ![w] = [a EXCEPT !.x = x]]
    BY <1>1, <1>2, <1>3
  <1> QED  BY <1>1, <1>5, <1>6 DEF Moved

\* A worker that acquired the row of its task.
LEMMA AcquireMoves ==
    ASSUME RuntimeInv, NEW w \in Workers, NEW n, NEW old, old = workers[w],
           workers' = [workers EXCEPT ![w].pc = "open", ![w].attempts = n]
    PROVE  Moved(w, WorkerAt("open", old.x, old.now, n, old.rev, old.result))
  <1>1. workers \in [Workers -> WorkerState]
    BY DEF RuntimeInv, WorkersPlaced
  <1> DEFINE A == [workers EXCEPT ![w].pc = "open"]
             a == [old EXCEPT !.pc = "open"]
  <1>2. workers' = [A EXCEPT ![w].attempts = n]
    OBVIOUS
  <1>3. A = [workers EXCEPT ![w] = a]
    OBVIOUS
  <1>4. a = WorkerAt("open", old.x, old.now, old.attempts, old.rev, old.result)
    BY <1>1 DEF WorkerState, WorkerAt
  <1> HIDE DEF A, a
  <1>5. [a EXCEPT !.attempts = n] = WorkerAt("open", old.x, old.now, n, old.rev, old.result)
    BY <1>4 DEF WorkerAt
  <1>6. workers' = [workers EXCEPT ![w] = [a EXCEPT !.attempts = n]]
    BY <1>1, <1>2, <1>3
  <1> QED  BY <1>1, <1>5, <1>6 DEF Moved

\* A worker that opened its execution.
LEMMA OpenedMoves ==
    ASSUME RuntimeInv, NEW w \in Workers, NEW r, NEW old, old = workers[w],
           workers' = [workers EXCEPT ![w].pc = "start", ![w].rev = r]
    PROVE  Moved(w, WorkerAt("start", old.x, old.now, old.attempts, r, old.result))
  <1>1. workers \in [Workers -> WorkerState]
    BY DEF RuntimeInv, WorkersPlaced
  <1> DEFINE A == [workers EXCEPT ![w].pc = "start"]
             a == [old EXCEPT !.pc = "start"]
  <1>2. workers' = [A EXCEPT ![w].rev = r]
    OBVIOUS
  <1>3. A = [workers EXCEPT ![w] = a]
    OBVIOUS
  <1>4. a = WorkerAt("start", old.x, old.now, old.attempts, old.rev, old.result)
    BY <1>1 DEF WorkerState, WorkerAt
  <1> HIDE DEF A, a
  <1>5. [a EXCEPT !.rev = r] = WorkerAt("start", old.x, old.now, old.attempts, r, old.result)
    BY <1>4 DEF WorkerAt
  <1>6. workers' = [workers EXCEPT ![w] = [a EXCEPT !.rev = r]]
    BY <1>1, <1>2, <1>3
  <1> QED  BY <1>1, <1>5, <1>6 DEF Moved

\* A worker that carries an outcome to the commit.
LEMMA CarryMoves ==
    ASSUME RuntimeInv, NEW w \in Workers, NEW outcome, NEW old, old = workers[w],
           workers' = [workers EXCEPT ![w].pc = "commit", ![w].result = outcome]
    PROVE  Moved(w, WorkerAt("commit", old.x, old.now, old.attempts, old.rev, outcome))
  <1>1. workers \in [Workers -> WorkerState]
    BY DEF RuntimeInv, WorkersPlaced
  <1> DEFINE A == [workers EXCEPT ![w].pc = "commit"]
             a == [old EXCEPT !.pc = "commit"]
  <1>2. workers' = [A EXCEPT ![w].result = outcome]
    OBVIOUS
  <1>3. A = [workers EXCEPT ![w] = a]
    OBVIOUS
  <1>4. a = WorkerAt("commit", old.x, old.now, old.attempts, old.rev, old.result)
    BY <1>1 DEF WorkerState, WorkerAt
  <1> HIDE DEF A, a
  <1>5. [a EXCEPT !.result = outcome] = WorkerAt("commit", old.x, old.now, old.attempts, old.rev, outcome)
    BY <1>4 DEF WorkerAt
  <1>6. workers' = [workers EXCEPT ![w] = [a EXCEPT !.result = outcome]]
    BY <1>1, <1>2, <1>3
  <1> QED  BY <1>1, <1>5, <1>6 DEF Moved

\* A worker whose execution returned an error.
LEMMA FailMoves ==
    ASSUME RuntimeInv, NEW w \in Workers, Fail(w), NEW old, old = workers[w]
    PROVE  Moved(w, WorkerAt("fail", old.x, old.now, old.attempts, 0, NoOutcome))
  <1>1. workers \in [Workers -> WorkerState]
    BY DEF RuntimeInv, WorkersPlaced
  <1> DEFINE A == [workers EXCEPT ![w].pc = "fail"]
             B == [A EXCEPT ![w].rev = 0]
             a == [old EXCEPT !.pc = "fail"]
             b == [a EXCEPT !.rev = 0]
  <1>2. workers' = [B EXCEPT ![w].result = NoOutcome]
    BY DEF Fail
  <1>3. A = [workers EXCEPT ![w] = a]
    OBVIOUS
  <1>4. a = WorkerAt("fail", old.x, old.now, old.attempts, old.rev, old.result)
    BY <1>1 DEF WorkerState, WorkerAt
  <1> HIDE DEF A, a
  <1>5. B = [workers EXCEPT ![w] = b]
    BY <1>1, <1>3
  <1>6. b = WorkerAt("fail", old.x, old.now, old.attempts, 0, old.result)
    BY <1>4 DEF WorkerAt
  <1> HIDE DEF B, b
  <1>7. [b EXCEPT !.result = NoOutcome]
          = WorkerAt("fail", old.x, old.now, old.attempts, 0, NoOutcome)
    BY <1>6 DEF WorkerAt
  <1>8. workers' = [workers EXCEPT ![w] = [b EXCEPT !.result = NoOutcome]]
    BY <1>1, <1>2, <1>5
  <1> QED  BY <1>1, <1>7, <1>8 DEF Moved

\* A worker whose execution has an outcome.
LEMMA ReturnMoves ==
    ASSUME RuntimeInv, NEW w \in Workers, NEW outcome, Return(w, outcome),
           NEW old, old = workers[w]
    PROVE  \/ Moved(w, AtRest)
           \/ Moved(w, WorkerAt("report", old.x, old.now, old.attempts, 0, outcome))
  <1>1. workers \in [Workers -> WorkerState] /\ old \in WorkerState
    BY DEF RuntimeInv, WorkersPlaced
  <1> DEFINE a == [old EXCEPT !.pc = "report"]
             b == [a EXCEPT !.rev = 0]
             c == [b EXCEPT !.result = outcome]
  <1>2. a = WorkerAt("report", old.x, old.now, old.attempts, old.rev, old.result)
    BY <1>1 DEF WorkerState, WorkerAt
  <1>3. /\ workers[w].x \in chats => workers' = [workers EXCEPT ![w] = AtRest]
        /\ workers[w].x \notin chats => workers' = [workers EXCEPT ![w] = c]
    BY DEF Return
  <1> HIDE DEF a
  <1>4. b = WorkerAt("report", old.x, old.now, old.attempts, 0, old.result)
    BY <1>2 DEF WorkerAt
  <1> HIDE DEF b
  <1>5. c = WorkerAt("report", old.x, old.now, old.attempts, 0, outcome)
    BY <1>4 DEF WorkerAt
  <1> HIDE DEF c
  <1> QED  BY <1>1, <1>3, <1>5 DEF Moved

\* A clock reading is larger than what any worker holds and any fence in use.
LEMMA ReadMoves ==
    ASSUME RuntimeInv, NEW w \in Workers, ReadClock(w)
    PROVE  \E now \in Readings :
             Moved(w, WorkerAt("pick", None, now, 0, 0, NoOutcome))
  <1>1. workers \in [Workers -> WorkerState]
    BY DEF RuntimeInv, WorkersPlaced
  <1>2. Readings \subseteq Nat /\ Readings # {}
    BY DEF ReadClock, Readings, Fences
  <1>3. PICK now \in Readings : now = Min(Readings)
    <2>1. IsWellFoundedOn(OpToRel(<, Nat), Nat)
      BY NatLessThanWellFounded
    <2>2. PICK n \in Readings : \A m \in Readings : ~(<<m, n>> \in OpToRel(<, Nat))
      BY <1>2, <2>1, WFMin
    <2>3. \A m \in Readings : ~(m < n)
      BY <1>2, <2>2 DEF OpToRel
    <2>4. \A m \in Readings : n <= m
      BY <1>2, <2>3
    <2> QED  BY <1>2, <2>4 DEF Min
  <1> DEFINE a == [AtRest EXCEPT !.pc = "pick"]
             b == [a EXCEPT !.now = now]
  <1>4. a = WorkerAt("pick", None, 0, 0, 0, NoOutcome)
    BY DEF AtRest, WorkerAt
  <1>5. workers' = [workers EXCEPT ![w] = b]
    BY <1>3 DEF ReadClock
  <1> HIDE DEF a
  <1>6. b = WorkerAt("pick", None, now, 0, 0, NoOutcome)
    BY <1>4 DEF WorkerAt
  <1> HIDE DEF b
  <1> QED  BY <1>1, <1>5, <1>6 DEF Moved

\* What becomes of a worker fits the journal of the next state.  Its clock reading
\* is the one it had or a new one, and it carries an outcome to the commit only
\* from the adapter: Cancelled if the row is cancelled.
Fits(w, new) ==
    /\ new \in WorkerState /\ Placed(new)'
    /\ \/ new.now = 0
       \/ new.now = workers[w].now
       \/ new.now \in Readings /\ UNCHANGED journalVars
    /\ new.pc = "commit" =>
         /\ workers[w].pc = "run" /\ new.x = workers[w].x
         /\ UNCHANGED <<journalVars, chats, tasks>>
         /\ Task(w).status = "cancelled" => new.result = CancelledByUser

WorkersMove ==
    \/ UNCHANGED workers
    \/ workers' = [w \in Workers |-> AtRest]
    \/ \E w \in Workers, new \in WorkerState : Moved(w, new) /\ Fits(w, new)

\* A worker given field by field has its type and its fields.
LEMMA WorkerAtTyped ==
    ASSUME NEW pc \in Pcs, NEW x \in Executions \cup {None}, NEW now \in 0 .. MaxFence,
           NEW attempts \in 0 .. MaxAttempts - 1, NEW rev \in 0 .. MaxRevision,
           NEW result \in Outcomes \cup {NoOutcome}
    PROVE  /\ WorkerAt(pc, x, now, attempts, rev, result) \in WorkerState
           /\ WorkerAt(pc, x, now, attempts, rev, result).pc = pc
           /\ WorkerAt(pc, x, now, attempts, rev, result).x = x
           /\ WorkerAt(pc, x, now, attempts, rev, result).now = now
           /\ WorkerAt(pc, x, now, attempts, rev, result).rev = rev
           /\ WorkerAt(pc, x, now, attempts, rev, result).result = result
  BY DEF WorkerAt, WorkerState, Pcs

\* A worker at rest has its type and no reading.
LEMMA AtRestTyped == AtRest \in WorkerState /\ AtRest.pc = "idle" /\ AtRest.now = 0
  <1>1. AtRest = WorkerAt("idle", None, 0, 0, 0, NoOutcome)
    BY DEF AtRest, WorkerAt
  <1>2. 0 \in 0 .. MaxFence /\ 0 \in 0 .. MaxAttempts - 1 /\ 0 \in 0 .. MaxRevision
    OBVIOUS
  <1>3. "idle" \in Pcs
    BY DEF Pcs
  <1> QED  BY <1>1, <1>2, <1>3, WorkerAtTyped

\* A worker may go to rest at any time.
LEMMA AtRestFits ==
    ASSUME NEW w \in Workers
    PROVE  AtRest \in WorkerState /\ Fits(w, AtRest) /\ Placed(AtRest) /\ AtRest.now = 0
  BY AtRestTyped DEF Fits, Placed

\* A worker that keeps its task and its reading fits, with a revision of the
\* journal while it runs.
LEMMA KeepingFits ==
    ASSUME RuntimeInv, NEW w \in Workers, workers[w].x \in Executions,
           workers[w].now \in Fences,
           NEW pc \in Pcs \ {"commit"}, NEW attempts \in 0 .. MaxAttempts - 1,
           NEW rev \in 0 .. MaxRevision, NEW result \in Outcomes \cup {NoOutcome},
           pc \in {"start", "run"} => rev \in 1 .. Len(journal'[workers[w].x]),
           NEW new, new = WorkerAt(pc, workers[w].x, workers[w].now, attempts, rev, result)
    PROVE  new \in WorkerState /\ Fits(w, new)
  <1>1. workers[w].now \in 0 .. MaxFence
    BY DEF Fences
  <1>2. /\ new \in WorkerState /\ new.pc = pc /\ new.x = workers[w].x
        /\ new.now = workers[w].now /\ new.rev = rev
    BY <1>1, WorkerAtTyped
  <1>3. Placed(new)'
    BY <1>2 DEF Placed
  <1> QED  BY <1>2, <1>3 DEF Fits

\* The revision a worker runs stays in the journal.
LEMMA RevisionStays ==
    ASSUME RuntimeInv, [JournalNext]_journalVars, NEW x \in Executions,
           NEW r \in 1 .. Len(journal[x])
    PROVE  r \in 1 .. Len(journal'[x]) /\ r \in 0 .. MaxRevision
  BY JournalGrows DEF LatestRevision

\* A worker that reads the clock has a new reading.
LEMMA ClockWorkersMove ==
    ASSUME RuntimeInv, NEW w \in Workers, ReadClock(w)
    PROVE  WorkersMove
  <1>1. PICK now \in Readings : Moved(w, WorkerAt("pick", None, now, 0, 0, NoOutcome))
    BY ReadMoves
  <1> DEFINE new == WorkerAt("pick", None, now, 0, 0, NoOutcome)
  <1>2. now \in Fences /\ now \in 0 .. MaxFence
    BY DEF Readings, Fences
  <1>3. 0 \in 0 .. MaxAttempts - 1 /\ 0 \in 0 .. MaxRevision /\ "pick" \in Pcs
    BY DEF Pcs
  <1>4. new \in WorkerState /\ new.pc = "pick" /\ new.now = now
    BY <1>2, <1>3, WorkerAtTyped
  <1>5. UNCHANGED journalVars
    BY DEF ReadClock
  <1> HIDE DEF new
  <1>6. Fits(w, new)
    BY <1>2, <1>4, <1>5 DEF Fits, Placed
  <1> QED  BY <1>1, <1>4, <1>6 DEF WorkersMove, new

\* A worker that picks a task picks an execution.
LEMMA PickWorkersMove ==
    ASSUME RuntimeInv, NEW w \in Workers, PickStep(w)
    PROVE  WorkersMove
  <1> DEFINE old == workers[w]
  <1>1. PICK D \in SUBSET DueTimers : PickTask(w, D)
    BY DEF PickStep
  <1>2. old.pc = "pick" /\ old.now \in Fences /\ old \in WorkerState
    BY <1>1, WorkerFacts DEF PickTask
  <1>3. CASE Rest(w)
    BY <1>3, RestMoves, AtRestFits DEF WorkersMove
  <1>4. ASSUME NEW x \in Executions,
               workers' = [workers EXCEPT ![w].pc = "acquire", ![w].x = x]
        PROVE  WorkersMove
    <2>0. PICK new : new = WorkerAt("acquire", x, old.now, old.attempts, old.rev, old.result)
      OBVIOUS
    <2>1. Moved(w, new)
      BY <1>4, <2>0, PickMoves
    <2>2. /\ old.now \in 0 .. MaxFence /\ old.attempts \in 0 .. MaxAttempts - 1
          /\ old.rev \in 0 .. MaxRevision /\ old.result \in Outcomes \cup {NoOutcome}
          /\ x \in Executions \cup {None} /\ "acquire" \in Pcs
      BY <1>2 DEF WorkerState, Pcs
    <2>3. new \in WorkerState /\ new.pc = "acquire" /\ new.x = x /\ new.now = old.now
      BY <2>0, <2>2, WorkerAtTyped
    <2>4. Fits(w, new)
      BY <1>2, <2>3 DEF Fits, Placed
    <2> QED  BY <2>1, <2>3, <2>4 DEF WorkersMove
  <1> QED  BY <1>1, <1>3, <1>4 DEF PickTask

\* A worker that acquires a row keeps its task and reading.
LEMMA AcquireWorkersMove ==
    ASSUME RuntimeInv, NEW w \in Workers, AcquireTask(w)
    PROVE  WorkersMove
  <1> DEFINE old == workers[w]
             n == Task(w).attempts
             new == WorkerAt("open", old.x, old.now, n, old.rev, old.result)
  <1>1. old.x \in Executions /\ old.now \in Fences /\ old \in WorkerState
    BY WorkerFacts DEF AcquireTask
  <1>2. n \in 0 .. MaxAttempts - 1
    BY <1>1 DEF RuntimeInv, RowsTyped, RowTyped, RowState, Task
  <1>3. CASE Rest(w)
    BY <1>3, RestMoves, AtRestFits DEF WorkersMove
  <1>4. CASE workers' = [workers EXCEPT ![w].pc = "open", ![w].attempts = Task(w).attempts]
    <2>1. Moved(w, new)
      BY <1>4, AcquireMoves
    <2>2. old.rev \in 0 .. MaxRevision /\ old.result \in Outcomes \cup {NoOutcome}
      BY <1>1 DEF WorkerState
    <2>3. "open" \in Pcs \ {"commit"}
      BY DEF Pcs, Watched
    <2> HIDE DEF n
    <2>4. new \in WorkerState /\ Fits(w, new)
      BY <1>1, <1>2, <2>2, <2>3, KeepingFits
    <2> QED  BY <2>1, <2>4 DEF WorkersMove
  <1> QED  BY <1>3, <1>4 DEF AcquireTask

\* A worker that fails keeps its task and reading.
LEMMA FailWorkersMove ==
    ASSUME RuntimeInv, NEW w \in Workers, workers[w].x \in Executions,
           workers[w].now \in Fences, Fail(w)
    PROVE  WorkersMove
  <1> DEFINE old == workers[w]
             new == WorkerAt("fail", old.x, old.now, old.attempts, 0, NoOutcome)
  <1>1. Moved(w, new)
    BY FailMoves
  <1>2. old.attempts \in 0 .. MaxAttempts - 1 /\ 0 \in 0 .. MaxRevision
    BY WorkerFacts DEF WorkerState
  <1>3. new \in WorkerState /\ Fits(w, new)
    BY <1>2, KeepingFits DEF Pcs
  <1> QED  BY <1>1, <1>3 DEF WorkersMove

\* A worker that returns rests, or reports what it was given.
LEMMA ReturnWorkersMove ==
    ASSUME RuntimeInv, NEW w \in Workers, workers[w].x \in Executions,
           workers[w].now \in Fences, NEW outcome \in Outcomes \cup {NoOutcome},
           Return(w, outcome)
    PROVE  WorkersMove
  <1> DEFINE old == workers[w]
             new == WorkerAt("report", old.x, old.now, old.attempts, 0, outcome)
  <1>1. Moved(w, AtRest) \/ Moved(w, new)
    BY ReturnMoves
  <1>2. old.attempts \in 0 .. MaxAttempts - 1 /\ 0 \in 0 .. MaxRevision
    BY WorkerFacts DEF WorkerState
  <1>3. new \in WorkerState /\ Fits(w, new)
    BY <1>2, KeepingFits DEF Pcs
  <1> QED  BY <1>1, <1>3, AtRestFits DEF WorkersMove

\* A worker that goes on keeps all it carries.
LEMMA GotoWorkersMove ==
    ASSUME RuntimeInv, [JournalNext]_journalVars, NEW w \in Workers,
           workers[w].x \in Executions, workers[w].now \in Fences,
           NEW pc \in Pcs \ {"commit"}, Goto(w, pc),
           pc = "start" => FALSE, pc = "run" => workers[w].pc = "start"
    PROVE  WorkersMove
  <1> DEFINE old == workers[w]
             new == WorkerAt(pc, old.x, old.now, old.attempts, old.rev, old.result)
  <1>1. Moved(w, new)
    BY GotoMoves
  <1>2. /\ old.attempts \in 0 .. MaxAttempts - 1 /\ old.rev \in 0 .. MaxRevision
        /\ old.result \in Outcomes \cup {NoOutcome}
    BY WorkerFacts DEF WorkerState
  <1>3. pc = "run" => old.rev \in 1 .. Len(journal[old.x])
    BY WorkerFacts DEF Placed
  <1>4. pc \in {"start", "run"} => old.rev \in 1 .. Len(journal'[old.x])
    BY <1>3, RevisionStays
  <1>5. new \in WorkerState /\ Fits(w, new)
    BY <1>2, <1>4, KeepingFits
  <1> QED  BY <1>1, <1>5 DEF WorkersMove

\* A worker that opened an execution has a revision of it.
LEMMA OpenWorkersMove ==
    ASSUME RuntimeInv, [JournalNext]_journalVars, NEW w \in Workers, OpenExecution(w)
    PROVE  WorkersMove
  <1> DEFINE old == workers[w]
  <1>1. PICK x \in Executions : x = workers[w].x
    BY WorkerFacts DEF OpenExecution
  <1>2. old.now \in Fences /\ old \in WorkerState
    BY WorkerFacts DEF OpenExecution
  <1>3. CASE Exists(x) /\ Return(w, Latest(x).outcome)
    <2>1. Latest(x).outcome \in Outcomes \cup {NoOutcome}
      BY <1>3, OpenFacts DEF Revision
    <2> QED  BY <1>1, <1>2, <1>3, <2>1, ReturnWorkersMove
  <1>4. CASE Fail(w)
    BY <1>1, <1>2, <1>4, FailWorkersMove
  <1>5. ASSUME NEW r, workers' = [workers EXCEPT ![w].pc = "start", ![w].rev = r],
               \/ Exists(x) /\ r = LatestRevision(x)
               \/ CreateExecution(x, old.now) /\ r = 1
        PROVE  WorkersMove
    <2> DEFINE new == WorkerAt("start", old.x, old.now, old.attempts, r, old.result)
    <2>1. Moved(w, new)
      BY <1>5, OpenedMoves
    <2>2. CASE Exists(x) /\ r = LatestRevision(x)
      <3>1. r \in 1 .. Len(journal[x])
        BY <2>2, OpenFacts DEF LatestRevision, Revisions
      <3>2. r \in 1 .. Len(journal'[x]) /\ r \in 0 .. MaxRevision
        BY <3>1, RevisionStays
      <3>3. old.attempts \in 0 .. MaxAttempts - 1 /\ old.result \in Outcomes \cup {NoOutcome}
        BY <1>2 DEF WorkerState
      <3>4. new \in WorkerState /\ Fits(w, new)
        BY <1>1, <1>2, <3>2, <3>3, KeepingFits DEF Pcs, Watched
      <3> QED  BY <2>1, <3>4 DEF WorkersMove
    <2>3. CASE CreateExecution(x, old.now) /\ r = 1
      <3>1. journal = [y \in Executions |-> journal[y]]
        BY ConsistentByChains DEF RuntimeInv
      <3>2. journal'[x] = <<FreshRevision(old.now)>> /\ MaxRevision >= 1
        BY <2>3, <3>1 DEF CreateExecution
      <3>3. Len(journal'[x]) = 1
        BY <1>2, <3>2, FreshChain DEF Fences
      <3>4. r \in 1 .. Len(journal'[x]) /\ r \in 0 .. MaxRevision
        BY <2>3, <3>2, <3>3
      <3>5. old.attempts \in 0 .. MaxAttempts - 1 /\ old.result \in Outcomes \cup {NoOutcome}
        BY <1>2 DEF WorkerState
      <3>6. new \in WorkerState /\ Fits(w, new)
        BY <1>1, <1>2, <3>4, <3>5, KeepingFits DEF Pcs, Watched
      <3> QED  BY <2>1, <3>6 DEF WorkersMove
    <2> QED  BY <1>5, <2>2, <2>3
  <1>6. \/ Exists(x) /\ Return(w, Latest(x).outcome)
        \/ Fail(w)
        \/ /\ Exists(x)
           /\ workers' = [workers EXCEPT ![w].pc = "start", ![w].rev = LatestRevision(x)]
        \/ /\ CreateExecution(x, old.now)
           /\ workers' = [workers EXCEPT ![w].pc = "start", ![w].rev = 1]
    BY <1>1 DEF OpenExecution
  <1> QED  BY <1>3, <1>4, <1>5, <1>6

\* What an adapter returns, a retry included, is an outcome that can be committed.
LEMMA NormalizedTyped ==
    ASSUME NEW w \in Workers, NEW r, NEW o \in AdapterOutcomes(r)
    PROVE  Normalized(w, o) \in PlainOutcomes
  <1>1. AdapterOutcomes(r) \subseteq PlainOutcomes
    BY DEF AdapterOutcomes, OutcomeOf, PlainOutcomes, Suspended, Terminal, TerminalKinds
  <1>2. \E c \in Timers : c = CHOOSE d \in Timers : TRUE
    OBVIOUS
  <1>3. PICK c \in Conditions : c = CHOOSE d \in Timers : TRUE
    BY <1>2
  <1>4. OutcomeOf("suspended", c, Retry) \in PlainOutcomes
    BY DEF OutcomeOf, PlainOutcomes, Suspended
  <1> QED  BY <1>1, <1>3, <1>4 DEF Normalized

\* A worker whose adapter returned commits what was read and normalised.
LEMMA AdapterWorkersMove ==
    ASSUME RuntimeInv, NEW w \in Workers, AdapterReturns(w)
    PROVE  WorkersMove
  <1> DEFINE old == workers[w]
  <1>1. old.pc = "run" /\ old.x \in Executions /\ old.now \in Fences /\ old \in WorkerState
    BY WorkerFacts DEF AdapterReturns
  <1>2. old.rev \in 1 .. Len(journal[old.x])
    BY <1>1, WorkerFacts DEF Placed
  <1>3. UNCHANGED <<journalVars, chats, tasks>>
    BY DEF AdapterReturns
  <1>4. ASSUME NEW outcome \in PlainOutcomes,
               workers' = [workers EXCEPT ![w].pc = "commit", ![w].result = outcome],
               Task(w).status = "cancelled" => outcome = CancelledByUser
        PROVE  WorkersMove
    <2>0. PICK new : new = WorkerAt("commit", old.x, old.now, old.attempts, old.rev, outcome)
      OBVIOUS
    <2>1. Moved(w, new)
      BY <1>4, <2>0, CarryMoves
    <2>2. /\ old.now \in 0 .. MaxFence /\ old.attempts \in 0 .. MaxAttempts - 1
          /\ old.rev \in 0 .. MaxRevision /\ outcome \in Outcomes \cup {NoOutcome}
          /\ old.x \in Executions \cup {None} /\ "commit" \in Pcs
      BY <1>1 DEF WorkerState, Outcomes, Pcs, Watched
    <2>3. /\ new \in WorkerState /\ new.pc = "commit" /\ new.x = old.x /\ new.now = old.now
          /\ new.rev = old.rev /\ new.result = outcome
      BY <2>0, <2>2, WorkerAtTyped
    <2>4. new.rev \in 1 .. Len(journal'[new.x])
      BY <1>2, <1>3, <2>3 DEF journalVars
    <2>5. Placed(new)'
      BY <1>1, <2>3, <2>4 DEF Placed
    <2>6. Fits(w, new)
      BY <1>1, <1>3, <1>4, <2>3, <2>5 DEF Fits
    <2> QED  BY <2>1, <2>3, <2>6 DEF WorkersMove
  <1>5. CASE Rest(w)
    BY <1>5, RestMoves, AtRestFits DEF WorkersMove
  <1>6. \/ \E outcome \in PlainOutcomes :
             /\ workers' = [workers EXCEPT ![w].pc = "commit", ![w].result = outcome]
             /\ Task(w).status = "cancelled" => outcome = CancelledByUser
        \/ Rest(w)
    BY NormalizedTyped, CancelledByUserTyped DEF AdapterReturns
  <1> QED  BY <1>4, <1>5, <1>6

\* A worker leaves the commit whether it was accepted or refused.
LEMMA CommitWorkersMove ==
    ASSUME RuntimeInv, NEW w \in Workers, CommitResult(w)
    PROVE  WorkersMove
  <1>1. /\ workers[w].x \in Executions /\ workers[w].now \in Fences
        /\ workers[w].result \in Outcomes \cup {NoOutcome}
    BY WorkerFacts DEF CommitResult, WorkerState
  <1>2. Return(w, workers[w].result) \/ Fail(w)
    BY DEF CommitResult
  <1> QED  BY <1>1, <1>2, ReturnWorkersMove, FailWorkersMove

\* A worker starts the revision it opened, or fails.
LEMMA StartWorkersMove ==
    ASSUME RuntimeInv, [JournalNext]_journalVars, NEW w \in Workers, StartRun(w)
    PROVE  WorkersMove
  <1>1. workers[w].x \in Executions /\ workers[w].now \in Fences /\ workers[w].pc = "start"
    BY WorkerFacts DEF StartRun
  <1>2. Goto(w, "run") \/ Fail(w)
    BY DEF StartRun
  <1>3. "run" \in Pcs \ {"commit"}
    BY DEF Pcs, Watched
  <1> QED  BY <1>1, <1>2, <1>3, GotoWorkersMove, FailWorkersMove

\* The steps after the execution returned.
LEMMA ReportWorkersMove ==
    ASSUME RuntimeInv, [JournalNext]_journalVars, NEW w \in Workers,
           \/ ReportRun(w) \/ SettleRun(w) \/ WriteRow(w)
           \/ CheckAfterError(w) \/ WriteFailure(w) \/ RunFails(w)
    PROVE  WorkersMove
  <1>1. workers[w].x \in Executions /\ workers[w].now \in Fences
    BY WorkerFacts DEF ReportRun, SettleRun, WriteRow, CheckAfterError, WriteFailure, RunFails
  <1>2. Rest(w) \/ \E pc \in {"settle", "write", "write_failure"} : Goto(w, pc)
    BY DEF ReportRun, SettleRun, WriteRow, CheckAfterError, WriteFailure, RunFails
  <1>3. {"settle", "write", "write_failure"} \subseteq Pcs \ {"commit"}
    BY DEF Pcs
  <1>4. CASE Rest(w)
    BY <1>4, RestMoves, AtRestFits DEF WorkersMove
  <1>5. ASSUME NEW pc \in {"settle", "write", "write_failure"}, Goto(w, pc)
        PROVE  WorkersMove
    BY <1>1, <1>3, <1>5, GotoWorkersMove
  <1> QED  BY <1>2, <1>4, <1>5

\* Every step, on the workers.
LEMMA StepMovesWorkers ==
    ASSUME RuntimeInv, RuntimeNext
    PROVE  WorkersMove
  <1>1. [JournalNext]_journalVars
    BY StepIsJournalStep
  <1>2. ASSUME NEW w \in Workers, WorkerStep(w) \/ RunFails(w)  PROVE WorkersMove
    BY <1>1, <1>2, ClockWorkersMove, PickWorkersMove, AcquireWorkersMove, OpenWorkersMove,
       StartWorkersMove, AdapterWorkersMove, CommitWorkersMove, ReportWorkersMove
    DEF WorkerStep
  <1>3. CASE UNCHANGED workers
    BY <1>3 DEF WorkersMove
  <1>4. CASE CrashGateway \/ \E x \in Executions : CrashInCancel(x)
    BY <1>4 DEF CrashGateway, CrashInCancel, WorkersMove
  <1> QED
    BY <1>2, <1>3, <1>4
    DEF RuntimeNext, Heartbeat, LeaseLapses, CancelTask, CancelChatTurn, CancelFails,
        DiscardStaleWake, DeliverSignal, ProjectTaskState, RestartGateway

-------------------------------------------------------------------------------
(* What a step does to one execution *)

Rewrites(x) ==
    /\ Exists(x) /\ Unsealed(Latest(x))
    /\ Exists(x)' /\ LatestRevision(x)' = LatestRevision(x)

Commits(w, x) ==
    /\ workers[w].pc = "commit" /\ workers'[w].pc # "commit" /\ workers[w].x = x
    /\ Latest(x).state = "running" /\ Latest(x).fence = workers[w].now
    /\ Latest(x)'.outcome = workers[w].result

ExecutionMoves(x) ==
    \/ journal'[x] = journal[x]
    \/ ~Exists(x) /\ Latest(x)'.state = "ready"
    \/ /\ Rewrites(x) /\ Latest(x)'.outcome = NoOutcome
       /\ \/ Latest(x)'.state = "ready"
          \/ \E w \in Workers :
               Latest(x)'.attempt = [owner |-> w, fence |-> workers[w].now]
    \/ /\ Rewrites(x) /\ Latest(x)'.state # "running"
       /\ \E w \in Workers : Commits(w, x)
    \/ /\ Rewrites(x) /\ Latest(x)'.state # "running"
       /\ Latest(x)'.outcome = CancelledByUser
    \/ /\ \E v \in Pending : v.exec = x
       /\ Latest(x)'.state = "ready"

\* A wake that is registered is the one of a suspension that a worker commits.
PendingMoves ==
    \A v \in Pending' :
        \/ v \in Pending
        \/ \E w \in Workers :
             /\ workers[w].pc = "commit" /\ workers[w].x = v.exec
             /\ workers[w].result.kind = "suspended"
             /\ workers[w].result.wake = v.condition
             /\ v.exec \in Executions /\ v.rev = LatestRevision(v.exec)
             /\ Exists(v.exec) /\ Unsealed(Latest(v.exec))

\* WithLatest keeps the number of revisions and changes the latest.
LEMMA LatestRewritten ==
    ASSUME JournalConsistent, NEW x \in Executions, Exists(x), NEW rv \in Revision,
           journal' = WithLatest(x, rv)
    PROVE  /\ Exists(x)' /\ LatestRevision(x)' = LatestRevision(x) /\ Latest(x)' = rv
           /\ \A y \in Executions \ {x} : journal'[y] = journal[y]
  <1> DEFINE s == journal[x]
             n == Len(s)
             t == journal'[x]
  <1>1. t = [s EXCEPT ![n] = rv] /\ \A y \in Executions \ {x} : journal'[y] = journal[y]
    BY WithLatestFacts
  <1>2. s \in Seq(Revision) /\ n \in Nat \ {0} /\ n \in 1 .. n
    BY ConsistentByChains, EmptySeq DEF ChainOK, Exists
  <1>3. Len(t) = n /\ t[n] = rv
    BY <1>1, <1>2, ExceptSeq
  <1>4. Len(<<>>) = 0
    BY EmptySeq
  <1> QED  BY <1>1, <1>2, <1>3, <1>4 DEF Exists, LatestRevision, Latest

\* A pending wake belongs to the latest revision, which waits for it.
LEMMA PendingAtLatest ==
    ASSUME JournalConsistent, NEW v \in Pending
    PROVE  /\ v.exec \in Executions /\ Exists(v.exec)
           /\ v.rev = LatestRevision(v.exec)
           /\ Latest(v.exec).outcome.kind = "suspended"
           /\ Latest(v.exec).outcome.wake = v.condition
           /\ ~Unsealed(Latest(v.exec))
  <1>1. v \in wakes /\ v.payload = None
    BY DEF Pending
  <1>2. RowConsistent(v) /\ v.rev \in Nat \ {0} /\ v.exec \in Executions
    BY <1>1, ConsistentByChains DEF WakeRow
  <1>3. journal[v.exec] \in Seq(Revision) /\ ChainConsistent(journal[v.exec])
    BY <1>2, ConsistentByChains DEF ChainOK
  <1>4. v.rev \in 1 .. Len(journal[v.exec])
    BY <1>2, <1>3 DEF RowConsistent
  <1>5. v.rev = Len(journal[v.exec])
    BY <1>1, <1>2, <1>4 , <1>3 DEF RowConsistent, ChainConsistent
  <1>6. Len(<<>>) = 0
    BY EmptySeq
  <1>7. Exists(v.exec)
    BY <1>4, <1>5, <1>6, <1>2 DEF Exists
  <1> QED  BY <1>2, <1>5, <1>7 DEF RowConsistent, Latest, LatestRevision, Unsealed, NoOutcome

\* The delivery of wakes opens a revision of the executions that wait for them.
LEMMA DeliveryMoves ==
    ASSUME JournalConsistent, NEW D, D \subseteq Pending, NEW p \in Payloads,
           DeliverWakes(D, p), NEW x \in Executions
    PROVE  ExecutionMoves(x) /\ Pending' \subseteq Pending
  <1>1. Pending' \subseteq Pending
    <2> SUFFICES ASSUME NEW v \in Pending'  PROVE v \in Pending
      OBVIOUS
    <2>1. v \in wakes' /\ v.payload = None
      BY DEF Pending
    <2>2. ASSUME NEW u \in D, v = [u EXCEPT !.payload = p]  PROVE FALSE
      <3>1. u \in WakeRow
        BY ConsistentByChains DEF Pending
      <3>2. v.payload = p
        BY <2>2, <3>1 DEF WakeRow
      <3> QED  BY <2>1, <3>2
    <2>3. v \in wakes
      BY <2>1, <2>2 DEF DeliverWakes
    <2> QED  BY <2>1, <2>3 DEF Pending
  <1>2. CASE ~\E v \in D : v.exec = x
    BY <1>1, <1>2 DEF DeliverWakes, ExecutionMoves
  <1>3. CASE \E v \in D : v.exec = x
    <2> DEFINE s == journal[x]
               t == journal'[x]
    <2>1. Exists(x) /\ Latest(x).outcome.kind = "suspended"
      BY <1>3, DeliveredRows
    <2>2. ChainOK(s) /\ s # <<>> /\ s[Len(s)].outcome.kind = "suspended"
      BY <2>1, ConsistentByChains DEF Exists, Latest, LatestRevision
    <2>3. s \in Seq(Revision) /\ ChainConsistent(s) /\ s[Len(s)].fence < MaxFence
      BY <2>2 DEF ChainOK
    <2>4. t = ResumedChain(s, p)  BY <1>3 DEF DeliverWakes, Resumed
    <2> HIDE DEF s, t
    <2>5. /\ Len(t) = Len(s) + 1
          /\ t[Len(s) + 1] = FreshRevision(s[Len(s)].fence + 1)
      BY <2>2, <2>3, <2>4, ResumeChain
    <2>6. Latest(x)'.state = "ready"
      BY <2>5 DEF Latest, LatestRevision, FreshRevision, t
    <2>7. \E v \in Pending : v.exec = x
      BY <1>3
    <2> QED  BY <1>1, <2>6, <2>7 DEF ExecutionMoves
  <1> QED  BY <1>1, <1>2, <1>3

\* Opening an execution moves only that one, and registers no wake.
LEMMA OpenMoves ==
    ASSUME RuntimeInv, NEW w \in Workers, OpenExecution(w), NEW y \in Executions
    PROVE  ExecutionMoves(y) /\ Pending' = Pending
  <1> DEFINE f == workers[w].now
  <1>0. JournalConsistent
    BY DEF RuntimeInv
  <1>1. PICK x \in Executions : x = workers[w].x
    BY WorkerFacts DEF OpenExecution
  <1>2. f \in Fences /\ f \in 1 .. MaxFence
    BY WorkerFacts DEF OpenExecution, Fences
  <1>3. \/ UNCHANGED journalVars
        \/ Exists(x) /\ ReclaimExecutionAttempt(x, LatestRevision(x), Latest(x).fence, f, w)
        \/ Exists(x) /\ AdvanceExecutionFence(x, LatestRevision(x), Latest(x).fence, f)
        \/ CreateExecution(x, f)
    BY <1>1 DEF OpenExecution
  <1>4. Pending' = Pending
    BY <1>3 DEF journalVars, ReclaimExecutionAttempt, AdvanceExecutionFence,
                CreateExecution, Pending
  <1>5. CASE Exists(x) /\ ReclaimExecutionAttempt(x, LatestRevision(x), Latest(x).fence, f, w)
    <2> DEFINE old == Latest(x)
               a == [old EXCEPT !.fence = f]
               rv == [a EXCEPT !.attempt = [owner |-> w, fence |-> f]]
    <2>1. old.outcome = NoOutcome /\ journal' = WithLatest(x, rv)
      BY <1>5 DEF ReclaimExecutionAttempt, MayReclaimAttempt
    <2>2. old \in Revision  BY <1>5, OpenFacts
    <2>3. a \in Revision /\ a.outcome = old.outcome
      BY <1>2, <2>2 DEF Revision
    <2> HIDE DEF a
    <2>4. /\ rv \in Revision /\ rv.outcome = NoOutcome
          /\ rv.attempt = [owner |-> w, fence |-> f]
      BY <1>2, <2>1, <2>3 DEF Revision, Attempt, Workers
    <2> HIDE DEF rv, old
    <2>5. /\ Exists(x)' /\ LatestRevision(x)' = LatestRevision(x) /\ Latest(x)' = rv
          /\ \A z \in Executions \ {x} : journal'[z] = journal[z]
      BY <1>0, <1>5, <2>1, <2>4, LatestRewritten
    <2>6. CASE y = x
      <3>1. Rewrites(x)
        BY <1>5, <2>1, <2>5 DEF Rewrites, Unsealed, old
      <3> QED  BY <1>4, <2>4, <2>5, <2>6, <3>1 DEF ExecutionMoves
    <2>7. CASE y # x
      BY <1>4, <2>5, <2>7 DEF ExecutionMoves
    <2> QED  BY <1>4, <2>6, <2>7
  <1>6. CASE Exists(x) /\ AdvanceExecutionFence(x, LatestRevision(x), Latest(x).fence, f)
    <2> DEFINE old == Latest(x)
               rv == [old EXCEPT !.fence = f]
    <2>1. old.outcome = NoOutcome /\ old.state = "ready" /\ journal' = WithLatest(x, rv)
      BY <1>6 DEF AdvanceExecutionFence, MayAdvanceFence
    <2>2. old \in Revision  BY <1>6, OpenFacts
    <2>3. rv \in Revision /\ rv.outcome = NoOutcome /\ rv.state = "ready"
      BY <1>2, <2>1, <2>2 DEF Revision
    <2> HIDE DEF rv, old
    <2>4. /\ Exists(x)' /\ LatestRevision(x)' = LatestRevision(x) /\ Latest(x)' = rv
          /\ \A z \in Executions \ {x} : journal'[z] = journal[z]
      BY <1>0, <1>6, <2>1, <2>3, LatestRewritten
    <2>5. CASE y = x
      <3>1. Rewrites(x)
        BY <1>6, <2>1, <2>4 DEF Rewrites, Unsealed, old
      <3> QED  BY <1>4, <2>3, <2>4, <2>5, <3>1 DEF ExecutionMoves
    <2>6. CASE y # x
      BY <1>4, <2>4, <2>6 DEF ExecutionMoves
    <2> QED  BY <1>4, <2>5, <2>6
  <1>7. CASE CreateExecution(x, f)
    <2>1. journal = [z \in Executions |-> journal[z]]
      BY <1>0, ConsistentByChains
    <2>2. /\ ~Exists(x) /\ journal'[x] = <<FreshRevision(f)>>
          /\ \A z \in Executions \ {x} : journal'[z] = journal[z]
      BY <1>7, <2>1 DEF CreateExecution
    <2>3. Latest(x)'.state = "ready"
      <3>1. Len(journal'[x]) = 1 /\ journal'[x][1] = FreshRevision(f)
        BY <1>2, <2>2, FreshChain
      <3> QED  BY <3>1 DEF Latest, LatestRevision, FreshRevision
    <2> QED  BY <1>4, <2>2, <2>3 DEF ExecutionMoves
  <1>8. CASE UNCHANGED journalVars
    BY <1>4, <1>8 DEF journalVars, ExecutionMoves
  <1> QED  BY <1>3, <1>5, <1>6, <1>7, <1>8

\* Starting an attempt moves only its execution, and registers no wake.
LEMMA StartMoves ==
    ASSUME RuntimeInv, NEW w \in Workers, StartRun(w), NEW y \in Executions
    PROVE  ExecutionMoves(y) /\ Pending' = Pending
  <1> DEFINE f == workers[w].now
             r == workers[w].rev
  <1>0. JournalConsistent
    BY DEF RuntimeInv
  <1>1. PICK x \in Executions : x = workers[w].x
    BY WorkerFacts DEF StartRun
  <1>2. f \in 1 .. MaxFence
    BY WorkerFacts DEF StartRun, Fences
  <1>3. StartExecutionAttempt(x, r, f, w) \/ UNCHANGED journalVars
    BY <1>1 DEF StartRun
  <1>4. Pending' = Pending
    BY <1>3 DEF journalVars, StartExecutionAttempt, Pending
  <1>5. CASE StartExecutionAttempt(x, r, f, w)
    <2> DEFINE old == Latest(x)
               a == [old EXCEPT !.state = "running"]
               rv == [a EXCEPT !.attempt = [owner |-> w, fence |-> f]]
    <2>1. Exists(x) /\ old.outcome = NoOutcome /\ journal' = WithLatest(x, rv)
      BY <1>5 DEF StartExecutionAttempt, MayStartAttempt
    <2>2. old \in Revision  BY <2>1, OpenFacts
    <2>3. a \in Revision /\ a.outcome = old.outcome
      BY <2>2 DEF Revision
    <2> HIDE DEF a
    <2>4. /\ rv \in Revision /\ rv.outcome = NoOutcome
          /\ rv.attempt = [owner |-> w, fence |-> f]
      BY <1>2, <2>1, <2>3 DEF Revision, Attempt, Workers
    <2> HIDE DEF rv, old
    <2>5. /\ Exists(x)' /\ LatestRevision(x)' = LatestRevision(x) /\ Latest(x)' = rv
          /\ \A z \in Executions \ {x} : journal'[z] = journal[z]
      BY <1>0, <2>1, <2>4, LatestRewritten
    <2>6. CASE y = x
      <3>1. Rewrites(x)
        BY <2>1, <2>5 DEF Rewrites, Unsealed, old
      <3> QED  BY <1>4, <2>4, <2>5, <2>6, <3>1 DEF ExecutionMoves
    <2>7. CASE y # x
      BY <1>4, <2>5, <2>7 DEF ExecutionMoves
    <2> QED  BY <1>4, <2>6, <2>7
  <1>6. CASE UNCHANGED journalVars
    BY <1>4, <1>6 DEF journalVars, ExecutionMoves
  <1> QED  BY <1>3, <1>5, <1>6

\* The latest revision of x is given an outcome.
LEMMA SealMoves ==
    ASSUME JournalConsistent, NEW x \in Executions, Exists(x), Unsealed(Latest(x)),
           NEW outcome \in PlainOutcomes, journal' = Committed(x, outcome)
    PROVE  /\ Rewrites(x) /\ Latest(x)'.outcome = outcome /\ Latest(x)'.state # "running"
           /\ Exists(x)' /\ ~Unsealed(Latest(x))'
           /\ \A y \in Executions \ {x} : journal'[y] = journal[y]
  <1> DEFINE old == Latest(x)
             a == [old EXCEPT !.state = StateFor(outcome)]
             rv == [a EXCEPT !.outcome = outcome]
  <1>1. journal' = WithLatest(x, rv)
    BY DEF Committed, SealedBy
  <1>2. old \in Revision
    BY LatestFacts
  <1>3. outcome \in Outcomes /\ outcome.kind \in {"suspended"} \cup TerminalKinds /\ outcome # NoOutcome
    BY OutcomeKinds DEF Outcomes
  <1>4. a \in Revision /\ a.state = outcome.kind
    BY <1>2, <1>3 DEF Revision, StateFor
  <1> HIDE DEF a
  <1>5. rv \in Revision /\ rv.state = outcome.kind /\ rv.outcome = outcome
    BY <1>3, <1>4 DEF Revision
  <1> HIDE DEF rv, old
  <1>6. /\ Exists(x)' /\ LatestRevision(x)' = LatestRevision(x) /\ Latest(x)' = rv
        /\ \A z \in Executions \ {x} : journal'[z] = journal[z]
    BY <1>1, <1>5, LatestRewritten
  <1>7. outcome.kind # "running"
    BY <1>3 DEF TerminalKinds
  <1> QED  BY <1>3, <1>5, <1>6, <1>7 DEF Rewrites, Unsealed

\* A commit moves only its execution, and registers its own wake.
LEMMA CommitMoves ==
    ASSUME RuntimeInv, NEW w \in Workers, CommitResult(w)
    PROVE  (\A y \in Executions : ExecutionMoves(y)) /\ PendingMoves
  <1> DEFINE f == workers[w].now
             r == workers[w].rev
             outcome == workers[w].result
  <1>0. JournalConsistent
    BY DEF RuntimeInv
  <1>1. PICK x \in Executions : x = workers[w].x
    BY WorkerFacts DEF CommitResult
  <1>2. outcome \in PlainOutcomes /\ workers[w].pc = "commit"
    BY WorkerFacts DEF CommitResult, Placed
  <1>3. \/ CommitExecutionOutcome(x, r, f, outcome, TRUE) /\ Return(w, outcome)
        \/ UNCHANGED journalVars
    BY <1>1 DEF CommitResult
  <1>4. CASE CommitExecutionOutcome(x, r, f, outcome, TRUE) /\ Return(w, outcome)
    <2>1. /\ Exists(x) /\ Unsealed(Latest(x))
          /\ Latest(x).fence = f /\ Latest(x).state = "running"
          /\ journal' = Committed(x, outcome)
      BY <1>4 DEF CommitExecutionOutcome, MayCommit, FoldsOutcomeCommitted, Latest
    <2>2. /\ Rewrites(x) /\ Latest(x)'.outcome = outcome /\ Latest(x)'.state # "running"
          /\ \A y \in Executions \ {x} : journal'[y] = journal[y]
      BY <1>0, <1>2, <2>1, SealMoves
    <2>3. workers'[w].pc # "commit"
      <3>1. \/ Moved(w, AtRest)
            \/ Moved(w, WorkerAt("report", workers[w].x, f, workers[w].attempts, 0, outcome))
        BY <1>4, ReturnMoves
      <3> QED  BY <3>1 DEF Moved, AtRest, WorkerAt
    <2>4. Commits(w, x)
      BY <1>1, <1>2, <2>1, <2>2, <2>3 DEF Commits
    <2>5. ASSUME NEW y \in Executions  PROVE ExecutionMoves(y)
      <3>1. CASE y = x
        BY <2>2, <2>4, <3>1 DEF ExecutionMoves
      <3>2. CASE y # x
        BY <2>2, <3>2 DEF ExecutionMoves
      <3> QED  BY <3>1, <3>2
    <2>6. ASSUME NEW v \in Pending', v \notin Pending
          PROVE  /\ outcome.kind = "suspended" /\ outcome.wake = v.condition
                 /\ v.exec = x /\ v.rev = LatestRevision(x)
      BY <1>4, <2>6 DEF CommitExecutionOutcome, MayCommit, RegisteredWake, Pending
    <2>7. PendingMoves
      BY <1>1, <1>2, <2>1, <2>6 DEF PendingMoves
    <2> QED  BY <2>5, <2>7
  <1>5. CASE UNCHANGED journalVars
    BY <1>5 DEF journalVars, ExecutionMoves, PendingMoves, Pending
  <1> QED  BY <1>3, <1>4, <1>5

\* A cancelled execution is sealed and waits for nothing.
LEMMA CancelMoves ==
    ASSUME RuntimeInv, NEW x \in Executions, CancelChatTurn(x)
    PROVE  /\ \A y \in Executions : ExecutionMoves(y)
           /\ Pending' \subseteq Pending
           /\ \A v \in Pending' : v.exec # x
           /\ ~(Exists(x) /\ Unsealed(Latest(x)))'
  <1>0. JournalConsistent
    BY DEF RuntimeInv
  <1>1. Pending' \subseteq Pending /\ \A v \in Pending' : v.exec # x
    BY DEF CancelChatTurn, Pending
  <1>2. CASE Exists(x) /\ Unsealed(Latest(x))
    <2>1. journal' = Committed(x, CancelledByUser)
      BY <1>2 DEF CancelChatTurn
    <2>2. /\ Rewrites(x) /\ Latest(x)'.outcome = CancelledByUser /\ Latest(x)'.state # "running"
          /\ ~Unsealed(Latest(x))'
          /\ \A y \in Executions \ {x} : journal'[y] = journal[y]
      BY <1>0, <1>2, <2>1, SealMoves, CancelledByUserTyped
    <2>3. ASSUME NEW y \in Executions  PROVE ExecutionMoves(y)
      <3>1. CASE y = x
        BY <2>2, <3>1 DEF ExecutionMoves
      <3>2. CASE y # x
        BY <2>2, <3>2 DEF ExecutionMoves
      <3> QED  BY <3>1, <3>2
    <2> QED  BY <1>1, <2>2, <2>3
  <1>3. CASE ~(Exists(x) /\ Unsealed(Latest(x)))
    <2>1. journal' = journal
      BY <1>3 DEF CancelChatTurn
    <2> QED  BY <1>1, <1>3, <2>1 DEF ExecutionMoves, Exists, Latest, LatestRevision
  <1> QED  BY <1>2, <1>3

\* Every step, on every execution.
LEMMA StepMovesExecutions ==
    ASSUME RuntimeInv, RuntimeNext
    PROVE  (\A x \in Executions : ExecutionMoves(x)) /\ PendingMoves
  <1>0. JournalConsistent
    BY DEF RuntimeInv
  <1>1. ASSUME NEW w \in Workers, OpenExecution(w) \/ StartRun(w)
        PROVE  (\A x \in Executions : ExecutionMoves(x)) /\ PendingMoves
    <2>1. CASE Executions # {}
      BY <1>1, <2>1, OpenMoves, StartMoves DEF PendingMoves
    <2>2. CASE Executions = {}
      BY <1>1, <2>2, WorkerFacts DEF OpenExecution, StartRun
    <2> QED  BY <2>1, <2>2
  <1>2. ASSUME NEW w \in Workers, PickStep(w)
        PROVE  (\A x \in Executions : ExecutionMoves(x)) /\ PendingMoves
    <2>1. PICK D \in SUBSET DueTimers : PickTask(w, D)
      BY <1>2 DEF PickStep
    <2>2. CASE UNCHANGED journalVars
      BY <2>2 DEF journalVars, ExecutionMoves, PendingMoves, Pending
    <2>3. ASSUME NEW p \in Payloads, WakeDueExecutions(D, p)
          PROVE  (\A x \in Executions : ExecutionMoves(x)) /\ PendingMoves
      <3>1. D \subseteq Pending /\ DeliverWakes(D, p) /\ D # {}
        BY <2>3 DEF WakeDueExecutions, DeliverWakes
      <3>2. Executions # {}
        BY <1>0, <3>1, PendingAtLatest
      <3> QED  BY <1>0, <3>1, <3>2, DeliveryMoves DEF PendingMoves
    <2> QED  BY <2>1, <2>2, <2>3 DEF PickTask
  <1>3. ASSUME NEW c \in Conditions, DeliverSignal(c)
        PROVE  (\A x \in Executions : ExecutionMoves(x)) /\ PendingMoves
    <2> DEFINE D == {v \in Pending : v.condition = c}
    <2>1. PICK p \in Payloads : DeliverWakes(D, p)
      BY <1>3 DEF DeliverSignal, DeliverExecutionWake
    <2>2. D \subseteq Pending /\ D # {}
      BY <2>1 DEF DeliverWakes
    <2> HIDE DEF D
    <2>3. Executions # {}
      BY <1>0, <2>2, PendingAtLatest
    <2> QED  BY <1>0, <2>1, <2>2, <2>3, DeliveryMoves DEF PendingMoves
  <1>4. ASSUME NEW x \in Executions, CancelChatTurn(x)
        PROVE  (\A y \in Executions : ExecutionMoves(y)) /\ PendingMoves
    BY <1>4, CancelMoves DEF PendingMoves
  <1>5. CASE UNCHANGED journalVars
    BY <1>5 DEF journalVars, ExecutionMoves, PendingMoves, Pending
  <1>6. ASSUME NEW x \in Executions, CutShort(x) \/ DiscardStaleWake(x)
        PROVE  (\A y \in Executions : ExecutionMoves(y)) /\ PendingMoves
    <2>1. CASE DiscardPendingWakes(x)
      BY <2>1 DEF DiscardPendingWakes, ExecutionMoves, PendingMoves, Pending
    <2> QED  BY <1>5, <1>6, <2>1, CutShortFacts
  <1> QED
    BY <1>1, <1>2, <1>3, <1>4, <1>5, <1>6, CommitMoves
    DEF RuntimeNext, CutShort, WorkerStep, ReadClock, AcquireTask, AdapterReturns, ReportRun, SettleRun,
        WriteRow, CheckAfterError, WriteFailure, RunFails, Heartbeat, LeaseLapses,
        CancelTask, ProjectTaskState, CrashGateway, RestartGateway

-------------------------------------------------------------------------------
(* The invariant is inductive *)

\* The two forms of a step of a worker: it stays or it moves.
LEMMA WorkerMoves ==
    ASSUME RuntimeInv, RuntimeNext, NEW v \in Workers
    PROVE  /\ workers' = [w \in Workers |-> workers'[w]]
           /\ \/ workers'[v] = workers[v]
              \/ \E new \in WorkerState : workers'[v] = new /\ Fits(v, new)
  <1>1. workers = [w \in Workers |-> workers[w]]
    BY DEF RuntimeInv, WorkersPlaced
  <1>2. CASE UNCHANGED workers
    BY <1>1, <1>2
  <1>3. CASE workers' = [w \in Workers |-> AtRest]
    BY <1>3, AtRestFits
  <1>4. ASSUME NEW w \in Workers, NEW new \in WorkerState, Moved(w, new), Fits(w, new)
        PROVE  /\ workers' = [u \in Workers |-> workers'[u]]
               /\ \/ workers'[v] = workers[v]
                  \/ \E k \in WorkerState : workers'[v] = k /\ Fits(v, k)
    BY <1>4 DEF Moved
  <1> QED  BY <1>2, <1>3, <1>4, StepMovesWorkers DEF WorkersMove

\* Workers fit the journal of the next state.
LEMMA WorkersStayPlaced ==
    ASSUME RuntimeInv, RuntimeNext
    PROVE  WorkersPlaced'
  <1>1. [JournalNext]_journalVars
    BY StepIsJournalStep
  <1>2. ASSUME NEW v \in Workers  PROVE workers'[v] \in WorkerState /\ Placed(workers[v])'
    <2>1. ASSUME NEW new \in WorkerState, workers'[v] = new, Fits(v, new)
          PROVE  workers'[v] \in WorkerState /\ Placed(workers[v])'
      BY <2>1 DEF Fits, Placed
    <2>2. CASE workers'[v] = workers[v]
      <3>1. Placed(workers[v])
        BY WorkerFacts
      <3>2. workers[v].pc \in {"start", "run", "commit"} =>
              workers[v].rev \in 1 .. Len(journal'[workers[v].x])
        BY <1>1, <3>1, RevisionStays DEF Placed
      <3> QED  BY <2>2, <3>1, <3>2 DEF Placed
    <2> QED  BY <2>1, <2>2, WorkerMoves
  <1>3. workers' \in [Workers -> WorkerState]
    <2>1. CASE Workers # {}
      <3>1. workers' = [w \in Workers |-> workers'[w]]
        BY <2>1, WorkerMoves
      <3> QED  BY <1>2, <3>1
    <2>2. CASE Workers = {}
      BY <2>2, StepMovesWorkers DEF WorkersMove, RuntimeInv, WorkersPlaced
    <2> QED  BY <2>1, <2>2
  <1> QED  BY <1>2, <1>3 DEF WorkersPlaced

\* A new reading differs from every reading held, so no two are equal.
LEMMA ClocksStayDistinct ==
    ASSUME RuntimeInv, RuntimeNext
    PROVE  ClocksDistinct'
  <1>1. ClocksDistinct
    BY DEF RuntimeInv
  <1>2. CASE UNCHANGED workers
    BY <1>1, <1>2 DEF ClocksDistinct
  <1>3. CASE workers' = [w \in Workers |-> AtRest]
    BY <1>3, AtRestFits DEF ClocksDistinct
  <1>4. ASSUME NEW w \in Workers, NEW new \in WorkerState, Moved(w, new), Fits(w, new)
        PROVE  ClocksDistinct'
    <2>1. \A v \in Workers : workers[v].now \in Nat
      BY WorkerFacts
    <2>2. new.now \in Readings => \A v \in Workers : new.now > workers[v].now
      BY DEF Readings, Ordered
    <2>3. new.now = 0 \/ new.now = workers[w].now \/ new.now \in Readings
      BY <1>4 DEF Fits
    <2>4. \A v \in Workers \ {w} : (workers[v].now = new.now /\ new.now # 0) => FALSE
      <3> SUFFICES ASSUME NEW v \in Workers \ {w}, workers[v].now = new.now, new.now # 0
                   PROVE  FALSE
        OBVIOUS
      <3>1. CASE new.now = workers[w].now
        BY <1>1, <3>1 DEF ClocksDistinct
      <3>2. CASE new.now \in Readings
        <4>1. new.now > workers[v].now
          BY <2>2, <3>2
        <4> QED  BY <2>1, <4>1
      <3> QED  BY <2>3, <3>1, <3>2
    <2> HIDE DEF Moved
    <2>5. workers'[w] = new /\ \A v \in Workers \ {w} : workers'[v] = workers[v]
      BY <1>4 DEF Moved
    <2> SUFFICES ASSUME NEW u \in Workers, NEW v \in Workers,
                        workers'[u].now = workers'[v].now, workers'[u].now # 0
                 PROVE  u = v
      BY DEF ClocksDistinct
    <2>6. CASE u # w /\ v # w
      BY <1>1, <2>5, <2>6 DEF ClocksDistinct
    <2>7. CASE u = w /\ v # w
      BY <2>4, <2>5, <2>7
    <2>8. CASE u # w /\ v = w
      BY <2>4, <2>5, <2>8
    <2> QED  BY <2>6, <2>7, <2>8
  <1> QED  BY <1>2, <1>3, <1>4, StepMovesWorkers DEF WorkersMove

LatestFenced ==
    \A x \in Executions :
        Exists(x) => RevisionConsistent(Latest(x)) /\ Latest(x).fence \in 1 .. MaxFence
\* A running attempt has the fence of its revision.
LEMMA LatestIsFenced == JournalConsistent => LatestFenced
  BY LatestFacts DEF LatestFenced

\* A running attempt is fenced by the reading of the worker it belongs to.
LEMMA AttemptsStayOwned ==
    ASSUME RuntimeInv, RuntimeNext
    PROVE  AttemptsOwned'
  <1> SUFFICES ASSUME NEW x \in Executions, Exists(x)', Latest(x)'.state = "running",
                      NEW u \in Workers, workers'[u].now = Latest(x)'.attempt.fence
               PROVE  Latest(x)'.attempt.owner = u
    BY DEF AttemptsOwned
  <1>1. JournalConsistent'
    BY StepIsJournalStep, JournalGrows
  <1>2. Latest(x)'.attempt.fence \in Fences
    <2>1. LatestFenced'
      BY <1>1, LatestIsFenced, PTL
    <2> QED  BY <2>1 DEF LatestFenced, RevisionConsistent, Fences
  <1>3. workers'[u].now # 0
    BY <1>2 DEF Fences
  <1>4. \/ workers'[u].now = workers[u].now
        \/ workers'[u].now \in Readings /\ journal' = journal
    BY <1>3, WorkerMoves DEF Fits, journalVars
  <1>5. CASE journal' = journal
    <2>1. Exists(x) /\ Latest(x).state = "running" /\ Latest(x)' = Latest(x)
      BY <1>5 DEF Exists, Latest, LatestRevision
    <2>2. Latest(x).attempt.fence = Latest(x).fence /\ Latest(x).fence \in Nat
      BY <2>1, OpenFacts DEF RevisionConsistent, Fences
    <2>3. CASE workers'[u].now = workers[u].now
      BY <2>1, <2>3 DEF RuntimeInv, AttemptsOwned
    <2>4. CASE workers'[u].now \in Readings
      <3>1. workers'[u].now > Latest(x).fence
        BY <2>1, <2>4 DEF Readings, Ordered
      <3> QED  BY <2>1, <2>2, <3>1
    <2> QED  BY <1>4, <2>3, <2>4
  <1>6. CASE journal' # journal
    <2>1. workers'[u].now = workers[u].now
      BY <1>4, <1>6
    <2>2. CASE journal'[x] = journal[x]
      BY <2>1, <2>2 DEF RuntimeInv, AttemptsOwned, Exists, Latest, LatestRevision
    <2>3. CASE journal'[x] # journal[x]
      <3>1. PICK w \in Workers : Latest(x)'.attempt = [owner |-> w, fence |-> workers[w].now]
        <4>1. ExecutionMoves(x)
          BY StepMovesExecutions
        <4> QED  BY <2>3, <4>1 DEF ExecutionMoves
      <3>2. Latest(x)'.attempt.fence = workers[w].now
        BY <3>1
      <3>3. workers[w].now = workers[u].now /\ workers[u].now # 0
        BY <1>3, <2>1, <3>2
      <3>4. w = u
        BY <3>3 DEF RuntimeInv, ClocksDistinct
      <3> QED  BY <3>1, <3>4
    <2> QED  BY <2>2, <2>3
  <1> QED  BY <1>5, <1>6

\* A row that is cancelled by this step: its execution has its outcome and waits
\* for nothing, unless the cancellation was cut short.
LEMMA CancelledNow ==
    ASSUME RuntimeInv, RuntimeNext, NEW x \in chats, tasks'[x].status = "cancelled",
           Cancelling(x), x \notin torn'
    PROVE  (\A v \in Pending' : v.exec # x) /\ ~(Exists(x) /\ Unsealed(Latest(x)))'
  <1>0. JournalConsistent /\ x \in Executions
    BY DEF RuntimeInv, RowsTyped
  <1>1. CASE CancelTask(x)
    BY <1>1 DEF CancelTask
  <1>2. CASE CancelChatTurn(x)
    BY <1>0, <1>2, CancelMoves
  <1>3. ASSUME NEW done \in BOOLEAN, ProjectTaskState(x, done)
        PROVE  (\A v \in Pending' : v.exec # x) /\ ~(Exists(x) /\ Unsealed(Latest(x)))'
    <2> DEFINE r == projected[x] + 1
               status == StatusOf(journal[x][r].outcome)
    <2>1. projected[x] \in Nat /\ SealedCount(x) \in Nat
      <3>1. [JournalNext]_journalVars
        BY StepIsJournalStep
      <3> QED  BY <1>0, <3>1, JournalGrows DEF RuntimeInv, RowsTyped
    <2>2. r \in 1 .. SealedCount(x)
      BY <1>3, <2>1 DEF ProjectTaskState
    <2>3. /\ journal[x][r].outcome \in Outcomes
          /\ r = Len(journal[x]) \/ journal[x][r].outcome.kind = "suspended"
          /\ r = Len(journal[x]) => Exists(x) /\ ~Unsealed(Latest(x))
      BY <1>0, <2>2, SealedTyped
    <2>4. status \in Statuses \ {"running"} /\ (status = "cancelled" => journal[x][r].outcome.kind = "cancelled")
      BY <2>3, StatusTyped
    <2>5. SetTask(x, Become(tasks[x], status))
      BY <1>3 DEF ProjectTaskState
    <2> HIDE DEF status
    <2>6. tasks'[x].status = status
      <3>1. RowTyped(tasks[x])
        BY <1>0 DEF RuntimeInv, RowsTyped
      <3>2. Become(tasks[x], status).status = status
        BY <2>4, <3>1, BecomeTyped
      <3>3. tasks'[x] = Become(tasks[x], status)
        BY <1>0, <2>5 DEF RuntimeInv, RowsTyped, SetTask
      <3> QED  BY <3>2, <3>3
    <2>7. r = Len(journal[x]) /\ journal[x][r].outcome.kind = "cancelled" /\ ~Unsealed(Latest(x))
      BY <2>3, <2>4, <2>6
    <2>8. \A v \in Pending : v.exec # x
      BY <1>0, <2>7, PendingAtLatest DEF Latest, LatestRevision
    <2>9. UNCHANGED journalVars
      BY <1>3 DEF ProjectTaskState
    <2> QED  BY <2>7, <2>8, <2>9 DEF journalVars, Pending, Latest, LatestRevision, Exists
  <1>4. CASE CutShort(x)
    BY <1>4 DEF CutShort, CancelFails, CrashInCancel, CancelCutShort
  <1> QED  BY <1>1, <1>2, <1>3, <1>4 DEF Cancelling

\* What is cancelled stays so until its last worker is gone.
LEMMA CancelledStaysFinal ==
    ASSUME RuntimeInv, RuntimeNext
    PROVE  CancelledFinal'
  <1>0. JournalConsistent /\ chats' = chats /\ chats \subseteq Executions
    <2>1. chats' = chats
      BY DEF RuntimeNext, WorkerStep, ReadClock, PickStep, PickTask, AcquireTask, OpenExecution,
             StartRun, AdapterReturns, CommitResult, ReportRun, SettleRun, WriteRow,
             CheckAfterError, WriteFailure, RunFails, Heartbeat, LeaseLapses, CancelTask,
             CancelChatTurn, CancelFails, CrashInCancel, CancelCutShort, DiscardStaleWake,
             DeliverSignal, ProjectTaskState, CrashGateway, RestartGateway
    <2> QED  BY <2>1 DEF RuntimeInv, RowsTyped
  <1> SUFFICES ASSUME NEW x \in chats, x \notin torn', tasks'[x].status = "cancelled"
               PROVE  CancelledRowFinal(x)'
    BY <1>0 DEF CancelledFinal
  <1>1. x \in Executions
    BY <1>0
  <1>2. CASE Cancelling(x)
    BY <1>2, CancelledNow DEF CancelledRowFinal
  <1>3. CASE tasks[x].status = "cancelled" /\ ~Cancelling(x)
    <2>0. x \notin torn
      <3>1. CASE torn' = torn
        BY <3>1
      <3>2. ASSUME NEW y \in Executions, CancelChatTurn(y) \/ CutShort(y)  PROVE x \notin torn
        BY <1>3, <3>2
        DEF Cancelling, CancelChatTurn, CutShort, CancelFails, CrashInCancel, CancelCutShort
      <3> QED
        BY <3>1, <3>2
        DEF RuntimeNext, WorkerStep, ReadClock, PickStep, PickTask, AcquireTask, OpenExecution,
            StartRun, AdapterReturns, CommitResult, ReportRun, SettleRun, WriteRow,
            CheckAfterError, WriteFailure, RunFails, Heartbeat, LeaseLapses, CancelTask,
            CutShort, DiscardStaleWake, DeliverSignal, ProjectTaskState, CrashGateway,
            RestartGateway
    <2>1. CancelledRowFinal(x)
      BY <1>3, <2>0 DEF RuntimeInv, CancelledFinal
    <2>2. ExecutionMoves(x) /\ PendingMoves
      BY <1>1, StepMovesExecutions
    <2>3. \A v \in Pending' : v.exec # x
      <3> SUFFICES ASSUME NEW v \in Pending', v.exec = x  PROVE FALSE
        OBVIOUS
      <3>1. PICK w \in Workers : /\ workers[w].pc = "commit" /\ workers[w].x = x
                                 /\ workers[w].result.kind = "suspended"
                                 /\ Exists(x) /\ Unsealed(Latest(x))
        BY <2>1, <2>2 DEF PendingMoves, CancelledRowFinal
      <3>2. workers[w].result = CancelledByUser
        BY <2>1, <3>1 DEF CancelledRowFinal
      <3> QED  BY <3>1, <3>2 DEF CancelledByUser, OutcomeOf
    <2>4. ASSUME Exists(x)', Unsealed(Latest(x))', NEW w \in Workers,
                 workers'[w].pc = "commit", workers'[w].x = x
          PROVE  workers'[w].result = CancelledByUser
      <3>1. ASSUME NEW new \in WorkerState, workers'[w] = new, Fits(w, new)
            PROVE  workers'[w].result = CancelledByUser
        <4>1. workers[w].x = x /\ (Task(w).status = "cancelled" => new.result = CancelledByUser)
          BY <2>4, <3>1 DEF Fits
        <4> QED  BY <1>3, <3>1, <4>1 DEF Task
      <3>2. CASE workers'[w] = workers[w]
        <4>1. workers[w].pc = "commit" /\ workers[w].x = x
          BY <2>4, <3>2
        <4>2. Exists(x)
          <5>1. workers[w].rev \in 1 .. Len(journal[x])
            BY <4>1, WorkerFacts DEF Placed
          <5>2. Len(<<>>) = 0
            BY EmptySeq
          <5> QED  BY <5>1, <5>2 DEF Exists
        <4>3. Unsealed(Latest(x))
          <5>1. CASE journal'[x] = journal[x]
            BY <2>4, <5>1 DEF Latest, LatestRevision
          <5>2. CASE Rewrites(x)
            BY <5>2 DEF Rewrites
          <5> QED  BY <2>1, <2>2, <4>2, <5>1, <5>2 DEF ExecutionMoves, CancelledRowFinal
        <4> QED  BY <2>1, <3>2, <4>1, <4>2, <4>3 DEF CancelledRowFinal
      <3> QED  BY <3>1, <3>2, WorkerMoves
    <2> QED  BY <2>3, <2>4 DEF CancelledRowFinal
  <1> QED  BY <1>1, <1>2, <1>3, StepMovesTasks DEF NewlyCancelled

\* Every step keeps the invariant.
LEMMA RuntimeInvNext ==
    ASSUME RuntimeInv, [RuntimeNext]_runtimeVars
    PROVE  RuntimeInv'
  <1>1. CASE RuntimeNext
    <2>1. CASE Executions # {}
      BY <1>1, <2>1, StepIsJournalStep, JournalGrows, RowsStayTyped, WorkersStayPlaced,
         ClocksStayDistinct, AttemptsStayOwned, CancelledStaysFinal DEF RuntimeInv
    <2>2. CASE Executions = {}
      <3>1. JournalConsistent'
        BY <1>1, StepIsJournalStep, StepConsistent DEF RuntimeInv
      <3> QED  BY <1>1, <3>1, RowsStayTyped, WorkersStayPlaced,
                  ClocksStayDistinct, AttemptsStayOwned, CancelledStaysFinal DEF RuntimeInv
    <2> QED  BY <2>1, <2>2
  <1>2. CASE UNCHANGED runtimeVars
    <2>1. RuntimeInv' = RuntimeInv
      BY <1>2 DEF runtimeVars, RuntimeInv, JournalConsistent, JournalTypeOK, SuspendedHasRoom,
         RoomToResume, RowConsistent, RowsTyped, WorkersPlaced, Placed, ClocksDistinct,
         AttemptsOwned, CancelledFinal, CancelledRowFinal, Exists, Latest, LatestRevision,
         SealedCount, OpenExecutions, Pending
    <2> QED  BY <2>1
  <1> QED  BY <1>1, <1>2

\* At first all rows are queued and all workers rest.
LEMMA RuntimeInvInit ==
    ASSUME RuntimeInit
    PROVE  RuntimeInv
  <1>1. JournalConsistent
    BY InitConsistent DEF RuntimeInit
  <1>2. \A x \in Executions : ~Exists(x) /\ SealedCount(x) = 0
    <2>1. Len(<<>>) = 0
      BY EmptySeq
    <2> QED  BY <2>1 DEF RuntimeInit, JournalInit, Exists, SealedCount, OpenExecutions
  <1>3. NewTask \in RowState /\ NewTask.status = "queued" /\ NewTask.live = FALSE
    BY DEF NewTask, RowState, Statuses
  <1>4. RowTyped(NewTask)
    BY <1>3 DEF RowTyped
  <1>5. RowsTyped
    BY <1>2, <1>3, <1>4 DEF RuntimeInit, RowsTyped
  <1>6. WorkersPlaced /\ ClocksDistinct
    BY AtRestTyped DEF RuntimeInit, WorkersPlaced, Placed, ClocksDistinct
  <1>7. AttemptsOwned
    BY <1>2 DEF AttemptsOwned
  <1>8. CancelledFinal
    <2>1. \A x \in chats : tasks[x].status = "queued"
      BY <1>3 DEF RuntimeInit
    <2> QED  BY <2>1 DEF CancelledFinal
  <1> QED  BY <1>1, <1>5, <1>6, <1>7, <1>8 DEF RuntimeInv

-------------------------------------------------------------------------------
(* Theorems *)

\* Whatever workers, users, crashes and lapses do, the rows, the workers and the
\* journal agree as RuntimeInv says.
THEOREM RuntimeStaysConsistent == RuntimeSpec => []RuntimeInv
  BY RuntimeInvInit, RuntimeInvNext, PTL DEF RuntimeSpec

\* The rows of tasks, the workers' records and the journal keep their types, and a
\* row that runs is leased (lease.rs, scheduler.rs, gateway_task_executor.rs).
THEOREM RuntimeKeepsItsTypes == RuntimeSpec => []RuntimeTypeOK
  <1>1. RuntimeInv => RuntimeTypeOK
    BY DEF RuntimeInv, JournalConsistent, RowsTyped, RowTyped, RowState, Statuses, WorkersPlaced,
           WorkerState, RuntimeTypeOK
  <1> QED  BY <1>1, RuntimeStaysConsistent, PTL

\* The runtime implements the store's specification: ExecutionRuntime::execute and
\* the cancellation of a turn use the journal only through its operations, with the
\* arguments the store allows.
THEOREM RuntimeUsesTheJournal == RuntimeSpec => JournalSpec
  <1>1. RuntimeInit => JournalInit
    BY DEF RuntimeInit
  <1>2. ASSUME RuntimeInv, [RuntimeNext]_runtimeVars  PROVE [JournalNext]_journalVars
    BY <1>2, StepIsJournalStep DEF runtimeVars, journalVars
  <1> QED  BY <1>1, <1>2, RuntimeStaysConsistent, PTL DEF RuntimeSpec, JournalSpec

\* A chat turn whose cancellation went through keeps no pending wake
\* (cancel_chat_turn against a worker that is about to commit a suspension, and
\* against a wake that an earlier, interrupted cancellation left).
THEOREM CancelledTurnsHaveNoWake == RuntimeSpec => []CancelledTurnHasNoWake
  <1>1. RuntimeInv => CancelledTurnHasNoWake
    BY DEF RuntimeInv, CancelledFinal, CancelledRowFinal, CancelledTurnHasNoWake
  <1> QED  BY <1>1, RuntimeStaysConsistent, PTL

\* The outcome a step gives to the open revision of x, by the move of x.
LEMMA OutcomeGiven ==
    ASSUME RuntimeInv, [RuntimeNext]_runtimeVars, NEW x \in Executions
    PROVE  \/ NewOutcome(x).kind \in {"none", "cancelled"}
           \/ \E w \in Workers : Commits(w, x) /\ NewOutcome(x) = workers[w].result
  <1>1. CASE ~(Exists(x) /\ Unsealed(Latest(x)))
    BY <1>1 DEF NewOutcome, NoOutcome
  <1>2. CASE Exists(x) /\ Unsealed(Latest(x))
    <2>1. NewOutcome(x) = journal'[x][LatestRevision(x)].outcome
      BY <1>2 DEF NewOutcome
    <2>2. CASE journal'[x] = journal[x]
      BY <1>2, <2>1, <2>2 DEF Latest, LatestRevision, Unsealed, NoOutcome
    <2>3. CASE Rewrites(x) /\ Latest(x)'.outcome = NoOutcome
      BY <2>1, <2>3 DEF Rewrites, Latest, NoOutcome
    <2>4. CASE Rewrites(x) /\ \E w \in Workers : Commits(w, x)
      BY <2>1, <2>4 DEF Rewrites, Latest, Commits
    <2>5. CASE Rewrites(x) /\ Latest(x)'.outcome = CancelledByUser
      BY <2>1, <2>5 DEF Rewrites, Latest, CancelledByUser, OutcomeOf
    <2>6. ASSUME \E v \in Pending : v.exec = x  PROVE FALSE
      BY <1>2, <2>6, PendingAtLatest DEF RuntimeInv
    <2>7. ExecutionMoves(x)
      BY StepMovesExecutions DEF runtimeVars, journalVars, ExecutionMoves
    <2> QED  BY <1>2, <2>2, <2>3, <2>4, <2>5, <2>6, <2>7 DEF ExecutionMoves
  <1> QED  BY <1>1, <1>2

\* A reply that was on its way is not committed to a chat turn whose cancellation
\* went through (execution_runtime.rs: the row is read again after the adapter
\* returned).
THEOREM CancelledTurnsAreNotAnswered == RuntimeSpec => CancelledTurnNotAnswered
  <1>1. ASSUME RuntimeInv, [RuntimeNext]_runtimeVars  PROVE CancelledTurnStays
    <2> SUFFICES ASSUME NEW x \in chats \ torn, tasks[x].status = "cancelled"
                 PROVE  NewOutcome(x).kind \in {"none", "cancelled"}
      BY DEF CancelledTurnStays
    <2>1. x \in Executions /\ CancelledRowFinal(x)
      BY <1>1 DEF RuntimeInv, RowsTyped, CancelledFinal
    <2>2. ASSUME NEW w \in Workers, Commits(w, x), NewOutcome(x) = workers[w].result
          PROVE  NewOutcome(x).kind \in {"none", "cancelled"}
      <3>1. CASE Exists(x) /\ Unsealed(Latest(x))
        BY <2>1, <2>2, <3>1 DEF CancelledRowFinal, Commits, CancelledByUser, OutcomeOf
      <3>2. CASE ~(Exists(x) /\ Unsealed(Latest(x)))
        BY <3>2 DEF NewOutcome, NoOutcome
      <3> QED  BY <3>1, <3>2
    <2> QED  BY <1>1, <2>1, <2>2, OutcomeGiven
  <1> QED  BY <1>1, RuntimeStaysConsistent, PTL DEF RuntimeSpec, CancelledTurnNotAnswered

\* "A late return with a stale fence does not complete the work": the outcome of a
\* revision is the one of the worker its journal names as the current attempt, or a
\* cancellation (commit_running_execution_outcome).
THEOREM OutcomesAreCommittedByAttempts == RuntimeSpec => CommittedByAttempt
  <1>1. ASSUME RuntimeInv, [RuntimeNext]_runtimeVars  PROVE AttemptCommits
    <2> SUFFICES ASSUME NEW x \in Executions,
                        NewOutcome(x).kind \in {"completed", "failed", "suspended"}
                 PROVE  \E w \in Workers :
                          /\ workers[w].pc = "commit" /\ workers'[w].pc # "commit"
                          /\ workers[w].x = x
                          /\ Latest(x).attempt = [owner |-> w, fence |-> workers[w].now]
      BY DEF AttemptCommits
    <2>1. PICK w \in Workers : Commits(w, x)
      BY <1>1, OutcomeGiven
    <2>2. Exists(x)
      BY DEF NewOutcome, NoOutcome
    <2>3. Latest(x) \in Revision /\ RevisionConsistent(Latest(x)) /\ Latest(x).state = "running"
      BY <1>1, <2>1, <2>2, OpenFacts DEF Commits
    <2>4. Latest(x).attempt.fence = workers[w].now
      BY <2>1, <2>3 DEF Commits, RevisionConsistent
    <2>5. Latest(x).attempt.owner = w
      BY <1>1, <2>2, <2>3, <2>4 DEF RuntimeInv, AttemptsOwned
    <2>6. Latest(x).attempt \in Attempt \cup {NoAttempt}
      BY <2>3 DEF Revision
    <2>7. Latest(x).attempt = [owner |-> w, fence |-> workers[w].now]
      BY <2>4, <2>5, <2>6 DEF Attempt, NoAttempt
    <2> QED  BY <2>1, <2>7 DEF Commits
  <1> QED  BY <1>1, RuntimeStaysConsistent, PTL DEF RuntimeSpec, CommittedByAttempt

===============================================================================

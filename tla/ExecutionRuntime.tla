--------------------------- MODULE ExecutionRuntime ---------------------------
(***************************************************************************)
(* How an execution is run: the task rows and their leases                 *)
(* (task-runtime/src/lease.rs, scheduler.rs), the background workers of    *)
(* the gateway (desktop-gateway/src/gateway_task_executor.rs), the         *)
(* execution runtime that runs an adapter under the journal's fence        *)
(* (execution_runtime.rs), the projector's write of a chat turn's row      *)
(* (execution_projection.rs) and the user's cancellation                   *)
(* (gateway_task_executor.rs, broker.rs).  The journal and the wakes are   *)
(* those of ExecutionJournal.                                              *)
(*                                                                         *)
(* A task row and its execution have the same id.  A worker's steps are    *)
(* the sections it runs under the task-store lock: whatever it read in one *)
(* may have changed in the next.  The row of a plain task is written by    *)
(* the worker that ran it, the row of a chat turn by the projector.        *)
(*                                                                         *)
(* Left out: resources, dependencies, deadlines, recurrences and the       *)
(* retry back-off (a queued row is due at any time).                       *)
(***************************************************************************)
EXTENDS ExecutionJournal, FiniteSetsExt

CONSTANTS
    Approvals,     \* those of the form WakeCondition::Approval
    Own, Retry,    \* bodies: an adapter's outcome, a retry of a transient failure
    MaxAttempts,   \* retry_policy.max_attempts
    MaxFaults      \* bound on faults: deaths, failed runs, lapses under a holder

ASSUME RuntimeAssumption ==
    /\ Approvals \subseteq Conditions \ Timers
    /\ Bodies = {Own, Retry} /\ Own # Retry
    /\ MaxAttempts \in Nat \ {0} /\ MaxFaults \in Nat
    /\ Timers # {}

VARIABLES
    chats,      \* the executions that are chat turns; the others are plain tasks
    tasks,      \* execution -> its row of the table tasks
    workers,    \* worker -> where it is in run_next_task_once
    projected,  \* execution -> revisions whose outbox row is completed
    up,         \* the gateway runs
    faults,     \* faults so far
    torn        \* ghost: chat turns whose last cancellation was cut short

runtimeVars == <<journal, wakes, chats, tasks, workers, projected, up, faults, torn>>

-------------------------------------------------------------------------------
(* Rows and workers *)

Workers == Owners

EndedStatus == {"completed", "failed", "cancelled"}
WaitingStatus == {"waiting_time", "waiting_user", "waiting_external"}

\* live says that lease_expires_at is in the future.
Unleased(row) == [row EXCEPT !.owner = None, !.fence = 0, !.live = FALSE]
Become(row, status) == [Unleased(row) EXCEPT !.status = status]
NewTask == [status |-> "queued", owner |-> None, fence |-> 0, live |-> FALSE, attempts |-> 0]

\* What a worker carries from one lock section to the next: the task it picked,
\* the clock reading it started with (its lease's fence), the attempt count it
\* read, the revision it runs and the outcome it has.
AtRest == [pc |-> "idle", x |-> None, now |-> 0, attempts |-> 0, rev |-> 0,
           result |-> NoOutcome]
Goto(w, pc) == workers' = [workers EXCEPT ![w].pc = pc]
Rest(w) == workers' = [workers EXCEPT ![w] = AtRest]

\* The execution has an outcome.  A chat turn's row is left to the projector.
Return(w, outcome) ==
    workers' = [workers EXCEPT ![w] =
                  IF workers[w].x \in chats THEN AtRest
                  ELSE [workers[w] EXCEPT !.pc = "report", !.rev = 0, !.result = outcome]]

\* The execution returned an error.
Fail(w) ==
    workers' = [workers EXCEPT ![w].pc = "fail", ![w].rev = 0, ![w].result = NoOutcome]

Task(w) == tasks[workers[w].x]
SetTask(x, row) == tasks' = [tasks EXCEPT ![x] = row]

\* is_lease_still_ours, same_lease_generation
LeaseOurs(w) == Task(w).owner = w /\ Task(w).fence = workers[w].now

\* The watchdog renews the lease until the execution returns.
Watched == {"open", "start", "run", "commit"}
Holds(w, x) == workers[w].pc \in Watched /\ workers[w].x = x /\ LeaseOurs(w)

OutcomeOf(kind, wake, body) == [kind |-> kind, wake |-> wake, body |-> body, next |-> None]
CancelledByUser == OutcomeOf("cancelled", None, Own)

\* ExecutionProjection::from_outcome
StatusOf(outcome) ==
    CASE outcome.kind # "suspended"   -> outcome.kind
      [] outcome.wake \in Timers      -> "waiting_time"
      [] outcome.wake \in Approvals   -> "waiting_user"
      [] OTHER                        -> "waiting_external"

-------------------------------------------------------------------------------
(* run_next_task_once *)

\* A reading of the nanosecond clock is new: larger than every fence it can be
\* compared with, the fence + 1 of a delivered wake included, and different from
\* the fence of every lease.
Ordered == {workers[w].now : w \in Workers}
             \cup {Latest(x).fence : x \in {y \in Executions : Exists(y)}}
Readings ==
    {n \in Fences : /\ n % 2 = 0
                    /\ \A f \in Ordered : n > f
                    /\ \A x \in Executions : n # tasks[x].fence}

StaleLease(row) == row.status = "running" /\ row.owner # None /\ ~row.live

DueTimers == {v \in Pending : v.condition \in Timers}

\* A tick of the worker loop reads the clock and then waits for the lock.  Ticks
\* that find nothing to do are left out.
ReadClock(w) ==
    /\ up
    /\ workers[w].pc = "idle"
    /\ Readings # {}
    /\ \/ DueTimers # {}
       \/ \E x \in Executions : tasks[x].status = "queued" \/ StaleLease(tasks[x])
    /\ workers' = [workers EXCEPT ![w] = [AtRest EXCEPT !.pc = "pick", !.now = Min(Readings)]]
    /\ UNCHANGED <<journalVars, chats, tasks, projected, up, faults, torn>>

\* Fault: stale leases are not recovered.
RefreshedWoken(x, D) ==
    IF \E v \in D : v.exec = x THEN Become(tasks[x], "queued") ELSE tasks[x]

\* What waking the executions of D and recover_stale_leases leave of a row.
Refreshed(x, D) ==
    IF (\E v \in D : v.exec = x) \/ StaleLease(tasks[x])
    THEN Become(tasks[x], "queued") ELSE tasks[x]

\* Fault: only queued tasks are looked at.
PickQueuedTask(w, D) ==
    /\ workers[w].pc = "pick"
    /\ D = {}
    /\ tasks' = [x \in Executions |-> Refreshed(x, {})]
    /\ \/ \E x \in Executions :
            /\ Refreshed(x, {}).status = "queued"
            /\ workers' = [workers EXCEPT ![w].pc = "acquire", ![w].x = x]
       \/ (\A x \in Executions : Refreshed(x, {}).status # "queued") /\ Rest(w)
    /\ UNCHANGED <<journalVars, chats, projected, up, faults, torn>>

\* next_ready_task_across_workspaces: stale leases are recovered, the timers D
\* that are due are delivered, and one queued task is picked.  A tick that comes
\* before any timer is due and finds nothing queued is left out.
PickTask(w, D) ==
    LET ready == {x \in Executions : Refreshed(x, D).status = "queued"} IN
    /\ workers[w].pc = "pick"
    /\ ready = {} => DueTimers = {}
    /\ IF D = {} THEN UNCHANGED journalVars
       ELSE \E p \in Payloads : WakeDueExecutions(D, p)
    /\ tasks' = [x \in Executions |-> Refreshed(x, D)]
    /\ IF ready = {} THEN Rest(w)
       ELSE \E x \in ready :
              workers' = [workers EXCEPT ![w].pc = "acquire", ![w].x = x]
    /\ UNCHANGED <<chats, projected, up, faults, torn>>

\* acquire_task_for_execution in a lock section of its own: only the lease is
\* looked at, and the row becomes running whatever its status is by now.
AcquireTask(w) ==
    /\ workers[w].pc = "acquire"
    /\ IF Task(w).live THEN Rest(w) /\ UNCHANGED tasks
       ELSE /\ SetTask(workers[w].x, [Task(w) EXCEPT !.status = "running", !.owner = w,
                                        !.fence = workers[w].now, !.live = TRUE])
            /\ workers' = [workers EXCEPT ![w].pc = "open",
                                          ![w].attempts = Task(w).attempts]
    /\ UNCHANGED <<journalVars, chats, projected, up, faults, torn>>

-------------------------------------------------------------------------------
(* ExecutionRuntime::execute *)

\* An outcome that is already there is the result.  Otherwise the acquired fence
\* must not be older than the execution's: it reclaims a running revision,
\* advances a ready one or creates the execution.  (Two equal readings of the
\* clock would leave the execution as it is.)
OpenExecution(w) ==
    LET x == workers[w].x
        f == workers[w].now
        Opened(r) == workers' = [workers EXCEPT ![w].pc = "start", ![w].rev = r] IN
    /\ workers[w].pc = "open"
    /\ \/ /\ Exists(x) /\ ~Unsealed(Latest(x))
          /\ Return(w, Latest(x).outcome)
          /\ UNCHANGED journalVars
       \/ /\ Exists(x) /\ Unsealed(Latest(x)) /\ f < Latest(x).fence
          /\ Fail(w)
          /\ UNCHANGED journalVars
       \/ Exists(x) /\ ReclaimExecutionAttempt(x, LatestRevision(x), Latest(x).fence, f, w)
            /\ Opened(LatestRevision(x))
       \/ Exists(x) /\ AdvanceExecutionFence(x, LatestRevision(x), Latest(x).fence, f)
            /\ Opened(LatestRevision(x))
       \/ CreateExecution(x, f) /\ Opened(1)
    /\ UNCHANGED <<chats, tasks, projected, up, faults, torn>>

\* start_execution_attempt: the attempt is started, is ours already, or belongs
\* to another worker.
StartRun(w) ==
    LET x == workers[w].x
        f == workers[w].now
        r == workers[w].rev
        ours == /\ LatestRevision(x) = r
                /\ Latest(x).state = "running"
                /\ Latest(x).attempt = [owner |-> w, fence |-> f]
    IN
    /\ workers[w].pc = "start"
    /\ \/ StartExecutionAttempt(x, r, f, w) /\ Goto(w, "run")
       \/ ours /\ Goto(w, "run") /\ UNCHANGED journalVars
       \/ ~MayStartAttempt(x, r, f) /\ ~ours /\ Fail(w) /\ UNCHANGED journalVars
    /\ UNCHANGED <<chats, tasks, projected, up, faults, torn>>

\* What an adapter may return; a failure with the body Retry is transient.
\* Bounds the model: the last revision is not suspended again.
AdapterOutcomes(r) ==
    {OutcomeOf("completed", None, Own), OutcomeOf("failed", None, Own)}
      \cup (IF r < MaxRevision
            THEN {OutcomeOf("suspended", c, Own) : c \in Conditions}
                   \cup {OutcomeOf("failed", None, Retry)}
            ELSE {})

\* normalize_transient_failure, with the attempt count of the acquired row.
Normalized(w, outcome) ==
    IF outcome.body = Retry /\ workers[w].attempts + 1 < MaxAttempts
    THEN OutcomeOf("suspended", CHOOSE c \in Timers : TRUE, Retry)
    ELSE outcome

\* The adapter has returned and the row is read again: a cancelled one turns the
\* outcome into Cancelled, a lost lease ends the run.
AdapterReturns(w) ==
    LET Carry(outcome) ==
          workers' = [workers EXCEPT ![w].pc = "commit", ![w].result = outcome] IN
    /\ workers[w].pc = "run"
    /\ \/ Task(w).status = "cancelled" /\ Carry(CancelledByUser)
       \/ Task(w).status # "cancelled" /\ ~LeaseOurs(w) /\ Rest(w)
       \/ /\ Task(w).status # "cancelled" /\ LeaseOurs(w)
          /\ \E o \in AdapterOutcomes(workers[w].rev) : Carry(Normalized(w, o))
    /\ UNCHANGED <<journalVars, chats, tasks, projected, up, faults, torn>>

\* commit_running_execution_outcome: committed, the same outcome again, or
\* refused.
CommitResult(w) ==
    LET x == workers[w].x
        r == workers[w].rev
        f == workers[w].now
        outcome == workers[w].result
        again == journal[x][r].fence = f /\ journal[x][r].outcome = outcome
    IN
    /\ workers[w].pc = "commit"
    /\ \/ CommitExecutionOutcome(x, r, f, outcome, TRUE) /\ Return(w, outcome)
       \/ again /\ Return(w, outcome) /\ UNCHANGED journalVars
       \/ ~MayCommit(x, r, f, TRUE) /\ ~again /\ Fail(w) /\ UNCHANGED journalVars
    /\ UNCHANGED <<chats, tasks, projected, up, faults, torn>>

-------------------------------------------------------------------------------
(* run_next_task_once, after the execution returned *)

\* A plain task: the lease is checked, then the status, then the row is written,
\* in three lock sections.
ReportRun(w) ==
    /\ workers[w].pc = "report"
    /\ IF LeaseOurs(w) THEN Goto(w, "settle") ELSE Rest(w)
    /\ UNCHANGED <<journalVars, chats, tasks, projected, up, faults, torn>>

SettleRun(w) ==
    /\ workers[w].pc = "settle"
    /\ IF Task(w).status = "cancelled" THEN Rest(w) ELSE Goto(w, "write")
    /\ UNCHANGED <<journalVars, chats, tasks, projected, up, faults, torn>>

\* The worker writes back the record it acquired, the attempt count included,
\* over whatever the row holds by now.
Written(w, status, attempts) == [Become(Task(w), status) EXCEPT !.attempts = attempts]

\* Fault: one attempt too many.
AfterFailureOnceMore(w, status) ==
    LET attempts == workers[w].attempts IN
    IF attempts < MaxAttempts THEN Written(w, "queued", attempts + 1)
    ELSE Written(w, status, attempts)

\* handle_failed_task_run
AfterFailure(w, status) ==
    LET attempts == workers[w].attempts IN
    IF attempts + 1 < MaxAttempts THEN Written(w, "queued", attempts + 1)
    ELSE Written(w, status, attempts)

\* mark_task_completed, mark_task_waiting_time, request_task_executor_approval,
\* or handle_failed_task_run for everything else.
AfterRun(w) ==
    LET outcome == workers[w].result IN
    CASE StatusOf(outcome) \in {"completed", "waiting_time", "waiting_user"} ->
           Written(w, StatusOf(outcome), workers[w].attempts)
      [] outcome.kind = "failed" -> AfterFailure(w, "failed")
      [] OTHER                   -> AfterFailure(w, "waiting_external")

WriteRow(w) ==
    /\ workers[w].pc = "write"
    /\ SetTask(workers[w].x, AfterRun(w))
    /\ Rest(w)
    /\ UNCHANGED <<journalVars, chats, projected, up, faults, torn>>

\* The runtime returned an error: the run is a failed one if the lease is ours.
CheckAfterError(w) ==
    /\ workers[w].pc = "fail"
    /\ IF LeaseOurs(w) THEN Goto(w, "write_failure") ELSE Rest(w)
    /\ UNCHANGED <<journalVars, chats, tasks, projected, up, faults, torn>>

WriteFailure(w) ==
    /\ workers[w].pc = "write_failure"
    /\ SetTask(workers[w].x, AfterFailure(w, "failed"))
    /\ Rest(w)
    /\ UNCHANGED <<journalVars, chats, projected, up, faults, torn>>

\* A local write before the watchdog starts or after it is aborted fails: the
\* run ends with an error and leaves the row as it is.
RunFails(w) ==
    /\ workers[w].pc \in {"open", "settle", "write", "write_failure"}
    /\ faults < MaxFaults
    /\ Rest(w)
    /\ faults' = faults + 1
    /\ UNCHANGED <<journalVars, chats, tasks, projected, up, torn>>

-------------------------------------------------------------------------------
(* Leases *)

\* Five minutes pass without a heartbeat: a fault (the host slept) while a
\* worker renews the lease.
LeaseLapses(x) ==
    /\ tasks[x].live
    /\ IF \E w \in Workers : Holds(w, x)
       THEN faults < MaxFaults /\ faults' = faults + 1
       ELSE UNCHANGED faults
    /\ SetTask(x, [tasks[x] EXCEPT !.live = FALSE])
    /\ UNCHANGED <<journalVars, chats, workers, projected, up, torn>>

\* spawn_lease_watchdog, LeaseManager::heartbeat: the status is not looked at.
Heartbeat(w) ==
    /\ workers[w].pc \in Watched
    /\ LeaseOurs(w) /\ ~Task(w).live
    /\ SetTask(workers[w].x, [Task(w) EXCEPT !.live = TRUE])
    /\ UNCHANGED <<journalVars, chats, workers, projected, up, faults, torn>>

-------------------------------------------------------------------------------
(* The user, the projector and the process *)

\* A running task keeps its lease when it is cancelled.
CancelledRow(x) ==
    IF tasks[x].status = "running" THEN [tasks[x] EXCEPT !.status = "cancelled"]
    ELSE Become(tasks[x], "cancelled")

\* cancel_task for a plain task
CancelTask(x) ==
    /\ up
    /\ x \notin chats
    /\ tasks[x].status \notin EndedStatus
    /\ SetTask(x, CancelledRow(x))
    /\ UNCHANGED <<journalVars, chats, workers, projected, up, faults, torn>>

\* Faults: the pending wakes are kept; an execution that runs is left without an
\* outcome.
CancelChatTurnKeepingWakes(x) ==
    /\ up
    /\ x \in chats
    /\ tasks[x].status \notin EndedStatus
    /\ SetTask(x, CancelledRow(x))
    /\ torn' = torn \ {x}
    /\ journal' = IF Exists(x) /\ Unsealed(Latest(x)) THEN Committed(x, CancelledByUser)
                  ELSE journal
    /\ UNCHANGED <<wakes, chats, workers, projected, up, faults>>

CancelChatTurnUnsealed(x) ==
    /\ up
    /\ x \in chats
    /\ tasks[x].status \notin EndedStatus
    /\ SetTask(x, CancelledRow(x))
    /\ torn' = torn \ {x}
    /\ DiscardPendingWakes(x)
    /\ UNCHANGED <<chats, workers, projected, up, faults>>

\* cancel_chat_turn: the row is cancelled, the pending wakes are discarded and an
\* execution without an outcome is cancelled.  They are commits of their own
\* under one lock: nobody comes between them, but they need not all be made.
CancelChatTurn(x) ==
    /\ up
    /\ x \in chats
    /\ tasks[x].status \notin EndedStatus
    /\ SetTask(x, CancelledRow(x))
    /\ torn' = torn \ {x}
    /\ wakes' = wakes \ {v \in Pending : v.exec = x}
    /\ journal' = IF Exists(x) /\ Unsealed(Latest(x)) THEN Committed(x, CancelledByUser)
                  ELSE journal
    /\ UNCHANGED <<chats, workers, projected, up, faults>>

\* One of those commits fails, or the process dies between two of them: the row
\* is cancelled, the wakes may be discarded, and an open revision stays open.
CancelCutShort(x) ==
    /\ up
    /\ x \in chats
    /\ tasks[x].status \notin EndedStatus
    /\ faults < MaxFaults
    /\ SetTask(x, CancelledRow(x))
    /\ UNCHANGED journalVars \/ DiscardPendingWakes(x)
    /\ torn' = torn \cup {x}
    /\ faults' = faults + 1

CancelFails(x) == CancelCutShort(x) /\ UNCHANGED <<chats, workers, projected, up>>

CrashInCancel(x) ==
    /\ CancelCutShort(x)
    /\ up' = FALSE
    /\ workers' = [w \in Workers |-> AtRest]
    /\ UNCHANGED <<chats, projected>>

\* resume_suspended_user_turn_core: the user's next message finds the wake of a
\* turn that has ended, discards it and becomes a turn of its own.  An approval,
\* a timer and a model that becomes available do not look at the row.
DiscardStaleWake(x) ==
    /\ up
    /\ x \in chats
    /\ tasks[x].status \in EndedStatus
    /\ \E v \in Pending : v.exec = x /\ v.condition \in Approvals
    /\ DiscardPendingWakes(x)
    /\ UNCHANGED <<chats, tasks, workers, projected, up, faults, torn>>

\* A signal or a decision of the user wakes the executions that wait for it.
DeliverSignal(c) ==
    LET D == {v \in Pending : v.condition = c} IN
    /\ up
    /\ c \notin Timers
    /\ \E p \in Payloads : DeliverExecutionWake(c, p)
    /\ tasks' = [x \in Executions |-> IF \E v \in D : v.exec = x
                                      THEN Become(tasks[x], "queued") ELSE tasks[x]]
    /\ UNCHANGED <<chats, workers, projected, up, faults, torn>>

\* project_task_state: the outcome of the next revision in the outbox is written
\* to the row, whatever has happened to it since.  Until the outbox row is
\* completed the write is repeated.  A starting gateway drains the outbox before
\* it recovers the turns, so up is not required.
ProjectTaskState(x, done) ==
    LET r == projected[x] + 1 IN
    /\ x \in chats
    /\ r <= SealedCount(x)
    /\ SetTask(x, Become(tasks[x], StatusOf(journal[x][r].outcome)))
    /\ projected' = [projected EXCEPT ![x] = IF done THEN r ELSE projected[x]]
    /\ UNCHANGED <<journalVars, chats, workers, up, faults, torn>>

CrashGateway ==
    /\ up
    /\ faults < MaxFaults
    /\ up' = FALSE
    /\ workers' = [w \in Workers |-> AtRest]
    /\ faults' = faults + 1
    /\ UNCHANGED <<journalVars, chats, tasks, projected, torn>>

\* recover_chat_turns_at_boot: running chat turns are queued again, ended ones
\* lose their lease.  Plain tasks wait for their leases to lapse.
RestartGateway ==
    /\ ~up
    /\ up' = TRUE
    /\ tasks' = [x \in Executions |->
                   IF x \notin chats THEN tasks[x]
                   ELSE IF tasks[x].status = "running" THEN Become(tasks[x], "queued")
                   ELSE IF tasks[x].status \in EndedStatus THEN Unleased(tasks[x])
                   ELSE tasks[x]]
    /\ UNCHANGED <<journalVars, chats, workers, projected, faults, torn>>

-------------------------------------------------------------------------------

RuntimeInit ==
    /\ JournalInit
    /\ chats \in SUBSET Executions
    /\ tasks = [x \in Executions |-> NewTask]
    /\ workers = [w \in Workers |-> AtRest]
    /\ projected = [x \in Executions |-> 0]
    /\ up = TRUE
    /\ faults = 0
    /\ torn = {}

PickStep(w) == \E D \in SUBSET DueTimers : PickTask(w, D)

WorkerStep(w) ==
    \/ ReadClock(w)
    \/ PickStep(w)
    \/ AcquireTask(w)
    \/ OpenExecution(w)
    \/ StartRun(w)
    \/ AdapterReturns(w)
    \/ CommitResult(w)
    \/ ReportRun(w)
    \/ SettleRun(w)
    \/ WriteRow(w)
    \/ CheckAfterError(w)
    \/ WriteFailure(w)

RuntimeNext ==
    \/ \E w \in Workers : WorkerStep(w)
    \/ \E w \in Workers : RunFails(w)
    \/ \E w \in Workers : Heartbeat(w)
    \/ \E x \in Executions : LeaseLapses(x)
    \/ \E x \in Executions : CancelTask(x)
    \/ \E x \in Executions : CancelChatTurn(x)
    \/ \E x \in Executions : CancelFails(x) \/ CrashInCancel(x)
    \/ \E x \in Executions : DiscardStaleWake(x)
    \/ \E c \in Conditions : DeliverSignal(c)
    \/ \E x \in Executions, done \in BOOLEAN : ProjectTaskState(x, done)
    \/ CrashGateway
    \/ RestartGateway

RuntimeSpec == RuntimeInit /\ [][RuntimeNext]_runtimeVars

PickAfterTimer(w, x) ==
    \E D \in SUBSET DueTimers : (\E v \in D : v.exec = x) /\ PickTask(w, D)

\* The worker loops keep polling and adapters return, the gateway is started
\* again, the projector drains its outbox, a timer's time comes while the
\* workers go on polling, and a lease nobody renews lapses.
\* Nothing makes the user act or a signal arrive.
RuntimeFairness ==
    /\ \A w \in Workers : WF_runtimeVars(WorkerStep(w))
    /\ WF_runtimeVars(RestartGateway)
    /\ \A x \in Executions :
         /\ WF_runtimeVars(ProjectTaskState(x, TRUE))
         /\ SF_runtimeVars(\E w \in Workers : PickAfterTimer(w, x))
         /\ WF_runtimeVars((\A w \in Workers : ~Holds(w, x)) /\ LeaseLapses(x))

FairRuntimeSpec == RuntimeSpec /\ RuntimeFairness

-------------------------------------------------------------------------------
(* Properties *)

\* Every variable has its type; a row is leased when it runs, and a live lease
\* has an owner.
RuntimeTypeOK ==
    /\ JournalTypeOK
    /\ chats \subseteq Executions
    /\ tasks \in [Executions ->
         [status : {"queued", "running"} \cup WaitingStatus \cup EndedStatus,
          owner : Workers \cup {None}, fence : 0 .. MaxFence, live : BOOLEAN,
          attempts : 0 .. MaxAttempts - 1]]
    /\ workers \in [Workers ->
         [pc : Watched \cup {"idle", "pick", "acquire", "report", "settle", "write",
                             "fail", "write_failure"},
          x : Executions \cup {None}, now : 0 .. MaxFence, attempts : 0 .. MaxAttempts - 1,
          rev : 0 .. MaxRevision, result : Outcomes \cup {NoOutcome}]]
    /\ projected \in [Executions -> 0 .. MaxRevision]
    /\ up \in BOOLEAN
    /\ faults \in 0 .. MaxFaults
    /\ torn \subseteq chats
    /\ \A x \in Executions :
         /\ tasks[x].status = "running" \/ tasks[x].live => tasks[x].owner # None
         /\ projected[x] <= SealedCount(x)

\* The outcome that a step gives to the open revision of x, or NoOutcome.
NewOutcome(x) ==
    IF Exists(x) /\ Unsealed(Latest(x)) THEN journal'[x][LatestRevision(x)].outcome
    ELSE NoOutcome

\* "A late return with a stale fence does not complete the work": whatever leases
\* lapse and whoever takes over, the outcome of a revision is the one of the
\* worker its journal names as the current attempt, or a cancellation.
AttemptCommits ==
    \A x \in Executions :
        NewOutcome(x).kind \in {"completed", "failed", "suspended"} =>
            \E w \in Workers :
                /\ workers[w].pc = "commit" /\ workers'[w].pc # "commit"
                /\ workers[w].x = x
                /\ Latest(x).attempt = [owner |-> w, fence |-> workers[w].now]
CommittedByAttempt == [][AttemptCommits]_runtimeVars

\* A chat turn whose cancellation went through keeps no pending wake while its row
\* is cancelled, so nothing can bring it back to the queue: cancel_chat_turn and a
\* worker that is about to commit a suspension cannot cross, and an earlier
\* cancellation that was cut short is made good by a later one.
CancelledTurnHasNoWake ==
    \A x \in chats \ torn : tasks[x].status = "cancelled" => \A v \in Pending : v.exec # x

\* While the row of a chat turn is cancelled, by a cancellation that went through,
\* its execution is given no outcome but Cancelled: a reply that was on its way
\* is not committed.
CancelledTurnStays ==
    \A x \in chats \ torn :
        tasks[x].status = "cancelled" => NewOutcome(x).kind \in {"none", "cancelled"}
CancelledTurnNotAnswered == [][CancelledTurnStays]_runtimeVars

\* No row stays running for ever: whoever dies, a running task is finished, or
\* its lease lapses and it is queued again.
RunningRecovered == \A x \in Executions : []<>(tasks[x].status # "running")

TimerPending(x) == \E v \in DueTimers : v.exec = x

\* Every timer fires, or is discarded by a cancellation: however the row of the
\* task looks by then.
TimersFire == \A x \in Executions : TimerPending(x) ~> ~TimerPending(x)

\* The audit's "task waits for time but no canonical pending execution wake is
\* visible" is never raised: a row that waits for time has a pending wake.
WaitingTimeHasWake ==
    \A x \in Executions :
        tasks[x].status = "waiting_time" => \E v \in Pending : v.exec = x

\* A cancelled task is not flipped back to queued by the delivery of a wake, when
\* its cancellation went through.
NotWoken ==
    \A x \in Executions \ torn :
        (tasks[x].status = "cancelled" /\ LatestRevision(x) < LatestRevision(x)') =>
            tasks'[x].status = "cancelled"
CancelledTaskNotWoken == [][NotWoken]_runtimeVars

\* max_attempts includes the first attempt: fewer revisions than that are
\* suspended for a retry.
RetryBudgetEnforced ==
    \A x \in Executions :
        Cardinality({r \in 1 .. LatestRevision(x) :
                       /\ journal[x][r].outcome.kind = "suspended"
                       /\ journal[x][r].outcome.body = Retry}) < MaxAttempts
===============================================================================

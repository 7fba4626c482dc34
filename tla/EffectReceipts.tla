---------------------------- MODULE EffectReceipts ----------------------------
(***************************************************************************)
(* The durable receipts that stand between a running attempt and the       *)
(* effects of its tools: EffectHost and EffectLease                        *)
(* (desktop-gateway/src/effect_host.rs), the tables behind them            *)
(* (task-runtime/src/store.rs), the tool call that begins and settles one  *)
(* (gateway_tool_execution.rs) and the user's decision about one whose     *)
(* outcome is unknown (execution_store.rs).  Rows, leases, workers and the *)
(* journal are those of ExecutionRuntime, for chat turns.                  *)
(*                                                                         *)
(* A receipt is named by its execution, operation and tool-call id, and    *)
(* not by the revision: an attempt that starts its rounds again may make   *)
(* the same call again.  The receipt is also the condition its execution   *)
(* waits for.  What lies beyond the process is one number: how often the   *)
(* effect was sent.                                                        *)
(*                                                                         *)
(* Left out: signals and approvals (a timer stands for the other wakes),   *)
(* compensation (no request carries one), receipts whose journal was       *)
(* pruned, and the low-risk browser actions that are released without      *)
(* knowing whether they happened.                                          *)
(***************************************************************************)
EXTENDS ExecutionRuntime

CONSTANTS
    Receipts,      \* receipt references, as conditions of wakes
    ExecutionOf    \* receipt -> its execution

ASSUME EffectAssumption ==
    /\ Receipts \subseteq Approvals
    /\ ExecutionOf \in [Receipts -> Executions]

VARIABLES
    receipts,   \* receipt -> its row of execution_effect_receipts
    creator,    \* execution -> the lease owner in the input of its contract
    calls,      \* worker -> the effectful tool call it is in
    sent,       \* receipt -> how often its effect left the process
    denied      \* receipts the user once declared not applied

effectVars == <<receipts, creator, calls, sent, denied>>
allVars == <<runtimeVars, effectVars>>

-------------------------------------------------------------------------------
(* The rows *)

NoReceipt == [status |-> "absent", rev |-> 0]
NoCall == [pc |-> "none", rc |-> None]

Status(rc) == receipts[rc].status
SetReceipt(rc, status) == receipts' = [receipts EXCEPT ![rc].status = status]

\* Fault: a settlement does not look at the status.
SettledFromAny(rc, status) == [receipts EXCEPT ![rc].status = status]

\* The condition of every settlement: WHERE status = 'started'.
Settled(rc, status) ==
    IF Status(rc) = "started" THEN [receipts EXCEPT ![rc].status = status] ELSE receipts

EnterCall(w, pc, rc) == calls' = [calls EXCEPT ![w] = [pc |-> pc, rc |-> rc]]
EndCall(w) == calls' = [calls EXCEPT ![w] = NoCall]

\* lease_current and execution_current of prepare_and_claim_effect_receipt.  The
\* expected owner is the one in the contract's input, which every revision
\* inherits from the attempt that created the execution.
AttemptCurrent(w) ==
    LET x == workers[w].x IN
    /\ Task(w).status = "running" /\ Task(w).live
    /\ Task(w).owner = creator[x] /\ Task(w).fence = workers[w].now
    /\ LatestRevision(x) = workers[w].rev
    /\ Latest(x).state = "running" /\ Latest(x).fence = workers[w].now

\* Fault: the revision of a prepared receipt is not compared.
ExecutableLater(w, rc) == Status(rc) \in {"absent", "prepared"}

\* prepare_effect_receipt_on inserts the row or finds it prepared; one of another
\* revision is in conflict.
Executable(w, rc) ==
    \/ Status(rc) = "absent"
    \/ Status(rc) = "prepared" /\ receipts[rc].rev = workers[w].rev

-------------------------------------------------------------------------------
(* An effectful tool call *)

InCall(w, pcs) == workers[w].pc = "run" /\ calls[w].pc \in pcs

\* Fault: the row keeps the revision it was prepared for.
ClaimWithoutRevision(w, rc) ==
    /\ InCall(w, {"none"})
    /\ ExecutionOf[rc] = workers[w].x
    /\ Executable(w, rc)
    /\ AttemptCurrent(w)
    /\ SetReceipt(rc, "started")
    /\ EnterCall(w, "claimed", rc)
    /\ UNCHANGED <<runtimeVars, creator, sent, denied>>

\* EffectHost::begin decides Execute: the receipt is started under the lock that
\* saw the lease, the fence and the revision.
ClaimEffect(w, rc) ==
    /\ InCall(w, {"none"})
    /\ ExecutionOf[rc] = workers[w].x
    /\ Executable(w, rc)
    /\ AttemptCurrent(w)
    /\ receipts' = [receipts EXCEPT ![rc] = [status |-> "started", rev |-> workers[w].rev]]
    /\ EnterCall(w, "claimed", rc)
    /\ UNCHANGED <<runtimeVars, creator, sent, denied>>

\* It decides Resolve, for any caller: nobody knows what became of a receipt
\* that was started before, and the turn is to wait for the user.  (Replay and
\* the errors of begin change nothing and the loop goes on.)
MeetUnsettled(w, rc) ==
    /\ InCall(w, {"none"})
    /\ ExecutionOf[rc] = workers[w].x
    /\ Status(rc) \in {"started", "uncertain"}
    /\ SetReceipt(rc, "uncertain")
    /\ EnterCall(w, "suspend", rc)
    /\ UNCHANGED <<runtimeVars, creator, sent, denied>>

\* The tool hands its request to the outside world.
SendEffect(w) ==
    LET rc == calls[w].rc IN
    /\ InCall(w, {"claimed"})
    /\ sent' = [sent EXCEPT ![rc] = @ + 1]
    /\ EnterCall(w, "sent", rc)
    /\ UNCHANGED <<runtimeVars, receipts, creator, denied>>

\* release_not_applied: the transport failed before anything was sent.
ReleaseEffect(w) ==
    /\ InCall(w, {"claimed"})
    /\ receipts' = Settled(calls[w].rc, "prepared")
    /\ EndCall(w)
    /\ UNCHANGED <<runtimeVars, creator, sent, denied>>

\* complete: when the receipt is no longer started the call is uncertain, and the
\* turn waits for the user.
CompleteEffect(w) ==
    LET rc == calls[w].rc IN
    /\ InCall(w, {"sent"})
    /\ receipts' = Settled(rc, "completed")
    /\ IF Status(rc) = "started" THEN EndCall(w) ELSE EnterCall(w, "suspend", rc)
    /\ UNCHANGED <<runtimeVars, creator, sent, denied>>

\* mark_uncertain: the answer was lost, or complete could not be written.
LoseAnswer(w) ==
    LET rc == calls[w].rc IN
    /\ InCall(w, {"claimed", "sent"})
    /\ receipts' = Settled(rc, "uncertain")
    /\ EnterCall(w, "suspend", rc)
    /\ UNCHANGED <<runtimeVars, creator, sent, denied>>

\* Fault: the guard gives the receipt back.
AbandonReleasing(w) ==
    /\ InCall(w, {"claimed", "sent"})
    /\ receipts' = Settled(calls[w].rc, "prepared")
    /\ EndCall(w)
    /\ UNCHANGED <<runtimeVars, creator, sent, denied>>

\* Drop for EffectLease: the future of the call is dropped by a steering message,
\* a cancellation or a panic.  The loop may go on without waiting for the user.
AbandonEffect(w) ==
    /\ InCall(w, {"claimed", "sent"})
    /\ receipts' = Settled(calls[w].rc, "uncertain")
    /\ EndCall(w)
    /\ UNCHANGED <<runtimeVars, creator, sent, denied>>

\* A turn with a steering message that nobody interprets is parked until a model
\* is available, whatever it meant to wait for.
ParkedOn == Conditions \ Receipts

\* Fault: the row is not read again.
SuspendUnread(w) ==
    /\ InCall(w, {"suspend"})
    /\ workers[w].rev < MaxRevision
    /\ \E c \in {calls[w].rc} \cup ParkedOn :
         workers' = [workers EXCEPT ![w].pc = "commit",
                                    ![w].result = OutcomeOf("suspended", c, Own)]
    /\ EndCall(w)
    /\ UNCHANGED <<journalVars, chats, tasks, projected, up, faults, torn, receipts,
                   creator, sent, denied>>

\* The rounds end and the adapter returns a suspension on the receipt, unless it
\* parks; the row is read again as in AdapterReturns.  Bounds the model: the last
\* revision is not suspended.
SuspendOnEffect(w) ==
    LET Carry(outcome) ==
          workers' = [workers EXCEPT ![w].pc = "commit", ![w].result = outcome] IN
    /\ InCall(w, {"suspend"})
    /\ \/ Task(w).status = "cancelled" /\ Carry(CancelledByUser)
       \/ Task(w).status # "cancelled" /\ ~LeaseOurs(w) /\ Rest(w)
       \/ /\ Task(w).status # "cancelled" /\ LeaseOurs(w)
          /\ workers[w].rev < MaxRevision
          /\ \E c \in {calls[w].rc} \cup ParkedOn : Carry(OutcomeOf("suspended", c, Own))
    /\ EndCall(w)
    /\ UNCHANGED <<journalVars, chats, tasks, projected, up, faults, torn, receipts,
                   creator, sent, denied>>

-------------------------------------------------------------------------------
(* The user's decision *)

Decided(applied) == IF applied THEN "completed" ELSE "prepared"

\* verify_terminal_effect_owner_on
OwnerEnded(rc) ==
    LET x == ExecutionOf[rc] IN
    /\ LatestRevision(x) = receipts[rc].rev
    /\ Latest(x).outcome.kind \in TerminalKinds

\* resolve_effect_receipt: the decision is recorded and the wake that waits for
\* it delivered in one transaction; without a wake the execution must have ended
\* with the receipt's revision.  (The same decision again changes nothing here.)
\* Bounds the model: a last revision that waits is not resumed.
ResolveEffect(rc, applied) ==
    LET D == {v \in Pending : v.condition = rc} IN
    /\ up
    /\ Status(rc) = "uncertain"
    /\ Cardinality(D) <= 1
    /\ IF D = {} THEN OwnerEnded(rc) /\ UNCHANGED <<journalVars, tasks>>
       ELSE /\ \A v \in D : /\ v.exec = ExecutionOf[rc] /\ v.rev = receipts[rc].rev
                            /\ v.rev < MaxRevision
            /\ \E p \in Payloads : DeliverExecutionWake(rc, p)
            /\ tasks' = [tasks EXCEPT ![ExecutionOf[rc]] = Become(@, "queued")]
    /\ SetReceipt(rc, Decided(applied))
    /\ denied' = IF applied THEN denied ELSE denied \cup {rc}
    /\ UNCHANGED <<chats, workers, projected, up, faults, torn, creator, calls, sent>>

-------------------------------------------------------------------------------

EffectInit ==
    /\ RuntimeInit
    /\ chats = Executions
    /\ receipts = [rc \in Receipts |-> NoReceipt]
    /\ creator = [x \in Executions |-> None]
    /\ calls = [w \in Workers |-> NoCall]
    /\ sent = [rc \in Receipts |-> 0]
    /\ denied = {}

\* OpenExecution, with the input of the contract it creates.
OpenTurn(w) ==
    LET x == workers[w].x IN
    /\ OpenExecution(w)
    /\ creator' = IF Exists(x) THEN creator ELSE [creator EXCEPT ![x] = w]
    /\ UNCHANGED <<receipts, calls, sent, denied>>

\* The adapter returns with no call underway, for reasons of its own.
TurnReturns(w) ==
    /\ calls[w].pc = "none"
    /\ AdapterReturns(w)
    /\ workers'[w].result.wake \notin Receipts
    /\ UNCHANGED effectVars

CrashInCall ==
    /\ CrashGateway \/ \E x \in Executions : CrashInCancel(x)
    /\ calls' = [w \in Workers |-> NoCall]
    /\ UNCHANGED <<receipts, creator, sent, denied>>

EffectStep(w) ==
    \/ \E rc \in Receipts : ClaimEffect(w, rc) \/ MeetUnsettled(w, rc)
    \/ SendEffect(w)
    \/ ReleaseEffect(w)
    \/ CompleteEffect(w)
    \/ LoseAnswer(w)
    \/ AbandonEffect(w)
    \/ SuspendOnEffect(w)

TurnStep(w) ==
    \/ ReadClock(w)
    \/ PickStep(w)
    \/ AcquireTask(w)
    \/ StartRun(w)
    \/ CommitResult(w)
    \/ CheckAfterError(w)
    \/ WriteFailure(w)
    \/ RunFails(w)
    \/ Heartbeat(w)

Surroundings(x) ==
    \/ LeaseLapses(x)
    \/ CancelChatTurn(x)
    \/ CancelFails(x)
    \/ \E done \in BOOLEAN : ProjectTaskState(x, done)

EffectNext ==
    \/ \E w \in Workers : OpenTurn(w) \/ TurnReturns(w) \/ EffectStep(w)
    \/ \E w \in Workers : TurnStep(w) /\ UNCHANGED effectVars
    \/ \E x \in Executions : Surroundings(x) /\ UNCHANGED effectVars
    \/ \E rc \in Receipts, applied \in BOOLEAN : ResolveEffect(rc, applied)
    \/ CrashInCall
    \/ RestartGateway /\ UNCHANGED effectVars

EffectSpec == EffectInit /\ [][EffectNext]_allVars

-------------------------------------------------------------------------------
(* Properties *)

\* Every variable has its type; a receipt has a revision of its execution, and a
\* worker that is in a call runs.
EffectTypeOK ==
    /\ RuntimeTypeOK
    /\ receipts \in [Receipts ->
         [status : {"absent", "prepared", "started", "uncertain", "completed"},
          rev : 0 .. MaxRevision]]
    /\ creator \in [Executions -> Workers \cup {None}]
    /\ calls \in [Workers ->
         [pc : {"none", "claimed", "sent", "suspend"}, rc : Receipts \cup {None}]]
    /\ sent \in [Receipts -> Nat]
    /\ denied \subseteq Receipts
    /\ \A x \in Executions : Exists(x) <=> creator[x] # None
    /\ \A rc \in Receipts :
         /\ receipts[rc].rev <= LatestRevision(ExecutionOf[rc])
         /\ Status(rc) = "absent" <=> receipts[rc].rev = 0
    /\ \A w \in Workers : calls[w].pc # "none" => workers[w].pc = "run"

\* An effect is sent at most once, whoever dies, loses its lease or repeats the
\* call, and whatever the user declares: a receipt that was declared not applied is
\* prepared again, but for a revision that is closed, and the same call of a later
\* revision is in conflict with it.
SentOnce == \A rc \in Receipts : sent[rc] <= 1

\* An effect that was sent is never forgotten: until the user declares that it
\* was not applied, its receipt does not permit to send it.
SentIsRecorded ==
    \A rc \in Receipts :
        sent[rc] > 0 /\ rc \notin denied =>
            Status(rc) \in {"started", "uncertain", "completed"}

\* A turn that waits for the user's decision about one of its revision's own
\* receipts waits for one that can still be decided: neither a late settlement
\* nor a decision taken before the suspension was committed leaves it stranded.
EffectWaitsResolvable ==
    \A v \in Pending :
        (v.condition \in Receipts /\ receipts[v.condition].rev = v.rev) =>
            Status(v.condition) = "uncertain"

\* Effects only add to the protocol of ExecutionRuntime: a call that suspends its
\* turn returns as an adapter does, with the row read again, and a decision of the
\* user reaches rows, wakes and journal as the signal its turn waits for.
RunsUnderTheRuntime == RuntimeSpec
===============================================================================

--------------------------- MODULE ProjectionOutbox ---------------------------
(***************************************************************************)
(* How a committed outcome becomes visible: the table                      *)
(* execution_projection_outbox (task-runtime/src/projection_outbox.rs),    *)
(* the projection worker of every gateway process                          *)
(* (desktop-gateway/src/projection_worker.rs, execution_projection.rs),    *)
(* the adapter-output receipts that guard what it sends to a channel       *)
(* (store.rs, effect_host.rs, gateway_channels.rs,                         *)
(* gateway_remote_approval.rs) and the user's resolution of an uncertain   *)
(* receipt (execution_store.rs).                                           *)
(*                                                                         *)
(* Executions are those of ExecutionContract; committing an outcome also   *)
(* enqueues its row in the same transaction.  A worker's steps are the     *)
(* sections it runs under the task-store lock; between any two of them     *)
(* other processes and the user may act, and the process may die.          *)
(*                                                                         *)
(* Left out: the local chat projections (idempotent, replayed with the     *)
(* row), retry back-off (a pending row is due at any time), and every      *)
(* message but one per revision.                                           *)
(***************************************************************************)
EXTENDS ExecutionContract, FiniteSets

CONSTANTS
    Gateways,       \* processes that may run a projection worker
    NoOne,          \* no gateway: no claim
    MaxRevision,    \* bound on the revisions of one execution
    MaxGeneration,  \* bound on process starts
    MaxFaults,      \* bound on faults: deaths, panics, refusals, lapses
    MaxDenials,     \* bound on NotApplied decisions
    NoticeClaims    \* claims after which ten minutes have passed: a notice expired

ASSUME OutboxAssumption ==
    /\ NoOne \notin Gateways
    /\ MaxRevision \in Nat /\ MaxGeneration \in Nat
    /\ MaxFaults \in Nat /\ MaxDenials \in Nat /\ NoticeClaims \in Nat
    /\ \A o \in PlainOutcomes :
         /\ o.kind \in {"completed", "suspended", "cancelled", "failed"}
         /\ o.sends \in BOOLEAN
         /\ o.sends => o.kind \in {"completed", "suspended"}

VARIABLES
    outbox,      \* execution -> its rows, one per committed revision
    receipts,    \* <<execution, revision>> -> adapter-output receipt
    acks,        \* execution -> revisions whose turn event is durable, in order
    closed,      \* approvals that are decided or expired
    generation,  \* broker_meta.process_generation
    workers,     \* gateway -> its projection worker
    delivered,   \* <<execution, revision>> -> messages that reached the channel
    denials,     \* <<execution, revision>> -> NotApplied decisions taken
    faults       \* faults so far

outboxVars ==
    <<sealed, open, outbox, receipts, acks, closed, generation, workers,
      delivered, denials, faults>>

-------------------------------------------------------------------------------
(* Records *)

Revisions == 1 .. MaxRevision
Keys == Executions \X Revisions

\* A row; claim_generation and claim_token are what a claim is checked by, and
\* fresh says that claimed_at is less than 120 seconds old.
NewRow == [status |-> "pending", gen |-> 0, token |-> 0, fresh |-> FALSE]

\* status and, after a resolution, the decision that result_json or error_json
\* records.
NoReceipt == [status |-> "absent", decision |-> "none"]

Stopped == [gen |-> 0, pc |-> "off", x |-> NoOne, r |-> 0, token |-> 0]
Idle(g) == [workers[g] EXCEPT !.pc = "idle", !.x = NoOne, !.r = 0, !.token = 0]
At(g, pc) == [workers[g] EXCEPT !.pc = pc]

Outcome(x, r) == sealed[x][r]

\* The revision the table executions holds for x.
CurrentRevision(x) == Len(sealed[x]) + (IF x \in open THEN 1 ELSE 0)

Row(g) == outbox[workers[g].x][workers[g].r]
Key(g) == <<workers[g].x, workers[g].r>>

\* assert_projection_claim_current_on
ClaimCurrent(g) ==
    /\ Row(g).status = "claimed"
    /\ Row(g).gen = workers[g].gen
    /\ Row(g).token = workers[g].token

SetRow(x, r, row) == [outbox EXCEPT ![x] = [outbox[x] EXCEPT ![r] = row]]
SetReceipt(k, status, decision) ==
    [receipts EXCEPT ![k] = [status |-> status, decision |-> decision]]
Goto(g, pc) == workers' = [workers EXCEPT ![g] = At(g, pc)]

executionVars == <<sealed, open>>
ghostVars == <<delivered, denials>>

-------------------------------------------------------------------------------
(* Executions: outcomes are committed and suspended executions resume. *)

StartExecution(x) ==
    /\ Open(x)
    /\ UNCHANGED <<outbox, receipts, acks, closed, generation, workers, ghostVars, faults>>

\* commit_execution_outcome with enqueue_projection_on.
CommitOutcome(x, outcome) ==
    /\ outcome.kind = "suspended" => Len(sealed[x]) + 1 < MaxRevision
    /\ Seal(x, outcome)
    /\ outbox' = [outbox EXCEPT ![x] = Append(outbox[x], NewRow)]
    /\ UNCHANGED <<receipts, acks, closed, generation, workers, ghostVars, faults>>

\* The wake of a suspended execution is delivered.
ResumeExecution(x) ==
    /\ Resume({x})
    /\ UNCHANGED <<outbox, receipts, acks, closed, generation, workers, ghostVars, faults>>

\* The user decides an approval, in the app or from the channel
\* (claim_remote_approval, supersede_remote_approval).
CloseApproval(x, r) ==
    /\ r \in 1 .. Len(sealed[x])
    /\ Outcome(x, r).kind = "suspended" /\ Outcome(x, r).sends
    /\ <<x, r>> \notin closed
    /\ closed' = closed \cup {<<x, r>>}
    /\ UNCHANGED <<executionVars, outbox, receipts, acks, generation, workers,
                   ghostVars, faults>>

-------------------------------------------------------------------------------
(* Processes *)

\* bump_process_generation, then the worker starts draining.
StartGateway(g) ==
    /\ workers[g].pc = "off"
    /\ generation < MaxGeneration
    /\ generation' = generation + 1
    /\ workers' = [workers EXCEPT ![g] =
                     [Stopped EXCEPT !.gen = generation + 1, !.pc = "idle"]]
    /\ UNCHANGED <<executionVars, outbox, receipts, acks, closed, ghostVars, faults>>

\* The process dies.  The last one allowed by the bounds keeps running.
CrashGateway(g) ==
    /\ workers[g].pc # "off"
    /\ faults < MaxFaults
    /\ generation < MaxGeneration
    /\ workers' = [workers EXCEPT ![g] = Stopped]
    /\ faults' = faults + 1
    /\ UNCHANGED <<executionVars, outbox, receipts, acks, closed, generation, ghostVars>>

Dispatching == {"sending", "sent", "lost", "refused"}

\* A drain attempt panics: await_worker_attempt contains it, the row stays
\* claimed, and EffectLease::drop marks a started receipt uncertain.
PanicInDrain(g) ==
    /\ workers[g].pc \notin {"off", "idle"}
    /\ faults < MaxFaults
    /\ workers' = [workers EXCEPT ![g] = Idle(g)]
    /\ receipts' = IF workers[g].pc \in Dispatching /\ receipts[Key(g)].status = "started"
                   THEN SetReceipt(Key(g), "uncertain", "none") ELSE receipts
    /\ faults' = faults + 1
    /\ UNCHANGED <<executionVars, outbox, acks, closed, generation, ghostVars>>

Holders(x, r) ==
    {g \in Gateways : /\ workers[g].pc \notin {"off", "idle"}
                      /\ Key(g) = <<x, r>>
                      /\ ClaimCurrent(g)}

\* 120 seconds pass without a heartbeat: always possible once nobody holds the
\* claim, and a fault (the host slept) while somebody does.
ClaimLapses(x, r) ==
    /\ r \in 1 .. Len(outbox[x])
    /\ outbox[x][r].status = "claimed" /\ outbox[x][r].fresh
    /\ IF Holders(x, r) = {} THEN UNCHANGED faults
       ELSE faults < MaxFaults /\ faults' = faults + 1
    /\ outbox' = SetRow(x, r, [outbox[x][r] EXCEPT !.fresh = FALSE])
    /\ UNCHANGED <<executionVars, receipts, acks, closed, generation, workers, ghostVars>>

\* renew_projection_claim
RenewProjectionClaim(g) ==
    /\ workers[g].pc \notin {"off", "idle"}
    /\ ClaimCurrent(g) /\ ~Row(g).fresh
    /\ outbox' = SetRow(workers[g].x, workers[g].r, [Row(g) EXCEPT !.fresh = TRUE])
    /\ UNCHANGED <<executionVars, receipts, acks, closed, generation, workers,
                   ghostVars, faults>>

-------------------------------------------------------------------------------
(* drain_available *)

EarlierCompleted(x, r) == \A q \in 1 .. r - 1 : outbox[x][q].status = "completed"

\* Faults: the order of revisions is not looked at; a lapsed claim is not taken
\* over.
ClaimableInAnyOrder(g, x, r) ==
    \/ outbox[x][r].status = "pending"
    \/ /\ outbox[x][r].status = "claimed"
       /\ outbox[x][r].gen <= workers[g].gen
       /\ ~outbox[x][r].fresh

ClaimablePending(g, x, r) ==
    /\ outbox[x][r].status = "pending"
    /\ EarlierCompleted(x, r)

\* What claim_projection looks for: a pending row, or one whose claim lapsed and
\* is not of a younger process, after every earlier revision is completed.
Claimable(g, x, r) ==
    /\ \/ outbox[x][r].status = "pending"
       \/ /\ outbox[x][r].status = "claimed"
          /\ outbox[x][r].gen <= workers[g].gen
          /\ ~outbox[x][r].fresh
    /\ EarlierCompleted(x, r)

ClaimProjection(g, x, r) ==
    /\ workers[g].pc = "idle"
    /\ r \in 1 .. Len(outbox[x])
    /\ Claimable(g, x, r)
    /\ outbox' = SetRow(x, r, [status |-> "claimed", gen |-> workers[g].gen,
                               token |-> outbox[x][r].token + 1, fresh |-> TRUE])
    /\ workers' = [workers EXCEPT ![g] =
                     [workers[g] EXCEPT !.pc = "load", !.x = x, !.r = r,
                                        !.token = outbox[x][r].token + 1]]
    /\ UNCHANGED <<executionVars, receipts, acks, closed, generation, ghostVars, faults>>

\* process_claim up to the projection: the claim is checked, the revision read.
LoadClaim(g) ==
    /\ workers[g].pc = "load"
    /\ Goto(g, IF ClaimCurrent(g) THEN "project" ELSE "fail")
    /\ UNCHANGED <<executionVars, outbox, receipts, acks, closed, generation,
                   ghostVars, faults>>

Acked(x, r) == \E i \in 1 .. Len(acks[x]) : acks[x][i] = r

\* project_chat_execution: nothing is left to do if the turn event is there;
\* otherwise the local projections are written and what has to be sent is sent.
Project(g) ==
    LET x == workers[g].x
        r == workers[g].r IN
    /\ workers[g].pc = "project"
    /\ Goto(g, IF Acked(x, r) THEN "complete"
               ELSE IF Outcome(x, r).sends THEN "dispatch" ELSE "ack")
    /\ UNCHANGED <<executionVars, outbox, receipts, acks, closed, generation,
                   ghostVars, faults>>

\* Before it sends the worker checks its claim again.  A notice is skipped when
\* its approval is decided, and expires here when it is due
\* (activate_remote_approvals_from_message); a reply is always sent.
PrepareDispatch(g) ==
    LET notice == Outcome(workers[g].x, workers[g].r).kind = "suspended" IN
    /\ workers[g].pc = "dispatch"
    /\ \/ /\ ~ClaimCurrent(g)
          /\ Goto(g, "fail")
          /\ UNCHANGED closed
       \/ /\ ClaimCurrent(g)
          /\ notice
          /\ Key(g) \in closed \/ workers[g].token >= NoticeClaims
          /\ closed' = closed \cup {Key(g)}
          /\ Goto(g, "ack")
       \/ /\ ClaimCurrent(g)
          /\ notice => Key(g) \notin closed /\ workers[g].token < NoticeClaims
          /\ Goto(g, "begin")
          /\ UNCHANGED closed
    /\ UNCHANGED <<executionVars, outbox, receipts, acks, generation, ghostVars, faults>>

\* Fault: a receipt left started by another dispatch is claimed again.
BeginEffectAgain(g) ==
    LET k == Key(g) IN
    /\ workers[g].pc = "begin"
    /\ ClaimCurrent(g)
    /\ receipts' = IF receipts[k].status \in {"absent", "prepared", "started"}
                   THEN SetReceipt(k, "started", "none") ELSE receipts
    /\ Goto(g, CASE receipts[k].status = "completed" -> "ack"
                 [] receipts[k].status = "uncertain" -> "block"
                 [] OTHER -> "sending")
    /\ UNCHANGED <<executionVars, outbox, acks, closed, generation, ghostVars, faults>>

\* EffectHost::begin, that is prepare_and_claim_effect_receipt_for_projection:
\* one transaction that checks the claim and then the receipt.
BeginEffect(g) ==
    LET k == Key(g)
        status == receipts[k].status IN
    /\ workers[g].pc = "begin"
    /\ \/ /\ ~ClaimCurrent(g)
          /\ Goto(g, "fail")
          /\ UNCHANGED receipts
       \/ /\ ClaimCurrent(g) /\ status = "completed"        \* Replay
          /\ Goto(g, "ack")
          /\ UNCHANGED receipts
       \/ /\ ClaimCurrent(g) /\ status \in {"started", "uncertain"}   \* Resolve
          /\ receipts' = SetReceipt(k, "uncertain", "none")
          /\ Goto(g, "block")
       \/ /\ ClaimCurrent(g) /\ status \in {"absent", "prepared"}
          /\ IF workers[g].r = CurrentRevision(workers[g].x)
             THEN /\ receipts' = SetReceipt(k, "started", "none")     \* Execute
                  /\ Goto(g, "sending")
             ELSE /\ Goto(g, "fail")            \* stale execution revision
                  /\ UNCHANGED receipts
    /\ UNCHANGED <<executionVars, outbox, acks, closed, generation, ghostVars, faults>>

\* The channel sidecar (telegram, whatsapp): the message arrives and the answer
\* says so, or the answer is lost and it may have arrived, or it is refused.
SendToChannel(g) ==
    /\ workers[g].pc = "sending"
    /\ \/ /\ Goto(g, "sent")
          /\ delivered' = [delivered EXCEPT ![Key(g)] = @ + 1]
          /\ UNCHANGED faults
       \/ /\ Goto(g, "lost")
          /\ \E n \in 0 .. 1 : delivered' = [delivered EXCEPT ![Key(g)] = @ + n]
          /\ UNCHANGED faults
       \/ /\ faults < MaxFaults
          /\ faults' = faults + 1
          /\ Goto(g, "refused")
          /\ UNCHANGED delivered
    /\ UNCHANGED <<executionVars, outbox, receipts, acks, closed, generation, denials>>

Started(g) == receipts[Key(g)].status = "started"

\* EffectHost::complete, mark_uncertain_with_evidence and release_not_applied:
\* each updates the receipt only while it is started and fails otherwise.
SettleEffect(g) ==
    /\ workers[g].pc \in {"sent", "lost", "refused"}
    /\ \/ /\ ~Started(g)
          /\ Goto(g, "fail")
          /\ UNCHANGED receipts
       \/ /\ Started(g) /\ workers[g].pc = "sent"
          /\ receipts' = SetReceipt(Key(g), "completed", "none")
          /\ Goto(g, "ack")
       \/ /\ Started(g) /\ workers[g].pc = "lost"
          /\ receipts' = SetReceipt(Key(g), "uncertain", "none")
          /\ Goto(g, "block")
       \/ /\ Started(g) /\ workers[g].pc = "refused"
          /\ receipts' = SetReceipt(Key(g), "prepared", "none")
          /\ Goto(g, "fail")
    /\ UNCHANGED <<executionVars, outbox, acks, closed, generation, ghostVars, faults>>

\* emit_turn_event with a projection_ref: insert_turn_projection_event_once.
EmitTurnEvent(g) ==
    LET x == workers[g].x
        r == workers[g].r IN
    /\ workers[g].pc = "ack"
    /\ acks' = IF Acked(x, r) THEN acks ELSE [acks EXCEPT ![x] = Append(@, r)]
    /\ Goto(g, "complete")
    /\ UNCHANGED <<executionVars, outbox, receipts, closed, generation, ghostVars, faults>>

StatusAfter(pc) ==
    CASE pc = "complete" -> "completed"
      [] pc = "block" -> "blocked"
      [] pc = "fail" -> "pending"

\* Fault: the claim is not checked when the row is written.
FinishAnyClaim(g) ==
    /\ workers[g].pc \in {"complete", "block", "fail"}
    /\ outbox' = SetRow(workers[g].x, workers[g].r,
                        [Row(g) EXCEPT !.status = StatusAfter(workers[g].pc),
                                       !.gen = 0, !.fresh = FALSE])
    /\ workers' = [workers EXCEPT ![g] = Idle(g)]
    /\ UNCHANGED <<executionVars, receipts, acks, closed, generation, ghostVars, faults>>

\* Fault: the row keeps the owner and generation of its claim.
FinishKeepingOwner(g) ==
    /\ workers[g].pc \in {"complete", "block", "fail"}
    /\ ClaimCurrent(g)
    /\ outbox' = SetRow(workers[g].x, workers[g].r,
                        [Row(g) EXCEPT !.status = StatusAfter(workers[g].pc)])
    /\ workers' = [workers EXCEPT ![g] = Idle(g)]
    /\ UNCHANGED <<executionVars, receipts, acks, closed, generation, ghostVars, faults>>

\* complete_projection, block_projection and retry_projection: finish_claim
\* writes the row only for the current claim.  If it is not, the worker fails to
\* complete and then fails to retry, and leaves the row alone.
FinishClaim(g) ==
    /\ workers[g].pc \in {"complete", "block", "fail"}
    /\ outbox' = IF ClaimCurrent(g)
                 THEN SetRow(workers[g].x, workers[g].r,
                             [Row(g) EXCEPT !.status = StatusAfter(workers[g].pc),
                                            !.gen = 0, !.fresh = FALSE])
                 ELSE outbox
    /\ workers' = [workers EXCEPT ![g] = Idle(g)]
    /\ UNCHANGED <<executionVars, receipts, acks, closed, generation, ghostVars, faults>>

-------------------------------------------------------------------------------
(* resolve_effect_receipt *)

\* verify_terminal_effect_owner_on; an adapter output never has a wake of its own.
TerminalOwner(x, r) ==
    /\ r = Len(sealed[x])
    /\ x \notin open
    /\ Outcome(x, r).kind # "suspended"

ResolvedStatus(decision) == IF decision = "applied" THEN "completed" ELSE "prepared"

\* requeue_blocked_projections_on
Requeued(x, r) ==
    IF outbox[x][r].status = "blocked"
    THEN SetRow(x, r, [outbox[x][r] EXCEPT !.status = "pending"]) ELSE outbox

\* The user resolves an uncertain receipt, or repeats the decision it carries.
\* The receipt and the blocked row change in one transaction.
ResolveEffectReceipt(x, r, decision) ==
    LET k == <<x, r>> IN
    /\ r \in 1 .. Len(outbox[x])
    /\ TerminalOwner(x, r)
    /\ \/ /\ receipts[k].status = "uncertain"
          /\ decision = "not_applied" => denials[k] < MaxDenials
          /\ receipts' = SetReceipt(k, ResolvedStatus(decision), decision)
          /\ denials' = IF decision = "applied" THEN denials
                        ELSE [denials EXCEPT ![k] = @ + 1]
       \/ /\ receipts[k] = [status |-> ResolvedStatus(decision), decision |-> decision]
          /\ UNCHANGED <<receipts, denials>>
    /\ outbox' = Requeued(x, r)
    /\ UNCHANGED <<executionVars, acks, closed, generation, workers, delivered, faults>>

-------------------------------------------------------------------------------
OutboxInit ==
    /\ ContractInit
    /\ outbox = [x \in Executions |-> <<>>]
    /\ receipts = [k \in Keys |-> NoReceipt]
    /\ acks = [x \in Executions |-> <<>>]
    /\ closed = {}
    /\ generation = 0
    /\ workers = [g \in Gateways |-> Stopped]
    /\ delivered = [k \in Keys |-> 0]
    /\ denials = [k \in Keys |-> 0]
    /\ faults = 0

Decisions == {"applied", "not_applied"}

WorkerStep(g) ==
    \/ \E x \in Executions, r \in Revisions : ClaimProjection(g, x, r)
    \/ LoadClaim(g)
    \/ Project(g)
    \/ PrepareDispatch(g)
    \/ BeginEffect(g)
    \/ SendToChannel(g)
    \/ SettleEffect(g)
    \/ EmitTurnEvent(g)
    \/ FinishClaim(g)

ExecutionStep ==
    \/ \E x \in Executions : StartExecution(x) \/ ResumeExecution(x)
    \/ \E x \in Executions, o \in PlainOutcomes : CommitOutcome(x, o)

OutboxNext ==
    \/ ExecutionStep
    \/ \E x \in Executions, r \in Revisions : CloseApproval(x, r)
    \/ \E g \in Gateways : StartGateway(g)
    \/ \E g \in Gateways : CrashGateway(g)
    \/ \E g \in Gateways : PanicInDrain(g)
    \/ \E x \in Executions, r \in Revisions : ClaimLapses(x, r)
    \/ \E g \in Gateways : RenewProjectionClaim(g)
    \/ \E g \in Gateways : WorkerStep(g)
    \/ \E x \in Executions, r \in Revisions, d \in Decisions :
         ResolveEffectReceipt(x, r, d)

OutboxSpec == OutboxInit /\ [][OutboxNext]_outboxVars

\* The gateway is started again, its supervised worker keeps draining, and a
\* claim nobody holds lapses when its 120 seconds are over.  Faults are bounded,
\* so the channel stops refusing.  Nothing makes the user act.
OutboxFairness ==
    /\ \A g \in Gateways : WF_outboxVars(WorkerStep(g))
    /\ WF_outboxVars(\E g \in Gateways : StartGateway(g))
    /\ \A x \in Executions, r \in Revisions :
         WF_outboxVars(Holders(x, r) = {} /\ ClaimLapses(x, r))

FairOutboxSpec == OutboxSpec /\ OutboxFairness

\* A user who decides about every uncertain receipt he is allowed to decide
\* about, and repeats the decision while it changes anything.
DiligentUserSpec ==
    /\ FairOutboxSpec
    /\ \A x \in Executions, r \in Revisions :
         WF_outboxVars(\E d \in Decisions : ResolveEffectReceipt(x, r, d))

-------------------------------------------------------------------------------
(* Properties *)

\* Every variable has its type, the CHECKs of the outbox table included: exactly
\* the claimed rows carry a claim, and only their claims can be fresh.
OutboxTypeOK ==
    /\ sealed \in [Executions -> Seq(PlainOutcomes)] /\ open \subseteq Executions
    /\ outbox \in [Executions ->
         Seq([status : {"pending", "claimed", "blocked", "completed"},
              gen : 0 .. MaxGeneration, token : Nat, fresh : BOOLEAN])]
    /\ receipts \in [Keys ->
         [status : {"absent", "prepared", "started", "uncertain", "completed"},
          decision : Decisions \cup {"none"}]]
    /\ acks \in [Executions -> Seq(Revisions)]
    /\ closed \subseteq Keys
    /\ generation \in 0 .. MaxGeneration
    /\ workers \in [Gateways ->
         [gen : 0 .. MaxGeneration,
          pc : Dispatching \cup {"off", "idle", "load", "project", "dispatch", "begin",
                                 "ack", "complete", "block", "fail"},
          x : Executions \cup {NoOne}, r : 0 .. MaxRevision, token : Nat]]
    /\ delivered \in [Keys -> Nat] /\ denials \in [Keys -> 0 .. MaxDenials]
    /\ faults \in 0 .. MaxFaults
    /\ \A x \in Executions : \A r \in 1 .. Len(outbox[x]) :
         /\ outbox[x][r].status = "claimed" <=> outbox[x][r].gen > 0
         /\ outbox[x][r].fresh => outbox[x][r].status = "claimed"

\* A reply or notice reaches the channel at most once, and once more for every
\* time the user declared it not applied: whatever dies, panics, lapses or is
\* taken over, the worker never sends again by itself what may have arrived.
DeliveredOnce == \A k \in Keys : delivered[k] <= 1 + denials[k]

\* Outcomes become visible in the order of their revisions, each once; a row is
\* completed only after its turn event is durable, and the event of a reply only
\* after its receipt is.
AcknowledgedInOrder ==
    \A x \in Executions :
        /\ acks[x] = [i \in 1 .. Len(acks[x]) |-> i]
        /\ \A r \in 1 .. Len(outbox[x]) :
             outbox[x][r].status = "completed" => r <= Len(acks[x])
        /\ \A r \in 1 .. Len(acks[x]) :
             (Outcome(x, r).kind = "completed" /\ Outcome(x, r).sends) =>
                 receipts[<<x, r>>].status = "completed"

\* A worker whose claim was taken over cannot undo what its successor wrote: a
\* completed row stays completed, and a row blocked on a receipt leaves that
\* state only in the step that settles the receipt.
RowsSettled ==
    \A x \in Executions : \A r \in 1 .. Len(outbox[x]) :
        /\ outbox[x][r].status = "completed" => outbox'[x][r].status = "completed"
        /\ (outbox[x][r].status = "blocked" /\ outbox'[x][r].status # "blocked") =>
             receipts'[<<x, r>>].decision # "none"
StaleWorkersHarmless == [][RowsSettled]_outboxVars

Projected(x, r) == r <= Len(outbox[x]) /\ outbox[x][r].status = "completed"
BlockedUpTo(x, r) == \E q \in 1 .. r : q <= Len(outbox[x]) /\ outbox[x][q].status = "blocked"

\* Every committed outcome is projected or waits for the user: its row ends up
\* completed unless it or an earlier one of its execution is blocked.
Converges ==
    \A x \in Executions, r \in Revisions :
        Len(outbox[x]) >= r ~> (Projected(x, r) \/ BlockedUpTo(x, r))

\* "never a resolved receipt stranded behind a blocked row": a row is blocked
\* only while its receipt is unresolved.
NoResolvedReceiptStranded ==
    \A x \in Executions : \A r \in 1 .. Len(outbox[x]) :
        outbox[x][r].status = "blocked" => receipts[<<x, r>>].status = "uncertain"

\* With a user who resolves what is uncertain every outcome is projected in the
\* end: unknown remote outcomes wait for a decision, and one can be given.
EveryOutcomeProjected ==
    \A x \in Executions, r \in Revisions :
        Len(outbox[x]) >= r ~> Projected(x, r)
===============================================================================

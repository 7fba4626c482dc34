----------------------------- MODULE TurnSteering -----------------------------
(***************************************************************************)
(* The chat turns of one thread and the messages that steer them.          *)
(*                                                                         *)
(* A message sent to a free thread becomes a turn; sent to a busy one it   *)
(* becomes a steering row of the active turn.  The steering coordinator    *)
(* claims pending rows for the running agent run, has them interpreted by  *)
(* a model outside the store's lock and writes the answer back; the agent  *)
(* loop follows what its own run was given, and may only deliver an answer *)
(* through a fence that no unread row blocks.  Users edit, withdraw and    *)
(* promote rows and cancel turns; the process dies and restarts.           *)
(*                                                                         *)
(* A task row keeps its status twice: in the column the broker queries     *)
(* (col) and in the record every other reader decodes and writes back      *)
(* (row).  Leases, attempts and the outbox are those of ExecutionRuntime   *)
(* and ProjectionOutbox, here reduced to what a turn's rows can see.       *)
(***************************************************************************)
EXTENDS Integers, FiniteSets, Sequences

CONSTANTS
    Messages,            \* what clients send; each has a request id of its own
    First,               \* the one that opened the thread
    None,
    MaxSends,            \* bound: further requests, repeated ones included
    MaxRuns,             \* bound: agent runs of one turn
    MaxIncidents,        \* bound: edits of rows, failed interpretations, crashes
    MaxOrphanAttempts    \* MAX_ORPHAN_INTERPRETATION_ATTEMPTS

ASSUME SteeringAssumption ==
    /\ First \in Messages /\ None \notin Messages /\ IsFiniteSet(Messages)
    /\ {MaxSends, MaxRuns, MaxIncidents} \subseteq Nat
    /\ MaxOrphanAttempts \in Nat \ {0}

VARIABLES
    turns,       \* turn -> its task row, the outcome of its execution and what
                 \* the outbox still has to project
    runs,        \* turn -> the states of its agent runs, oldest first
    steering,    \* message -> its row of turn_steering
    loops,       \* turn -> the worker that executes it
    coordinator, \* the steering coordinator
    up,          \* whether the gateway runs
    followed,    \* ghost: message -> the runs that have its instruction in their
                 \* conversation, and whether the row says so ("applied"), not yet
                 \* ("read"), or never will ("torn": a cancellation that was cut
                 \* short has held it)
    budget       \* what is left of the bounds

steeringVars ==
    <<turns, runs, steering, loops, coordinator, up, followed, budget>>

-------------------------------------------------------------------------------

\* chat_turn_task_id: the turn of a message, or of a held row that was promoted.
Turns == {"turn", "steering"} \X Messages

\* broker_turn_stream_request_id: the name a turn has as a stream.
StreamRequestId(t) == <<"broker", t>>

\* "completed" stands for a failed turn, too: nothing here tells them apart.
EndedTurn == {"completed", "cancelled"}
\* ACTIVE_CHAT_TURN_EXCLUDED_SQL_STATUSES
FreeThread == EndedTurn \cup {"finalizing"}
Active(t) == turns[t].col # "none" /\ turns[t].col \notin FreeThread

NoTurn == [row |-> "none", col |-> "none", outcome |-> "open", outbox |-> <<>>]
NoSteering == [status |-> "none", turn |-> None, id |-> 0, revision |-> 0, run |-> 0,
               attempts |-> 0, text |-> 0, read |-> 0]
IdleLoop == [pc |-> "idle", control |-> None, drained |-> {}, result |-> "none"]
IdleCoordinator == [pc |-> "idle", due |-> {}, turn |-> None, run |-> 0, batch |-> {}]

\* insert_task writes the record and the column together.
Write(t, status) == [turns[t] EXCEPT !.row = status, !.col = status]

Unread == {"pending", "claimed", "interpreted"}
RowsOf(t, S) == {m \in Messages : steering[m].turn = t /\ steering[m].status \in S}
Oldest(M) == CHOOSE m \in M : \A n \in M : steering[m].id <= steering[n].id

\* Every write of a row is a new revision of it.  Only revisions and attempts of
\* rows that wait for the coordinator are ever compared; of a row that is settled
\* nothing but its status is read again.
Rewrite(m, row) ==
    CASE row.status \in {"pending", "claimed"} ->
           [row EXCEPT !.revision = steering[m].revision + 1]
      [] row.status \in {"cancelled", "promoted"} ->
           [NoSteering EXCEPT !.status = row.status, !.turn = row.turn, !.id = row.id]
      [] OTHER -> [row EXCEPT !.revision = 0, !.attempts = 0]
SetStatus(M, status) ==
    [m \in Messages |->
        IF m \in M THEN Rewrite(m, [steering[m] EXCEPT !.status = status])
        ELSE steering[m]]

RunningRuns(t) == {i \in DOMAIN runs[t] : runs[t][i] = "running"}
CurrentRun(t) == Len(runs[t])
\* latest_resumable_checkpoint_for_turn
Resumable(t) == \E i \in DOMAIN runs[t] : runs[t][i] = "restarted"

Spend(what) == budget[what] > 0 /\ budget' = [budget EXCEPT ![what] = @ - 1]

-------------------------------------------------------------------------------
(* Requests of clients *)

\* The turns with a pending wake for the user.
Waiting == {t \in Turns : turns[t].outcome = "waiting"}
\* A turn that waits for the user takes the message as its input.  Two of them
\* are a conflict: the request fails.
ResumeSuspendedUserTurn(t) ==
    /\ Waiting = {t}
    /\ turns[t].row \notin EndedTurn
    /\ turns' = [turns EXCEPT ![t] = [Write(t, "queued") EXCEPT !.outcome = "open"]]
    /\ UNCHANGED steering

\* The wake of a turn that has ended is discarded, and the message is enqueued.
StaleWakeDiscarded ==
    [t \in Turns |-> IF t \in Waiting THEN [turns[t] EXCEPT !.outcome = "discarded"]
                     ELSE turns[t]]

\* enqueue_or_steer_chat_turn_atomic, on what the lookup of a waiting turn left:
\* a turn whose id exists is left as it is, and so is a row of the same message.
EnqueueOrSteer(m, table) ==
    LET t == <<"turn", m>>
        id == Cardinality({n \in Messages : steering[n].status # "none"}) + 1 IN
    \/ /\ \A s \in Turns : ~Active(s)
       /\ turns' = IF turns[t].row = "none" THEN [table EXCEPT ![t] = Write(t, "queued")]
                   ELSE table
       /\ UNCHANGED steering
    \/ \E s \in Turns :
         /\ Active(s)
         /\ steering[m].status = "none"
         /\ steering' = [steering EXCEPT ![m] =
              [NoSteering EXCEPT !.status = "pending", !.turn = s, !.id = id, !.revision = 1]]
         /\ turns' = table

SendMessage(m) ==
    /\ up
    /\ Spend("sends")
    /\ \/ \E t \in Turns : ResumeSuspendedUserTurn(t)
       \/ /\ \A t \in Waiting : Waiting = {t} /\ turns[t].row \in EndedTurn
          /\ EnqueueOrSteer(m, StaleWakeDiscarded)
    /\ UNCHANGED <<runs, loops, coordinator, up, followed>>

\* update_turn_steering and cancel_turn_steering, by a client that names the
\* current revision; any other is a conflict.
EditSteering(m) ==
    /\ up
    /\ steering[m].status \in {"pending", "held"}
    /\ Spend("incidents")
    /\ steering' = [steering EXCEPT ![m] =
           Rewrite(m, [steering[m] EXCEPT !.text = steering[m].text + 1])]
    /\ UNCHANGED <<turns, runs, loops, coordinator, up, followed>>

CancelSteering(m) ==
    /\ up
    /\ steering[m].status \in {"pending", "held"}
    /\ steering' = SetStatus({m}, "cancelled")
    /\ UNCHANGED <<turns, runs, loops, coordinator, up, followed, budget>>

\* promote_held_turn_steering
PromoteHeld(m) ==
    LET t == <<"steering", m>> IN
    /\ up
    /\ steering[m].status = "held"
    /\ \A s \in Turns : ~Active(s)
    /\ turns' = [turns EXCEPT ![t] = Write(t, "queued")]
    /\ steering' = SetStatus({m}, "promoted")
    /\ UNCHANGED <<runs, loops, coordinator, up, followed, budget>>

\* Fault: an instruction the run already follows is given back as well.
HeldWithApplied(t) == SetStatus(RowsOf(t, Unread \cup {"applied"}), "held")
\* hold_pending_turn_steering
Held(t) == SetStatus(RowsOf(t, Unread), "held")

\* cancel_chat_turn, carried out: the row is cancelled, the wake of a suspended
\* turn is discarded and a revision without an outcome is sealed as cancelled.
Cancelled(t) ==
    LET row == Write(t, "cancelled") IN
    CASE turns[t].outcome = "open" ->
           [row EXCEPT !.outcome = "cancelled",
                       !.outbox = Append(turns[t].outbox, "cancelled")]
      [] turns[t].outcome \in {"waiting", "parked"} -> [row EXCEPT !.outcome = "discarded"]
      [] OTHER -> row

Cancellable(t) == up /\ turns[t].row \notin EndedTurn \cup {"none"}

\* The rows are held first, by a commit of its own.
CancelTurn(t) ==
    /\ Cancellable(t)
    /\ steering' = Held(t)
    /\ turns' = [turns EXCEPT ![t] = Cancelled(t)]
    /\ UNCHANGED <<runs, loops, coordinator, up, followed, budget>>

\* Or a later one of its commits fails: the rows are held and the turn goes on, or
\* its row is cancelled while its wake, or its open revision, stays.  (With the
\* wake discarded or the revision sealed it has been carried out.)
CancelCutShort(t) ==
    /\ Cancellable(t)
    /\ Spend("incidents")
    /\ steering' = Held(t)
    /\ turns' \in {turns, [turns EXCEPT ![t] = Write(t, "cancelled")]}
    /\ UNCHANGED runs

\* The request answers with the error.  What a run had read and not acknowledged
\* is now held.
CancelFails(t) ==
    /\ CancelCutShort(t)
    /\ followed' = [m \in Messages |->
         IF m \in RowsOf(t, Unread) THEN {<<f[1], f[2], "torn">> : f \in followed[m]}
         ELSE followed[m]]
    /\ UNCHANGED <<loops, coordinator, up>>

\* deliver_model_available_wakes, after the user has chosen a model.
SetRuntimeModel ==
    LET parked == {t \in Turns : turns[t].outcome = "parked"} IN
    /\ up
    /\ parked # {}
    /\ turns' = [t \in Turns |-> IF t \in parked
                                 THEN [Write(t, "queued") EXCEPT !.outcome = "open"]
                                 ELSE turns[t]]
    /\ UNCHANGED <<runs, steering, loops, coordinator, up, followed, budget>>

-------------------------------------------------------------------------------
(* The worker of a turn *)

At(t, pc) == loops[t].pc = pc /\ loops[t].control = None
Leave(t, result) == loops' = [loops EXCEPT ![t].pc = "tail", ![t].result = result]

\* A queued turn is acquired.  The runtime returns the outcome of a sealed
\* revision at once: the row stays running under its lease.
AcquireTurn(t) ==
    /\ up
    /\ turns[t].row = "queued" /\ loops[t].pc = "idle"
    /\ turns' = [turns EXCEPT ![t] = Write(t, "running")]
    /\ IF turns[t].outcome = "open"
       THEN loops' = [loops EXCEPT ![t].pc = "starting"]
       ELSE UNCHANGED loops
    /\ UNCHANGED <<runs, steering, coordinator, up, followed, budget>>

\* The lease of a row nobody runs lapses.
RecoverStaleLease(t) ==
    /\ up
    /\ turns[t].row = "running" /\ loops[t].pc = "idle"
    /\ turns' = [turns EXCEPT ![t] = Write(t, "queued")]
    /\ UNCHANGED <<runs, steering, loops, coordinator, up, followed, budget>>

\* The watchdog renews the lease: the record is decoded and written back, and
\* the column with it.
Heartbeat(t) ==
    /\ loops[t].pc # "idle" /\ turns[t].col # turns[t].row
    /\ turns' = [turns EXCEPT ![t] = Write(t, turns[t].row)]
    /\ UNCHANGED <<runs, steering, loops, coordinator, up, followed, budget>>

\* create_agent_run
CreateAgentRun(t) ==
    /\ loops[t].pc = "starting"
    /\ CurrentRun(t) < MaxRuns
    /\ runs' = [runs EXCEPT ![t] = Append(@, "running")]
    /\ loops' = [loops EXCEPT ![t].pc = "rounds"]
    /\ UNCHANGED <<turns, steering, coordinator, up, followed, budget>>

\* list_interpreted_turn_steering: only what was interpreted for this very run.
Controls(t) == {m \in RowsOf(t, {"interpreted"}) : steering[m].run = CurrentRun(t)}

\* apply_turn_control, at a round, during a call or at the fence: the
\* instruction joins the conversation, then the row is written under a lock of
\* its own, if it still is what was read.  The instruction continues the work,
\* ends the rounds or ends the turn.
ReadControl(t) ==
    /\ At(t, "rounds") \/ At(t, "fence")
    /\ Controls(t) # {}
    /\ LET m == Oldest(Controls(t)) IN
       /\ loops' = [loops EXCEPT ![t].control = m]
       /\ followed' = [followed EXCEPT ![m] = @ \cup {<<t, CurrentRun(t), "read">>}]
    /\ UNCHANGED <<turns, runs, steering, coordinator, up, budget>>

\* Fault: mark_turn_steering_applied without its status check.
WritableAnyway(t, m) == steering[m].turn = t
Writable(t, m) == m \in RowsOf(t, {"interpreted"})

AcknowledgeApplied(t) ==
    LET m == loops[t].control
        Resume(pc, result) ==
          loops' = [loops EXCEPT ![t] = [pc |-> pc, control |-> None,
                                         drained |-> @.drained \cup {m}, result |-> result]] IN
    /\ m # None
    /\ IF Writable(t, m)
       THEN /\ steering' = SetStatus({m}, "applied")
            /\ followed' = [followed EXCEPT ![m] =
                 (@ \ {<<t, CurrentRun(t), "read">>}) \cup {<<t, CurrentRun(t), "applied">>}]
       ELSE UNCHANGED <<steering, followed>>
    /\ \/ \E pc \in {loops[t].pc, "fence"} : Resume(pc, "none")
       \/ Resume("tail", "completed")
    /\ UNCHANGED <<turns, runs, coordinator, up, budget>>

\* Fault: the fence of a turn whatever its status.
FencedAnyway(t) == [turns[t] EXCEPT !.col = "finalizing"]
\* fence_chat_turn_finalization: the column changes, the record does not.
Fenced(t) == IF turns[t].col = "running" THEN [turns[t] EXCEPT !.col = "finalizing"]
             ELSE turns[t]
FenceBlocked(t) == RowsOf(t, Unread) # {}

\* An answer is delivered from a round; while the fence is blocked the rounds
\* go on.
DeliverAnswer(t) ==
    /\ At(t, "rounds") /\ ~FenceBlocked(t)
    /\ turns' = [turns EXCEPT ![t] = Fenced(t)]
    /\ Leave(t, "completed")
    /\ UNCHANGED <<runs, steering, coordinator, up, followed, budget>>

ExitRounds(t) ==
    /\ At(t, "rounds")
    /\ loops' = [loops EXCEPT ![t].pc = "fence"]
    /\ UNCHANGED <<turns, runs, steering, coordinator, up, followed, budget>>

\* The fence after the rounds: the turn ends in an answer, a failure or a wait.
PassFence(t) ==
    /\ At(t, "fence") /\ ~FenceBlocked(t)
    /\ turns' = [turns EXCEPT ![t] = Fenced(t)]
    /\ \E result \in {"completed", "waiting"} : Leave(t, result)
    /\ UNCHANGED <<runs, steering, coordinator, up, followed, budget>>

\* The bounded wait is over: a turn that has an answer or a question ends with
\* it, any other one is suspended until a model is available.
GiveUpAtFence(t) ==
    /\ At(t, "fence") /\ FenceBlocked(t) /\ Controls(t) = {}
    /\ \E result \in {"completed", "waiting", "parked"} : Leave(t, result)
    /\ UNCHANGED <<turns, runs, steering, coordinator, up, followed, budget>>

\* close_unsettled_turn_steering
Closed(id, rows) ==
    [m \in Messages |->
        IF /\ rows[m].turn = id
           /\ rows[m].status \in Unread \cup {"held", "applied"}
        THEN Rewrite(m, [rows[m] EXCEPT !.status = "cancelled"])
        ELSE rows[m]]

\* What the run followed is completed, unless nothing was delivered; then the
\* tail closes the rows of the turn, which it knows by its stream's name.
EndLoop(t) ==
    /\ loops[t].pc = "tail"
    /\ \E done \in {{}, loops[t].drained} :
         /\ loops[t].result = "parked" => done = loops[t].drained
         /\ steering' = Closed(StreamRequestId(t),
                               SetStatus(done \cap RowsOf(t, {"applied"}), "completed"))
    /\ loops' = [loops EXCEPT ![t].pc = "commit", ![t].drained = {}]
    /\ UNCHANGED <<turns, runs, coordinator, up, followed, budget>>

\* The outcome is sealed, unless the turn has one.  The row is looked at in a lock
\* section before, which may or may not see a cancellation.
CommitTurn(t) ==
    /\ loops[t].pc = "commit"
    /\ \/ turns[t].outcome # "open" /\ UNCHANGED turns
       \/ \E outcome \in {loops[t].result, "cancelled"} :
            /\ turns[t].outcome = "open"
            /\ outcome # loops[t].result => turns[t].row = "cancelled"
            /\ turns' = [turns EXCEPT ![t] = [turns[t] EXCEPT
                 !.outcome = outcome, !.outbox = Append(turns[t].outbox, outcome)]]
    /\ loops' = [loops EXCEPT ![t] = IdleLoop]
    /\ UNCHANGED <<runs, steering, coordinator, up, followed, budget>>

\* The cancelled row reaches the worker, by notify_cancel or by the monitor's
\* poll: the engine is aborted where it is.
AbortLoop(t) ==
    /\ loops[t].pc \notin {"idle", "commit"} /\ loops[t].control = None
    /\ turns[t].row = "cancelled"
    /\ loops' = [loops EXCEPT ![t] =
         IF turns[t].outcome # "open" THEN IdleLoop
         ELSE [IdleLoop EXCEPT !.pc = "commit", !.result = "cancelled"]]
    /\ UNCHANGED <<turns, runs, steering, coordinator, up, followed, budget>>

\* A committed outcome is projected onto the row; the agent runs end, completed,
\* failed or aborted, and none of them is one a restart may resume from.
ProjectTurn(t) ==
    /\ turns[t].outbox # <<>>
    /\ turns' = [turns EXCEPT ![t] =
         [Write(t, Head(turns[t].outbox)) EXCEPT !.outbox = Tail(turns[t].outbox)]]
    /\ runs' = [runs EXCEPT ![t] = [i \in DOMAIN @ |->
                  IF @[i] = "running" THEN "ended" ELSE @[i]]]
    /\ UNCHANGED <<steering, loops, coordinator, up, followed, budget>>

-------------------------------------------------------------------------------
(* The steering coordinator *)

\* list_due_pending_turn_steering: copies of the rows whose backoff is over.
ListDue ==
    /\ up
    /\ coordinator = IdleCoordinator
    /\ \E due \in (SUBSET {m \in Messages : steering[m].status = "pending"}) \ {{}} :
         coordinator' = [IdleCoordinator EXCEPT !.pc = "list", !.due =
           {[m |-> m, revision |-> steering[m].revision, attempts |-> steering[m].attempts]
              : m \in due}]
    /\ UNCHANGED <<turns, runs, steering, loops, up, followed, budget>>

\* The rows a poll has listed.
ListedNow == {d.m : d \in coordinator'.due}

NextDue == CHOOSE d \in coordinator.due :
             \A e \in coordinator.due : steering[d.m].id <= steering[e.m].id
\* The copy is dealt with.
Handled(d, c) ==
    LET rest == c.due \ {d} IN
    IF rest = {} THEN IdleCoordinator
    ELSE [IdleCoordinator EXCEPT !.pc = "list", !.due = rest]

\* claim_pending_turn_steering: the pending rows of the turn whose backoff is
\* over, for the run that is running now.
ClaimPending(d, claimed) ==
    LET t == steering[d.m].turn
        run == CHOOSE i \in RunningRuns(t) : \A j \in RunningRuns(t) : j <= i IN
    /\ coordinator.pc = "list" /\ RunningRuns(t) # {}
    /\ claimed \subseteq RowsOf(t, {"pending"})
    /\ steering[d.m].status = "pending" => d.m \in claimed
    /\ steering' = [m \in Messages |->
         IF m \in claimed
         THEN Rewrite(m, [steering[m] EXCEPT !.status = "claimed", !.run = run])
         ELSE steering[m]]
    /\ coordinator' =
         IF claimed = {} THEN Handled(d, coordinator)
         ELSE [coordinator EXCEPT !.pc = "interpret", !.turn = t, !.run = run, !.batch =
                 {[m |-> m, revision |-> steering[m].revision + 1,
                   text |-> steering[m].text] : m \in claimed}]
    /\ UNCHANGED <<turns, budget>>

\* No run: what that means is looked up under another lock.
NoRunningRun(d) ==
    /\ coordinator.pc = "list" /\ RunningRuns(steering[d.m].turn) = {}
    /\ coordinator' = [coordinator EXCEPT !.pc = "route"]
    /\ UNCHANGED <<steering, turns, budget>>

\* defer_pending_turn_steering
Deferred(d) ==
    IF steering[d.m].status = "pending" /\ steering[d.m].revision = d.revision
    THEN [steering EXCEPT ![d.m] =
           Rewrite(d.m, [steering[d.m] EXCEPT !.attempts = steering[d.m].attempts + 1])]
    ELSE steering

\* Fault: the row is left to a later poll, like that of a turn in transit.
ResolveOrphanLater(d) ==
    LET t == steering[d.m].turn IN
    /\ coordinator.pc = "route" /\ turns[t].row \in EndedTurn
    /\ coordinator' = Handled(d, coordinator)
    /\ UNCHANGED <<steering, turns, budget>>

\* route_pending_without_running_run, for a turn that has ended: after the last
\* attempt its rows are given back to the user.
ResolveOrphan(d) ==
    LET t == steering[d.m].turn IN
    /\ coordinator.pc = "route" /\ turns[t].row \in EndedTurn
    /\ steering' = IF d.attempts + 1 >= MaxOrphanAttempts THEN Held(t) ELSE Deferred(d)
    /\ coordinator' = Handled(d, coordinator)
    /\ UNCHANGED <<turns, budget>>

\* For a parked turn with a resumable checkpoint the model is probed first.
ProbeModel(d) ==
    LET t == steering[d.m].turn IN
    /\ coordinator.pc = "route" /\ turns[t].row = "parked" /\ Resumable(t)
    /\ coordinator' = [coordinator EXCEPT !.pc = "probe", !.turn = t]
    /\ UNCHANGED <<steering, turns, budget>>

\* For any other turn the row waits.
WaitInTransit(d) ==
    LET t == steering[d.m].turn IN
    /\ coordinator.pc = "route" /\ turns[t].row \notin EndedTurn
    /\ ~(turns[t].row = "parked" /\ Resumable(t))
    /\ coordinator' = Handled(d, coordinator)
    /\ UNCHANGED <<steering, turns, budget>>

InterpretPendingTurn ==
    /\ coordinator.pc \in {"list", "route"}
    /\ LET d == NextDue IN
       \/ \E M \in SUBSET Messages : ClaimPending(d, M)
       \/ NoRunningRun(d)
       \/ ResolveOrphan(d) \/ ProbeModel(d) \/ WaitInTransit(d)
    /\ UNCHANGED <<runs, loops, up, followed>>

\* Fault: the row is written whatever has become of it.
InterpretableAnyway(b) == steering[b.m].status # "none"
\* persist_interpretation_result writes to the claim it made and to no other.
Interpretable(b) ==
    /\ steering[b.m].status = "claimed"
    /\ steering[b.m].revision = b.revision
    /\ steering[b.m].run = coordinator.run

\* mark_turn_steering_interpreted, or release_turn_steering_for_retry when the
\* model gave no usable answer.
PersistInterpretation ==
    /\ coordinator.pc = "interpret"
    /\ LET b == CHOOSE b \in coordinator.batch :
                  \A c \in coordinator.batch : steering[b.m].id <= steering[c.m].id
           rest == coordinator.batch \ {b}
           row == steering[b.m] IN
       /\ \/ ~Interpretable(b) /\ UNCHANGED <<steering, budget>>
          \/ /\ Interpretable(b)
             /\ steering' = [steering EXCEPT ![b.m] =
                  Rewrite(b.m, [row EXCEPT !.status = "interpreted", !.read = b.text])]
             /\ UNCHANGED budget
          \/ /\ Interpretable(b)
             /\ Spend("incidents")
             /\ steering' = [steering EXCEPT ![b.m] = Rewrite(b.m,
                  [row EXCEPT !.status = "pending", !.run = 0, !.attempts = row.attempts + 1])]
       /\ coordinator' = IF rest = {} THEN Handled(NextDue, coordinator)
                         ELSE [coordinator EXCEPT !.batch = rest]
    /\ UNCHANGED <<turns, runs, loops, up, followed>>

\* unpark_chat_turn_to_queued
Unpark(t) ==
    IF turns[t].row = "parked"
    THEN /\ turns' = [turns EXCEPT ![t] = Write(t, "queued")]
         /\ steering' = [m \in Messages |->
              IF m \in RowsOf(t, {"pending"})
              THEN Rewrite(m, [steering[m] EXCEPT !.attempts = 0])
              ELSE steering[m]]
    ELSE UNCHANGED <<turns, steering>>

\* The probe answers, or the row is deferred.  Bounds the model: the attempts of a
\* row are not counted past the last one that matters.
ProbeAnswers ==
    /\ coordinator.pc = "probe"
    /\ \/ Unpark(coordinator.turn)
       \/ /\ steering[NextDue.m].attempts < MaxOrphanAttempts
          /\ steering' = Deferred(NextDue)
          /\ UNCHANGED turns
    /\ coordinator' = Handled(NextDue, coordinator)
    /\ UNCHANGED <<runs, loops, up, followed, budget>>

-------------------------------------------------------------------------------
(* The process *)

\* An instruction that was read and not acknowledged dies with the conversation
\* in memory.
Die ==
    /\ up' = FALSE
    /\ loops' = [t \in Turns |-> IdleLoop]
    /\ coordinator' = IdleCoordinator
    /\ followed' = [m \in Messages |-> {f \in followed[m] : f[3] = "applied"}]

CrashGateway == up /\ Spend("incidents") /\ Die /\ UNCHANGED <<turns, runs, steering>>

\* Between two commits of cancel_chat_turn.
CrashInCancel(t) == CancelCutShort(t) /\ Die

\* abort_orphaned_running_agent_runs, abort_running_agent_runs_for_terminal_tasks
\* and recover_chat_turns_at_boot, after drain_projection_outbox.  Steering rows
\* are not looked at.
BootGateway ==
    /\ ~up
    /\ \A t \in Turns : turns[t].outbox = <<>>
    /\ up' = TRUE
    /\ turns' = [t \in Turns |-> IF turns[t].row = "running" THEN Write(t, "queued")
                                 ELSE turns[t]]
    /\ runs' = [t \in Turns |-> [i \in DOMAIN runs[t] |->
         IF /\ runs[t][i] = "running"
            /\ \/ turns[t].outcome = "open"
               \/ turns[t].row \in EndedTurn \cup {"running"}
         THEN "restarted" ELSE runs[t][i]]]
    /\ UNCHANGED <<steering, loops, coordinator, followed, budget>>

-------------------------------------------------------------------------------

SteeringInit ==
    /\ turns = [t \in Turns |->
         IF t = <<"turn", First>> THEN [NoTurn EXCEPT !.row = "queued", !.col = "queued"]
         ELSE NoTurn]
    /\ runs = [t \in Turns |-> <<>>]
    /\ steering = [m \in Messages |-> NoSteering]
    /\ loops = [t \in Turns |-> IdleLoop]
    /\ coordinator = IdleCoordinator
    /\ up = TRUE
    /\ followed = [m \in Messages |-> {}]
    /\ budget = [sends |-> MaxSends, incidents |-> MaxIncidents]

LoopStep(t) ==
    \/ AcquireTurn(t) \/ CreateAgentRun(t)
    \/ ReadControl(t) \/ AcknowledgeApplied(t)
    \/ DeliverAnswer(t) \/ ExitRounds(t) \/ PassFence(t) \/ GiveUpAtFence(t)
    \/ EndLoop(t) \/ CommitTurn(t) \/ AbortLoop(t)

CoordinatorStep ==
    ListDue \/ InterpretPendingTurn \/ PersistInterpretation \/ ProbeAnswers

UserStep ==
    \/ \E m \in Messages :
         SendMessage(m) \/ EditSteering(m) \/ CancelSteering(m) \/ PromoteHeld(m)
    \/ \E t \in Turns : CancelTurn(t) \/ CancelFails(t)
    \/ SetRuntimeModel

SteeringNext ==
    \/ UserStep
    \/ CoordinatorStep
    \/ \E t \in Turns :
         LoopStep(t) \/ RecoverStaleLease(t) \/ Heartbeat(t) \/ ProjectTurn(t)
    \/ CrashGateway \/ (\E t \in Turns : CrashInCancel(t)) \/ BootGateway

SteeringSpec == SteeringInit /\ [][SteeringNext]_steeringVars


\* What the gateway has begun it goes on with: a poll of the coordinator while it
\* runs, the drain of the outbox and the recovery while it restarts.
Underway ==
    \/ InterpretPendingTurn \/ PersistInterpretation \/ ProbeAnswers
    \/ ~up /\ \E t \in Turns : ProjectTurn(t)
    \/ BootGateway

\* The coordinator polls for ever: a poll may come before the backoff of a row is
\* over, but polls go on.  Nothing is assumed of the user, of the model or of the
\* workers.
SteeringFairness ==
    /\ \A m \in Messages : SF_steeringVars(ListDue /\ m \in ListedNow)
    /\ WF_steeringVars(Underway)

FairSteeringSpec == SteeringSpec /\ SteeringFairness

-------------------------------------------------------------------------------
(* Properties *)

Statuses == {"none", "pending", "held", "claimed", "interpreted", "applied", "completed",
             "cancelled", "promoted"}

\* Every table keeps its shape.  The column differs from the record only between
\* the fence and the next write of a running turn, and a row that was claimed
\* names a run that exists.
SteeringTypeOK ==
    /\ \A t \in Turns :
         /\ turns[t].row \in {"none", "queued", "running", "waiting", "parked"} \cup EndedTurn
         /\ turns[t].col # turns[t].row =>
              turns[t].row = "running" /\ turns[t].col = "finalizing"
         /\ loops[t].pc \in {"idle", "starting", "rounds", "fence", "tail", "commit"}
    /\ \A m \in Messages :
         /\ steering[m].status \in Statuses
         /\ steering[m].attempts <= MaxOrphanAttempts + MaxIncidents
         /\ steering[m].status \in {"claimed", "interpreted", "applied"}
              => steering[m].run \in DOMAIN runs[steering[m].turn]

\* A message is given to one run, and one that a run follows is not given back
\* to the user.  Between reading a row (current_turn_control) and writing it
\* (acknowledge_turn_control_applied) the turn may be cancelled and the row held:
\* only then can a run have read it as well, one that is about to be aborted or,
\* when the cancellation was cut short, one that may go on.
FollowedOnce ==
    \A m \in Messages :
      /\ Cardinality(followed[m]) <= 1
      /\ steering[m].status \in {"held", "promoted"} =>
           \A f \in followed[m] :
             \/ f[3] = "read" /\ turns[f[1]].outcome = "cancelled"
             \/ f[3] = "torn"

\* What a run is told is what the user wrote last: an edit or a cancellation
\* while the model reads a claimed row (interpret_pending_turn) is not overtaken
\* by the model's answer.
DecisionIsCurrent ==
    \A m \in Messages :
      steering[m].status \in {"interpreted", "applied", "completed"} =>
        steering[m].read = steering[m].text

\* A row that was given back or settled is not taken from the user again by an
\* answer, a release or an acknowledgement that comes late.
GivenBackStays ==
    [][\A m \in Messages :
         steering[m].status \in {"held", "cancelled", "promoted", "completed"} =>
           \/ steering'[m].status = steering[m].status
           \/ /\ steering[m].status = "held"
              /\ steering'[m].status \in {"promoted", "cancelled"}]_steeringVars

\* A message that is still pending when its turn has ended comes back to the user
\* (MAX_ORPHAN_INTERPRETATION_ATTEMPTS), or is withdrawn, or the turn returns,
\* whatever the model does.  Of a message that was claimed or interpreted by then
\* nothing is said: list_due_pending_turn_steering never lists it again.
OrphansSurface ==
    LET Orphaned(m, S) == steering[m].status \in S /\ turns[steering[m].turn].row \in EndedTurn IN
    \A m \in Messages : Orphaned(m, {"pending"}) ~> ~Orphaned(m, Unread)

\* store.rs, active_chat_turn_for_thread: "the 1-turn-per-thread constraint must
\* hold while a turn is queued, running, OR paused/waiting".
OneTurnPerThread == \A s, t \in Turns : Active(s) /\ Active(t) => s = t

===============================================================================

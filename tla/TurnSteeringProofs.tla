-------------------------- MODULE TurnSteeringProofs --------------------------
(***************************************************************************)
(* Proofs about TurnSteering, for any messages and bounds.  Six            *)
(* invariants, each of one part of the state, hold together:               *)
(*   Shape              every table has its rows and columns;              *)
(*   RowsSettled        what a steering row says of its turn and run;      *)
(*   TurnsSettled       an ended turn has a final outcome, and a loop runs *)
(*                      only under an outcome that is open or cancelled;   *)
(*   CancelledHeld      a turn whose cancellation was cut short has no     *)
(*                      unread row;                                        *)
(*   CopiesKnown        how old the coordinator's copies of rows may be;   *)
(*   FollowersKnown     which run can have a message in its conversation.  *)
(***************************************************************************)
EXTENDS TurnSteering, SequenceTheorems, FiniteSetTheorems, WellFoundedInduction, TLAPS

USE SteeringAssumption

-------------------------------------------------------------------------------
(* The inductive invariant *)

Projected == {"waiting", "parked"} \cup EndedTurn
Final == EndedTurn \cup {"discarded"}
RowStates == {"none", "queued", "running"} \cup Projected

TurnRow == [row : RowStates, col : RowStates \cup {"finalizing"},
            outcome : {"open", "discarded"} \cup Projected, outbox : Seq(Projected)]
SteeringRow == [status : Statuses, turn : Turns \cup {None}, id : Nat, revision : Nat,
                run : Nat, attempts : Nat, text : Nat, read : Nat]
LoopState == [pc : {"idle", "starting", "rounds", "fence", "tail", "commit"},
              control : Messages \cup {None}, drained : SUBSET Messages,
              result : {"none"} \cup Projected]
DueCopy == [m : Messages, revision : Nat, attempts : Nat]
BatchCopy == [m : Messages, revision : Nat, text : Nat]
CoordinatorState == [pc : {"idle", "list", "route", "probe", "interpret"},
                     due : SUBSET DueCopy, turn : Turns \cup {None}, run : Nat,
                     batch : SUBSET BatchCopy]
RunStates == {"running", "ended", "restarted"}
Follower == Turns \X Nat \X {"read", "applied", "torn"}

Shape ==
    /\ turns \in [Turns -> TurnRow]
    /\ runs \in [Turns -> Seq(RunStates)]
    /\ steering \in [Messages -> SteeringRow]
    /\ loops \in [Turns -> LoopState]
    /\ coordinator \in CoordinatorState
    /\ up \in BOOLEAN
    /\ followed \in [Messages -> SUBSET Follower]
    /\ budget \in [sends : Nat, incidents : Nat]

\* A row belongs to a turn from the start; one that was claimed names a run of
\* it; an attempt past the last one that matters has cost an incident.
RowSettled(m) ==
    /\ steering[m].status # "none" => steering[m].turn \in Turns
    /\ steering[m].status = "none" => steering[m] = NoSteering
    /\ steering[m].status \in {"claimed", "interpreted", "applied"} =>
         steering[m].run \in DOMAIN runs[steering[m].turn]
    /\ steering[m].attempts + budget.incidents <= MaxOrphanAttempts + MaxIncidents
RowsSettled ==
    /\ budget.incidents <= MaxIncidents
    /\ \A m \in Messages : RowSettled(m)

TurnSettled(turn, loop) ==
    /\ turn.col # turn.row => turn.row = "running" /\ turn.col = "finalizing"
    /\ turn.row \in EndedTurn => turn.outcome \in Final \/ turn.row = "cancelled"
    /\ \A i \in DOMAIN turn.outbox : turn.outbox[i] \in EndedTurn => turn.outcome \in Final
    /\ loop.pc # "idle" => turn.outcome \in {"open", "cancelled"}
    /\ loop.control # None => loop.pc \in {"rounds", "fence"}
    /\ loop.pc \in {"tail", "commit"} => loop.result # "none"
TurnsSettled == \A t \in Turns : TurnSettled(turns[t], loops[t])

\* The row was cancelled and the execution was not: its rows were held before.
Unsettled(turn) == turn.row = "cancelled" /\ turn.outcome \notin Final
CancelledHeld == \A t \in Turns : Unsettled(turns[t]) => RowsOf(t, Unread) = {}

\* A copy is of a row as it is, or of an older revision of it, or the row is out
\* of the coordinator's hands.
CopyKnown(c) ==
    /\ steering[c.m].status # "none"
    /\ steering[c.m].status \in {"pending", "claimed"} =>
         c.revision <= steering[c.m].revision
DueKnown(d) ==
    /\ CopyKnown(d)
    /\ (/\ steering[d.m].status \in {"pending", "claimed"}
        /\ steering[d.m].revision = d.revision) => steering[d.m].attempts = d.attempts
AnswerKnown(b) ==
    /\ CopyKnown(b)
    /\ (/\ steering[b.m].status \in {"pending", "claimed"}
        /\ steering[b.m].revision = b.revision) => steering[b.m].text = b.text
CopiesKnown ==
    /\ coordinator.pc # "idle" => coordinator.due # {}
    /\ coordinator.pc = "interpret" => coordinator.batch # {}
    /\ coordinator.pc = "probe" => coordinator.turn \in Turns
    /\ \A d \in coordinator.due : DueKnown(d)
    /\ \A b \in coordinator.batch : AnswerKnown(b)

\* The run that has m in its conversation is the one m was interpreted for; it
\* is still about to acknowledge m, or the row says so, or the turn was cancelled,
\* completely or not, in between.
FollowerKnown(m) ==
    LET t == steering[m].turn IN
    /\ steering[m].status \in {"none", "pending", "claimed"} => followed[m] = {}
    /\ steering[m].status = "interpreted" =>
         followed[m] = IF loops[t].control = m THEN {<<t, CurrentRun(t), "read">>} ELSE {}
    /\ steering[m].status \in {"applied", "completed"} =>
         \E f \in followed[m] : f[1] = t /\ f[3] = "applied" /\ followed[m] = {f}
    /\ steering[m].status \in {"held", "promoted", "cancelled"} =>
         \/ followed[m] = {}
         \/ /\ turns[t].outcome = "cancelled"
            /\ \E f \in followed[m] : f[1] = t /\ f[3] = "read" /\ followed[m] = {f}
         \/ \E f \in followed[m] : f[3] = "torn" /\ followed[m] = {f}
FollowersKnown ==
    /\ \A m \in Messages : FollowerKnown(m)
    /\ \A t \in Turns : \A m \in Messages : loops[t].control = m =>
         steering[m].turn = t /\ steering[m].status \notin {"none", "pending", "claimed"}

SteeringInv ==
    /\ Shape /\ RowsSettled /\ TurnsSettled /\ CancelledHeld /\ CopiesKnown
    /\ FollowersKnown /\ DecisionIsCurrent

-------------------------------------------------------------------------------
(* Choices *)

\* Among rows with natural ids there is an oldest one (ORDER BY id, ascending).
LEMMA OldestExists ==
    ASSUME NEW S, S # {}, NEW id, \A s \in S : id[s] \in Nat
    PROVE  \E s \in S : \A u \in S : id[s] <= id[u]
  <1> DEFINE N == {id[s] : s \in S}
  <1>1. N \in SUBSET Nat /\ N # {}
    OBVIOUS
  <1> HIDE DEF N
  <1>2. PICK n \in N : \A k \in N : n <= k
    <2>1. PICK n \in N : \A k \in N : ~(<<k, n>> \in OpToRel(<, Nat))
      BY <1>1, NatLessThanWellFounded, WFMin
    <2>2. \A k \in N : ~(k < n)
      BY <1>1, <2>1 DEF OpToRel
    <2> QED  BY <1>1, <2>2
  <1>3. PICK s \in S : n = id[s]
    BY DEF N
  <1>4. \A u \in S : id[s] <= id[u]
    BY <1>2, <1>3 DEF N
  <1> QED  BY <1>4

\* The coordinator always has a copy to go on with (interpret_pending_turn).
LEMMA NextDueChosen ==
    ASSUME Shape, CopiesKnown, coordinator.pc # "idle"
    PROVE  NextDue \in coordinator.due
  <1> DEFINE id == [d \in coordinator.due |-> steering[d.m].id]
  <1>1. \A d \in coordinator.due : d.m \in Messages
    BY DEF Shape, CoordinatorState, DueCopy
  <1>2. \A d \in coordinator.due : id[d] \in Nat
    BY <1>1 DEF Shape, SteeringRow
  <1>3. coordinator.due # {}
    BY DEF CopiesKnown
  <1>4. \E d \in coordinator.due : \A e \in coordinator.due : id[d] <= id[e]
    <2> HIDE DEF id
    <2> QED  BY <1>2, <1>3, OldestExists
  <1>5. \E d \in coordinator.due : \A e \in coordinator.due :
            steering[d.m].id <= steering[e.m].id
    BY <1>4
  <1> QED  BY <1>5 DEF NextDue

\* The batch entry whose answer is written next.
NextAnswer == CHOOSE b \in coordinator.batch :
                \A c \in coordinator.batch : steering[b.m].id <= steering[c.m].id

\* The answer that is written next is one of the batch.
LEMMA NextAnswerChosen ==
    ASSUME Shape, CopiesKnown, coordinator.pc = "interpret"
    PROVE  NextAnswer \in coordinator.batch
  <1> DEFINE id == [b \in coordinator.batch |-> steering[b.m].id]
  <1>1. \A b \in coordinator.batch : b.m \in Messages
    BY DEF Shape, CoordinatorState, BatchCopy
  <1>2. \A b \in coordinator.batch : id[b] \in Nat
    BY <1>1 DEF Shape, SteeringRow
  <1>3. coordinator.batch # {}
    BY DEF CopiesKnown
  <1>4. \E b \in coordinator.batch : \A c \in coordinator.batch : id[b] <= id[c]
    <2> HIDE DEF id
    <2> QED  BY <1>2, <1>3, OldestExists
  <1>5. \E b \in coordinator.batch : \A c \in coordinator.batch :
            steering[b.m].id <= steering[c.m].id
    BY <1>4
  <1> QED  BY <1>5 DEF NextAnswer

\* A loop that reads a control reads one of its own (current_turn_control).
LEMMA OldestChosen ==
    ASSUME Shape, NEW M \in SUBSET Messages, M # {}
    PROVE  Oldest(M) \in M
  <1> DEFINE id == [m \in M |-> steering[m].id]
  <1>1. \A m \in M : id[m] \in Nat
    BY DEF Shape, SteeringRow
  <1>2. \E m \in M : \A n \in M : id[m] <= id[n]
    <2> HIDE DEF id
    <2> QED  BY <1>1, OldestExists
  <1>3. \E m \in M : \A n \in M : steering[m].id <= steering[n].id
    BY <1>2
  <1> QED  BY <1>3 DEF Oldest

\* The latest of the running runs is a run (claim_pending_turn_steering).
LatestRunning(t) == CHOOSE i \in RunningRuns(t) : \A j \in RunningRuns(t) : j <= i

\* The latest running run of a turn is one of its runs.
LEMMA LatestRunningChosen ==
    ASSUME Shape, NEW t \in Turns, RunningRuns(t) # {}
    PROVE  LatestRunning(t) \in DOMAIN runs[t] /\ LatestRunning(t) \in Nat
  <1> DEFINE n == Len(runs[t])
             S == RunningRuns(t)
             age == [i \in S |-> n - i]
  <1>1. runs[t] \in Seq(RunStates)
    BY DEF Shape
  <1>2. n \in Nat /\ DOMAIN runs[t] = 1 .. n
    BY <1>1, LenProperties
  <1>3. S \subseteq 1 .. n
    BY <1>2 DEF RunningRuns
  <1>4. \A i \in S : age[i] \in Nat
    BY <1>2, <1>3
  <1>5. \E i \in S : \A j \in S : age[i] <= age[j]
    <2> HIDE DEF age, S
    <2> QED  BY <1>4, OldestExists DEF S
  <1>6. \E i \in S : \A j \in S : j <= i
    <2>1. PICK i \in S : \A j \in S : age[i] <= age[j]
      BY <1>5
    <2>2. ASSUME NEW j \in S  PROVE j <= i
      <3>1. n - i <= n - j  BY <2>1
      <3>2. i \in Int /\ j \in Int  BY <1>3
      <3> QED  BY <1>2, <3>1, <3>2
    <2> QED  BY <2>2
  <1>7. LatestRunning(t) \in S
    BY <1>6 DEF LatestRunning
  <1> QED  BY <1>2, <1>3, <1>7

-------------------------------------------------------------------------------
(* Writes of a row *)

\* What a write leaves of a row, by the status it gives it.
LEMMA Rewritten ==
    ASSUME Shape, NEW m \in Messages, NEW row \in SteeringRow
    PROVE  LET s == Rewrite(m, row) IN
           /\ s \in SteeringRow
           /\ s.status = row.status /\ s.turn = row.turn
           /\ row.status \in {"pending", "claimed"} =>
                s = [row EXCEPT !.revision = steering[m].revision + 1]
           /\ row.status \notin {"pending", "claimed"} => s.attempts = 0
           /\ row.status \in {"held", "interpreted", "applied", "completed"} =>
                s.text = row.text /\ s.read = row.read /\ s.run = row.run
  <1>1. steering[m].revision + 1 \in Nat
    <2>1. steering[m] \in SteeringRow  BY DEF Shape
    <2> QED  BY <2>1 DEF SteeringRow
  <1> DEFINE s == Rewrite(m, row)
  <1>2. CASE row.status \in {"pending", "claimed"}
    <2>1. s = [row EXCEPT !.revision = steering[m].revision + 1]
      BY <1>2 DEF Rewrite
    <2> QED  BY <1>1, <1>2, <2>1 DEF SteeringRow
  <1>3. CASE row.status \in {"cancelled", "promoted"}
    <2>1. row.status \notin {"pending", "claimed"}
      BY <1>3
    <2> DEFINE a == [NoSteering EXCEPT !.status = row.status]
               b == [a EXCEPT !.turn = row.turn]
    <2>2. a \in SteeringRow /\ a.status = row.status /\ a.attempts = 0
      BY DEF SteeringRow, NoSteering
    <2> HIDE DEF a
    <2>3. b \in SteeringRow /\ b.status = row.status /\ b.turn = row.turn /\ b.attempts = 0
      BY <2>2 DEF SteeringRow
    <2>4. s = [b EXCEPT !.id = row.id]
      BY <1>3, <2>1 DEF Rewrite, a
    <2> HIDE DEF b
    <2> QED  BY <1>3, <2>3, <2>4 DEF SteeringRow
  <1>4. CASE row.status \notin {"pending", "claimed", "cancelled", "promoted"}
    <2> DEFINE a == [row EXCEPT !.revision = 0]
    <2>1. /\ a \in SteeringRow
          /\ a.status = row.status /\ a.turn = row.turn /\ a.run = row.run
          /\ a.text = row.text /\ a.read = row.read
      BY DEF SteeringRow
    <2>2. s = [a EXCEPT !.attempts = 0]
      BY <1>4 DEF Rewrite
    <2> HIDE DEF a
    <2> QED  BY <1>4, <2>1, <2>2 DEF SteeringRow
  <1> QED  BY <1>2, <1>3, <1>4

\* A statement that gives rows a status out of the coordinator's hands.
LEMMA StatusWritten ==
    ASSUME Shape, NEW M \in SUBSET Messages,
           NEW status \in Statuses \ {"pending", "claimed"},
           NEW new, new = SetStatus(M, status)
    PROVE  /\ new \in [Messages -> SteeringRow]
           /\ \A m \in Messages \ M : new[m] = steering[m]
           /\ \A m \in M : /\ new[m].status = status /\ new[m].turn = steering[m].turn
                           /\ new[m].attempts = 0
                           /\ status \in {"held", "interpreted", "applied", "completed"} =>
                                /\ new[m].text = steering[m].text
                                /\ new[m].read = steering[m].read
                                /\ new[m].run = steering[m].run
  <1> DEFINE row(m) == [steering[m] EXCEPT !.status = status]
  <1>1. ASSUME NEW m \in Messages
        PROVE  /\ row(m) \in SteeringRow /\ row(m).status = status
               /\ row(m).turn = steering[m].turn /\ row(m).text = steering[m].text
               /\ row(m).read = steering[m].read /\ row(m).run = steering[m].run
    <2>1. steering[m] \in SteeringRow  BY DEF Shape
    <2> QED  BY <2>1 DEF SteeringRow
  <1>2. new = [m \in Messages |-> IF m \in M THEN Rewrite(m, row(m)) ELSE steering[m]]
    BY DEF SetStatus
  <1>3. \A m \in Messages : steering[m] \in SteeringRow
    BY DEF Shape
  <1> HIDE DEF row
  <1>4. ASSUME NEW m \in Messages
        PROVE  /\ Rewrite(m, row(m)) \in SteeringRow
               /\ Rewrite(m, row(m)).status = status
               /\ Rewrite(m, row(m)).turn = steering[m].turn
               /\ Rewrite(m, row(m)).attempts = 0
               /\ status \in {"held", "interpreted", "applied", "completed"} =>
                    /\ Rewrite(m, row(m)).text = steering[m].text
                    /\ Rewrite(m, row(m)).read = steering[m].read
                    /\ Rewrite(m, row(m)).run = steering[m].run
    <2> DEFINE w == row(m)
    <2>1. /\ w \in SteeringRow /\ w.status = status
          /\ w.turn = steering[m].turn /\ w.text = steering[m].text
          /\ w.read = steering[m].read /\ w.run = steering[m].run
      BY <1>1
    <2> HIDE DEF w
    <2>2. /\ Rewrite(m, w) \in SteeringRow /\ Rewrite(m, w).status = status
          /\ Rewrite(m, w).turn = steering[m].turn /\ Rewrite(m, w).attempts = 0
          /\ status \in {"held", "interpreted", "applied", "completed"} =>
               /\ Rewrite(m, w).text = steering[m].text
               /\ Rewrite(m, w).read = steering[m].read
               /\ Rewrite(m, w).run = steering[m].run
      BY <2>1, Rewritten
    <2> QED  BY <2>2 DEF w
  <1> QED  BY <1>2, <1>3, <1>4

-------------------------------------------------------------------------------
(* What a step may do to a row *)

\* The user's: a message is posted, edited, withdrawn or promoted.
Posted(r, s) ==
    /\ r.status = "none" /\ s.status = "pending" /\ s.turn \in Turns /\ s.attempts = 0
    /\ turns'[s.turn].row # "cancelled"
Revised(r, s) ==
    /\ r.status = "pending" /\ s.status = "pending" /\ s.turn = r.turn
    /\ s.revision > r.revision
    /\ s.attempts <= r.attempts \/ s.attempts <= MaxOrphanAttempts
Withdrawn(r, s) ==
    /\ \/ r.status \in {"pending", "held"} /\ s.status = "cancelled"
       \/ r.status = "held" /\ s.status \in {"held", "promoted"}
    /\ s.turn = r.turn /\ s.attempts = 0

\* The coordinator's: a row is claimed, given back for another attempt or
\* interpreted.
Claimed(r, s) ==
    /\ r.status = "pending" /\ s.status = "claimed" /\ s.turn = r.turn
    /\ s.revision = r.revision + 1 /\ s.attempts = r.attempts /\ s.text = r.text
    /\ s.run \in DOMAIN runs[r.turn]
Released(r, s) ==
    /\ r.status = "claimed" /\ s.status = "pending" /\ s.turn = r.turn
    /\ s.revision > r.revision /\ s.attempts = r.attempts + 1
    /\ budget'.incidents = budget.incidents - 1
Interpreted(r, s) ==
    /\ r.status = "claimed" /\ s.status = "interpreted" /\ s.turn = r.turn
    /\ s.run = r.run /\ s.read = s.text /\ s.attempts = 0

\* The worker's: an instruction is acknowledged by the loop that holds it, and
\* completed with its turn.
Applied(r, s) ==
    /\ \/ /\ r.status = "interpreted" /\ s.status = "applied"
          /\ loops[r.turn].control # None /\ loops'[r.turn].control = None
       \/ r.status = "applied" /\ s.status = "completed"
    /\ s.turn = r.turn /\ s.run = r.run /\ s.read = r.read /\ s.text = r.text
    /\ s.attempts = 0

\* Whoever ends a turn, or has begun to, gives its unread rows back.
CutShort == \E t \in Turns : CancelFails(t) \/ CrashInCancel(t)
GivenBack(r, s) ==
    /\ r.status \in Unread /\ s.status = "held" /\ s.turn = r.turn /\ s.attempts = 0
    /\ turns'[r.turn].outcome \in Final \/ CutShort

RowMove(r, s) ==
    \/ s = r
    \/ Posted(r, s) \/ Revised(r, s) \/ Withdrawn(r, s)
    \/ Claimed(r, s) \/ Released(r, s) \/ Interpreted(r, s)
    \/ Applied(r, s)
    \/ GivenBack(r, s)
RowsMove ==
    /\ steering' \in [Messages -> SteeringRow]
    /\ \A m \in Messages : RowMove(steering[m], steering'[m])

\* A statement that writes one row.
LEMMA OneRowMoves ==
    ASSUME Shape, NEW m \in Messages, NEW new \in SteeringRow,
           RowMove(steering[m], new), steering' = [steering EXCEPT ![m] = new]
    PROVE  RowsMove
  <1>1. steering \in [Messages -> SteeringRow]  BY DEF Shape
  <1>2. steering' \in [Messages -> SteeringRow]
    BY <1>1
  <1>3. ASSUME NEW n \in Messages  PROVE RowMove(steering[n], steering'[n])
    <2>1. CASE n = m
      <3>1. steering'[n] = new  BY <2>1, <1>1
      <3> QED  BY <3>1, <2>1
    <2>2. CASE n # m
      <3>1. steering'[n] = steering[n]  BY <2>2, <1>1
      <3> QED  BY <3>1 DEF RowMove
    <2> QED  BY <2>1, <2>2
  <1> QED  BY <1>2, <1>3 DEF RowsMove

\* A statement that writes none.
LEMMA NoRowMoves ==
    ASSUME Shape, steering' = steering
    PROVE  RowsMove
  BY DEF Shape, RowsMove, RowMove

\* hold_pending_turn_steering
LEMMA HeldRows ==
    ASSUME Shape, NEW t \in Turns
    PROVE  /\ Held(t) \in [Messages -> SteeringRow]
           /\ \A m \in Messages \ RowsOf(t, Unread) : Held(t)[m] = steering[m]
           /\ \A m \in RowsOf(t, Unread) :
                /\ steering[m].turn = t /\ steering[m].status \in Unread
                /\ Held(t)[m].status = "held" /\ Held(t)[m].turn = t
                /\ Held(t)[m].attempts = 0
  <1>1. /\ RowsOf(t, Unread) \in SUBSET Messages
        /\ \A m \in RowsOf(t, Unread) : steering[m].turn = t /\ steering[m].status \in Unread
    BY DEF RowsOf
  <1>2. "held" \in Statuses \ {"pending", "claimed"}
    BY DEF Statuses
  <1> DEFINE new == Held(t)
  <1>3. new = SetStatus(RowsOf(t, Unread), "held")
    BY DEF Held
  <1>4. /\ new \in [Messages -> SteeringRow]
        /\ \A m \in Messages \ RowsOf(t, Unread) : new[m] = steering[m]
        /\ \A m \in RowsOf(t, Unread) :
             /\ new[m].status = "held" /\ new[m].turn = steering[m].turn
             /\ new[m].attempts = 0
    BY <1>1, <1>2, <1>3, StatusWritten
  <1> HIDE DEF new
  <1>5. /\ new \in [Messages -> SteeringRow]
        /\ \A m \in Messages \ RowsOf(t, Unread) : new[m] = steering[m]
        /\ \A m \in RowsOf(t, Unread) :
             /\ steering[m].turn = t /\ steering[m].status \in Unread
             /\ new[m].status = "held" /\ new[m].turn = t /\ new[m].attempts = 0
    BY <1>1, <1>4
  <1> QED  BY <1>5 DEF new

\* Held, whoever calls it.
LEMMA RowsHeld ==
    ASSUME Shape, NEW t \in Turns, steering' = Held(t),
           turns'[t].outcome \in Final \/ CutShort
    PROVE  RowsMove
  <1>1. /\ steering' \in [Messages -> SteeringRow]
        /\ \A m \in Messages \ RowsOf(t, Unread) : steering'[m] = steering[m]
        /\ \A m \in RowsOf(t, Unread) :
             /\ steering[m].turn = t /\ steering[m].status \in Unread
             /\ steering'[m].status = "held" /\ steering'[m].turn = t
             /\ steering'[m].attempts = 0
    BY HeldRows
  <1> QED  BY <1>1 DEF RowsMove, RowMove, GivenBack

\* defer_pending_turn_steering, while an attempt is left.
LEMMA RowsDeferred ==
    ASSUME Shape, CopiesKnown, NEW d \in coordinator.due, steering' = Deferred(d),
           d.attempts < MaxOrphanAttempts \/ steering[d.m].attempts < MaxOrphanAttempts
    PROVE  RowsMove
  <1>1. d \in DueCopy  BY DEF Shape, CoordinatorState
  <1>2. d.m \in Messages /\ d.attempts \in Nat  BY <1>1 DEF DueCopy
  <1>3. \A m \in Messages : steering[m] \in SteeringRow  BY DEF Shape
  <1>4. steering \in [Messages -> SteeringRow]  BY DEF Shape
  <1>5. CASE steering[d.m].status = "pending" /\ steering[d.m].revision = d.revision
    <2> DEFINE row == [steering[d.m] EXCEPT !.attempts = steering[d.m].attempts + 1]
               new == Rewrite(d.m, row)
    <2>1. steering[d.m].attempts = d.attempts
      BY <1>5 DEF CopiesKnown, DueKnown
    <2>2. steering[d.m] \in SteeringRow  BY <1>2, <1>3
    <2>3. /\ row \in SteeringRow /\ row.status = "pending"
          /\ row.turn = steering[d.m].turn /\ row.attempts = d.attempts + 1
      BY <2>1, <2>2, <1>5 DEF SteeringRow
    <2>4. steering' = [steering EXCEPT ![d.m] = new]
      BY <1>5 DEF Deferred
    <2> HIDE DEF row
    <2>5. new \in SteeringRow /\ new = [row EXCEPT !.revision = steering[d.m].revision + 1]
      BY <1>2, <2>3, Rewritten
    <2> HIDE DEF new
    <2>6. /\ new.status = "pending" /\ new.turn = steering[d.m].turn
          /\ new.attempts = d.attempts + 1 /\ new.revision = steering[d.m].revision + 1
      BY <2>3, <2>5 DEF SteeringRow
    <2>7. /\ new.revision > steering[d.m].revision
          /\ new.attempts <= MaxOrphanAttempts
      BY <2>1, <2>2, <2>6, <1>2 DEF SteeringRow
    <2>8. Revised(steering[d.m], new)
      BY <1>5, <2>6, <2>7 DEF Revised
    <2> QED  BY <1>2, <2>4, <2>5, <2>8, OneRowMoves DEF RowMove
  <1>6. CASE ~(steering[d.m].status = "pending" /\ steering[d.m].revision = d.revision)
    BY <1>6, NoRowMoves DEF Deferred
  <1> QED  BY <1>5, <1>6

\* Held, of a turn that has nothing unread.
LEMMA NothingHeld ==
    ASSUME Shape, NEW t \in Turns, RowsOf(t, Unread) = {}
    PROVE  Held(t) = steering
  <1>1. Held(t) = [m \in Messages |-> steering[m]]
    BY DEF Held, SetStatus
  <1> QED  BY <1>1 DEF Shape

\* What the lookup of a waiting turn leaves of the turns.
LEMMA StaleWakes ==
    ASSUME Shape, TurnsSettled
    PROVE  /\ StaleWakeDiscarded \in [Turns -> TurnRow]
           /\ \A t \in Turns :
                LET new == StaleWakeDiscarded[t] IN
                /\ new.row = turns[t].row /\ new.col = turns[t].col
                /\ new.outbox = turns[t].outbox
                /\ \/ new.outcome = turns[t].outcome
                   \/ turns[t].outcome = "waiting" /\ new.outcome = "discarded"
  <1> DEFINE new(t) == IF t \in Waiting THEN [turns[t] EXCEPT !.outcome = "discarded"]
                       ELSE turns[t]
  <1>1. ASSUME NEW t \in Turns
        PROVE  /\ new(t) \in TurnRow
               /\ new(t).row = turns[t].row /\ new(t).col = turns[t].col
               /\ new(t).outbox = turns[t].outbox
               /\ \/ new(t).outcome = turns[t].outcome
                  \/ turns[t].outcome = "waiting" /\ new(t).outcome = "discarded"
    <2>1. turns[t] \in TurnRow  BY DEF Shape
    <2> QED  BY <2>1 DEF TurnRow, Waiting
  <1>2. StaleWakeDiscarded = [t \in Turns |-> new(t)]
    BY DEF StaleWakeDiscarded
  <1> HIDE DEF new
  <1> QED  BY <1>1, <1>2

\* The rows after a request of a client.
LEMMA UserMovesRows ==
    ASSUME SteeringInv, UserStep
    PROVE  RowsMove
  <1> USE DEF SteeringInv
  <1>0. /\ steering \in [Messages -> SteeringRow]
        /\ \A m \in Messages : steering[m] \in SteeringRow
        /\ turns \in [Turns -> TurnRow]
    BY DEF Shape
  <1>1. ASSUME NEW m \in Messages, SendMessage(m)  PROVE RowsMove
    <2>1. CASE steering' = steering
      BY <2>1, NoRowMoves
    <2>2. CASE steering' # steering
      <3> DEFINE id == Cardinality({n \in Messages : steering[n].status # "none"}) + 1
      <3>1. EnqueueOrSteer(m, StaleWakeDiscarded)
        BY <1>1, <2>2 DEF SendMessage, ResumeSuspendedUserTurn
      <3>2. PICK t \in Turns :
              /\ steering[m].status = "none" /\ Active(t)
              /\ turns' = StaleWakeDiscarded
              /\ steering' = [steering EXCEPT ![m] =
                   [NoSteering EXCEPT !.status = "pending", !.turn = t, !.id = id,
                                      !.revision = 1]]
        BY <2>2, <3>1 DEF EnqueueOrSteer
      <3>9. turns'[t].row # "cancelled"
        <4>1. turns'[t].row = turns[t].row
          BY <3>2, StaleWakes
        <4>2. turns[t].col # "cancelled" /\ TurnSettled(turns[t], loops[t])
          BY <3>2 DEF Active, FreeThread, EndedTurn, TurnsSettled
        <4> QED  BY <4>1, <4>2 DEF TurnSettled
      <3>3. id \in Nat
        <4>1. IsFiniteSet({n \in Messages : steering[n].status # "none"})
          BY FS_Subset
        <4> QED  BY <4>1, FS_CardinalityType
      <3> HIDE DEF id
      <3> DEFINE a == [NoSteering EXCEPT !.status = "pending"]
                 b == [a EXCEPT !.turn = t]
                 c == [b EXCEPT !.id = id]
                 new == [c EXCEPT !.revision = 1]
      <3>4. a \in SteeringRow /\ a.status = "pending" /\ a.attempts = 0
        BY DEF SteeringRow, NoSteering, Statuses
      <3>5. steering' = [steering EXCEPT ![m] = new]
        BY <3>2
      <3> HIDE DEF a
      <3>6. b \in SteeringRow /\ b.status = "pending" /\ b.attempts = 0 /\ b.turn = t
        BY <3>4 DEF SteeringRow
      <3> HIDE DEF b
      <3>7. c \in SteeringRow /\ c.status = "pending" /\ c.attempts = 0 /\ c.turn = t
        BY <3>3, <3>6 DEF SteeringRow
      <3> HIDE DEF c
      <3>8. new \in SteeringRow /\ Posted(steering[m], new)
        BY <3>2, <3>7, <3>9 DEF SteeringRow, Posted
      <3> HIDE DEF new
      <3> QED  BY <3>5, <3>8, OneRowMoves DEF RowMove
    <2> QED  BY <2>1, <2>2
  <1>2. ASSUME NEW m \in Messages, EditSteering(m)  PROVE RowsMove
    <2> DEFINE row == [steering[m] EXCEPT !.text = steering[m].text + 1]
               new == Rewrite(m, row)
    <2>1. steering' = [steering EXCEPT ![m] = new] /\ steering[m].status \in {"pending", "held"}
      BY <1>2 DEF EditSteering
    <2>2. steering[m] \in SteeringRow  BY <1>0
    <2>3. /\ row \in SteeringRow /\ row.status = steering[m].status
          /\ row.turn = steering[m].turn /\ row.attempts = steering[m].attempts
      BY <2>2 DEF SteeringRow
    <2> HIDE DEF row
    <2>4. /\ new \in SteeringRow /\ new.status = row.status /\ new.turn = row.turn
          /\ row.status = "pending" => new = [row EXCEPT !.revision = steering[m].revision + 1]
          /\ row.status = "held" => new.attempts = 0
      BY <2>3, Rewritten
    <2> HIDE DEF new
    <2>5. CASE steering[m].status = "pending"
      <3>1. /\ new.revision = steering[m].revision + 1
            /\ new.attempts = steering[m].attempts
        BY <2>3, <2>4, <2>5 DEF SteeringRow
      <3>2. new.revision > steering[m].revision /\ new.attempts <= steering[m].attempts
        BY <2>2, <3>1 DEF SteeringRow
      <3>3. Revised(steering[m], new)
        BY <2>3, <2>4, <2>5, <3>2 DEF Revised
      <3> QED  BY <2>1, <2>4, <3>3, OneRowMoves DEF RowMove
    <2>6. CASE steering[m].status = "held"
      <3>1. Withdrawn(steering[m], new)
        BY <2>3, <2>4, <2>6 DEF Withdrawn
      <3> QED  BY <2>1, <2>4, <3>1, OneRowMoves DEF RowMove
    <2> QED  BY <2>1, <2>5, <2>6
  <1>3. ASSUME NEW m \in Messages, CancelSteering(m)  PROVE RowsMove
    <2>1. /\ steering' = SetStatus({m}, "cancelled")
          /\ steering[m].status \in {"pending", "held"}
      BY <1>3 DEF CancelSteering
    <2> DEFINE M == {m}
               new == SetStatus(M, "cancelled")
    <2>2. M \in SUBSET Messages /\ "cancelled" \in Statuses \ {"pending", "claimed"}
      BY DEF Statuses
    <2> HIDE DEF M
    <2>3. /\ new \in [Messages -> SteeringRow]
          /\ \A n \in Messages \ M : new[n] = steering[n]
          /\ \A n \in M : /\ new[n].status = "cancelled" /\ new[n].turn = steering[n].turn
                          /\ new[n].attempts = 0
      BY <2>2, StatusWritten
    <2> HIDE DEF new
    <2>4. steering' = new
      BY <2>1 DEF new, M
    <2> QED  BY <2>1, <2>3, <2>4 DEF RowsMove, RowMove, Withdrawn, M
  <1>4. ASSUME NEW m \in Messages, PromoteHeld(m)  PROVE RowsMove
    <2>1. steering' = SetStatus({m}, "promoted") /\ steering[m].status = "held"
      BY <1>4 DEF PromoteHeld
    <2> DEFINE M == {m}
               new == SetStatus(M, "promoted")
    <2>2. M \in SUBSET Messages /\ "promoted" \in Statuses \ {"pending", "claimed"}
      BY DEF Statuses
    <2> HIDE DEF M
    <2>3. /\ new \in [Messages -> SteeringRow]
          /\ \A n \in Messages \ M : new[n] = steering[n]
          /\ \A n \in M : /\ new[n].status = "promoted" /\ new[n].turn = steering[n].turn
                          /\ new[n].attempts = 0
      BY <2>2, StatusWritten
    <2> HIDE DEF new
    <2>4. steering' = new
      BY <2>1 DEF new, M
    <2> QED  BY <2>1, <2>3, <2>4 DEF RowsMove, RowMove, Withdrawn, M
  <1>5. ASSUME NEW t \in Turns, CancelTurn(t)  PROVE RowsMove
    <2>1. steering' = Held(t) /\ turns' = [turns EXCEPT ![t] = Cancelled(t)]
      BY <1>5 DEF CancelTurn
    <2>2. turns[t] \in TurnRow  BY <1>0
    <2>3. Cancelled(t).outcome \in Final
      <3>1. turns[t].outcome \in {"open", "waiting", "parked"} \cup Final
        BY <2>2 DEF TurnRow, Projected, EndedTurn, Final
      <3>2. Write(t, "cancelled").outcome = turns[t].outcome
        BY <2>2 DEF Write, TurnRow
      <3> QED  BY <3>1, <3>2, <2>2 DEF Cancelled, Write, TurnRow, Final, EndedTurn
    <2>4. turns'[t].outcome \in Final
      BY <1>0, <2>1, <2>3
    <2> QED  BY <2>1, <2>4, RowsHeld
  <1>6. ASSUME SetRuntimeModel  PROVE RowsMove
    BY <1>6, NoRowMoves DEF SetRuntimeModel
  <1>7. ASSUME NEW t \in Turns, CancelFails(t)  PROVE RowsMove
    <2>1. steering' = Held(t) /\ CutShort
      BY <1>7 DEF CancelFails, CancelCutShort, CutShort
    <2> QED  BY <2>1, RowsHeld
  <1> QED  BY <1>1, <1>2, <1>3, <1>4, <1>5, <1>6, <1>7 DEF UserStep

\* The rows after a step of a worker.  The tail names the turn by its stream
\* (broker_turn_stream_request_id), which no row does.
LEMMA LoopMovesRows ==
    ASSUME SteeringInv, NEW t \in Turns, LoopStep(t)
    PROVE  RowsMove
  <1> USE DEF SteeringInv
  <1>1. CASE steering' = steering
    BY <1>1, NoRowMoves
  <1>2. CASE AcknowledgeApplied(t) /\ steering' # steering
    <2>0. loops[t].control # None /\ loops'[t].control = None
      <3>1. loops[t].control # None  BY <1>2 DEF AcknowledgeApplied
      <3>2. loops \in [Turns -> LoopState]  BY DEF Shape
      <3> QED  BY <1>2, <3>1, <3>2 DEF AcknowledgeApplied
    <2>1. PICK m \in Messages : /\ steering' = SetStatus({m}, "applied")
                               /\ steering[m].status = "interpreted"
                               /\ steering[m].turn = t
      BY <1>2 DEF AcknowledgeApplied, Writable, RowsOf
    <2> DEFINE M == {m}
               new == SetStatus(M, "applied")
    <2>2. M \in SUBSET Messages /\ "applied" \in Statuses \ {"pending", "claimed"}
      BY <2>1 DEF Statuses
    <2>3. \A n \in M : steering[n].status = "interpreted" /\ steering[n].turn = t
      BY <2>1
    <2> HIDE DEF M
    <2>4. /\ new \in [Messages -> SteeringRow]
          /\ \A n \in Messages \ M : new[n] = steering[n]
          /\ \A n \in M : /\ new[n].status = "applied" /\ new[n].turn = steering[n].turn
                          /\ new[n].attempts = 0 /\ new[n].text = steering[n].text
                          /\ new[n].read = steering[n].read /\ new[n].run = steering[n].run
      BY <2>2, StatusWritten
    <2> HIDE DEF new
    <2>5. steering' = new  BY <2>1 DEF new, M
    <2> QED  BY <2>0, <2>3, <2>4, <2>5 DEF RowsMove, RowMove, Applied
  <1>3. CASE EndLoop(t)
    <2>1. PICK done \in {{}, loops[t].drained} :
            steering' = Closed(StreamRequestId(t),
                               SetStatus(done \cap RowsOf(t, {"applied"}), "completed"))
      BY <1>3 DEF EndLoop
    <2> DEFINE M == done \cap RowsOf(t, {"applied"})
               new == SetStatus(M, "completed")
    <2>2. M \in SUBSET Messages /\ "completed" \in Statuses \ {"pending", "claimed"}
      BY DEF Statuses, RowsOf
    <2>3. \A m \in M : steering[m].status = "applied"
      BY DEF RowsOf
    <2> HIDE DEF M
    <2>4. /\ new \in [Messages -> SteeringRow]
          /\ \A m \in Messages \ M : new[m] = steering[m]
          /\ \A m \in M : /\ new[m].status = "completed" /\ new[m].turn = steering[m].turn
                          /\ new[m].attempts = 0 /\ new[m].text = steering[m].text
                          /\ new[m].read = steering[m].read /\ new[m].run = steering[m].run
      BY <2>2, StatusWritten
    <2> HIDE DEF new
    <2>5. ASSUME NEW m \in Messages
          PROVE  ~(/\ new[m].turn = StreamRequestId(t)
                   /\ new[m].status \in Unread \cup {"held", "applied"})
      <3>1. CASE m \in M
        BY <3>1, <2>4 DEF Unread
      <3>2. CASE m \notin M /\ steering[m].status = "none"
        BY <3>2, <2>4 DEF Unread
      <3>3. CASE m \notin M /\ steering[m].status # "none"
        <4>1. new[m].turn \in Turns
          BY <3>3, <2>4 DEF RowsSettled, RowSettled
        <4>2. StreamRequestId(t) \notin Turns
          BY DEF StreamRequestId, Turns
        <4> QED  BY <4>1, <4>2
      <3> QED  BY <3>1, <3>2, <3>3
    <2>6. steering' = [m \in Messages |-> new[m]]
      BY <2>1, <2>5 DEF Closed, new, M
    <2>7. steering' = new
      BY <2>4, <2>6
    <2> QED  BY <2>3, <2>4, <2>7 DEF RowsMove, RowMove, Applied
  <1> QED
    BY <1>1, <1>2, <1>3 DEF LoopStep, AcquireTurn, CreateAgentRun, ReadControl, DeliverAnswer,
       ExitRounds, PassFence, GiveUpAtFence, CommitTurn, AbortLoop

\* A claim of the coordinator, for the run that runs now.
LEMMA ClaimMovesRows ==
    ASSUME SteeringInv, NEW d \in coordinator.due, NEW M \in SUBSET Messages,
           ClaimPending(d, M)
    PROVE  /\ RowsMove
           /\ \A m \in M : Claimed(steering[m], steering'[m])
  <1> USE DEF SteeringInv
  <1> DEFINE t == steering[d.m].turn
             run == LatestRunning(t)
             row(m) == [[steering[m] EXCEPT !.status = "claimed"] EXCEPT !.run = run]
  <1>1. d.m \in Messages
    BY DEF Shape, CoordinatorState, DueCopy
  <1>2. t \in Turns
    BY <1>1 DEF CopiesKnown, DueKnown, CopyKnown, RowsSettled, RowSettled
  <1>3. /\ RunningRuns(t) # {} /\ M \subseteq RowsOf(t, {"pending"})
        /\ steering' = [m \in Messages |-> IF m \in M THEN Rewrite(m, row(m)) ELSE steering[m]]
    BY DEF ClaimPending, LatestRunning
  <1>4. run \in DOMAIN runs[t] /\ run \in Nat
    BY <1>2, <1>3, LatestRunningChosen
  <1> HIDE DEF run
  <1>5. \A m \in Messages : steering[m] \in SteeringRow
    BY DEF Shape
  <1>6. \A m \in M : steering[m].status = "pending" /\ steering[m].turn = t
    BY <1>3 DEF RowsOf
  <1>7. ASSUME NEW m \in M
        PROVE  /\ Rewrite(m, row(m)) \in SteeringRow
               /\ Claimed(steering[m], Rewrite(m, row(m)))
    <2> DEFINE a == [steering[m] EXCEPT !.status = "claimed"]
               w == [a EXCEPT !.run = run]
    <2>1. steering[m] \in SteeringRow  BY <1>5
    <2>2. /\ a \in SteeringRow /\ a.status = "claimed" /\ a.turn = steering[m].turn
          /\ a.attempts = steering[m].attempts /\ a.text = steering[m].text
      BY <2>1 DEF SteeringRow, Statuses
    <2>3. w = row(m)  OBVIOUS
    <2> HIDE DEF a
    <2>4. /\ w \in SteeringRow /\ w.status = "claimed" /\ w.turn = steering[m].turn
          /\ w.attempts = steering[m].attempts /\ w.run = run /\ w.text = steering[m].text
      BY <1>4, <2>2 DEF SteeringRow
    <2> HIDE DEF w
    <2>5. /\ Rewrite(m, w) \in SteeringRow
          /\ Rewrite(m, w) = [w EXCEPT !.revision = steering[m].revision + 1]
      BY <2>4, Rewritten
    <2> DEFINE new == Rewrite(m, w)
    <2> HIDE DEF new
    <2>6. /\ new.status = "claimed" /\ new.turn = steering[m].turn
          /\ new.attempts = steering[m].attempts /\ new.run = run
          /\ new.revision = steering[m].revision + 1 /\ new.text = steering[m].text
      BY <2>4, <2>5 DEF SteeringRow, new
    <2>7. Claimed(steering[m], new)
      BY <1>4, <1>6, <2>6 DEF Claimed
    <2> QED  BY <2>3, <2>5, <2>7 DEF new
  <1> HIDE DEF row, t
  <1>8. \A m \in Messages :
          steering'[m] = IF m \in M THEN Rewrite(m, row(m)) ELSE steering[m]
    BY <1>3
  <1>9. steering' \in [Messages -> SteeringRow]
    BY <1>3, <1>5, <1>7
  <1>10. ASSUME NEW m \in Messages  PROVE RowMove(steering[m], steering'[m])
    BY <1>7, <1>8 DEF RowMove
  <1> QED  BY <1>7, <1>8, <1>9, <1>10 DEF RowsMove

\* The rows after a step of the coordinator.
LEMMA CoordinatorMovesRows ==
    ASSUME SteeringInv, CoordinatorStep
    PROVE  RowsMove
  <1> USE DEF SteeringInv
  <1>0. /\ steering \in [Messages -> SteeringRow]
        /\ \A m \in Messages : steering[m] \in SteeringRow
        /\ \A d \in coordinator.due : /\ d.m \in Messages /\ d.attempts \in Nat
                                      /\ steering[d.m].turn \in Turns
        /\ \A b \in coordinator.batch : b.m \in Messages
    <2>1. \A d \in coordinator.due : d.m \in Messages /\ d.attempts \in Nat
      BY DEF Shape, CoordinatorState, DueCopy
    <2>2. \A b \in coordinator.batch : b.m \in Messages
      BY DEF Shape, CoordinatorState, BatchCopy
    <2>3. \A d \in coordinator.due : steering[d.m].turn \in Turns
      BY <2>1 DEF CopiesKnown, DueKnown, CopyKnown, RowsSettled, RowSettled
    <2> QED  BY <2>1, <2>2, <2>3 DEF Shape
  <1>1. CASE ListDue
    BY <1>1, NoRowMoves DEF ListDue
  <1>2. CASE InterpretPendingTurn
    <2> DEFINE d == NextDue
    <2>1. d \in coordinator.due
      BY <1>2, NextDueChosen DEF InterpretPendingTurn
    <2>2. \/ \E M \in SUBSET Messages : ClaimPending(d, M)
          \/ NoRunningRun(d) \/ ResolveOrphan(d) \/ ProbeModel(d) \/ WaitInTransit(d)
      BY <1>2 DEF InterpretPendingTurn
    <2> HIDE DEF d
    <2>3. ASSUME NEW M \in SUBSET Messages, ClaimPending(d, M)  PROVE RowsMove
      BY <2>1, <2>3, ClaimMovesRows
    <2>4. CASE ResolveOrphan(d)
      <3> DEFINE t == steering[d.m].turn
      <3>1. /\ t \in Turns
            /\ turns[t].row \in EndedTurn /\ turns' = turns
            /\ steering' = IF d.attempts + 1 >= MaxOrphanAttempts THEN Held(t) ELSE Deferred(d)
        BY <1>0, <2>1, <2>4 DEF ResolveOrphan
      <3>2. turns'[t].outcome \in Final \/ Unsettled(turns[t])
        BY <3>1 DEF TurnsSettled, TurnSettled, Unsettled
      <3>3. CASE d.attempts + 1 >= MaxOrphanAttempts
        <4>1. steering' = Held(t)
          BY <3>1, <3>3
        <4> HIDE DEF t
        <4>2. CASE Unsettled(turns[t])
          BY <3>1, <4>1, <4>2, NothingHeld, NoRowMoves DEF CancelledHeld
        <4> QED  BY <3>1, <3>2, <4>1, <4>2, RowsHeld
      <3>4. CASE ~(d.attempts + 1 >= MaxOrphanAttempts)
        <4>1. d.attempts < MaxOrphanAttempts /\ steering' = Deferred(d)
          BY <1>0, <2>1, <3>1, <3>4
        <4> QED  BY <2>1, <4>1, RowsDeferred
      <3> QED  BY <3>3, <3>4
    <2>5. CASE steering' = steering
      BY <2>5, NoRowMoves
    <2> QED
      BY <2>2, <2>3, <2>4, <2>5 DEF NoRunningRun, ProbeModel, WaitInTransit
  <1>3. CASE PersistInterpretation
    <2> DEFINE b == NextAnswer
               row == steering[b.m]
               answered == [[row EXCEPT !.status = "interpreted"] EXCEPT !.read = b.text]
               released == [[[row EXCEPT !.status = "pending"] EXCEPT !.run = 0]
                              EXCEPT !.attempts = row.attempts + 1]
    <2>1. b \in coordinator.batch
      BY <1>3, NextAnswerChosen DEF PersistInterpretation
    <2>2. \/ steering' = steering
          \/ /\ Interpretable(b)
             /\ steering' = [steering EXCEPT ![b.m] = Rewrite(b.m, answered)]
          \/ /\ Interpretable(b)
             /\ Spend("incidents")
             /\ steering' = [steering EXCEPT ![b.m] = Rewrite(b.m, released)]
      BY <1>3 DEF PersistInterpretation, NextAnswer
    <2> HIDE DEF b
    <2>3. b.m \in Messages /\ row \in SteeringRow /\ b \in BatchCopy
      BY <1>0, <2>1 DEF Shape, CoordinatorState
    <2>4. Interpretable(b) => row.status = "claimed" /\ row.text = b.text
      BY <2>1 DEF Interpretable, CopiesKnown, AnswerKnown
    <2> HIDE DEF row
    <2>5. ASSUME Interpretable(b),
                 steering' = [steering EXCEPT ![b.m] = Rewrite(b.m, answered)]
          PROVE  RowsMove
      <3> DEFINE a == [row EXCEPT !.status = "interpreted"]
                 w == [a EXCEPT !.read = b.text]
                 new == Rewrite(b.m, w)
      <3>1. /\ a \in SteeringRow /\ a.status = "interpreted" /\ a.turn = row.turn
            /\ a.run = row.run /\ a.text = row.text
        BY <2>3 DEF SteeringRow, Statuses
      <3>2. answered = w  OBVIOUS
      <3> HIDE DEF a
      <3>3. /\ w \in SteeringRow /\ w.status = "interpreted" /\ w.turn = row.turn
            /\ w.run = row.run /\ w.text = row.text /\ w.read = b.text
        BY <2>3, <3>1 DEF SteeringRow, BatchCopy
      <3> HIDE DEF w, answered
      <3>4. /\ new \in SteeringRow /\ new.status = "interpreted" /\ new.turn = row.turn
            /\ new.run = row.run /\ new.text = row.text /\ new.read = b.text
            /\ new.attempts = 0
        BY <2>3, <3>3, Rewritten
      <3>5. steering' = [steering EXCEPT ![b.m] = new]
        BY <2>5, <3>2
      <3> HIDE DEF new
      <3>6. Interpreted(row, new)
        BY <2>4, <2>5, <3>4 DEF Interpreted
      <3> QED  BY <2>3, <3>4, <3>5, <3>6, OneRowMoves DEF RowMove, row
    <2>6. ASSUME Interpretable(b), Spend("incidents"),
                 steering' = [steering EXCEPT ![b.m] = Rewrite(b.m, released)]
          PROVE  RowsMove
      <3> DEFINE a == [row EXCEPT !.status = "pending"]
                 c == [a EXCEPT !.run = 0]
                 w == [c EXCEPT !.attempts = row.attempts + 1]
                 new == Rewrite(b.m, w)
      <3>1. /\ a \in SteeringRow /\ a.status = "pending" /\ a.turn = row.turn
        BY <2>3 DEF SteeringRow, Statuses
      <3>2. released = w  OBVIOUS
      <3> HIDE DEF a
      <3>3. c \in SteeringRow /\ c.status = "pending" /\ c.turn = row.turn
        BY <3>1 DEF SteeringRow
      <3> HIDE DEF c
      <3>4. /\ w \in SteeringRow /\ w.status = "pending" /\ w.turn = row.turn
            /\ w.attempts = row.attempts + 1
        BY <2>3, <3>3 DEF SteeringRow
      <3> HIDE DEF w, released
      <3>5. new \in SteeringRow /\ new = [w EXCEPT !.revision = steering[b.m].revision + 1]
        BY <2>3, <3>4, Rewritten
      <3>6. steering' = [steering EXCEPT ![b.m] = new]
        BY <2>6, <3>2
      <3> HIDE DEF new
      <3>7. /\ new.status = "pending" /\ new.turn = row.turn
            /\ new.attempts = row.attempts + 1 /\ new.revision = row.revision + 1
        BY <3>4, <3>5 DEF SteeringRow, row
      <3>8. new.revision > row.revision
        BY <2>3, <3>7 DEF SteeringRow
      <3>9. budget'.incidents = budget.incidents - 1
        BY <2>6 DEF Spend, Shape
      <3>10. Released(row, new)
        BY <2>4, <2>6, <3>7, <3>8, <3>9 DEF Released
      <3> QED  BY <2>3, <3>5, <3>6, <3>10, OneRowMoves DEF RowMove, row
    <2> QED  BY <2>2, <2>5, <2>6, NoRowMoves
  <1>4. CASE ProbeAnswers
    <2> DEFINE t == coordinator.turn
               M == RowsOf(t, {"pending"})
    <2>1. NextDue \in coordinator.due /\ t \in Turns
      BY <1>4, NextDueChosen DEF ProbeAnswers, CopiesKnown
    <2>2. CASE steering' = Deferred(NextDue) /\ steering[NextDue.m].attempts < MaxOrphanAttempts
      BY <2>1, <2>2, RowsDeferred
    <2>3. CASE Unpark(t) /\ steering' # steering
      <3> DEFINE row(m) == [steering[m] EXCEPT !.attempts = 0]
      <3>1. steering' = [m \in Messages |-> IF m \in M THEN Rewrite(m, row(m)) ELSE steering[m]]
        BY <2>3 DEF Unpark
      <3>2. M \subseteq Messages /\ \A m \in M : steering[m].status = "pending"
        BY DEF RowsOf
      <3>3. ASSUME NEW m \in M
            PROVE  /\ Rewrite(m, row(m)) \in SteeringRow
                   /\ Revised(steering[m], Rewrite(m, row(m)))
        <4> DEFINE w == row(m)
                   new == Rewrite(m, w)
        <4>1. m \in Messages /\ steering[m] \in SteeringRow  BY <1>0, <3>2
        <4>2. /\ w \in SteeringRow /\ w.status = "pending" /\ w.turn = steering[m].turn
              /\ w.attempts = 0
          BY <3>2, <4>1 DEF SteeringRow
        <4> HIDE DEF w
        <4>3. new \in SteeringRow /\ new = [w EXCEPT !.revision = steering[m].revision + 1]
          BY <4>1, <4>2, Rewritten
        <4> HIDE DEF new
        <4>4. /\ new.status = "pending" /\ new.turn = steering[m].turn
              /\ new.attempts = 0 /\ new.revision = steering[m].revision + 1
          BY <4>2, <4>3 DEF SteeringRow
        <4>5. new.revision > steering[m].revision
          BY <4>1, <4>4 DEF SteeringRow
        <4>6. Revised(steering[m], new)
          BY <3>2, <4>4, <4>5 DEF Revised
        <4> QED  BY <4>3, <4>6 DEF new, w
      <3> HIDE DEF row, M
      <3>4. steering' \in [Messages -> SteeringRow]
        BY <1>0, <3>1, <3>3
      <3>5. ASSUME NEW m \in Messages  PROVE RowMove(steering[m], steering'[m])
        BY <3>1, <3>3 DEF RowMove
      <3> QED  BY <3>4, <3>5 DEF RowsMove
    <2> QED  BY <1>4, <2>2, <2>3, NoRowMoves DEF ProbeAnswers
  <1> QED  BY <1>1, <1>2, <1>3, <1>4 DEF CoordinatorStep

\* Every step moves every row as RowMove says, and leaves the rest alone.
LEMMA StepMovesRows ==
    ASSUME SteeringInv, SteeringNext
    PROVE  RowsMove
  <1> USE DEF SteeringInv
  <1>1. CASE UserStep  BY <1>1, UserMovesRows
  <1>2. CASE CoordinatorStep  BY <1>2, CoordinatorMovesRows
  <1>3. ASSUME NEW t \in Turns, LoopStep(t)  PROVE RowsMove
    BY <1>3, LoopMovesRows
  <1>4. CASE steering' = steering  BY <1>4, NoRowMoves
  <1>5. ASSUME NEW t \in Turns, CrashInCancel(t)  PROVE RowsMove
    <2>1. steering' = Held(t) /\ CutShort
      BY <1>5 DEF CrashInCancel, CancelCutShort, CutShort
    <2> QED  BY <2>1, RowsHeld
  <1> QED
    BY <1>1, <1>2, <1>3, <1>4, <1>5
    DEF SteeringNext, RecoverStaleLease, Heartbeat, ProjectTurn, CrashGateway, BootGateway

-------------------------------------------------------------------------------
(* Turns and loops *)

TurnsFine ==
    /\ turns \in [Turns -> TurnRow] /\ loops \in [Turns -> LoopState]
    /\ TurnsSettled

\* What other turns can rely on: a cancelled execution stays so, a control that
\* was read is acknowledged by the loop that read it, and no turn is left with its
\* row cancelled alone.
TurnMove(turn, loop, turn2, loop2) ==
    /\ turn.outcome = "cancelled" => turn2.outcome = "cancelled"
    /\ loop2.control = loop.control
    /\ Unsettled(turn2) => Unsettled(turn)
TurnsMove == \A t \in Turns : TurnMove(turns[t], loops[t], turns'[t], loops'[t])

\* A step of one turn and its loop.
LEMMA OneTurnMoves ==
    ASSUME Shape, TurnsSettled, NEW t \in Turns,
           NEW turn \in TurnRow, NEW loop \in LoopState, TurnSettled(turn, loop),
           turns' = [turns EXCEPT ![t] = turn], loops' = [loops EXCEPT ![t] = loop]
    PROVE  TurnsFine' /\ (TurnMove(turns[t], loops[t], turn, loop) => TurnsMove)
  <1>1. turns \in [Turns -> TurnRow] /\ loops \in [Turns -> LoopState]
    BY DEF Shape
  <1>2. turns' \in [Turns -> TurnRow] /\ loops' \in [Turns -> LoopState]
    BY <1>1
  <1>3. turns'[t] = turn /\ loops'[t] = loop
    BY <1>1
  <1>4. \A u \in Turns \ {t} : turns'[u] = turns[u] /\ loops'[u] = loops[u]
    BY <1>1
  <1>5. TurnsSettled'
    BY <1>3, <1>4 DEF TurnsSettled
  <1>6. TurnMove(turns[t], loops[t], turn, loop) => TurnsMove
    BY <1>3, <1>4 DEF TurnsMove, TurnMove
  <1> QED  BY <1>2, <1>5, <1>6 DEF TurnsFine

\* insert_task writes the record and the column together.
LEMMA Written ==
    ASSUME NEW t \in Turns, turns[t] \in TurnRow, NEW status \in RowStates
    PROVE  /\ Write(t, status) \in TurnRow
           /\ Write(t, status).row = status /\ Write(t, status).col = status
           /\ Write(t, status).outcome = turns[t].outcome
           /\ Write(t, status).outbox = turns[t].outbox
  <1> DEFINE a == [turns[t] EXCEPT !.row = status]
  <1>1. /\ a \in TurnRow /\ a.row = status
        /\ a.outcome = turns[t].outcome /\ a.outbox = turns[t].outbox
    BY DEF TurnRow
  <1>2. Write(t, status) = [a EXCEPT !.col = status]
    BY DEF Write
  <1> HIDE DEF a
  <1> QED  BY <1>1, <1>2 DEF TurnRow

\* An entry of the outbox that ends the turn is there only with its outcome.
LEMMA Outboxed ==
    ASSUME NEW s \in Seq(Projected), NEW e \in Projected
    PROVE  /\ Append(s, e) \in Seq(Projected)
           /\ \A i \in DOMAIN Append(s, e) :
                \/ Append(s, e)[i] = e
                \/ i \in DOMAIN s /\ Append(s, e)[i] = s[i]
  <1> DEFINE a == Append(s, e)
             n == Len(s)
  <1>1. /\ a \in Seq(Projected) /\ Len(a) = n + 1
        /\ \A i \in 1 .. n : a[i] = s[i]
        /\ a[n + 1] = e
    BY AppendProperties
  <1>2. n \in Nat /\ DOMAIN s = 1 .. n
    BY LenProperties
  <1> HIDE DEF a, n
  <1>3. DOMAIN a = 1 .. n + 1
    BY <1>1, LenProperties
  <1>4. ASSUME NEW i \in DOMAIN a  PROVE a[i] = e \/ (i \in DOMAIN s /\ a[i] = s[i])
    <2>1. i \in 1 .. n \/ i = n + 1
      BY <1>2, <1>3
    <2>2. CASE i \in 1 .. n
      <3>1. a[i] = s[i]  BY <1>1, <2>2
      <3>2. i \in DOMAIN s  BY <1>2, <2>2
      <3> QED  BY <3>1, <3>2
    <2>3. CASE i = n + 1
      <3>1. a[i] = a[n + 1]  BY <2>3
      <3>2. a[n + 1] = e  BY <1>1
      <3> QED  BY <3>1, <3>2
    <2> QED  BY <2>1, <2>2, <2>3
  <1> QED  BY <1>1, <1>4 DEF a

\* A turn is written with another status of its record, and the loop stays.
LEMMA StatusMoves ==
    ASSUME Shape, TurnsSettled, NEW t \in Turns, NEW status \in RowStates,
           status \in EndedTurn => turns[t].outcome \in Final \/ turns[t].row = status,
           turns' = [turns EXCEPT ![t] = Write(t, status)], loops' = loops
    PROVE  TurnsFine' /\ TurnsMove
  <1>1. turns[t] \in TurnRow /\ loops[t] \in LoopState /\ loops \in [Turns -> LoopState]
    BY DEF Shape
  <1> DEFINE new == Write(t, status)
  <1>2. /\ new \in TurnRow /\ new.row = status /\ new.col = status
        /\ new.outcome = turns[t].outcome /\ new.outbox = turns[t].outbox
    BY <1>1, Written
  <1>3. turns' = [turns EXCEPT ![t] = new] /\ loops' = [loops EXCEPT ![t] = loops[t]]
    BY <1>1
  <1> HIDE DEF new
  <1>4. TurnSettled(turns[t], loops[t])
    BY DEF TurnsSettled
  <1>5. TurnSettled(new, loops[t])
    BY <1>2, <1>4 DEF TurnSettled
  <1>6. TurnMove(turns[t], loops[t], new, loops[t])
    BY <1>2 DEF TurnMove, Unsettled, EndedTurn
  <1> QED  BY <1>1, <1>2, <1>3, <1>5, <1>6, OneTurnMoves

\* The loop moves and the turn's row stays.
LEMMA LoopMoves ==
    ASSUME Shape, TurnsSettled, NEW t \in Turns, NEW loop \in LoopState,
           TurnSettled(turns[t], loop),
           turns' = turns, loops' = [loops EXCEPT ![t] = loop]
    PROVE  TurnsFine' /\ (loop.control = loops[t].control => TurnsMove)
  <1>1. turns \in [Turns -> TurnRow] /\ turns[t] \in TurnRow
    BY DEF Shape
  <1>2. turns' = [turns EXCEPT ![t] = turns[t]]
    BY <1>1
  <1>3. loop.control = loops[t].control => TurnMove(turns[t], loops[t], turns[t], loop)
    BY DEF TurnMove
  <1> QED  BY <1>1, <1>2, <1>3, OneTurnMoves

\* Steps that leave the turns and their loops alone.
LEMMA NoTurnMoves ==
    ASSUME Shape, TurnsSettled, turns' = turns, loops' = loops
    PROVE  TurnsFine' /\ TurnsMove
  BY DEF Shape, TurnsFine, TurnsSettled, TurnsMove, TurnMove

\* A suspended turn gets another attempt: its outbox holds no end of it.
LEMMA Reopened ==
    ASSUME Shape, TurnsSettled, NEW t \in Turns, turns[t].outcome \in {"waiting", "parked"}
    PROVE  LET new == [Write(t, "queued") EXCEPT !.outcome = "open"] IN
           /\ new \in TurnRow
           /\ TurnSettled(new, loops[t])
           /\ TurnMove(turns[t], loops[t], new, loops[t])
  <1> DEFINE w == Write(t, "queued")
             new == [w EXCEPT !.outcome = "open"]
  <1>1. turns[t] \in TurnRow /\ loops[t] \in LoopState /\ TurnSettled(turns[t], loops[t])
    BY DEF Shape, TurnsSettled
  <1>2. /\ w \in TurnRow /\ w.row = "queued" /\ w.col = "queued"
        /\ w.outcome = turns[t].outcome /\ w.outbox = turns[t].outbox
    BY <1>1, Written DEF RowStates
  <1> HIDE DEF w
  <1>3. /\ new \in TurnRow /\ new.row = "queued" /\ new.col = "queued"
        /\ new.outcome = "open" /\ new.outbox = turns[t].outbox
    BY <1>2 DEF TurnRow
  <1> HIDE DEF new
  <1>4. turns[t].outcome \notin Final \cup {"open", "cancelled"}
    BY DEF Final, EndedTurn
  <1>5. TurnSettled(new, loops[t])
    BY <1>1, <1>3, <1>4 DEF TurnSettled, EndedTurn
  <1>6. TurnMove(turns[t], loops[t], new, loops[t])
    BY <1>3, <1>4 DEF TurnMove, Unsettled
  <1> QED  BY <1>3, <1>5, <1>6 DEF new, w

\* cancel_chat_turn, whatever the execution's outcome was.
LEMMA CancelledSettled ==
    ASSUME Shape, TurnsSettled, NEW t \in Turns
    PROVE  /\ Cancelled(t) \in TurnRow
           /\ TurnSettled(Cancelled(t), loops[t])
           /\ TurnMove(turns[t], loops[t], Cancelled(t), loops[t])
  <1> DEFINE w == Write(t, "cancelled")
             c == Cancelled(t)
             ob == Append(turns[t].outbox, "cancelled")
  <1>1. turns[t] \in TurnRow /\ loops[t] \in LoopState /\ TurnSettled(turns[t], loops[t])
    BY DEF Shape, TurnsSettled
  <1>2. /\ w \in TurnRow /\ w.row = "cancelled" /\ w.col = "cancelled"
        /\ w.outcome = turns[t].outcome /\ w.outbox = turns[t].outbox
    BY <1>1, Written DEF RowStates, Projected, EndedTurn
  <1>3. turns[t].outbox \in Seq(Projected) /\ "cancelled" \in Projected
    BY <1>1 DEF TurnRow, Projected, EndedTurn
  <1>4. ob \in Seq(Projected)
    BY <1>3, Outboxed
  <1> HIDE DEF ob
  <1>5. turns[t].outcome \in {"open", "waiting", "parked"} \cup Final
    BY <1>1 DEF TurnRow, Projected, EndedTurn, Final
  <1>6. CASE turns[t].outcome = "open"
    <2> DEFINE a == [w EXCEPT !.outcome = "cancelled"]
    <2>1. c = [a EXCEPT !.outbox = ob]
      BY <1>6 DEF Cancelled, ob
    <2> HIDE DEF w
    <2>2. /\ a \in TurnRow /\ a.row = "cancelled" /\ a.col = "cancelled"
          /\ a.outcome = "cancelled"
      BY <1>2 DEF TurnRow, Projected, EndedTurn
    <2> HIDE DEF a, c
    <2>3. /\ c \in TurnRow /\ c.row = "cancelled" /\ c.col = "cancelled"
          /\ c.outcome = "cancelled"
      BY <1>4, <2>1, <2>2 DEF TurnRow
    <2>4. TurnSettled(c, loops[t]) /\ TurnMove(turns[t], loops[t], c, loops[t])
      BY <1>1, <2>3 DEF TurnSettled, TurnMove, Unsettled, Final, EndedTurn
    <2> QED  BY <2>3, <2>4 DEF c
  <1>7. CASE turns[t].outcome \in {"waiting", "parked"}
    <2>1. turns[t].outcome # "open"  BY <1>7
    <2>2. c = [w EXCEPT !.outcome = "discarded"]
      BY <1>7, <2>1 DEF Cancelled
    <2> HIDE DEF w, c
    <2>3. /\ c \in TurnRow /\ c.row = "cancelled" /\ c.col = "cancelled"
          /\ c.outcome = "discarded"
      BY <1>2, <2>2 DEF TurnRow
    <2>4. turns[t].outcome \notin {"open", "cancelled"}
      BY <1>7
    <2>5. TurnSettled(c, loops[t]) /\ TurnMove(turns[t], loops[t], c, loops[t])
      BY <1>1, <2>3, <2>4 DEF TurnSettled, TurnMove, Unsettled, Final, EndedTurn
    <2> QED  BY <2>3, <2>5 DEF c
  <1>8. CASE turns[t].outcome \in Final
    <2>1. turns[t].outcome \notin {"open", "waiting", "parked"}
      BY <1>8 DEF Final, EndedTurn
    <2>2. c = w
      BY <2>1 DEF Cancelled
    <2> HIDE DEF w, c
    <2>3. TurnSettled(c, loops[t]) /\ TurnMove(turns[t], loops[t], c, loops[t])
      BY <1>1, <1>2, <1>8, <2>2 DEF TurnSettled, TurnMove, Unsettled
    <2> QED  BY <1>2, <2>2, <2>3 DEF c
  <1> QED  BY <1>5, <1>6, <1>7, <1>8

\* A cancellation that was cut short leaves the turns as they may be, whether the
\* workers go on or die with the process.
LEMMA CutShortSettled ==
    ASSUME SteeringInv, NEW t \in Turns, CancelCutShort(t),
           loops' \in [Turns -> LoopState],
           \A u \in Turns : loops'[u] \in {loops[u], IdleLoop}
    PROVE  /\ TurnsFine'
           /\ \A u \in Turns : turns'[u].outcome = turns[u].outcome
           /\ \A u \in Turns \ {t} : turns'[u] = turns[u]
  <1> USE DEF SteeringInv
  <1> DEFINE new == Write(t, "cancelled")
  <1>1. /\ turns \in [Turns -> TurnRow]
        /\ \A u \in Turns : turns[u] \in TurnRow /\ TurnSettled(turns[u], loops[u])
    BY DEF Shape, TurnsSettled
  <1>2. /\ new \in TurnRow /\ new.row = "cancelled" /\ new.col = "cancelled"
        /\ new.outcome = turns[t].outcome /\ new.outbox = turns[t].outbox
    BY <1>1, Written DEF RowStates, Projected, EndedTurn
  <1>3. turns' = turns \/ turns' = [turns EXCEPT ![t] = new]
    BY DEF CancelCutShort
  <1> HIDE DEF new
  <1>4. IdleLoop.control = None /\ IdleLoop.pc = "idle"
    BY DEF IdleLoop
  <1>5. \A u \in Turns : turns'[u] = turns[u] \/ (u = t /\ turns'[u] = new)
    BY <1>1, <1>3
  <1>6. ASSUME NEW u \in Turns  PROVE TurnSettled(turns'[u], loops'[u])
    <2>1. TurnSettled(turns'[u], loops[u])
      BY <1>1, <1>2, <1>5 DEF TurnSettled
    <2> QED  BY <1>4, <2>1 DEF TurnSettled
  <1>7. turns' \in [Turns -> TurnRow]
    BY <1>1, <1>2, <1>3
  <1> QED  BY <1>2, <1>5, <1>6, <1>7 DEF TurnsFine, TurnsSettled

\* The turns after a request of a client.
LEMMA UserMovesTurns ==
    ASSUME SteeringInv, UserStep
    PROVE  TurnsFine' /\ (TurnsMove \/ CutShort)
  <1> USE DEF SteeringInv
  <1>0. /\ turns \in [Turns -> TurnRow] /\ loops \in [Turns -> LoopState]
        /\ \A t \in Turns : turns[t] \in TurnRow /\ loops[t] \in LoopState
        /\ \A t \in Turns : loops = [loops EXCEPT ![t] = loops[t]]
    BY DEF Shape
  <1>1. ASSUME NEW m \in Messages, SendMessage(m)  PROVE TurnsFine' /\ TurnsMove
    <2>1. loops' = loops
      BY <1>1 DEF SendMessage
    <2>2. ASSUME NEW t \in Turns, ResumeSuspendedUserTurn(t)  PROVE TurnsFine' /\ TurnsMove
      <3> DEFINE new == [Write(t, "queued") EXCEPT !.outcome = "open"]
      <3>1. turns' = [turns EXCEPT ![t] = new] /\ turns[t].outcome = "waiting"
        BY <2>2 DEF ResumeSuspendedUserTurn, Waiting
      <3>2. /\ new \in TurnRow /\ TurnSettled(new, loops[t])
            /\ TurnMove(turns[t], loops[t], new, loops[t])
        BY <3>1, Reopened
      <3> HIDE DEF new
      <3> QED  BY <1>0, <2>1, <3>1, <3>2, OneTurnMoves
    <2>3. CASE EnqueueOrSteer(m, StaleWakeDiscarded)
      <3> DEFINE t == <<"turn", m>>
                 kept == StaleWakeDiscarded
                 new == Write(t, "queued")
      <3>1. t \in Turns  BY DEF Turns
      <3>2. turns' = kept \/ turns' = [kept EXCEPT ![t] = new]
        BY <2>3 DEF EnqueueOrSteer
      <3>3. /\ kept \in [Turns -> TurnRow]
            /\ \A u \in Turns :
                 /\ kept[u].row = turns[u].row /\ kept[u].col = turns[u].col
                 /\ kept[u].outbox = turns[u].outbox
                 /\ \/ kept[u].outcome = turns[u].outcome
                    \/ turns[u].outcome = "waiting" /\ kept[u].outcome = "discarded"
        BY StaleWakes
      <3> HIDE DEF t, kept
      <3>4. /\ new \in TurnRow /\ new.row = "queued" /\ new.col = "queued"
            /\ new.outcome = turns[t].outcome /\ new.outbox = turns[t].outbox
        BY <1>0, <3>1, Written DEF RowStates
      <3> HIDE DEF new
      <3>5. \A u \in Turns : turns'[u] = kept[u] \/ (u = t /\ turns'[u] = new)
        BY <3>2, <3>3
      <3>6. turns' \in [Turns -> TurnRow]
        BY <3>2, <3>3, <3>4
      <3>7. ASSUME NEW u \in Turns
            PROVE  /\ TurnSettled(turns'[u], loops[u])
                   /\ TurnMove(turns[u], loops[u], turns'[u], loops[u])
        <4>1. TurnSettled(turns[u], loops[u])
          BY DEF TurnsSettled
        <4>2. CASE turns'[u] = kept[u]
          <5> DEFINE k == kept[u]
          <5>1. /\ k.row = turns[u].row /\ k.col = turns[u].col
                /\ k.outbox = turns[u].outbox
                /\ \/ k.outcome = turns[u].outcome
                   \/ turns[u].outcome = "waiting" /\ k.outcome = "discarded"
            BY <3>3
          <5> HIDE DEF k
          <5>2. TurnSettled(k, loops[u])
            BY <4>1, <5>1 DEF TurnSettled, Final, EndedTurn
          <5>3. TurnMove(turns[u], loops[u], k, loops[u])
            BY <5>1 DEF TurnMove, Unsettled, Final, EndedTurn
          <5> QED  BY <4>2, <5>2, <5>3 DEF k
        <4>3. CASE u = t /\ turns'[u] = new
          <5>1. TurnSettled(new, loops[t])
            BY <3>4, <4>1, <4>3 DEF TurnSettled, EndedTurn
          <5>2. TurnMove(turns[t], loops[t], new, loops[t])
            BY <3>4 DEF TurnMove, Unsettled
          <5> QED  BY <4>3, <5>1, <5>2
        <4> QED  BY <3>5, <4>2, <4>3
      <3> QED  BY <1>0, <2>1, <3>6, <3>7 DEF TurnsFine, TurnsSettled, TurnsMove
    <2> QED  BY <1>1, <2>2, <2>3 DEF SendMessage
  <1>2. ASSUME NEW m \in Messages, EditSteering(m) \/ CancelSteering(m)
        PROVE  TurnsFine' /\ TurnsMove
    BY <1>2, NoTurnMoves DEF EditSteering, CancelSteering
  <1>3. ASSUME NEW m \in Messages, PromoteHeld(m)  PROVE TurnsFine' /\ TurnsMove
    <2> DEFINE t == <<"steering", m>>
    <2>1. t \in Turns  BY DEF Turns
    <2>2. turns' = [turns EXCEPT ![t] = Write(t, "queued")] /\ loops' = loops
      BY <1>3 DEF PromoteHeld
    <2> HIDE DEF t
    <2>3. "queued" \in RowStates /\ "queued" \notin EndedTurn
      BY DEF RowStates, EndedTurn
    <2> QED  BY <2>1, <2>2, <2>3, StatusMoves
  <1>4. ASSUME NEW t \in Turns, CancelTurn(t)  PROVE TurnsFine' /\ TurnsMove
    <2> DEFINE new == Cancelled(t)
    <2>1. turns' = [turns EXCEPT ![t] = new] /\ loops' = loops
      BY <1>4 DEF CancelTurn
    <2>2. /\ new \in TurnRow /\ TurnSettled(new, loops[t])
          /\ TurnMove(turns[t], loops[t], new, loops[t])
      BY CancelledSettled
    <2> HIDE DEF new
    <2> QED  BY <1>0, <2>1, <2>2, OneTurnMoves
  <1>5. CASE SetRuntimeModel
    <2> DEFINE new(t) == [Write(t, "queued") EXCEPT !.outcome = "open"]
    <2>1. /\ turns' = [t \in Turns |-> IF turns[t].outcome = "parked" THEN new(t) ELSE turns[t]]
          /\ loops' = loops
      BY <1>5 DEF SetRuntimeModel
    <2>2. ASSUME NEW t \in Turns, turns[t].outcome = "parked"
          PROVE  /\ new(t) \in TurnRow /\ TurnSettled(new(t), loops[t])
                 /\ TurnMove(turns[t], loops[t], new(t), loops[t])
      BY <2>2, Reopened
    <2> HIDE DEF new
    <2>3. turns' \in [Turns -> TurnRow]
      BY <1>0, <2>1, <2>2
    <2>4. \A t \in Turns : turns'[t] = IF turns[t].outcome = "parked" THEN new(t) ELSE turns[t]
      BY <2>1
    <2>5. TurnsSettled'
      BY <2>1, <2>2, <2>4 DEF TurnsSettled
    <2>6. TurnsMove
      BY <2>1, <2>2, <2>4 DEF TurnsMove, TurnMove
    <2> QED  BY <1>0, <2>1, <2>3, <2>5, <2>6 DEF TurnsFine
  <1>6. ASSUME NEW t \in Turns, CancelFails(t)  PROVE TurnsFine' /\ CutShort
    <2>1. CancelCutShort(t) /\ loops' = loops
      BY <1>6 DEF CancelFails
    <2> QED  BY <1>0, <1>6, <2>1, CutShortSettled DEF CutShort
  <1> QED  BY <1>1, <1>2, <1>3, <1>4, <1>5, <1>6 DEF UserStep

\* The two columns a loop's last steps set.
LEMMA LeftLoop ==
    ASSUME Shape, NEW t \in Turns, NEW result \in Projected, Leave(t, result)
    PROVE  \E loop \in LoopState :
             /\ loops' = [loops EXCEPT ![t] = loop]
             /\ loop.pc = "tail" /\ loop.result = result
             /\ loop.control = loops[t].control
  <1> DEFINE a == [loops[t] EXCEPT !.pc = "tail"]
             l == [loops EXCEPT ![t] = a]
             loop == [a EXCEPT !.result = result]
  <1>1. loops \in [Turns -> LoopState] /\ loops[t] \in LoopState
    BY DEF Shape
  <1>2. a \in LoopState /\ a.pc = "tail" /\ a.control = loops[t].control
    BY <1>1 DEF LoopState
  <1>3. loops' = [l EXCEPT ![t].result = result]
    BY DEF Leave
  <1> HIDE DEF a
  <1>4. l \in [Turns -> LoopState] /\ l[t] = a
    BY <1>1, <1>2
  <1>5. loops' = [l EXCEPT ![t] = loop]
    BY <1>3, <1>4
  <1>6. /\ loop \in LoopState /\ loop.pc = "tail" /\ loop.result = result
        /\ loop.control = loops[t].control
    BY <1>2 DEF LoopState
  <1> HIDE DEF loop
  <1>7. loops' = [loops EXCEPT ![t] = loop]
    BY <1>1, <1>4, <1>5
  <1> QED  BY <1>6, <1>7

\* fence_chat_turn_finalization
LEMMA FencedSettled ==
    ASSUME Shape, TurnsSettled, NEW t \in Turns
    PROVE  /\ Fenced(t) \in TurnRow
           /\ \A loop : TurnSettled(turns[t], loop) => TurnSettled(Fenced(t), loop)
           /\ Fenced(t).outcome = turns[t].outcome /\ Fenced(t).row = turns[t].row
  <1>1. turns[t] \in TurnRow /\ TurnSettled(turns[t], loops[t])
    BY DEF Shape, TurnsSettled
  <1>2. CASE turns[t].col = "running"
    <2> DEFINE f == [turns[t] EXCEPT !.col = "finalizing"]
    <2>1. Fenced(t) = f
      BY <1>2 DEF Fenced
    <2>2. /\ f \in TurnRow /\ f.row = turns[t].row /\ f.col = "finalizing"
          /\ f.outcome = turns[t].outcome /\ f.outbox = turns[t].outbox
      BY <1>1 DEF TurnRow
    <2> HIDE DEF f
    <2>3. turns[t].row = "running"
      BY <1>1, <1>2 DEF TurnSettled
    <2> QED  BY <2>1, <2>2, <2>3 DEF TurnSettled
  <1>3. CASE turns[t].col # "running"
    BY <1>1, <1>3 DEF Fenced
  <1> QED  BY <1>2, <1>3

\* The turns after a step of a worker; the two steps about a control change
\* what the loop holds.
LEMMA LoopMovesTurns ==
    ASSUME SteeringInv, NEW t \in Turns, LoopStep(t)
    PROVE  /\ TurnsFine'
           /\ TurnsMove \/ ReadControl(t) \/ AcknowledgeApplied(t)
  <1> USE DEF SteeringInv
  <1>0. /\ turns \in [Turns -> TurnRow] /\ loops \in [Turns -> LoopState]
        /\ turns[t] \in TurnRow /\ loops[t] \in LoopState
        /\ TurnSettled(turns[t], loops[t])
    BY DEF Shape, TurnsSettled
  <1>1. CASE AcquireTurn(t)
    <2> DEFINE new == Write(t, "running")
               loop == IF turns[t].outcome = "open" THEN [loops[t] EXCEPT !.pc = "starting"]
                       ELSE loops[t]
    <2>1. /\ turns' = [turns EXCEPT ![t] = new] /\ loops' = [loops EXCEPT ![t] = loop]
          /\ loops[t].pc = "idle"
      BY <1>0, <1>1 DEF AcquireTurn
    <2>2. /\ new \in TurnRow /\ new.row = "running" /\ new.col = "running"
          /\ new.outcome = turns[t].outcome /\ new.outbox = turns[t].outbox
      BY <1>0, Written DEF RowStates
    <2>3. /\ loop \in LoopState /\ loop.control = loops[t].control
          /\ turns[t].outcome = "open" => loop.pc = "starting"
          /\ turns[t].outcome # "open" => loop.pc = "idle"
      BY <1>0, <2>1 DEF LoopState
    <2> HIDE DEF new, loop
    <2>4. loops[t].control = None
      BY <1>0, <2>1 DEF TurnSettled
    <2>5. TurnSettled(new, loop)
      BY <1>0, <2>2, <2>3, <2>4 DEF TurnSettled, EndedTurn
    <2>6. TurnMove(turns[t], loops[t], new, loop)
      BY <2>2, <2>3 DEF TurnMove, Unsettled
    <2> QED  BY <2>1, <2>2, <2>3, <2>5, <2>6, OneTurnMoves
  <1>2. CASE CreateAgentRun(t) \/ ExitRounds(t)
    <2> DEFINE loop == [loops[t] EXCEPT !.pc = IF CreateAgentRun(t) THEN "rounds" ELSE "fence"]
    <2>1. /\ turns' = turns /\ loops' = [loops EXCEPT ![t] = loop]
          /\ loops[t].pc \in {"starting", "rounds"}
      BY <1>2 DEF CreateAgentRun, ExitRounds, At
    <2>2. /\ loop \in LoopState /\ loop.control = loops[t].control
          /\ loop.pc \in {"rounds", "fence"}
      BY <1>0 DEF LoopState
    <2> HIDE DEF loop
    <2>3. TurnSettled(turns[t], loop)
      BY <1>0, <2>1, <2>2 DEF TurnSettled
    <2> QED  BY <2>1, <2>2, <2>3, LoopMoves
  <1>3. CASE ReadControl(t)
    <2>1. Controls(t) \in SUBSET Messages /\ Controls(t) # {}
      BY <1>3 DEF ReadControl, Controls, RowsOf
    <2>2. Oldest(Controls(t)) \in Messages
      BY <2>1, OldestChosen
    <2> DEFINE m == Oldest(Controls(t))
               loop == [loops[t] EXCEPT !.control = m]
    <2>3. /\ turns' = turns /\ loops' = [loops EXCEPT ![t] = loop]
          /\ loops[t].pc \in {"rounds", "fence"}
      BY <1>3 DEF ReadControl, At
    <2> HIDE DEF m
    <2>4. loop \in LoopState /\ loop.pc = loops[t].pc
      BY <1>0, <2>2 DEF LoopState, m
    <2> HIDE DEF loop
    <2>5. TurnSettled(turns[t], loop)
      BY <1>0, <2>3, <2>4 DEF TurnSettled
    <2> QED  BY <1>3, <2>3, <2>4, <2>5, LoopMoves
  <1>4. CASE AcknowledgeApplied(t)
    <2> DEFINE loop(pc, result) ==
                 [pc |-> pc, control |-> None,
                  drained |-> loops[t].drained \cup {loops[t].control}, result |-> result]
    <2>1. PICK pc \in {loops[t].pc, "fence", "tail"}, result \in {"none", "completed"} :
            /\ loops' = [loops EXCEPT ![t] = loop(pc, result)]
            /\ turns' = turns /\ loops[t].control # None
            /\ pc = "tail" => result # "none"
      <3>1. loops[t].control # None /\ turns' = turns
        BY <1>4 DEF AcknowledgeApplied
      <3>2. loops[t].pc \in {"rounds", "fence"}
        BY <1>0, <3>1 DEF TurnSettled
      <3>3. \/ \E pc \in {loops[t].pc, "fence"} : loops' = [loops EXCEPT ![t] = loop(pc, "none")]
            \/ loops' = [loops EXCEPT ![t] = loop("tail", "completed")]
        BY <1>4 DEF AcknowledgeApplied
      <3> HIDE DEF loop
      <3> QED  BY <3>1, <3>2, <3>3
    <2>2. loops[t].control \in Messages /\ loops[t].pc \in {"rounds", "fence"}
      BY <1>0, <2>1 DEF LoopState, TurnSettled
    <2> DEFINE new == loop(pc, result)
    <2>3. /\ new \in LoopState /\ new.pc = pc /\ new.control = None /\ new.result = result
      BY <1>0, <2>1, <2>2 DEF LoopState, Projected, EndedTurn
    <2>4. turns[t].outcome \in {"open", "cancelled"}
      BY <1>0, <2>2 DEF TurnSettled
    <2> HIDE DEF new
    <2>5. TurnSettled(turns[t], new)
      BY <1>0, <2>1, <2>2, <2>3, <2>4 DEF TurnSettled
    <2>6. loops' = [loops EXCEPT ![t] = new]
      BY <2>1 DEF new
    <2> QED  BY <1>4, <2>1, <2>3, <2>5, <2>6, LoopMoves
  <1>5. CASE DeliverAnswer(t) \/ PassFence(t) \/ GiveUpAtFence(t)
    <2> DEFINE new == IF GiveUpAtFence(t) THEN turns[t] ELSE Fenced(t)
    <2>1. PICK result \in Projected : Leave(t, result)
      BY <1>5 DEF DeliverAnswer, PassFence, GiveUpAtFence, Projected, EndedTurn
    <2>2. /\ turns' = [turns EXCEPT ![t] = new]
          /\ loops[t].pc \in {"rounds", "fence"} /\ loops[t].control = None
      BY <1>0, <1>5 DEF DeliverAnswer, PassFence, GiveUpAtFence, At
    <2>3. PICK loop \in LoopState :
            /\ loops' = [loops EXCEPT ![t] = loop]
            /\ loop.pc = "tail" /\ loop.result = result
            /\ loop.control = loops[t].control
      BY <2>1, LeftLoop
    <2>4. TurnSettled(turns[t], loop)
      BY <1>0, <2>1, <2>2, <2>3 DEF TurnSettled, Projected, EndedTurn
    <2>5. /\ new \in TurnRow /\ TurnSettled(new, loop)
          /\ new.outcome = turns[t].outcome /\ new.row = turns[t].row
      BY <1>0, <2>4, FencedSettled
    <2> HIDE DEF new
    <2>6. TurnMove(turns[t], loops[t], new, loop)
      BY <2>3, <2>5 DEF TurnMove, Unsettled
    <2> QED  BY <2>2, <2>3, <2>5, <2>6, OneTurnMoves
  <1>6. CASE EndLoop(t)
    <2> DEFINE a == [loops[t] EXCEPT !.pc = "commit"]
               l == [loops EXCEPT ![t] = a]
               loop == [a EXCEPT !.drained = {}]
    <2>1. /\ loops' = [l EXCEPT ![t].drained = {}]
          /\ turns' = turns /\ loops[t].pc = "tail"
      BY <1>6 DEF EndLoop
    <2>2. /\ a \in LoopState /\ a.pc = "commit" /\ a.control = loops[t].control
          /\ a.result = loops[t].result
      BY <1>0 DEF LoopState
    <2> HIDE DEF a
    <2>3. l \in [Turns -> LoopState] /\ l[t] = a
      BY <1>0, <2>2
    <2>4. loops' = [l EXCEPT ![t] = loop]
      BY <2>1, <2>3
    <2>5. /\ loop \in LoopState /\ loop.pc = "commit" /\ loop.control = loops[t].control
          /\ loop.result = loops[t].result
      BY <2>2 DEF LoopState
    <2> HIDE DEF loop
    <2>6. loops' = [loops EXCEPT ![t] = loop]
      BY <1>0, <2>3, <2>4
    <2>7. TurnSettled(turns[t], loop)
      BY <1>0, <2>1, <2>5 DEF TurnSettled
    <2> QED  BY <2>1, <2>5, <2>6, <2>7, LoopMoves
  <1>7. CASE CommitTurn(t)
    <2>1. /\ loops' = [loops EXCEPT ![t] = IdleLoop] /\ loops[t].pc = "commit"
      BY <1>7 DEF CommitTurn
    <2>2. /\ IdleLoop \in LoopState /\ IdleLoop.control = None /\ IdleLoop.pc = "idle"
          /\ loops[t].control = None
          /\ loops[t].result \in Projected
      BY <1>0, <2>1 DEF TurnSettled, LoopState, IdleLoop
    <2>3. turns[t].outbox \in Seq(Projected)
      BY <1>0 DEF TurnRow
    <2>4. ASSUME NEW outcome \in {loops[t].result, "cancelled"}, turns[t].outcome = "open",
                 turns' = [turns EXCEPT ![t] = [turns[t] EXCEPT
                   !.outcome = outcome, !.outbox = Append(turns[t].outbox, outcome)]]
          PROVE  TurnsFine' /\ TurnsMove
      <3> DEFINE ob == Append(turns[t].outbox, outcome)
                 a == [turns[t] EXCEPT !.outcome = outcome]
                 new == [a EXCEPT !.outbox = ob]
      <3>1. outcome \in Projected
        BY <2>2, <2>4 DEF Projected, EndedTurn
      <3>2. /\ ob \in Seq(Projected)
            /\ \A i \in DOMAIN ob :
                 \/ ob[i] = outcome
                 \/ i \in DOMAIN turns[t].outbox /\ ob[i] = turns[t].outbox[i]
        BY <2>3, <3>1, Outboxed
      <3>3. turns' = [turns EXCEPT ![t] = new]
        BY <2>4
      <3> HIDE DEF ob
      <3>4. /\ a \in TurnRow /\ a.row = turns[t].row /\ a.col = turns[t].col
            /\ a.outcome = outcome
        BY <1>0, <3>1 DEF TurnRow
      <3> HIDE DEF a
      <3>5. /\ new \in TurnRow /\ new.row = turns[t].row /\ new.col = turns[t].col
            /\ new.outcome = outcome /\ new.outbox = ob
        BY <3>2, <3>4 DEF TurnRow
      <3> HIDE DEF new
      <3>6. turns[t].outcome \notin Final
        BY <2>4 DEF Final, EndedTurn
      <3>7. \A i \in DOMAIN ob : ob[i] \in EndedTurn => outcome \in Final
        BY <1>0, <3>2, <3>6 DEF TurnSettled, Final
      <3>8. turns[t].row \in EndedTurn => turns[t].row = "cancelled"
        BY <1>0, <3>6 DEF TurnSettled
      <3>9. TurnSettled(new, IdleLoop)
        BY <1>0, <2>2, <3>5, <3>7, <3>8 DEF TurnSettled
      <3>10. TurnMove(turns[t], loops[t], new, IdleLoop)
        BY <2>2, <2>4, <3>5, <3>6 DEF TurnMove, Unsettled
      <3> QED  BY <2>1, <2>2, <3>3, <3>5, <3>9, <3>10, OneTurnMoves
    <2>5. CASE turns' = turns
      <3>1. TurnSettled(turns[t], IdleLoop)
        BY <1>0, <2>2 DEF TurnSettled
      <3> QED  BY <2>1, <2>2, <2>5, <3>1, LoopMoves
    <2> QED  BY <1>7, <2>4, <2>5 DEF CommitTurn
  <1>8. CASE AbortLoop(t)
    <2> DEFINE closing == [IdleLoop EXCEPT !.pc = "commit", !.result = "cancelled"]
               loop == IF turns[t].outcome # "open" THEN IdleLoop ELSE closing
    <2>1. /\ turns' = turns /\ loops' = [loops EXCEPT ![t] = loop]
          /\ loops[t].control = None
      BY <1>8 DEF AbortLoop
    <2>2. IdleLoop \in LoopState /\ IdleLoop.control = None /\ IdleLoop.pc = "idle"
      BY DEF LoopState, IdleLoop
    <2>3. /\ closing \in LoopState /\ closing.control = None /\ closing.pc = "commit"
          /\ closing.result = "cancelled"
      BY DEF LoopState, IdleLoop, Projected, EndedTurn
    <2>4. TurnSettled(turns[t], IdleLoop)
      BY <1>0, <2>2 DEF TurnSettled
    <2>5. turns[t].outcome = "open" => TurnSettled(turns[t], closing)
      <3> HIDE DEF closing
      <3> QED  BY <1>0, <2>3 DEF TurnSettled
    <2>6. loop \in LoopState /\ loop.control = None /\ TurnSettled(turns[t], loop)
      BY <2>2, <2>3, <2>4, <2>5
    <2> HIDE DEF loop
    <2> QED  BY <2>1, <2>6, LoopMoves
  <1> QED
    BY <1>1, <1>2, <1>3, <1>4, <1>5, <1>6, <1>7, <1>8 DEF LoopStep

\* The projection of the oldest outcome onto the row.
LEMMA ProjectMovesTurns ==
    ASSUME SteeringInv, NEW t \in Turns, ProjectTurn(t)
    PROVE  TurnsFine' /\ TurnsMove
  <1> USE DEF SteeringInv
  <1> DEFINE ob == turns[t].outbox
             w == Write(t, Head(ob))
             new == [w EXCEPT !.outbox = Tail(ob)]
  <1>0. /\ turns[t] \in TurnRow /\ loops[t] \in LoopState /\ loops \in [Turns -> LoopState]
        /\ TurnSettled(turns[t], loops[t])
    BY DEF Shape, TurnsSettled
  <1>1. /\ turns' = [turns EXCEPT ![t] = new] /\ loops' = loops
        /\ ob # <<>>
    BY DEF ProjectTurn
  <1>2. ob \in Seq(Projected)
    BY <1>0 DEF TurnRow
  <1>3. /\ Head(ob) \in Projected /\ Tail(ob) \in Seq(Projected)
        /\ Len(Tail(ob)) = Len(ob) - 1
        /\ \A i \in 1 .. Len(Tail(ob)) : Tail(ob)[i] = ob[i + 1]
    BY <1>1, <1>2, HeadTailProperties
  <1>4. /\ Len(ob) \in Nat /\ Len(ob) > 0 /\ DOMAIN ob = 1 .. Len(ob) /\ Head(ob) = ob[1]
    BY <1>1, <1>2, LenProperties, EmptySeq
  <1>5. Head(ob) \in EndedTurn => turns[t].outcome \in Final
    BY <1>0, <1>4 DEF TurnSettled
  <1>6. /\ w \in TurnRow /\ w.row = Head(ob) /\ w.col = Head(ob)
        /\ w.outcome = turns[t].outcome
    BY <1>0, <1>3, Written DEF RowStates
  <1> HIDE DEF w
  <1>7. ASSUME NEW i \in DOMAIN Tail(ob), Tail(ob)[i] \in EndedTurn
        PROVE  turns[t].outcome \in Final
    <2>1. i \in 1 .. Len(ob) - 1
      BY <1>3, LenProperties
    <2>2. i + 1 \in DOMAIN ob
      BY <1>4, <2>1
    <2>3. ob[i + 1] \in EndedTurn
      BY <1>3, <1>7, <2>1
    <2> QED  BY <1>0, <2>2, <2>3 DEF TurnSettled
  <1>8. /\ new \in TurnRow /\ new.row = Head(ob) /\ new.col = Head(ob)
        /\ new.outcome = turns[t].outcome /\ new.outbox = Tail(ob)
    BY <1>3, <1>6 DEF TurnRow
  <1> HIDE DEF new, ob
  <1>9. TurnSettled(new, loops[t])
    BY <1>0, <1>5, <1>7, <1>8 DEF TurnSettled
  <1>10. TurnMove(turns[t], loops[t], new, loops[t])
    BY <1>5, <1>8 DEF TurnMove, Unsettled, EndedTurn
  <1>11. loops' = [loops EXCEPT ![t] = loops[t]]
    BY <1>0, <1>1
  <1> QED  BY <1>0, <1>1, <1>8, <1>9, <1>10, <1>11, OneTurnMoves

\* The turns after a step of the coordinator: a parked turn may be queued.
LEMMA CoordinatorMovesTurns ==
    ASSUME SteeringInv, CoordinatorStep
    PROVE  TurnsFine' /\ TurnsMove
  <1> USE DEF SteeringInv
  <1>1. loops' = loops
    BY DEF CoordinatorStep, ListDue, InterpretPendingTurn, PersistInterpretation, ProbeAnswers
  <1>2. CASE turns' = turns
    BY <1>1, <1>2, NoTurnMoves
  <1>3. CASE turns' # turns
    <2> DEFINE t == coordinator.turn
    <2>1. coordinator.pc = "probe" /\ turns' = [turns EXCEPT ![t] = Write(t, "queued")]
      BY <1>3 DEF CoordinatorStep, ListDue, InterpretPendingTurn, PersistInterpretation,
                  ProbeAnswers, Unpark, ClaimPending, NoRunningRun, ResolveOrphan, ProbeModel,
                  WaitInTransit
    <2>2. t \in Turns
      BY <2>1 DEF CopiesKnown
    <2>3. "queued" \in RowStates /\ "queued" \notin EndedTurn
      BY DEF RowStates, EndedTurn
    <2> HIDE DEF t
    <2> QED  BY <1>1, <2>1, <2>2, <2>3, StatusMoves
  <1> QED  BY <1>2, <1>3

\* The turns after any step.
LEMMA StepMovesTurns ==
    ASSUME SteeringInv, SteeringNext
    PROVE  /\ TurnsFine'
           /\ \/ TurnsMove
              \/ \E t \in Turns : ReadControl(t) \/ AcknowledgeApplied(t)
              \/ CrashGateway \/ CutShort
  <1> USE DEF SteeringInv
  <1>0. /\ turns \in [Turns -> TurnRow] /\ loops \in [Turns -> LoopState]
        /\ \A t \in Turns : turns[t] \in TurnRow /\ TurnSettled(turns[t], loops[t])
    BY DEF Shape, TurnsSettled
  <1>1. CASE UserStep  BY <1>1, UserMovesTurns
  <1>2. CASE CoordinatorStep  BY <1>2, CoordinatorMovesTurns
  <1>3. ASSUME NEW t \in Turns, LoopStep(t)
        PROVE  TurnsFine' /\ (TurnsMove \/ ReadControl(t) \/ AcknowledgeApplied(t))
    BY <1>3, LoopMovesTurns
  <1>4. ASSUME NEW t \in Turns, RecoverStaleLease(t)  PROVE TurnsFine' /\ TurnsMove
    <2>1. turns' = [turns EXCEPT ![t] = Write(t, "queued")] /\ loops' = loops
      BY <1>4 DEF RecoverStaleLease
    <2>2. "queued" \in RowStates /\ "queued" \notin EndedTurn
      BY DEF RowStates, EndedTurn
    <2> QED  BY <2>1, <2>2, StatusMoves
  <1>5. ASSUME NEW t \in Turns, Heartbeat(t)  PROVE TurnsFine' /\ TurnsMove
    <2> DEFINE status == turns[t].row
    <2>1. turns' = [turns EXCEPT ![t] = Write(t, status)] /\ loops' = loops
      BY <1>5 DEF Heartbeat
    <2>2. status \in RowStates /\ turns[t].row = status
      BY <1>0 DEF TurnRow
    <2> HIDE DEF status
    <2> QED  BY <2>1, <2>2, StatusMoves
  <1>6. ASSUME NEW t \in Turns, ProjectTurn(t)  PROVE TurnsFine' /\ TurnsMove
    BY <1>6, ProjectMovesTurns
  <1>7. CASE CrashGateway
    <2>1. turns' = turns /\ loops' = [t \in Turns |-> IdleLoop]
      BY <1>7 DEF CrashGateway, Die
    <2>2. IdleLoop \in LoopState /\ IdleLoop.control = None /\ IdleLoop.pc = "idle"
      BY DEF LoopState, IdleLoop
    <2>3. \A t \in Turns : TurnSettled(turns'[t], loops'[t])
      BY <1>0, <2>1, <2>2 DEF TurnSettled
    <2> QED  BY <1>0, <1>7, <2>1, <2>2, <2>3 DEF TurnsFine, TurnsSettled
  <1>8. CASE BootGateway
    <2>1. /\ turns' = [t \in Turns |-> IF turns[t].row = "running" THEN Write(t, "queued")
                                       ELSE turns[t]]
          /\ loops' = loops
      BY <1>8 DEF BootGateway
    <2>2. ASSUME NEW t \in Turns
          PROVE  /\ Write(t, "queued") \in TurnRow
                 /\ TurnSettled(Write(t, "queued"), loops[t])
                 /\ Write(t, "queued").outcome = turns[t].outcome
                 /\ Write(t, "queued").row = "queued"
      <3> DEFINE w == Write(t, "queued")
      <3>1. /\ w \in TurnRow /\ w.row = "queued" /\ w.col = "queued"
            /\ w.outcome = turns[t].outcome /\ w.outbox = turns[t].outbox
        BY <1>0, Written DEF RowStates
      <3> HIDE DEF w
      <3>2. TurnSettled(w, loops[t])
        BY <1>0, <3>1 DEF TurnSettled, EndedTurn
      <3> QED  BY <3>1, <3>2 DEF w
    <2>3. turns' \in [Turns -> TurnRow]
      BY <1>0, <2>1, <2>2
    <2>4. \A t \in Turns : turns'[t] = Write(t, "queued") \/ turns'[t] = turns[t]
      BY <2>1
    <2>5. TurnsSettled'
      BY <1>0, <2>1, <2>2, <2>4 DEF TurnsSettled
    <2>6. TurnsMove
      BY <2>1, <2>2, <2>4 DEF TurnsMove, TurnMove, Unsettled
    <2> QED  BY <1>0, <2>1, <2>3, <2>5, <2>6 DEF TurnsFine
  <1>9. ASSUME NEW t \in Turns, CrashInCancel(t)  PROVE TurnsFine' /\ CutShort
    <2>1. CancelCutShort(t) /\ loops' = [u \in Turns |-> IdleLoop]
      BY <1>9 DEF CrashInCancel, Die
    <2>2. IdleLoop \in LoopState
      BY DEF LoopState, IdleLoop
    <2> QED  BY <1>9, <2>1, <2>2, CutShortSettled DEF CutShort
  <1> QED
    BY <1>1, <1>2, <1>3, <1>4, <1>5, <1>6, <1>7, <1>8, <1>9 DEF SteeringNext

-------------------------------------------------------------------------------
(* Agent runs and bounds *)

\* Runs are added and relabelled, never removed, and a loop that is past its
\* start has the last one.
RunsMove ==
    /\ runs' \in [Turns -> Seq(RunStates)]
    /\ \A t \in Turns :
         /\ DOMAIN runs[t] \subseteq DOMAIN runs'[t]
         /\ loops[t].pc # "starting" => Len(runs'[t]) = Len(runs[t])

\* Relabelling the runs of a turn.
LEMMA Relabelled ==
    ASSUME NEW s \in Seq(RunStates), NEW new, DOMAIN new = DOMAIN s,
           new = [i \in DOMAIN s |-> new[i]],
           \A i \in DOMAIN s : new[i] \in RunStates
    PROVE  new \in Seq(RunStates) /\ Len(new) = Len(s)
  <1> DEFINE n == Len(s)
  <1>1. n \in Nat /\ DOMAIN s = 1 .. n
    BY LenProperties
  <1> HIDE DEF n
  <1>2. new \in [1 .. n -> RunStates]
    BY <1>1
  <1>3. new \in Seq(RunStates)
    BY <1>1, <1>2, SeqDef
  <1>4. Len(new) \in Nat /\ DOMAIN new = 1 .. Len(new)
    BY <1>3, LenProperties
  <1>5. Len(new) = n
    BY <1>1, <1>4
  <1> QED  BY <1>3, <1>5 DEF n

\* Every step, on the agent runs.
LEMMA StepMovesRuns ==
    ASSUME SteeringInv, SteeringNext
    PROVE  RunsMove
  <1> USE DEF SteeringInv
  <1>0. runs \in [Turns -> Seq(RunStates)] /\ \A t \in Turns : runs[t] \in Seq(RunStates)
    BY DEF Shape
  <1>1. CASE runs' = runs
    BY <1>0, <1>1 DEF RunsMove
  <1>2. ASSUME NEW t \in Turns, CreateAgentRun(t)  PROVE RunsMove
    <2> DEFINE new == Append(runs[t], "running")
    <2>1. runs' = [runs EXCEPT ![t] = new] /\ loops[t].pc = "starting"
      BY <1>2 DEF CreateAgentRun
    <2>2. "running" \in RunStates  BY DEF RunStates
    <2>3. new \in Seq(RunStates) /\ Len(new) = Len(runs[t]) + 1
      BY <1>0, <2>2, AppendProperties
    <2> HIDE DEF new
    <2>4. DOMAIN runs[t] \subseteq DOMAIN new
      <3>1. DOMAIN runs[t] = 1 .. Len(runs[t]) /\ Len(runs[t]) \in Nat
        BY <1>0, LenProperties
      <3>2. DOMAIN new = 1 .. Len(new)
        BY <2>3, LenProperties
      <3> QED  BY <2>3, <3>1, <3>2
    <2>5. runs' \in [Turns -> Seq(RunStates)]
      BY <1>0, <2>1, <2>3
    <2>6. runs'[t] = new /\ \A u \in Turns \ {t} : runs'[u] = runs[u]
      BY <1>0, <2>1
    <2> QED  BY <2>1, <2>4, <2>5, <2>6 DEF RunsMove
  <1>3. ASSUME NEW t \in Turns, ProjectTurn(t)  PROVE RunsMove
    <2> DEFINE new == [i \in DOMAIN runs[t] |->
                         IF runs[t][i] = "running" THEN "ended" ELSE runs[t][i]]
    <2>1. runs' = [runs EXCEPT ![t] = new]
      BY <1>3 DEF ProjectTurn
    <2>2. /\ DOMAIN new = DOMAIN runs[t] /\ new = [i \in DOMAIN runs[t] |-> new[i]]
          /\ \A i \in DOMAIN runs[t] : new[i] \in RunStates
      <3>1. \A i \in DOMAIN runs[t] : runs[t][i] \in RunStates
        BY <1>0, LenProperties
      <3> QED  BY <3>1 DEF RunStates
    <2> HIDE DEF new
    <2>3. new \in Seq(RunStates) /\ Len(new) = Len(runs[t])
      BY <1>0, <2>2, Relabelled
    <2>4. runs' \in [Turns -> Seq(RunStates)]
      BY <1>0, <2>1, <2>3
    <2>5. runs'[t] = new /\ \A u \in Turns \ {t} : runs'[u] = runs[u]
      BY <1>0, <2>1
    <2> QED  BY <2>2, <2>3, <2>4, <2>5 DEF RunsMove
  <1>4. CASE BootGateway
    <2> DEFINE new(t) == [i \in DOMAIN runs[t] |->
                 IF /\ runs[t][i] = "running"
                    /\ \/ turns[t].outcome = "open"
                       \/ turns[t].row \in EndedTurn \cup {"running"}
                 THEN "restarted" ELSE runs[t][i]]
    <2>1. runs' = [t \in Turns |-> new(t)]
      BY <1>4 DEF BootGateway
    <2>2. ASSUME NEW t \in Turns
          PROVE  new(t) \in Seq(RunStates) /\ Len(new(t)) = Len(runs[t])
                 /\ DOMAIN new(t) = DOMAIN runs[t]
      <3> DEFINE w == new(t)
      <3>1. \A i \in DOMAIN runs[t] : runs[t][i] \in RunStates
        BY <1>0, LenProperties
      <3>2. /\ DOMAIN w = DOMAIN runs[t] /\ w = [i \in DOMAIN runs[t] |-> w[i]]
            /\ \A i \in DOMAIN runs[t] : w[i] \in RunStates
        BY <3>1 DEF RunStates
      <3> HIDE DEF w
      <3>3. w \in Seq(RunStates) /\ Len(w) = Len(runs[t])
        BY <1>0, <3>2, Relabelled
      <3> QED  BY <3>2, <3>3 DEF w
    <2> HIDE DEF new
    <2> QED  BY <2>1, <2>2 DEF RunsMove
  <1> QED
    BY <1>1, <1>2, <1>3, <1>4
    DEF SteeringNext, UserStep, CoordinatorStep, LoopStep, SendMessage, EditSteering,
        CancelSteering, PromoteHeld, CancelTurn, SetRuntimeModel, ListDue,
        InterpretPendingTurn, PersistInterpretation, ProbeAnswers, AcquireTurn, ReadControl,
        AcknowledgeApplied, DeliverAnswer, ExitRounds, PassFence, GiveUpAtFence, EndLoop,
        CommitTurn, AbortLoop, RecoverStaleLease, Heartbeat, CrashGateway, CancelFails,
        CancelCutShort, CrashInCancel

\* The bounds are only spent.
LEMMA StepSpends ==
    ASSUME SteeringInv, SteeringNext
    PROVE  /\ budget' \in [sends : Nat, incidents : Nat]
           /\ budget'.incidents <= budget.incidents
           /\ up' \in BOOLEAN
  <1> USE DEF SteeringInv
  <1>0. budget \in [sends : Nat, incidents : Nat] /\ up \in BOOLEAN
    BY Zenon DEF Shape
  <1>1. \/ budget' = budget \/ Spend("sends") \/ Spend("incidents")
    BY DEF SteeringNext, UserStep, CoordinatorStep, LoopStep, SendMessage, EditSteering,
        CancelSteering, PromoteHeld, CancelTurn, SetRuntimeModel, ListDue,
        InterpretPendingTurn, ClaimPending, NoRunningRun, ResolveOrphan, ProbeModel,
        WaitInTransit, PersistInterpretation, ProbeAnswers, AcquireTurn, CreateAgentRun,
        ReadControl, AcknowledgeApplied, DeliverAnswer, ExitRounds, PassFence, GiveUpAtFence,
        EndLoop, CommitTurn, AbortLoop, RecoverStaleLease, Heartbeat, ProjectTurn,
        CrashGateway, BootGateway, CancelFails, CancelCutShort, CrashInCancel
  <1>2. up' = up \/ up' = FALSE \/ up' = TRUE
    BY DEF SteeringNext, UserStep, CoordinatorStep, LoopStep, SendMessage, EditSteering,
        CancelSteering, PromoteHeld, CancelTurn, SetRuntimeModel, ListDue,
        InterpretPendingTurn, PersistInterpretation, ProbeAnswers, AcquireTurn,
        CreateAgentRun, ReadControl, AcknowledgeApplied, DeliverAnswer, ExitRounds, PassFence,
        GiveUpAtFence, EndLoop, CommitTurn, AbortLoop, RecoverStaleLease, Heartbeat,
        ProjectTurn, CrashGateway, BootGateway, CancelFails, CrashInCancel, Die
  <1>3. up' \in BOOLEAN
    BY <1>0, <1>2, Zenon
  <1>4. /\ budget' \in [sends : Nat, incidents : Nat]
        /\ budget'.incidents <= budget.incidents
    <2>1. CASE budget' = budget
      BY <1>0, <2>1
    <2>2. CASE Spend("sends")
      BY <1>0, <2>2 DEF Spend
    <2>3. CASE Spend("incidents")
      BY <1>0, <2>3 DEF Spend
    <2> QED  BY <1>1, <2>1, <2>2, <2>3
  <1> QED  BY <1>3, <1>4

-------------------------------------------------------------------------------
(* The rows stay settled, and decisions current *)

\* Rows that move as they may stay settled.
LEMMA RowsStaySettled ==
    ASSUME SteeringInv, RowsMove, RunsMove,
           budget' \in [sends : Nat, incidents : Nat],
           budget'.incidents <= budget.incidents
    PROVE  RowsSettled'
  <1> USE DEF SteeringInv
  <1>1. /\ budget.incidents \in Nat /\ budget'.incidents \in Nat
        /\ budget.incidents <= MaxIncidents
    BY DEF Shape, RowsSettled
  <1>2. ASSUME NEW m \in Messages  PROVE RowSettled(m)'
    <2> DEFINE r == steering[m]
               s == steering'[m]
    <2>1. r \in SteeringRow /\ s \in SteeringRow /\ RowMove(r, s) /\ RowSettled(m)
      BY DEF Shape, RowsMove, RowsSettled
    <2>2. \A t \in Turns : DOMAIN runs[t] \subseteq DOMAIN runs'[t]
      BY DEF RunsMove
    <2>3. s.status # "none" => s.turn \in Turns
      BY <2>1 DEF RowSettled, RowMove, Posted, Revised, Withdrawn, Claimed, Released,
                  Interpreted, Applied, GivenBack, Unread
    <2>4. s.status = "none" => s = NoSteering
      BY <2>1 DEF RowSettled, RowMove, Posted, Revised, Withdrawn, Claimed, Released,
                  Interpreted, Applied, GivenBack
    <2>5. s.status \in {"claimed", "interpreted", "applied"} => s.run \in DOMAIN runs'[s.turn]
      BY <2>1, <2>2 DEF RowSettled, RowMove, Posted, Revised, Withdrawn, Claimed, Released,
                  Interpreted, Applied, GivenBack
    <2>6. s.attempts + budget'.incidents <= MaxOrphanAttempts + MaxIncidents
      <3>1. r.attempts \in Nat /\ s.attempts \in Nat
            /\ r.attempts + budget.incidents <= MaxOrphanAttempts + MaxIncidents
        BY <2>1 DEF SteeringRow, RowSettled
      <3>2. \/ s.attempts <= r.attempts
            \/ s.attempts <= MaxOrphanAttempts
            \/ s.attempts = r.attempts + 1 /\ budget'.incidents = budget.incidents - 1
        <4> HIDE DEF r, s
        <4> QED
          BY <2>1, <3>1 DEF RowMove, Posted, Revised, Withdrawn, Claimed, Released,
                  Interpreted, Applied, GivenBack
      <3> HIDE DEF r, s
      <3> QED  BY <1>1, <3>1, <3>2
    <2> QED  BY <2>3, <2>4, <2>5, <2>6 DEF RowSettled
  <1> QED  BY <1>1, <1>2 DEF RowsSettled

\* A turn whose row alone is cancelled gets no unread row (an active turn only is
\* steered), and none of its rows becomes unread again.
LEMMA CancelledStayHeld ==
    ASSUME SteeringInv, RowsMove,
           \A t \in Turns :
             Unsettled(turns'[t]) => Unsettled(turns[t]) \/ RowsOf(t, Unread)' = {}
    PROVE  CancelledHeld'
  <1> SUFFICES ASSUME NEW t \in Turns, Unsettled(turns'[t]), Unsettled(turns[t]),
                      NEW m \in Messages,
                      steering'[m].turn = t, steering'[m].status \in Unread
               PROVE  FALSE
    BY DEF CancelledHeld, RowsOf
  <1> DEFINE r == steering[m]
             s == steering'[m]
  <1>1. RowMove(r, s) /\ s.turn = t /\ s.status \in Unread
    BY DEF RowsMove
  <1>2. ~(r.turn = t /\ r.status \in Unread)
    BY DEF SteeringInv, CancelledHeld, RowsOf
  <1>3. turns'[t].row = "cancelled"
    BY DEF Unsettled
  <1> HIDE DEF r, s
  <1> QED
    BY <1>1, <1>2, <1>3 DEF RowMove, Posted, Revised, Withdrawn, Claimed, Released,
                  Interpreted, Applied, GivenBack, Unread

\* After every step.
LEMMA StepKeepsHeld ==
    ASSUME SteeringInv, SteeringNext, RowsMove,
           \/ TurnsMove
           \/ \E t \in Turns : ReadControl(t) \/ AcknowledgeApplied(t)
           \/ CrashGateway \/ CutShort
    PROVE  CancelledHeld'
  <1> USE DEF SteeringInv
  <1>1. CASE TurnsMove
    <2>1. \A t \in Turns : Unsettled(turns'[t]) => Unsettled(turns[t])
      BY <1>1 DEF TurnsMove, TurnMove
    <2> QED  BY <2>1, CancelledStayHeld
  <1>2. CASE turns' = turns
    BY <1>2, CancelledStayHeld
  <1>3. CASE CutShort
    <2>1. PICK t \in Turns : CancelCutShort(t)
      BY <1>3 DEF CutShort, CancelFails, CrashInCancel
    <2>2. \A u \in Turns \ {t} : turns'[u] = turns[u]
      <3>1. turns \in [Turns -> TurnRow]
        BY DEF Shape
      <3> QED  BY <2>1, <3>1 DEF CancelCutShort
    <2>3. RowsOf(t, Unread)' = {}
      <3>1. /\ \A m \in Messages \ RowsOf(t, Unread) : steering'[m] = steering[m]
            /\ \A m \in RowsOf(t, Unread) : steering'[m].status = "held"
        BY <2>1, HeldRows DEF CancelCutShort
      <3> QED  BY <3>1 DEF RowsOf, Unread
    <2> QED  BY <2>2, <2>3, CancelledStayHeld
  <1> QED  BY <1>1, <1>2, <1>3 DEF ReadControl, AcknowledgeApplied, CrashGateway

\* Rows that move as they may carry decisions about their last text.
LEMMA DecisionsStayCurrent ==
    ASSUME SteeringInv, RowsMove
    PROVE  DecisionIsCurrent'
  <1> SUFFICES ASSUME NEW m \in Messages,
                      steering'[m].status \in {"interpreted", "applied", "completed"}
               PROVE  steering'[m].read = steering'[m].text
    BY DEF DecisionIsCurrent
  <1> DEFINE r == steering[m]
             s == steering'[m]
  <1>1. RowMove(r, s)
    BY DEF RowsMove
  <1>2. r.status \in {"interpreted", "applied", "completed"} => r.read = r.text
    BY DEF SteeringInv, DecisionIsCurrent
  <1> HIDE DEF r, s
  <1>3. s.status \in {"interpreted", "applied", "completed"} => s.read = s.text
    BY <1>1, <1>2 DEF RowMove, Posted, Revised, Withdrawn, Claimed, Released,
                  Interpreted, Applied, GivenBack
  <1> QED  BY <1>3 DEF s

-------------------------------------------------------------------------------
(* The coordinator's copies *)

CopiesFine == coordinator \in CoordinatorState /\ CopiesKnown

\* A row that still has the revision of a copy is the row that was copied.
LEMMA CopyStays ==
    ASSUME Shape, RowsMove, NEW m \in Messages, NEW revision \in Nat,
           steering[m].status # "none",
           steering[m].status \in {"pending", "claimed"} => revision <= steering[m].revision
    PROVE  /\ steering'[m].status # "none"
           /\ steering'[m].status \in {"pending", "claimed"} =>
                revision <= steering'[m].revision
           /\ (steering'[m].status \in {"pending", "claimed"}
               /\ steering'[m].revision = revision) => steering'[m] = steering[m]
  <1> DEFINE r == steering[m]
             s == steering'[m]
  <1>1. RowMove(r, s) /\ r \in SteeringRow /\ s \in SteeringRow
    BY DEF RowsMove, Shape
  <1>2. r.revision \in Nat /\ s.revision \in Nat
    BY <1>1 DEF SteeringRow
  <1> HIDE DEF r, s
  <1>3. /\ r.status # "none"
        /\ r.status \in {"pending", "claimed"} => revision <= r.revision
    BY DEF r
  <1>4. /\ s.status # "none"
        /\ s.status \in {"pending", "claimed"} =>
             \/ s = r
             \/ r.status \in {"pending", "claimed"} /\ s.revision > r.revision
    BY <1>1, <1>2, <1>3 DEF RowMove, Posted, Revised, Withdrawn, Claimed, Released,
       Interpreted, Applied, GivenBack
  <1>5. s.status \in {"pending", "claimed"} =>
             revision <= s.revision /\ (s.revision = revision => s = r)
    BY <1>2, <1>3, <1>4
  <1> QED  BY <1>4, <1>5 DEF r, s

\* What the coordinator listed stays known when rows move as they may.
LEMMA CopiesStay ==
    ASSUME Shape, CopiesKnown, RowsMove
    PROVE  /\ \A d \in coordinator.due : DueKnown(d)'
           /\ \A b \in coordinator.batch : AnswerKnown(b)'
  <1>1. ASSUME NEW d \in coordinator.due  PROVE DueKnown(d)'
    <2>1. d.m \in Messages /\ d.revision \in Nat /\ DueKnown(d)
      BY DEF Shape, CoordinatorState, DueCopy, CopiesKnown
    <2> DEFINE m == d.m
    <2>2. /\ steering'[m].status # "none"
          /\ steering'[m].status \in {"pending", "claimed"} =>
               d.revision <= steering'[m].revision
          /\ (steering'[m].status \in {"pending", "claimed"}
              /\ steering'[m].revision = d.revision) => steering'[m] = steering[m]
      <3> HIDE DEF m
      <3>1. /\ m \in Messages /\ steering[m].status # "none"
            /\ steering[m].status \in {"pending", "claimed"} =>
                 d.revision <= steering[m].revision
        BY <2>1 DEF DueKnown, CopyKnown, m
      <3> QED  BY <2>1, <3>1, CopyStays
    <2> QED  BY <2>1, <2>2 DEF DueKnown, CopyKnown
  <1>2. ASSUME NEW b \in coordinator.batch  PROVE AnswerKnown(b)'
    <2>1. b.m \in Messages /\ b.revision \in Nat /\ AnswerKnown(b)
      BY DEF Shape, CoordinatorState, BatchCopy, CopiesKnown
    <2> DEFINE m == b.m
    <2>2. /\ steering'[m].status # "none"
          /\ steering'[m].status \in {"pending", "claimed"} =>
               b.revision <= steering'[m].revision
          /\ (steering'[m].status \in {"pending", "claimed"}
              /\ steering'[m].revision = b.revision) => steering'[m] = steering[m]
      <3> HIDE DEF m
      <3>1. /\ m \in Messages /\ steering[m].status # "none"
            /\ steering[m].status \in {"pending", "claimed"} =>
                 b.revision <= steering[m].revision
        BY <2>1 DEF AnswerKnown, CopyKnown, m
      <3> QED  BY <2>1, <3>1, CopyStays
    <2> QED  BY <2>1, <2>2 DEF AnswerKnown, CopyKnown
  <1> QED  BY <1>1, <1>2

\* The idle coordinator, and one that has its first copies.
LEMMA CopiesListed ==
    ASSUME NEW due \in SUBSET DueCopy
    PROVE  LET c == [IdleCoordinator EXCEPT !.pc = "list", !.due = due] IN
           /\ IdleCoordinator \in CoordinatorState /\ IdleCoordinator.pc = "idle"
           /\ IdleCoordinator.due = {} /\ IdleCoordinator.batch = {}
           /\ c \in CoordinatorState /\ c.pc = "list" /\ c.due = due /\ c.batch = {}
  <1> DEFINE a == [IdleCoordinator EXCEPT !.pc = "list"]
             c == [a EXCEPT !.due = due]
  <1>1. /\ IdleCoordinator \in CoordinatorState /\ IdleCoordinator.pc = "idle"
        /\ IdleCoordinator.due = {} /\ IdleCoordinator.batch = {}
    BY DEF IdleCoordinator, CoordinatorState
  <1>2. a \in CoordinatorState /\ a.pc = "list" /\ a.batch = {}
    BY DEF IdleCoordinator, CoordinatorState
  <1> HIDE DEF a
  <1>3. c \in CoordinatorState /\ c.pc = "list" /\ c.due = due /\ c.batch = {}
    BY <1>2 DEF CoordinatorState
  <1> QED  BY <1>1, <1>3 DEF a

\* A copy is dealt with.
LEMMA CopyHandled ==
    ASSUME Shape, CopiesKnown, RowsMove, NEW d, coordinator' = Handled(d, coordinator)
    PROVE  CopiesFine'
  <1> DEFINE rest == coordinator.due \ {d}
             c == [IdleCoordinator EXCEPT !.pc = "list", !.due = rest]
  <1>1. coordinator' = IF rest = {} THEN IdleCoordinator ELSE c
    BY DEF Handled
  <1>2. rest \in SUBSET DueCopy /\ rest \subseteq coordinator.due
    BY DEF Shape, CoordinatorState
  <1> HIDE DEF rest
  <1>3. /\ IdleCoordinator \in CoordinatorState /\ IdleCoordinator.pc = "idle"
        /\ IdleCoordinator.due = {} /\ IdleCoordinator.batch = {}
        /\ c \in CoordinatorState /\ c.pc = "list" /\ c.due = rest /\ c.batch = {}
    BY <1>2, CopiesListed
  <1> HIDE DEF c
  <1>4. \A e \in rest : DueKnown(e)'
    BY <1>2, CopiesStay
  <1>5. CASE rest = {}
    BY <1>1, <1>3, <1>5 DEF CopiesFine, CopiesKnown
  <1>6. CASE rest # {}
    BY <1>1, <1>3, <1>4, <1>6 DEF CopiesFine, CopiesKnown
  <1> QED  BY <1>5, <1>6

\* A batch of claims is handed to the interpreter.
LEMMA BatchClaimed ==
    ASSUME SteeringInv, NEW d \in coordinator.due, NEW M \in SUBSET Messages,
           ClaimPending(d, M)
    PROVE  CopiesFine'
  <1> USE DEF SteeringInv
  <1> DEFINE t == steering[d.m].turn
             run == LatestRunning(t)
             batch == {[m |-> m, revision |-> steering[m].revision + 1,
                        text |-> steering[m].text] : m \in M}
             c1 == [coordinator EXCEPT !.pc = "interpret"]
             c2 == [c1 EXCEPT !.turn = t]
             c3 == [c2 EXCEPT !.run = run]
             c4 == [c3 EXCEPT !.batch = batch]
  <1>1. RowsMove /\ \A m \in M : Claimed(steering[m], steering'[m])
    BY ClaimMovesRows
  <1>2. CASE M = {}
    <2>1. coordinator' = Handled(d, coordinator)
      BY <1>2 DEF ClaimPending
    <2> QED  BY <1>1, <2>1, CopyHandled
  <1>3. CASE M # {}
    <2>1. coordinator' = c4 /\ RunningRuns(t) # {}
      BY <1>3 DEF ClaimPending, LatestRunning
    <2>2. d.m \in Messages
      BY DEF Shape, CoordinatorState, DueCopy
    <2>3. t \in Turns
      BY <2>2 DEF CopiesKnown, DueKnown, CopyKnown, RowsSettled, RowSettled
    <2>4. run \in Nat
      BY <2>1, <2>3, LatestRunningChosen
    <2>5. batch \in SUBSET BatchCopy /\ batch # {}
      <3>1. \A m \in M : steering[m] \in SteeringRow
        BY DEF Shape
      <3>2. \A m \in M : steering[m].revision + 1 \in Nat /\ steering[m].text \in Nat
        BY <3>1 DEF SteeringRow
      <3>3. batch # {}  BY <1>3
      <3>4. ASSUME NEW b \in batch  PROVE b \in BatchCopy
        <4>1. PICK m \in M : b = [m |-> m, revision |-> steering[m].revision + 1,
                                  text |-> steering[m].text]
          OBVIOUS
        <4> QED  BY <3>2, <4>1 DEF BatchCopy
      <3> HIDE DEF batch
      <3> QED  BY <3>3, <3>4
    <2>6. ASSUME NEW b \in batch  PROVE AnswerKnown(b)'
      <3>1. PICK m \in M : b = [m |-> m, revision |-> steering[m].revision + 1,
                                text |-> steering[m].text]
        OBVIOUS
      <3>2. /\ steering'[m].status = "claimed"
            /\ steering'[m].revision = steering[m].revision + 1
            /\ steering'[m].text = steering[m].text
        BY <1>1 DEF Claimed
      <3>3. steering[m].revision + 1 \in Nat
        <4>1. steering[m] \in SteeringRow  BY DEF Shape
        <4> QED  BY <4>1 DEF SteeringRow
      <3>4. b.m = m /\ b.revision = steering[m].revision + 1 /\ b.text = steering[m].text
        BY <3>1
      <3>5. b.revision <= steering'[m].revision
        BY <3>2, <3>3, <3>4
      <3> QED  BY <3>2, <3>4, <3>5 DEF AnswerKnown, CopyKnown
    <2>7. coordinator \in CoordinatorState /\ coordinator.due # {}
      <3>1. coordinator.due # {}  OBVIOUS
      <3> QED  BY <3>1 DEF Shape
    <2> HIDE DEF batch, run, t
    <2>8. c1 \in CoordinatorState /\ c1.pc = "interpret" /\ c1.due = coordinator.due
      BY <2>7 DEF CoordinatorState
    <2> HIDE DEF c1
    <2>9. c2 \in CoordinatorState /\ c2.pc = "interpret" /\ c2.due = coordinator.due
      BY <2>3, <2>8 DEF CoordinatorState
    <2> HIDE DEF c2
    <2>10. c3 \in CoordinatorState /\ c3.pc = "interpret" /\ c3.due = coordinator.due
      BY <2>4, <2>9 DEF CoordinatorState
    <2> HIDE DEF c3
    <2>11. /\ c4 \in CoordinatorState /\ c4.pc = "interpret" /\ c4.due = coordinator.due
           /\ c4.batch = batch
      BY <2>5, <2>10 DEF CoordinatorState
    <2> HIDE DEF c4
    <2>12. \A e \in coordinator.due : DueKnown(e)'
      BY <1>1, CopiesStay
    <2> QED
      BY <2>1, <2>5, <2>6, <2>7, <2>11, <2>12 DEF CopiesFine, CopiesKnown
  <1> QED  BY <1>2, <1>3

\* The copies after any step.
LEMMA StepKeepsCopies ==
    ASSUME SteeringInv, SteeringNext, RowsMove
    PROVE  CopiesFine'
  <1> USE DEF SteeringInv
  <1>0. coordinator \in CoordinatorState
    BY DEF Shape
  <1>1. CASE coordinator' = coordinator
    <2>1. /\ \A d \in coordinator.due : DueKnown(d)'
          /\ \A b \in coordinator.batch : AnswerKnown(b)'
      BY CopiesStay
    <2> QED  BY <1>0, <1>1, <2>1 DEF CopiesFine, CopiesKnown
  <1>2. CASE Die
    <2>1. coordinator' = IdleCoordinator
      BY <1>2 DEF Die
    <2>2. /\ IdleCoordinator \in CoordinatorState /\ IdleCoordinator.pc = "idle"
          /\ IdleCoordinator.due = {} /\ IdleCoordinator.batch = {}
      BY CopiesListed
    <2> QED  BY <2>1, <2>2 DEF CopiesFine, CopiesKnown
  <1>3. CASE ListDue
    <2>1. PICK M \in (SUBSET {m \in Messages : steering[m].status = "pending"}) \ {{}} :
            coordinator' = [IdleCoordinator EXCEPT !.pc = "list", !.due =
              {[m |-> m, revision |-> steering[m].revision, attempts |-> steering[m].attempts]
                 : m \in M}]
      BY <1>3 DEF ListDue
    <2> DEFINE due == {[m |-> m, revision |-> steering[m].revision,
                        attempts |-> steering[m].attempts] : m \in M}
               c == [IdleCoordinator EXCEPT !.pc = "list", !.due = due]
    <2>2. coordinator' = c
      BY <2>1
    <2>3. due # {}
      BY <2>1
    <2>4. ASSUME NEW d \in due  PROVE d \in DueCopy /\ DueKnown(d)'
      <3>1. PICK m \in M : d = [m |-> m, revision |-> steering[m].revision,
                                attempts |-> steering[m].attempts]
        OBVIOUS
      <3>2. m \in Messages /\ steering[m].status = "pending" /\ steering[m] \in SteeringRow
        BY DEF Shape
      <3>3. steering[m].revision \in Nat /\ steering[m].attempts \in Nat
        BY <3>2 DEF SteeringRow
      <3>4. d \in DueCopy /\ d.m = m /\ d.revision = steering[m].revision
            /\ d.attempts = steering[m].attempts
        BY <3>1, <3>2, <3>3 DEF DueCopy
      <3>5. steering' = steering
        BY <1>3 DEF ListDue
      <3>6. d.revision <= steering[m].revision
        BY <3>3, <3>4
      <3> QED  BY <3>2, <3>4, <3>5, <3>6 DEF DueKnown, CopyKnown
    <2> HIDE DEF due
    <2>5. due \in SUBSET DueCopy
      BY <2>4
    <2>6. c \in CoordinatorState /\ c.pc = "list" /\ c.due = due /\ c.batch = {}
      BY <2>5, CopiesListed
    <2> HIDE DEF c
    <2> QED  BY <2>2, <2>3, <2>4, <2>6 DEF CopiesFine, CopiesKnown
  <1>4. CASE InterpretPendingTurn
    <2> DEFINE d == NextDue
    <2>1. d \in coordinator.due /\ coordinator.pc \in {"list", "route"}
      BY <1>4, NextDueChosen DEF InterpretPendingTurn
    <2>2. \/ \E M \in SUBSET Messages : ClaimPending(d, M)
          \/ NoRunningRun(d) \/ ResolveOrphan(d) \/ ProbeModel(d) \/ WaitInTransit(d)
      BY <1>4 DEF InterpretPendingTurn
    <2> HIDE DEF d
    <2>3. ASSUME NEW M \in SUBSET Messages, ClaimPending(d, M)  PROVE CopiesFine'
      BY <2>1, <2>3, BatchClaimed
    <2>4. CASE ResolveOrphan(d) \/ WaitInTransit(d)
      BY <2>4, CopyHandled DEF ResolveOrphan, WaitInTransit
    <2>5. /\ \A e \in coordinator.due : DueKnown(e)'
          /\ \A b \in coordinator.batch : AnswerKnown(b)'
      BY CopiesStay
    <2>6. CASE NoRunningRun(d)
      <3> DEFINE c == [coordinator EXCEPT !.pc = "route"]
      <3>1. coordinator' = c
        BY <2>6 DEF NoRunningRun
      <3>2. /\ c \in CoordinatorState /\ c.pc = "route" /\ c.due = coordinator.due
            /\ c.batch = coordinator.batch
        BY <1>0 DEF CoordinatorState
      <3> HIDE DEF c
      <3> QED  BY <2>1, <2>5, <3>1, <3>2 DEF CopiesFine, CopiesKnown
    <2>7. CASE ProbeModel(d)
      <3> DEFINE t == steering[d.m].turn
                 a == [coordinator EXCEPT !.pc = "probe"]
                 c == [a EXCEPT !.turn = t]
      <3>1. coordinator' = c
        BY <2>7 DEF ProbeModel
      <3>2. t \in Turns
        <4>1. d.m \in Messages
          BY <2>1 DEF Shape, CoordinatorState, DueCopy
        <4> QED  BY <2>1, <4>1 DEF CopiesKnown, DueKnown, CopyKnown, RowsSettled, RowSettled
      <3> HIDE DEF t
      <3>3. /\ a \in CoordinatorState /\ a.pc = "probe" /\ a.due = coordinator.due
            /\ a.batch = coordinator.batch
        BY <1>0 DEF CoordinatorState
      <3> HIDE DEF a
      <3>4. /\ c \in CoordinatorState /\ c.pc = "probe" /\ c.due = coordinator.due
            /\ c.batch = coordinator.batch /\ c.turn = t
        BY <3>2, <3>3 DEF CoordinatorState
      <3> HIDE DEF c
      <3> QED  BY <2>1, <2>5, <3>1, <3>2, <3>4 DEF CopiesFine, CopiesKnown
    <2> QED  BY <2>2, <2>3, <2>4, <2>6, <2>7
  <1>5. CASE PersistInterpretation
    <2> DEFINE rest == coordinator.batch \ {NextAnswer}
               c == [coordinator EXCEPT !.batch = rest]
    <2>1. /\ coordinator' = IF rest = {} THEN Handled(NextDue, coordinator) ELSE c
          /\ coordinator.pc = "interpret"
      BY <1>5 DEF PersistInterpretation, NextAnswer
    <2>2. CASE rest = {}
      BY <2>1, <2>2, CopyHandled
    <2>3. CASE rest # {}
      <3>1. /\ \A e \in coordinator.due : DueKnown(e)'
            /\ \A b \in coordinator.batch : AnswerKnown(b)'
        BY CopiesStay
      <3>2. rest \in SUBSET BatchCopy /\ rest \subseteq coordinator.batch
        BY <1>0 DEF CoordinatorState
      <3> HIDE DEF rest
      <3>3. /\ c \in CoordinatorState /\ c.pc = "interpret" /\ c.due = coordinator.due
            /\ c.batch = rest
        BY <1>0, <2>1, <3>2 DEF CoordinatorState
      <3> HIDE DEF c
      <3>4. coordinator' = c /\ coordinator.due # {}
        BY <2>1, <2>3 DEF CopiesKnown
      <3> QED  BY <2>3, <3>1, <3>2, <3>3, <3>4 DEF CopiesFine, CopiesKnown
    <2> QED  BY <2>2, <2>3
  <1>6. CASE ProbeAnswers
    BY <1>6, CopyHandled DEF ProbeAnswers
  <1> QED
    BY <1>1, <1>2, <1>3, <1>4, <1>5, <1>6
    DEF SteeringNext, UserStep, CoordinatorStep, LoopStep, SendMessage, EditSteering,
        CancelSteering, PromoteHeld, CancelTurn, SetRuntimeModel, AcquireTurn, CreateAgentRun,
        ReadControl, AcknowledgeApplied, DeliverAnswer, ExitRounds, PassFence, GiveUpAtFence,
        EndLoop, CommitTurn, AbortLoop, RecoverStaleLease, Heartbeat, ProjectTurn,
        BootGateway, CancelFails, CrashGateway, CrashInCancel

-------------------------------------------------------------------------------
(* Who follows a message *)

FollowersFine == followed \in [Messages -> SUBSET Follower] /\ FollowersKnown

\* Every step that neither reads nor acknowledges a control.
LEMMA FollowersStay ==
    ASSUME SteeringInv, RowsMove, RunsMove, TurnsFine', TurnsMove, followed' = followed,
           ~CutShort
    PROVE  FollowersFine'
  <1> USE DEF SteeringInv
  <1>0. /\ \A t \in Turns : loops[t] \in LoopState /\ loops'[t] \in LoopState
        /\ \A t \in Turns : /\ TurnSettled(turns[t], loops[t])
                            /\ TurnSettled(turns'[t], loops'[t])
                            /\ TurnMove(turns[t], loops[t], turns'[t], loops'[t])
        /\ followed \in [Messages -> SUBSET Follower]
    BY DEF Shape, TurnsFine, TurnsSettled, TurnsMove
  <1>1. ASSUME NEW m \in Messages  PROVE FollowerKnown(m)'
    <2> DEFINE r == steering[m]
               s == steering'[m]
               t == r.turn
    <2>1. RowMove(r, s) /\ FollowerKnown(m) /\ RowSettled(m) /\ m # None
      BY DEF RowsMove, FollowersKnown, RowsSettled
    <2>2. r.status # "none" => t \in Turns
      BY <2>1 DEF RowSettled
    <2>3. t \in Turns =>
            /\ loops'[t].control = loops[t].control
            /\ turns[t].outcome = "cancelled" => turns'[t].outcome = "cancelled"
            /\ loops[t].control = m => Len(runs'[t]) = CurrentRun(t)
            /\ loops[t].control = m /\ turns'[t].outcome \in Final =>
                 turns'[t].outcome = "cancelled"
      <3> SUFFICES ASSUME t \in Turns
                   PROVE  /\ loops'[t].control = loops[t].control
                          /\ turns[t].outcome = "cancelled" => turns'[t].outcome = "cancelled"
                          /\ loops[t].control = m => Len(runs'[t]) = CurrentRun(t)
                          /\ loops[t].control = m /\ turns'[t].outcome \in Final =>
                               turns'[t].outcome = "cancelled"
        OBVIOUS
      <3> HIDE DEF t
      <3>1. /\ loops'[t].control = loops[t].control
            /\ turns[t].outcome = "cancelled" => turns'[t].outcome = "cancelled"
        BY <1>0 DEF TurnMove
      <3>2. ASSUME loops[t].control = m
            PROVE  loops[t].pc \in {"rounds", "fence"} /\ loops'[t].pc \in {"rounds", "fence"}
        BY <1>0, <2>1, <3>1, <3>2 DEF TurnSettled
      <3>3. ASSUME loops[t].control = m  PROVE Len(runs'[t]) = Len(runs[t])
        BY <3>2, <3>3 DEF RunsMove
      <3>4. ASSUME loops[t].control = m, turns'[t].outcome \in Final
            PROVE  turns'[t].outcome = "cancelled"
        BY <1>0, <3>2, <3>4 DEF TurnSettled, Final, EndedTurn
      <3> QED  BY <3>1, <3>3, <3>4 DEF CurrentRun
    <2>4. r.status \in {"none", "pending", "claimed"} => t \notin Turns \/ loops[t].control # m
      BY DEF FollowersKnown
    <2> SUFFICES /\ s.status \in {"none", "pending", "claimed"} => followed[m] = {}
                 /\ s.status = "interpreted" =>
                      followed[m] = IF loops'[s.turn].control = m
                                    THEN {<<s.turn, Len(runs'[s.turn]), "read">>} ELSE {}
                 /\ s.status \in {"applied", "completed"} =>
                      \E f \in followed[m] :
                        f[1] = s.turn /\ f[3] = "applied" /\ followed[m] = {f}
                 /\ s.status \in {"held", "promoted", "cancelled"} =>
                      \/ followed[m] = {}
                      \/ /\ turns'[s.turn].outcome = "cancelled"
                         /\ \E f \in followed[m] :
                              f[1] = s.turn /\ f[3] = "read" /\ followed[m] = {f}
                      \/ \E f \in followed[m] : f[3] = "torn" /\ followed[m] = {f}
      BY DEF FollowerKnown, CurrentRun
    <2>5. CASE s = r
      BY <2>1, <2>2, <2>3, <2>5 DEF FollowerKnown
    <2>6. CASE Posted(r, s) \/ Revised(r, s) \/ Claimed(r, s) \/ Released(r, s)
      BY <2>1, <2>6 DEF FollowerKnown, Posted, Revised, Claimed, Released
    <2>7. CASE Withdrawn(r, s)
      BY <2>1, <2>2, <2>3, <2>7 DEF FollowerKnown, Withdrawn
    <2>8. CASE Interpreted(r, s)
      BY <2>1, <2>2, <2>3, <2>4, <2>8 DEF FollowerKnown, Interpreted
    <2>9. CASE Applied(r, s)
      BY <2>1, <2>2, <2>3, <2>9 DEF FollowerKnown, Applied
    <2>10. CASE GivenBack(r, s)
      <3>1. CASE r.status \in {"pending", "claimed"}
        BY <2>1, <2>10, <3>1 DEF FollowerKnown, GivenBack
      <3>2. CASE r.status = "interpreted"
        <4>1. s.status = "held" /\ s.turn = t /\ turns'[t].outcome \in Final /\ t \in Turns
          BY <2>2, <2>10, <3>2 DEF GivenBack
        <4>2. CASE loops[t].control = m
          <5>1. followed[m] = {<<t, CurrentRun(t), "read">>}
            BY <2>1, <3>2, <4>2 DEF FollowerKnown
          <5>2. turns'[t].outcome = "cancelled"
            BY <2>3, <4>1, <4>2
          <5> QED  BY <4>1, <5>1, <5>2
        <4>3. CASE loops[t].control # m
          <5>1. followed[m] = {}
            BY <2>1, <3>2, <4>3 DEF FollowerKnown
          <5> QED  BY <4>1, <5>1
        <4> QED  BY <4>2, <4>3
      <3> QED  BY <2>10, <3>1, <3>2 DEF GivenBack, Unread
    <2> QED  BY <2>1, <2>5, <2>6, <2>7, <2>8, <2>9, <2>10 DEF RowMove
  <1>2. ASSUME NEW t \in Turns, NEW m \in Messages, loops'[t].control = m
        PROVE  /\ steering'[m].turn = t
               /\ steering'[m].status \notin {"none", "pending", "claimed"}
    <2> DEFINE r == steering[m]
               s == steering'[m]
    <2>1. loops[t].control = m
      BY <1>0, <1>2 DEF TurnMove
    <2>2. r.turn = t /\ r.status \notin {"none", "pending", "claimed"} /\ RowMove(r, s)
      BY <2>1 DEF FollowersKnown, RowsMove
    <2> HIDE DEF r, s
    <2>3. s.turn = t /\ s.status \notin {"none", "pending", "claimed"}
      BY <2>2 DEF RowMove, Posted, Revised, Withdrawn, Claimed, Released, Interpreted,
                  Applied, GivenBack
    <2> QED  BY <2>3 DEF s
  <1> QED  BY <1>0, <1>1, <1>2 DEF FollowersFine, FollowersKnown

\* A loop puts an instruction into its run's conversation.
LEMMA ReadingFollows ==
    ASSUME SteeringInv, NEW t \in Turns, ReadControl(t)
    PROVE  FollowersFine'
  <1> USE DEF SteeringInv
  <1>1. /\ Controls(t) \in SUBSET Messages /\ Controls(t) # {}
        /\ \A n \in Controls(t) : steering[n].turn = t /\ steering[n].status = "interpreted"
    BY DEF ReadControl, Controls, RowsOf
  <1>2. PICK m \in Messages : m = Oldest(Controls(t)) /\ m \in Controls(t)
    BY <1>1, OldestChosen
  <1>3. PICK k \in Nat : k = CurrentRun(t)
    <2>1. runs[t] \in Seq(RunStates)
      BY DEF Shape
    <2> QED  BY <2>1, LenProperties DEF CurrentRun
  <1>4. /\ loops[t].control = None
        /\ loops' = [loops EXCEPT ![t].control = m]
        /\ followed' = [followed EXCEPT ![m] = followed[m] \cup {<<t, k, "read">>}]
        /\ turns' = turns /\ runs' = runs /\ steering' = steering
    BY <1>2, <1>3 DEF ReadControl, At
  <1>5. steering[m].turn = t /\ steering[m].status = "interpreted" /\ m # None
    BY <1>1, <1>2
  <1>6. loops \in [Turns -> LoopState] /\ followed \in [Messages -> SUBSET Follower]
    BY DEF Shape
  <1>7. loops'[t].control = m /\ \A u \in Turns \ {t} : loops'[u].control = loops[u].control
    BY <1>4, <1>6 DEF LoopState
  <1>8. followed[m] = {}
    BY <1>4, <1>5 DEF FollowersKnown, FollowerKnown
  <1>9. /\ followed' \in [Messages -> SUBSET Follower]
        /\ followed'[m] = {<<t, k, "read">>}
        /\ \A n \in Messages \ {m} : followed'[n] = followed[n]
    <2>1. <<t, k, "read">> \in Follower
      BY DEF Follower
    <2> QED  BY <1>4, <1>6, <1>8, <2>1
  <1>10. FollowerKnown(m)'
    <2>1. steering'[m].turn = t /\ steering'[m].status = "interpreted"
      BY <1>4, <1>5
    <2>2. Len(runs'[t]) = k
      BY <1>3, <1>4 DEF CurrentRun
    <2> QED  BY <1>7, <1>9, <2>1, <2>2 DEF FollowerKnown, CurrentRun
  <1>11. ASSUME NEW n \in Messages \ {m}  PROVE FollowerKnown(n)'
    <2>1. FollowerKnown(n) /\ RowSettled(n)
      BY DEF FollowersKnown, RowsSettled
    <2>2. steering[n].status # "none" => steering[n].turn \in Turns
      BY <2>1 DEF RowSettled
    <2>3. steering[n].turn \in Turns =>
            (loops'[steering[n].turn].control = n <=> loops[steering[n].turn].control = n)
      BY <1>4, <1>7
    <2> QED  BY <1>4, <1>9, <2>1, <2>2, <2>3 DEF FollowerKnown, CurrentRun
  <1>12. ASSUME NEW u \in Turns, NEW n \in Messages, loops'[u].control = n
         PROVE  /\ steering'[n].turn = u
                /\ steering'[n].status \notin {"none", "pending", "claimed"}
    BY <1>4, <1>5, <1>7, <1>12 DEF FollowersKnown
  <1> QED  BY <1>9, <1>10, <1>11, <1>12 DEF FollowersFine, FollowersKnown

\* It writes the row, unless the row has been taken back.
LEMMA AcknowledgingFollows ==
    ASSUME SteeringInv, NEW t \in Turns, AcknowledgeApplied(t)
    PROVE  FollowersFine'
  <1> USE DEF SteeringInv
  <1>0. /\ loops \in [Turns -> LoopState] /\ followed \in [Messages -> SUBSET Follower]
        /\ runs[t] \in Seq(RunStates) /\ loops[t] \in LoopState
    BY DEF Shape
  <1>1. turns' = turns /\ runs' = runs /\ loops[t].control # None
    BY DEF AcknowledgeApplied
  <1>2. PICK m \in Messages : m = loops[t].control
    BY <1>0, <1>1 DEF LoopState
  <1>3. loops'[t].control = None /\ \A u \in Turns \ {t} : loops'[u].control = loops[u].control
    <2>1. \E pc, drained, result : loops' = [loops EXCEPT ![t] =
            [pc |-> pc, control |-> None, drained |-> drained, result |-> result]]
      BY DEF AcknowledgeApplied
    <2>2. PICK pc, drained, result : loops' = [loops EXCEPT ![t] =
            [pc |-> pc, control |-> None, drained |-> drained, result |-> result]]
      BY <2>1
    <2> QED  BY <1>0, <2>2
  <1>4. steering[m].turn = t /\ steering[m].status \notin {"none", "pending", "claimed"}
    BY <1>2 DEF FollowersKnown
  <1>5. PICK k \in Nat : k = CurrentRun(t)
    BY <1>0, LenProperties DEF CurrentRun
  <1>6. /\ followed' \in [Messages -> SUBSET Follower] /\ FollowerKnown(m)'
        /\ steering'[m].status \notin {"none", "pending", "claimed"} /\ steering'[m].turn = t
        /\ \A n \in Messages \ {m} : steering'[n] = steering[n] /\ followed'[n] = followed[n]
    <2>1. CASE Writable(t, m)
      <3>1. steering[m].status = "interpreted"
        BY <2>1 DEF Writable, RowsOf
      <3>2. followed[m] = {<<t, k, "read">>}
        BY <1>2, <1>4, <1>5, <3>1 DEF FollowersKnown, FollowerKnown
      <3>3. /\ steering' = SetStatus({m}, "applied")
            /\ followed' = [followed EXCEPT ![m] =
                 (followed[m] \ {<<t, k, "read">>}) \cup {<<t, k, "applied">>}]
        BY <1>2, <1>5, <2>1 DEF AcknowledgeApplied
      <3>4. /\ followed' \in [Messages -> SUBSET Follower]
            /\ followed'[m] = {<<t, k, "applied">>}
            /\ \A n \in Messages \ {m} : followed'[n] = followed[n]
        <4>1. <<t, k, "applied">> \in Follower
          BY DEF Follower
        <4> QED  BY <1>0, <3>2, <3>3, <4>1
      <3>5. /\ steering'[m].status = "applied" /\ steering'[m].turn = t
            /\ \A n \in Messages \ {m} : steering'[n] = steering[n]
        <4> DEFINE M == {m}
                   new == SetStatus(M, "applied")
        <4>1. /\ M \in SUBSET Messages /\ "applied" \in Statuses \ {"pending", "claimed"}
              /\ m \in M
          BY DEF Statuses
        <4>2. \A n \in Messages \ {m} : new[n] = steering[n]
          BY DEF SetStatus
        <4> HIDE DEF M
        <4>3. new[m].status = "applied" /\ new[m].turn = steering[m].turn
          BY <4>1, StatusWritten
        <4>4. steering' = new
          BY <3>3 DEF M
        <4> HIDE DEF new
        <4> QED  BY <1>4, <4>2, <4>3, <4>4
      <3>6. FollowerKnown(m)'
        BY <3>4, <3>5 DEF FollowerKnown
      <3> QED  BY <3>4, <3>5, <3>6
    <2>2. CASE ~Writable(t, m)
      <3>1. steering' = steering /\ followed' = followed
        BY <1>2, <2>2 DEF AcknowledgeApplied
      <3>2. steering[m].status # "interpreted"
        BY <1>4, <2>2 DEF Writable, RowsOf
      <3>3. FollowerKnown(m)
        BY DEF FollowersKnown
      <3>4. FollowerKnown(m)'
        BY <1>1, <3>1, <3>2, <3>3 DEF FollowerKnown
      <3> QED  BY <1>0, <1>4, <3>1, <3>4
    <2> QED  BY <2>1, <2>2
  <1>7. ASSUME NEW n \in Messages \ {m}  PROVE FollowerKnown(n)'
    <2>1. FollowerKnown(n) /\ RowSettled(n) /\ n # None
      BY DEF FollowersKnown, RowsSettled
    <2>2. steering[n].status # "none" => steering[n].turn \in Turns
      BY <2>1 DEF RowSettled
    <2>3. steering[n].turn \in Turns =>
            (loops'[steering[n].turn].control = n <=> loops[steering[n].turn].control = n)
      BY <1>2, <1>3, <2>1
    <2>4. steering'[n] = steering[n] /\ followed'[n] = followed[n]
      BY <1>6
    <2> QED  BY <1>1, <2>1, <2>2, <2>3, <2>4 DEF FollowerKnown, CurrentRun
  <1>8. ASSUME NEW u \in Turns, NEW n \in Messages, loops'[u].control = n
         PROVE  /\ steering'[n].turn = u
                /\ steering'[n].status \notin {"none", "pending", "claimed"}
    <2>1. u # t /\ loops[u].control = n
      BY <1>3, <1>8
    <2>2. steering[n].turn = u /\ steering[n].status \notin {"none", "pending", "claimed"}
      BY <2>1 DEF FollowersKnown
    <2>3. n # m
      BY <1>4, <2>1, <2>2
    <2> QED  BY <1>6, <2>2, <2>3
  <1> QED  BY <1>6, <1>7, <1>8 DEF FollowersFine, FollowersKnown

\* The conversations in memory are gone; what the rows say was followed stays.
LEMMA CrashForgets ==
    ASSUME SteeringInv, Die,
           \A m \in Messages : \/ steering'[m] = steering[m]
                               \/ /\ steering[m].status \in Unread
                                  /\ steering'[m].status = "held"
    PROVE  FollowersFine'
  <1> USE DEF SteeringInv
  <1>1. /\ loops' = [t \in Turns |-> IdleLoop]
        /\ followed' = [m \in Messages |-> {f \in followed[m] : f[3] = "applied"}]
    BY DEF Die
  <1>2. followed \in [Messages -> SUBSET Follower]
    BY DEF Shape
  <1>3. \A t \in Turns : loops'[t].control = None
    BY <1>1 DEF IdleLoop
  <1>4. followed' \in [Messages -> SUBSET Follower]
    BY <1>1, <1>2
  <1>5. ASSUME NEW m \in Messages  PROVE FollowerKnown(m)'
    <2>1. FollowerKnown(m) /\ RowSettled(m) /\ m # None
      BY DEF FollowersKnown, RowsSettled
    <2>2. followed'[m] = {f \in followed[m] : f[3] = "applied"}
      BY <1>1
    <2>3. steering[m].status \notin {"applied", "completed"} => followed'[m] = {}
      <3>1. steering[m].status \in Statuses
        BY DEF Shape, SteeringRow
      <3>2. steering[m].status \notin {"applied", "completed"} =>
              \A f \in followed[m] : f[3] # "applied"
        BY <2>1, <3>1 DEF FollowerKnown, Statuses
      <3> QED  BY <2>2, <3>2
    <2>4. CASE steering[m].status \in {"applied", "completed"}
      <3>1. steering'[m] = steering[m]
        BY <2>4 DEF Unread
      <3> QED  BY <2>1, <2>2, <2>4, <3>1 DEF FollowerKnown
    <2>5. CASE steering[m].status \notin {"applied", "completed"}
      <3>1. steering'[m].status \notin {"applied", "completed"} /\ followed'[m] = {}
        BY <2>3, <2>5
      <3>2. ASSUME steering'[m].status = "interpreted"
            PROVE  loops'[steering'[m].turn].control # m
        <4>1. steering'[m] = steering[m] /\ steering[m].turn \in Turns
          BY <2>1, <3>2 DEF RowSettled
        <4> QED  BY <1>3, <2>1, <4>1
      <3> QED  BY <3>1, <3>2 DEF FollowerKnown
    <2> QED  BY <2>4, <2>5
  <1> QED  BY <1>3, <1>4, <1>5 DEF FollowersFine, FollowersKnown

\* What was read and not acknowledged is torn from its row.
LEMMA CancellingTears ==
    ASSUME SteeringInv, NEW t \in Turns, CancelFails(t)
    PROVE  FollowersFine'
  <1> USE DEF SteeringInv
  <1> DEFINE torn(m) == {<<f[1], f[2], "torn">> : f \in followed[m]}
  <1>1. /\ loops' = loops /\ runs' = runs /\ CancelCutShort(t) /\ steering' = Held(t)
        /\ followed' = [m \in Messages |-> IF m \in RowsOf(t, Unread) THEN torn(m)
                                           ELSE followed[m]]
    BY DEF CancelFails, CancelCutShort
  <1>2. followed \in [Messages -> SUBSET Follower] /\ loops \in [Turns -> LoopState]
    BY DEF Shape
  <1>3. \A u \in Turns : turns'[u].outcome = turns[u].outcome
    BY <1>1, <1>2, CutShortSettled
  <1>4. /\ \A m \in Messages \ RowsOf(t, Unread) : steering'[m] = steering[m]
        /\ \A m \in RowsOf(t, Unread) :
             /\ steering[m].turn = t /\ steering[m].status \in Unread
             /\ steering'[m].status = "held" /\ steering'[m].turn = t
    BY <1>1, HeldRows
  <1>5. \A m \in Messages : torn(m) \in SUBSET Follower
    BY <1>2 DEF Follower
  <1>6. followed' \in [Messages -> SUBSET Follower]
    BY <1>1, <1>2, <1>5
  <1>7. ASSUME NEW m \in Messages  PROVE FollowerKnown(m)'
    <2>1. FollowerKnown(m) /\ RowSettled(m)
      BY DEF FollowersKnown, RowsSettled
    <2>2. CASE m \notin RowsOf(t, Unread)
      <3>1. followed'[m] = followed[m] /\ steering'[m] = steering[m]
        BY <1>1, <1>4, <2>2
      <3>2. steering[m].status # "none" => steering[m].turn \in Turns
        BY <2>1 DEF RowSettled
      <3> QED  BY <1>1, <1>3, <2>1, <3>1, <3>2 DEF FollowerKnown, CurrentRun
    <2>3. CASE m \in RowsOf(t, Unread)
      <3>1. /\ followed'[m] = torn(m) /\ steering'[m].status = "held"
            /\ steering[m].turn = t /\ steering[m].status \in Unread
        BY <1>1, <1>4, <2>3
      <3>2. \/ followed[m] = {}
            \/ followed[m] = {<<t, CurrentRun(t), "read">>}
        BY <2>1, <3>1 DEF FollowerKnown, Unread
      <3>3. CASE followed[m] = {}
        <4>1. followed'[m] = {}
          BY <3>1, <3>3
        <4> QED  BY <3>1, <4>1 DEF FollowerKnown
      <3>4. CASE followed[m] = {<<t, CurrentRun(t), "read">>}
        <4>1. followed'[m] = {<<t, CurrentRun(t), "torn">>}
          BY <3>1, <3>4
        <4> QED  BY <3>1, <4>1 DEF FollowerKnown
      <3> QED  BY <3>2, <3>3, <3>4
    <2> QED  BY <2>2, <2>3
  <1>8. ASSUME NEW u \in Turns, NEW n \in Messages, loops'[u].control = n
         PROVE  /\ steering'[n].turn = u
                /\ steering'[n].status \notin {"none", "pending", "claimed"}
    <2>1. steering[n].turn = u /\ steering[n].status \notin {"none", "pending", "claimed"}
      BY <1>1, <1>8 DEF FollowersKnown
    <2> QED  BY <1>4, <2>1
  <1> QED  BY <1>6, <1>7, <1>8 DEF FollowersFine, FollowersKnown

\* Only these steps change which run follows what.
LEMMA StepKeepsFollowers ==
    ASSUME SteeringInv, SteeringNext, RowsMove, RunsMove, TurnsFine',
           \/ TurnsMove
           \/ \E t \in Turns : ReadControl(t) \/ AcknowledgeApplied(t)
           \/ CrashGateway \/ CutShort
    PROVE  FollowersFine'
  <1>1. CASE CrashGateway
    BY <1>1, CrashForgets DEF CrashGateway
  <1>2. ASSUME NEW t \in Turns, ReadControl(t)  PROVE FollowersFine'
    BY <1>2, ReadingFollows
  <1>3. ASSUME NEW t \in Turns, AcknowledgeApplied(t)  PROVE FollowersFine'
    BY <1>3, AcknowledgingFollows
  <1>4. ASSUME NEW t \in Turns, CancelFails(t)  PROVE FollowersFine'
    BY <1>4, CancellingTears
  <1>5. ASSUME NEW t \in Turns, CrashInCancel(t)  PROVE FollowersFine'
    <2>1. steering' = Held(t) /\ Die /\ Shape
      BY <1>5 DEF CrashInCancel, CancelCutShort, SteeringInv
    <2>2. \A m \in Messages : \/ steering'[m] = steering[m]
                              \/ /\ steering[m].status \in Unread
                                 /\ steering'[m].status = "held"
      BY <2>1, HeldRows
    <2> QED  BY <2>1, <2>2, CrashForgets
  <1>6. CASE CutShort
    BY <1>4, <1>5, <1>6 DEF CutShort
  <1>7. \/ followed' = followed
        \/ \E t \in Turns : ReadControl(t) \/ AcknowledgeApplied(t)
        \/ CrashGateway \/ CutShort
    BY DEF SteeringNext, UserStep, CoordinatorStep, LoopStep, SendMessage, EditSteering,
        CancelSteering, PromoteHeld, CancelTurn, SetRuntimeModel, ListDue,
        InterpretPendingTurn, PersistInterpretation, ProbeAnswers, AcquireTurn,
        CreateAgentRun, DeliverAnswer, ExitRounds, PassFence, GiveUpAtFence, EndLoop,
        CommitTurn, AbortLoop, RecoverStaleLease, Heartbeat, ProjectTurn, BootGateway,
        CutShort
  <1>8. CASE TurnsMove /\ followed' = followed /\ ~CutShort
    BY <1>8, FollowersStay
  <1> QED  BY <1>1, <1>2, <1>3, <1>6, <1>7, <1>8

-------------------------------------------------------------------------------
(* The theorems *)

\* A thread begins with one queued turn and no steering.
LEMMA SteeringInvInit ==
    ASSUME SteeringInit
    PROVE  SteeringInv
  <1> USE DEF SteeringInit
  <1>1. /\ \A t \in Turns : turns[t] = NoTurn \/ turns[t] =
             [row |-> "queued", col |-> "queued", outcome |-> "open", outbox |-> <<>>]
        /\ \A t \in Turns : runs[t] = <<>> /\ loops[t] = IdleLoop
        /\ \A m \in Messages : steering[m] = NoSteering /\ followed[m] = {}
    BY DEF NoTurn
  <1>2. \A t \in Turns : turns[t] \in TurnRow /\ turns[t].outbox = <<>>
    BY <1>1, EmptySeq DEF NoTurn, TurnRow, RowStates, Projected
  <1>3. NoSteering \in SteeringRow /\ IdleLoop \in LoopState
    BY DEF NoSteering, SteeringRow, Statuses, IdleLoop, LoopState
  <1>4. IdleCoordinator \in CoordinatorState
    BY DEF IdleCoordinator, CoordinatorState
  <1>5. Shape
    <2>1. turns \in [Turns -> TurnRow]
      BY <1>2
    <2>2. runs \in [Turns -> Seq(RunStates)]
      BY EmptySeq
    <2>3. steering \in [Messages -> SteeringRow] /\ loops \in [Turns -> LoopState]
      BY <1>3
    <2>4. budget \in [sends : Nat, incidents : Nat]
      OBVIOUS
    <2>5. up \in BOOLEAN
      BY Zenon
    <2>6. followed \in [Messages -> SUBSET Follower]
      OBVIOUS
    <2> QED  BY <1>4, <2>1, <2>2, <2>3, <2>4, <2>5, <2>6 DEF Shape
  <1>6. RowsSettled
    BY <1>1 DEF RowsSettled, RowSettled, NoSteering
  <1>7. TurnsSettled
    <2>1. ASSUME NEW t \in Turns  PROVE TurnSettled(turns[t], loops[t])
      BY <1>1, <1>2 DEF TurnSettled, NoTurn, IdleLoop, EndedTurn
    <2> QED  BY <2>1 DEF TurnsSettled
  <1>8. CancelledHeld
    BY <1>1 DEF CancelledHeld, Unsettled, NoTurn
  <1>9. CopiesKnown
    BY DEF CopiesKnown, IdleCoordinator
  <1>10. FollowersKnown
    BY <1>1 DEF FollowersKnown, FollowerKnown, NoSteering, IdleLoop
  <1>11. DecisionIsCurrent
    BY <1>1 DEF DecisionIsCurrent, NoSteering
  <1> QED  BY <1>5, <1>6, <1>7, <1>8, <1>9, <1>10, <1>11 DEF SteeringInv

\* Every step keeps all of it.
LEMMA SteeringInvNext ==
    ASSUME SteeringInv, [SteeringNext]_steeringVars
    PROVE  SteeringInv'
  <1>1. CASE SteeringNext
    <2>1. RowsMove  BY <1>1, StepMovesRows
    <2>2. RunsMove  BY <1>1, StepMovesRuns
    <2>3. /\ TurnsFine'
          /\ \/ TurnsMove
             \/ \E t \in Turns : ReadControl(t) \/ AcknowledgeApplied(t)
             \/ CrashGateway \/ CutShort
      BY <1>1, StepMovesTurns
    <2>4. /\ budget' \in [sends : Nat, incidents : Nat]
          /\ budget'.incidents <= budget.incidents
          /\ up' \in BOOLEAN
      BY <1>1, StepSpends
    <2>5. RowsSettled'  BY <2>1, <2>2, <2>4, RowsStaySettled
    <2>6. DecisionIsCurrent'  BY <2>1, DecisionsStayCurrent
    <2>7. CopiesFine'  BY <1>1, <2>1, StepKeepsCopies
    <2>8. FollowersFine'  BY <1>1, <2>1, <2>2, <2>3, StepKeepsFollowers
    <2>9. CancelledHeld'  BY <1>1, <2>1, <2>3, StepKeepsHeld
    <2>10. Shape'
      BY <2>1, <2>2, <2>3, <2>4, <2>7, <2>8
      DEF Shape, RowsMove, RunsMove, TurnsFine, CopiesFine, FollowersFine
    <2> QED
      BY <2>3, <2>5, <2>6, <2>7, <2>8, <2>9, <2>10
      DEF SteeringInv, TurnsFine, CopiesFine, FollowersFine
  <1>2. CASE UNCHANGED steeringVars
    <2> USE <1>2 DEF SteeringInv, steeringVars
    <2>1. Shape'  BY DEF Shape
    <2>2. RowsSettled'  BY DEF RowsSettled, RowSettled
    <2>3. TurnsSettled'  BY DEF TurnsSettled
    <2>4. CopiesKnown'  BY DEF CopiesKnown, DueKnown, AnswerKnown, CopyKnown
    <2>5. FollowersKnown'  BY DEF FollowersKnown, FollowerKnown, CurrentRun
    <2>6. DecisionIsCurrent'  BY DEF DecisionIsCurrent
    <2>7. CancelledHeld'  BY DEF CancelledHeld, RowsOf
    <2> QED  BY <2>1, <2>2, <2>3, <2>4, <2>5, <2>6, <2>7
  <1> QED  BY <1>1, <1>2

\* The invariant holds in every reachable state of the thread.
THEOREM SteeringStaysSettled == SteeringSpec => []SteeringInv
  BY SteeringInvInit, SteeringInvNext, PTL DEF SteeringSpec

\* The columns of task rows and steering rows keep their shape: a row the broker
\* sees as finalizing is one the worker still runs (fence_chat_turn_finalization),
\* and a claimed row names a run that create_agent_run has made.
THEOREM SteeringKeepsItsTypes == SteeringSpec => []SteeringTypeOK
  <1>1. SteeringInv => SteeringTypeOK
    <2> SUFFICES ASSUME SteeringInv  PROVE SteeringTypeOK
      OBVIOUS
    <2> USE DEF SteeringInv
    <2>1. ASSUME NEW t \in Turns
          PROVE  /\ turns[t].row \in {"none", "queued", "running", "waiting", "parked"}
                                       \cup EndedTurn
                 /\ turns[t].col # turns[t].row =>
                      turns[t].row = "running" /\ turns[t].col = "finalizing"
                 /\ loops[t].pc \in {"idle", "starting", "rounds", "fence", "tail", "commit"}
      <3>1. turns[t] \in TurnRow /\ loops[t] \in LoopState /\ TurnSettled(turns[t], loops[t])
        BY DEF Shape, TurnsSettled
      <3> QED  BY <3>1 DEF TurnRow, RowStates, Projected, LoopState, TurnSettled
    <2>2. ASSUME NEW m \in Messages
          PROVE  /\ steering[m].status \in Statuses
                 /\ steering[m].attempts <= MaxOrphanAttempts + MaxIncidents
                 /\ steering[m].status \in {"claimed", "interpreted", "applied"}
                      => steering[m].run \in DOMAIN runs[steering[m].turn]
      <3>1. /\ steering[m].status \in Statuses /\ steering[m].attempts \in Nat
            /\ budget.incidents \in Nat
        BY DEF Shape, SteeringRow
      <3>2. RowSettled(m)
        BY DEF RowsSettled
      <3> QED  BY <3>1, <3>2 DEF RowSettled
    <2> QED  BY <2>1, <2>2 DEF SteeringTypeOK
  <1> QED  BY <1>1, SteeringStaysSettled, PTL

\* What a run is told is what the user wrote last, whatever happens between the
\* claim of a row and the model's answer (interpret_pending_turn).
THEOREM DecisionsAreCurrent == SteeringSpec => []DecisionIsCurrent
  <1>1. SteeringInv => DecisionIsCurrent
    BY DEF SteeringInv
  <1> QED  BY <1>1, SteeringStaysSettled, PTL

\* No message is in the conversations of two runs, and none that a run follows
\* is given back to the user, unless a cancellation came between its reading and
\* its acknowledgement (acknowledge_turn_control_applied), carried out or cut short.
THEOREM MessagesAreFollowedOnce == SteeringSpec => []FollowedOnce
  <1>1. SteeringInv => FollowedOnce
    <2> SUFFICES ASSUME SteeringInv, NEW m \in Messages
                 PROVE  /\ Cardinality(followed[m]) <= 1
                        /\ steering[m].status \in {"held", "promoted"} =>
                             \A f \in followed[m] :
                               \/ f[3] = "read" /\ turns[f[1]].outcome = "cancelled"
                               \/ f[3] = "torn"
      BY DEF FollowedOnce
    <2>1. FollowerKnown(m)
      BY DEF SteeringInv, FollowersKnown
    <2>2. steering[m].status \in Statuses
      BY DEF SteeringInv, Shape, SteeringRow
    <2>3. followed[m] = {} \/ \E f : followed[m] = {f}
      BY <2>1, <2>2 DEF FollowerKnown, Statuses
    <2>4. Cardinality(followed[m]) <= 1
      <3>1. CASE followed[m] = {}
        BY <3>1, FS_EmptySet
      <3>2. ASSUME NEW f, followed[m] = {f}  PROVE Cardinality(followed[m]) <= 1
        <4>1. Cardinality({f}) = 1  BY FS_Singleton
        <4> QED  BY <3>2, <4>1
      <3> QED  BY <2>3, <3>1, <3>2
    <2>5. steering[m].status \in {"held", "promoted"} =>
            \A f \in followed[m] : \/ f[3] = "read" /\ turns[f[1]].outcome = "cancelled"
                                   \/ f[3] = "torn"
      BY <2>1 DEF FollowerKnown
    <2> QED  BY <2>4, <2>5
  <1> QED  BY <1>1, SteeringStaysSettled, PTL

\* A row that was given back, withdrawn, promoted or completed is not taken from
\* the user again: a late answer, release or acknowledgement finds the row's
\* status changed (mark_turn_steering_interpreted, release_turn_steering_for_retry,
\* mark_turn_steering_applied) and writes nothing.
THEOREM RowsStayGivenBack == SteeringSpec => GivenBackStays
  <1> DEFINE Stays ==
        \A m \in Messages :
          steering[m].status \in {"held", "cancelled", "promoted", "completed"} =>
            \/ steering'[m].status = steering[m].status
            \/ /\ steering[m].status = "held"
               /\ steering'[m].status \in {"promoted", "cancelled"}
  <1>1. SteeringInv /\ [SteeringNext]_steeringVars => [Stays]_steeringVars
    <2> SUFFICES ASSUME SteeringInv, SteeringNext  PROVE Stays
      OBVIOUS
    <2> SUFFICES ASSUME NEW m \in Messages,
                        steering[m].status \in {"held", "cancelled", "promoted", "completed"}
                 PROVE  \/ steering'[m].status = steering[m].status
                        \/ /\ steering[m].status = "held"
                           /\ steering'[m].status \in {"promoted", "cancelled"}
      OBVIOUS
    <2>1. RowMove(steering[m], steering'[m])
      BY StepMovesRows DEF RowsMove
    <2> QED
      BY <2>1 DEF RowMove, Posted, Revised, Withdrawn, Claimed, Released, Interpreted,
                  Applied, GivenBack, Unread
  <1> QED  BY <1>1, SteeringStaysSettled, PTL DEF SteeringSpec, GivenBackStays

===============================================================================

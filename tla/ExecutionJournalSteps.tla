------------------------- MODULE ExecutionJournalSteps -------------------------
(***************************************************************************)
(* What one step may do to the journal, for any executions, owners,        *)
(* conditions and bounds: the action properties of ExecutionJournal.  A    *)
(* step leaves the chain of an execution alone, creates it, rewrites its   *)
(* open latest revision, or resumes it.                                    *)
(***************************************************************************)
EXTENDS ExecutionJournalProofs

USE JournalAssumption

Rewritten(x) ==
    LET n == Len(journal[x]) IN
    /\ Unsealed(journal[x][n])
    /\ Len(journal'[x]) = n
    /\ \A r \in 1 .. n - 1 : journal'[x][r] = journal[x][r]
    /\ journal[x][n].fence <= journal'[x][n].fence
    /\ \/ journal[x][n].attempt = NoAttempt
       \/ journal'[x][n].attempt = journal[x][n].attempt
       \/ journal[x][n].fence < journal'[x][n].fence

ResumedBy(x, p) ==
    LET n == Len(journal[x]) IN
    /\ journal[x][n].delivery = None
    /\ Len(journal'[x]) = n + 1
    /\ \A r \in 1 .. n - 1 : journal'[x][r] = journal[x][r]
    /\ journal'[x][n] = [journal[x][n] EXCEPT !.delivery = p]
    /\ journal'[x][n + 1] = FreshRevision(journal[x][n].fence + 1)

Effect(x) ==
    \/ ~Exists(x)
    \/ journal'[x] = journal[x]
    \/ Exists(x) /\ Rewritten(x)
    \/ Exists(x) /\ \E p \in Payloads : ResumedBy(x, p)

-------------------------------------------------------------------------------

\* A step that replaces the open latest revision of x.
LEMMA RewriteEffect ==
    ASSUME JournalConsistent, NEW x \in Executions, Exists(x),
           Latest(x).outcome = NoOutcome,
           NEW rv \in Revision, Latest(x).fence <= rv.fence,
           \/ Latest(x).attempt = NoAttempt
           \/ rv.attempt = Latest(x).attempt
           \/ Latest(x).fence < rv.fence,
           journal'[x] = [journal[x] EXCEPT ![Len(journal[x])] = rv]
    PROVE  Effect(x)
  <1> DEFINE s == journal[x]
             n == Len(s)
             t == journal'[x]
  <1>1. s \in Seq(Revision) /\ s # <<>>  BY ConsistentByChains DEF ChainOK, Exists
  <1>2. n \in Nat \ {0} /\ n \in 1 .. n  BY <1>1, EmptySeq
  <1>3. Len(t) = n /\ \A j \in 1 .. n : t[j] = IF j = n THEN rv ELSE s[j]
    BY <1>1, <1>2, ExceptSeq
  <1>4. t[n] = rv /\ \A j \in 1 .. n - 1 : t[j] = s[j]  BY <1>2, <1>3
  <1>5. s[n] = Latest(x)  BY DEF Latest, LatestRevision
  <1> HIDE DEF s, t
  <1> QED  BY <1>3, <1>4, <1>5 DEF Effect, Rewritten, Unsealed, s, t

\* The same for an operation that writes WithLatest, on every execution.
LEMMA WithLatestEffect ==
    ASSUME JournalConsistent, NEW x \in Executions, Exists(x),
           Latest(x).outcome = NoOutcome,
           NEW rv \in Revision, Latest(x).fence <= rv.fence,
           \/ Latest(x).attempt = NoAttempt
           \/ rv.attempt = Latest(x).attempt
           \/ Latest(x).fence < rv.fence,
           journal' = WithLatest(x, rv),
           NEW y \in Executions
    PROVE  Effect(y)
  <1>1. /\ journal'[x] = [journal[x] EXCEPT ![Len(journal[x])] = rv]
        /\ \A z \in Executions \ {x} : journal'[z] = journal[z]
    BY WithLatestFacts
  <1>2. CASE y = x
    <2>1. Effect(x)  BY <1>1, RewriteEffect
    <2> QED  BY <2>1, <1>2
  <1>3. CASE y # x  BY <1>1, <1>3 DEF Effect
  <1> QED  BY <1>2, <1>3

\* start_execution_attempt
LEMMA StartEffect ==
    ASSUME JournalConsistent, StartAttempt, NEW y \in Executions
    PROVE  Effect(y)
  <1> PICK x \in Executions, r \in Revisions, f \in 1 .. MaxFence, o \in Owners :
           StartExecutionAttempt(x, r, f, o)
    BY DEF StartAttempt, Fences
  <1> DEFINE old == Latest(x)
             rv == [old EXCEPT !.state = "running", !.attempt = [owner |-> o, fence |-> f]]
  <1>1. /\ Exists(x) /\ old.outcome = NoOutcome /\ old.state = "ready"
        /\ journal' = WithLatest(x, rv)
    BY DEF StartExecutionAttempt, MayStartAttempt
  <1>2. old \in Revision /\ RevisionConsistent(old) /\ old.fence \in 1 .. MaxFence
    BY <1>1, LatestFacts
  <1>3. rv \in Revision /\ rv.fence = old.fence  BY <1>2 DEF Revision, Attempt
  <1>4. old.attempt = NoAttempt  BY <1>1, <1>2 DEF RevisionConsistent
  <1>5. old.fence <= rv.fence  BY <1>2, <1>3
  <1> HIDE DEF rv, old
  <1> QED  BY <1>1, <1>3, <1>4, <1>5, WithLatestEffect DEF old

\* reclaim_execution_attempt
LEMMA ReclaimEffect ==
    ASSUME JournalConsistent, ReclaimAttempt, NEW y \in Executions
    PROVE  Effect(y)
  <1> PICK x \in Executions, r \in Revisions, e \in 1 .. MaxFence, f \in 1 .. MaxFence,
           o \in Owners : ReclaimExecutionAttempt(x, r, e, f, o)
    BY DEF ReclaimAttempt, Fences
  <1> DEFINE old == Latest(x)
             rv == [old EXCEPT !.fence = f, !.attempt = [owner |-> o, fence |-> f]]
  <1>1. /\ Exists(x) /\ old.outcome = NoOutcome /\ old.fence = e /\ f > e
        /\ journal' = WithLatest(x, rv)
    BY DEF ReclaimExecutionAttempt, MayReclaimAttempt
  <1>2. old \in Revision  BY <1>1, LatestFacts
  <1>3. rv \in Revision /\ rv.fence = f  BY <1>2 DEF Revision, Attempt
  <1>4. old.fence <= rv.fence /\ old.fence < rv.fence  BY <1>1, <1>3
  <1> HIDE DEF rv, old
  <1> QED  BY <1>1, <1>3, <1>4, WithLatestEffect DEF old

\* advance_execution_fence
LEMMA AdvanceEffect ==
    ASSUME JournalConsistent, AdvanceFence, NEW y \in Executions
    PROVE  Effect(y)
  <1> PICK x \in Executions, r \in Revisions, e \in 1 .. MaxFence, f \in 1 .. MaxFence :
           AdvanceExecutionFence(x, r, e, f)
    BY DEF AdvanceFence, Fences
  <1> DEFINE old == Latest(x)
             rv == [old EXCEPT !.fence = f]
  <1>1. /\ Exists(x) /\ old.outcome = NoOutcome /\ old.fence = e /\ f > e
        /\ journal' = WithLatest(x, rv)
    BY DEF AdvanceExecutionFence, MayAdvanceFence
  <1>2. old \in Revision  BY <1>1, LatestFacts
  <1>3. rv \in Revision /\ rv.fence = f  BY <1>2 DEF Revision
  <1>4. old.fence <= rv.fence /\ old.fence < rv.fence  BY <1>1, <1>3
  <1> HIDE DEF rv, old
  <1> QED  BY <1>1, <1>3, <1>4, WithLatestEffect DEF old

\* commit_execution_outcome and the parent of continue_execution_as_new: the
\* revision keeps its fence and attempt.
LEMMA SealEffect ==
    ASSUME JournalConsistent, NEW x \in Executions, Exists(x),
           Latest(x).outcome = NoOutcome, NEW o \in Outcomes,
           journal'[x] = Committed(x, o)[x]
    PROVE  Effect(x)
  <1> DEFINE old == Latest(x)
             rv == SealedBy(x, o)
  <1>1. old \in Revision  BY LatestFacts
  <1>2. rv \in Revision /\ rv.fence = old.fence /\ rv.attempt = old.attempt
    BY <1>1, SealedRevision DEF SealedBy, Revision
  <1>3. old.fence \in Nat  BY <1>1 DEF Revision
  <1>4. journal = [z \in Executions |-> journal[z]]  BY ConsistentByChains
  <1>5. journal'[x] = [journal[x] EXCEPT ![Len(journal[x])] = rv]
    BY <1>4 DEF Committed, WithLatest, LatestRevision
  <1> HIDE DEF rv
  <1> QED  BY <1>1, <1>2, <1>3, <1>5, RewriteEffect

\* A commit seals the open latest revision of one execution.
LEMMA CommitEffect ==
    ASSUME JournalConsistent, Commit, NEW y \in Executions
    PROVE  Effect(y)
  <1> PICK x \in Executions, r \in Revisions, f \in 1 .. MaxFence, o \in PlainOutcomes,
           q \in BOOLEAN : CommitExecutionOutcome(x, r, f, o, q)
    BY DEF Commit, Fences
  <1>1. Exists(x) /\ Latest(x).outcome = NoOutcome /\ journal' = Committed(x, o)
    BY DEF CommitExecutionOutcome, FoldsOutcomeCommitted, Unsealed
  <1>2. o \in Outcomes  BY DEF Outcomes
  <1>3. CASE y = x
    <2>1. Effect(x)  BY <1>1, <1>2, SealEffect
    <2> QED  BY <2>1, <1>3
  <1>4. CASE y # x
    <2>1. journal'[y] = journal[y]
      BY <1>1, <1>4, WithLatestFacts DEF Committed
    <2> QED  BY <2>1 DEF Effect
  <1> QED  BY <1>3, <1>4

\* A continuation seals the parent and creates the child.
LEMMA ContinueEffect ==
    ASSUME JournalConsistent, ContinueAsNew, NEW y \in Executions
    PROVE  Effect(y)
  <1> PICK x \in Executions, r \in Revisions, f \in 1 .. MaxFence, g \in 1 .. MaxFence,
           o \in LinkedOutcomes : ContinueExecutionAsNew(x, r, f, o, g)
    BY DEF ContinueAsNew, Fences
  <1> DEFINE c == o.next
  <1>1. /\ Exists(x) /\ Latest(x).outcome = NoOutcome
        /\ c \in Executions /\ c # x /\ ~Exists(c)
        /\ journal' = [Committed(x, o) EXCEPT ![c] = <<FreshRevision(g)>>]
    BY DEF ContinueExecutionAsNew, FoldsOutcomeCommitted, Unsealed
  <1>2. o \in Outcomes  BY DEF Outcomes
  <1>3. journal = [z \in Executions |-> journal[z]]  BY ConsistentByChains
  <1>4. /\ journal'[x] = Committed(x, o)[x]
        /\ \A z \in Executions : z # x /\ z # c => journal'[z] = journal[z]
    BY <1>1, <1>3 DEF Committed, WithLatest
  <1>5. CASE y = x
    <2>1. Effect(x)  BY <1>1, <1>2, <1>4, SealEffect
    <2> QED  BY <2>1, <1>5
  <1>6. CASE y = c  BY <1>1, <1>6 DEF Effect
  <1>7. CASE y # x /\ y # c  BY <1>4, <1>7 DEF Effect
  <1> QED  BY <1>5, <1>6, <1>7

\* deliver_pending_wake_on, for one row or for a batch
LEMMA DeliverEffect ==
    ASSUME JournalConsistent, NEW D, D \subseteq Pending, NEW p \in Payloads,
           DeliverWakes(D, p), NEW y \in Executions
    PROVE  Effect(y)
  <1>1. CASE ~\E w \in D : w.exec = y
    BY <1>1 DEF DeliverWakes, Effect
  <1>2. CASE \E w \in D : w.exec = y
    <2> DEFINE s == journal[y]
               t == journal'[y]
    <2>1. Exists(y) /\ Latest(y).outcome.kind = "suspended"
      BY <1>2, DeliveredRows
    <2>2. ChainOK(s) /\ s # <<>> /\ s[Len(s)].outcome.kind = "suspended"
      BY <2>1, ConsistentByChains DEF Exists, Latest, LatestRevision
    <2>3. s \in Seq(Revision) /\ ChainConsistent(s) /\ s[Len(s)].fence < MaxFence
      BY <2>2 DEF ChainOK
    <2>4. s[Len(s)].delivery = None
      BY <2>1, LatestFacts DEF Latest, LatestRevision
    <2>5. t = ResumedChain(s, p)  BY <1>2 DEF DeliverWakes, Resumed
    <2> HIDE DEF s, t
    <2>6. /\ Len(t) = Len(s) + 1
          /\ t[Len(s) + 1] = FreshRevision(s[Len(s)].fence + 1)
          /\ t[Len(s)] = [s[Len(s)] EXCEPT !.delivery = p]
          /\ \A r \in 1 .. Len(s) - 1 : t[r] = s[r]
      BY <2>2, <2>3, <2>5, ResumeChain
    <2>7. ResumedBy(y, p)  BY <2>4, <2>6 DEF ResumedBy, s, t
    <2> QED  BY <2>1, <2>7 DEF Effect
  <1> QED  BY <1>1, <1>2

\* Every step, on every execution.
LEMMA StepEffect ==
    ASSUME JournalConsistent, [JournalNext]_journalVars, NEW y \in Executions
    PROVE  Effect(y)
  <1>1. CASE Create
    <2> PICK x \in Executions, f \in Fences : CreateExecution(x, f)
      BY <1>1 DEF Create
    <2>1. ~Exists(x) /\ (y # x => journal'[y] = journal[y])
      <3>1. journal = [z \in Executions |-> journal[z]]  BY ConsistentByChains
      <3> QED  BY <3>1 DEF CreateExecution
    <2> QED  BY <2>1 DEF Effect
  <1>2. CASE StartAttempt  BY <1>2, StartEffect
  <1>3. CASE ReclaimAttempt  BY <1>3, ReclaimEffect
  <1>4. CASE AdvanceFence  BY <1>4, AdvanceEffect
  <1>5. CASE Commit  BY <1>5, CommitEffect
  <1>6. CASE ContinueAsNew  BY <1>6, ContinueEffect
  <1>7. CASE WakeDue
    <2> PICK p \in Payloads, D \in SUBSET {w \in Pending : w.condition \in Timers} :
             WakeDueExecutions(D, p)
      BY <1>7 DEF WakeDue
    <2>1. D \subseteq Pending /\ DeliverWakes(D, p)  BY DEF WakeDueExecutions
    <2> QED  BY <2>1, DeliverEffect
  <1>8. CASE DeliverWake
    <2> PICK c \in Conditions \ Timers, p \in Payloads : DeliverExecutionWake(c, p)
      BY <1>8 DEF DeliverWake
    <2> DEFINE D == {w \in Pending : w.condition = c}
    <2>1. D \subseteq Pending /\ DeliverWakes(D, p)  BY DEF DeliverExecutionWake
    <2> HIDE DEF D
    <2> QED  BY <2>1, DeliverEffect
  <1>9. CASE Discard
    BY <1>9 DEF Discard, DiscardPendingWakes, Effect
  <1>10. CASE UNCHANGED journalVars
    BY <1>10 DEF journalVars, Effect
  <1> QED  BY <1>1, <1>2, <1>3, <1>4, <1>5, <1>6, <1>7, <1>8, <1>9, <1>10 DEF JournalNext

-------------------------------------------------------------------------------
(* Theorems *)

\* Fencing tokens of an execution never go back, and a running attempt passes to
\* another owner only with a larger one (reclaim_execution_attempt,
\* advance_execution_fence, start_execution_revision_on).
THEOREM FencedForEver == JournalSpec => FencingHolds
  <1>1. ASSUME JournalConsistent, [JournalNext]_journalVars PROVE FenceRises
    <2> SUFFICES ASSUME NEW x \in Executions, Exists(x)
                 PROVE  /\ Latest(x).fence <= Latest(x)'.fence
                        /\ LatestRevision(x) < LatestRevision(x)' =>
                             Latest(x).fence < Latest(x)'.fence
                        /\ /\ LatestRevision(x) = LatestRevision(x)'
                           /\ Latest(x).attempt # NoAttempt
                           /\ Latest(x).attempt # Latest(x)'.attempt
                           => Latest(x).fence < Latest(x)'.fence
      BY DEF FenceRises
    <2> DEFINE n == Len(journal[x])
    <2>1. Effect(x)  BY <1>1, StepEffect
    <2>2. n \in Nat /\ journal[x][n].fence \in 1 .. MaxFence
      BY <1>1, LatestFacts DEF Latest, LatestRevision
    <2>3. CASE journal'[x] = journal[x]
      BY <2>2, <2>3 DEF Latest, LatestRevision
    <2>4. CASE Rewritten(x)
      BY <2>2, <2>4 DEF Rewritten, Latest, LatestRevision
    <2>5. ASSUME NEW p \in Payloads, ResumedBy(x, p)
          PROVE  LatestRevision(x)' = n + 1 /\ Latest(x)'.fence = journal[x][n].fence + 1
      BY <2>5 DEF ResumedBy, FreshRevision, Latest, LatestRevision
    <2>6. CASE \E p \in Payloads : ResumedBy(x, p)
      BY <2>2, <2>5, <2>6 DEF Latest, LatestRevision
    <2> QED  BY <2>1, <2>3, <2>4, <2>6 DEF Effect
  <1> QED  BY <1>1, JournalStaysConsistent, PTL DEF JournalSpec, FencingHolds

\* A committed outcome is final: no operation of the store changes the outcome,
\* fence or attempt of a sealed revision, or a payload once it is delivered.
THEOREM OutcomesStaySealed == JournalSpec => OutcomesSealed
  <1>1. ASSUME JournalConsistent, [JournalNext]_journalVars PROVE OutcomesKept
    <2> SUFFICES ASSUME NEW x \in Executions, NEW r \in 1 .. LatestRevision(x),
                        journal[x][r].outcome # NoOutcome
                 PROVE  /\ r <= LatestRevision(x)'
                        /\ journal'[x][r].outcome = journal[x][r].outcome
                        /\ journal'[x][r].fence = journal[x][r].fence
                        /\ journal'[x][r].attempt = journal[x][r].attempt
                        /\ journal[x][r].delivery # None =>
                             journal'[x][r].delivery = journal[x][r].delivery
      BY DEF OutcomesKept
    <2> DEFINE n == Len(journal[x])
    <2>1. Effect(x)  BY <1>1, StepEffect
    <2>2. Exists(x)
      <3>1. Len(<<>>) = 0  BY EmptySeq
      <3> QED  BY <3>1 DEF Exists, LatestRevision
    <2>3. n \in Nat /\ r \in 1 .. n /\ journal[x][n] \in Revision
      BY <1>1, <2>2, LatestFacts DEF Latest, LatestRevision
    <2>4. CASE journal'[x] = journal[x]
      BY <2>3, <2>4 DEF LatestRevision
    <2>5. CASE Rewritten(x)
      <3>1. r # n  BY <2>5 DEF Rewritten, Unsealed
      <3>2. r \in 1 .. n - 1  BY <3>1, <2>3
      <3> QED  BY <2>3, <2>5, <3>2 DEF Rewritten, LatestRevision
    <2>6. ASSUME NEW p \in Payloads, ResumedBy(x, p)
          PROVE  /\ LatestRevision(x)' = n + 1
                 /\ journal[x][n].delivery = None
                 /\ r = n => /\ journal'[x][r].outcome = journal[x][r].outcome
                             /\ journal'[x][r].fence = journal[x][r].fence
                             /\ journal'[x][r].attempt = journal[x][r].attempt
                 /\ r # n => journal'[x][r] = journal[x][r]
      <3>1. r # n => r \in 1 .. n - 1  BY <2>3
      <3> QED  BY <2>3, <2>6, <3>1 DEF ResumedBy, LatestRevision, Revision
    <2>7. CASE \E p \in Payloads : ResumedBy(x, p)
      BY <2>3, <2>6, <2>7
    <2> QED  BY <2>1, <2>2, <2>4, <2>5, <2>7 DEF Effect
  <1> QED  BY <1>1, JournalStaysConsistent, PTL DEF JournalSpec, OutcomesSealed
===============================================================================

---------------------- MODULE ExecutionJournalRefinement ----------------------
(***************************************************************************)
(* The journal implements the contract of ExecutionContract, for any       *)
(* executions, owners, conditions and bounds: the outcomes of an execution *)
(* are those of its sealed revisions, and it is open while its latest      *)
(* revision has none.  A commit is a Seal of the contract, the delivery of *)
(* wakes a Resume, a continuation a Continue; the steps that move attempts *)
(* and fences stutter.                                                     *)
(***************************************************************************)
EXTENDS ExecutionJournalProofs

USE JournalAssumption

-------------------------------------------------------------------------------
(* The contract's view of one chain of revisions *)

OpenChain(s) == s # <<>> /\ s[Len(s)].outcome = NoOutcome
SealedLen(s) == IF OpenChain(s) THEN Len(s) - 1 ELSE Len(s)
SealedOf(s) == [r \in 1 .. SealedLen(s) |-> s[r].outcome]

\* What the contract sees of the journal, chain by chain.
LEMMA ContractView ==
    /\ SealedOutcomes = [x \in Executions |-> SealedOf(journal[x])]
    /\ OpenExecutions = {x \in Executions : OpenChain(journal[x])}
  BY DEF SealedOutcomes, SealedCount, OpenExecutions, OpenChain, SealedLen, SealedOf,
         Exists, Latest, LatestRevision, Unsealed

\* The same of the next state.
LEMMA ContractViewNext ==
    /\ SealedOutcomes' = [x \in Executions |-> SealedOf(journal'[x])]
    /\ OpenExecutions' = {x \in Executions : OpenChain(journal'[x])}
  BY DEF SealedOutcomes, SealedCount, OpenExecutions, OpenChain, SealedLen, SealedOf,
         Exists, Latest, LatestRevision, Unsealed

\* The chains of the next state.
LEMMA NextByChains ==
    ASSUME JournalConsistent'
    PROVE  \A x \in Executions : ChainOK(journal'[x])
  BY DEF JournalConsistent, JournalTypeOK, SuspendedHasRoom, RoomToResume, ChainOK,
         Exists, Latest, LatestRevision

\* Sealed revisions have outcomes, and all but the latest are suspensions.
LEMMA SealedSeq ==
    ASSUME NEW s, ChainOK(s)
    PROVE  /\ SealedLen(s) \in Nat
           /\ SealedOf(s) \in Seq(Outcomes)
           /\ Len(SealedOf(s)) = SealedLen(s)
           /\ \A r \in 1 .. SealedLen(s) : SealedOf(s)[r] = s[r].outcome
  <1> DEFINE n == Len(s)
             m == SealedLen(s)
  <1>1. s \in Seq(Revision) /\ ChainConsistent(s) /\ n \in Nat
    BY LenProperties DEF ChainOK
  <1>2. s # <<>> => n \in Nat \ {0}
    BY <1>1, EmptySeq
  <1>3. m \in Nat /\ m <= n /\ (m = n => ~OpenChain(s)) /\ (s # <<>> => n > 0)
    BY <1>1, <1>2 DEF SealedLen, OpenChain
  <1>4. ASSUME NEW r \in 1 .. m  PROVE s[r].outcome \in Outcomes
    <2>1. r \in 1 .. n /\ s # <<>>
      <3>1. Len(<<>>) = 0  BY EmptySeq
      <3> QED  BY <1>1, <1>3, <3>1
    <2>2. s[r] \in Revision
      BY <1>1, <2>1, ElementOfSeq
    <2>3. r # n => s[r].outcome.kind = "suspended"
      BY <1>1, <2>1 DEF ChainConsistent, RevisionConsistent
    <2>4. r = n => s[r].outcome # NoOutcome
      BY <1>1, <1>3, <2>1 DEF OpenChain
    <2>5. s[r].outcome # NoOutcome
      BY <2>3, <2>4 DEF NoOutcome
    <2> QED  BY <2>2, <2>5 DEF Revision
  <1> HIDE DEF m
  <1>5. [r \in 1 .. m |-> s[r].outcome] \in [1 .. m -> Outcomes]
    BY <1>4
  <1>6. SealedOf(s) = [r \in 1 .. m |-> s[r].outcome]
    BY DEF SealedOf, m
  <1>7. SealedOf(s) \in Seq(Outcomes) /\ Len(SealedOf(s)) = m
    BY <1>3, <1>5, <1>6
  <1>8. \A r \in 1 .. m : SealedOf(s)[r] = s[r].outcome
    BY <1>6
  <1> QED  BY <1>3, <1>7, <1>8 DEF m

\* An execution that was not created shows nothing.
LEMMA EmptyView == ~OpenChain(<<>>) /\ SealedOf(<<>>) = <<>>
  <1>1. ChainOK(<<>>) /\ Len(<<>>) = 0
    BY EmptyChainOK, EmptySeq
  <1>2. ~OpenChain(<<>>) /\ SealedLen(<<>>) = 0
    BY <1>1 DEF OpenChain, SealedLen
  <1>3. SealedOf(<<>>) \in Seq(Outcomes) /\ Len(SealedOf(<<>>)) = 0
    BY <1>1, <1>2, SealedSeq
  <1> QED  BY <1>2, <1>3, EmptySeq

\* An execution that was just created is open and has no outcome.
LEMMA FreshView ==
    ASSUME NEW f \in 1 .. MaxFence, MaxRevision >= 1
    PROVE  OpenChain(<<FreshRevision(f)>>) /\ SealedOf(<<FreshRevision(f)>>) = <<>>
  <1> DEFINE s == <<FreshRevision(f)>>
  <1>1. ChainOK(s) /\ Len(s) = 1 /\ s[1] = FreshRevision(f) /\ s # <<>>
    BY FreshChainOK, FreshChain
  <1> HIDE DEF s
  <1>2. OpenChain(s) /\ SealedLen(s) = 0
    BY <1>1, FreshIsConsistent DEF OpenChain, SealedLen
  <1>3. SealedOf(s) \in Seq(Outcomes) /\ Len(SealedOf(s)) = 0
    BY <1>1, <1>2, SealedSeq
  <1> QED  BY <1>2, <1>3, EmptySeq DEF s

\* Two chains with the same sealed outcomes show the same.
LEMMA SameView ==
    ASSUME NEW s, ChainOK(s), NEW t, ChainOK(t), SealedLen(t) = SealedLen(s),
           \A r \in 1 .. SealedLen(s) : t[r].outcome = s[r].outcome
    PROVE  SealedOf(t) = SealedOf(s)
  BY SealedSeq, SeqEqual

\* A revision that stays open is not seen.
LEMMA OpenView ==
    ASSUME NEW s, ChainOK(s), OpenChain(s), NEW rv \in Revision, rv.outcome = NoOutcome,
           NEW t, ChainOK(t), t = [s EXCEPT ![Len(s)] = rv]
    PROVE  OpenChain(t) /\ SealedOf(t) = SealedOf(s)
  <1>1. s \in Seq(Revision) /\ s # <<>>
    BY DEF ChainOK, OpenChain
  <1>2. Len(s) \in Nat \ {0} /\ Len(s) \in 1 .. Len(s)
    BY <1>1, EmptySeq
  <1>3. /\ Len(t) = Len(s)
        /\ \A j \in 1 .. Len(s) : t[j] = IF j = Len(s) THEN rv ELSE s[j]
    BY <1>1, <1>2, ExceptSeq
  <1>4. t[Len(t)] = rv /\ \A j \in 1 .. Len(s) - 1 : t[j] = s[j]
    BY <1>2, <1>3
  <1>5. t # <<>>
    <2>1. Len(<<>>) = 0  BY EmptySeq
    <2> QED  BY <1>2, <1>3, <2>1
  <1>6. OpenChain(t) /\ SealedLen(t) = Len(s) - 1 /\ SealedLen(s) = Len(s) - 1
    BY <1>3, <1>4, <1>5 DEF OpenChain, SealedLen
  <1> QED  BY <1>4, <1>6, SameView

\* An outcome is appended to the ones that are there.
LEMMA SealView ==
    ASSUME NEW s, ChainOK(s), OpenChain(s), NEW rv \in Revision, rv.outcome \in Outcomes,
           NEW t, ChainOK(t), t = [s EXCEPT ![Len(s)] = rv]
    PROVE  ~OpenChain(t) /\ SealedOf(t) = Append(SealedOf(s), rv.outcome)
  <1> DEFINE n == Len(s)
             o == rv.outcome
  <1>1. s \in Seq(Revision) /\ s # <<>>
    BY DEF ChainOK, OpenChain
  <1>2. n \in Nat \ {0} /\ n \in 1 .. n
    BY <1>1, EmptySeq
  <1>3. /\ Len(t) = n
        /\ \A j \in 1 .. n : t[j] = IF j = n THEN rv ELSE s[j]
    BY <1>1, <1>2, ExceptSeq
  <1>4. t[n] = rv /\ \A j \in 1 .. n - 1 : t[j] = s[j]
    BY <1>2, <1>3
  <1>5. o # NoOutcome
    BY OutcomeKinds
  <1>6. ~OpenChain(t) /\ SealedLen(t) = n /\ SealedLen(s) = n - 1
    <2>1. t[Len(t)].outcome = o
      BY <1>3, <1>4
    <2>2. ~OpenChain(t)
      BY <1>5, <2>1 DEF OpenChain
    <2> QED  BY <1>3, <2>2 DEF SealedLen
  <1>7. /\ SealedOf(s) \in Seq(Outcomes) /\ Len(SealedOf(s)) = n - 1
        /\ SealedOf(t) \in Seq(Outcomes) /\ Len(SealedOf(t)) = n
        /\ \A r \in 1 .. n - 1 : SealedOf(s)[r] = s[r].outcome
        /\ \A r \in 1 .. n : SealedOf(t)[r] = t[r].outcome
    BY <1>6, SealedSeq
  <1> DEFINE u == Append(SealedOf(s), o)
  <1>8. /\ u \in Seq(Outcomes) /\ Len(u) = n /\ u[n] = o
        /\ \A r \in 1 .. n - 1 : u[r] = SealedOf(s)[r]
    BY <1>2, <1>7
  <1> HIDE DEF u
  <1>9. \A r \in 1 .. n : SealedOf(t)[r] = u[r]
    <2> SUFFICES ASSUME NEW r \in 1 .. n  PROVE SealedOf(t)[r] = u[r]
      OBVIOUS
    <2>1. CASE r = n
      BY <1>2, <1>4, <1>7, <1>8, <2>1
    <2>2. CASE r # n
      <3>1. r \in 1 .. n - 1  BY <1>2, <2>2
      <3> QED  BY <1>4, <1>7, <1>8, <3>1
    <2> QED  BY <2>1, <2>2
  <1>10. SealedOf(t) = u
    BY <1>7, <1>8, <1>9, SeqEqual
  <1> QED  BY <1>6, <1>10 DEF u

\* A wake opens a suspended chain and leaves its outcomes.
LEMMA ResumeView ==
    ASSUME NEW s, ChainOK(s), s # <<>>, s[Len(s)].outcome.kind = "suspended",
           NEW p \in Payloads, NEW t, ChainOK(t), t = ResumedChain(s, p)
    PROVE  /\ ~OpenChain(s) /\ OpenChain(t) /\ SealedOf(t) = SealedOf(s)
           /\ SealedOf(s) # <<>>
           /\ SealedOf(s)[Len(SealedOf(s))].kind = "suspended"
  <1> DEFINE n == Len(s)
             last == s[n]
  <1>1. /\ s \in Seq(Revision) /\ ChainConsistent(s) /\ last.fence < MaxFence
        /\ n \in Nat \ {0} /\ last \in Revision /\ last.fence \in 1 .. MaxFence
    BY LatestTyped DEF ChainOK
  <1>2. /\ Len(t) = n + 1
        /\ t[n + 1] = FreshRevision(last.fence + 1)
        /\ t[n] = [last EXCEPT !.delivery = p]
        /\ \A r \in 1 .. n - 1 : t[r] = s[r]
    BY <1>1, ResumeChain
  <1>3. t[n].outcome = last.outcome
    BY <1>1, <1>2 DEF Revision
  <1>4. t[n + 1].outcome = NoOutcome
    BY <1>2 DEF FreshRevision
  <1>5. t # <<>>
    <2>1. Len(<<>>) = 0  BY EmptySeq
    <2> QED  BY <1>1, <1>2, <2>1
  <1>6. ~OpenChain(s)
    BY DEF OpenChain, NoOutcome
  <1>7. OpenChain(t) /\ SealedLen(t) = n /\ SealedLen(s) = n
    BY <1>1, <1>2, <1>4, <1>5, <1>6 DEF OpenChain, SealedLen
  <1>8. ASSUME NEW r \in 1 .. n  PROVE t[r].outcome = s[r].outcome
    <2>1. CASE r = n  BY <1>3, <2>1
    <2>2. CASE r # n
      <3>1. r \in 1 .. n - 1  BY <1>1, <2>2
      <3> QED  BY <1>2, <3>1
    <2> QED  BY <2>1, <2>2
  <1>9. SealedOf(t) = SealedOf(s)
    BY <1>7, <1>8, SameView
  <1>10. Len(SealedOf(s)) = n /\ SealedOf(s)[n] = last.outcome
    BY <1>1, <1>7, SealedSeq
  <1>11. SealedOf(s) # <<>>
    <2>1. Len(<<>>) = 0  BY EmptySeq
    <2> QED  BY <1>1, <1>10, <2>1
  <1> QED  BY <1>6, <1>7, <1>9, <1>10, <1>11

-------------------------------------------------------------------------------
(* Every step of the journal is one of the contract, or stutters *)

\* An operation that replaces the open latest revision of x by one without an
\* outcome.
LEMMA OpenStutters ==
    ASSUME JournalConsistent, JournalConsistent', NEW x \in Executions, Exists(x),
           Latest(x).outcome = NoOutcome, NEW rv \in Revision, rv.outcome = NoOutcome,
           journal' = WithLatest(x, rv)
    PROVE  SealedOutcomes' = SealedOutcomes /\ OpenExecutions' = OpenExecutions
  <1>1. /\ journal'[x] = [journal[x] EXCEPT ![Len(journal[x])] = rv]
        /\ \A y \in Executions \ {x} : journal'[y] = journal[y]
    BY WithLatestFacts
  <1>2. ChainOK(journal[x]) /\ ChainOK(journal'[x])
    BY ConsistentByChains, NextByChains
  <1>3. OpenChain(journal[x])
    BY DEF OpenChain, Exists, Latest, LatestRevision
  <1>4. OpenChain(journal'[x]) /\ SealedOf(journal'[x]) = SealedOf(journal[x])
    BY <1>1, <1>2, <1>3, OpenView
  <1>5. \A y \in Executions : /\ OpenChain(journal'[y]) <=> OpenChain(journal[y])
                              /\ SealedOf(journal'[y]) = SealedOf(journal[y])
    BY <1>1, <1>3, <1>4
  <1> QED  BY <1>5, ContractView, ContractViewNext

\* The creation of an execution opens it.
LEMMA CreateOpens ==
    ASSUME JournalConsistent, Create
    PROVE  \E x \in Executions : Contract!Open(x)
  <1>1. PICK x \in Executions, f \in 1 .. MaxFence : CreateExecution(x, f)
    BY DEF Create, Fences
  <1>2. journal = [y \in Executions |-> journal[y]]
    BY ConsistentByChains
  <1>3. /\ journal[x] = <<>> /\ MaxRevision >= 1
        /\ journal'[x] = <<FreshRevision(f)>>
        /\ \A y \in Executions \ {x} : journal'[y] = journal[y]
    BY <1>1, <1>2 DEF CreateExecution, Exists
  <1>4. /\ ~OpenChain(journal[x]) /\ SealedOf(journal[x]) = <<>>
        /\ OpenChain(journal'[x]) /\ SealedOf(journal'[x]) = <<>>
    BY <1>3, EmptyView, FreshView
  <1>5. SealedOutcomes' = SealedOutcomes
    BY <1>3, <1>4, ContractView, ContractViewNext
  <1>6. OpenExecutions' = OpenExecutions \cup {x}
    BY <1>3, <1>4, ContractView, ContractViewNext
  <1>7. x \notin OpenExecutions /\ SealedOutcomes[x] = <<>>
    BY <1>4, ContractView
  <1> QED  BY <1>5, <1>6, <1>7 DEF Contract!Open, Contract!Absent

\* What the commit of an outcome shows.
LEMMA SealShows ==
    ASSUME JournalConsistent, JournalConsistent', NEW x \in Executions, Exists(x),
           Latest(x).outcome = NoOutcome, NEW o \in Outcomes,
           journal'[x] = [journal[x] EXCEPT ![Len(journal[x])] = SealedBy(x, o)]
    PROVE  /\ OpenChain(journal[x]) /\ ~OpenChain(journal'[x])
           /\ SealedOf(journal'[x]) = Append(SealedOf(journal[x]), o)
  <1>1. ChainOK(journal[x]) /\ ChainOK(journal'[x])
    BY ConsistentByChains, NextByChains
  <1>2. OpenChain(journal[x])
    BY DEF OpenChain, Exists, Latest, LatestRevision
  <1>3. SealedBy(x, o) \in Revision /\ SealedBy(x, o).outcome = o
    BY SealedRevision
  <1> QED  BY <1>1, <1>2, <1>3, SealView

\* A commit adds one outcome to those of its execution.
LEMMA CommitSeals ==
    ASSUME JournalConsistent, JournalConsistent', Commit
    PROVE  \E x \in Executions, o \in PlainOutcomes : Contract!Seal(x, o)
  <1>1. PICK x \in Executions, r \in Revisions, f \in Fences, o \in PlainOutcomes,
             q \in BOOLEAN : CommitExecutionOutcome(x, r, f, o, q)
    BY DEF Commit
  <1>2. /\ Exists(x) /\ Latest(x).outcome = NoOutcome
        /\ journal' = WithLatest(x, SealedBy(x, o)) /\ o \in Outcomes
    BY <1>1 DEF CommitExecutionOutcome, Committed, FoldsOutcomeCommitted, Unsealed, Outcomes
  <1>3. /\ journal'[x] = [journal[x] EXCEPT ![Len(journal[x])] = SealedBy(x, o)]
        /\ \A y \in Executions \ {x} : journal'[y] = journal[y]
    BY <1>2, WithLatestFacts
  <1>4. /\ OpenChain(journal[x]) /\ ~OpenChain(journal'[x])
        /\ SealedOf(journal'[x]) = Append(SealedOf(journal[x]), o)
    BY <1>2, <1>3, SealShows
  <1>5. SealedOutcomes' = [SealedOutcomes EXCEPT ![x] = Append(SealedOutcomes[x], o)]
    BY <1>3, <1>4, ContractView, ContractViewNext
  <1>6. x \in OpenExecutions /\ OpenExecutions' = OpenExecutions \ {x}
    BY <1>3, <1>4, ContractView, ContractViewNext
  <1>7. Contract!Seal(x, o)
    BY <1>5, <1>6 DEF Contract!Seal
  <1> QED  BY <1>7

\* continue_execution_as_new seals the parent and opens the child at once.
LEMMA ContinuationContinues ==
    ASSUME JournalConsistent, JournalConsistent', ContinueAsNew
    PROVE  \E x \in Executions, o \in LinkedOutcomes : Contract!Continue(x, o)
  <1>1. PICK x \in Executions, r \in Revisions, f \in Fences, g \in 1 .. MaxFence,
             o \in LinkedOutcomes : ContinueExecutionAsNew(x, r, f, o, g)
    BY DEF ContinueAsNew, Fences
  <1> DEFINE c == o.next
  <1>2. /\ Exists(x) /\ Latest(x).outcome = NoOutcome /\ o \in Outcomes
        /\ c \in Executions /\ c # x /\ ~Exists(c)
        /\ journal' = [WithLatest(x, SealedBy(x, o)) EXCEPT ![c] = <<FreshRevision(g)>>]
    BY <1>1 DEF ContinueExecutionAsNew, Committed, FoldsOutcomeCommitted, Unsealed, Outcomes
  <1>3. journal = [y \in Executions |-> journal[y]]
    BY ConsistentByChains
  <1>4. /\ journal'[x] = [journal[x] EXCEPT ![Len(journal[x])] = SealedBy(x, o)]
        /\ journal'[c] = <<FreshRevision(g)>> /\ journal[c] = <<>>
        /\ \A y \in Executions : y # x /\ y # c => journal'[y] = journal[y]
    BY <1>2, <1>3 DEF WithLatest, LatestRevision, Exists
  <1>5. /\ OpenChain(journal[x]) /\ ~OpenChain(journal'[x])
        /\ SealedOf(journal'[x]) = Append(SealedOf(journal[x]), o)
    BY <1>2, <1>4, SealShows
  <1>6. MaxRevision >= 1
    BY <1>2, LatestFacts
  <1>7. /\ ~OpenChain(journal[c]) /\ SealedOf(journal[c]) = <<>>
        /\ OpenChain(journal'[c]) /\ SealedOf(journal'[c]) = <<>>
    BY <1>4, <1>6, EmptyView, FreshView
  <1> HIDE DEF c
  <1>8. SealedOutcomes' = [SealedOutcomes EXCEPT ![x] = Append(SealedOutcomes[x], o)]
    <2>1. \A y \in Executions \ {x} : SealedOf(journal'[y]) = SealedOf(journal[y])
      <3> SUFFICES ASSUME NEW y \in Executions \ {x}
                   PROVE  SealedOf(journal'[y]) = SealedOf(journal[y])
        OBVIOUS
      <3>1. CASE y = c  BY <1>7, <3>1
      <3>2. CASE y # c  BY <1>4, <3>2
      <3> QED  BY <3>1, <3>2
    <2> QED  BY <1>5, <2>1, ContractView, ContractViewNext
  <1>9. x \in OpenExecutions /\ OpenExecutions' = (OpenExecutions \ {x}) \cup {c}
    BY <1>2, <1>4, <1>5, <1>7, ContractView, ContractViewNext
  <1>10. c \notin OpenExecutions /\ SealedOutcomes[c] = <<>>
    BY <1>2, <1>7, ContractView
  <1>11. Contract!Continue(x, o)
    BY <1>8, <1>9, <1>10 DEF Contract!Continue, Contract!Absent, c
  <1> QED  BY <1>11

\* The delivery of wakes opens every execution that waited.
LEMMA DeliveryResumes ==
    ASSUME JournalConsistent, JournalConsistent', NEW D, D \subseteq Pending,
           NEW p \in Payloads, DeliverWakes(D, p)
    PROVE  \E X \in SUBSET Executions : Contract!Resume(X)
  <1> DEFINE X == {x \in Executions : \E v \in D : v.exec = x}
  <1>1. ASSUME NEW x \in X
        PROVE  /\ ~OpenChain(journal[x]) /\ OpenChain(journal'[x])
               /\ SealedOf(journal'[x]) = SealedOf(journal[x])
               /\ SealedOf(journal[x]) # <<>>
               /\ SealedOf(journal[x])[Len(SealedOf(journal[x]))].kind = "suspended"
    <2>1. x \in Executions /\ \E v \in D : v.exec = x
      OBVIOUS
    <2>2. Exists(x) /\ Latest(x).outcome.kind = "suspended"
      BY <2>1, DeliveredRows
    <2>3. /\ ChainOK(journal[x]) /\ journal[x] # <<>> /\ ChainOK(journal'[x])
          /\ journal[x][Len(journal[x])].outcome.kind = "suspended"
      BY <2>1, <2>2, ConsistentByChains, NextByChains DEF Exists, Latest, LatestRevision
    <2>4. journal'[x] = ResumedChain(journal[x], p)
      BY <2>1 DEF DeliverWakes, Resumed
    <2> QED  BY <2>3, <2>4, ResumeView
  <1>2. \A x \in Executions \ X : journal'[x] = journal[x]
    BY DEF DeliverWakes
  <1>3. X \subseteq Executions
    OBVIOUS
  <1> HIDE DEF X
  <1>4. SealedOutcomes' = SealedOutcomes
    BY <1>1, <1>2, ContractView, ContractViewNext
  <1>5. OpenExecutions' = OpenExecutions \cup X
    BY <1>1, <1>2, <1>3, ContractView, ContractViewNext
  <1>6. \A x \in X : Contract!Parked(x)
    BY <1>1, <1>3, ContractView DEF Contract!Parked
  <1>7. Contract!Resume(X)
    BY <1>4, <1>5, <1>6 DEF Contract!Resume
  <1> QED  BY <1>3, <1>7

\* Every step of the journal is one of the contract or stutters.
LEMMA StepRefines ==
    ASSUME JournalConsistent, [JournalNext]_journalVars
    PROVE  [Contract!ContractNext]_(Contract!contractVars)
  <1>0. JournalConsistent'
    BY StepConsistent
  <1>1. CASE Create
    BY <1>1, CreateOpens DEF Contract!ContractNext
  <1>2. CASE StartAttempt
    <2>1. PICK x \in Executions, r \in Revisions, f \in 1 .. MaxFence, o \in Owners :
               StartExecutionAttempt(x, r, f, o)
      BY <1>2 DEF StartAttempt, Fences
    <2> DEFINE old == Latest(x)
               rv == [old EXCEPT !.state = "running", !.attempt = [owner |-> o, fence |-> f]]
    <2>2. Exists(x) /\ old.outcome = NoOutcome /\ journal' = WithLatest(x, rv)
      BY <2>1 DEF StartExecutionAttempt, MayStartAttempt
    <2>3. old \in Revision
      BY <2>2, LatestFacts
    <2>4. rv \in Revision /\ rv.outcome = NoOutcome
      BY <2>2, <2>3 DEF Revision, Attempt
    <2> HIDE DEF rv
    <2> QED  BY <1>0, <2>2, <2>4, OpenStutters DEF Contract!contractVars
  <1>3. CASE ReclaimAttempt
    <2>1. PICK x \in Executions, r \in Revisions, e \in 1 .. MaxFence, f \in 1 .. MaxFence,
               o \in Owners : ReclaimExecutionAttempt(x, r, e, f, o)
      BY <1>3 DEF ReclaimAttempt, Fences
    <2> DEFINE old == Latest(x)
               rv == [old EXCEPT !.fence = f, !.attempt = [owner |-> o, fence |-> f]]
    <2>2. Exists(x) /\ old.outcome = NoOutcome /\ journal' = WithLatest(x, rv)
      BY <2>1 DEF ReclaimExecutionAttempt, MayReclaimAttempt
    <2>3. old \in Revision
      BY <2>2, LatestFacts
    <2>4. rv \in Revision /\ rv.outcome = NoOutcome
      BY <2>2, <2>3 DEF Revision, Attempt
    <2> HIDE DEF rv
    <2> QED  BY <1>0, <2>2, <2>4, OpenStutters DEF Contract!contractVars
  <1>4. CASE AdvanceFence
    <2>1. PICK x \in Executions, r \in Revisions, e \in 1 .. MaxFence, f \in 1 .. MaxFence :
               AdvanceExecutionFence(x, r, e, f)
      BY <1>4 DEF AdvanceFence, Fences
    <2> DEFINE old == Latest(x)
               rv == [old EXCEPT !.fence = f]
    <2>2. Exists(x) /\ old.outcome = NoOutcome /\ journal' = WithLatest(x, rv)
      BY <2>1 DEF AdvanceExecutionFence, MayAdvanceFence
    <2>3. old \in Revision
      BY <2>2, LatestFacts
    <2>4. rv \in Revision /\ rv.outcome = NoOutcome
      BY <2>2, <2>3 DEF Revision
    <2> HIDE DEF rv
    <2> QED  BY <1>0, <2>2, <2>4, OpenStutters DEF Contract!contractVars
  <1>5. CASE Commit
    BY <1>0, <1>5, CommitSeals DEF Contract!ContractNext
  <1>6. CASE ContinueAsNew
    BY <1>0, <1>6, ContinuationContinues DEF Contract!ContractNext
  <1>7. CASE WakeDue
    <2> PICK p \in Payloads, D \in SUBSET {w \in Pending : w.condition \in Timers} :
             WakeDueExecutions(D, p)
      BY <1>7 DEF WakeDue
    <2>1. D \subseteq Pending /\ DeliverWakes(D, p)  BY DEF WakeDueExecutions
    <2> QED  BY <1>0, <2>1, DeliveryResumes DEF Contract!ContractNext
  <1>8. CASE DeliverWake
    <2> PICK c \in Conditions \ Timers, p \in Payloads : DeliverExecutionWake(c, p)
      BY <1>8 DEF DeliverWake
    <2> DEFINE D == {w \in Pending : w.condition = c}
    <2>1. D \subseteq Pending /\ DeliverWakes(D, p)  BY DEF DeliverExecutionWake
    <2> HIDE DEF D
    <2> QED  BY <1>0, <2>1, DeliveryResumes DEF Contract!ContractNext
  <1>9. CASE UNCHANGED journal
    BY <1>9, ContractView, ContractViewNext DEF Contract!contractVars
  <1> QED
    BY <1>1, <1>2, <1>3, <1>4, <1>5, <1>6, <1>7, <1>8, <1>9
    DEF JournalNext, journalVars, Discard, DiscardPendingWakes

\* The empty store is the initial state of the contract.
LEMMA InitRefines ==
    ASSUME JournalInit
    PROVE  Contract!ContractInit
  <1>1. \A x \in Executions : journal[x] = <<>>
    BY DEF JournalInit
  <1> QED  BY <1>1, EmptyView, ContractView DEF Contract!ContractInit

-------------------------------------------------------------------------------
(* Theorem *)

\* The store keeps its contract for any number of executions, clients and
\* revisions: one outcome per run, in order and for ever; a terminal one is never
\* reopened; a continuation appears in the step that completes its parent
\* (execution_store.rs: every public operation).
THEOREM JournalImplementsContract == JournalSpec => ImplementsContract
  <1>1. JournalInit => Contract!ContractInit
    BY InitRefines
  <1>2. JournalConsistent /\ [JournalNext]_journalVars =>
            [Contract!ContractNext]_(Contract!contractVars)
    BY StepRefines
  <1> QED
    BY <1>1, <1>2, JournalStaysConsistent, PTL
    DEF JournalSpec, ImplementsContract, Contract!ContractSpec

-------------------------------------------------------------------------------
(* Continuations *)

\* The continuations that a sequence of outcomes names.
NextsOf(q) == {q[r].next : r \in 1 .. Len(q)} \ {None}

\* A sealed outcome adds the continuation it names, if any.
LEMMA NextsAppended ==
    ASSUME NEW q \in Seq(Outcomes), NEW o \in Outcomes
    PROVE  NextsOf(Append(q, o)) = NextsOf(q) \cup ({o.next} \ {None})
  <1> DEFINE n == Len(q)
             u == Append(q, o)
  <1>1. n \in Nat /\ Len(u) = n + 1 /\ u[n + 1] = o /\ \A r \in 1 .. n : u[r] = q[r]
    OBVIOUS
  <1> HIDE DEF n, u
  <1>2. 1 .. n + 1 = (1 .. n) \cup {n + 1}
    BY <1>1
  <1>3. {u[r].next : r \in 1 .. n + 1} = {q[r].next : r \in 1 .. n} \cup {o.next}
    BY <1>1, <1>2
  <1> QED  BY <1>1, <1>3 DEF NextsOf, n, u

\* Lineage, read off what the journal shows.
Known(x) == x \in OpenExecutions \/ SealedOutcomes[x] # <<>>
LineageShown ==
    /\ \A x \in Executions :
         /\ Continuations(x) = NextsOf(SealedOutcomes[x])
         /\ Exists(x) <=> Known(x)
         /\ SealedOutcomes[x] \in Seq(Outcomes)
    /\ DOMAIN SealedOutcomes = Executions
    /\ OpenExecutions \subseteq Executions

\* The contract's view shows the continuations of the journal.
LEMMA ViewShowsLineage == JournalConsistent => LineageShown
  <1> SUFFICES ASSUME JournalConsistent  PROVE LineageShown
    OBVIOUS
  <1>1. ASSUME NEW x \in Executions
        PROVE  /\ Continuations(x) = NextsOf(SealedOutcomes[x])
               /\ Exists(x) <=> Known(x)
               /\ SealedOutcomes[x] \in Seq(Outcomes)
    <2> DEFINE s == journal[x]
               n == Len(s)
               m == SealedLen(s)
               q == SealedOf(s)
    <2>1. ChainOK(s) /\ SealedOutcomes[x] = q /\ (x \in OpenExecutions <=> OpenChain(s))
      BY ConsistentByChains, ContractView
    <2>2. /\ m \in Nat /\ q \in Seq(Outcomes) /\ Len(q) = m
          /\ \A r \in 1 .. m : q[r] = s[r].outcome
      BY <2>1, SealedSeq
    <2>3. s \in Seq(Revision) /\ n \in Nat /\ (s # <<>> => n > 0)
      BY <2>1, EmptySeq DEF ChainOK
    <2>4. Len(<<>>) = 0
      BY EmptySeq
    <2>5. m = n \/ (OpenChain(s) /\ m = n - 1)
      BY DEF SealedLen
    <2>6. OpenChain(s) => s # <<>> /\ s[n].outcome.next = None
      BY DEF OpenChain, NoOutcome
    <2> HIDE DEF m, q, n
    <2>7. Exists(x) <=> Known(x)
      <3>1. CASE s = <<>>
        BY <2>1, <2>2, <2>3, <2>4, <2>5, <2>6, <3>1 DEF Exists, Known, n, EmptySeq
      <3>2. CASE s # <<>>
        BY <2>1, <2>2, <2>3, <2>4, <2>5, <3>2 DEF Exists, Known
      <3> QED  BY <3>1, <3>2
    <2>8. {s[r].outcome.next : r \in 1 .. n} \ {None} = {q[r].next : r \in 1 .. m} \ {None}
      <3>1. CASE m = n
        BY <2>2, <3>1
      <3>2. CASE OpenChain(s) /\ m = n - 1
        <4>1. 1 .. n = (1 .. m) \cup {n}
          BY <2>2, <2>3, <3>2
        <4> QED  BY <2>2, <2>6, <3>2, <4>1
      <3> QED  BY <2>5, <3>1, <3>2
    <2> QED  BY <2>1, <2>2, <2>7, <2>8 DEF Continuations, NextsOf, n
  <1> QED  BY <1>1 DEF LineageShown, SealedOutcomes, OpenExecutions

\* Continuations are executions.
LEMMA ContinuationsTyped ==
    ASSUME LineageShown, NEW x \in Executions
    PROVE  Continuations(x) \subseteq Executions
  <1> SUFFICES ASSUME NEW y \in Continuations(x)  PROVE y \in Executions
    OBVIOUS
  <1>1. SealedOutcomes[x] \in Seq(Outcomes) /\ y \in NextsOf(SealedOutcomes[x])
    BY DEF LineageShown
  <1>2. PICK r \in 1 .. Len(SealedOutcomes[x]) : y = SealedOutcomes[x][r].next /\ y # None
    BY <1>1 DEF NextsOf
  <1>3. SealedOutcomes[x][r] \in Outcomes
    BY <1>1, <1>2, ElementOfSeq
  <1> QED
    BY <1>2, <1>3 DEF Outcomes, PlainOutcomes, LinkedOutcomes, Suspended, Terminal

\* A step that names no continuation and forgets no execution.
LEMMA LineageKept ==
    ASSUME LineageShown, LineageShown', ContinuationLineage,
           \A x \in Executions : NextsOf(SealedOutcomes'[x]) = NextsOf(SealedOutcomes[x]),
           \A x \in Executions : Known(x) => Known(x)'
    PROVE  ContinuationLineage'
  <1>1. \A x \in Executions : Continuations(x)' = Continuations(x) /\ (Exists(x) => Exists(x)')
    BY DEF LineageShown
  <1>2. \A x \in Executions : Continuations(x) \subseteq Executions
    BY ContinuationsTyped
  <1> QED  BY <1>1, <1>2 DEF ContinuationLineage

\* Every step keeps the chains of continuations.
LEMMA LineageStep ==
    ASSUME JournalConsistent, ContinuationLineage, [JournalNext]_journalVars
    PROVE  ContinuationLineage'
  <1>1. LineageShown /\ LineageShown'
    <2>1. JournalConsistent'
      BY StepConsistent
    <2> QED  BY <2>1, ViewShowsLineage, PTL
  <1>2. \A x \in Executions : SealedOutcomes[x] \in Seq(Outcomes)
    BY <1>1 DEF LineageShown
  <1>3. CASE UNCHANGED Contract!contractVars
    <2>1. SealedOutcomes' = SealedOutcomes /\ OpenExecutions' = OpenExecutions
      BY <1>3 DEF Contract!contractVars
    <2> QED  BY <1>1, <2>1, LineageKept DEF Known
  <1>4. ASSUME NEW x \in Executions, Contract!Open(x)  PROVE ContinuationLineage'
    <2>1. SealedOutcomes' = SealedOutcomes /\ OpenExecutions' = OpenExecutions \cup {x}
      BY <1>4 DEF Contract!Open
    <2> QED  BY <1>1, <2>1, LineageKept DEF Known
  <1>5. ASSUME NEW x \in Executions, NEW o \in PlainOutcomes, Contract!Seal(x, o)
        PROVE  ContinuationLineage'
    <2>1. /\ OpenExecutions' = OpenExecutions \ {x}
          /\ SealedOutcomes' = [SealedOutcomes EXCEPT ![x] = Append(SealedOutcomes[x], o)]
      BY <1>5 DEF Contract!Seal
    <2>2. /\ SealedOutcomes'[x] = Append(SealedOutcomes[x], o)
          /\ \A y \in Executions \ {x} : SealedOutcomes'[y] = SealedOutcomes[y]
      BY <1>1, <2>1 DEF LineageShown
    <2>3. o \in Outcomes /\ o.next = None
      BY DEF Outcomes, PlainOutcomes, Suspended, Terminal
    <2>4. NextsOf(SealedOutcomes'[x]) = NextsOf(SealedOutcomes[x])
      <3>1. NextsOf(SealedOutcomes'[x]) = NextsOf(SealedOutcomes[x]) \cup ({o.next} \ {None})
        BY <1>2, <2>2, <2>3, NextsAppended
      <3>2. {o.next} \ {None} = {}
        BY <2>3
      <3> QED  BY <3>1, <3>2
    <2>5. SealedOutcomes'[x] # <<>>
      <3>1. Len(SealedOutcomes'[x]) = Len(SealedOutcomes[x]) + 1 /\ Len(SealedOutcomes[x]) \in Nat
        BY <1>2, <2>2, <2>3
      <3>2. Len(<<>>) = 0  BY EmptySeq
      <3> QED  BY <3>1, <3>2
    <2>6. \A y \in Executions : Known(y) => Known(y)'
      BY <2>1, <2>2, <2>5 DEF Known
    <2>7. \A y \in Executions : NextsOf(SealedOutcomes'[y]) = NextsOf(SealedOutcomes[y])
      BY <2>2, <2>4
    <2> QED  BY <1>1, <2>6, <2>7, LineageKept
  <1>6. ASSUME NEW X \in SUBSET Executions, Contract!Resume(X)  PROVE ContinuationLineage'
    <2>1. SealedOutcomes' = SealedOutcomes /\ OpenExecutions' = OpenExecutions \cup X
      BY <1>6 DEF Contract!Resume
    <2> QED  BY <1>1, <2>1, LineageKept DEF Known
  <1>7. ASSUME NEW x \in Executions, NEW o \in LinkedOutcomes, Contract!Continue(x, o)
        PROVE  ContinuationLineage'
    <2> DEFINE c == o.next
    <2>1. /\ OpenExecutions' = (OpenExecutions \ {x}) \cup {c}
          /\ SealedOutcomes' = [SealedOutcomes EXCEPT ![x] = Append(SealedOutcomes[x], o)]
          /\ c \notin OpenExecutions /\ SealedOutcomes[c] = <<>>
          /\ x \in OpenExecutions
      BY <1>7 DEF Contract!Continue, Contract!Absent
    <2>2. o \in Outcomes /\ c \in Executions /\ c # None
      BY DEF Outcomes, LinkedOutcomes, Terminal
    <2>3. c # x /\ ~Known(c)
      BY <2>1 DEF Known
    <2>4. /\ SealedOutcomes'[x] = Append(SealedOutcomes[x], o)
          /\ \A y \in Executions \ {x} : SealedOutcomes'[y] = SealedOutcomes[y]
      BY <1>1, <2>1 DEF LineageShown
    <2>5. SealedOutcomes'[x] # <<>>
      <3>1. Len(SealedOutcomes'[x]) = Len(SealedOutcomes[x]) + 1 /\ Len(SealedOutcomes[x]) \in Nat
        BY <1>2, <2>2, <2>4
      <3>2. Len(<<>>) = 0  BY EmptySeq
      <3> QED  BY <3>1, <3>2
    <2> HIDE DEF c
    <2>6. Known(c)' /\ \A y \in Executions : Known(y) => Known(y)'
      BY <2>1, <2>2, <2>4, <2>5 DEF Known
    <2>7. NextsOf(SealedOutcomes'[x]) = NextsOf(SealedOutcomes[x]) \cup {c}
      BY <1>2, <2>2, <2>4, NextsAppended DEF c
    <2>8. /\ Continuations(x)' = Continuations(x) \cup {c}
          /\ \A y \in Executions \ {x} : Continuations(y)' = Continuations(y)
      BY <1>1, <2>4, <2>7 DEF LineageShown
    <2>9. Continuations(c)' = {}
      <3>1. Continuations(c) = NextsOf(<<>>) /\ Len(<<>>) = 0
        BY <1>1, <2>1, <2>2, EmptySeq DEF LineageShown, c
      <3>2. Continuations(c) = {}
        BY <3>1 DEF NextsOf
      <3> QED  BY <2>2, <2>3, <2>8, <3>2
    <2>10. /\ \A y \in Executions : Exists(y) => Exists(y)'
           /\ Exists(c)' /\ ~Exists(c)
      BY <1>1, <2>2, <2>3, <2>6 DEF LineageShown
    <2>11. \A y \in Executions : \A z \in Continuations(y) : Exists(z) /\ z # c
      BY <2>10 DEF ContinuationLineage
    <2>12. \A y \in Executions : Continuations(y) \subseteq Executions
      BY <1>1, ContinuationsTyped
    <2>13. \A y \in Executions : \A z \in Continuations(y)' : Exists(z)'
      BY <2>8, <2>10, <2>11, <2>12
    <2>14. ASSUME NEW y \in Executions, NEW z \in Executions, y # z
           PROVE  Continuations(y)' \cap Continuations(z)' = {}
      <3>1. Continuations(y) \cap Continuations(z) = {}
        BY <2>14 DEF ContinuationLineage
      <3> QED  BY <2>8, <2>11, <2>14, <3>1
    <2>15. ASSUME NEW X \in (SUBSET Executions) \ {{}}
           PROVE  \E y \in X : Continuations(y)' \cap X = {}
      <3>1. CASE c \in X
        BY <2>9, <3>1
      <3>2. CASE c \notin X
        <4>1. PICK y \in X : Continuations(y) \cap X = {}
          BY DEF ContinuationLineage
        <4> QED  BY <2>8, <3>2, <4>1
      <3> QED  BY <3>1, <3>2
    <2> QED  BY <2>13, <2>14, <2>15 DEF ContinuationLineage
  <1>8. [Contract!ContractNext]_(Contract!contractVars)
    BY StepRefines
  <1> QED
    BY <1>3, <1>4, <1>5, <1>6, <1>7, <1>8 DEF Contract!ContractNext

\* The empty store has no continuations.
LEMMA LineageInit ==
    ASSUME JournalInit
    PROVE  ContinuationLineage
  <1>1. \A x \in Executions : journal[x] = <<>> /\ Len(journal[x]) = 0
    BY EmptySeq DEF JournalInit
  <1>2. \A x \in Executions : Continuations(x) = {}
    BY <1>1 DEF Continuations
  <1> QED  BY <1>2 DEF ContinuationLineage

\* Continuations form chains: a named continuation was created with the outcome
\* that names it, has one parent, and never closes a cycle
\* (continue_execution_as_new).
THEOREM ContinuationsFormChains == JournalSpec => []ContinuationLineage
  <1>1. JournalInit => ContinuationLineage
    BY LineageInit
  <1>2. JournalConsistent /\ ContinuationLineage /\ [JournalNext]_journalVars
            => ContinuationLineage'
    BY LineageStep
  <1> QED  BY <1>1, <1>2, JournalStaysConsistent, PTL DEF JournalSpec
===============================================================================

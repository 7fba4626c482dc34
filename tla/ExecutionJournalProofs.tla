------------------------ MODULE ExecutionJournalProofs ------------------------
(***************************************************************************)
(* Proofs about ExecutionJournal, for any executions, owners, conditions   *)
(* and bounds.  JournalConsistent is the inductive invariant: an operation *)
(* replaces or extends the chain of one execution (or of the executions    *)
(* that one wake resumes), and the chain lemmas say that both keep a chain *)
(* consistent.                                                             *)
(***************************************************************************)
EXTENDS ExecutionJournal, SequenceTheorems, TLAPS

USE JournalAssumption

-------------------------------------------------------------------------------
(* Chains of revisions *)

\* A revision that is open carries the outcome kind "none", which is the kind
\* of no committed outcome (state_for_outcome).
LEMMA OutcomeKinds ==
    /\ NoOutcome.kind = "none"
    /\ \A o \in Outcomes : o.kind \in {"suspended"} \cup TerminalKinds
    /\ \A o \in Outcomes : o # NoOutcome
    /\ \A o \in Outcomes : o.kind = "suspended" => o.wake \in Conditions
  BY DEF NoOutcome, Outcomes, PlainOutcomes, LinkedOutcomes, Suspended, Terminal, TerminalKinds

\* A fresh revision (create_execution, start_execution_revision_on) is typed
\* and consistent.
LEMMA FreshIsConsistent ==
    ASSUME NEW f \in 1 .. MaxFence
    PROVE  /\ FreshRevision(f) \in Revision
           /\ RevisionConsistent(FreshRevision(f))
           /\ FreshRevision(f).delivery = None
           /\ FreshRevision(f).outcome = NoOutcome
           /\ FreshRevision(f).fence = f
  BY OutcomeKinds DEF FreshRevision, Revision, RevisionConsistent, NoAttempt, NoOutcome

\* A journal of one fresh revision is a consistent chain.
LEMMA FreshChain ==
    ASSUME NEW f \in 1 .. MaxFence
    PROVE  /\ <<FreshRevision(f)>> \in Seq(Revision)
           /\ Len(<<FreshRevision(f)>>) = 1
           /\ <<FreshRevision(f)>>[1] = FreshRevision(f)
           /\ ChainConsistent(<<FreshRevision(f)>>)
  <1> DEFINE fresh == FreshRevision(f)
  <1>1. fresh \in Revision /\ RevisionConsistent(fresh) /\ fresh.delivery = None
    BY FreshIsConsistent
  <1> HIDE DEF fresh
  <1>2. <<fresh>> \in Seq(Revision) /\ Len(<<fresh>>) = 1 /\ <<fresh>>[1] = fresh
    BY <1>1
  <1>3. ChainConsistent(<<fresh>>)
    BY <1>1, <1>2 DEF ChainConsistent
  <1> QED  BY <1>2, <1>3 DEF fresh

\* Replacing the latest revision by a consistent one that is not resumed from
\* and whose fence is not smaller keeps the chain consistent.
LEMMA ReplaceChain ==
    ASSUME NEW s \in Seq(Revision), s # <<>>, ChainConsistent(s),
           NEW rv \in Revision, RevisionConsistent(rv), rv.delivery = None,
           rv.fence >= s[Len(s)].fence,
           NEW t, t = [s EXCEPT ![Len(s)] = rv]
    PROVE  /\ t \in Seq(Revision)
           /\ Len(t) = Len(s)
           /\ t[Len(s)] = rv
           /\ \A r \in 1 .. Len(s) - 1 : t[r] = s[r]
           /\ ChainConsistent(t)
  <1> DEFINE n == Len(s)
  <1>1. n \in Nat \ {0} /\ n \in 1 .. n
    BY EmptySeq
  <1>2. /\ t \in Seq(Revision)
        /\ Len(t) = n
        /\ \A j \in 1 .. n : t[j] = IF j = n THEN rv ELSE s[j]
    BY <1>1, ExceptSeq
  <1>3. \A r \in 1 .. n : s[r] \in Revision /\ s[r].fence \in Nat
    <2> TAKE r \in 1 .. n
    <2>1. s[r] \in Revision  BY ElementOfSeq
    <2> QED  BY <2>1 DEF Revision
  <1>4. rv.fence \in Nat  BY DEF Revision
  <1>5. ChainConsistent(t)
    <2> SUFFICES ASSUME NEW r \in 1 .. n
                 PROVE  /\ RevisionConsistent(t[r])
                        /\ r = n <=> t[r].delivery = None
                        /\ r < n => t[r].fence < t[r + 1].fence
      BY <1>2 DEF ChainConsistent
    <2>1. CASE r = n
      BY <2>1, <1>1, <1>2
    <2>2. CASE r # n
      <3>1. /\ r < n /\ r + 1 \in 1 .. n
            /\ t[r] = s[r]
        <4>1. r < n /\ r + 1 \in 1 .. n  BY <2>2, <1>1
        <4>2. t[r] = s[r]  BY <2>2, <1>2, Zenon
        <4> QED  BY <4>1, <4>2
      <3>2. /\ RevisionConsistent(s[r])
            /\ r = n <=> s[r].delivery = None
            /\ s[r].fence < s[r + 1].fence
        BY <3>1 DEF ChainConsistent
      <3>3. CASE r + 1 = n
        <4>1. t[r + 1].fence >= s[r + 1].fence /\ t[r + 1].fence \in Nat
          BY <3>3, <3>1, <1>2, <1>4
        <4> QED  BY <3>1, <3>2, <4>1, <1>3
      <3>4. CASE r + 1 # n
        <4>1. t[r + 1] = s[r + 1]  BY <3>4, <3>1, <1>2
        <4> QED  BY <3>1, <3>2, <4>1
      <3> QED  BY <3>3, <3>4
    <2> QED  BY <2>1, <2>2
  <1>6. t[n] = rv  BY <1>1, <1>2, Zenon
  <1>7. ASSUME NEW r \in 1 .. n - 1  PROVE t[r] = s[r]
    <2>1. r \in 1 .. n /\ r # n  BY <1>1
    <2> QED  BY <2>1, <1>2, Zenon
  <1> QED  BY <1>2, <1>5, <1>6, <1>7, Zenon

\* Resuming a suspended chain: its latest revision records the payload and a
\* fresh revision with the next fence follows it.
LEMMA ResumeChain ==
    ASSUME NEW s \in Seq(Revision), s # <<>>, ChainConsistent(s),
           s[Len(s)].outcome.kind = "suspended",
           s[Len(s)].fence < MaxFence,
           NEW p \in Payloads,
           NEW t, t = ResumedChain(s, p)
    PROVE  /\ t \in Seq(Revision)
           /\ Len(t) = Len(s) + 1
           /\ t[Len(s) + 1] = FreshRevision(s[Len(s)].fence + 1)
           /\ t[Len(s)] = [s[Len(s)] EXCEPT !.delivery = p]
           /\ \A r \in 1 .. Len(s) - 1 : t[r] = s[r]
           /\ ChainConsistent(t)
  <1> DEFINE n == Len(s)
             old == s[n]
             rv == [old EXCEPT !.delivery = p]
             f == old.fence + 1
             fresh == FreshRevision(f)
             u == [s EXCEPT ![n] = rv]
  <1>1. n \in Nat \ {0} /\ n \in 1 .. n
    BY EmptySeq
  <1>2. old \in Revision  BY <1>1, ElementOfSeq
  <1>3. old.fence \in 1 .. MaxFence /\ f \in 1 .. MaxFence /\ old.fence < f
    BY <1>2 DEF Revision
  <1>4. /\ rv \in Revision
        /\ rv.delivery = p
        /\ rv.outcome = old.outcome /\ rv.state = old.state
        /\ rv.attempt = old.attempt /\ rv.fence = old.fence
    BY <1>2 DEF Revision
  <1>5. RevisionConsistent(old) /\ old.delivery = None
    BY <1>1 DEF ChainConsistent
  <1>6. RevisionConsistent(rv)
    BY <1>4, <1>5 DEF RevisionConsistent
  <1>7. /\ fresh \in Revision
        /\ RevisionConsistent(fresh)
        /\ fresh.delivery = None
        /\ fresh.fence = f
    BY <1>3, FreshIsConsistent
  <1>8. /\ u \in Seq(Revision)
        /\ Len(u) = n
        /\ \A j \in 1 .. n : u[j] = IF j = n THEN rv ELSE s[j]
    BY <1>1, <1>4, ExceptSeq
  <1>9. t = Append(u, fresh)
    BY DEF ResumedChain
  <1>10. p # None  OBVIOUS
  <1> HIDE DEF rv, fresh, u, f, old
  <1>11. /\ t \in Seq(Revision)
         /\ Len(t) = n + 1
         /\ \A j \in 1 .. n : t[j] = u[j]
         /\ t[n + 1] = fresh
    BY <1>1, <1>7, <1>8, <1>9
  <1>12. ChainConsistent(t)
    <2> SUFFICES ASSUME NEW r \in 1 .. n + 1
                 PROVE  /\ RevisionConsistent(t[r])
                        /\ r = n + 1 <=> t[r].delivery = None
                        /\ r < n + 1 => t[r].fence < t[r + 1].fence
      BY <1>11 DEF ChainConsistent
    <2>1. CASE r = n + 1
      BY <2>1, <1>1, <1>7, <1>11
    <2>2. CASE r = n
      <3>1. t[r] = rv /\ t[r + 1] = fresh  BY <2>2, <1>1, <1>8, <1>11
      <3> QED  BY <3>1, <2>2, <1>1, <1>3, <1>4, <1>6, <1>7, <1>10
    <2>3. CASE r < n
      <3>1. t[r] = s[r] /\ r \in 1 .. n /\ r + 1 \in 1 .. n /\ r # n /\ r # n + 1
        BY <2>3, <1>1, <1>8, <1>11
      <3>2. t[r + 1].fence = s[r + 1].fence
        BY <3>1, <1>4, <1>8, <1>11 DEF old
      <3>3. /\ RevisionConsistent(s[r])
            /\ s[r].delivery # None
            /\ s[r].fence < s[r + 1].fence
        BY <3>1, <2>3 DEF ChainConsistent
      <3> QED  BY <3>1, <3>2, <3>3
    <2> QED  BY <2>1, <2>2, <2>3, <1>1
  <1>13. /\ t[n] = rv
         /\ \A r \in 1 .. n - 1 : t[r] = s[r]
    BY <1>1, <1>8, <1>11
  <1> QED  BY <1>11, <1>12, <1>13 DEF rv, fresh, f, old

\* What JournalConsistent asks of the journal of one execution.
ChainOK(s) ==
    /\ s \in Seq(Revision)
    /\ Len(s) <= MaxRevision
    /\ ChainConsistent(s)
    /\ (s # <<>> /\ s[Len(s)].outcome.kind = "suspended") =>
         Len(s) < MaxRevision /\ s[Len(s)].fence < MaxFence

\* Consistency chain by chain and row by row.
LEMMA ConsistentByChains ==
    JournalConsistent <=>
        /\ journal = [x \in Executions |-> journal[x]]
        /\ \A x \in Executions : ChainOK(journal[x])
        /\ wakes \subseteq WakeRow
        /\ \A w \in wakes : RowConsistent(w)
  BY DEF JournalConsistent, JournalTypeOK, SuspendedHasRoom, RoomToResume, ChainOK,
         Exists, Latest, LatestRevision

\* Consistency of the next state, chain by chain and row by row.
LEMMA ConsistentNext ==
    ASSUME journal' = [x \in Executions |-> journal'[x]],
           \A x \in Executions : ChainOK(journal'[x]),
           wakes' \subseteq WakeRow,
           \A w \in wakes' : RowConsistent(w)'
    PROVE  JournalConsistent'
  BY DEF JournalConsistent, JournalTypeOK, SuspendedHasRoom, RoomToResume, ChainOK,
         Exists, Latest, LatestRevision

\* An execution that was not created.
LEMMA EmptyChainOK == ChainOK(<<>>)
  <1>1. <<>> \in Seq(Revision) /\ Len(<<>>) = 0  BY EmptySeq
  <1> QED  BY <1>1 DEF ChainOK, ChainConsistent

\* An execution that was just created.
LEMMA FreshChainOK ==
    ASSUME NEW f \in 1 .. MaxFence, MaxRevision >= 1
    PROVE  ChainOK(<<FreshRevision(f)>>)
  <1>1. FreshRevision(f).outcome.kind # "suspended"
    BY FreshIsConsistent, OutcomeKinds
  <1> QED  BY <1>1, FreshChain DEF ChainOK

\* The latest revision of an existing execution.
LEMMA LatestTyped ==
    ASSUME NEW s, ChainOK(s), s # <<>>
    PROVE  /\ Len(s) \in Nat \ {0}
           /\ Len(s) \in 1 .. MaxRevision
           /\ s[Len(s)] \in Revision
           /\ RevisionConsistent(s[Len(s)])
           /\ s[Len(s)].delivery = None
           /\ s[Len(s)].fence \in 1 .. MaxFence
  <1>1. s \in Seq(Revision) /\ Len(s) <= MaxRevision /\ ChainConsistent(s)  BY DEF ChainOK
  <1>2. Len(s) \in Nat \ {0} /\ Len(s) \in 1 .. Len(s)  BY <1>1, EmptySeq
  <1>3. s[Len(s)] \in Revision  BY <1>1, <1>2, ElementOfSeq
  <1>4. RevisionConsistent(s[Len(s)]) /\ s[Len(s)].delivery = None
    BY <1>1, <1>2 DEF ChainConsistent
  <1>5. s[Len(s)].fence \in 1 .. MaxFence  BY <1>3 DEF Revision
  <1> QED  BY <1>1, <1>2, <1>3, <1>4, <1>5

-------------------------------------------------------------------------------
(* The invariant is inductive *)

\* The empty store.
LEMMA InitConsistent == JournalInit => JournalConsistent
  <1> SUFFICES ASSUME JournalInit PROVE JournalConsistent
    OBVIOUS
  <1>1. \A x \in Executions : journal[x] = <<>>  BY DEF JournalInit
  <1>2. wakes = {}  BY DEF JournalInit
  <1>3. journal = [x \in Executions |-> journal[x]]  BY DEF JournalInit
  <1> QED  BY <1>1, <1>2, <1>3, EmptyChainOK, ConsistentByChains

\* Every operation but the delivery of wakes replaces the open latest revision
\* of one execution x by rv, may create executions, and adds the wake rows N
\* of rv's suspension.
Replacement(x, rv) ==
    /\ Exists(x) /\ Latest(x).outcome = NoOutcome
    /\ RevisionConsistent(rv) /\ rv.delivery = None
    /\ rv.fence >= Latest(x).fence
    /\ rv.outcome.kind = "suspended" =>
         Len(journal[x]) < MaxRevision /\ rv.fence < MaxFence
    /\ journal' = [y \in Executions |-> journal'[y]]
    /\ journal'[x] = [journal[x] EXCEPT ![Len(journal[x])] = rv]
    /\ \A y \in Executions \ {x} :
         \/ journal'[y] = journal[y]
         \/ journal[y] = <<>> /\ \E g \in 1 .. MaxFence : journal'[y] = <<FreshRevision(g)>>

RowsFor(x, rv, N) ==
    /\ N \subseteq WakeRow
    /\ \A w \in N : /\ w.exec = x /\ w.rev = Len(journal[x]) /\ w.payload = None
                    /\ rv.outcome.kind = "suspended" /\ w.condition = rv.outcome.wake
    /\ \A v, w \in N : v = w
    /\ wakes' = wakes \cup N

\* A step that replaces the latest revision of x and registers the rows N.
LEMMA ReplaceStep ==
    ASSUME JournalConsistent, NEW x \in Executions, NEW rv \in Revision, NEW N,
           Replacement(x, rv), RowsFor(x, rv, N)
    PROVE  JournalConsistent'
  <1> USE DEF Replacement, RowsFor, Exists
  <1> DEFINE s == journal[x]
             n == Len(s)
             t == journal'[x]
  <1>1. /\ \A y \in Executions : ChainOK(journal[y])
        /\ wakes \subseteq WakeRow
        /\ \A w \in wakes : RowConsistent(w)
    BY ConsistentByChains
  <1>2. ChainOK(s) /\ s # <<>>  BY <1>1
  <1>3. n \in Nat \ {0} /\ n \in 1 .. MaxRevision  BY <1>2, LatestTyped
  <1>4. s \in Seq(Revision) /\ ChainConsistent(s) /\ Len(s) <= MaxRevision
    BY <1>2 DEF ChainOK
  <1>5. rv.fence >= s[n].fence  BY DEF Latest, LatestRevision
  <1>6. /\ t \in Seq(Revision)
        /\ Len(t) = n
        /\ t[n] = rv
        /\ \A r \in 1 .. n - 1 : t[r] = s[r]
        /\ ChainConsistent(t)
    BY <1>2, <1>4, <1>5, ReplaceChain
  <1>7. ChainOK(t)
    BY <1>3, <1>6 DEF ChainOK
  <1>8. ASSUME NEW y \in Executions, y # x
        PROVE  ChainOK(journal'[y])
    <2>1. CASE journal'[y] = journal[y]  BY <2>1, <1>1
    <2>2. CASE \E g \in 1 .. MaxFence : journal'[y] = <<FreshRevision(g)>>
      <3>1. MaxRevision >= 1  BY <1>3
      <3> QED  BY <3>1, <2>2, FreshChainOK
    <2> QED  BY <1>8, <2>1, <2>2
  <1>9. \A w \in wakes : w.exec = x => w.rev \in 1 .. n - 1
    <2> SUFFICES ASSUME NEW w \in wakes, w.exec = x PROVE w.rev \in 1 .. n - 1
      OBVIOUS
    <2>1. w.rev \in 1 .. n /\ s[w.rev].outcome.kind = "suspended"
      BY <1>1 DEF RowConsistent, WakeRow
    <2>2. s[n].outcome.kind # "suspended"
      BY OutcomeKinds DEF Latest, LatestRevision
    <2> QED  BY <2>1, <2>2, <1>3
  <1>10. wakes' \subseteq WakeRow  BY <1>1
  <1>11. ASSUME NEW w \in wakes' PROVE RowConsistent(w)'
    <2>1. \A v \in wakes' : (v.exec = w.exec /\ v.rev = w.rev) => v = w
      <3> SUFFICES ASSUME NEW v \in wakes', v.exec = w.exec, v.rev = w.rev PROVE v = w
        OBVIOUS
      <3>1. CASE v \in wakes /\ w \in wakes  BY <3>1, <1>1 DEF RowConsistent
      <3>2. CASE v \in N /\ w \in N  BY <3>2
      <3>3. CASE v \in N /\ w \in wakes  BY <3>3, <1>3, <1>9
      <3>4. CASE v \in wakes /\ w \in N  BY <3>4, <1>3, <1>9
      <3> QED  BY <3>1, <3>2, <3>3, <3>4
    <2>2. /\ w.rev <= Len(journal'[w.exec])
          /\ journal'[w.exec][w.rev].outcome.kind = "suspended"
          /\ journal'[w.exec][w.rev].outcome.wake = w.condition
          /\ journal'[w.exec][w.rev].delivery = w.payload
      <3>1. CASE w \in N  BY <3>1, <1>3, <1>6
      <3>2. CASE w \in wakes /\ w.exec = x
        <4>1. w.rev \in 1 .. n - 1 /\ t[w.rev] = s[w.rev]  BY <3>2, <1>6, <1>9
        <4> QED  BY <3>2, <4>1, <1>1, <1>3, <1>6 DEF RowConsistent
      <3>3. CASE w \in wakes /\ w.exec # x
        <4>1. w.exec \in Executions /\ w.rev \in Nat \ {0}  BY <3>3, <1>1 DEF WakeRow
        <4>2. journal[w.exec] # <<>>
          <5>1. Len(<<>>) = 0  BY EmptySeq
          <5> QED  BY <5>1, <4>1, <3>3, <1>1 DEF RowConsistent
        <4>3. journal'[w.exec] = journal[w.exec]  BY <3>3, <4>1, <4>2
        <4> QED  BY <3>3, <4>3, <1>1 DEF RowConsistent
      <3> QED  BY <3>1, <3>2, <3>3
    <2> QED  BY <2>1, <2>2 DEF RowConsistent
  <1> HIDE DEF s, n, t
  <1>12. \A y \in Executions : ChainOK(journal'[y])  BY <1>7, <1>8 DEF t
  <1>13. \A w \in wakes' : RowConsistent(w)'  BY <1>11
  <1> QED  BY <1>10, <1>12, <1>13, ConsistentNext

\* create_execution
LEMMA CreateConsistent ==
    ASSUME JournalConsistent, Create PROVE JournalConsistent'
  <1> PICK x \in Executions, f \in 1 .. MaxFence : CreateExecution(x, f)
    BY DEF Create, Fences
  <1>1. /\ journal[x] = <<>> /\ MaxRevision >= 1
        /\ journal' = [journal EXCEPT ![x] = <<FreshRevision(f)>>]
        /\ wakes' = wakes
    BY DEF CreateExecution, Exists
  <1>2. /\ journal = [y \in Executions |-> journal[y]]
        /\ \A y \in Executions : ChainOK(journal[y])
        /\ wakes \subseteq WakeRow
        /\ \A w \in wakes : RowConsistent(w)
    BY ConsistentByChains
  <1>3. /\ journal' = [y \in Executions |-> journal'[y]]
        /\ journal'[x] = <<FreshRevision(f)>>
        /\ \A y \in Executions \ {x} : journal'[y] = journal[y]
    BY <1>1, <1>2
  <1>4. ASSUME NEW y \in Executions PROVE ChainOK(journal'[y])
    <2>1. CASE y = x  BY <2>1, <1>1, <1>3, FreshChainOK
    <2>2. CASE y # x  BY <2>2, <1>2, <1>3
    <2> QED  BY <2>1, <2>2
  <1>5. ASSUME NEW w \in wakes' PROVE RowConsistent(w)'
    <2>1. RowConsistent(w) /\ w.exec \in Executions /\ w.rev \in Nat \ {0}
      BY <1>1, <1>2 DEF WakeRow
    <2>2. w.exec # x
      <3>1. Len(<<>>) = 0  BY EmptySeq
      <3> QED  BY <3>1, <2>1, <1>1 DEF RowConsistent
    <2>3. journal'[w.exec] = journal[w.exec]  BY <2>1, <2>2, <1>3
    <2> QED  BY <2>1, <2>3, <1>1 DEF RowConsistent
  <1> QED  BY <1>1, <1>2, <1>3, <1>4, <1>5, ConsistentNext

\* What the invariant says of an existing execution x.
LEMMA LatestFacts ==
    ASSUME JournalConsistent, NEW x \in Executions, Exists(x)
    PROVE  /\ journal[x] # <<>>
           /\ LatestRevision(x) = Len(journal[x])
           /\ Len(journal[x]) \in 1 .. MaxRevision
           /\ Latest(x) \in Revision
           /\ RevisionConsistent(Latest(x))
           /\ Latest(x).delivery = None
           /\ Latest(x).fence \in 1 .. MaxFence
  <1>1. ChainOK(journal[x]) /\ journal[x] # <<>>
    BY ConsistentByChains DEF Exists
  <1> QED  BY <1>1, LatestTyped DEF Latest, LatestRevision

\* WithLatest changes one chain, and in it the last element.
LEMMA WithLatestFacts ==
    ASSUME JournalConsistent, NEW x \in Executions, NEW rv,
           journal' = WithLatest(x, rv)
    PROVE  /\ journal' = [y \in Executions |-> journal'[y]]
           /\ journal'[x] = [journal[x] EXCEPT ![Len(journal[x])] = rv]
           /\ \A y \in Executions \ {x} : journal'[y] = journal[y]
  <1>1. journal = [y \in Executions |-> journal[y]]  BY ConsistentByChains
  <1> QED  BY <1>1 DEF WithLatest, LatestRevision

\* An operation that keeps the latest revision of x open.
LEMMA OpenStep ==
    ASSUME JournalConsistent,
           NEW x \in Executions, Exists(x), Latest(x).outcome = NoOutcome,
           NEW rv \in Revision, RevisionConsistent(rv), rv.delivery = None,
           rv.fence >= Latest(x).fence, rv.outcome = NoOutcome,
           journal' = WithLatest(x, rv), wakes' = wakes
    PROVE  JournalConsistent'
  <1>1. RowsFor(x, rv, {})  BY DEF RowsFor
  <1>2. rv.outcome.kind # "suspended"  BY OutcomeKinds
  <1>3. Replacement(x, rv)  BY <1>2, WithLatestFacts DEF Replacement
  <1> QED  BY <1>1, <1>3, ReplaceStep

\* start_execution_attempt
LEMMA StartConsistent ==
    ASSUME JournalConsistent, StartAttempt PROVE JournalConsistent'
  <1> PICK x \in Executions, r \in Revisions, f \in 1 .. MaxFence, o \in Owners :
           StartExecutionAttempt(x, r, f, o)
    BY DEF StartAttempt, Fences
  <1> DEFINE old == Latest(x)
             rv == [old EXCEPT !.state = "running", !.attempt = [owner |-> o, fence |-> f]]
  <1>1. /\ Exists(x) /\ old.outcome = NoOutcome /\ old.fence = f
        /\ journal' = WithLatest(x, rv) /\ wakes' = wakes
    BY DEF StartExecutionAttempt, MayStartAttempt
  <1>2. old \in Revision /\ RevisionConsistent(old) /\ old.delivery = None
    BY <1>1, LatestFacts
  <1>3. /\ rv \in Revision
        /\ rv.state = "running" /\ rv.attempt = [owner |-> o, fence |-> f]
        /\ rv.outcome = NoOutcome /\ rv.fence = f /\ rv.delivery = None
    BY <1>1, <1>2 DEF Revision, Attempt
  <1>4. RevisionConsistent(rv)
    <2>1. rv.attempt # NoAttempt  BY <1>3 DEF NoAttempt
    <2> QED  BY <1>3, <2>1 DEF RevisionConsistent
  <1>5. rv.fence >= Latest(x).fence  BY <1>1, <1>3
  <1> HIDE DEF rv, old
  <1> QED  BY <1>1, <1>3, <1>4, <1>5, OpenStep DEF old

\* reclaim_execution_attempt
LEMMA ReclaimConsistent ==
    ASSUME JournalConsistent, ReclaimAttempt PROVE JournalConsistent'
  <1> PICK x \in Executions, r \in Revisions, e \in 1 .. MaxFence, f \in 1 .. MaxFence,
           o \in Owners : ReclaimExecutionAttempt(x, r, e, f, o)
    BY DEF ReclaimAttempt, Fences
  <1> DEFINE old == Latest(x)
             rv == [old EXCEPT !.fence = f, !.attempt = [owner |-> o, fence |-> f]]
  <1>1. /\ Exists(x) /\ old.outcome = NoOutcome /\ old.fence = e /\ f > e
        /\ old.state = "running"
        /\ journal' = WithLatest(x, rv) /\ wakes' = wakes
    BY DEF ReclaimExecutionAttempt, MayReclaimAttempt
  <1>2. old \in Revision /\ RevisionConsistent(old) /\ old.delivery = None
    BY <1>1, LatestFacts
  <1>3. /\ rv \in Revision
        /\ rv.state = "running" /\ rv.attempt = [owner |-> o, fence |-> f]
        /\ rv.outcome = NoOutcome /\ rv.fence = f /\ rv.delivery = None
    BY <1>1, <1>2 DEF Revision, Attempt
  <1>4. RevisionConsistent(rv)
    <2>1. rv.attempt # NoAttempt  BY <1>3 DEF NoAttempt
    <2> QED  BY <1>3, <2>1 DEF RevisionConsistent
  <1>5. rv.fence >= Latest(x).fence  BY <1>1, <1>3
  <1> HIDE DEF rv, old
  <1> QED  BY <1>1, <1>3, <1>4, <1>5, OpenStep DEF old

\* advance_execution_fence
LEMMA AdvanceConsistent ==
    ASSUME JournalConsistent, AdvanceFence PROVE JournalConsistent'
  <1> PICK x \in Executions, r \in Revisions, e \in 1 .. MaxFence, f \in 1 .. MaxFence :
           AdvanceExecutionFence(x, r, e, f)
    BY DEF AdvanceFence, Fences
  <1> DEFINE old == Latest(x)
             rv == [old EXCEPT !.fence = f]
  <1>1. /\ Exists(x) /\ old.outcome = NoOutcome /\ old.fence = e /\ f > e
        /\ old.state = "ready"
        /\ journal' = WithLatest(x, rv) /\ wakes' = wakes
    BY DEF AdvanceExecutionFence, MayAdvanceFence
  <1>2. old \in Revision /\ RevisionConsistent(old) /\ old.delivery = None
    BY <1>1, LatestFacts
  <1>3. /\ rv \in Revision
        /\ rv.state = "ready" /\ rv.attempt = old.attempt
        /\ rv.outcome = NoOutcome /\ rv.fence = f /\ rv.delivery = None
    BY <1>1, <1>2 DEF Revision
  <1>4. RevisionConsistent(rv)
    BY <1>1, <1>2, <1>3 DEF RevisionConsistent
  <1>5. rv.fence >= Latest(x).fence  BY <1>1, <1>3
  <1> HIDE DEF rv, old
  <1> QED  BY <1>1, <1>3, <1>4, <1>5, OpenStep DEF old

\* The revision that an outcome seals.
LEMMA SealedRevision ==
    ASSUME JournalConsistent, NEW x \in Executions, Exists(x),
           Latest(x).outcome = NoOutcome, NEW o \in Outcomes
    PROVE  /\ SealedBy(x, o) \in Revision
           /\ RevisionConsistent(SealedBy(x, o))
           /\ SealedBy(x, o).delivery = None
           /\ SealedBy(x, o).fence = Latest(x).fence
           /\ SealedBy(x, o).attempt = Latest(x).attempt
           /\ SealedBy(x, o).outcome = o
  <1> DEFINE rv == SealedBy(x, o)
  <1>1. Latest(x) \in Revision /\ RevisionConsistent(Latest(x)) /\ Latest(x).delivery = None
    BY LatestFacts
  <1>2. StateFor(o) \in {"suspended"} \cup TerminalKinds /\ StateFor(o) # "running"
        /\ StateFor(o) = o.kind
    BY OutcomeKinds DEF StateFor, TerminalKinds
  <1>3. /\ rv \in Revision
        /\ rv.delivery = None
        /\ rv.fence = Latest(x).fence
        /\ rv.attempt = Latest(x).attempt
        /\ rv.outcome = o
        /\ rv.state = StateFor(o)
    BY <1>1, <1>2 DEF Revision, SealedBy
  <1>4. RevisionConsistent(rv)
    BY <1>2, <1>3, OutcomeKinds DEF RevisionConsistent
  <1> QED  BY <1>3, <1>4

\* commit_execution_outcome
LEMMA CommitConsistent ==
    ASSUME JournalConsistent, Commit PROVE JournalConsistent'
  <1> PICK x \in Executions, r \in Revisions, f \in 1 .. MaxFence, o \in PlainOutcomes,
           q \in BOOLEAN : CommitExecutionOutcome(x, r, f, o, q)
    BY DEF Commit, Fences
  <1> DEFINE rv == SealedBy(x, o)
             N == RegisteredWake(x, r, o)
  <1>1. /\ Exists(x) /\ Latest(x).outcome = NoOutcome /\ r = LatestRevision(x)
        /\ o.kind = "suspended" => RoomToResume(x)
        /\ journal' = WithLatest(x, rv) /\ wakes' = wakes \cup N
    BY DEF CommitExecutionOutcome, MayCommit, Committed, FoldsOutcomeCommitted, Unsealed
  <1>2. o \in Outcomes  BY DEF Outcomes
  <1>3. /\ rv \in Revision /\ RevisionConsistent(rv) /\ rv.delivery = None
        /\ rv.fence = Latest(x).fence /\ rv.outcome = o
    BY <1>1, <1>2, SealedRevision
  <1>4. /\ journal[x] # <<>> /\ r = Len(journal[x])
        /\ Latest(x).fence \in 1 .. MaxFence
    BY <1>1, LatestFacts
  <1>5. rv.fence >= Latest(x).fence  BY <1>3, <1>4
  <1> HIDE DEF rv
  <1>6. rv.outcome.kind = "suspended" => Len(journal[x]) < MaxRevision /\ rv.fence < MaxFence
    BY <1>1, <1>3 DEF RoomToResume, LatestRevision
  <1>7. RowsFor(x, rv, N)
    <2>1. CASE o.kind = "suspended"
      <3>1. o.wake \in Conditions  BY <2>1, <1>2, OutcomeKinds
      <3>2. N = {[exec |-> x, rev |-> r, condition |-> o.wake, payload |-> None]}
        BY <2>1 DEF RegisteredWake
      <3> QED  BY <2>1, <3>1, <3>2, <1>1, <1>3, <1>4 DEF WakeRow, Revisions, RowsFor
    <2>2. CASE o.kind # "suspended"
      BY <2>2, <1>1 DEF RegisteredWake, RowsFor
    <2> QED  BY <2>1, <2>2
  <1>8. Replacement(x, rv)
    BY <1>1, <1>3, <1>5, <1>6, WithLatestFacts DEF Replacement
  <1> QED  BY <1>3, <1>7, <1>8, ReplaceStep

\* continue_execution_as_new
LEMMA ContinueConsistent ==
    ASSUME JournalConsistent, ContinueAsNew PROVE JournalConsistent'
  <1> PICK x \in Executions, r \in Revisions, f \in 1 .. MaxFence, g \in 1 .. MaxFence,
           o \in LinkedOutcomes : ContinueExecutionAsNew(x, r, f, o, g)
    BY DEF ContinueAsNew, Fences
  <1> DEFINE rv == SealedBy(x, o)
             c == o.next
  <1>1. /\ Exists(x) /\ Latest(x).outcome = NoOutcome
        /\ o.kind = "completed" /\ c \in Executions /\ c # x /\ ~Exists(c)
        /\ journal' = [WithLatest(x, rv) EXCEPT ![c] = <<FreshRevision(g)>>]
        /\ wakes' = wakes
    BY DEF ContinueExecutionAsNew, MayCommit, Committed, FoldsOutcomeCommitted, Unsealed
  <1>2. o \in Outcomes  BY DEF Outcomes
  <1>3. /\ rv \in Revision /\ RevisionConsistent(rv) /\ rv.delivery = None
        /\ rv.fence = Latest(x).fence /\ rv.outcome = o
    BY <1>1, <1>2, SealedRevision
  <1>4. Latest(x).fence \in 1 .. MaxFence  BY <1>1, LatestFacts
  <1> HIDE DEF rv
  <1>5. rv.fence >= Latest(x).fence /\ rv.outcome.kind # "suspended"
    BY <1>1, <1>3, <1>4
  <1>6. journal = [y \in Executions |-> journal[y]]  BY ConsistentByChains
  <1>7. /\ journal' = [y \in Executions |-> journal'[y]]
        /\ journal'[x] = [journal[x] EXCEPT ![Len(journal[x])] = rv]
        /\ journal'[c] = <<FreshRevision(g)>> /\ journal[c] = <<>>
        /\ \A y \in Executions \ {x, c} : journal'[y] = journal[y]
    BY <1>1, <1>6 DEF WithLatest, LatestRevision, Exists
  <1>8. Replacement(x, rv)
    BY <1>1, <1>3, <1>5, <1>7 DEF Replacement
  <1>9. RowsFor(x, rv, {})  BY <1>1 DEF RowsFor
  <1> QED  BY <1>3, <1>8, <1>9, ReplaceStep

\* discard_pending_execution_wakes
LEMMA DiscardConsistent ==
    ASSUME JournalConsistent, Discard PROVE JournalConsistent'
  <1>1. journal' = journal /\ wakes' \subseteq wakes
    BY DEF Discard, DiscardPendingWakes, Pending
  <1>2. /\ journal = [y \in Executions |-> journal[y]]
        /\ \A y \in Executions : ChainOK(journal[y])
        /\ wakes \subseteq WakeRow
        /\ \A w \in wakes : RowConsistent(w)
    BY ConsistentByChains
  <1>3. \A w \in wakes' : RowConsistent(w)'
    BY <1>1, <1>2 DEF RowConsistent
  <1> QED  BY <1>1, <1>2, <1>3, ConsistentNext

\* A delivery touches an execution once: a delivered row is the only row of the
\* latest revision of its execution.
LEMMA DeliveredRows ==
    ASSUME JournalConsistent, NEW D, D \subseteq Pending, NEW p, DeliverWakes(D, p),
           NEW w \in D
    PROVE  /\ w \in wakes /\ w.exec \in Executions /\ Exists(w.exec)
           /\ w.rev = Len(journal[w.exec])
           /\ Latest(w.exec).outcome.kind = "suspended"
           /\ Latest(w.exec).outcome.wake = w.condition
           /\ \A v \in wakes : (v.exec = w.exec /\ v.rev = w.rev) => v = w
  <1>1. w \in wakes /\ Deliverable(w)  BY DEF DeliverWakes, Pending
  <1>2. wakes \subseteq WakeRow  BY ConsistentByChains
  <1>3. w.exec \in Executions  BY <1>1, <1>2 DEF WakeRow
  <1> QED  BY <1>1, <1>3 DEF Deliverable, LatestRevision, RowsOf

\* deliver_pending_wake_on, for one row or for a batch
LEMMA DeliverConsistent ==
    ASSUME JournalConsistent, NEW D, D \subseteq Pending, NEW p \in Payloads,
           DeliverWakes(D, p)
    PROVE  JournalConsistent'
  <1> DEFINE X == {w.exec : w \in D}
             delivered(w) == [w EXCEPT !.payload = p]
  <1>1. /\ journal = [y \in Executions |-> journal[y]]
        /\ \A y \in Executions : ChainOK(journal[y])
        /\ wakes \subseteq WakeRow
        /\ \A w \in wakes : RowConsistent(w)
    BY ConsistentByChains
  <1>2. /\ journal' = [y \in Executions |-> journal'[y]]
        /\ \A y \in Executions : y \in X => journal'[y] = Resumed(y, p)
        /\ \A y \in Executions : y \notin X => journal'[y] = journal[y]
        /\ wakes' = (wakes \ D) \cup {delivered(w) : w \in D}
    BY DEF DeliverWakes
  <1>3. ASSUME NEW x \in Executions, x \in X
        PROVE  LET s == journal[x]
                   t == journal'[x]
               IN  /\ t \in Seq(Revision)
                   /\ Len(t) = Len(s) + 1 /\ Len(s) \in Nat \ {0} /\ Len(s) < MaxRevision
                   /\ t[Len(s) + 1] = FreshRevision(s[Len(s)].fence + 1)
                   /\ s[Len(s)].fence + 1 \in 1 .. MaxFence
                   /\ s[Len(s)] \in Revision
                   /\ t[Len(s)] = [s[Len(s)] EXCEPT !.delivery = p]
                   /\ \A r \in 1 .. Len(s) - 1 : t[r] = s[r]
                   /\ ChainConsistent(t)
    <2> DEFINE s == journal[x]
               t == journal'[x]
    <2>1. Exists(x) /\ Latest(x).outcome.kind = "suspended"
      BY <1>3, DeliveredRows
    <2>2. ChainOK(s) /\ s # <<>> /\ s[Len(s)].outcome.kind = "suspended"
      BY <1>1, <2>1 DEF Exists, Latest, LatestRevision
    <2>3. s \in Seq(Revision) /\ ChainConsistent(s) /\ Len(s) < MaxRevision
          /\ s[Len(s)].fence < MaxFence
      BY <2>2 DEF ChainOK
    <2>4. Len(s) \in Nat \ {0} /\ s[Len(s)].fence \in 1 .. MaxFence /\ s[Len(s)] \in Revision
      BY <2>2, LatestTyped
    <2>5. t = ResumedChain(s, p)
      BY <1>2, <1>3 DEF Resumed
    <2> HIDE DEF s, t
    <2>6. /\ t \in Seq(Revision)
          /\ Len(t) = Len(s) + 1
          /\ t[Len(s) + 1] = FreshRevision(s[Len(s)].fence + 1)
          /\ t[Len(s)] = [s[Len(s)] EXCEPT !.delivery = p]
          /\ \A r \in 1 .. Len(s) - 1 : t[r] = s[r]
          /\ ChainConsistent(t)
      BY <2>2, <2>3, <2>5, ResumeChain
    <2>7. s[Len(s)].fence + 1 \in 1 .. MaxFence  BY <2>3, <2>4
    <2> QED  BY <2>3, <2>4, <2>6, <2>7 DEF s, t
  <1>4. ASSUME NEW x \in Executions, x \in X PROVE ChainOK(journal'[x])
    <2> DEFINE s == journal[x]
               t == journal'[x]
    <2>1. /\ t \in Seq(Revision) /\ Len(t) = Len(s) + 1 /\ Len(s) \in Nat
          /\ Len(s) < MaxRevision
          /\ t[Len(t)] = FreshRevision(s[Len(s)].fence + 1)
          /\ s[Len(s)].fence + 1 \in 1 .. MaxFence
          /\ ChainConsistent(t)
      BY <1>3, <1>4
    <2>2. t[Len(t)].outcome.kind # "suspended"
      BY <2>1, FreshIsConsistent, OutcomeKinds
    <2> HIDE DEF s, t
    <2>3. ChainOK(t)  BY <2>1, <2>2 DEF ChainOK
    <2> QED  BY <2>3 DEF t
  <1>5. \A x \in Executions : ChainOK(journal'[x])
    BY <1>1, <1>2, <1>4
  <1>6. ASSUME NEW w \in wakes
        PROVE  /\ w.exec \in Executions /\ w.rev \in Nat \ {0}
               /\ delivered(w) \in WakeRow
               /\ delivered(w).exec = w.exec /\ delivered(w).rev = w.rev
               /\ delivered(w).condition = w.condition /\ delivered(w).payload = p
    <2>1. w \in WakeRow  BY <1>1
    <2> QED  BY <2>1 DEF WakeRow
  <1>7. D \subseteq wakes  BY DEF Pending
  <1> HIDE DEF delivered
  <1>8. wakes' \subseteq WakeRow
    BY <1>1, <1>2, <1>6, <1>7
  <1>9. ASSUME NEW w \in wakes, w \notin D
        PROVE  /\ w.rev <= Len(journal'[w.exec])
               /\ journal'[w.exec][w.rev].outcome.kind = "suspended"
               /\ journal'[w.exec][w.rev].outcome.wake = w.condition
               /\ journal'[w.exec][w.rev].delivery = w.payload
    <2>1. RowConsistent(w) /\ w.exec \in Executions /\ w.rev \in Nat \ {0}  BY <1>1, <1>6
    <2>2. CASE w.exec \notin X
      <3>1. journal'[w.exec] = journal[w.exec]  BY <2>1, <2>2, <1>2
      <3> QED  BY <3>1, <2>1 DEF RowConsistent
    <2>3. CASE w.exec \in X
      <3> DEFINE s == journal[w.exec]
                 t == journal'[w.exec]
      <3>1. PICK v \in D : v.exec = w.exec  BY <2>3
      <3>2. v.rev = Len(s) /\ v \in wakes  BY <3>1, DeliveredRows, <1>7
      <3>3. w.rev # Len(s)
        <4>1. (w.exec = v.exec /\ w.rev = v.rev) => w = v
          BY <3>1, DeliveredRows
        <4> QED  BY <4>1, <3>1, <3>2, <1>9
      <3>4. /\ Len(t) = Len(s) + 1 /\ Len(s) \in Nat
            /\ \A r \in 1 .. Len(s) - 1 : t[r] = s[r]
        BY <2>1, <2>3, <1>3
      <3>5. w.rev <= Len(s)  BY <2>1 DEF RowConsistent
      <3> HIDE DEF s, t
      <3>6. w.rev \in 1 .. Len(s) - 1 /\ w.rev <= Len(t)  BY <2>1, <3>3, <3>4, <3>5
      <3>7. t[w.rev] = s[w.rev]  BY <3>4, <3>6
      <3> QED  BY <2>1, <3>6, <3>7 DEF RowConsistent, s, t
    <2> QED  BY <2>2, <2>3
  <1>10. ASSUME NEW w \in D
         PROVE  /\ w.rev <= Len(journal'[w.exec])
                /\ journal'[w.exec][w.rev].outcome.kind = "suspended"
                /\ journal'[w.exec][w.rev].outcome.wake = w.condition
                /\ journal'[w.exec][w.rev].delivery = p
    <2> DEFINE s == journal[w.exec]
               t == journal'[w.exec]
    <2>1. /\ w.exec \in Executions /\ w.exec \in X /\ w.rev = Len(s)
          /\ s[Len(s)].outcome.kind = "suspended"
          /\ s[Len(s)].outcome.wake = w.condition
      BY DeliveredRows DEF Latest, LatestRevision
    <2>2. /\ Len(t) = Len(s) + 1 /\ Len(s) \in Nat \ {0} /\ s[Len(s)] \in Revision
          /\ t[Len(s)] = [s[Len(s)] EXCEPT !.delivery = p]
      BY <2>1, <1>3
    <2> HIDE DEF s, t
    <2>3. t[Len(s)].outcome = s[Len(s)].outcome /\ t[Len(s)].delivery = p
      BY <2>2 DEF Revision
    <2> QED  BY <2>1, <2>2, <2>3 DEF s, t
  <1>11. ASSUME NEW a \in wakes', NEW b \in wakes', a.exec = b.exec, a.rev = b.rev
         PROVE  a = b
    <2>1. PICK v \in wakes : /\ v.exec = a.exec /\ v.rev = a.rev
                             /\ \/ a = v /\ v \notin D
                                \/ a = delivered(v) /\ v \in D
      BY <1>2, <1>6, <1>7
    <2>2. PICK w \in wakes : /\ w.exec = b.exec /\ w.rev = b.rev
                             /\ \/ b = w /\ w \notin D
                                \/ b = delivered(w) /\ w \in D
      BY <1>2, <1>6, <1>7
    <2>3. v = w  BY <1>1, <1>11, <2>1, <2>2 DEF RowConsistent
    <2> QED  BY <2>1, <2>2, <2>3
  <1>12. ASSUME NEW w \in wakes' PROVE RowConsistent(w)'
    <2>1. CASE w \in wakes /\ w \notin D  BY <2>1, <1>9, <1>11 DEF RowConsistent
    <2>2. CASE \E v \in D : w = delivered(v)
      <3>1. PICK v \in D : w = delivered(v)  BY <2>2
      <3>2. /\ w.exec = v.exec /\ w.rev = v.rev /\ w.condition = v.condition
            /\ w.payload = p
        BY <3>1, <1>6, <1>7
      <3> QED  BY <3>2, <1>10, <1>11 DEF RowConsistent
    <2> QED  BY <2>1, <2>2, <1>2
  <1> HIDE DEF X
  <1> QED  BY <1>2, <1>5, <1>8, <1>12, ConsistentNext

\* JournalConsistent is kept by every step of any client.
LEMMA StepConsistent ==
    JournalConsistent /\ [JournalNext]_journalVars => JournalConsistent'
  <1> SUFFICES ASSUME JournalConsistent, [JournalNext]_journalVars
               PROVE  JournalConsistent'
    OBVIOUS
  <1>1. CASE Create  BY <1>1, CreateConsistent
  <1>2. CASE StartAttempt  BY <1>2, StartConsistent
  <1>3. CASE ReclaimAttempt  BY <1>3, ReclaimConsistent
  <1>4. CASE AdvanceFence  BY <1>4, AdvanceConsistent
  <1>5. CASE Commit  BY <1>5, CommitConsistent
  <1>6. CASE ContinueAsNew  BY <1>6, ContinueConsistent
  <1>7. CASE WakeDue
    <2>1. PICK p \in Payloads, D \in SUBSET {w \in Pending : w.condition \in Timers} :
             WakeDueExecutions(D, p)
      BY <1>7 DEF WakeDue
    <2>2. D \subseteq Pending /\ DeliverWakes(D, p)  BY <2>1 DEF WakeDueExecutions
    <2> QED  BY <2>2, DeliverConsistent
  <1>8. CASE DeliverWake
    <2>1. PICK c \in Conditions \ Timers, p \in Payloads : DeliverExecutionWake(c, p)
      BY <1>8 DEF DeliverWake
    <2>2. DeliverWakes({w \in Pending : w.condition = c}, p)
      BY <2>1 DEF DeliverExecutionWake
    <2>3. {w \in Pending : w.condition = c} \subseteq Pending  OBVIOUS
    <2> QED  BY <2>2, <2>3, DeliverConsistent
  <1>9. CASE Discard  BY <1>9, DiscardConsistent
  <1>10. CASE UNCHANGED journalVars
    BY <1>10 DEF journalVars, JournalConsistent, JournalTypeOK, RowConsistent,
                 SuspendedHasRoom, RoomToResume, Exists, Latest, LatestRevision
  <1> QED  BY <1>1, <1>2, <1>3, <1>4, <1>5, <1>6, <1>7, <1>8, <1>9, <1>10 DEF JournalNext

\* Whatever operations clients call and in whatever order, the folded journal
\* and the wake table describe one consistent history; in particular both are
\* always well typed (fold_journal, register_suspended_wake_on).
THEOREM JournalStaysConsistent == JournalSpec => []JournalConsistent
  <1>1. JournalInit => JournalConsistent  BY InitConsistent
  <1>2. JournalConsistent /\ [JournalNext]_journalVars => JournalConsistent'
    BY StepConsistent
  <1> QED  BY <1>1, <1>2, PTL DEF JournalSpec

\* A pending wake row is always deliverable: deliver_pending_wake_on cannot
\* fail on a stored row, so one row never blocks the batch of a due timer.
THEOREM PendingWakesStayDeliverable == JournalSpec => []PendingWakesDeliverable
  <1>1. JournalConsistent => PendingWakesDeliverable
    <2> SUFFICES ASSUME JournalConsistent, NEW w \in Pending PROVE Deliverable(w)
      BY DEF PendingWakesDeliverable
    <2> DEFINE x == w.exec
               s == journal[x]
    <2>1. w \in wakes /\ w.payload = None  BY DEF Pending
    <2>2. RowConsistent(w) /\ x \in Executions /\ w.rev \in Nat \ {0} /\ ChainOK(s)
      BY <2>1, ConsistentByChains DEF WakeRow
    <2>3. Len(s) \in Nat /\ s \in Seq(Revision) /\ ChainConsistent(s)
      BY <2>2, LenProperties DEF ChainOK
    <2>4. w.rev \in 1 .. Len(s)  BY <2>2, <2>3 DEF RowConsistent
    <2>5. w.rev = Len(s)
      BY <2>1, <2>2, <2>3, <2>4 DEF RowConsistent, ChainConsistent
    <2>6. s # <<>>
      <3>1. Len(<<>>) = 0  BY EmptySeq
      <3> QED  BY <3>1, <2>4, <2>5
    <2>7. RowsOf(x, w.rev) = {w}
      BY <2>1, <2>2 DEF RowsOf, RowConsistent
    <2> QED  BY <2>1, <2>2, <2>5, <2>6, <2>7
             DEF Deliverable, Exists, Latest, LatestRevision, RowConsistent
  <1> QED  BY <1>1, JournalStaysConsistent, PTL

\* The checks of an operation imply those of the fold that re-reads the journal,
\* so no accepted operation is rolled back by append_journal_event_on.
THEOREM OperationsAlwaysFold == JournalSpec => []OperationsFold
  <1>1. JournalConsistent => OperationsFold
    <2> SUFFICES ASSUME JournalConsistent, NEW x \in Executions PROVE
             /\ \A r \in Revisions, e \in Fences :
                  /\ MayStartAttempt(x, r, e) => FoldsAttemptStarted(x, e)
                  /\ MayCommit(x, r, e, FALSE) => FoldsOutcomeCommitted(x)
                  /\ \A f \in Fences :
                       /\ MayReclaimAttempt(x, r, e, f) =>
                            FoldsAttemptReclaimed(x, Latest(x).attempt.owner, e, f)
                       /\ MayAdvanceFence(x, r, e, f) => FoldsFenceAdvanced(x, e, f)
             /\ \A w \in Pending :
                  Deliverable(w) => FoldsWakeDelivered(w.exec, w.condition)
      BY DEF OperationsFold
    <2>1. ASSUME NEW r \in Revisions, NEW e \in Fences, MayStartAttempt(x, r, e)
          PROVE  FoldsAttemptStarted(x, e)
      BY <2>1, LatestFacts DEF MayStartAttempt, FoldsAttemptStarted, Unsealed, RevisionConsistent
    <2>2. ASSUME NEW r \in Revisions, NEW e \in Fences, MayCommit(x, r, e, FALSE)
          PROVE  FoldsOutcomeCommitted(x)
      BY <2>2 DEF MayCommit, FoldsOutcomeCommitted, Unsealed, Latest
    <2>3. ASSUME NEW r \in Revisions, NEW e \in Fences, NEW f \in Fences,
                 MayReclaimAttempt(x, r, e, f)
          PROVE  FoldsAttemptReclaimed(x, Latest(x).attempt.owner, e, f)
      <3>1. /\ Exists(x) /\ Latest(x).state = "running" /\ Latest(x).outcome = NoOutcome
            /\ Latest(x).fence = e /\ f > e /\ Latest(x).attempt # NoAttempt
        BY <2>3 DEF MayReclaimAttempt
      <3>2. Latest(x) \in Revision /\ Latest(x).attempt.fence = e
        BY <3>1, LatestFacts DEF RevisionConsistent
      <3>3. Latest(x).attempt \in Attempt  BY <3>1, <3>2 DEF Revision
      <3>4. Latest(x).attempt = [owner |-> Latest(x).attempt.owner, fence |-> e]
        BY <3>2, <3>3 DEF Attempt
      <3> QED  BY <3>1, <3>4 DEF FoldsAttemptReclaimed, Unsealed
    <2>4. ASSUME NEW r \in Revisions, NEW e \in Fences, NEW f \in Fences,
                 MayAdvanceFence(x, r, e, f)
          PROVE  FoldsFenceAdvanced(x, e, f)
      BY <2>4 DEF MayAdvanceFence, FoldsFenceAdvanced, Unsealed
    <2>5. ASSUME NEW w \in Pending, Deliverable(w)
          PROVE  FoldsWakeDelivered(w.exec, w.condition)
      BY <2>5 DEF Deliverable, FoldsWakeDelivered
    <2> QED  BY <2>1, <2>2, <2>3, <2>4, <2>5
  <1> QED  BY <1>1, JournalStaysConsistent, PTL
===============================================================================

------------------------ MODULE ProjectionOutboxProofs ------------------------
(***************************************************************************)
(* Proofs about ProjectionOutbox, for any gateways, executions, outcomes   *)
(* and bounds.                                                             *)
(*                                                                         *)
(* Neither result needs that a claim has one holder.  Two workers may be   *)
(* on one row; what keeps a message from being sent twice is a budget per  *)
(* receipt, and what keeps the order is that a completed row is never      *)
(* written again.                                                          *)
(***************************************************************************)
EXTENDS ProjectionOutbox, FiniteSetTheorems, TLAPS

USE OutboxAssumption

-------------------------------------------------------------------------------
(* The inductive invariant *)

BusyPcs == Dispatching \cup {"load", "project", "dispatch", "begin",
                             "ack", "complete", "block", "fail"}
RowType == [status : {"pending", "claimed", "blocked", "completed"},
            gen : 0 .. MaxGeneration, token : Nat, fresh : BOOLEAN]
ReceiptType ==
    [status : {"absent", "prepared", "started", "uncertain", "completed"},
     decision : Decisions \cup {"none"}]
WorkerType ==
    [gen : 0 .. MaxGeneration, pc : BusyPcs \cup {"off", "idle"},
     x : Executions \cup {NoOne}, r : 0 .. MaxRevision, token : Nat]

\* A row in agreement with the CHECKs of its table.
RowOK(row) ==
    /\ row.status = "claimed" <=> row.gen > 0
    /\ row.fresh => row.status = "claimed"

\* The parts of OutboxTypeOK.
SealedTyped == sealed \in [Executions -> Seq(PlainOutcomes)] /\ open \subseteq Executions
RowsTyped ==
    /\ outbox \in [Executions -> Seq(RowType)]
    /\ \A x \in Executions : \A r \in 1 .. Len(outbox[x]) : RowOK(outbox[x][r])
ReceiptsTyped == receipts \in [Keys -> ReceiptType]
AcksTyped == acks \in [Executions -> Seq(Revisions)]
WorkersTyped == workers \in [Gateways -> WorkerType]
CountersTyped ==
    /\ closed \subseteq Keys
    /\ generation \in 0 .. MaxGeneration
    /\ delivered \in [Keys -> Nat] /\ denials \in [Keys -> 0 .. MaxDenials]
    /\ faults \in 0 .. MaxFaults

\* Every outcome has a row, and only outcomes are acknowledged.
RowsPlaced ==
    \A x \in Executions :
        Len(outbox[x]) = Len(sealed[x]) /\ Len(acks[x]) <= Len(outbox[x])

Busy(w) == w.pc \notin {"off", "idle"}

IsReply(x, r) == Outcome(x, r).kind = "completed" /\ Outcome(x, r).sends

\* A worker is on a row whose predecessors are completed.  It completes the row
\* only after the turn event, and writes the event of a reply only after its
\* receipt is completed.
PlacedAt(w) ==
    /\ w.pc # "off" => w.gen > 0
    /\ w.gen <= generation
    /\ Busy(w) => /\ w.x \in Executions /\ w.r \in Revisions
                  /\ w.r <= Len(outbox[w.x])
                  /\ EarlierCompleted(w.x, w.r)
    /\ w.pc = "complete" => w.r <= Len(acks[w.x])
    /\ (w.pc = "ack" /\ IsReply(w.x, w.r)) => receipts[<<w.x, w.r>>].status = "completed"
WorkersPlaced == \A g \in Gateways : PlacedAt(workers[g])

\* The budget of a receipt: messages that arrived, workers that may still send
\* one or give an unused claim back, and the claim that the receipt permits are
\* together no more than the decisions to send.
Sending(k) ==
    {g \in Gateways : workers[g].pc \in {"sending", "refused"} /\ Key(g) = k}
Claims(k) == IF receipts[k].status \in {"absent", "prepared"} THEN 1 ELSE 0
WithinBudget(k) ==
    /\ IsFiniteSet(Sending(k))
    /\ delivered[k] + Cardinality(Sending(k)) + Claims(k) <= 1 + denials[k]
Budget == \A k \in Keys : WithinBudget(k)

OutboxInv ==
    OutboxTypeOK /\ RowsPlaced /\ WorkersPlaced /\ AcknowledgedInOrder /\ Budget

\* The type invariant is the conjunction of its parts.
LEMMA TypeParts ==
    OutboxTypeOK <=> /\ SealedTyped /\ RowsTyped /\ ReceiptsTyped /\ AcksTyped
                     /\ WorkersTyped /\ CountersTyped
  BY DEF OutboxTypeOK, SealedTyped, RowsTyped, ReceiptsTyped, AcksTyped, WorkersTyped,
         CountersTyped, RowType, ReceiptType, WorkerType, RowOK, BusyPcs

\* The same of the state after a step.
LEMMA TypePartsAfter ==
    ASSUME SealedTyped', RowsTyped', ReceiptsTyped', AcksTyped', WorkersTyped',
           CountersTyped'
    PROVE  OutboxTypeOK'
  BY TypeParts, PTL

\* A set and the set without one of its elements.
LEMMA OneLess ==
    ASSUME NEW S, NEW g, IsFiniteSet(S)
    PROVE  /\ IsFiniteSet(S \ {g})
           /\ Cardinality(S) \in Nat /\ Cardinality(S \ {g}) \in Nat
           /\ Cardinality(S \ {g}) <= Cardinality(S)
           /\ g \in S => Cardinality(S \ {g}) = Cardinality(S) - 1
  <1>1. IsFiniteSet(S \ {g})
    BY FS_RemoveElement
  <1>2. Cardinality(S) \in Nat /\ Cardinality(S \ {g}) \in Nat
    BY <1>1, FS_CardinalityType
  <1>3. CASE g \in S
    <2>1. Cardinality(S \ {g}) = Cardinality(S) - 1
      BY <1>3, FS_RemoveElement
    <2> QED  BY <1>1, <1>2, <2>1
  <1>4. CASE g \notin S
    <2>1. S \ {g} = S
      BY <1>4
    <2>2. Cardinality(S \ {g}) = Cardinality(S)
      BY <2>1, Zenon
    <2> QED  BY <1>1, <1>2, <1>4, <2>2
  <1> QED  BY <1>3, <1>4

-------------------------------------------------------------------------------
(* Rows and workers *)

\* Writing one row of the table.
LEMMA RowWritten ==
    ASSUME RowsTyped, NEW x \in Executions, NEW r \in 1 .. Len(outbox[x]),
           NEW row \in RowType, RowOK(row), outbox' = SetRow(x, r, row)
    PROVE  /\ RowsTyped'
           /\ \A y \in Executions : Len(outbox'[y]) = Len(outbox[y])
           /\ outbox'[x][r] = row
           /\ \A y \in Executions : \A q \in 1 .. Len(outbox[y]) :
                y # x \/ q # r => outbox'[y][q] = outbox[y][q]
  <1> DEFINE rows == [outbox[x] EXCEPT ![r] = row]
  <1>1. outbox[x] \in Seq(RowType)
    BY DEF RowsTyped
  <1>2. /\ rows \in Seq(RowType) /\ Len(rows) = Len(outbox[x]) /\ rows[r] = row
        /\ \A q \in 1 .. Len(outbox[x]) : q # r => rows[q] = outbox[x][q]
    BY <1>1
  <1>3. outbox' = [outbox EXCEPT ![x] = rows]
    BY DEF SetRow
  <1> HIDE DEF rows
  <1>4. /\ outbox' \in [Executions -> Seq(RowType)]
        /\ outbox'[x] = rows
        /\ \A y \in Executions : y # x => outbox'[y] = outbox[y]
    BY <1>2, <1>3 DEF RowsTyped
  <1>5. ASSUME NEW y \in Executions, NEW q \in 1 .. Len(outbox'[y])
        PROVE  RowOK(outbox'[y][q])
    <2>1. CASE y = x
      BY <1>2, <1>4, <2>1 DEF RowsTyped
    <2>2. CASE y # x
      BY <1>4, <2>2 DEF RowsTyped
    <2> QED  BY <2>1, <2>2
  <1>6. RowsTyped'
    BY <1>4, <1>5 DEF RowsTyped
  <1>7. \A y \in Executions : Len(outbox'[y]) = Len(outbox[y])
    BY <1>2, <1>4
  <1>8. ASSUME NEW y \in Executions, NEW q \in 1 .. Len(outbox[y]), y # x \/ q # r
        PROVE  outbox'[y][q] = outbox[y][q]
    BY <1>2, <1>4, <1>8
  <1> QED  BY <1>2, <1>4, <1>6, <1>7, <1>8

\* What no step undoes.
Grows ==
    /\ \A x \in Executions :
         /\ Len(outbox'[x]) \in Nat /\ Len(outbox[x]) <= Len(outbox'[x])
         /\ Len(acks'[x]) \in Nat /\ Len(acks[x]) <= Len(acks'[x])
         /\ \A r \in 1 .. Len(outbox[x]) :
              /\ outbox[x][r].status = "completed" => outbox'[x][r].status = "completed"
              /\ sealed'[x][r] = sealed[x][r]
    /\ \A k \in Keys :
         receipts[k].status = "completed" => receipts'[k].status = "completed"
    /\ generation' \in Nat /\ generation <= generation'

\* A worker that does not move stays placed.
LEMMA StaysPlaced ==
    ASSUME OutboxInv, Grows, NEW w \in WorkerType, PlacedAt(w)
    PROVE  PlacedAt(w)'
  <1>1. /\ generation \in Nat
        /\ \A x \in Executions : Len(outbox[x]) \in Nat /\ Len(acks[x]) \in Nat
    BY TypeParts DEF OutboxInv, CountersTyped, RowsTyped, AcksTyped
  <1>2. w.gen \in Nat /\ w.gen <= generation'
    BY <1>1 DEF PlacedAt, Grows, WorkerType
  <1>3. ASSUME Busy(w)
        PROVE  /\ w.x \in Executions /\ w.r \in Revisions
               /\ w.r \in 1 .. Len(outbox[w.x])
               /\ w.r <= Len(outbox'[w.x])
               /\ EarlierCompleted(w.x, w.r)'
    <2>1. w.x \in Executions /\ w.r \in Revisions /\ w.r \in 1 .. Len(outbox[w.x])
      BY <1>1, <1>3 DEF PlacedAt, Revisions
    <2>2. w.r <= Len(outbox'[w.x])
      BY <1>1, <2>1 DEF Grows
    <2>3. EarlierCompleted(w.x, w.r)
      BY <1>3 DEF PlacedAt
    <2>4. ASSUME NEW q \in 1 .. w.r - 1  PROVE outbox'[w.x][q].status = "completed"
      <3>1. q \in 1 .. Len(outbox[w.x]) /\ outbox[w.x][q].status = "completed"
        BY <1>1, <2>1, <2>3 DEF EarlierCompleted
      <3> QED  BY <2>1, <3>1 DEF Grows
    <2> QED  BY <2>1, <2>2, <2>4 DEF EarlierCompleted
  <1>4. ASSUME w.pc = "complete"  PROVE w.r <= Len(acks'[w.x])
    <2>1. Busy(w) /\ w.r <= Len(acks[w.x])
      BY <1>4 DEF PlacedAt, Busy
    <2> QED  BY <1>1, <1>3, <2>1 DEF Grows, Revisions
  <1>5. ASSUME w.pc = "ack", IsReply(w.x, w.r)'
        PROVE  receipts'[<<w.x, w.r>>].status = "completed"
    <2>1. Busy(w)
      BY <1>5 DEF Busy
    <2>2. IsReply(w.x, w.r)
      BY <1>3, <1>5, <2>1 DEF Grows, IsReply, Outcome
    <2>3. <<w.x, w.r>> \in Keys /\ receipts[<<w.x, w.r>>].status = "completed"
      BY <1>3, <1>5, <2>1, <2>2 DEF PlacedAt, Keys
    <2> QED  BY <2>3 DEF Grows
  <1>6. w.pc # "off" => w.gen > 0
    BY DEF PlacedAt
  <1> QED  BY <1>2, <1>3, <1>4, <1>5, <1>6 DEF PlacedAt

\* A step in which at most one worker moves keeps all of them placed.
LEMMA OneWorkerMoves ==
    ASSUME OutboxInv, Grows, NEW g \in Gateways, NEW w \in WorkerType, PlacedAt(w)',
           workers' = [workers EXCEPT ![g] = w]
    PROVE  /\ WorkersTyped' /\ WorkersPlaced'
           /\ \A k \in Keys :
                /\ ~(w.pc \in {"sending", "refused"} /\ <<w.x, w.r>> = k) =>
                     Sending(k)' = Sending(k) \ {g}
                /\ w.pc \in {"sending", "refused"} /\ <<w.x, w.r>> = k =>
                     Sending(k)' = Sending(k) \cup {g}
  <1>1. WorkersTyped
    BY TypeParts DEF OutboxInv
  <1>2. WorkersTyped' /\ workers'[g] = w /\ \A h \in Gateways : h # g => workers'[h] = workers[h]
    BY <1>1 DEF WorkersTyped
  <1>3. ASSUME NEW h \in Gateways  PROVE PlacedAt(workers[h])'
    <2>1. CASE h = g
      BY <1>2, <2>1 DEF PlacedAt, Busy, IsReply, Outcome, EarlierCompleted
    <2>2. CASE h # g
      <3>1. PICK v \in WorkerType : v = workers[h] /\ v = workers'[h]
        BY <1>1, <1>2, <2>2 DEF WorkersTyped
      <3>2. PlacedAt(v)
        BY <3>1 DEF OutboxInv, WorkersPlaced
      <3>3. PlacedAt(v)'
        BY <3>2, StaysPlaced
      <3> QED  BY <3>1, <3>3 DEF PlacedAt, Busy, IsReply, Outcome, EarlierCompleted
    <2> QED  BY <2>1, <2>2
  <1>4. ASSUME NEW k \in Keys, ~(w.pc \in {"sending", "refused"} /\ <<w.x, w.r>> = k)
        PROVE  Sending(k)' = Sending(k) \ {g}
    BY <1>2, <1>4 DEF Sending, Key
  <1>5. ASSUME NEW k \in Keys, w.pc \in {"sending", "refused"}, <<w.x, w.r>> = k
        PROVE  Sending(k)' = Sending(k) \cup {g}
    BY <1>2, <1>5 DEF Sending, Key
  <1> QED  BY <1>2, <1>3, <1>4, <1>5 DEF WorkersPlaced

\* A step in which no worker moves.
LEMMA NoWorkerMoves ==
    ASSUME OutboxInv, Grows, UNCHANGED workers
    PROVE  /\ WorkersTyped' /\ WorkersPlaced'
           /\ \A k \in Keys : Sending(k)' = Sending(k)
  <1>1. WorkersTyped /\ WorkersTyped'
    BY TypeParts DEF OutboxInv, WorkersTyped
  <1>2. ASSUME NEW h \in Gateways  PROVE PlacedAt(workers[h])'
    <2>1. PICK v \in WorkerType : v = workers[h] /\ v = workers'[h]
      BY <1>1 DEF WorkersTyped
    <2>2. PlacedAt(v)
      BY <2>1 DEF OutboxInv, WorkersPlaced
    <2>3. PlacedAt(v)'
      BY <2>2, StaysPlaced
    <2> QED  BY <2>1, <2>3 DEF PlacedAt, Busy, IsReply, Outcome, EarlierCompleted
  <1> QED  BY <1>1, <1>2 DEF WorkersPlaced, Sending, Key

\* Order is kept by a step that acknowledges nothing and completes only rows
\* that are acknowledged.
LEMMA OrderKept ==
    ASSUME OutboxInv, Grows, UNCHANGED acks, RowsTyped',
           \A x \in Executions : \A r \in 1 .. Len(outbox'[x]) :
             outbox'[x][r].status = "completed" => r <= Len(acks[x])
    PROVE  AcknowledgedInOrder'
  <1>1. ASSUME NEW x \in Executions, NEW r \in 1 .. Len(acks[x]), IsReply(x, r)'
        PROVE  receipts'[<<x, r>>].status = "completed"
    <2>1. acks[x] \in Seq(Revisions) /\ Len(acks[x]) <= Len(outbox[x]) /\ Len(outbox[x]) \in Nat
      BY TypeParts DEF OutboxInv, RowsPlaced, AcksTyped, RowsTyped
    <2>2. acks[x] = [i \in 1 .. Len(acks[x]) |-> i]
      BY DEF OutboxInv, AcknowledgedInOrder
    <2>3. acks[x][r] = r
      BY <2>2
    <2>4. <<x, r>> \in Keys /\ r \in 1 .. Len(outbox[x])
      BY <2>1, <2>3 DEF Keys
    <2>5. IsReply(x, r)
      BY <1>1, <2>4 DEF Grows, IsReply, Outcome
    <2>6. receipts[<<x, r>>].status = "completed"
      BY <2>5 DEF OutboxInv, AcknowledgedInOrder, IsReply
    <2> QED  BY <2>4, <2>6 DEF Grows
  <1>2. ASSUME NEW x \in Executions  PROVE acks'[x] = [i \in 1 .. Len(acks'[x]) |-> i]
    BY DEF OutboxInv, AcknowledgedInOrder
  <1> QED  BY <1>1, <1>2 DEF AcknowledgedInOrder, IsReply

\* Nothing the order depends on changes in a step that leaves rows and events.
LEMMA OrderUntouched ==
    ASSUME OutboxInv, Grows, UNCHANGED <<acks, outbox>>
    PROVE  AcknowledgedInOrder'
  <1>1. RowsTyped'
    BY TypeParts DEF OutboxInv, RowsTyped
  <1>2. \A x \in Executions : \A r \in 1 .. Len(outbox'[x]) :
          outbox'[x][r].status = "completed" => r <= Len(acks[x])
    BY DEF OutboxInv, AcknowledgedInOrder
  <1> QED  BY <1>1, <1>2, OrderKept

\* A budget that nothing is added to.
LEMMA BudgetKept ==
    ASSUME OutboxInv, NEW g, NEW k \in Keys,
           Sending(k)' = Sending(k) \/ Sending(k)' = Sending(k) \ {g},
           delivered'[k] = delivered[k], denials'[k] = denials[k],
           receipts'[k].status \in {"absent", "prepared"} =>
             receipts[k].status \in {"absent", "prepared"}
    PROVE  WithinBudget(k)'
  <1> DEFINE S == Sending(k)
  <1>1. /\ IsFiniteSet(S) /\ Cardinality(S) \in Nat
        /\ delivered[k] \in Nat /\ denials[k] \in Nat /\ Claims(k) \in 0 .. 1
        /\ delivered[k] + Cardinality(S) + Claims(k) <= 1 + denials[k]
    BY TypeParts, FS_CardinalityType
       DEF OutboxInv, Budget, WithinBudget, CountersTyped, Claims
  <1>2. /\ IsFiniteSet(S \ {g}) /\ Cardinality(S \ {g}) \in Nat
        /\ Cardinality(S \ {g}) <= Cardinality(S)
    BY <1>1, OneLess
  <1>3. Claims(k)' \in 0 .. 1 /\ Claims(k)' <= Claims(k)
    BY DEF Claims
  <1>4. PICK T : T = Sending(k)' /\ (T = S \/ T = S \ {g})
    OBVIOUS
  <1> HIDE DEF S
  <1>5. IsFiniteSet(T) /\ Cardinality(T) \in Nat /\ Cardinality(T) <= Cardinality(S)
    <2>1. CASE T = S
      BY <1>1, <2>1
    <2>2. CASE T = S \ {g}
      BY <1>2, <2>2
    <2> QED  BY <1>4, <2>1, <2>2
  <1>6. IsFiniteSet(Sending(k))' /\ Cardinality(Sending(k))' = Cardinality(T)
    BY <1>4, <1>5
  <1> QED  BY <1>1, <1>3, <1>5, <1>6 DEF WithinBudget

\* A worker steps on in its drain: it does not send.
LEMMA QuietBudget ==
    ASSUME OutboxInv, Grows, NEW g \in Gateways, NEW w \in WorkerType, PlacedAt(w)',
           w.pc \notin {"sending", "refused"},
           workers' = [workers EXCEPT ![g] = w], UNCHANGED <<delivered, denials>>,
           \A k \in Keys : receipts'[k].status \in {"absent", "prepared"} =>
             receipts[k].status \in {"absent", "prepared"}
    PROVE  WorkersTyped' /\ WorkersPlaced' /\ Budget'
  <1>1. /\ WorkersTyped' /\ WorkersPlaced'
        /\ \A k \in Keys : Sending(k)' = Sending(k) \ {g}
    BY OneWorkerMoves
  <1>2. \A k \in Keys : WithinBudget(k)'
    BY <1>1, BudgetKept
  <1> QED  BY <1>1, <1>2 DEF Budget

\* A step of nobody that settles no receipt.
LEMMA IdleBudget ==
    ASSUME OutboxInv, Grows, UNCHANGED <<workers, delivered, denials, receipts>>
    PROVE  WorkersTyped' /\ WorkersPlaced' /\ Budget'
  <1>1. /\ WorkersTyped' /\ WorkersPlaced'
        /\ \A k \in Keys : Sending(k)' = Sending(k)
    BY NoWorkerMoves
  <1>2. \A k \in Keys : WithinBudget(k)'
    BY <1>1, BudgetKept
  <1> QED  BY <1>1, <1>2 DEF Budget

\* The worker that goes on to pc.
LEMMA AtPc ==
    ASSUME OutboxInv, NEW g \in Gateways, NEW pc \in BusyPcs
    PROVE  /\ At(g, pc) \in WorkerType
           /\ At(g, pc).pc = pc
           /\ At(g, pc).gen = workers[g].gen
           /\ At(g, pc).x = workers[g].x
           /\ At(g, pc).r = workers[g].r
  BY TypeParts DEF OutboxInv, WorkersTyped, WorkerType, At

\* A busy worker goes on to pc.
LEMMA GoesOn ==
    ASSUME OutboxInv, Grows, NEW g \in Gateways, Busy(workers[g]),
           NEW pc \in BusyPcs, Goto(g, pc),
           pc = "complete" => workers[g].r <= Len(acks'[workers[g].x]),
           (pc = "ack" /\ IsReply(workers[g].x, workers[g].r)) =>
             receipts'[Key(g)].status = "completed"
    PROVE  \E w \in WorkerType :
             /\ workers' = [workers EXCEPT ![g] = w]
             /\ w.pc = pc /\ w.x = workers[g].x /\ w.r = workers[g].r
             /\ PlacedAt(w)'
  <1>1. PICK w \in WorkerType :
          /\ w = At(g, pc) /\ w.pc = pc /\ w.gen = workers[g].gen
          /\ w.x = workers[g].x /\ w.r = workers[g].r
    BY AtPc
  <1>2. PICK old \in WorkerType : old = workers[g]
    BY TypeParts DEF OutboxInv, WorkersTyped
  <1>3. PlacedAt(old)
    BY <1>2 DEF OutboxInv, WorkersPlaced
  <1>4. PlacedAt(old)'
    BY <1>3, StaysPlaced
  <1>5. Busy(old) /\ Busy(w) /\ pc \notin {"off", "idle"}
    BY <1>1, <1>2 DEF Busy, BusyPcs, Dispatching
  <1>6. IsReply(w.x, w.r)' => IsReply(workers[g].x, workers[g].r)
    <2>1. w.x \in Executions /\ w.r \in 1 .. Len(outbox[w.x])
      BY <1>1, <1>2, <1>3, <1>5, TypeParts DEF PlacedAt, Revisions, OutboxInv, RowsTyped
    <2> QED  BY <1>1, <2>1 DEF IsReply, Outcome, Grows
  <1>7. PlacedAt(w)'
    BY <1>1, <1>2, <1>4, <1>5, <1>6
       DEF PlacedAt, Key, Busy, IsReply, Outcome, EarlierCompleted
  <1>8. workers' = [workers EXCEPT ![g] = w]
    BY <1>1 DEF Goto
  <1> QED  BY <1>1, <1>7, <1>8

\* A worker that goes on without sending, while rows and events stay.
LEMMA DrainInv ==
    ASSUME OutboxInv, NEW g \in Gateways, Busy(workers[g]),
           NEW pc \in BusyPcs \ {"sending", "refused"}, Goto(g, pc),
           ReceiptsTyped', closed' \subseteq Keys,
           UNCHANGED <<executionVars, outbox, acks, generation, ghostVars, faults>>,
           \A k \in Keys :
             /\ receipts[k].status = "completed" => receipts'[k].status = "completed"
             /\ receipts'[k].status \in {"absent", "prepared"} =>
                  receipts[k].status \in {"absent", "prepared"},
           pc = "complete" => workers[g].r <= Len(acks[workers[g].x]),
           (pc = "ack" /\ IsReply(workers[g].x, workers[g].r)) =>
             receipts'[Key(g)].status = "completed"
    PROVE  OutboxInv'
  <1>1. SealedTyped' /\ RowsTyped' /\ AcksTyped' /\ CountersTyped'
    BY TypeParts DEF OutboxInv, SealedTyped, RowsTyped, AcksTyped, CountersTyped,
                     executionVars, ghostVars
  <1>2. Grows
    BY TypeParts DEF Grows, OutboxInv, RowsTyped, AcksTyped, CountersTyped, executionVars
  <1>3. PICK w \in WorkerType :
          /\ workers' = [workers EXCEPT ![g] = w] /\ w.pc = pc /\ PlacedAt(w)'
    BY <1>2, GoesOn
  <1>4. WorkersTyped' /\ WorkersPlaced' /\ Budget'
    BY <1>2, <1>3, QuietBudget DEF ghostVars
  <1>5. AcknowledgedInOrder'
    BY <1>2, OrderUntouched
  <1>6. RowsPlaced'
    BY DEF OutboxInv, RowsPlaced, executionVars
  <1>7. OutboxTypeOK'
    BY <1>1, <1>4, TypePartsAfter
  <1> QED  BY <1>4, <1>5, <1>6, <1>7 DEF OutboxInv

\* Writing one receipt.
LEMMA ReceiptWritten ==
    ASSUME ReceiptsTyped, NEW k \in Keys,
           NEW status \in {"absent", "prepared", "started", "uncertain", "completed"},
           NEW decision \in Decisions \cup {"none"},
           receipts' = SetReceipt(k, status, decision)
    PROVE  /\ ReceiptsTyped'
           /\ receipts'[k] = [status |-> status, decision |-> decision]
           /\ \A other \in Keys \ {k} : receipts'[other] = receipts[other]
  BY DEF ReceiptsTyped, ReceiptType, SetReceipt

\* Where a busy worker is.
LEMMA BusyFacts ==
    ASSUME OutboxInv, NEW g \in Gateways, Busy(workers[g])
    PROVE  /\ workers[g].x \in Executions
           /\ workers[g].r \in 1 .. Len(outbox[workers[g].x])
           /\ workers[g].r \in Nat \ {0}
           /\ Key(g) \in Keys
           /\ Key(g) = <<workers[g].x, workers[g].r>>
           /\ EarlierCompleted(workers[g].x, workers[g].r)
  <1>1. /\ workers[g].x \in Executions /\ workers[g].r \in Revisions
        /\ workers[g].r <= Len(outbox[workers[g].x])
        /\ EarlierCompleted(workers[g].x, workers[g].r)
    BY DEF OutboxInv, WorkersPlaced, PlacedAt
  <1>2. Len(outbox[workers[g].x]) \in Nat
    BY <1>1, TypeParts DEF OutboxInv, RowsTyped
  <1> QED  BY <1>1, <1>2 DEF Key, Keys, Revisions

\* Acked says what the list of events says.
LEMMA AckedEvents ==
    ASSUME OutboxInv, NEW x \in Executions, NEW r \in Nat \ {0}
    PROVE  Acked(x, r) <=> r <= Len(acks[x])
  <1>1. Len(acks[x]) \in Nat /\ \A i \in 1 .. Len(acks[x]) : acks[x][i] = i
    <2>1. acks[x] = [i \in 1 .. Len(acks[x]) |-> i]
      BY DEF OutboxInv, AcknowledgedInOrder
    <2>2. Len(acks[x]) \in Nat
      BY TypeParts DEF OutboxInv, AcksTyped
    <2> QED  BY <2>1, <2>2
  <1> QED  BY <1>1 DEF Acked

-------------------------------------------------------------------------------
(* One lemma per action: executions and processes *)

\* execution_projection.rs and the claim check do not send.
LEMMA LoadInv ==
    ASSUME OutboxInv, NEW g \in Gateways, LoadClaim(g)
    PROVE  OutboxInv'
  <1>1. PICK pc \in {"project", "fail"} : Goto(g, pc)
    BY DEF LoadClaim
  <1>2. Busy(workers[g]) /\ pc \in BusyPcs \ {"sending", "refused"}
    BY DEF LoadClaim, Busy, BusyPcs
  <1>3. ReceiptsTyped' /\ closed' \subseteq Keys
    BY TypeParts DEF OutboxInv, LoadClaim, ReceiptsTyped, CountersTyped
  <1> QED  BY <1>1, <1>2, <1>3, DrainInv DEF LoadClaim

\* The projection completes what is acknowledged and does not wait for a
\* receipt only if nothing is sent.
LEMMA ProjectInv ==
    ASSUME OutboxInv, NEW g \in Gateways, Project(g)
    PROVE  OutboxInv'
  <1>1. PICK pc \in {"complete", "dispatch", "ack"} :
          /\ Goto(g, pc)
          /\ pc = "complete" => Acked(workers[g].x, workers[g].r)
          /\ pc = "ack" => ~Outcome(workers[g].x, workers[g].r).sends
    BY DEF Project
  <1>2. Busy(workers[g]) /\ pc \in BusyPcs \ {"sending", "refused"}
    BY DEF Project, Busy, BusyPcs
  <1>3. ReceiptsTyped' /\ closed' \subseteq Keys
    BY TypeParts DEF OutboxInv, Project, ReceiptsTyped, CountersTyped
  <1>4. pc = "complete" => workers[g].r <= Len(acks[workers[g].x])
    BY <1>1, <1>2, BusyFacts, AckedEvents
  <1>5. pc = "ack" => ~IsReply(workers[g].x, workers[g].r)
    BY <1>1 DEF IsReply
  <1> QED  BY <1>1, <1>2, <1>3, <1>4, <1>5, DrainInv DEF Project

\* A dispatch goes to the event without a receipt only for a notice.
LEMMA PrepareInv ==
    ASSUME OutboxInv, NEW g \in Gateways, PrepareDispatch(g)
    PROVE  OutboxInv'
  <1>1. Busy(workers[g])
    BY DEF PrepareDispatch, Busy
  <1>2. PICK pc \in {"fail", "ack", "begin"} :
          /\ Goto(g, pc)
          /\ pc = "ack" => Outcome(workers[g].x, workers[g].r).kind = "suspended"
          /\ closed' \in {closed, closed \cup {Key(g)}}
    BY DEF PrepareDispatch
  <1>3. pc \in BusyPcs \ {"sending", "refused"}
    BY DEF BusyPcs
  <1>4. ReceiptsTyped' /\ closed' \subseteq Keys
    BY <1>1, <1>2, BusyFacts, TypeParts
       DEF OutboxInv, PrepareDispatch, ReceiptsTyped, CountersTyped
  <1>5. pc = "ack" => ~IsReply(workers[g].x, workers[g].r)
    BY <1>2 DEF IsReply
  <1> QED  BY <1>1, <1>2, <1>3, <1>4, <1>5, DrainInv DEF PrepareDispatch

\* A step that changes which executions are open.
LEMMA ExecutionsOpenInv ==
    ASSUME OutboxInv, open' \subseteq Executions, UNCHANGED sealed,
           UNCHANGED <<outbox, receipts, acks, closed, generation, workers, ghostVars, faults>>
    PROVE  OutboxInv'
  <1>1. /\ SealedTyped' /\ RowsTyped' /\ ReceiptsTyped' /\ AcksTyped' /\ CountersTyped'
    BY TypeParts DEF OutboxInv, SealedTyped, RowsTyped, ReceiptsTyped, AcksTyped,
                     CountersTyped, ghostVars
  <1>2. Grows
    BY TypeParts DEF Grows, OutboxInv, RowsTyped, AcksTyped, CountersTyped
  <1>3. WorkersTyped' /\ WorkersPlaced' /\ Budget'
    BY <1>2, IdleBudget DEF ghostVars
  <1>4. AcknowledgedInOrder'
    BY <1>2, OrderUntouched
  <1>5. RowsPlaced'
    BY DEF OutboxInv, RowsPlaced
  <1> QED  BY <1>1, <1>3, <1>4, <1>5, TypePartsAfter DEF OutboxInv

\* Opening and resuming an execution.
LEMMA OpenInv ==
    ASSUME OutboxInv, NEW x \in Executions, StartExecution(x) \/ ResumeExecution(x)
    PROVE  OutboxInv'
  <1>1. open' \subseteq Executions
    BY TypeParts DEF OutboxInv, SealedTyped, StartExecution, ResumeExecution, Open, Resume
  <1> QED  BY <1>1, ExecutionsOpenInv DEF StartExecution, ResumeExecution, Open, Resume

\* enqueue_projection_on appends the row of the outcome in its transaction.
LEMMA CommitInv ==
    ASSUME OutboxInv, NEW x \in Executions, NEW o \in PlainOutcomes, CommitOutcome(x, o)
    PROVE  OutboxInv'
  <1>1. /\ sealed \in [Executions -> Seq(PlainOutcomes)]
        /\ outbox \in [Executions -> Seq(RowType)]
        /\ acks \in [Executions -> Seq(Revisions)]
        /\ Len(outbox[x]) = Len(sealed[x])
    BY TypeParts DEF OutboxInv, SealedTyped, RowsTyped, AcksTyped, RowsPlaced
  <1>2. /\ sealed' = [sealed EXCEPT ![x] = Append(sealed[x], o)]
        /\ open' = open \ {x}
        /\ outbox' = [outbox EXCEPT ![x] = Append(outbox[x], NewRow)]
        /\ UNCHANGED <<receipts, acks, closed, generation, workers, ghostVars, faults>>
    BY DEF CommitOutcome, Seal
  <1>3. NewRow \in RowType /\ RowOK(NewRow) /\ NewRow.status = "pending"
    BY DEF NewRow, RowType, RowOK
  <1> DEFINE seals == Append(sealed[x], o)
             rows == Append(outbox[x], NewRow)
  <1>4. /\ seals \in Seq(PlainOutcomes) /\ Len(seals) = Len(sealed[x]) + 1
        /\ \A q \in 1 .. Len(sealed[x]) : seals[q] = sealed[x][q]
    BY <1>1
  <1>5. /\ rows \in Seq(RowType) /\ Len(rows) = Len(outbox[x]) + 1
        /\ rows[Len(outbox[x]) + 1] = NewRow
        /\ \A q \in 1 .. Len(outbox[x]) : rows[q] = outbox[x][q]
    BY <1>1, <1>3
  <1> HIDE DEF seals, rows
  <1>6. /\ sealed' \in [Executions -> Seq(PlainOutcomes)] /\ sealed'[x] = seals
        /\ outbox' \in [Executions -> Seq(RowType)] /\ outbox'[x] = rows
        /\ \A y \in Executions : y # x => sealed'[y] = sealed[y] /\ outbox'[y] = outbox[y]
    BY <1>1, <1>2, <1>4, <1>5 DEF seals, rows
  <1>7. ASSUME NEW y \in Executions, NEW q \in 1 .. Len(outbox'[y])
        PROVE  /\ RowOK(outbox'[y][q])
               /\ outbox'[y][q].status = "completed" => q <= Len(acks[y])
    <2>1. \A r \in 1 .. Len(outbox[y]) :
            /\ RowOK(outbox[y][r])
            /\ outbox[y][r].status = "completed" => r <= Len(acks[y])
      BY TypeParts DEF OutboxInv, RowsTyped, AcknowledgedInOrder
    <2>2. CASE y # x
      BY <1>6, <2>1, <2>2
    <2>3. CASE y = x /\ q = Len(outbox[x]) + 1
      BY <1>3, <1>5, <1>6, <2>3
    <2>4. CASE y = x /\ q # Len(outbox[x]) + 1
      <3>1. q \in 1 .. Len(outbox[x])
        BY <1>1, <1>5, <1>6, <2>4
      <3> QED  BY <1>5, <1>6, <2>1, <2>4, <3>1
    <2> QED  BY <2>2, <2>3, <2>4
  <1>8. Grows
    <2>1. ASSUME NEW y \in Executions
          PROVE  /\ Len(outbox'[y]) \in Nat /\ Len(outbox[y]) <= Len(outbox'[y])
                 /\ Len(acks'[y]) \in Nat /\ Len(acks[y]) <= Len(acks'[y])
                 /\ \A r \in 1 .. Len(outbox[y]) :
                      outbox'[y][r] = outbox[y][r] /\ sealed'[y][r] = sealed[y][r]
      <3>1. CASE y = x
        BY <1>1, <1>2, <1>4, <1>5, <1>6, <3>1
      <3>2. CASE y # x
        BY <1>1, <1>2, <1>6, <3>2
      <3> QED  BY <3>1, <3>2
    <2>2. generation' \in Nat /\ generation <= generation'
      BY <1>2, TypeParts DEF OutboxInv, CountersTyped
    <2> QED  BY <1>2, <2>1, <2>2 DEF Grows
  <1>9. /\ SealedTyped' /\ RowsTyped' /\ ReceiptsTyped' /\ AcksTyped' /\ CountersTyped'
    BY <1>2, <1>6, <1>7, TypeParts
       DEF OutboxInv, SealedTyped, RowsTyped, ReceiptsTyped, AcksTyped, CountersTyped, ghostVars
  <1>10. WorkersTyped' /\ WorkersPlaced' /\ Budget'
    BY <1>2, <1>8, IdleBudget DEF ghostVars
  <1>11. AcknowledgedInOrder'
    BY <1>2, <1>7, <1>8, <1>9, OrderKept
  <1>12. RowsPlaced'
    <2>1. ASSUME NEW y \in Executions
          PROVE  Len(outbox'[y]) = Len(sealed'[y]) /\ Len(acks'[y]) <= Len(outbox'[y])
      <3>1. Len(outbox[y]) = Len(sealed[y]) /\ Len(acks[y]) <= Len(outbox[y])
        BY DEF OutboxInv, RowsPlaced
      <3>2. CASE y = x
        BY <1>1, <1>2, <1>4, <1>5, <1>6, <3>1, <3>2
      <3>3. CASE y # x
        BY <1>2, <1>6, <3>1, <3>3
      <3> QED  BY <3>2, <3>3
    <2> QED  BY <2>1 DEF RowsPlaced
  <1> QED  BY <1>9, <1>10, <1>11, <1>12, TypePartsAfter DEF OutboxInv

\* A decision about an approval.
LEMMA CloseInv ==
    ASSUME OutboxInv, NEW x \in Executions, NEW r \in Revisions, CloseApproval(x, r)
    PROVE  OutboxInv'
  <1>1. /\ closed' = closed \cup {<<x, r>>}
        /\ UNCHANGED <<executionVars, outbox, receipts, acks, generation, workers,
                       ghostVars, faults>>
    BY DEF CloseApproval
  <1>2. /\ SealedTyped' /\ RowsTyped' /\ ReceiptsTyped' /\ AcksTyped' /\ CountersTyped'
    BY <1>1, TypeParts
       DEF OutboxInv, SealedTyped, RowsTyped, ReceiptsTyped, AcksTyped, CountersTyped,
           Keys, ghostVars, executionVars
  <1>3. Grows
    BY <1>1, TypeParts DEF Grows, OutboxInv, RowsTyped, AcksTyped, CountersTyped, executionVars
  <1>4. WorkersTyped' /\ WorkersPlaced' /\ Budget'
    BY <1>1, <1>3, IdleBudget DEF ghostVars
  <1>5. AcknowledgedInOrder'
    BY <1>1, <1>3, OrderUntouched
  <1>6. RowsPlaced'
    BY <1>1 DEF OutboxInv, RowsPlaced, executionVars
  <1> QED  BY <1>2, <1>4, <1>5, <1>6, TypePartsAfter DEF OutboxInv

\* The worker of a process that starts, dies or gives a drain up: what it was
\* about to send it does not send.
LEMMA StoppedInv ==
    ASSUME OutboxInv, NEW g \in Gateways, NEW w \in WorkerType, ~Busy(w),
           w.pc # "off" => w.gen > 0, w.gen <= generation',
           workers' = [workers EXCEPT ![g] = w],
           UNCHANGED <<executionVars, outbox, acks, closed, ghostVars>>,
           generation' \in 0 .. MaxGeneration, generation <= generation',
           faults' \in 0 .. MaxFaults, ReceiptsTyped',
           \A k \in Keys :
             /\ receipts[k].status = "completed" => receipts'[k].status = "completed"
             /\ receipts'[k].status \in {"absent", "prepared"} =>
                  receipts[k].status \in {"absent", "prepared"}
    PROVE  OutboxInv'
  <1>1. /\ SealedTyped' /\ RowsTyped' /\ AcksTyped' /\ CountersTyped'
    BY TypeParts DEF OutboxInv, SealedTyped, RowsTyped, AcksTyped, CountersTyped,
                     ghostVars, executionVars
  <1>2. Grows
    BY TypeParts DEF Grows, OutboxInv, RowsTyped, AcksTyped, CountersTyped, executionVars
  <1>3. PlacedAt(w)'
    BY DEF PlacedAt, Busy
  <1>4. w.pc \notin {"sending", "refused"}
    BY DEF Busy
  <1>5. WorkersTyped' /\ WorkersPlaced' /\ Budget'
    BY <1>2, <1>3, <1>4, QuietBudget DEF ghostVars
  <1>6. AcknowledgedInOrder'
    BY <1>2, OrderUntouched
  <1>7. RowsPlaced'
    BY DEF OutboxInv, RowsPlaced, executionVars
  <1> QED  BY <1>1, <1>5, <1>6, <1>7, TypePartsAfter DEF OutboxInv

\* bump_process_generation: the generation of a process is its own.
LEMMA StartInv ==
    ASSUME OutboxInv, NEW g \in Gateways, StartGateway(g)
    PROVE  OutboxInv'
  <1>1. generation \in 0 .. MaxGeneration /\ faults \in 0 .. MaxFaults /\ ReceiptsTyped
    BY TypeParts DEF OutboxInv, CountersTyped
  <1>2. generation' = generation + 1 /\ generation < MaxGeneration
    BY DEF StartGateway
  <1>3. PICK w : w = [Stopped EXCEPT !.gen = generation + 1, !.pc = "idle"]
    OBVIOUS
  <1>4. w \in WorkerType /\ w.pc = "idle" /\ w.gen = generation + 1
    <2>1. Stopped \in WorkerType
      BY DEF Stopped, WorkerType
    <2>2. generation + 1 \in 0 .. MaxGeneration
      BY <1>1, <1>2
    <2> QED  BY <1>3, <2>1, <2>2 DEF WorkerType
  <1>5. ~Busy(w) /\ w.gen > 0 /\ w.gen <= generation'
    BY <1>1, <1>2, <1>4 DEF Busy
  <1>6. workers' = [workers EXCEPT ![g] = w]
    BY <1>3 DEF StartGateway
  <1>7. ReceiptsTyped' /\ receipts' = receipts /\ faults' = faults
    BY <1>1 DEF StartGateway, ReceiptsTyped
  <1>8. generation' \in 0 .. MaxGeneration /\ generation <= generation'
    BY <1>1, <1>2
  <1> QED  BY <1>1, <1>4, <1>5, <1>6, <1>7, <1>8, StoppedInv DEF StartGateway

\* A death leaves receipts started and rows claimed.
LEMMA CrashInv ==
    ASSUME OutboxInv, NEW g \in Gateways, CrashGateway(g)
    PROVE  OutboxInv'
  <1>1. generation \in 0 .. MaxGeneration /\ faults \in 0 .. MaxFaults /\ ReceiptsTyped
    BY TypeParts DEF OutboxInv, CountersTyped
  <1>2. PICK w : w = Stopped
    OBVIOUS
  <1>3. w \in WorkerType /\ ~Busy(w) /\ w.pc = "off" /\ w.gen = 0
    BY <1>2 DEF WorkerType, Busy, Stopped
  <1>4. /\ workers' = [workers EXCEPT ![g] = w] /\ receipts' = receipts
        /\ generation' = generation /\ faults' \in 0 .. MaxFaults
    BY <1>1, <1>2 DEF CrashGateway
  <1>5. ReceiptsTyped' /\ w.gen <= generation' /\ generation <= generation'
    BY <1>1, <1>3, <1>4 DEF ReceiptsTyped
  <1> QED  BY <1>1, <1>3, <1>4, <1>5, StoppedInv DEF CrashGateway

\* A worker that has given its claim up or finished it.
LEMMA IdleWorker ==
    ASSUME OutboxInv, NEW g \in Gateways, Busy(workers[g])
    PROVE  /\ Idle(g) \in WorkerType /\ Idle(g).pc = "idle"
           /\ Idle(g).gen > 0 /\ Idle(g).gen <= generation
  <1>1. workers[g] \in WorkerType
    BY TypeParts DEF OutboxInv, WorkersTyped
  <1>3. Idle(g) \in WorkerType /\ Idle(g).pc = "idle" /\ Idle(g).gen = workers[g].gen
    <2>1. PICK v \in WorkerType : v = workers[g]
      BY <1>1
    <2>2. 0 \in 0 .. MaxRevision /\ 0 \in Nat /\ NoOne \in Executions \cup {NoOne}
      OBVIOUS
    <2>3. PICK u : u = [v EXCEPT !.pc = "idle", !.x = NoOne, !.r = 0, !.token = 0]
      OBVIOUS
    <2>4. u \in WorkerType /\ u.pc = "idle" /\ u.gen = v.gen
      BY <2>2, <2>3 DEF WorkerType
    <2>5. u = Idle(g)
      BY <2>1, <2>3 DEF Idle
    <2> QED  BY <2>1, <2>4, <2>5
  <1>2. workers[g].gen \in 0 .. MaxGeneration /\ workers[g].gen > 0
        /\ workers[g].gen <= generation
    BY TypeParts DEF OutboxInv, WorkersTyped, WorkerType, WorkersPlaced, PlacedAt, Busy
  <1> QED  BY <1>2, <1>3

\* EffectLease::drop: a panic marks a started receipt uncertain.
LEMMA PanicInv ==
    ASSUME OutboxInv, NEW g \in Gateways, PanicInDrain(g)
    PROVE  OutboxInv'
  <1>1. generation \in 0 .. MaxGeneration /\ faults \in 0 .. MaxFaults /\ ReceiptsTyped
    BY TypeParts DEF OutboxInv, CountersTyped
  <1>2. Busy(workers[g])
    BY DEF PanicInDrain, Busy
  <1>3. PICK w \in WorkerType :
          w = Idle(g) /\ w.pc = "idle" /\ w.gen > 0 /\ w.gen <= generation
    BY <1>2, IdleWorker
  <1>4. /\ workers' = [workers EXCEPT ![g] = w]
        /\ generation' = generation /\ faults' \in 0 .. MaxFaults
    BY <1>1, <1>3 DEF PanicInDrain
  <1>5. /\ ReceiptsTyped'
        /\ \A k \in Keys :
             /\ receipts[k].status = "completed" => receipts'[k].status = "completed"
             /\ receipts'[k].status \in {"absent", "prepared"} =>
                  receipts[k].status \in {"absent", "prepared"}
    <2>1. CASE receipts' = receipts
      BY <1>1, <2>1 DEF ReceiptsTyped
    <2>2. CASE /\ receipts' = SetReceipt(Key(g), "uncertain", "none")
               /\ receipts[Key(g)].status = "started"
      <3>1. PICK k \in Keys : k = Key(g)
        BY <1>2, BusyFacts
      <3>2. /\ ReceiptsTyped' /\ receipts'[k] = [status |-> "uncertain", decision |-> "none"]
            /\ \A other \in Keys \ {k} : receipts'[other] = receipts[other]
        BY <1>1, <2>2, <3>1, ReceiptWritten
      <3> QED  BY <2>2, <3>1, <3>2
    <2> QED  BY <2>1, <2>2 DEF PanicInDrain
  <1>6. ~Busy(w) /\ generation <= generation' /\ w.gen <= generation'
    BY <1>1, <1>3, <1>4 DEF Busy
  <1> QED  BY <1>1, <1>3, <1>4, <1>5, <1>6, StoppedInv DEF PanicInDrain

-------------------------------------------------------------------------------
(* Writing a row *)

\* A row that is not completed is written, and completed only if it is
\* acknowledged.
LEMMA RowMoves ==
    ASSUME OutboxInv, NEW x \in Executions, NEW r \in 1 .. Len(outbox[x]),
           NEW row \in RowType, RowOK(row), outbox' = SetRow(x, r, row),
           outbox[x][r].status # "completed",
           row.status = "completed" => r <= Len(acks[x]),
           UNCHANGED <<executionVars, acks, generation>>,
           \A k \in Keys :
             receipts[k].status = "completed" => receipts'[k].status = "completed"
    PROVE  Grows /\ SealedTyped' /\ RowsTyped' /\ AcksTyped' /\ RowsPlaced' /\ AcknowledgedInOrder'
  <1>1. RowsTyped /\ SealedTyped /\ AcksTyped /\ generation \in Nat
    BY TypeParts DEF OutboxInv, CountersTyped
  <1>2. /\ RowsTyped'
        /\ \A y \in Executions : Len(outbox'[y]) = Len(outbox[y])
        /\ outbox'[x][r] = row
        /\ \A y \in Executions : \A q \in 1 .. Len(outbox[y]) :
             y # x \/ q # r => outbox'[y][q] = outbox[y][q]
    BY <1>1, RowWritten
  <1>3. SealedTyped' /\ AcksTyped'
    BY <1>1 DEF SealedTyped, AcksTyped, executionVars
  <1>4. RowsPlaced'
    BY <1>2 DEF OutboxInv, RowsPlaced, executionVars
  <1>5. Grows
    <2>1. ASSUME NEW y \in Executions, NEW q \in 1 .. Len(outbox[y]),
                 outbox[y][q].status = "completed"
          PROVE  outbox'[y][q].status = "completed"
      BY <1>2, <2>1
    <2>2. \A y \in Executions : Len(outbox[y]) \in Nat /\ Len(acks[y]) \in Nat
      BY <1>1 DEF RowsTyped, AcksTyped
    <2> QED  BY <1>1, <1>2, <2>1, <2>2 DEF Grows, executionVars
  <1>6. ASSUME NEW y \in Executions, NEW q \in 1 .. Len(outbox'[y]),
               outbox'[y][q].status = "completed"
        PROVE  q <= Len(acks[y])
    <2>1. q \in 1 .. Len(outbox[y])
      BY <1>2
    <2>2. CASE y = x /\ q = r
      BY <1>2, <1>6, <2>2
    <2>3. CASE y # x \/ q # r
      BY <1>2, <1>6, <2>1, <2>3 DEF OutboxInv, AcknowledgedInOrder
    <2> QED  BY <2>2, <2>3
  <1>7. AcknowledgedInOrder'
    BY <1>2, <1>5, <1>6, OrderKept
  <1> QED  BY <1>2, <1>3, <1>4, <1>5, <1>7

\* A row and what is left of it when its claim lapses, is renewed or is finished,
\* and when it is queued again.
LEMMA RowTyped ==
    ASSUME OutboxInv, NEW x \in Executions, NEW r \in 1 .. Len(outbox[x])
    PROVE  outbox[x][r] \in RowType /\ RowOK(outbox[x][r])
  BY TypeParts DEF OutboxInv, RowsTyped

\* The writes to a row, each with the types it keeps: a claim grows old,
LEMMA RowLapsed ==
    ASSUME NEW old \in RowType, old.status = "claimed", RowOK(old)
    PROVE  \E row \in RowType :
             row = [old EXCEPT !.fresh = FALSE] /\ RowOK(row) /\ row.status = "claimed"
  <1>1. PICK row : row = [old EXCEPT !.fresh = FALSE]
    OBVIOUS
  <1>2. row \in RowType /\ row.status = "claimed" /\ row.gen = old.gen
    BY <1>1 DEF RowType
  <1> QED  BY <1>1, <1>2 DEF RowOK

\* a heartbeat renews it,
LEMMA RowRenewed ==
    ASSUME NEW old \in RowType, old.status = "claimed", RowOK(old)
    PROVE  \E row \in RowType :
             row = [old EXCEPT !.fresh = TRUE] /\ RowOK(row) /\ row.status = "claimed"
  <1>1. PICK row : row = [old EXCEPT !.fresh = TRUE]
    OBVIOUS
  <1>2. row \in RowType /\ row.status = "claimed" /\ row.gen = old.gen
    BY <1>1 DEF RowType
  <1> QED  BY <1>1, <1>2 DEF RowOK

\* it ends,
LEMMA RowFinished ==
    ASSUME NEW old \in RowType, NEW status \in {"pending", "blocked", "completed"}
    PROVE  \E row \in RowType :
             /\ row = [old EXCEPT !.status = status, !.gen = 0, !.fresh = FALSE]
             /\ RowOK(row) /\ row.status = status
  <1> DEFINE settled == [old EXCEPT !.status = status]
             released == [settled EXCEPT !.gen = 0]
             row == [released EXCEPT !.fresh = FALSE]
  <1>1. settled \in RowType /\ settled.status = status
    BY DEF RowType
  <1> HIDE DEF settled
  <1>2. released \in RowType /\ released.status = status /\ released.gen = 0
    BY <1>1 DEF RowType
  <1> HIDE DEF released
  <1>3. row \in RowType /\ row.status = status /\ row.gen = 0
    BY <1>2 DEF RowType
  <1>4. ~row.fresh
    BY <1>2 DEF RowType
  <1>5. row = [old EXCEPT !.status = status, !.gen = 0, !.fresh = FALSE]
    BY DEF settled, released
  <1> HIDE DEF row
  <1>6. RowOK(row)
    BY <1>3, <1>4 DEF RowOK
  <1> QED  BY <1>3, <1>5, <1>6

\* and the row is queued again after a decision.
LEMMA RowRequeued ==
    ASSUME NEW old \in RowType, old.status = "blocked", RowOK(old)
    PROVE  \E row \in RowType :
             row = [old EXCEPT !.status = "pending"] /\ RowOK(row) /\ row.status = "pending"
  <1>1. PICK row : row = [old EXCEPT !.status = "pending"]
    OBVIOUS
  <1>2. row \in RowType /\ row.status = "pending" /\ row.gen = old.gen
    BY <1>1 DEF RowType
  <1>3. row.fresh = old.fresh
    BY <1>1 DEF RowType
  <1> QED  BY <1>1, <1>2, <1>3 DEF RowOK

\* 120 seconds without a heartbeat.
LEMMA LapseInv ==
    ASSUME OutboxInv, NEW x \in Executions, NEW r \in Revisions, ClaimLapses(x, r)
    PROVE  OutboxInv'
  <1>1. r \in 1 .. Len(outbox[x]) /\ outbox[x][r].status = "claimed"
    BY DEF ClaimLapses
  <1>2. PICK row \in RowType : /\ row = [outbox[x][r] EXCEPT !.fresh = FALSE]
                              /\ RowOK(row) /\ row.status = "claimed"
    BY <1>1, RowTyped, RowLapsed
  <1>3. outbox' = SetRow(x, r, row)
    BY <1>2 DEF ClaimLapses
  <1>4. UNCHANGED <<executionVars, receipts, acks, closed, generation, workers, ghostVars>>
    BY DEF ClaimLapses
  <1>5. Grows /\ SealedTyped' /\ RowsTyped' /\ AcksTyped' /\ RowsPlaced' /\ AcknowledgedInOrder'
    BY <1>1, <1>2, <1>3, <1>4, RowMoves
  <1>6. faults' \in 0 .. MaxFaults
    BY TypeParts DEF OutboxInv, CountersTyped, ClaimLapses
  <1>7. ReceiptsTyped' /\ CountersTyped'
    BY <1>4, <1>6, TypeParts DEF OutboxInv, ReceiptsTyped, CountersTyped, ghostVars
  <1>8. WorkersTyped' /\ WorkersPlaced' /\ Budget'
    BY <1>4, <1>5, IdleBudget DEF ghostVars
  <1> QED  BY <1>5, <1>7, <1>8, TypePartsAfter DEF OutboxInv

\* A heartbeat that is in time again.
LEMMA RenewInv ==
    ASSUME OutboxInv, NEW g \in Gateways, RenewProjectionClaim(g)
    PROVE  OutboxInv'
  <1>1. Busy(workers[g])
    BY DEF RenewProjectionClaim, Busy
  <1>2. PICK x \in Executions : \E q \in 1 .. Len(outbox[x]) : x = workers[g].x /\ q = workers[g].r
    BY <1>1, BusyFacts
  <1>3. PICK r \in 1 .. Len(outbox[x]) : r = workers[g].r
    BY <1>2
  <1>4. Row(g) = outbox[x][r] /\ outbox[x][r].status = "claimed"
    BY <1>2, <1>3 DEF RenewProjectionClaim, ClaimCurrent, Row
  <1>5. PICK row \in RowType : /\ row = [outbox[x][r] EXCEPT !.fresh = TRUE]
                              /\ RowOK(row) /\ row.status = "claimed"
    BY <1>4, RowTyped, RowRenewed
  <1>6. outbox' = SetRow(x, r, row)
    BY <1>2, <1>3, <1>4, <1>5 DEF RenewProjectionClaim
  <1>7. UNCHANGED <<executionVars, receipts, acks, closed, generation, workers, ghostVars, faults>>
    BY DEF RenewProjectionClaim
  <1>8. Grows /\ SealedTyped' /\ RowsTyped' /\ AcksTyped' /\ RowsPlaced' /\ AcknowledgedInOrder'
    BY <1>4, <1>5, <1>6, <1>7, RowMoves
  <1>9. ReceiptsTyped' /\ CountersTyped'
    BY <1>7, TypeParts DEF OutboxInv, ReceiptsTyped, CountersTyped, ghostVars
  <1>10. WorkersTyped' /\ WorkersPlaced' /\ Budget'
    BY <1>7, <1>8, IdleBudget DEF ghostVars
  <1> QED  BY <1>8, <1>9, <1>10, TypePartsAfter DEF OutboxInv

\* claim_projection, of a pending row or of one whose claim lapsed.
LEMMA ClaimInv ==
    ASSUME OutboxInv, NEW g \in Gateways, NEW x \in Executions, NEW r \in Revisions,
           ClaimProjection(g, x, r)
    PROVE  OutboxInv'
  <1>1. /\ workers[g].pc = "idle" /\ r \in 1 .. Len(outbox[x])
        /\ outbox[x][r].status \in {"pending", "claimed"} /\ EarlierCompleted(x, r)
        /\ UNCHANGED <<executionVars, receipts, acks, closed, generation, ghostVars, faults>>
    BY DEF ClaimProjection, Claimable
  <1>2. PICK old \in WorkerType : old = workers[g] /\ old.gen > 0 /\ old.gen <= generation
    BY <1>1, TypeParts DEF OutboxInv, WorkersTyped, WorkersPlaced, PlacedAt
  <1>3. outbox[x][r].token + 1 \in Nat
    BY <1>1, RowTyped DEF RowType
  <1>4. PICK row : row = [status |-> "claimed", gen |-> old.gen,
                          token |-> outbox[x][r].token + 1, fresh |-> TRUE]
    OBVIOUS
  <1>5. row \in RowType /\ RowOK(row) /\ row.status = "claimed" /\ outbox' = SetRow(x, r, row)
    BY <1>2, <1>3, <1>4 DEF RowType, RowOK, WorkerType, ClaimProjection
  <1>6. Grows /\ SealedTyped' /\ RowsTyped' /\ AcksTyped' /\ RowsPlaced' /\ AcknowledgedInOrder'
    BY <1>1, <1>5, RowMoves
  <1>7. PICK w : w = [old EXCEPT !.pc = "load", !.x = x, !.r = r,
                                 !.token = outbox[x][r].token + 1]
    OBVIOUS
  <1>8. w \in WorkerType /\ w.pc = "load" /\ w.x = x /\ w.r = r /\ w.gen = old.gen
    <2>1. r \in 0 .. MaxRevision /\ "load" \in BusyPcs \cup {"off", "idle"}
      BY DEF Revisions, BusyPcs
    <2> QED  BY <1>3, <1>7, <2>1 DEF WorkerType
  <1>9. workers' = [workers EXCEPT ![g] = w]
    BY <1>2, <1>7 DEF ClaimProjection
  <1>10. PlacedAt(w)'
    <2>1. r <= Len(outbox'[x])
      BY <1>1, <1>6, TypeParts DEF Grows, OutboxInv, RowsTyped, Revisions
    <2>2. EarlierCompleted(x, r)'
      BY <1>1, <1>6, TypeParts DEF EarlierCompleted, Grows, OutboxInv, RowsTyped
    <2> QED  BY <1>1, <1>2, <1>8, <2>1, <2>2 DEF PlacedAt, Busy, EarlierCompleted
  <1>11. WorkersTyped' /\ WorkersPlaced' /\ Budget'
    BY <1>1, <1>6, <1>8, <1>9, <1>10, QuietBudget DEF ghostVars
  <1>12. ReceiptsTyped' /\ CountersTyped'
    BY <1>1, TypeParts DEF OutboxInv, ReceiptsTyped, CountersTyped, ghostVars
  <1> QED  BY <1>6, <1>11, <1>12, TypePartsAfter DEF OutboxInv

\* finish_claim: a row is completed only from the place behind its turn event.
LEMMA FinishInv ==
    ASSUME OutboxInv, NEW g \in Gateways, FinishClaim(g)
    PROVE  OutboxInv'
  <1>1. /\ Busy(workers[g])
        /\ UNCHANGED <<executionVars, receipts, acks, closed, generation, ghostVars, faults>>
    BY DEF FinishClaim, Busy
  <1>2. PICK w \in WorkerType :
          w = Idle(g) /\ w.pc = "idle" /\ w.gen > 0 /\ w.gen <= generation
    BY <1>1, IdleWorker
  <1>3. workers' = [workers EXCEPT ![g] = w]
    BY <1>2 DEF FinishClaim
  <1>4. ReceiptsTyped' /\ CountersTyped'
    BY <1>1, TypeParts DEF OutboxInv, ReceiptsTyped, CountersTyped, ghostVars
  <1>5. Grows /\ SealedTyped' /\ RowsTyped' /\ AcksTyped' /\ RowsPlaced' /\ AcknowledgedInOrder'
    <2>1. CASE ~ClaimCurrent(g)
      <3>1. outbox' = outbox
        BY <2>1 DEF FinishClaim
      <3>2. Grows
        BY <1>1, <3>1, TypeParts
           DEF Grows, OutboxInv, RowsTyped, AcksTyped, CountersTyped, executionVars
      <3>3. AcknowledgedInOrder'
        BY <1>1, <3>1, <3>2, OrderUntouched
      <3> QED  BY <1>1, <3>1, <3>2, <3>3, TypeParts
               DEF OutboxInv, SealedTyped, RowsTyped, AcksTyped, RowsPlaced, executionVars
    <2>2. CASE ClaimCurrent(g)
      <3>1. PICK x \in Executions : x = workers[g].x /\ workers[g].r \in 1 .. Len(outbox[x])
        BY <1>1, BusyFacts
      <3>2. PICK r \in 1 .. Len(outbox[x]) : r = workers[g].r
        BY <3>1
      <3>3. PICK status \in {"pending", "blocked", "completed"} :
              /\ status = StatusAfter(workers[g].pc)
              /\ status = "completed" => workers[g].pc = "complete"
        BY DEF FinishClaim, StatusAfter
      <3>4. PICK row \in RowType :
              /\ row = [outbox[x][r] EXCEPT !.status = status, !.gen = 0, !.fresh = FALSE]
              /\ RowOK(row) /\ row.status = status
        <4>1. outbox[x][r] \in RowType
          BY RowTyped
        <4> QED  BY <4>1, RowFinished
      <3>5. Row(g) = outbox[x][r] /\ outbox[x][r].status = "claimed"
        BY <2>2, <3>1, <3>2 DEF ClaimCurrent, Row
      <3>6. outbox' = SetRow(x, r, row)
        BY <2>2, <3>1, <3>2, <3>3, <3>4, <3>5 DEF FinishClaim
      <3>7. row.status = "completed" => r <= Len(acks[x])
        BY <3>1, <3>2, <3>3, <3>4 DEF OutboxInv, WorkersPlaced, PlacedAt
      <3> QED  BY <1>1, <3>4, <3>5, <3>6, <3>7, RowMoves
    <2> QED  BY <2>1, <2>2
  <1>6. PlacedAt(w)'
    BY <1>1, <1>2 DEF PlacedAt, Busy
  <1>7. WorkersTyped' /\ WorkersPlaced' /\ Budget'
    BY <1>1, <1>2, <1>3, <1>5, <1>6, QuietBudget DEF ghostVars
  <1> QED  BY <1>4, <1>5, <1>7, TypePartsAfter DEF OutboxInv

-------------------------------------------------------------------------------
(* Sending *)

\* What the budget of a receipt consists of.
LEMMA BudgetTerms ==
    ASSUME OutboxInv, NEW k \in Keys
    PROVE  /\ IsFiniteSet(Sending(k)) /\ Cardinality(Sending(k)) \in Nat
           /\ delivered[k] \in Nat /\ denials[k] \in Nat /\ Claims(k) \in 0 .. 1
           /\ delivered[k] + Cardinality(Sending(k)) + Claims(k) <= 1 + denials[k]
  BY TypeParts, FS_CardinalityType
     DEF OutboxInv, Budget, WithinBudget, CountersTyped, Claims

\* A worker takes the claim that the receipt permits.
LEMMA ClaimTaken ==
    ASSUME OutboxInv, NEW g, NEW k \in Keys, g \notin Sending(k),
           Sending(k)' = Sending(k) \cup {g}, Claims(k) = 1, Claims(k)' = 0,
           delivered'[k] = delivered[k], denials'[k] = denials[k]
    PROVE  WithinBudget(k)'
  <1>1. PICK S, T : S = Sending(k) /\ T = Sending(k)' /\ T = S \cup {g} /\ g \notin S
    OBVIOUS
  <1>2. /\ IsFiniteSet(S) /\ Cardinality(S) \in Nat
        /\ delivered[k] \in Nat /\ denials[k] \in Nat
        /\ delivered[k] + Cardinality(S) + 1 <= 1 + denials[k]
    BY <1>1, BudgetTerms
  <1>3. IsFiniteSet(T) /\ Cardinality(T) = Cardinality(S) + 1
    <2>1. IsFiniteSet(S) /\ g \notin S
      BY <1>1, <1>2
    <2>2. /\ IsFiniteSet(S \cup {g})
          /\ Cardinality(S \cup {g}) = IF g \in S THEN Cardinality(S) ELSE Cardinality(S) + 1
      BY <2>1, FS_AddElement, Zenon
    <2> QED  BY <1>1, <2>1, <2>2
  <1> QED  BY <1>1, <1>2, <1>3 DEF WithinBudget

\* A worker that was about to send gives its share to the message or the claim.
LEMMA ShareSpent ==
    ASSUME OutboxInv, NEW g, NEW k \in Keys, g \in Sending(k),
           Sending(k)' = Sending(k) \ {g},
           delivered'[k] \in Nat, Claims(k)' \in 0 .. 1,
           delivered'[k] + Claims(k)' <= delivered[k] + Claims(k) + 1,
           denials'[k] = denials[k]
    PROVE  WithinBudget(k)'
  <1>1. PICK S, T : S = Sending(k) /\ T = Sending(k)' /\ T = S \ {g} /\ g \in S
    OBVIOUS
  <1>2. /\ IsFiniteSet(S) /\ Cardinality(S) \in Nat /\ Claims(k) \in 0 .. 1
        /\ delivered[k] \in Nat /\ denials[k] \in Nat
        /\ delivered[k] + Cardinality(S) + Claims(k) <= 1 + denials[k]
    BY <1>1, BudgetTerms
  <1>3. IsFiniteSet(T) /\ Cardinality(T) = Cardinality(S) - 1
    <2>1. IsFiniteSet(S) /\ g \in S
      BY <1>1, <1>2
    <2>2. IsFiniteSet(S \ {g}) /\ Cardinality(S \ {g}) = Cardinality(S) - 1
      BY <2>1, OneLess, Zenon
    <2> QED  BY <1>1, <2>2
  <1> QED  BY <1>1, <1>2, <1>3 DEF WithinBudget

\* EffectHost::begin: only a receipt that was not claimed lets the worker send.
LEMMA BeginInv ==
    ASSUME OutboxInv, NEW g \in Gateways, BeginEffect(g)
    PROVE  OutboxInv'
  <1>1. /\ Busy(workers[g]) /\ workers[g].pc = "begin"
        /\ UNCHANGED <<executionVars, outbox, acks, closed, generation, ghostVars, faults>>
    BY DEF BeginEffect, Busy
  <1>2. PICK k \in Keys : k = Key(g)
    BY <1>1, BusyFacts
  <1>3. ReceiptsTyped /\ closed' \subseteq Keys
    BY <1>1, TypeParts DEF OutboxInv, CountersTyped
  <1>4. CASE Goto(g, "fail") /\ receipts' = receipts
    BY <1>1, <1>3, <1>4, DrainInv DEF BusyPcs, ReceiptsTyped
  <1>5. CASE Goto(g, "ack") /\ receipts' = receipts /\ receipts[k].status = "completed"
    BY <1>1, <1>2, <1>3, <1>5, DrainInv DEF BusyPcs, ReceiptsTyped
  <1>6. CASE /\ Goto(g, "block") /\ receipts' = SetReceipt(k, "uncertain", "none")
             /\ receipts[k].status \in {"started", "uncertain"}
    <2>1. /\ ReceiptsTyped' /\ receipts'[k] = [status |-> "uncertain", decision |-> "none"]
          /\ \A other \in Keys \ {k} : receipts'[other] = receipts[other]
      BY <1>3, <1>6, ReceiptWritten
    <2>2. \A other \in Keys :
            /\ receipts[other].status = "completed" => receipts'[other].status = "completed"
            /\ receipts'[other].status \in {"absent", "prepared"} =>
                 receipts[other].status \in {"absent", "prepared"}
      BY <1>6, <2>1
    <2> QED  BY <1>1, <1>3, <1>6, <2>1, <2>2, DrainInv DEF BusyPcs
  <1>7. CASE /\ Goto(g, "sending") /\ receipts' = SetReceipt(k, "started", "none")
             /\ receipts[k].status \in {"absent", "prepared"}
    <2>1. /\ ReceiptsTyped' /\ receipts'[k] = [status |-> "started", decision |-> "none"]
          /\ \A other \in Keys \ {k} : receipts'[other] = receipts[other]
      BY <1>3, <1>7, ReceiptWritten
    <2>2. Grows
      <3>1. \A other \in Keys : receipts[other].status = "completed" =>
              receipts'[other].status = "completed"
        BY <1>7, <2>1
      <3>2. /\ generation \in Nat /\ \A x \in Executions : Len(outbox[x]) \in Nat
            /\ \A x \in Executions : Len(acks[x]) \in Nat
        BY TypeParts DEF OutboxInv, RowsTyped, AcksTyped, CountersTyped
      <3> QED  BY <1>1, <3>1, <3>2 DEF Grows, executionVars
    <2>3. PICK w \in WorkerType :
            /\ workers' = [workers EXCEPT ![g] = w] /\ PlacedAt(w)'
            /\ w.pc = "sending" /\ <<w.x, w.r>> = k
      BY <1>1, <1>2, <1>7, <2>2, GoesOn, BusyFacts DEF BusyPcs, Dispatching
    <2>4. /\ WorkersTyped' /\ WorkersPlaced'
          /\ \A other \in Keys \ {k} : Sending(other)' = Sending(other) \ {g}
          /\ Sending(k)' = Sending(k) \cup {g}
      BY <2>2, <2>3, OneWorkerMoves
    <2>5. WithinBudget(k)'
      <3>1. g \notin Sending(k)
        BY <1>1 DEF Sending
      <3>2. Claims(k) = 1 /\ Claims(k)' = 0
        BY <1>7, <2>1 DEF Claims
      <3> QED  BY <1>1, <2>4, <3>1, <3>2, ClaimTaken DEF ghostVars
    <2>6. ASSUME NEW other \in Keys \ {k}  PROVE WithinBudget(other)'
      BY <1>1, <2>1, <2>4, BudgetKept DEF ghostVars
    <2>7. AcknowledgedInOrder'
      BY <1>1, <2>2, OrderUntouched
    <2>8. SealedTyped' /\ RowsTyped' /\ AcksTyped' /\ CountersTyped' /\ RowsPlaced'
      BY <1>1, TypeParts DEF OutboxInv, SealedTyped, RowsTyped, AcksTyped, CountersTyped,
                             RowsPlaced, executionVars, ghostVars
    <2> QED  BY <2>1, <2>4, <2>5, <2>6, <2>7, <2>8, TypePartsAfter DEF OutboxInv, Budget
  <1> QED  BY <1>2, <1>4, <1>5, <1>6, <1>7 DEF BeginEffect

\* The channel: a message arrives, may have arrived, or is refused.
LEMMA SendInv ==
    ASSUME OutboxInv, NEW g \in Gateways, SendToChannel(g)
    PROVE  OutboxInv'
  <1>1. /\ Busy(workers[g]) /\ workers[g].pc = "sending"
        /\ UNCHANGED <<executionVars, outbox, receipts, acks, closed, generation, denials>>
    BY DEF SendToChannel, Busy
  <1>2. PICK k \in Keys : k = Key(g)
    BY <1>1, BusyFacts
  <1>3. PICK pc \in {"sent", "lost", "refused"}, n \in 0 .. 1 :
          /\ Goto(g, pc)
          /\ delivered' = delivered \/ delivered' = [delivered EXCEPT ![k] = delivered[k] + n]
          /\ pc = "refused" => delivered' = delivered
          /\ faults' \in 0 .. MaxFaults
    <2>1. faults \in 0 .. MaxFaults
      BY TypeParts DEF OutboxInv, CountersTyped
    <2> QED  BY <1>2, <2>1 DEF SendToChannel
  <1>4. /\ delivered \in [Keys -> Nat] /\ delivered' \in [Keys -> Nat]
        /\ delivered'[k] <= delivered[k] + 1
        /\ \A other \in Keys \ {k} : delivered'[other] = delivered[other]
    BY <1>3, TypeParts DEF OutboxInv, CountersTyped
  <1>5. Grows
    BY <1>1, TypeParts
       DEF Grows, OutboxInv, RowsTyped, AcksTyped, CountersTyped, executionVars
  <1>6. PICK w \in WorkerType :
          /\ workers' = [workers EXCEPT ![g] = w] /\ PlacedAt(w)'
          /\ w.pc = pc /\ <<w.x, w.r>> = k
    BY <1>1, <1>2, <1>3, <1>5, GoesOn, BusyFacts DEF BusyPcs, Dispatching
  <1>7. /\ WorkersTyped' /\ WorkersPlaced'
        /\ \A other \in Keys \ {k} : Sending(other)' = Sending(other) \ {g}
        /\ pc = "refused" => Sending(k)' = Sending(k) \cup {g}
        /\ pc # "refused" => Sending(k)' = Sending(k) \ {g}
    BY <1>3, <1>5, <1>6, OneWorkerMoves
  <1>8. g \in Sending(k)
    BY <1>1, <1>2 DEF Sending
  <1>9. WithinBudget(k)'
    <2>1. Claims(k)' = Claims(k) /\ Claims(k) \in 0 .. 1
      BY <1>1 DEF Claims
    <2>2. CASE pc = "refused"
      <3>1. Sending(k)' = Sending(k)
        BY <1>7, <1>8, <2>2
      <3> QED  BY <1>1, <1>3, <2>2, <3>1, BudgetKept
    <2>3. CASE pc # "refused"
      <3>1. Sending(k)' = Sending(k) \ {g}
        BY <1>7, <2>3
      <3>2. delivered'[k] \in Nat /\ denials'[k] = denials[k]
        BY <1>1, <1>4
      <3>3. delivered'[k] + Claims(k)' <= delivered[k] + Claims(k) + 1
        BY <1>4, <2>1
      <3> QED  BY <1>8, <2>1, <3>1, <3>2, <3>3, ShareSpent
    <2> QED  BY <2>2, <2>3
  <1>10. ASSUME NEW other \in Keys \ {k}  PROVE WithinBudget(other)'
    BY <1>1, <1>4, <1>7, BudgetKept
  <1>11. AcknowledgedInOrder'
    BY <1>1, <1>5, OrderUntouched
  <1>12. /\ SealedTyped' /\ RowsTyped' /\ ReceiptsTyped' /\ AcksTyped' /\ CountersTyped'
         /\ RowsPlaced'
    BY <1>1, <1>3, <1>4, TypeParts
       DEF OutboxInv, SealedTyped, RowsTyped, ReceiptsTyped, AcksTyped, CountersTyped,
           RowsPlaced, executionVars
  <1> QED  BY <1>7, <1>9, <1>10, <1>11, <1>12, TypePartsAfter DEF OutboxInv, Budget

\* EffectHost::complete, mark_uncertain_with_evidence and release_not_applied.
LEMMA SettleInv ==
    ASSUME OutboxInv, NEW g \in Gateways, SettleEffect(g)
    PROVE  OutboxInv'
  <1>1. /\ Busy(workers[g]) /\ workers[g].pc \in {"sent", "lost", "refused"}
        /\ UNCHANGED <<executionVars, outbox, acks, closed, generation, ghostVars, faults>>
    BY DEF SettleEffect, Busy
  <1>2. PICK k \in Keys : k = Key(g)
    BY <1>1, BusyFacts
  <1>3. ReceiptsTyped /\ closed' \subseteq Keys
    BY <1>1, TypeParts DEF OutboxInv, CountersTyped
  <1>4. CASE Goto(g, "fail") /\ receipts' = receipts
    BY <1>1, <1>3, <1>4, DrainInv DEF BusyPcs, ReceiptsTyped
  <1>5. ASSUME NEW pc \in {"ack", "block"}, NEW status \in {"completed", "uncertain"},
               Goto(g, pc), receipts' = SetReceipt(k, status, "none"),
               receipts[k].status = "started", pc = "ack" => status = "completed"
        PROVE  OutboxInv'
    <2>1. /\ ReceiptsTyped' /\ receipts'[k] = [status |-> status, decision |-> "none"]
          /\ \A other \in Keys \ {k} : receipts'[other] = receipts[other]
      BY <1>3, <1>5, ReceiptWritten
    <2>2. \A other \in Keys :
            /\ receipts[other].status = "completed" => receipts'[other].status = "completed"
            /\ receipts'[other].status \in {"absent", "prepared"} =>
                 receipts[other].status \in {"absent", "prepared"}
      BY <1>5, <2>1
    <2>3. pc = "ack" => receipts'[Key(g)].status = "completed"
      BY <1>2, <1>5, <2>1
    <2>4. pc \in BusyPcs \ {"sending", "refused"}
      BY DEF BusyPcs
    <2> QED  BY <1>1, <1>3, <1>5, <2>1, <2>2, <2>3, <2>4, DrainInv
  <1>6. CASE /\ Goto(g, "fail") /\ receipts' = SetReceipt(k, "prepared", "none")
             /\ receipts[k].status = "started" /\ workers[g].pc = "refused"
    <2>1. /\ ReceiptsTyped' /\ receipts'[k] = [status |-> "prepared", decision |-> "none"]
          /\ \A other \in Keys \ {k} : receipts'[other] = receipts[other]
      BY <1>3, <1>6, ReceiptWritten
    <2>2. Grows
      <3>1. \A other \in Keys : receipts[other].status = "completed" =>
              receipts'[other].status = "completed"
        BY <1>6, <2>1
      <3>2. /\ generation \in Nat /\ \A x \in Executions : Len(outbox[x]) \in Nat
            /\ \A x \in Executions : Len(acks[x]) \in Nat
        BY TypeParts DEF OutboxInv, RowsTyped, AcksTyped, CountersTyped
      <3> QED  BY <1>1, <3>1, <3>2 DEF Grows, executionVars
    <2>3. PICK w \in WorkerType :
            /\ workers' = [workers EXCEPT ![g] = w] /\ PlacedAt(w)' /\ w.pc = "fail"
      BY <1>1, <1>6, <2>2, GoesOn DEF BusyPcs
    <2>4. /\ WorkersTyped' /\ WorkersPlaced'
          /\ \A other \in Keys : Sending(other)' = Sending(other) \ {g}
      BY <2>2, <2>3, OneWorkerMoves
    <2>5. WithinBudget(k)'
      <3>1. g \in Sending(k)
        BY <1>2, <1>6 DEF Sending
      <3>2. Claims(k) = 0 /\ Claims(k)' = 1
        BY <1>6, <2>1 DEF Claims
      <3>3. delivered'[k] = delivered[k] /\ delivered[k] \in Nat /\ denials'[k] = denials[k]
        BY <1>1, BudgetTerms DEF ghostVars
      <3>4. /\ delivered'[k] \in Nat /\ Claims(k)' \in 0 .. 1
            /\ delivered'[k] + Claims(k)' <= delivered[k] + Claims(k) + 1
        BY <3>2, <3>3
      <3> QED  BY <2>4, <3>1, <3>3, <3>4, ShareSpent
    <2>6. ASSUME NEW other \in Keys \ {k}  PROVE WithinBudget(other)'
      BY <1>1, <2>1, <2>4, BudgetKept DEF ghostVars
    <2>7. AcknowledgedInOrder'
      BY <1>1, <2>2, OrderUntouched
    <2>8. SealedTyped' /\ RowsTyped' /\ AcksTyped' /\ CountersTyped' /\ RowsPlaced'
      BY <1>1, TypeParts DEF OutboxInv, SealedTyped, RowsTyped, AcksTyped, CountersTyped,
                             RowsPlaced, executionVars, ghostVars
    <2> QED  BY <2>1, <2>4, <2>5, <2>6, <2>7, <2>8, TypePartsAfter DEF OutboxInv, Budget
  <1> QED  BY <1>2, <1>4, <1>5, <1>6 DEF SettleEffect, Started

\* insert_turn_projection_event_once: the event is the next one.
LEMMA EmitInv ==
    ASSUME OutboxInv, NEW g \in Gateways, EmitTurnEvent(g)
    PROVE  OutboxInv'
  <1>1. /\ Busy(workers[g]) /\ workers[g].pc = "ack" /\ Goto(g, "complete")
        /\ UNCHANGED <<executionVars, outbox, receipts, closed, generation, ghostVars, faults>>
    BY DEF EmitTurnEvent, Busy
  <1>2. PICK x \in Executions, r \in Nat \ {0} :
          /\ x = workers[g].x /\ r = workers[g].r /\ r \in 1 .. Len(outbox[x])
          /\ <<x, r>> \in Keys /\ Key(g) = <<x, r>> /\ EarlierCompleted(x, r)
    BY <1>1, BusyFacts
  <1>3. ReceiptsTyped' /\ closed' \subseteq Keys
    BY <1>1, TypeParts DEF OutboxInv, ReceiptsTyped, CountersTyped
  <1>4. CASE Acked(x, r)
    <2>1. acks' = acks
      BY <1>2, <1>4 DEF EmitTurnEvent
    <2>2. r <= Len(acks[x])
      BY <1>4, AckedEvents
    <2> QED  BY <1>1, <1>2, <1>3, <2>1, <2>2, DrainInv DEF BusyPcs
  <1>5. CASE ~Acked(x, r)
    <2>1. acks' = [acks EXCEPT ![x] = Append(acks[x], r)]
      BY <1>2, <1>5 DEF EmitTurnEvent
    <2>2. /\ acks \in [Executions -> Seq(Revisions)] /\ r \in Revisions
          /\ acks[x] = [i \in 1 .. Len(acks[x]) |-> i] /\ Len(acks[x]) \in Nat
          /\ \A y \in Executions : Len(acks[y]) \in Nat /\ Len(outbox[y]) \in Nat
      <3>1. r \in Revisions
        BY <1>2 DEF Keys
      <3>2. acks \in [Executions -> Seq(Revisions)] /\ outbox \in [Executions -> Seq(RowType)]
        BY TypeParts DEF OutboxInv, AcksTyped, RowsTyped
      <3>3. acks[x] = [i \in 1 .. Len(acks[x]) |-> i]
        BY DEF OutboxInv, AcknowledgedInOrder
      <3> QED  BY <3>1, <3>2, <3>3
    <2>3. r = Len(acks[x]) + 1
      <3>1. r > Len(acks[x])
        BY <1>5, <2>2, AckedEvents
      <3>2. CASE r > 1
        <4>1. r - 1 \in 1 .. r - 1 /\ r - 1 \in 1 .. Len(outbox[x])
          BY <1>2, <2>2, <3>2
        <4>2. outbox[x][r - 1].status = "completed"
          BY <1>2, <4>1 DEF EarlierCompleted
        <4>3. r - 1 <= Len(acks[x])
          BY <4>1, <4>2 DEF OutboxInv, AcknowledgedInOrder
        <4> QED  BY <2>2, <3>1, <4>3
      <3>3. CASE r = 1
        BY <2>2, <3>1, <3>3
      <3> QED  BY <3>2, <3>3
    <2> DEFINE events == Append(acks[x], r)
    <2>4. /\ events \in Seq(Revisions) /\ Len(events) = Len(acks[x]) + 1
          /\ \A i \in 1 .. Len(acks[x]) + 1 : events[i] = i
      BY <2>2, <2>3
    <2> HIDE DEF events
    <2>5. events = [i \in 1 .. Len(events) |-> i]
      BY <2>4
    <2>6. /\ acks' \in [Executions -> Seq(Revisions)] /\ acks'[x] = events
          /\ \A y \in Executions : y # x => acks'[y] = acks[y]
      BY <2>1, <2>2, <2>4 DEF events
    <2>7. \A y \in Executions : Len(acks'[y]) \in Nat /\ Len(acks[y]) <= Len(acks'[y])
      <3>1. Len(acks'[x]) \in Nat /\ Len(acks[x]) <= Len(acks'[x])
        BY <2>2, <2>4, <2>6
      <3>2. \A y \in Executions : y # x => Len(acks'[y]) = Len(acks[y])
        BY <2>6
      <3> QED  BY <2>2, <3>1, <3>2
    <2>8. Grows
      BY <1>1, <2>2, <2>7, TypeParts DEF Grows, OutboxInv, CountersTyped, executionVars
    <2>9. r <= Len(acks'[x])
      BY <2>2, <2>3, <2>4, <2>6
    <2>10. PICK w \in WorkerType :
             /\ workers' = [workers EXCEPT ![g] = w] /\ w.pc = "complete" /\ PlacedAt(w)'
      BY <1>1, <1>2, <2>8, <2>9, GoesOn DEF BusyPcs
    <2>11. WorkersTyped' /\ WorkersPlaced' /\ Budget'
      BY <1>1, <2>8, <2>10, QuietBudget DEF ghostVars
    <2>12. RowsPlaced'
      <3>1. ASSUME NEW y \in Executions
            PROVE  Len(outbox'[y]) = Len(sealed'[y]) /\ Len(acks'[y]) <= Len(outbox'[y])
        <4>1. Len(outbox[y]) = Len(sealed[y]) /\ Len(acks[y]) <= Len(outbox[y])
          BY DEF OutboxInv, RowsPlaced
        <4>2. CASE y = x
          BY <1>1, <1>2, <2>2, <2>3, <2>4, <2>6, <4>1, <4>2 DEF executionVars
        <4>3. CASE y # x
          BY <1>1, <2>6, <4>1, <4>3 DEF executionVars
        <4> QED  BY <4>2, <4>3
      <3> QED  BY <3>1 DEF RowsPlaced
    <2>13. AcknowledgedInOrder'
      <3>1. ASSUME NEW y \in Executions  PROVE acks'[y] = [i \in 1 .. Len(acks'[y]) |-> i]
        <4>1. CASE y = x
          BY <2>5, <2>6, <4>1
        <4>2. CASE y # x
          BY <2>6, <4>2 DEF OutboxInv, AcknowledgedInOrder
        <4> QED  BY <4>1, <4>2
      <3>2. ASSUME NEW y \in Executions, NEW q \in 1 .. Len(outbox'[y]),
                   outbox'[y][q].status = "completed"
            PROVE  q <= Len(acks'[y])
        <4>1. q <= Len(acks[y]) /\ q \in 1 .. Len(outbox[y])
          BY <1>1, <3>2 DEF OutboxInv, AcknowledgedInOrder
        <4> QED  BY <2>2, <2>7, <4>1
      <3>3. ASSUME NEW y \in Executions, NEW q \in 1 .. Len(acks'[y]), IsReply(y, q)'
            PROVE  receipts'[<<y, q>>].status = "completed"
        <4>1. IsReply(y, q) /\ receipts' = receipts
          BY <1>1, <3>3 DEF IsReply, Outcome, executionVars
        <4>2. CASE q \in 1 .. Len(acks[y])
          BY <4>1, <4>2 DEF OutboxInv, AcknowledgedInOrder, IsReply
        <4>3. CASE q \notin 1 .. Len(acks[y])
          <5>1. y = x /\ q = r
            BY <2>2, <2>3, <2>4, <2>6, <4>3
          <5>2. receipts[<<x, r>>].status = "completed"
            BY <1>1, <1>2, <4>1, <5>1 DEF OutboxInv, WorkersPlaced, PlacedAt
          <5> QED  BY <4>1, <5>1, <5>2
        <4> QED  BY <4>2, <4>3
      <3> QED  BY <3>1, <3>2, <3>3 DEF AcknowledgedInOrder, IsReply
    <2>14. SealedTyped' /\ RowsTyped' /\ AcksTyped' /\ CountersTyped'
      BY <1>1, <2>6, TypeParts DEF OutboxInv, SealedTyped, RowsTyped, AcksTyped, CountersTyped,
                                   executionVars, ghostVars
    <2> QED  BY <1>3, <2>11, <2>12, <2>13, <2>14, TypePartsAfter DEF OutboxInv
  <1> QED  BY <1>4, <1>5

\* resolve_effect_receipt: a NotApplied decision permits one more message.
LEMMA ResolveInv ==
    ASSUME OutboxInv, NEW x \in Executions, NEW r \in Revisions, NEW decision \in Decisions,
           ResolveEffectReceipt(x, r, decision)
    PROVE  OutboxInv'
  <1>1. PICK k \in Keys : k = <<x, r>>
    BY DEF Keys
  <1>2. /\ r \in 1 .. Len(outbox[x])
        /\ UNCHANGED <<executionVars, acks, closed, generation, workers, delivered, faults>>
    BY DEF ResolveEffectReceipt
  <1>3. ReceiptsTyped /\ denials \in [Keys -> 0 .. MaxDenials] /\ Len(outbox[x]) \in Nat
    BY TypeParts DEF OutboxInv, CountersTyped, RowsTyped
  <1>4. /\ ReceiptsTyped'
        /\ \A other \in Keys \ {k} :
             receipts'[other] = receipts[other] /\ denials'[other] = denials[other]
        /\ receipts[k].status = "completed" => receipts'[k].status = "completed"
        /\ denials' \in [Keys -> 0 .. MaxDenials]
        /\ Claims(k)' - denials'[k] <= Claims(k) - denials[k]
    <2>1. CASE receipts' = receipts /\ denials' = denials
      BY <1>3, <2>1 DEF ReceiptsTyped, Claims
    <2>2. CASE /\ receipts[k].status = "uncertain" /\ decision = "applied"
               /\ receipts' = SetReceipt(k, "completed", decision) /\ denials' = denials
      <3>1. /\ ReceiptsTyped' /\ receipts'[k] = [status |-> "completed", decision |-> decision]
            /\ \A other \in Keys \ {k} : receipts'[other] = receipts[other]
        BY <1>3, <2>2, ReceiptWritten
      <3>2. Claims(k)' = 0 /\ Claims(k) = 0
        BY <2>2, <3>1 DEF Claims
      <3> QED  BY <1>3, <2>2, <3>1, <3>2
    <2>3. CASE /\ receipts[k].status = "uncertain" /\ decision # "applied"
               /\ denials[k] < MaxDenials
               /\ receipts' = SetReceipt(k, "prepared", decision)
               /\ denials' = [denials EXCEPT ![k] = denials[k] + 1]
      <3>1. /\ ReceiptsTyped' /\ receipts'[k] = [status |-> "prepared", decision |-> decision]
            /\ \A other \in Keys \ {k} : receipts'[other] = receipts[other]
        BY <1>3, <2>3, ReceiptWritten
      <3>2. Claims(k)' = 1 /\ Claims(k) = 0
        BY <2>3, <3>1 DEF Claims
      <3>3. /\ denials' \in [Keys -> 0 .. MaxDenials] /\ denials'[k] = denials[k] + 1
            /\ \A other \in Keys \ {k} : denials'[other] = denials[other]
        BY <1>3, <2>3
      <3> QED  BY <1>3, <2>3, <3>1, <3>2, <3>3
    <2> QED  BY <1>1, <2>1, <2>2, <2>3 DEF ResolveEffectReceipt, ResolvedStatus, Decisions
  <1>5. \A other \in Keys :
          receipts[other].status = "completed" => receipts'[other].status = "completed"
    BY <1>4
  <1>6. Grows /\ SealedTyped' /\ RowsTyped' /\ AcksTyped' /\ RowsPlaced' /\ AcknowledgedInOrder'
    <2>1. CASE outbox' = outbox
      <3>1. Grows
        BY <1>2, <1>5, <2>1, TypeParts
           DEF Grows, OutboxInv, RowsTyped, AcksTyped, CountersTyped, executionVars
      <3>2. AcknowledgedInOrder'
        BY <1>2, <2>1, <3>1, OrderUntouched
      <3> QED  BY <1>2, <2>1, <3>1, <3>2, TypeParts
               DEF OutboxInv, SealedTyped, RowsTyped, AcksTyped, RowsPlaced, executionVars
    <2>2. CASE /\ outbox[x][r].status = "blocked"
               /\ outbox' = SetRow(x, r, [outbox[x][r] EXCEPT !.status = "pending"])
      <3>1. outbox[x][r] \in RowType /\ RowOK(outbox[x][r])
        BY <1>2, RowTyped
      <3>2. PICK row \in RowType :
              /\ row = [outbox[x][r] EXCEPT !.status = "pending"]
              /\ RowOK(row) /\ row.status = "pending"
        BY <2>2, <3>1, RowRequeued
      <3>3. outbox' = SetRow(x, r, row)
        BY <2>2, <3>2
      <3> QED  BY <1>2, <1>5, <2>2, <3>2, <3>3, RowMoves
    <2> QED  BY <2>1, <2>2 DEF ResolveEffectReceipt, Requeued
  <1>7. /\ WorkersTyped' /\ WorkersPlaced'
        /\ \A other \in Keys : Sending(other)' = Sending(other)
    BY <1>2, <1>6, NoWorkerMoves
  <1>8. WithinBudget(k)'
    <2>1. PICK S : S = Sending(k) /\ S = Sending(k)'
      BY <1>7
    <2>2. /\ IsFiniteSet(S) /\ Cardinality(S) \in Nat
          /\ delivered[k] \in Nat /\ denials[k] \in Nat /\ Claims(k) \in 0 .. 1
          /\ delivered[k] + Cardinality(S) + Claims(k) <= 1 + denials[k]
      BY <2>1, BudgetTerms
    <2>3. denials'[k] \in Nat /\ Claims(k)' \in 0 .. 1 /\ delivered' = delivered
      BY <1>2, <1>4 DEF Claims
    <2> QED  BY <1>4, <2>1, <2>2, <2>3 DEF WithinBudget
  <1>9. ASSUME NEW other \in Keys \ {k}  PROVE WithinBudget(other)'
    BY <1>2, <1>4, <1>7, BudgetKept
  <1>10. CountersTyped'
    BY <1>2, <1>4, TypeParts DEF OutboxInv, CountersTyped
  <1> QED  BY <1>4, <1>6, <1>7, <1>8, <1>9, <1>10, TypePartsAfter DEF OutboxInv, Budget

-------------------------------------------------------------------------------
(* Theorems *)

\* At first there are no rows, receipts or workers under way.
LEMMA OutboxInvInit == OutboxInit => OutboxInv
  <1> SUFFICES ASSUME OutboxInit  PROVE OutboxInv
    OBVIOUS
  <1>1. SealedTyped /\ RowsTyped /\ AcksTyped
    BY DEF OutboxInit, ContractInit, SealedTyped, RowsTyped, AcksTyped
  <1>2. ReceiptsTyped
    BY DEF OutboxInit, ReceiptsTyped, ReceiptType, NoReceipt
  <1>3. WorkersTyped
    BY DEF OutboxInit, WorkersTyped, WorkerType, Stopped
  <1>4. CountersTyped
    BY DEF OutboxInit, CountersTyped
  <1>5. RowsPlaced /\ AcknowledgedInOrder
    BY DEF OutboxInit, ContractInit, RowsPlaced, AcknowledgedInOrder
  <1>6. WorkersPlaced
    BY DEF OutboxInit, WorkersPlaced, PlacedAt, Stopped, Busy
  <1>7. ASSUME NEW k \in Keys  PROVE WithinBudget(k)
    <2>1. Sending(k) = {}
      BY DEF OutboxInit, Sending, Stopped
    <2>2. IsFiniteSet(Sending(k)) /\ Cardinality(Sending(k)) = 0
      BY <2>1, FS_EmptySet
    <2>3. delivered[k] = 0 /\ denials[k] = 0 /\ Claims(k) = 1
      BY DEF OutboxInit, NoReceipt, Claims
    <2> QED  BY <2>2, <2>3 DEF WithinBudget
  <1> QED  BY <1>1, <1>2, <1>3, <1>4, <1>5, <1>6, <1>7, TypeParts DEF OutboxInv, Budget

\* Every step keeps the invariant.
LEMMA OutboxInvNext == OutboxInv /\ [OutboxNext]_outboxVars => OutboxInv'
  <1> SUFFICES ASSUME OutboxInv, [OutboxNext]_outboxVars  PROVE OutboxInv'
    OBVIOUS
  <1>1. ASSUME NEW x \in Executions, StartExecution(x) \/ ResumeExecution(x)  PROVE OutboxInv'
    BY <1>1, OpenInv
  <1>2. ASSUME NEW x \in Executions, NEW o \in PlainOutcomes, CommitOutcome(x, o)
        PROVE  OutboxInv'
    BY <1>2, CommitInv
  <1>3. ASSUME NEW x \in Executions, NEW r \in Revisions,
               CloseApproval(x, r) \/ ClaimLapses(x, r)
        PROVE  OutboxInv'
    BY <1>3, CloseInv, LapseInv
  <1>4. ASSUME NEW g \in Gateways,
               \/ StartGateway(g) \/ CrashGateway(g) \/ PanicInDrain(g)
               \/ RenewProjectionClaim(g)
        PROVE  OutboxInv'
    BY <1>4, StartInv, CrashInv, PanicInv, RenewInv
  <1>5. ASSUME NEW g \in Gateways, WorkerStep(g)  PROVE OutboxInv'
    BY <1>5, ClaimInv, LoadInv, ProjectInv, PrepareInv, BeginInv, SendInv, SettleInv,
       EmitInv, FinishInv
       DEF WorkerStep
  <1>6. ASSUME NEW x \in Executions, NEW r \in Revisions, NEW d \in Decisions,
               ResolveEffectReceipt(x, r, d)
        PROVE  OutboxInv'
    BY <1>6, ResolveInv
  <1>7. CASE UNCHANGED outboxVars
    <2>1. /\ open' \subseteq Executions /\ UNCHANGED sealed
          /\ UNCHANGED <<outbox, receipts, acks, closed, generation, workers, ghostVars, faults>>
      BY <1>7, TypeParts DEF outboxVars, ghostVars, OutboxInv, SealedTyped
    <2> QED  BY <2>1, ExecutionsOpenInv
  <1> QED
    BY <1>1, <1>2, <1>3, <1>4, <1>5, <1>6, <1>7 DEF OutboxNext, ExecutionStep

\* Whatever gateways die, panic, sleep or refuse, rows, workers, events and
\* receipts agree as OutboxInv says (projection_outbox.rs, projection_worker.rs).
THEOREM OutboxStaysConsistent == OutboxSpec => []OutboxInv
  BY OutboxInvInit, OutboxInvNext, PTL DEF OutboxSpec

\* The tables keep their types, and exactly the claimed rows carry a claim (the
\* CHECKs of execution_projection_outbox).
THEOREM OutboxKeepsItsTypes == OutboxSpec => []OutboxTypeOK
  <1>1. OutboxInv => OutboxTypeOK
    BY DEF OutboxInv
  <1> QED  BY <1>1, OutboxStaysConsistent, PTL

\* A message reaches the channel at most once, and once more for each NotApplied
\* decision: EffectHost never sends by itself what may have arrived.
THEOREM MessagesAreDeliveredOnce == OutboxSpec => []DeliveredOnce
  <1>1. OutboxInv => DeliveredOnce
    <2>1. ASSUME OutboxInv, NEW k \in Keys  PROVE delivered[k] <= 1 + denials[k]
      BY <2>1, BudgetTerms
    <2> QED  BY <2>1 DEF DeliveredOnce
  <1> QED  BY <1>1, OutboxStaysConsistent, PTL

\* Turn events appear once and in the order of the revisions, behind every
\* completed row, and that of a reply behind its receipt
\* (insert_turn_projection_event_once, complete_projection).
THEOREM OutcomesAppearInOrder == OutboxSpec => []AcknowledgedInOrder
  <1>1. OutboxInv => AcknowledgedInOrder
    BY DEF OutboxInv
  <1> QED  BY <1>1, OutboxStaysConsistent, PTL

\* A write of a row that is neither completed nor blocked, or that settles the
\* receipt of a blocked one.
LEMMA WriteSettles ==
    ASSUME OutboxInv, NEW x \in Executions, NEW r \in 1 .. Len(outbox[x]),
           NEW row \in RowType, RowOK(row), outbox' = SetRow(x, r, row),
           outbox[x][r].status # "completed",
           outbox[x][r].status = "blocked" => receipts'[<<x, r>>].decision # "none"
    PROVE  RowsSettled
  <1>1. /\ outbox'[x][r] = row
        /\ \A y \in Executions : \A q \in 1 .. Len(outbox[y]) :
             y # x \/ q # r => outbox'[y][q] = outbox[y][q]
    BY RowWritten, TypeParts DEF OutboxInv
  <1>2. ASSUME NEW y \in Executions, NEW q \in 1 .. Len(outbox[y])
        PROVE  /\ outbox[y][q].status = "completed" => outbox'[y][q].status = "completed"
               /\ (outbox[y][q].status = "blocked" /\ outbox'[y][q].status # "blocked") =>
                    receipts'[<<y, q>>].decision # "none"
    <2>1. CASE y = x /\ q = r
      BY <1>1, <2>1
    <2>2. CASE y # x \/ q # r
      BY <1>1, <2>2
    <2> QED  BY <2>1, <2>2
  <1> QED  BY <1>2 DEF RowsSettled

\* Most steps leave the rows alone.
LEMMA RowsUntouched ==
    ASSUME outbox' = outbox
    PROVE  RowsSettled
  BY DEF RowsSettled

\* No write of a worker touches a row that it has not claimed.
LEMMA WorkerSettles ==
    ASSUME OutboxInv, NEW g \in Gateways,
           \/ RenewProjectionClaim(g) \/ FinishClaim(g)
           \/ \E x \in Executions, r \in Revisions : ClaimProjection(g, x, r)
    PROVE  RowsSettled
  <1>1. ASSUME NEW x \in Executions, NEW r \in Revisions, ClaimProjection(g, x, r)
        PROVE  RowsSettled
    <2>1. /\ r \in 1 .. Len(outbox[x]) /\ workers[g].pc = "idle"
          /\ outbox[x][r].status \in {"pending", "claimed"}
      BY <1>1 DEF ClaimProjection, Claimable
    <2>2. PICK gen \in 0 .. MaxGeneration, token \in Nat :
            /\ gen = workers[g].gen /\ gen > 0 /\ token = outbox[x][r].token + 1
      <3>1. workers[g].gen \in 0 .. MaxGeneration /\ workers[g].gen > 0
        BY <2>1, TypeParts
           DEF OutboxInv, WorkersTyped, WorkerType, WorkersPlaced, PlacedAt
      <3>2. outbox[x][r].token + 1 \in Nat
        BY <2>1, RowTyped DEF RowType
      <3> QED  BY <3>1, <3>2
    <2>3. PICK row : row = [status |-> "claimed", gen |-> gen, token |-> token, fresh |-> TRUE]
      OBVIOUS
    <2>4. row \in RowType /\ RowOK(row) /\ outbox' = SetRow(x, r, row)
      BY <1>1, <2>2, <2>3 DEF RowType, RowOK, ClaimProjection
    <2> QED  BY <2>1, <2>4, WriteSettles
  <1>2. ASSUME RenewProjectionClaim(g) \/ FinishClaim(g), ClaimCurrent(g)  PROVE RowsSettled
    <2>1. Busy(workers[g])
      BY <1>2 DEF RenewProjectionClaim, FinishClaim, Busy
    <2>2. PICK x \in Executions : x = workers[g].x /\ workers[g].r \in 1 .. Len(outbox[x])
      BY <2>1, BusyFacts
    <2>3. PICK r \in 1 .. Len(outbox[x]) : r = workers[g].r
      BY <2>2
    <2>4. PICK old \in RowType : /\ old = outbox[x][r] /\ RowOK(old) /\ Row(g) = old
                                /\ old.status = "claimed"
      BY <1>2, <2>2, <2>3, RowTyped DEF ClaimCurrent, Row
    <2>5. CASE RenewProjectionClaim(g)
      <3>1. PICK row \in RowType : row = [old EXCEPT !.fresh = TRUE] /\ RowOK(row)
        BY <2>4, RowRenewed
      <3>2. outbox' = SetRow(x, r, row)
        BY <2>2, <2>3, <2>4, <2>5, <3>1 DEF RenewProjectionClaim
      <3> QED  BY <2>4, <3>1, <3>2, WriteSettles
    <2>6. CASE FinishClaim(g)
      <3>1. PICK status \in {"pending", "blocked", "completed"} :
              status = StatusAfter(workers[g].pc)
        BY <2>6 DEF FinishClaim, StatusAfter
      <3>2. PICK row \in RowType :
              /\ row = [old EXCEPT !.status = status, !.gen = 0, !.fresh = FALSE]
              /\ RowOK(row)
        <4>1. \E row \in RowType :
                /\ row = [old EXCEPT !.status = status, !.gen = 0, !.fresh = FALSE]
                /\ RowOK(row) /\ row.status = status
          BY RowFinished
        <4> QED  BY <4>1
      <3>3. outbox' = SetRow(x, r, row)
        BY <1>2, <2>2, <2>3, <2>4, <2>6, <3>1, <3>2 DEF FinishClaim
      <3> QED  BY <2>4, <3>2, <3>3, WriteSettles
    <2> QED  BY <1>2, <2>5, <2>6
  <1>3. CASE FinishClaim(g) /\ ~ClaimCurrent(g)
    BY <1>3, RowsUntouched DEF FinishClaim
  <1> QED  BY <1>1, <1>2, <1>3 DEF RenewProjectionClaim

\* A row that completed stays so, and a blocked one is released only by the step
\* that settles its receipt, whatever a worker whose claim was taken over does
\* (finish_claim, assert_projection_claim_current_on).
THEOREM StaleWorkersDoNoHarm == OutboxSpec => StaleWorkersHarmless
  <1>1. ASSUME OutboxInv, [OutboxNext]_outboxVars  PROVE [RowsSettled]_outboxVars
    <2>1. ASSUME NEW x \in Executions, NEW o \in PlainOutcomes, CommitOutcome(x, o)
          PROVE  RowsSettled
      <3>1. outbox \in [Executions -> Seq(RowType)] /\ NewRow \in RowType
        <4>1. NewRow \in RowType
          BY DEF NewRow, RowType
        <4> QED  BY <1>1, <4>1, TypeParts DEF OutboxInv, RowsTyped
      <3>2. outbox' = [outbox EXCEPT ![x] = Append(outbox[x], NewRow)]
        BY <2>1 DEF CommitOutcome
      <3>3. \A y \in Executions : \A r \in 1 .. Len(outbox[y]) : outbox'[y][r] = outbox[y][r]
        BY <3>1, <3>2
      <3> QED  BY <3>3 DEF RowsSettled
    <2>2. ASSUME NEW x \in Executions, NEW r \in Revisions, ClaimLapses(x, r)
          PROVE  RowsSettled
      <3>1. r \in 1 .. Len(outbox[x]) /\ outbox[x][r].status = "claimed"
        BY <2>2 DEF ClaimLapses
      <3>2. PICK row \in RowType : row = [outbox[x][r] EXCEPT !.fresh = FALSE] /\ RowOK(row)
        BY <1>1, <3>1, RowTyped, RowLapsed
      <3>3. outbox' = SetRow(x, r, row)
        BY <2>2, <3>2 DEF ClaimLapses
      <3> QED  BY <1>1, <3>1, <3>2, <3>3, WriteSettles
    <2>3. ASSUME NEW x \in Executions, NEW r \in Revisions, NEW d \in Decisions,
                 ResolveEffectReceipt(x, r, d)
          PROVE  RowsSettled
      <3>1. r \in 1 .. Len(outbox[x])
        BY <2>3 DEF ResolveEffectReceipt
      <3>2. CASE outbox' = outbox
        BY <3>2, RowsUntouched
      <3>3. CASE /\ outbox[x][r].status = "blocked"
                 /\ outbox' = SetRow(x, r, [outbox[x][r] EXCEPT !.status = "pending"])
        <4>1. PICK row \in RowType :
                row = [outbox[x][r] EXCEPT !.status = "pending"] /\ RowOK(row)
          BY <1>1, <3>1, <3>3, RowTyped, RowRequeued
        <4>2. receipts'[<<x, r>>].decision # "none"
          <5>1. PICK k \in Keys : k = <<x, r>>
            BY DEF Keys
          <5>2. CASE receipts' = SetReceipt(k, ResolvedStatus(d), d)
            <6>1. receipts'[k] = [status |-> ResolvedStatus(d), decision |-> d]
              BY <1>1, <5>2, ReceiptWritten, TypeParts DEF OutboxInv, ResolvedStatus
            <6> QED  BY <5>1, <6>1 DEF Decisions
          <5>3. CASE /\ receipts[k] = [status |-> ResolvedStatus(d), decision |-> d]
                     /\ receipts' = receipts
            BY <5>1, <5>3 DEF Decisions
          <5> QED  BY <2>3, <5>1, <5>2, <5>3 DEF ResolveEffectReceipt
        <4> QED  BY <1>1, <3>1, <3>3, <4>1, <4>2, WriteSettles
      <3> QED  BY <2>3, <3>2, <3>3 DEF ResolveEffectReceipt, Requeued
    <2>4. ASSUME NEW g \in Gateways, WorkerStep(g) \/ RenewProjectionClaim(g)
          PROVE  RowsSettled
      <3>1. CASE \/ RenewProjectionClaim(g) \/ FinishClaim(g)
                 \/ \E x \in Executions, r \in Revisions : ClaimProjection(g, x, r)
        BY <1>1, <3>1, WorkerSettles
      <3>2. CASE \/ LoadClaim(g) \/ Project(g) \/ PrepareDispatch(g) \/ BeginEffect(g)
                 \/ SendToChannel(g) \/ SettleEffect(g) \/ EmitTurnEvent(g)
        <4>1. outbox' = outbox
          BY <3>2 DEF LoadClaim, Project, PrepareDispatch, BeginEffect, SendToChannel,
                      SettleEffect, EmitTurnEvent
        <4> QED  BY <4>1, RowsUntouched
      <3> QED  BY <2>4, <3>1, <3>2 DEF WorkerStep
    <2>5. ASSUME NEW g \in Gateways, StartGateway(g) \/ CrashGateway(g) \/ PanicInDrain(g)
          PROVE  RowsSettled
      BY <2>5, RowsUntouched DEF StartGateway, CrashGateway, PanicInDrain
    <2>6. ASSUME NEW x \in Executions, StartExecution(x) \/ ResumeExecution(x)
          PROVE  RowsSettled
      BY <2>6, RowsUntouched DEF StartExecution, ResumeExecution
    <2>7. ASSUME NEW x \in Executions, NEW r \in Revisions, CloseApproval(x, r)
          PROVE  RowsSettled
      BY <2>7, RowsUntouched DEF CloseApproval
    <2> QED
      BY <1>1, <2>1, <2>2, <2>3, <2>4, <2>5, <2>6, <2>7 DEF OutboxNext, ExecutionStep
  <1> QED  BY <1>1, OutboxStaysConsistent, PTL DEF OutboxSpec, StaleWorkersHarmless
===============================================================================

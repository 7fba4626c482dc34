------------------------- MODULE EffectReceiptsProofs -------------------------
(***************************************************************************)
(* Proofs about EffectReceipts, for any workers, executions, receipts and  *)
(* bounds.                                                                 *)
(*                                                                         *)
(* That what was sent stays on record needs nothing of leases, fences or   *)
(* the journal: it follows from the receipts alone.  Until the user denies *)
(* it, a receipt that permits a claim was not sent and nobody is about to  *)
(* send it; a worker that holds an unsent claim is the only one that holds *)
(* the receipt.                                                            *)
(*                                                                         *)
(* That an effect is sent at most once, denied or not, needs the journal:  *)
(* a receipt is claimed for one revision only, and a denied one belongs to *)
(* a revision that has its outcome.                                        *)
(*                                                                         *)
(* That a turn waits only for a decision that can still be taken needs the *)
(* runtime: EffectSpec implements RuntimeSpec, and while a receipt belongs *)
(* to the running revision nobody but the user changes it once it is       *)
(* uncertain, who may only do so when that revision has its outcome.       *)
(***************************************************************************)
EXTENDS EffectReceipts, ExecutionRuntimeProofs, ExecutionJournalRefinement

USE EffectAssumption

-------------------------------------------------------------------------------
(* Receipts and calls *)

ReceiptStates == {"absent", "prepared", "started", "uncertain", "completed"}
Call == [pc : {"none", "claimed", "sent", "suspend"}, rc : Receipts \cup {None}]

\* Nothing is said here of the revisions R of receipts.
ReceiptTable(R) == [Receipts -> [status : ReceiptStates, rev : R]]
ReceiptsShape ==
    /\ \E R : receipts \in ReceiptTable(R)
    /\ calls \in [Workers -> Call]
    /\ \A w \in Workers : calls[w].pc # "none" => calls[w].rc \in Receipts
    /\ sent \in [Receipts -> Nat]
    /\ denied \in SUBSET Receipts

\* The workers that may still settle rc.
Holding(rc) == {w \in Workers : calls[w].rc = rc /\ calls[w].pc \in {"claimed", "sent"}}

\* This holds until the user has declared that rc was not applied.
SendingSettled(rc) ==
    /\ sent[rc] <= 1
    /\ Status(rc) \in {"absent", "prepared"} => sent[rc] = 0 /\ Holding(rc) = {}
    /\ \A w \in Holding(rc) :
         calls[w].pc = "claimed" => sent[rc] = 0 /\ Holding(rc) = {w}

ReceiptsInv == ReceiptsShape /\ \A rc \in Receipts \ denied : SendingSettled(rc)

\* The condition of a settlement: only the status of a started receipt changes.
LEMMA SettledRow ==
    ASSUME NEW R, receipts \in ReceiptTable(R),
           NEW rc \in Receipts, NEW status \in ReceiptStates
    PROVE  /\ Settled(rc, status) \in ReceiptTable(R)
           /\ Settled(rc, status)[rc].status \in {status, Status(rc)}
           /\ Status(rc) = "started" => Settled(rc, status)[rc].status = status
           /\ Status(rc) # "started" => Settled(rc, status)[rc].status = Status(rc)
           /\ Settled(rc, status)[rc].rev = receipts[rc].rev
           /\ \A other \in Receipts \ {rc} : Settled(rc, status)[other] = receipts[other]
  <1>1. CASE Status(rc) = "started"
    BY <1>1 DEF Settled, ReceiptTable
  <1>2. CASE Status(rc) # "started"
    BY <1>2 DEF Settled, Status
  <1> QED  BY <1>1, <1>2

\* A worker leaves its claim, and its receipt is settled in a state that permits
\* no further claim.
LEMMA ClaimLeft ==
    ASSUME ReceiptsInv, NEW w \in Workers, NEW rc \in Receipts, NEW call \in Call,
           call.pc \in {"none", "suspend"}, call.pc # "none" => call.rc \in Receipts,
           calls' = [calls EXCEPT ![w] = call],
           NEW status \in {"uncertain", "completed"}, receipts' = Settled(rc, status),
           sent' = sent, denied' = denied
    PROVE  ReceiptsInv'
  <1>1. PICK R : receipts \in ReceiptTable(R)
    BY DEF ReceiptsInv, ReceiptsShape
  <1>2. /\ receipts' \in ReceiptTable(R)
        /\ receipts'[rc].status \in {status, Status(rc)}
        /\ \A other \in Receipts \ {rc} : receipts'[other] = receipts[other]
    <2> DEFINE new == Settled(rc, status)
    <2>1. status \in ReceiptStates  BY DEF ReceiptStates
    <2>2. /\ new \in ReceiptTable(R)
          /\ new[rc].status \in {status, Status(rc)}
          /\ \A other \in Receipts \ {rc} : new[other] = receipts[other]
      BY <1>1, <2>1, SettledRow
    <2>3. receipts' = new  OBVIOUS
    <2> QED  BY <2>2, <2>3
  <1>3. ReceiptsShape'
    BY <1>2 DEF ReceiptsInv, ReceiptsShape
  <1>4. ASSUME NEW other \in Receipts \ denied  PROVE SendingSettled(other)'
    <2>1. SendingSettled(other)
      BY DEF ReceiptsInv
    <2>2. /\ Holding(other)' = Holding(other) \ {w}
          /\ \A v \in Holding(other)' : calls'[v] = calls[v]
      BY DEF Holding, ReceiptsInv, ReceiptsShape
    <2>3. receipts'[other].status \in {"absent", "prepared"} =>
            Status(other) \in {"absent", "prepared"}
      BY <1>2 DEF Status
    <2> QED  BY <2>1, <2>2, <2>3 DEF SendingSettled, Status
  <1> QED  BY <1>3, <1>4 DEF ReceiptsInv

\* The step that begins a call, sends its effect or gives its receipt back.
LEMMA ClaimInv ==
    ASSUME ReceiptsInv, NEW w \in Workers, NEW rc \in Receipts, ClaimEffect(w, rc)
    PROVE  ReceiptsInv'
  <1>1. PICK R : receipts \in ReceiptTable(R)
    BY DEF ReceiptsInv, ReceiptsShape
  <1> DEFINE row == [status |-> "started", rev |-> workers[w].rev]
             call == [pc |-> "claimed", rc |-> rc]
  <1>2. /\ receipts' = [receipts EXCEPT ![rc] = row]
        /\ calls' = [calls EXCEPT ![w] = call]
        /\ calls[w].pc = "none"
        /\ Status(rc) \in {"absent", "prepared"}
        /\ sent' = sent /\ denied' = denied
    BY DEF ClaimEffect, InCall, Executable, EnterCall
  <1>3. call \in Call /\ row \in [status : ReceiptStates, rev : R \cup {workers[w].rev}]
    BY DEF Call, ReceiptStates
  <1>4. receipts' \in ReceiptTable(R \cup {workers[w].rev})
    BY <1>1, <1>2, <1>3 DEF ReceiptTable
  <1>5. ReceiptsShape'
    BY <1>2, <1>3, <1>4 DEF ReceiptsInv, ReceiptsShape
  <1>6. ASSUME NEW other \in Receipts \ denied  PROVE SendingSettled(other)'
    <2>1. SendingSettled(other)
      BY DEF ReceiptsInv
    <2>2. CASE other = rc
      <3>1. sent[rc] = 0 /\ Holding(rc) = {}
        BY <1>2, <2>1, <2>2 DEF SendingSettled
      <3>2. Holding(rc)' = {w}
        BY <1>2, <3>1 DEF Holding, ReceiptsInv, ReceiptsShape
      <3>3. receipts'[rc].status = "started"
        BY <1>1, <1>2 DEF ReceiptTable
      <3> QED  BY <1>2, <2>2, <3>1, <3>2, <3>3 DEF SendingSettled, Status
    <2>3. CASE other # rc
      <3>1. Holding(other)' = Holding(other) /\ \A v \in Holding(other) : calls'[v] = calls[v]
        BY <1>2, <2>3 DEF Holding, ReceiptsInv, ReceiptsShape
      <3>2. receipts'[other] = receipts[other]
        BY <1>1, <1>2, <2>3
      <3> QED  BY <1>2, <2>1, <3>1, <3>2 DEF SendingSettled, Status
    <2> QED  BY <2>2, <2>3
  <1> QED  BY <1>2, <1>5, <1>6 DEF ReceiptsInv

\* Only the one worker that holds an unsent claim sends, so it is the first to.
LEMMA SendInv ==
    ASSUME ReceiptsInv, NEW w \in Workers, SendEffect(w)
    PROVE  ReceiptsInv'
  <1>1. PICK rc \in Receipts : rc = calls[w].rc
    BY DEF SendEffect, InCall, ReceiptsInv, ReceiptsShape
  <1> DEFINE call == [pc |-> "sent", rc |-> rc]
  <1>2. /\ calls' = [calls EXCEPT ![w] = call]
        /\ calls[w].pc = "claimed"
        /\ sent' = [sent EXCEPT ![rc] = sent[rc] + 1]
        /\ receipts' = receipts /\ denied' = denied
    BY <1>1 DEF SendEffect, InCall, EnterCall
  <1>3. call \in Call
    BY DEF Call
  <1> HIDE DEF call
  <1>4. ReceiptsShape'
    <2>1. call.pc = "sent" /\ call.rc = rc  BY DEF call
    <2>2. /\ calls' \in [Workers -> Call]
          /\ \A v \in Workers : calls'[v].pc # "none" => calls'[v].rc \in Receipts
      BY <1>2, <1>3, <2>1 DEF ReceiptsInv, ReceiptsShape
    <2>3. sent' \in [Receipts -> Nat]
      BY <1>2 DEF ReceiptsInv, ReceiptsShape
    <2> QED  BY <1>2, <2>2, <2>3 DEF ReceiptsInv, ReceiptsShape
  <1> USE DEF call
  <1>5. ASSUME NEW other \in Receipts \ denied  PROVE SendingSettled(other)'
    <2>1. SendingSettled(other)
      BY DEF ReceiptsInv
    <2>2. CASE other = rc
      <3>1. w \in Holding(rc)
        BY <1>1, <1>2 DEF Holding
      <3>2. sent[rc] = 0 /\ Holding(rc) = {w} /\ Status(rc) \notin {"absent", "prepared"}
        BY <1>2, <2>1, <2>2, <3>1 DEF SendingSettled
      <3>3. Holding(rc)' = {w} /\ calls'[w].pc = "sent" /\ sent'[rc] = 1
        BY <1>2, <3>2 DEF Holding, ReceiptsInv, ReceiptsShape
      <3> QED  BY <1>2, <2>2, <3>2, <3>3 DEF SendingSettled, Status
    <2>3. CASE other # rc
      <3>1. /\ Holding(other)' = Holding(other)
            /\ \A v \in Holding(other) : calls'[v] = calls[v]
            /\ sent'[other] = sent[other]
        BY <1>1, <1>2, <2>3 DEF Holding, ReceiptsInv, ReceiptsShape
      <3> QED  BY <1>2, <2>1, <3>1 DEF SendingSettled, Status
    <2> QED  BY <2>2, <2>3
  <1> QED  BY <1>2, <1>4, <1>5 DEF ReceiptsInv

\* A release gives back a claim that was not sent, and nobody else holds the
\* receipt.
LEMMA ReleaseInv ==
    ASSUME ReceiptsInv, NEW w \in Workers, ReleaseEffect(w)
    PROVE  ReceiptsInv'
  <1>1. PICK R : receipts \in ReceiptTable(R)
    BY DEF ReceiptsInv, ReceiptsShape
  <1>2. PICK rc \in Receipts : rc = calls[w].rc
    BY DEF ReleaseEffect, InCall, ReceiptsInv, ReceiptsShape
  <1>3. /\ calls' = [calls EXCEPT ![w] = NoCall]
        /\ calls[w].pc = "claimed"
        /\ receipts' = Settled(rc, "prepared")
        /\ sent' = sent /\ denied' = denied
    BY <1>2 DEF ReleaseEffect, InCall, EndCall
  <1>4. /\ receipts' \in ReceiptTable(R)
        /\ \A other \in Receipts \ {rc} : receipts'[other] = receipts[other]
    BY <1>1, <1>3, SettledRow DEF ReceiptStates
  <1>5. NoCall \in Call /\ NoCall.pc = "none"
    BY DEF Call, NoCall
  <1>6. ReceiptsShape'
    BY <1>3, <1>4, <1>5 DEF ReceiptsInv, ReceiptsShape
  <1>7. ASSUME NEW other \in Receipts \ denied  PROVE SendingSettled(other)'
    <2>1. SendingSettled(other)
      BY DEF ReceiptsInv
    <2>2. /\ Holding(other)' = Holding(other) \ {w}
          /\ \A v \in Holding(other)' : calls'[v] = calls[v]
      BY <1>3, <1>5 DEF Holding, ReceiptsInv, ReceiptsShape
    <2>3. CASE other = rc
      <3>1. w \in Holding(rc)
        BY <1>2, <1>3 DEF Holding
      <3>2. sent[rc] = 0 /\ Holding(rc) = {w}
        BY <1>3, <2>1, <2>3, <3>1 DEF SendingSettled
      <3> QED  BY <1>3, <2>2, <2>3, <3>2 DEF SendingSettled
    <2>4. CASE other # rc
      BY <1>3, <1>4, <2>1, <2>2, <2>4 DEF SendingSettled, Status
    <2> QED  BY <2>3, <2>4
  <1> QED  BY <1>3, <1>6, <1>7 DEF ReceiptsInv

\* A settlement that found the receipt settled by somebody else changes nothing
\* but the call.
LEMMA LeaveInv ==
    ASSUME ReceiptsInv, NEW w \in Workers,
           CompleteEffect(w) \/ LoseAnswer(w) \/ AbandonEffect(w)
    PROVE  ReceiptsInv'
  <1>1. PICK rc \in Receipts : rc = calls[w].rc
    BY DEF CompleteEffect, LoseAnswer, AbandonEffect, InCall, ReceiptsInv, ReceiptsShape
  <1>2. NoCall \in Call /\ NoCall.pc = "none"
    BY DEF Call, NoCall
  <1> DEFINE suspend == [pc |-> "suspend", rc |-> rc]
  <1>3. suspend \in Call /\ suspend.pc = "suspend" /\ suspend.rc \in Receipts
    BY DEF Call
  <1>4. /\ \E call \in {NoCall, suspend} : calls' = [calls EXCEPT ![w] = call]
        /\ \E status \in {"uncertain", "completed"} : receipts' = Settled(rc, status)
        /\ sent' = sent /\ denied' = denied
    BY <1>1 DEF CompleteEffect, LoseAnswer, AbandonEffect, EndCall, EnterCall
  <1> HIDE DEF suspend
  <1>5. PICK call \in {NoCall, suspend} : calls' = [calls EXCEPT ![w] = call]
    BY <1>4
  <1>6. PICK status \in {"uncertain", "completed"} : receipts' = Settled(rc, status)
    BY <1>4
  <1>7. /\ call \in Call /\ call.pc \in {"none", "suspend"}
        /\ call.pc # "none" => call.rc \in Receipts
    BY <1>2, <1>3
  <1> QED  BY <1>4, <1>5, <1>6, <1>7, ClaimLeft

\* A worker that holds no claim enters or leaves a call, and a receipt becomes
\* uncertain or stays as it is.
LEMMA BystanderInv ==
    ASSUME ReceiptsInv, NEW w \in Workers,
           SuspendOnEffect(w) \/ \E rc \in Receipts : MeetUnsettled(w, rc)
    PROVE  ReceiptsInv'
  <1>1. PICK R : receipts \in ReceiptTable(R)
    BY DEF ReceiptsInv, ReceiptsShape
  <1>2. /\ calls[w].pc \in {"none", "suspend"}
        /\ \E call \in Call : /\ call.pc \in {"none", "suspend"}
                              /\ call.pc # "none" => call.rc \in Receipts
                              /\ calls' = [calls EXCEPT ![w] = call]
        /\ sent' = sent /\ denied' = denied
    <2>1. CASE SuspendOnEffect(w)
      <3>1. NoCall \in Call /\ NoCall.pc = "none"
        BY DEF Call, NoCall
      <3> QED  BY <2>1, <3>1 DEF SuspendOnEffect, InCall, EndCall
    <2>2. ASSUME NEW rc \in Receipts, MeetUnsettled(w, rc)
          PROVE  /\ calls[w].pc = "none" /\ sent' = sent /\ denied' = denied
                 /\ \E call \in Call : /\ call.pc = "suspend" /\ call.rc \in Receipts
                                       /\ calls' = [calls EXCEPT ![w] = call]
      <3> DEFINE suspend == [pc |-> "suspend", rc |-> rc]
      <3>1. suspend \in Call /\ suspend.pc = "suspend" /\ suspend.rc \in Receipts
        BY DEF Call
      <3>2. calls' = [calls EXCEPT ![w] = suspend]
        BY <2>2 DEF MeetUnsettled, EnterCall
      <3> HIDE DEF suspend
      <3> QED  BY <2>2, <3>1, <3>2 DEF MeetUnsettled, InCall
    <2> QED  BY <2>1, <2>2
  <1>3. PICK call \in Call : /\ call.pc \in {"none", "suspend"}
                             /\ call.pc # "none" => call.rc \in Receipts
                             /\ calls' = [calls EXCEPT ![w] = call]
    BY <1>2
  <1>4. /\ receipts' \in ReceiptTable(R)
        /\ \A rc \in Receipts : receipts'[rc].status \in {"absent", "prepared"} =>
             Status(rc) \in {"absent", "prepared"}
    <2>1. CASE receipts' = receipts
      BY <1>1, <2>1 DEF Status
    <2>2. ASSUME NEW rc \in Receipts, MeetUnsettled(w, rc)
          PROVE  /\ receipts' \in ReceiptTable(R)
                 /\ \A other \in Receipts :
                      receipts'[other].status \in {"absent", "prepared"} =>
                        Status(other) \in {"absent", "prepared"}
      <3>1. receipts' = [receipts EXCEPT ![rc].status = "uncertain"]
        BY <2>2 DEF MeetUnsettled, SetReceipt
      <3>2. receipts' \in ReceiptTable(R)
        BY <1>1, <3>1 DEF ReceiptTable, ReceiptStates
      <3>3. receipts'[rc].status = "uncertain"
        BY <1>1, <3>1 DEF ReceiptTable
      <3>4. \A other \in Receipts \ {rc} : receipts'[other] = receipts[other]
        BY <1>1, <3>1 DEF ReceiptTable
      <3> QED  BY <3>2, <3>3, <3>4 DEF Status
    <2> QED  BY <2>1, <2>2 DEF SuspendOnEffect
  <1>5. ReceiptsShape'
    BY <1>2, <1>3, <1>4 DEF ReceiptsInv, ReceiptsShape
  <1>6. ASSUME NEW rc \in Receipts \ denied  PROVE SendingSettled(rc)'
    <2>1. SendingSettled(rc)
      BY DEF ReceiptsInv
    <2>2. Holding(rc)' = Holding(rc) /\ \A v \in Holding(rc) : calls'[v] = calls[v]
      BY <1>2, <1>3 DEF Holding, ReceiptsInv, ReceiptsShape
    <2> QED  BY <1>2, <1>4, <2>1, <2>2 DEF SendingSettled, Status
  <1> QED  BY <1>2, <1>5, <1>6 DEF ReceiptsInv

\* The user settles an uncertain receipt; one that may be claimed again is denied.
LEMMA ResolveInv ==
    ASSUME ReceiptsInv, NEW rc \in Receipts, NEW applied \in BOOLEAN,
           ResolveEffect(rc, applied)
    PROVE  ReceiptsInv'
  <1>1. PICK R : receipts \in ReceiptTable(R)
    BY DEF ReceiptsInv, ReceiptsShape
  <1>2. /\ receipts' = [receipts EXCEPT ![rc].status = Decided(applied)]
        /\ denied' = IF applied THEN denied ELSE denied \cup {rc}
        /\ calls' = calls /\ sent' = sent
    BY DEF ResolveEffect, SetReceipt
  <1>3. /\ Decided(applied) \in ReceiptStates
        /\ applied => Decided(applied) = "completed"
    BY DEF Decided, ReceiptStates
  <1>4. /\ receipts' \in ReceiptTable(R)
        /\ receipts'[rc].status = Decided(applied)
        /\ \A other \in Receipts \ {rc} : receipts'[other] = receipts[other]
    <2> DEFINE status == Decided(applied)
    <2> HIDE DEF status
    <2>1. status \in ReceiptStates /\ receipts' = [receipts EXCEPT ![rc].status = status]
      BY <1>2, <1>3 DEF status
    <2>2. /\ receipts' \in ReceiptTable(R) /\ receipts'[rc].status = status
          /\ \A other \in Receipts \ {rc} : receipts'[other] = receipts[other]
      BY <1>1, <2>1 DEF ReceiptTable
    <2> QED  BY <2>2 DEF status
  <1>5. denied \subseteq denied' /\ denied' \in SUBSET Receipts
    BY <1>2 DEF ReceiptsInv, ReceiptsShape
  <1>6. ReceiptsShape'
    BY <1>2, <1>4, <1>5 DEF ReceiptsInv, ReceiptsShape
  <1>7. ASSUME NEW other \in Receipts \ denied'  PROVE SendingSettled(other)'
    <2>1. SendingSettled(other)
      BY <1>5 DEF ReceiptsInv
    <2>2. Holding(other)' = Holding(other)
      BY <1>2 DEF Holding
    <2>3. CASE other = rc
      <3>1. receipts'[rc].status = "completed"
        BY <1>2, <1>3, <1>4, <2>3
      <3> QED  BY <1>2, <2>1, <2>2, <2>3, <3>1 DEF SendingSettled, Status
    <2>4. CASE other # rc
      BY <1>2, <1>4, <2>1, <2>2, <2>4 DEF SendingSettled, Status
    <2> QED  BY <2>3, <2>4
  <1> QED  BY <1>6, <1>7 DEF ReceiptsInv

\* The calls die with the process; the receipts and what was sent stay.
LEMMA CrashInv ==
    ASSUME ReceiptsInv, CrashInCall
    PROVE  ReceiptsInv'
  <1>1. /\ calls' = [w \in Workers |-> NoCall]
        /\ receipts' = receipts /\ sent' = sent /\ denied' = denied
    BY DEF CrashInCall
  <1>2. NoCall \in Call /\ NoCall.pc = "none"
    BY DEF Call, NoCall
  <1>3. ReceiptsShape'
    BY <1>1, <1>2 DEF ReceiptsInv, ReceiptsShape
  <1>4. \A rc \in Receipts : Holding(rc)' = {}
    BY <1>1, <1>2 DEF Holding
  <1>5. ASSUME NEW rc \in Receipts \ denied  PROVE SendingSettled(rc)'
    BY <1>1, <1>4 DEF ReceiptsInv, SendingSettled, Status
  <1> QED  BY <1>1, <1>3, <1>5 DEF ReceiptsInv

\* Steps that leave receipts, calls and effects alone.
LEMMA QuietInv ==
    ASSUME ReceiptsInv, UNCHANGED <<receipts, calls, sent, denied>>
    PROVE  ReceiptsInv'
  BY DEF ReceiptsInv, ReceiptsShape, SendingSettled, Holding, Status

\* Every step keeps the invariant.
LEMMA ReceiptsInvNext ==
    ASSUME ReceiptsInv, [EffectNext]_allVars
    PROVE  ReceiptsInv'
  <1>1. CASE UNCHANGED <<receipts, calls, sent, denied>>
    BY <1>1, QuietInv
  <1>2. ASSUME NEW w \in Workers, EffectStep(w)  PROVE ReceiptsInv'
    BY <1>2, ClaimInv, BystanderInv, SendInv, ReleaseInv, LeaveInv DEF EffectStep
  <1>3. ASSUME NEW rc \in Receipts, NEW applied \in BOOLEAN, ResolveEffect(rc, applied)
        PROVE  ReceiptsInv'
    BY <1>3, ResolveInv
  <1>4. CASE CrashInCall
    BY <1>4, CrashInv
  <1> QED
    BY <1>1, <1>2, <1>3, <1>4 DEF EffectNext, OpenTurn, TurnReturns, allVars, effectVars

\* Nothing is claimed or sent at first.
LEMMA ReceiptsInvInit == EffectInit => ReceiptsInv
  <1> SUFFICES ASSUME EffectInit  PROVE ReceiptsInv
    OBVIOUS
  <1> USE DEF EffectInit
  <1>1. NoCall \in Call /\ NoCall.pc = "none"
    BY DEF Call, NoCall
  <1>2. NoReceipt \in [status : ReceiptStates, rev : {0}]
    BY DEF NoReceipt, ReceiptStates
  <1>3. receipts \in ReceiptTable({0})
    BY <1>2 DEF ReceiptTable
  <1>4. ReceiptsShape
    BY <1>1, <1>3 DEF ReceiptsShape
  <1>5. \A rc \in Receipts : sent[rc] = 0 /\ Holding(rc) = {}
    BY <1>1 DEF Holding
  <1> QED  BY <1>4, <1>5 DEF ReceiptsInv, SendingSettled

\* Whatever is reachable, receipts and calls agree on what was sent.
THEOREM ReceiptsStaySettled == EffectSpec => []ReceiptsInv
  BY ReceiptsInvInit, ReceiptsInvNext, PTL DEF EffectSpec

\* The receipt of an effect that was sent never permits to send it again, unless
\* the user declared that it was not applied (resolve_effect_receipt).
THEOREM SentEffectsAreRecorded == EffectSpec => []SentIsRecorded
  <1>1. ReceiptsInv => SentIsRecorded
    <2> SUFFICES ASSUME ReceiptsInv, NEW rc \in Receipts, rc \notin denied, sent[rc] > 0
                 PROVE  Status(rc) \in {"started", "uncertain", "completed"}
      BY DEF SentIsRecorded
    <2>1. sent[rc] # 0
      BY DEF ReceiptsInv, ReceiptsShape
    <2>2. Status(rc) \notin {"absent", "prepared"}
      BY <2>1 DEF ReceiptsInv, SendingSettled
    <2>3. Status(rc) \in ReceiptStates
      BY DEF ReceiptsInv, ReceiptsShape, ReceiptTable, Status
    <2> QED  BY <2>2, <2>3 DEF ReceiptStates
  <1> QED  BY <1>1, ReceiptsStaySettled, PTL

-------------------------------------------------------------------------------
(* The runtime underneath *)

\* A turn that suspends on a receipt returns like any adapter.
LEMMA SuspensionIsReturn ==
    ASSUME ReceiptsInv, NEW w \in Workers, SuspendOnEffect(w)
    PROVE  AdapterReturns(w)
  <1>1. workers[w].pc = "run" /\ calls[w].rc \in Receipts
    BY DEF SuspendOnEffect, InCall, ReceiptsInv, ReceiptsShape
  <1>2. Receipts \subseteq Conditions
    BY EffectAssumption, RuntimeAssumption
  <1>3. ASSUME NEW c \in {calls[w].rc} \cup ParkedOn, workers[w].rev < MaxRevision
        PROVE  \E o \in AdapterOutcomes(workers[w].rev) :
                 Normalized(w, o) = OutcomeOf("suspended", c, Own)
    <2> DEFINE o == OutcomeOf("suspended", c, Own)
    <2>1. c \in Conditions
      BY <1>1, <1>2 DEF ParkedOn
    <2>2. o \in AdapterOutcomes(workers[w].rev)
      BY <1>3, <2>1 DEF AdapterOutcomes
    <2>3. o.body # Retry
      BY RuntimeAssumption DEF OutcomeOf
    <2>4. Normalized(w, o) = o
      BY <2>3 DEF Normalized
    <2> QED  BY <2>2, <2>4
  <1>4. CASE Task(w).status = "cancelled"
    BY <1>1, <1>4 DEF SuspendOnEffect, AdapterReturns
  <1>5. CASE Task(w).status # "cancelled" /\ ~LeaseOurs(w)
    BY <1>1, <1>5 DEF SuspendOnEffect, AdapterReturns
  <1>6. CASE Task(w).status # "cancelled" /\ LeaseOurs(w)
    <2>1. PICK c \in {calls[w].rc} \cup ParkedOn :
            /\ workers[w].rev < MaxRevision
            /\ workers' = [workers EXCEPT ![w].pc = "commit",
                                          ![w].result = OutcomeOf("suspended", c, Own)]
      BY <1>6 DEF SuspendOnEffect
    <2>2. PICK o \in AdapterOutcomes(workers[w].rev) :
            Normalized(w, o) = OutcomeOf("suspended", c, Own)
      BY <1>3, <2>1
    <2>3. \E q \in AdapterOutcomes(workers[w].rev) :
            workers' = [workers EXCEPT ![w].pc = "commit", ![w].result = Normalized(w, q)]
      BY <2>1, <2>2
    <2> QED  BY <1>1, <1>6, <2>3 DEF SuspendOnEffect, AdapterReturns
  <1> QED  BY <1>4, <1>5, <1>6

\* The user's decision reaches the runtime as the signal its turn waits for, or
\* not at all.
LEMMA DecisionIsSignal ==
    ASSUME RuntimeInv, NEW rc \in Receipts, NEW applied \in BOOLEAN,
           ResolveEffect(rc, applied)
    PROVE  UNCHANGED runtimeVars \/ (rc \in Conditions /\ DeliverSignal(rc))
  <1> DEFINE D == {v \in Pending : v.condition = rc}
             x == ExecutionOf[rc]
  <1>1. rc \in Conditions \ Timers /\ x \in Executions
    BY EffectAssumption, RuntimeAssumption
  <1>2. CASE D = {}
    BY <1>2 DEF ResolveEffect, runtimeVars, journalVars
  <1>3. CASE D # {}
    <2>1. /\ \A v \in D : v.exec = x
          /\ \E p \in Payloads : DeliverExecutionWake(rc, p)
          /\ tasks' = [tasks EXCEPT ![x] = Become(tasks[x], "queued")]
      BY <1>3 DEF ResolveEffect
    <2>2. tasks' = [y \in Executions |-> IF \E v \in D : v.exec = y
                                         THEN Become(tasks[y], "queued") ELSE tasks[y]]
      <3>1. \A y \in Executions : (\E v \in D : v.exec = y) <=> y = x
        BY <1>3, <2>1
      <3>2. tasks \in [Executions -> RowState]
        BY DEF RuntimeInv, RowsTyped
      <3> HIDE DEF D
      <3> QED  BY <1>1, <2>1, <3>1, <3>2
    <2> QED  BY <1>1, <2>1, <2>2 DEF ResolveEffect, DeliverSignal
  <1> QED  BY <1>2, <1>3

\* Every step of a turn with effects is a step of the runtime, or leaves it alone.
LEMMA EffectStepRefines ==
    ASSUME RuntimeInv, ReceiptsInv, [EffectNext]_allVars
    PROVE  [RuntimeNext]_runtimeVars
  <1>1. ASSUME NEW w \in Workers, OpenTurn(w) \/ TurnReturns(w)  PROVE RuntimeNext
    BY <1>1 DEF OpenTurn, TurnReturns, RuntimeNext, WorkerStep
  <1>2. ASSUME NEW w \in Workers, EffectStep(w)  PROVE [RuntimeNext]_runtimeVars
    <2>1. CASE SuspendOnEffect(w)
      BY <2>1, SuspensionIsReturn DEF RuntimeNext, WorkerStep
    <2>2. CASE UNCHANGED runtimeVars
      BY <2>2
    <2> QED
      BY <1>2, <2>1, <2>2
      DEF EffectStep, ClaimEffect, MeetUnsettled, SendEffect, ReleaseEffect, CompleteEffect,
          LoseAnswer, AbandonEffect
  <1>3. ASSUME NEW w \in Workers, TurnStep(w)  PROVE RuntimeNext
    BY <1>3 DEF TurnStep, RuntimeNext, WorkerStep
  <1>4. ASSUME NEW x \in Executions, Surroundings(x)  PROVE RuntimeNext
    BY <1>4 DEF Surroundings, RuntimeNext
  <1>5. ASSUME NEW rc \in Receipts, NEW applied \in BOOLEAN, ResolveEffect(rc, applied)
        PROVE  [RuntimeNext]_runtimeVars
    BY <1>5, DecisionIsSignal DEF RuntimeNext
  <1>6. CASE CrashInCall \/ RestartGateway
    BY <1>6 DEF CrashInCall, RuntimeNext
  <1>7. CASE UNCHANGED allVars
    BY <1>7 DEF allVars
  <1> QED  BY <1>1, <1>2, <1>3, <1>4, <1>5, <1>6, <1>7 DEF EffectNext

\* The runtime's invariant holds of turns with effects.
LEMMA RuntimeHolds == EffectSpec => [](RuntimeInv /\ ReceiptsInv)
  <1>1. EffectInit => RuntimeInv /\ ReceiptsInv
    BY ReceiptsInvInit, RuntimeInvInit DEF EffectInit
  <1>2. ASSUME RuntimeInv, ReceiptsInv, [EffectNext]_allVars
        PROVE  RuntimeInv' /\ ReceiptsInv'
    BY <1>2, ReceiptsInvNext, EffectStepRefines, RuntimeInvNext
  <1> QED  BY <1>1, <1>2, PTL DEF EffectSpec

\* Receipts only add to the protocol of the runtime: whatever calls, settlements
\* and decisions do to a turn, its rows, workers and journal go through steps of
\* the runtime, so that what is proved of the runtime holds.
THEOREM EffectsUseTheRuntime == EffectSpec => RunsUnderTheRuntime
  <1>1. EffectInit => RuntimeInit
    BY DEF EffectInit
  <1>2. ASSUME RuntimeInv /\ ReceiptsInv, [EffectNext]_allVars  PROVE [RuntimeNext]_runtimeVars
    BY <1>2, EffectStepRefines
  <1> QED  BY <1>1, <1>2, RuntimeHolds, PTL DEF EffectSpec, RuntimeSpec, RunsUnderTheRuntime

\* From the abstract contract down to a turn with effects: outcomes are sealed once
\* and in order (execution_store.rs), by the attempt that the journal names, and a
\* turn whose cancellation went through is given no other (execution_runtime.rs).
THEOREM TurnsKeepTheContract ==
    EffectSpec => ImplementsContract /\ CommittedByAttempt /\ CancelledTurnNotAnswered
  <1>1. EffectSpec => RuntimeSpec
    BY EffectsUseTheRuntime DEF RunsUnderTheRuntime
  <1>2. RuntimeSpec => ImplementsContract
    BY RuntimeUsesTheJournal, JournalImplementsContract
  <1> QED  BY <1>1, <1>2, OutcomesAreCommittedByAttempts, CancelledTurnsAreNotAnswered

-------------------------------------------------------------------------------
(* Workers and their calls *)

CallsRun == \A w \in Workers : calls[w].pc # "none" => workers[w].pc = "run"

\* A worker stays where it is, or its call ends; it carries a receipt to the
\* commit only from a call that suspends on it.
WorkerAndCall(w) ==
    \/ workers'[w] = workers[w]
    \/ /\ calls'[w].pc = "none"
       /\ (workers'[w].pc = "commit" /\ workers'[w].result.wake \in Receipts) =>
            /\ calls[w].pc = "suspend" /\ calls[w].rc = workers'[w].result.wake
            /\ workers'[w].x = workers[w].x

\* A step of one worker leaves the others where they are.
LEMMA OthersStay ==
    ASSUME RuntimeInv, NEW v \in Workers, WorkerStep(v) \/ RunFails(v) \/ Heartbeat(v),
           NEW w \in Workers \ {v}
    PROVE  workers'[w] = workers[w]
  <1>1. workers \in [Workers -> WorkerState]
    BY DEF RuntimeInv, WorkersPlaced
  <1>2. CASE ReadClock(v) \/ PickStep(v) \/ AcquireTask(v) \/ AdapterReturns(v)
    BY <1>1, <1>2 DEF ReadClock, PickStep, PickTask, AcquireTask, AdapterReturns, Rest
  <1>3. CASE OpenExecution(v) \/ StartRun(v) \/ CommitResult(v)
    BY <1>1, <1>3 DEF OpenExecution, StartRun, CommitResult, Return, Fail, Goto
  <1>4. CASE \/ ReportRun(v) \/ SettleRun(v) \/ WriteRow(v) \/ CheckAfterError(v)
             \/ WriteFailure(v) \/ RunFails(v) \/ Heartbeat(v)
    BY <1>1, <1>4 DEF ReportRun, SettleRun, WriteRow, CheckAfterError, WriteFailure, RunFails,
                      Heartbeat, Rest, Goto
  <1> QED  BY <1>2, <1>3, <1>4 DEF WorkerStep

\* A worker in a call leaves it, and one comes to the commit, only by a return of
\* the adapter.
LEMMA CommitEntered ==
    ASSUME RuntimeInv, NEW w \in Workers, TurnStep(w) \/ OpenExecution(w)
    PROVE  \/ workers'[w] = workers[w]
           \/ workers[w].pc # "run" /\ workers'[w].pc # "commit"
  <1>1. workers[w].pc # "run" \/ UNCHANGED workers
    BY DEF TurnStep, ReadClock, PickStep, PickTask, AcquireTask, OpenExecution, StartRun,
           CommitResult, CheckAfterError, WriteFailure, RunFails, Heartbeat
  <1>2. RuntimeNext
    BY DEF RuntimeNext, WorkerStep, TurnStep
  <1>3. CASE workers[w].pc # "run"
    <2>1. ASSUME NEW new \in WorkerState, workers'[w] = new, Fits(w, new)
          PROVE  workers'[w].pc # "commit"
      BY <1>3, <2>1 DEF Fits
    <2> QED  BY <1>2, <1>3, <2>1, WorkerMoves
  <1> QED  BY <1>1, <1>3

\* Every step, on a worker and its call.
LEMMA WorkersAndCalls ==
    ASSUME RuntimeInv, ReceiptsInv, CallsRun, [EffectNext]_allVars, NEW w \in Workers
    PROVE  WorkerAndCall(w)
  <1>1. ASSUME NEW v \in Workers, v # w,
               OpenTurn(v) \/ TurnReturns(v) \/ EffectStep(v) \/ TurnStep(v)
        PROVE  workers'[w] = workers[w]
    <2>1. WorkerStep(v) \/ RunFails(v) \/ Heartbeat(v) \/ UNCHANGED workers
      BY <1>1, SuspensionIsReturn
      DEF OpenTurn, TurnReturns, TurnStep, WorkerStep, EffectStep, ClaimEffect, MeetUnsettled,
          SendEffect, ReleaseEffect, CompleteEffect, LoseAnswer, AbandonEffect, runtimeVars
    <2> QED  BY <1>1, <2>1, OthersStay
  <1>2. CASE OpenTurn(w) \/ (TurnStep(w) /\ UNCHANGED effectVars)
    <2>1. UNCHANGED calls
      BY <1>2 DEF OpenTurn, effectVars
    <2>2. OpenExecution(w) \/ TurnStep(w)
      BY <1>2 DEF OpenTurn
    <2> QED  BY <2>1, <2>2, CommitEntered DEF WorkerAndCall, CallsRun
  <1>3. CASE TurnReturns(w)
    BY <1>3 DEF TurnReturns, effectVars, WorkerAndCall
  <1>4. CASE SuspendOnEffect(w)
    <2>1. calls'[w].pc = "none" /\ calls[w].pc = "suspend" /\ calls[w].rc \in Receipts
      BY <1>4 DEF SuspendOnEffect, InCall, EndCall, NoCall, ReceiptsInv, ReceiptsShape
    <2>2. workers[w] \in WorkerState /\ workers \in [Workers -> WorkerState]
      BY DEF RuntimeInv, WorkersPlaced
    <2>3. CASE Rest(w)
      BY <2>1, <2>2, <2>3 DEF Rest, AtRest, WorkerAndCall
    <2>4. ASSUME NEW outcome,
                 workers' = [workers EXCEPT ![w].pc = "commit", ![w].result = outcome]
          PROVE  workers'[w].x = workers[w].x /\ workers'[w].result = outcome
      BY <2>2, <2>4 DEF WorkerState
    <2>5. \/ Rest(w)
          \/ \E outcome :
               /\ workers' = [workers EXCEPT ![w].pc = "commit", ![w].result = outcome]
               /\ outcome.wake \in Receipts => outcome.wake = calls[w].rc
      <3>1. CancelledByUser.wake \notin Receipts
        BY EffectAssumption, RuntimeAssumption, JournalAssumption
        DEF CancelledByUser, OutcomeOf
      <3>2. \A c \in {calls[w].rc} \cup ParkedOn :
              LET outcome == OutcomeOf("suspended", c, Own) IN
              outcome.wake \in Receipts => outcome.wake = calls[w].rc
        BY DEF OutcomeOf, ParkedOn
      <3> QED  BY <1>4, <3>1, <3>2 DEF SuspendOnEffect
    <2> QED  BY <2>1, <2>3, <2>4, <2>5 DEF WorkerAndCall
  <1>5. CASE UNCHANGED workers
    BY <1>5 DEF WorkerAndCall
  <1>6. CASE CrashInCall
    BY <1>6 DEF CrashInCall, CrashGateway, CrashInCancel, NoCall, AtRest, WorkerAndCall
  <1>7. ASSUME NEW v \in Workers, EffectStep(v)
        PROVE  SuspendOnEffect(v) \/ UNCHANGED workers
    BY <1>7 DEF EffectStep, ClaimEffect, MeetUnsettled, SendEffect, ReleaseEffect,
                CompleteEffect, LoseAnswer, AbandonEffect, runtimeVars
  <1>8. ASSUME \/ \E x \in Executions : Surroundings(x)
               \/ \E rc \in Receipts, applied \in BOOLEAN : ResolveEffect(rc, applied)
               \/ RestartGateway
        PROVE  UNCHANGED workers
    BY <1>8 DEF Surroundings, LeaseLapses, CancelChatTurn, CancelFails, ProjectTaskState,
                ResolveEffect, RestartGateway
  <1>9. CASE UNCHANGED allVars
    BY <1>9 DEF allVars, runtimeVars, WorkerAndCall
  <1>10. CASE \E v \in Workers : OpenTurn(v) \/ TurnReturns(v) \/ EffectStep(v)
    <2>1. PICK v \in Workers : OpenTurn(v) \/ TurnReturns(v) \/ EffectStep(v)
      BY <1>10
    <2>2. CASE v # w
      BY <1>1, <2>1, <2>2 DEF WorkerAndCall
    <2>3. CASE v = w
      BY <1>2, <1>3, <1>4, <1>5, <1>7, <2>1, <2>3
    <2> QED  BY <2>2, <2>3
  <1>11. CASE \E v \in Workers : TurnStep(v) /\ UNCHANGED effectVars
    <2>1. PICK v \in Workers : TurnStep(v) /\ UNCHANGED effectVars
      BY <1>11
    <2>2. CASE v # w
      BY <1>1, <2>1, <2>2 DEF WorkerAndCall
    <2>3. CASE v = w
      BY <1>2, <2>1, <2>3
    <2> QED  BY <2>2, <2>3
  <1> QED  BY <1>5, <1>6, <1>8, <1>9, <1>10, <1>11 DEF EffectNext

-------------------------------------------------------------------------------
(* Revisions of receipts and creators of executions *)

\* A receipt belongs to a revision that its execution has; it has none before it
\* is prepared.
RevisionsKnown ==
    /\ receipts \in ReceiptTable(0 .. MaxRevision)
    /\ \A rc \in Receipts :
         /\ receipts[rc].rev <= LatestRevision(ExecutionOf[rc])
         /\ Status(rc) = "absent" <=> receipts[rc].rev = 0

CreatorsKnown ==
    /\ creator \in [Executions -> Workers \cup {None}]
    /\ \A x \in Executions : Exists(x) <=> creator[x] # None

EffectInv == RuntimeInv /\ ReceiptsInv /\ RevisionsKnown /\ CreatorsKnown /\ CallsRun

\* An execution exists when it has a revision.
LengthTells ==
    \A x \in Executions :
        /\ LatestRevision(x) \in 0 .. MaxRevision
        /\ Exists(x) <=> LatestRevision(x) # 0
\* Existence in terms of lengths, which JournalGrows bounds.
LEMMA LengthTellsExistence == JournalConsistent => LengthTells
  <1> SUFFICES ASSUME JournalConsistent, NEW x \in Executions
               PROVE  /\ LatestRevision(x) \in 0 .. MaxRevision
                      /\ Exists(x) <=> LatestRevision(x) # 0
    BY DEF LengthTells
  <1>1. journal[x] \in Seq(Revision) /\ Len(journal[x]) <= MaxRevision
    BY DEF JournalConsistent, JournalTypeOK
  <1>2. Len(journal[x]) \in Nat /\ (journal[x] # <<>> <=> Len(journal[x]) # 0)
    BY <1>1, EmptySeq, LenProperties
  <1> QED  BY <1>1, <1>2, JournalAssumption DEF LatestRevision, Exists

\* An outcome or a settlement changes the status of one receipt that exists.
StatusMoves ==
    \E rc \in Receipts, status \in ReceiptStates \ {"absent"} :
        /\ Status(rc) # "absent"
        /\ receipts' = [receipts EXCEPT ![rc].status = status]

\* A settlement finds the receipt started or changes nothing.
LEMMA SettledMoves ==
    ASSUME NEW rc \in Receipts, NEW status \in ReceiptStates \ {"absent"},
           receipts' = Settled(rc, status)
    PROVE  UNCHANGED receipts \/ StatusMoves
  BY DEF Settled, StatusMoves

\* Every step, on the receipts.
LEMMA ReceiptsMove ==
    ASSUME ReceiptsInv, [EffectNext]_allVars
    PROVE  \/ UNCHANGED receipts
           \/ StatusMoves
           \/ \E w \in Workers, rc \in Receipts : ClaimEffect(w, rc)
  <1>0. /\ "prepared" \in ReceiptStates \ {"absent"} /\ "uncertain" \in ReceiptStates \ {"absent"}
        /\ "completed" \in ReceiptStates \ {"absent"}
    BY DEF ReceiptStates
  <1>1. ASSUME NEW w \in Workers,
               ReleaseEffect(w) \/ CompleteEffect(w) \/ LoseAnswer(w) \/ AbandonEffect(w)
        PROVE  UNCHANGED receipts \/ StatusMoves
    <2>1. PICK rc \in Receipts : rc = calls[w].rc
      BY <1>1 DEF ReleaseEffect, CompleteEffect, LoseAnswer, AbandonEffect, InCall,
                  ReceiptsInv, ReceiptsShape
    <2>2. \/ receipts' = Settled(rc, "prepared") \/ receipts' = Settled(rc, "completed")
          \/ receipts' = Settled(rc, "uncertain")
      BY <1>1, <2>1 DEF ReleaseEffect, CompleteEffect, LoseAnswer, AbandonEffect
    <2> QED  BY <1>0, <2>2, SettledMoves
  <1>2. ASSUME NEW w \in Workers, NEW rc \in Receipts, MeetUnsettled(w, rc)  PROVE StatusMoves
    BY <1>0, <1>2 DEF MeetUnsettled, SetReceipt, StatusMoves
  <1>3. ASSUME NEW rc \in Receipts, NEW applied \in BOOLEAN, ResolveEffect(rc, applied)
        PROVE  StatusMoves
    <2>1. Decided(applied) \in ReceiptStates \ {"absent"}
      BY <1>0 DEF Decided
    <2> QED  BY <1>3, <2>1 DEF ResolveEffect, SetReceipt, StatusMoves
  <1> QED
    BY <1>1, <1>2, <1>3
    DEF EffectNext, EffectStep, SendEffect, SuspendOnEffect, OpenTurn, TurnReturns, CrashInCall,
        allVars, effectVars

\* Only a claim gives a receipt its revision, and it is the latest of its
\* execution.
LEMMA RevisionsStayKnown ==
    ASSUME EffectInv, [EffectNext]_allVars
    PROVE  RevisionsKnown'
  <1>1. [JournalNext]_journalVars
    <2>1. [RuntimeNext]_runtimeVars
      BY EffectStepRefines DEF EffectInv
    <2> QED  BY <2>1, StepIsJournalStep DEF EffectInv, runtimeVars, journalVars
  <1>2. ASSUME NEW rc \in Receipts
        PROVE  /\ LatestRevision(ExecutionOf[rc]) <= LatestRevision(ExecutionOf[rc])'
               /\ LatestRevision(ExecutionOf[rc]) \in Nat
               /\ LatestRevision(ExecutionOf[rc])' \in Nat
    <2>1. ExecutionOf[rc] \in Executions
      BY EffectAssumption
    <2>2. LatestRevision(ExecutionOf[rc])' \in 0 .. MaxRevision
      BY <1>1, <2>1, JournalGrows DEF EffectInv
    <2> QED  BY <1>1, <2>1, <2>2, JournalGrows DEF EffectInv
  <1>3. receipts \in ReceiptTable(0 .. MaxRevision)
    BY DEF EffectInv, RevisionsKnown
  <1>4. CASE UNCHANGED receipts
    BY <1>2, <1>3, <1>4 DEF EffectInv, RevisionsKnown, ReceiptTable, Status
  <1>5. CASE StatusMoves
    <2>1. PICK rc \in Receipts, status \in ReceiptStates \ {"absent"} :
            /\ Status(rc) # "absent"
            /\ receipts' = [receipts EXCEPT ![rc].status = status]
      BY <1>5 DEF StatusMoves
    <2>2. receipts' \in ReceiptTable(0 .. MaxRevision)
      BY <1>3, <2>1 DEF ReceiptTable
    <2>3. /\ \A other \in Receipts : receipts'[other].rev = receipts[other].rev
          /\ \A other \in Receipts : receipts'[other].status = "absent" <=> Status(other) = "absent"
      BY <1>3, <2>1 DEF ReceiptTable, Status
    <2>4. \A other \in Receipts : receipts[other].rev \in Nat
      BY <1>3 DEF ReceiptTable
    <2> QED  BY <1>2, <2>2, <2>3, <2>4 DEF EffectInv, RevisionsKnown, Status
  <1>6. ASSUME NEW w \in Workers, NEW rc \in Receipts, ClaimEffect(w, rc)
        PROVE  RevisionsKnown'
    <2> DEFINE row == [status |-> "started", rev |-> workers[w].rev]
    <2>1. /\ workers[w].pc = "run" /\ ExecutionOf[rc] = workers[w].x
          /\ receipts' = [receipts EXCEPT ![rc] = row]
      BY <1>6 DEF ClaimEffect, InCall
    <2>2. workers[w].rev \in 1 .. LatestRevision(ExecutionOf[rc]) /\ workers[w].rev \in 0 .. MaxRevision
      BY <2>1, WorkerFacts DEF EffectInv, Placed, WorkerState, LatestRevision
    <2>3. row \in [status : ReceiptStates, rev : 0 .. MaxRevision]
      BY <2>2 DEF ReceiptStates
    <2>4. row.status = "started" /\ row.rev = workers[w].rev
      OBVIOUS
    <2> HIDE DEF row
    <2>5. receipts' \in ReceiptTable(0 .. MaxRevision) /\ receipts'[rc] = row
      BY <1>3, <2>1, <2>3 DEF ReceiptTable
    <2>6. \A other \in Receipts \ {rc} : receipts'[other] = receipts[other]
      BY <1>3, <2>1 DEF ReceiptTable
    <2>7. \A other \in Receipts : receipts[other].rev \in Nat
      BY <1>3 DEF ReceiptTable
    <2>8. ASSUME NEW other \in Receipts
          PROVE  /\ receipts'[other].rev <= LatestRevision(ExecutionOf[other])'
                 /\ receipts'[other].status = "absent" <=> receipts'[other].rev = 0
      <3>1. CASE other = rc
        BY <1>2, <2>2, <2>4, <2>5, <3>1
      <3>2. CASE other # rc
        BY <1>2, <2>6, <2>7, <3>2 DEF EffectInv, RevisionsKnown, Status
      <3> QED  BY <3>1, <3>2
    <2> QED  BY <2>5, <2>8 DEF RevisionsKnown, Status
  <1> QED  BY <1>4, <1>5, <1>6, ReceiptsMove DEF EffectInv

\* Only the opening of a turn creates an execution.
LEMMA NobodyElseCreates ==
    ASSUME EffectInv, [EffectNext]_allVars, NEW x \in Executions, ~Exists(x),
           ~\E w \in Workers : OpenTurn(w)
    PROVE  journal'[x] = journal[x]
  <1>0. journal \in [Executions -> Seq(Revision)] /\ JournalConsistent
    BY DEF EffectInv, RuntimeInv, JournalConsistent, JournalTypeOK
  <1>1. ASSUME NEW y \in Executions, NEW rv, Exists(y), journal' = WithLatest(y, rv)
        PROVE  journal'[x] = journal[x]
    BY <1>0, <1>1 DEF WithLatest
  <1>2. ASSUME NEW D, NEW p, DeliverWakes(D, p)  PROVE journal'[x] = journal[x]
    BY <1>2 DEF DeliverWakes, Deliverable
  <1>3. ASSUME NEW w \in Workers, TurnStep(w)  PROVE journal'[x] = journal[x]
    <2>1. CASE StartRun(w)
      <3>1. workers[w].x \in Executions
        BY <2>1, WorkerFacts DEF EffectInv, StartRun
      <3> QED
        BY <1>1, <2>1, <3>1 DEF StartRun, StartExecutionAttempt, MayStartAttempt, journalVars
    <2>2. CASE CommitResult(w)
      <3>1. workers[w].x \in Executions
        BY <2>2, WorkerFacts DEF EffectInv, CommitResult
      <3> QED
        BY <1>1, <2>2, <3>1 DEF CommitResult, CommitExecutionOutcome, MayCommit, Committed,
                                journalVars
    <2>3. CASE PickStep(w)
      BY <1>2, <2>3 DEF PickStep, PickTask, WakeDueExecutions, journalVars
    <2> QED
      BY <1>3, <2>1, <2>2, <2>3
      DEF TurnStep, ReadClock, AcquireTask, CheckAfterError, WriteFailure, RunFails, Heartbeat,
          journalVars
  <1>4. ASSUME NEW y \in Executions, Surroundings(y)  PROVE journal'[x] = journal[x]
    BY <1>1, <1>4 DEF Surroundings, LeaseLapses, CancelChatTurn, CancelFails, CancelCutShort,
                      DiscardPendingWakes, ProjectTaskState, Committed, journalVars
  <1>5. ASSUME NEW rc \in Receipts, NEW applied \in BOOLEAN, ResolveEffect(rc, applied)
        PROVE  journal'[x] = journal[x]
    BY <1>2, <1>5 DEF ResolveEffect, DeliverExecutionWake, journalVars
  <1>6. ASSUME NEW w \in Workers, TurnReturns(w) \/ EffectStep(w)
        PROVE  journal'[x] = journal[x]
    BY <1>6 DEF TurnReturns, AdapterReturns, EffectStep, ClaimEffect, MeetUnsettled, SendEffect,
                ReleaseEffect, CompleteEffect, LoseAnswer, AbandonEffect, SuspendOnEffect,
                runtimeVars, journalVars
  <1> QED
    BY <1>3, <1>4, <1>5, <1>6
    DEF EffectNext, CrashInCall, CrashGateway, CrashInCancel, CancelCutShort, RestartGateway,
        DiscardPendingWakes, allVars, runtimeVars, journalVars

\* The turn that creates an execution is recorded with it, and only once.
LEMMA CreatorsStayKnown ==
    ASSUME EffectInv, [EffectNext]_allVars
    PROVE  CreatorsKnown'
  <1>0. /\ creator \in [Executions -> Workers \cup {None}]
        /\ \A x \in Executions : Exists(x) <=> creator[x] # None
        /\ None \notin Workers
    BY JournalAssumption DEF EffectInv, CreatorsKnown, Workers
  <1>1. [JournalNext]_journalVars
    <2>1. [RuntimeNext]_runtimeVars
      BY EffectStepRefines DEF EffectInv
    <2> QED  BY <2>1, StepIsJournalStep DEF EffectInv, runtimeVars, journalVars
  <1>2. ASSUME NEW x \in Executions, Exists(x)  PROVE Exists(x)'
    <2>1. JournalConsistent /\ JournalConsistent'
      BY <1>1, <1>2, JournalGrows DEF EffectInv, RuntimeInv
    <2>2. LengthTells /\ LengthTells'
      BY <2>1, LengthTellsExistence, PTL
    <2>3. LatestRevision(x) <= LatestRevision(x)'
      BY <1>1, <1>2, JournalGrows DEF EffectInv
    <2>4. LatestRevision(x) \in Nat /\ LatestRevision(x) # 0 /\ LatestRevision(x)' \in Nat
      BY <1>2, <2>2, JournalAssumption DEF LengthTells
    <2> QED  BY <2>2, <2>3, <2>4 DEF LengthTells
  <1>3. CASE ~\E w \in Workers : OpenTurn(w)
    <2>1. creator' = creator
      BY <1>3 DEF EffectNext, TurnReturns, EffectStep, ClaimEffect, MeetUnsettled, SendEffect,
                  ReleaseEffect, CompleteEffect, LoseAnswer, AbandonEffect, SuspendOnEffect,
                  ResolveEffect, CrashInCall, allVars, effectVars
    <2>2. \A x \in Executions : ~Exists(x) => ~Exists(x)'
      BY <1>3, NobodyElseCreates DEF Exists
    <2> QED  BY <1>0, <1>2, <2>1, <2>2 DEF CreatorsKnown
  <1>4. ASSUME NEW w \in Workers, OpenTurn(w)  PROVE CreatorsKnown'
    <2>1. PICK x \in Executions : x = workers[w].x
      BY <1>4, WorkerFacts DEF EffectInv, OpenTurn, OpenExecution
    <2>2. creator' = IF Exists(x) THEN creator ELSE [creator EXCEPT ![x] = w]
      BY <1>4, <2>1 DEF OpenTurn
    <2>3. journal \in [Executions -> Seq(Revision)]
      BY DEF EffectInv, RuntimeInv, JournalConsistent, JournalTypeOK
    <2>4. \A y \in Executions \ {x} : journal'[y] = journal[y]
      BY <1>4, <2>1, <2>3
      DEF OpenTurn, OpenExecution, ReclaimExecutionAttempt, AdvanceExecutionFence,
          CreateExecution, WithLatest, journalVars
    <2>5. CASE Exists(x)
      BY <1>0, <1>2, <2>2, <2>4, <2>5 DEF CreatorsKnown, Exists
    <2>6. CASE ~Exists(x)
      <3>1. CreateExecution(x, workers[w].now)
        BY <1>4, <2>1, <2>6 DEF OpenTurn, OpenExecution
      <3>2. journal'[x] = <<FreshRevision(workers[w].now)>>
        BY <2>3, <3>1 DEF CreateExecution
      <3>3. Exists(x)'
        BY <3>2 DEF Exists
      <3>4. creator' = [creator EXCEPT ![x] = w]
        BY <2>2, <2>6
      <3> QED  BY <1>0, <2>4, <3>3, <3>4 DEF CreatorsKnown, Exists
    <2> QED  BY <2>5, <2>6
  <1> QED  BY <1>3, <1>4

\* A worker that leaves its run has left its call.
LEMMA CallsStayRunning ==
    ASSUME EffectInv, [EffectNext]_allVars
    PROVE  CallsRun'
  <1> SUFFICES ASSUME NEW w \in Workers, calls'[w].pc # "none"  PROVE workers'[w].pc = "run"
    BY DEF CallsRun
  <1>1. workers'[w] = workers[w]
    BY WorkersAndCalls DEF EffectInv, WorkerAndCall
  <1>2. calls'[w] = calls[w] \/ workers[w].pc = "run"
    <2>1. ASSUME NEW v \in Workers, EffectStep(v), v # w  PROVE calls'[w] = calls[w]
      BY <2>1 DEF EffectInv, ReceiptsInv, ReceiptsShape, EffectStep, ClaimEffect, MeetUnsettled,
                  SendEffect, ReleaseEffect, CompleteEffect, LoseAnswer, AbandonEffect,
                  SuspendOnEffect, EnterCall, EndCall
    <2>2. CASE EffectStep(w)
      BY <2>2 DEF EffectStep, ClaimEffect, MeetUnsettled, SendEffect, ReleaseEffect,
                  CompleteEffect, LoseAnswer, AbandonEffect, SuspendOnEffect, InCall
    <2>3. CASE UNCHANGED calls
      BY <2>3
    <2>4. ~CrashInCall
      BY DEF CrashInCall, NoCall
    <2> QED
      BY <2>1, <2>2, <2>3, <2>4
      DEF EffectNext, OpenTurn, TurnReturns, ResolveEffect, allVars, effectVars
  <1> QED  BY <1>1, <1>2 DEF EffectInv, CallsRun

\* Every step keeps the invariant of the records.
LEMMA EffectInvNext ==
    ASSUME EffectInv, [EffectNext]_allVars
    PROVE  EffectInv'
  <1>1. RuntimeInv' /\ ReceiptsInv'
    BY ReceiptsInvNext, EffectStepRefines, RuntimeInvNext DEF EffectInv
  <1> QED  BY <1>1, RevisionsStayKnown, CreatorsStayKnown, CallsStayRunning DEF EffectInv

\* At first there are no receipts, executions or calls.
LEMMA EffectInvInit == EffectInit => EffectInv
  <1> SUFFICES ASSUME EffectInit  PROVE EffectInv
    OBVIOUS
  <1>1. RuntimeInv /\ ReceiptsInv
    BY ReceiptsInvInit, RuntimeInvInit DEF EffectInit
  <1>2. \A x \in Executions : journal[x] = <<>> /\ LatestRevision(x) = 0
    <2>1. Len(<<>>) = 0
      BY EmptySeq
    <2> QED  BY <2>1 DEF EffectInit, RuntimeInit, JournalInit, LatestRevision
  <1>3. NoReceipt \in [status : ReceiptStates, rev : 0 .. MaxRevision]
        /\ NoReceipt.status = "absent" /\ NoReceipt.rev = 0
    BY JournalAssumption DEF NoReceipt, ReceiptStates
  <1>4. RevisionsKnown
    BY <1>2, <1>3, EffectAssumption DEF EffectInit, RevisionsKnown, ReceiptTable, Status
  <1>5. CreatorsKnown
    BY <1>2 DEF EffectInit, CreatorsKnown, Exists
  <1>6. CallsRun
    BY DEF EffectInit, CallsRun, NoCall
  <1> QED  BY <1>1, <1>4, <1>5, <1>6 DEF EffectInv

\* The records of the receipts, their revisions, the creators that lease_current
\* compares with and the calls of the workers keep their types and agree with the
\* journal (prepare_effect_receipt_on, prepare_and_claim_effect_receipt).
THEOREM EffectsKeepTheirTypes == EffectSpec => []EffectTypeOK
  <1>1. EffectInv => RuntimeTypeOK
    BY DEF EffectInv, RuntimeInv, JournalConsistent, RowsTyped, RowTyped, RowState, Statuses,
           WorkersPlaced, WorkerState, RuntimeTypeOK
  <1>2. EffectInv => EffectTypeOK
    BY <1>1 DEF EffectInv, ReceiptsInv, ReceiptsShape, RevisionsKnown, CreatorsKnown, CallsRun,
                ReceiptTable, ReceiptStates, Call, EffectTypeOK
  <1> QED  BY <1>2, EffectInvInit, EffectInvNext, PTL DEF EffectSpec

-------------------------------------------------------------------------------
(* What waits for the user can be decided *)

\* The receipt belongs to the revision that is still running.
Live(rc) ==
    LET x == ExecutionOf[rc] IN
    Exists(x) /\ Unsealed(Latest(x)) /\ receipts[rc].rev = LatestRevision(x)

\* The workers that are to suspend their turn on rc.
SuspendingOn(rc) ==
    {w \in Workers : \/ calls[w].pc = "suspend" /\ calls[w].rc = rc
                     \/ workers[w].pc = "commit" /\ workers[w].result.wake = rc}

\* While the receipt is live, one worker at most can settle it, and one that is to
\* suspend on it has seen it uncertain, which only the decision changes.
DecidableWhileLive(rc) ==
    /\ SuspendingOn(rc) # {} => Status(rc) = "uncertain"
    /\ Holding(rc) # {} => Status(rc) \in {"started", "uncertain"}
    /\ \A v, w \in Holding(rc) : v = w

WaitsDecidable(rc) ==
    \A v \in Pending : v.condition = rc =>
        /\ v.exec = ExecutionOf[rc]
        /\ receipts[rc].rev = v.rev => Status(rc) = "uncertain"

Decidable(rc) ==
    /\ \A w \in Holding(rc) \cup SuspendingOn(rc) : workers[w].x = ExecutionOf[rc]
    /\ Status(rc) = "absent" => Holding(rc) = {} /\ SuspendingOn(rc) = {}
    /\ Live(rc) => DecidableWhileLive(rc)
    /\ WaitsDecidable(rc)

DecidableInv == EffectInv /\ \A rc \in Receipts : Decidable(rc)

\* A receipt whose revision is over does not become live again.
LEMMA LiveBefore ==
    ASSUME EffectInv, [EffectNext]_allVars, NEW rc \in Receipts,
           receipts'[rc].rev = receipts[rc].rev, Live(rc)'
    PROVE  Live(rc)
  <1> DEFINE x == ExecutionOf[rc]
  <1>1. [JournalNext]_journalVars
    <2>1. [RuntimeNext]_runtimeVars
      BY EffectStepRefines DEF EffectInv
    <2> QED  BY <2>1, StepIsJournalStep DEF EffectInv, runtimeVars, journalVars
  <1>2. x \in Executions
    BY EffectAssumption
  <1>3. /\ Exists(x)' /\ Unsealed(Latest(x))' /\ receipts[rc].rev = LatestRevision(x)'
        /\ receipts[rc].rev <= LatestRevision(x)
    BY DEF Live, EffectInv, RevisionsKnown
  <1>4. /\ JournalConsistent /\ JournalConsistent'
        /\ LatestRevision(x) \in Nat /\ LatestRevision(x)' \in 0 .. MaxRevision
        /\ LatestRevision(x) <= LatestRevision(x)'
        /\ SealedCount(x) <= SealedCount(x)'
    BY <1>1, <1>2, JournalGrows DEF EffectInv, RuntimeInv
  <1>5. LatestRevision(x)' = LatestRevision(x)
    BY <1>3, <1>4
  <1>6. LengthTells /\ LengthTells'
    BY <1>4, LengthTellsExistence, PTL
  <1>7. Exists(x)
    BY <1>2, <1>3, <1>5, <1>6 DEF LengthTells
  <1>8. SealedCount(x)' = LatestRevision(x)' - 1
    BY <1>2, <1>3 DEF SealedCount, OpenExecutions, LatestRevision
  <1>9. ~Unsealed(Latest(x)) => SealedCount(x) = LatestRevision(x)
    BY DEF SealedCount, OpenExecutions, LatestRevision
  <1>10. Unsealed(Latest(x))
    BY <1>4, <1>5, <1>8, <1>9
  <1> QED  BY <1>3, <1>5, <1>7, <1>10 DEF Live

\* A receipt that the step leaves alone, with no new call on it.
LEMMA DecidableKept ==
    ASSUME DecidableInv, [EffectNext]_allVars, NEW rc \in Receipts,
           receipts'[rc] = receipts[rc],
           \A w \in Workers : \/ calls'[w] = calls[w] \/ calls'[w].pc = "none"
                              \/ calls'[w].rc # rc
    PROVE  Decidable(rc)'
  <1>0. EffectInv /\ Decidable(rc)
    BY DEF DecidableInv
  <1>1. \A w \in Workers : WorkerAndCall(w)
    BY <1>0, WorkersAndCalls DEF EffectInv
  <1>2. Holding(rc)' \subseteq Holding(rc)
    BY DEF Holding
  <1>3. SuspendingOn(rc)' \subseteq SuspendingOn(rc)
    <2> SUFFICES ASSUME NEW w \in SuspendingOn(rc)'  PROVE w \in SuspendingOn(rc)
      OBVIOUS
    <2>1. w \in Workers
      BY DEF SuspendingOn
    <2>2. CASE calls'[w].pc = "suspend" /\ calls'[w].rc = rc
      BY <2>1, <2>2 DEF SuspendingOn
    <2>3. CASE workers'[w].pc = "commit" /\ workers'[w].result.wake = rc
      BY <1>1, <2>1, <2>3 DEF WorkerAndCall, SuspendingOn
    <2> QED  BY <2>2, <2>3 DEF SuspendingOn
  <1>4. \A w \in Holding(rc)' \cup SuspendingOn(rc)' : workers'[w].x = ExecutionOf[rc]
    <2> SUFFICES ASSUME NEW w \in Holding(rc)' \cup SuspendingOn(rc)'
                 PROVE  workers'[w].x = ExecutionOf[rc]
      OBVIOUS
    <2>1. workers[w].x = ExecutionOf[rc] /\ w \in Workers
      BY <1>0, <1>2, <1>3 DEF Decidable, Holding, SuspendingOn
    <2>2. workers'[w] = workers[w] \/ workers'[w].x = workers[w].x
      BY <1>1, <2>1 DEF WorkerAndCall, Holding, SuspendingOn
    <2> QED  BY <2>1, <2>2
  <1>5. Status(rc)' = Status(rc)
    BY DEF Status
  <1>6. Live(rc)' => DecidableWhileLive(rc)'
    <2> SUFFICES ASSUME Live(rc)'  PROVE DecidableWhileLive(rc)'
      OBVIOUS
    <2>1. Live(rc)
      BY <1>0, LiveBefore
    <2> QED  BY <1>0, <1>2, <1>3, <1>5, <2>1 DEF Decidable, DecidableWhileLive
  <1>7. WaitsDecidable(rc)'
    <2> SUFFICES ASSUME NEW v \in Pending', v.condition = rc
                 PROVE  /\ v.exec = ExecutionOf[rc]
                        /\ receipts[rc].rev = v.rev => Status(rc) = "uncertain"
      BY <1>5 DEF WaitsDecidable
    <2>1. CASE v \in Pending
      BY <1>0, <2>1 DEF Decidable, WaitsDecidable
    <2>2. CASE v \notin Pending
      <3>1. PendingMoves
        <4>1. CASE RuntimeNext
          BY <1>0, <4>1, StepMovesExecutions DEF EffectInv
        <4>2. CASE UNCHANGED runtimeVars
          BY <4>2 DEF PendingMoves, Pending, runtimeVars
        <4> QED  BY <1>0, <4>1, <4>2, EffectStepRefines DEF EffectInv
      <3>2. PICK w \in Workers :
              /\ workers[w].pc = "commit" /\ workers[w].x = v.exec
              /\ workers[w].result.wake = rc
              /\ v.rev = LatestRevision(v.exec)
              /\ Exists(v.exec) /\ Unsealed(Latest(v.exec))
        BY <2>2, <3>1 DEF PendingMoves
      <3>3. w \in SuspendingOn(rc)
        BY <3>2 DEF SuspendingOn
      <3>4. v.exec = ExecutionOf[rc]
        BY <1>0, <3>2, <3>3 DEF Decidable
      <3>5. ASSUME receipts[rc].rev = v.rev  PROVE Status(rc) = "uncertain"
        <4>1. Live(rc)
          BY <3>2, <3>4, <3>5 DEF Live
        <4> QED  BY <1>0, <3>3, <4>1 DEF Decidable, DecidableWhileLive
      <3> QED  BY <3>4, <3>5
    <2> QED  BY <2>1, <2>2
  <1> QED  BY <1>0, <1>2, <1>3, <1>4, <1>5, <1>6, <1>7 DEF Decidable

\* A revision that runs has no outcome.
LEMMA RunsUnsealed ==
    ASSUME EffectInv, NEW w \in Workers, NEW x \in Executions, workers[w].pc = "run",
           workers[w].x = x, LatestRevision(x) = workers[w].rev,
           Latest(x).state = "running"
    PROVE  Exists(x) /\ Unsealed(Latest(x))
  <1>1. workers[w].rev \in 1 .. Len(journal[x])
    BY WorkerFacts DEF EffectInv, Placed
  <1>2. Exists(x)
    BY <1>1, LengthTellsExistence DEF EffectInv, RuntimeInv, LengthTells
  <1> QED  BY <1>2, OpenFacts DEF EffectInv, RevisionConsistent, Unsealed, Revision,
              NoOutcome, Outcomes, PlainOutcomes, LinkedOutcomes, Suspended, Terminal,
              TerminalKinds

\* A claim is made while the turn runs, so nothing waits for its receipt.
LEMMA ClaimDecidable ==
    ASSUME DecidableInv, NEW w \in Workers, NEW rc \in Receipts, ClaimEffect(w, rc)
    PROVE  Decidable(rc)'
  <1> DEFINE x == ExecutionOf[rc]
             row == [status |-> "started", rev |-> workers[w].rev]
             call == [pc |-> "claimed", rc |-> rc]
  <1>0. EffectInv /\ Decidable(rc) /\ x \in Executions
    BY EffectAssumption DEF DecidableInv
  <1>1. /\ workers[w].pc = "run" /\ calls[w].pc = "none" /\ x = workers[w].x
        /\ LatestRevision(x) = workers[w].rev /\ Latest(x).state = "running"
        /\ receipts' = [receipts EXCEPT ![rc] = row]
        /\ calls' = [calls EXCEPT ![w] = call]
        /\ UNCHANGED runtimeVars
    BY DEF ClaimEffect, InCall, AttemptCurrent, EnterCall
  <1>2. Exists(x) /\ Unsealed(Latest(x))
    BY <1>0, <1>1, RunsUnsealed
  <1>3. Holding(rc) = {} /\ SuspendingOn(rc) = {}
    <2>1. CASE Status(rc) = "absent"
      BY <1>0, <2>1 DEF Decidable
    <2>2. CASE Status(rc) = "prepared" /\ receipts[rc].rev = workers[w].rev
      <3>1. Live(rc)
        BY <1>1, <1>2, <2>2 DEF Live
      <3> QED  BY <1>0, <2>2, <3>1 DEF Decidable, DecidableWhileLive
    <2> QED  BY <2>1, <2>2 DEF ClaimEffect, Executable
  <1>4. workers' = workers /\ Pending' = Pending
    BY <1>1 DEF runtimeVars, journalVars, Pending
  <1>5. call.pc = "claimed" /\ call.rc = rc /\ row.status = "started"
    OBVIOUS
  <1> HIDE DEF call, row
  <1>6. /\ calls'[w] = call /\ \A v \in Workers \ {w} : calls'[v] = calls[v]
        /\ Status(rc)' = "started"
    BY <1>0, <1>1, <1>5 DEF EffectInv, ReceiptsInv, ReceiptsShape, ReceiptTable, Status
  <1>7. Holding(rc)' = {w}
    BY <1>3, <1>5, <1>6 DEF Holding
  <1>8. SuspendingOn(rc)' = {}
    BY <1>1, <1>3, <1>4, <1>5, <1>6 DEF SuspendingOn
  <1>9. \A v \in Pending' : v.condition # rc
    <2> SUFFICES ASSUME NEW v \in Pending, v.condition = rc  PROVE FALSE
      BY <1>4
    <2>1. v.exec = x
      BY <1>0 DEF Decidable, WaitsDecidable
    <2> QED  BY <1>0, <1>2, <2>1, PendingAtLatest DEF EffectInv, RuntimeInv
  <1>10. DecidableWhileLive(rc)'
    BY <1>6, <1>7, <1>8 DEF DecidableWhileLive
  <1>11. WaitsDecidable(rc)'
    BY <1>9 DEF WaitsDecidable
  <1>12. \A v \in Holding(rc)' \cup SuspendingOn(rc)' : workers'[v].x = x
    BY <1>1, <1>4, <1>7, <1>8
  <1> QED  BY <1>6, <1>10, <1>11, <1>12 DEF Decidable

\* Within a call, the journal and the workers stand still.
LEMMA StillDecidable ==
    ASSUME DecidableInv, NEW rc \in Receipts, UNCHANGED runtimeVars,
           receipts'[rc].rev = receipts[rc].rev,
           NEW w \in Workers, workers[w].x = ExecutionOf[rc],
           Holding(rc)' \cup SuspendingOn(rc)' \subseteq
               Holding(rc) \cup SuspendingOn(rc) \cup {w},
           Status(rc)' # "absent",
           Status(rc) = "uncertain" => Status(rc)' = "uncertain",
           Live(rc) => DecidableWhileLive(rc)'
    PROVE  Decidable(rc)'
  <1>0. Decidable(rc)
    BY DEF DecidableInv
  <1>1. workers' = workers /\ Pending' = Pending /\ journal' = journal
    BY DEF runtimeVars, journalVars, Pending
  <1>2. Live(rc)' => Live(rc)
    BY <1>1 DEF Live, Exists, Latest, LatestRevision
  <1>3. WaitsDecidable(rc)'
    <2> SUFFICES ASSUME NEW v \in Pending', v.condition = rc
                 PROVE  /\ v.exec = ExecutionOf[rc]
                        /\ receipts[rc].rev = v.rev => Status(rc)' = "uncertain"
      BY DEF WaitsDecidable
    <2> QED  BY <1>0, <1>1 DEF Decidable, WaitsDecidable
  <1>4. \A v \in Holding(rc)' \cup SuspendingOn(rc)' : workers'[v].x = ExecutionOf[rc]
    BY <1>0, <1>1 DEF Decidable
  <1> QED  BY <1>2, <1>3, <1>4 DEF Decidable

\* A call that finds the receipt started or uncertain leaves it uncertain.
LEMMA MeetDecidable ==
    ASSUME DecidableInv, NEW w \in Workers, NEW rc \in Receipts, MeetUnsettled(w, rc)
    PROVE  Decidable(rc)'
  <1> DEFINE call == [pc |-> "suspend", rc |-> rc]
  <1>0. EffectInv /\ Decidable(rc)
    BY DEF DecidableInv
  <1>1. /\ workers[w].pc = "run" /\ calls[w].pc = "none" /\ ExecutionOf[rc] = workers[w].x
        /\ Status(rc) \in {"started", "uncertain"}
        /\ receipts' = [receipts EXCEPT ![rc].status = "uncertain"]
        /\ calls' = [calls EXCEPT ![w] = call]
        /\ UNCHANGED runtimeVars
    BY DEF MeetUnsettled, InCall, SetReceipt, EnterCall
  <1>2. call.pc = "suspend" /\ call.rc = rc
    OBVIOUS
  <1> HIDE DEF call
  <1>3. /\ calls'[w] = call /\ \A v \in Workers \ {w} : calls'[v] = calls[v]
        /\ Status(rc)' = "uncertain" /\ receipts'[rc].rev = receipts[rc].rev
    BY <1>0, <1>1 DEF EffectInv, ReceiptsInv, ReceiptsShape, RevisionsKnown, ReceiptTable, Status
  <1>4. workers' = workers
    BY <1>1 DEF runtimeVars
  <1>5. Holding(rc)' = Holding(rc)
    BY <1>1, <1>2, <1>3 DEF Holding
  <1>6. SuspendingOn(rc)' \subseteq SuspendingOn(rc) \cup {w}
    BY <1>3, <1>4 DEF SuspendingOn
  <1>7. Live(rc) => DecidableWhileLive(rc)'
    BY <1>0, <1>3, <1>5 DEF Decidable, DecidableWhileLive
  <1> QED  BY <1>1, <1>3, <1>5, <1>6, <1>7, StillDecidable

\* Sending changes neither the receipt nor who holds it.
LEMMA SendDecidable ==
    ASSUME DecidableInv, NEW w \in Workers, NEW rc \in Receipts, SendEffect(w), rc = calls[w].rc
    PROVE  Decidable(rc)'
  <1> DEFINE call == [pc |-> "sent", rc |-> rc]
  <1>0. EffectInv /\ Decidable(rc)
    BY DEF DecidableInv
  <1>1. /\ workers[w].pc = "run" /\ calls[w].pc = "claimed"
        /\ receipts' = receipts /\ calls' = [calls EXCEPT ![w] = call]
        /\ UNCHANGED runtimeVars
    BY DEF SendEffect, InCall, EnterCall
  <1>2. call.pc = "sent" /\ call.rc = rc
    OBVIOUS
  <1> HIDE DEF call
  <1>3. /\ calls'[w] = call /\ \A v \in Workers \ {w} : calls'[v] = calls[v]
        /\ Status(rc)' = Status(rc)
    BY <1>0, <1>1 DEF EffectInv, ReceiptsInv, ReceiptsShape, Status
  <1>4. workers' = workers
    BY <1>1 DEF runtimeVars
  <1>5. w \in Holding(rc) /\ Holding(rc)' = Holding(rc)
    BY <1>1, <1>2, <1>3 DEF Holding
  <1>6. SuspendingOn(rc)' = SuspendingOn(rc)
    BY <1>1, <1>2, <1>3, <1>4 DEF SuspendingOn
  <1>7. Live(rc) => DecidableWhileLive(rc)'
    BY <1>0, <1>3, <1>5, <1>6 DEF Decidable, DecidableWhileLive
  <1>8. workers[w].x = ExecutionOf[rc] /\ Status(rc) # "absent"
    BY <1>0, <1>5 DEF Decidable
  <1> QED  BY <1>1, <1>3, <1>5, <1>6, <1>7, <1>8, StillDecidable

\* A worker that held the receipt settles it, or finds it settled and is to
\* suspend unless it goes on.
LEMMA SettleDecidable ==
    ASSUME DecidableInv, NEW w \in Workers, NEW rc \in Receipts, rc = calls[w].rc,
           ReleaseEffect(w) \/ CompleteEffect(w) \/ LoseAnswer(w) \/ AbandonEffect(w)
    PROVE  Decidable(rc)'
  <1> DEFINE suspend == [pc |-> "suspend", rc |-> rc]
  <1>0. EffectInv /\ Decidable(rc)
    BY DEF DecidableInv
  <1>1. /\ workers[w].pc = "run" /\ calls[w].pc \in {"claimed", "sent"}
        /\ UNCHANGED runtimeVars
        /\ \E status \in {"prepared", "completed", "uncertain"} :
             /\ receipts' = Settled(rc, status)
             /\ \/ calls' = [calls EXCEPT ![w] = NoCall]
                \/ /\ Status(rc) = "started" => status = "uncertain"
                   /\ calls' = [calls EXCEPT ![w] = suspend]
    BY DEF ReleaseEffect, CompleteEffect, LoseAnswer, AbandonEffect, InCall, EndCall, EnterCall
  <1>2. suspend.pc = "suspend" /\ suspend.rc = rc /\ NoCall.pc = "none"
    BY DEF NoCall
  <1> HIDE DEF suspend
  <1>3. PICK status \in {"prepared", "completed", "uncertain"} :
          /\ receipts' = Settled(rc, status)
          /\ \/ calls' = [calls EXCEPT ![w] = NoCall]
             \/ /\ Status(rc) = "started" => status = "uncertain"
                /\ calls' = [calls EXCEPT ![w] = suspend]
    BY <1>1
  <1>4. /\ Status(rc) = "started" => Status(rc)' = status
        /\ Status(rc) # "started" => Status(rc)' = Status(rc)
        /\ receipts'[rc].rev = receipts[rc].rev
    <2> DEFINE new == Settled(rc, status)
    <2>1. receipts \in ReceiptTable(0 .. MaxRevision) /\ status \in ReceiptStates
      BY <1>0 DEF EffectInv, RevisionsKnown, ReceiptStates
    <2>2. /\ Status(rc) = "started" => new[rc].status = status
          /\ Status(rc) # "started" => new[rc].status = Status(rc)
          /\ new[rc].rev = receipts[rc].rev
      BY <2>1, SettledRow
    <2>3. receipts' = new
      BY <1>3
    <2> HIDE DEF new
    <2> QED  BY <2>2, <2>3 DEF Status
  <1>5. /\ w \in Holding(rc) /\ workers[w].x = ExecutionOf[rc] /\ Status(rc) # "absent"
        /\ workers' = workers
    BY <1>0, <1>1 DEF Holding, Decidable, runtimeVars
  <1>6. /\ \A v \in Workers \ {w} : calls'[v] = calls[v]
        /\ \/ calls'[w] = NoCall
           \/ calls'[w] = suspend /\ (Status(rc) = "started" => status = "uncertain")
    BY <1>0, <1>3 DEF EffectInv, ReceiptsInv, ReceiptsShape
  <1>7. Holding(rc)' = Holding(rc) \ {w}
    BY <1>2, <1>6 DEF Holding
  <1>8. \/ SuspendingOn(rc)' = SuspendingOn(rc)
        \/ /\ SuspendingOn(rc)' \subseteq SuspendingOn(rc) \cup {w}
           /\ Status(rc) = "started" => status = "uncertain"
    <2>1. w \notin SuspendingOn(rc)
      BY <1>1 DEF SuspendingOn
    <2>2. CASE calls'[w] = NoCall
      BY <1>1, <1>2, <1>5, <1>6, <2>1, <2>2 DEF SuspendingOn
    <2>3. CASE calls'[w] = suspend
      <3>1. SuspendingOn(rc)' \subseteq SuspendingOn(rc) \cup {w}
        BY <1>5, <1>6 DEF SuspendingOn
      <3>2. suspend # NoCall
        BY <1>2
      <3> QED  BY <1>6, <2>3, <3>1, <3>2
    <2> QED  BY <1>6, <2>2, <2>3
  <1>9. Live(rc) => DecidableWhileLive(rc)'
    <2> SUFFICES ASSUME Live(rc)  PROVE DecidableWhileLive(rc)'
      OBVIOUS
    <2>1. /\ SuspendingOn(rc) # {} => Status(rc) = "uncertain"
          /\ Status(rc) \in {"started", "uncertain"}
          /\ \A u, v \in Holding(rc) : u = v
      BY <1>0, <1>5 DEF Decidable, DecidableWhileLive
    <2>2. Holding(rc)' = {}
      BY <1>5, <1>7, <2>1
    <2>3. ASSUME SuspendingOn(rc)' # {}  PROVE Status(rc)' = "uncertain"
      <3>1. CASE Status(rc) = "uncertain"
        BY <1>4, <3>1
      <3>2. CASE Status(rc) = "started"
        <4>1. SuspendingOn(rc) = {}
          BY <2>1, <3>2
        <4> QED  BY <1>4, <1>8, <2>3, <3>2, <4>1
      <3> QED  BY <2>1, <3>1, <3>2
    <2> QED  BY <2>2, <2>3 DEF DecidableWhileLive
  <1>10. Status(rc)' # "absent" /\ (Status(rc) = "uncertain" => Status(rc)' = "uncertain")
    BY <1>4, <1>5
  <1>11. Holding(rc)' \cup SuspendingOn(rc)' \subseteq
           Holding(rc) \cup SuspendingOn(rc) \cup {w}
    BY <1>7, <1>8
  <1> QED  BY <1>1, <1>4, <1>5, <1>9, <1>10, <1>11, StillDecidable

\* A decision is accepted only when the receipt's revision has an outcome.
LEMMA DecisionComesLate ==
    ASSUME EffectInv, NEW rc \in Receipts, NEW applied \in BOOLEAN,
           ResolveEffect(rc, applied)
    PROVE  ~Live(rc) /\ ~Live(rc)'
  <1> DEFINE x == ExecutionOf[rc]
             D == {v \in Pending : v.condition = rc}
  <1>1. receipts' = [receipts EXCEPT ![rc].status = Decided(applied)]
    BY DEF ResolveEffect, SetReceipt
  <1>2. receipts'[rc].rev = receipts[rc].rev
    BY <1>1 DEF EffectInv, RevisionsKnown, ReceiptTable
  <1>3. ~Live(rc)
    <2>1. CASE D = {}
      <3>1. Latest(x).outcome.kind \in TerminalKinds
        BY <2>1 DEF ResolveEffect, OwnerEnded
      <3> QED  BY <3>1 DEF Live, Unsealed, NoOutcome, TerminalKinds
    <2>2. ASSUME NEW v \in D  PROVE ~Live(rc)
      <3>1. v.exec = x /\ JournalConsistent
        BY <2>2 DEF ResolveEffect, EffectInv, RuntimeInv
      <3> QED  BY <3>1, PendingAtLatest DEF Live
    <2> QED  BY <2>1, <2>2
  <1>4. [EffectNext]_allVars
    BY DEF EffectNext
  <1> QED  BY <1>2, <1>3, <1>4, LiveBefore

\* It takes every wake that waits for the receipt with it.
LEMMA DecisionDecidable ==
    ASSUME DecidableInv, NEW rc \in Receipts, NEW applied \in BOOLEAN,
           ResolveEffect(rc, applied)
    PROVE  Decidable(rc)'
  <1> DEFINE x == ExecutionOf[rc]
             D == {v \in Pending : v.condition = rc}
  <1>0. EffectInv /\ Decidable(rc) /\ JournalConsistent
    BY DEF DecidableInv, EffectInv, RuntimeInv
  <1>1. /\ Status(rc) = "uncertain"
        /\ workers' = workers /\ calls' = calls
        /\ receipts' = [receipts EXCEPT ![rc].status = Decided(applied)]
    BY DEF ResolveEffect, SetReceipt
  <1>2. receipts'[rc].rev = receipts[rc].rev /\ Status(rc)' # "absent"
    BY <1>0, <1>1 DEF EffectInv, RevisionsKnown, ReceiptTable, Status, Decided
  <1>4. ~Live(rc)'
    BY <1>0, DecisionComesLate
  <1>5. \A v \in Pending' : v.condition # rc
    <2>1. CASE D = {}
      BY <2>1 DEF ResolveEffect, journalVars, Pending
    <2>2. CASE D # {}
      <3>1. PICK p \in Payloads : DeliverWakes(D, p)
        BY <2>2 DEF ResolveEffect, DeliverExecutionWake
      <3>2. x \in Executions
        BY EffectAssumption
      <3>3. Pending' \subseteq Pending
        BY <1>0, <3>1, <3>2, DeliveryMoves
      <3>4. ASSUME NEW v \in Pending', v \in D  PROVE FALSE
        <4>1. v \in wakes' /\ v.payload = None
          BY DEF Pending
        <4>2. wakes' = (wakes \ D) \cup {[u EXCEPT !.payload = p] : u \in D}
          BY <3>1 DEF DeliverWakes
        <4>3. PICK u \in D : v = [u EXCEPT !.payload = p]
          BY <3>4, <4>1, <4>2
        <4>4. u \in WakeRow
          BY <1>0 DEF JournalConsistent, JournalTypeOK, Pending
        <4>5. v.payload = p
          BY <4>3, <4>4 DEF WakeRow
        <4> QED  BY <4>1, <4>5, JournalAssumption
      <3> QED  BY <3>3, <3>4
    <2> QED  BY <2>1, <2>2
  <1>6. Holding(rc)' = Holding(rc) /\ SuspendingOn(rc)' = SuspendingOn(rc)
    BY <1>1 DEF Holding, SuspendingOn
  <1>7. WaitsDecidable(rc)'
    BY <1>5 DEF WaitsDecidable
  <1> QED  BY <1>0, <1>1, <1>2, <1>4, <1>6, <1>7 DEF Decidable

\* The steps of calls touch one receipt and one call.
LEMMA CallStepsApart ==
    ASSUME EffectInv, NEW w \in Workers, NEW rc \in Receipts, NEW other \in Receipts \ {rc},
           \/ ClaimEffect(w, rc) \/ MeetUnsettled(w, rc)
           \/ /\ rc = calls[w].rc
              /\ \/ SendEffect(w) \/ ReleaseEffect(w) \/ CompleteEffect(w)
                 \/ LoseAnswer(w) \/ AbandonEffect(w)
    PROVE  /\ receipts'[other] = receipts[other]
           /\ \A v \in Workers : \/ calls'[v] = calls[v] \/ calls'[v].pc = "none"
                                 \/ calls'[v].rc # other
  <1>1. receipts'[other] = receipts[other]
    BY DEF EffectInv, RevisionsKnown, ReceiptTable, ClaimEffect, MeetUnsettled, SendEffect,
           ReleaseEffect, CompleteEffect, LoseAnswer, AbandonEffect, SetReceipt, Settled
  <1>2. \E call : /\ calls' = [calls EXCEPT ![w] = call]
                  /\ call.pc = "none" \/ call.rc = rc
    <2>1. NoCall.pc = "none"
      BY DEF NoCall
    <2>2. \A pc : LET call == [pc |-> pc, rc |-> rc] IN call.rc = rc
      OBVIOUS
    <2> QED
      BY <2>1, <2>2 DEF ClaimEffect, MeetUnsettled, SendEffect, ReleaseEffect, CompleteEffect,
                        LoseAnswer, AbandonEffect, EnterCall, EndCall
  <1>3. calls \in [Workers -> Call]
    BY DEF EffectInv, ReceiptsInv, ReceiptsShape
  <1> QED  BY <1>1, <1>2, <1>3

\* Every step keeps every receipt decidable.
LEMMA DecidableNext ==
    ASSUME DecidableInv, [EffectNext]_allVars
    PROVE  DecidableInv'
  <1>0. EffectInv /\ EffectInv'
    BY EffectInvNext DEF DecidableInv
  <1> SUFFICES ASSUME NEW rc \in Receipts  PROVE Decidable(rc)'
    BY <1>0 DEF DecidableInv
  <1>1. CASE /\ UNCHANGED receipts
             /\ \A w \in Workers : calls'[w] = calls[w] \/ calls'[w].pc = "none"
    BY <1>1, DecidableKept
  <1>2. ASSUME NEW w \in Workers, EffectStep(w), ~SuspendOnEffect(w)  PROVE Decidable(rc)'
    <2>1. PICK named \in Receipts :
            \/ ClaimEffect(w, named) \/ MeetUnsettled(w, named)
            \/ /\ named = calls[w].rc
               /\ \/ SendEffect(w) \/ ReleaseEffect(w) \/ CompleteEffect(w)
                  \/ LoseAnswer(w) \/ AbandonEffect(w)
      <3>1. (\E named \in Receipts : ClaimEffect(w, named) \/ MeetUnsettled(w, named))
            \/ /\ \/ SendEffect(w) \/ ReleaseEffect(w) \/ CompleteEffect(w)
                  \/ LoseAnswer(w) \/ AbandonEffect(w)
               /\ calls[w].rc \in Receipts
        BY <1>0, <1>2 DEF EffectStep, SendEffect, ReleaseEffect, CompleteEffect, LoseAnswer,
                          AbandonEffect, InCall, EffectInv, ReceiptsInv, ReceiptsShape
      <3> QED  BY <3>1
    <2>2. CASE rc = named
      BY <2>1, <2>2, ClaimDecidable, MeetDecidable, SendDecidable, SettleDecidable
    <2>3. CASE rc # named
      BY <1>0, <2>1, <2>3, CallStepsApart, DecidableKept
    <2> QED  BY <2>2, <2>3
  <1>3. ASSUME NEW w \in Workers, SuspendOnEffect(w)  PROVE Decidable(rc)'
    <2>1. UNCHANGED receipts /\ calls' = [calls EXCEPT ![w] = NoCall] /\ NoCall.pc = "none"
      BY <1>3 DEF SuspendOnEffect, EndCall, NoCall
    <2>2. \A v \in Workers : calls'[v] = calls[v] \/ calls'[v].pc = "none"
      BY <1>0, <2>1 DEF EffectInv, ReceiptsInv, ReceiptsShape
    <2> QED  BY <1>1, <2>1, <2>2
  <1>4. ASSUME NEW named \in Receipts, NEW applied \in BOOLEAN, ResolveEffect(named, applied)
        PROVE  Decidable(rc)'
    <2>1. CASE rc = named
      BY <1>4, <2>1, DecisionDecidable
    <2>2. CASE rc # named
      <3>1. receipts'[rc] = receipts[rc] /\ UNCHANGED calls
        BY <1>0, <1>4, <2>2 DEF ResolveEffect, SetReceipt, EffectInv, RevisionsKnown, ReceiptTable
      <3> QED  BY <3>1, DecidableKept
    <2> QED  BY <2>1, <2>2
  <1>5. CASE CrashInCall
    BY <1>1, <1>5 DEF CrashInCall, NoCall
  <1>6. CASE UNCHANGED effectVars
    BY <1>1, <1>6 DEF effectVars
  <1>7. ASSUME NEW w \in Workers, OpenTurn(w) \/ TurnReturns(w)  PROVE Decidable(rc)'
    BY <1>1, <1>7 DEF OpenTurn, TurnReturns, effectVars
  <1> QED  BY <1>2, <1>3, <1>4, <1>5, <1>6, <1>7 DEF EffectNext, allVars

\* At first nobody waits for anything.
LEMMA DecidableInit == EffectInit => DecidableInv
  <1> SUFFICES ASSUME EffectInit, NEW rc \in Receipts  PROVE Decidable(rc)
    BY EffectInvInit DEF DecidableInv
  <1>1. NoCall.pc = "none" /\ AtRest.pc = "idle"
    BY DEF NoCall, AtRest
  <1>2. Holding(rc) = {} /\ SuspendingOn(rc) = {}
    BY <1>1 DEF EffectInit, RuntimeInit, Holding, SuspendingOn
  <1>3. Pending = {} /\ ~Live(rc)
    BY EffectAssumption DEF EffectInit, RuntimeInit, JournalInit, Pending, Live, Exists
  <1> QED  BY <1>2, <1>3 DEF Decidable, WaitsDecidable

\* Whoever may still suspend a turn on a receipt, or settle it, the receipt of the
\* running revision stays decidable until its execution waits for it.
THEOREM ReceiptsStayDecidable == EffectSpec => []DecidableInv
  BY DecidableInit, DecidableNext, PTL DEF EffectSpec

\* A turn that waits for the user waits for a decision that can still be taken:
\* neither a late settlement nor a decision taken before the suspension was
\* committed leaves it stranded (complete, mark_uncertain, resolve_effect_receipt).
THEOREM WaitingTurnsCanBeDecided == EffectSpec => []EffectWaitsResolvable
  <1>1. DecidableInv => EffectWaitsResolvable
    BY DEF DecidableInv, Decidable, WaitsDecidable, EffectWaitsResolvable
  <1> QED  BY <1>1, ReceiptsStayDecidable, PTL

-------------------------------------------------------------------------------
(* An effect is sent at most once *)

\* The workers that are about to send rc or to give it back.
Claimed(rc) == {w \in Workers : calls[w].pc = "claimed" /\ calls[w].rc = rc}

\* Nobody has begun, or the claim was given back while its revision runs on.
Claimable(rc) == Status(rc) = "absent" \/ (Status(rc) = "prepared" /\ Live(rc))

SentAtMostOnce(rc) ==
    /\ sent[rc] <= 1
    /\ Claimable(rc) => sent[rc] = 0 /\ Claimed(rc) = {}
    /\ \A w \in Claimed(rc) : sent[rc] = 0 /\ Claimed(rc) = {w}

OnceInv == EffectInv /\ \A rc \in Receipts : SentAtMostOnce(rc)

\* Nothing is sent, nobody claims, and the receipt does not become claimable.
LEMMA OnceKept ==
    ASSUME OnceInv, [EffectNext]_allVars, NEW rc \in Receipts,
           sent'[rc] = sent[rc], Claimed(rc)' \subseteq Claimed(rc),
           receipts'[rc].rev = receipts[rc].rev,
           Status(rc)' \in {"absent", "prepared"} => Status(rc)' = Status(rc)
    PROVE  SentAtMostOnce(rc)'
  <1>1. SentAtMostOnce(rc) /\ EffectInv
    BY DEF OnceInv
  <1>2. Live(rc)' => Live(rc)
    BY <1>1, LiveBefore
  <1>3. Claimable(rc)' => Claimable(rc)
    BY <1>2 DEF Claimable
  <1> QED  BY <1>1, <1>3 DEF SentAtMostOnce

\* A claim finds the receipt claimable.
LEMMA ClaimOnce ==
    ASSUME OnceInv, NEW w \in Workers, NEW rc \in Receipts, ClaimEffect(w, rc)
    PROVE  SentAtMostOnce(rc)'
  <1> DEFINE x == ExecutionOf[rc]
             row == [status |-> "started", rev |-> workers[w].rev]
             call == [pc |-> "claimed", rc |-> rc]
  <1>0. EffectInv /\ SentAtMostOnce(rc) /\ x \in Executions
    BY EffectAssumption DEF OnceInv
  <1>1. /\ workers[w].pc = "run" /\ x = workers[w].x
        /\ LatestRevision(x) = workers[w].rev /\ Latest(x).state = "running"
        /\ receipts' = [receipts EXCEPT ![rc] = row]
        /\ calls' = [calls EXCEPT ![w] = call]
        /\ sent' = sent
    BY DEF ClaimEffect, InCall, AttemptCurrent, EnterCall
  <1>2. Claimable(rc)
    <2>1. Exists(x) /\ Unsealed(Latest(x))
      BY <1>0, <1>1, RunsUnsealed
    <2> QED  BY <1>1, <2>1 DEF ClaimEffect, Executable, Claimable, Live
  <1>3. sent[rc] = 0 /\ Claimed(rc) = {}
    BY <1>0, <1>2 DEF SentAtMostOnce
  <1>4. call.pc = "claimed" /\ call.rc = rc /\ row.status = "started"
    OBVIOUS
  <1> HIDE DEF call, row
  <1>5. /\ calls'[w] = call /\ \A v \in Workers \ {w} : calls'[v] = calls[v]
        /\ Status(rc)' = "started"
    BY <1>0, <1>1, <1>4 DEF EffectInv, ReceiptsInv, ReceiptsShape, ReceiptTable, Status
  <1>6. Claimed(rc)' = {w}
    BY <1>3, <1>4, <1>5 DEF Claimed
  <1> QED  BY <1>1, <1>3, <1>5, <1>6 DEF SentAtMostOnce, Claimable

\* Only the one that has claimed the receipt sends, and nobody can claim it then.
LEMMA SendOnce ==
    ASSUME OnceInv, NEW w \in Workers, NEW rc \in Receipts, SendEffect(w), rc = calls[w].rc
    PROVE  SentAtMostOnce(rc)'
  <1> DEFINE call == [pc |-> "sent", rc |-> rc]
  <1>0. EffectInv /\ SentAtMostOnce(rc)
    BY DEF OnceInv
  <1>1. /\ calls[w].pc = "claimed" /\ receipts' = receipts
        /\ calls' = [calls EXCEPT ![w] = call]
        /\ sent' = [sent EXCEPT ![rc] = sent[rc] + 1]
        /\ journal' = journal
    BY DEF SendEffect, InCall, EnterCall, runtimeVars, journalVars
  <1>2. call.pc = "sent"
    OBVIOUS
  <1> HIDE DEF call
  <1>3. w \in Claimed(rc)
    BY <1>1 DEF Claimed
  <1>4. sent[rc] = 0 /\ Claimed(rc) = {w} /\ ~Claimable(rc)
    BY <1>0, <1>3 DEF SentAtMostOnce
  <1>5. /\ calls'[w] = call /\ \A v \in Workers \ {w} : calls'[v] = calls[v]
        /\ sent'[rc] = 1
    BY <1>0, <1>1, <1>4 DEF EffectInv, ReceiptsInv, ReceiptsShape
  <1>6. Claimed(rc)' = {}
    BY <1>2, <1>4, <1>5 DEF Claimed
  <1>7. Claimable(rc)' <=> Claimable(rc)
    BY <1>1 DEF Claimable, Live, Status, Exists, Latest, LatestRevision
  <1> QED  BY <1>4, <1>5, <1>6, <1>7 DEF SentAtMostOnce

\* A settlement ends the claim; only one that was not sent is given back.
LEMMA SettleOnce ==
    ASSUME OnceInv, NEW w \in Workers, NEW rc \in Receipts, rc = calls[w].rc,
           ReleaseEffect(w) \/ CompleteEffect(w) \/ LoseAnswer(w) \/ AbandonEffect(w)
    PROVE  SentAtMostOnce(rc)'
  <1> DEFINE suspend == [pc |-> "suspend", rc |-> rc]
  <1>0. EffectInv /\ SentAtMostOnce(rc)
    BY DEF OnceInv
  <1>1. PICK status \in {"prepared", "completed", "uncertain"} :
          /\ receipts' = Settled(rc, status)
          /\ status = "prepared" => calls[w].pc = "claimed"
    BY DEF ReleaseEffect, CompleteEffect, LoseAnswer, AbandonEffect, InCall
  <1>2. /\ calls' = [calls EXCEPT ![w] = NoCall] \/ calls' = [calls EXCEPT ![w] = suspend]
        /\ sent' = sent
    BY DEF ReleaseEffect, CompleteEffect, LoseAnswer, AbandonEffect, EndCall, EnterCall
  <1>3. /\ Status(rc) = "started" => Status(rc)' = status
        /\ Status(rc) # "started" => Status(rc)' = Status(rc)
        /\ receipts'[rc].rev = receipts[rc].rev
    <2> DEFINE new == Settled(rc, status)
    <2>1. receipts \in ReceiptTable(0 .. MaxRevision) /\ status \in ReceiptStates
      BY <1>0 DEF EffectInv, RevisionsKnown, ReceiptStates
    <2>2. /\ Status(rc) = "started" => new[rc].status = status
          /\ Status(rc) # "started" => new[rc].status = Status(rc)
          /\ new[rc].rev = receipts[rc].rev
      BY <2>1, SettledRow
    <2>3. receipts' = new
      BY <1>1
    <2> HIDE DEF new
    <2> QED  BY <2>2, <2>3 DEF Status
  <1>4. Claimed(rc)' = Claimed(rc) \ {w}
    <2>1. NoCall.pc # "claimed" /\ suspend.pc # "claimed"
      BY DEF NoCall
    <2> HIDE DEF suspend
    <2>2. /\ \A v \in Workers \ {w} : calls'[v] = calls[v]
          /\ calls'[w] = NoCall \/ calls'[w] = suspend
      BY <1>0, <1>2 DEF EffectInv, ReceiptsInv, ReceiptsShape
    <2> QED  BY <2>1, <2>2 DEF Claimed
  <1>5. CASE status = "prepared"
    <2>1. w \in Claimed(rc)
      BY <1>1, <1>5 DEF Claimed
    <2>2. sent[rc] = 0 /\ Claimed(rc) = {w}
      BY <1>0, <2>1 DEF SentAtMostOnce
    <2> QED  BY <1>2, <1>4, <2>2 DEF SentAtMostOnce
  <1>6. CASE status # "prepared"
    <2>1. [EffectNext]_allVars
      BY DEF EffectNext, EffectStep
    <2> QED  BY <1>1, <1>2, <1>3, <1>4, <1>6, <2>1, OnceKept
  <1> QED  BY <1>5, <1>6

\* A receipt that is declared not applied cannot be claimed any more.
LEMMA DecisionOnce ==
    ASSUME OnceInv, NEW rc \in Receipts, NEW applied \in BOOLEAN,
           ResolveEffect(rc, applied)
    PROVE  SentAtMostOnce(rc)'
  <1>0. EffectInv /\ SentAtMostOnce(rc)
    BY DEF OnceInv
  <1>1. /\ receipts' = [receipts EXCEPT ![rc].status = Decided(applied)]
        /\ calls' = calls /\ sent' = sent
    BY DEF ResolveEffect, SetReceipt
  <1>2. Status(rc)' # "absent"
    BY <1>0, <1>1 DEF EffectInv, RevisionsKnown, ReceiptTable, Status, Decided
  <1>3. ~Claimable(rc)'
    BY <1>0, <1>2, DecisionComesLate DEF Claimable
  <1>4. Claimed(rc)' = Claimed(rc)
    BY <1>1 DEF Claimed
  <1> QED  BY <1>0, <1>1, <1>3, <1>4 DEF SentAtMostOnce

\* Every step sends every effect at most once.
LEMMA OnceNext ==
    ASSUME OnceInv, [EffectNext]_allVars
    PROVE  OnceInv'
  <1>0. EffectInv /\ EffectInv' /\ calls \in [Workers -> Call]
    BY EffectInvNext DEF OnceInv, EffectInv, ReceiptsInv, ReceiptsShape
  <1> SUFFICES ASSUME NEW rc \in Receipts  PROVE SentAtMostOnce(rc)'
    BY <1>0 DEF OnceInv
  <1>1. CASE /\ receipts'[rc] = receipts[rc] /\ sent'[rc] = sent[rc]
             /\ \A w \in Workers : \/ calls'[w] = calls[w] \/ calls'[w].pc = "none"
                                   \/ calls'[w].rc # rc
    <2>1. Claimed(rc)' \subseteq Claimed(rc)
      BY <1>1 DEF Claimed
    <2> QED  BY <1>1, <2>1, OnceKept DEF Status
  <1>2. ASSUME NEW w \in Workers, EffectStep(w), ~SuspendOnEffect(w)
        PROVE  SentAtMostOnce(rc)'
    <2>1. PICK named \in Receipts :
            \/ ClaimEffect(w, named) \/ MeetUnsettled(w, named)
            \/ /\ named = calls[w].rc
               /\ \/ SendEffect(w) \/ ReleaseEffect(w) \/ CompleteEffect(w)
                  \/ LoseAnswer(w) \/ AbandonEffect(w)
      <3>1. (\E named \in Receipts : ClaimEffect(w, named) \/ MeetUnsettled(w, named))
            \/ /\ \/ SendEffect(w) \/ ReleaseEffect(w) \/ CompleteEffect(w)
                  \/ LoseAnswer(w) \/ AbandonEffect(w)
               /\ calls[w].rc \in Receipts
        BY <1>0, <1>2 DEF EffectStep, SendEffect, ReleaseEffect, CompleteEffect, LoseAnswer,
                          AbandonEffect, InCall, EffectInv, ReceiptsInv, ReceiptsShape
      <3> QED  BY <3>1
    <2>2. CASE rc = named /\ MeetUnsettled(w, named)
      <3>1. /\ receipts' = [receipts EXCEPT ![rc].status = "uncertain"]
            /\ calls' = [calls EXCEPT ![w] = [pc |-> "suspend", rc |-> rc]]
            /\ sent' = sent
        BY <2>2 DEF MeetUnsettled, SetReceipt, EnterCall
      <3>2. Status(rc)' = "uncertain" /\ receipts'[rc].rev = receipts[rc].rev
        BY <1>0, <3>1 DEF EffectInv, RevisionsKnown, ReceiptTable, Status
      <3>3. Claimed(rc)' \subseteq Claimed(rc)
        BY <1>0, <3>1 DEF Claimed
      <3> QED  BY <3>1, <3>2, <3>3, OnceKept
    <2>3. CASE rc = named /\ ~MeetUnsettled(w, named)
      BY <2>1, <2>3, ClaimOnce, SendOnce, SettleOnce
    <2>4. CASE rc # named
      <3>1. sent' = sent \/ sent' = [sent EXCEPT ![named] = @ + 1]
        <4>1. CASE SendEffect(w) /\ named = calls[w].rc
          BY <4>1 DEF SendEffect
        <4>2. CASE ClaimEffect(w, named) \/ MeetUnsettled(w, named)
          BY <4>2 DEF ClaimEffect, MeetUnsettled
        <4>3. CASE \/ ReleaseEffect(w) \/ CompleteEffect(w)
                   \/ LoseAnswer(w) \/ AbandonEffect(w)
          BY <4>3 DEF ReleaseEffect, CompleteEffect, LoseAnswer, AbandonEffect
        <4> QED  BY <2>1, <4>1, <4>2, <4>3
      <3>2. sent'[rc] = sent[rc]
        <4>1. DOMAIN sent = Receipts
          BY <1>0 DEF EffectInv, ReceiptsInv, ReceiptsShape
        <4> QED  BY <2>4, <3>1, <4>1
      <3> QED  BY <1>0, <1>1, <2>1, <2>4, <3>2, CallStepsApart
    <2> QED  BY <2>2, <2>3, <2>4
  <1>3. ASSUME NEW w \in Workers, SuspendOnEffect(w)  PROVE SentAtMostOnce(rc)'
    <2>1. /\ UNCHANGED <<receipts, sent>> /\ NoCall.pc = "none"
          /\ calls' = [calls EXCEPT ![w] = NoCall]
      BY <1>3 DEF SuspendOnEffect, EndCall, NoCall
    <2>2. \A v \in Workers : calls'[v] = calls[v] \/ calls'[v].pc = "none"
      BY <1>0, <2>1
    <2> QED  BY <1>1, <2>1, <2>2
  <1>4. ASSUME NEW named \in Receipts, NEW applied \in BOOLEAN, ResolveEffect(named, applied)
        PROVE  SentAtMostOnce(rc)'
    <2>1. CASE rc = named
      BY <1>4, <2>1, DecisionOnce
    <2>2. CASE rc # named
      <3>1. receipts'[rc] = receipts[rc] /\ UNCHANGED <<calls, sent>>
        BY <1>0, <1>4, <2>2 DEF ResolveEffect, SetReceipt, EffectInv, RevisionsKnown, ReceiptTable
      <3> QED  BY <1>1, <3>1
    <2> QED  BY <2>1, <2>2
  <1>5. CASE CrashInCall
    BY <1>1, <1>5 DEF CrashInCall, NoCall
  <1>6. CASE UNCHANGED effectVars
    BY <1>1, <1>6 DEF effectVars
  <1>7. ASSUME NEW w \in Workers, OpenTurn(w) \/ TurnReturns(w)  PROVE SentAtMostOnce(rc)'
    BY <1>1, <1>7 DEF OpenTurn, TurnReturns, effectVars
  <1> QED  BY <1>2, <1>3, <1>4, <1>5, <1>6, <1>7 DEF EffectNext, allVars

\* At first nothing is sent or claimed.
LEMMA OnceInit == EffectInit => OnceInv
  <1> SUFFICES ASSUME EffectInit, NEW rc \in Receipts  PROVE SentAtMostOnce(rc)
    BY EffectInvInit DEF OnceInv
  <1>1. sent[rc] = 0 /\ Claimed(rc) = {}
    BY DEF EffectInit, Claimed, NoCall
  <1> QED  BY <1>1 DEF SentAtMostOnce

\* An effect is sent at most once, whoever dies, loses its lease or repeats the
\* call, and whatever the user declares: a claim (prepare_effect_receipt_on) is
\* for the revision of the receipt, which is over when the user decides.
THEOREM EffectsAreSentOnce == EffectSpec => []SentOnce
  <1>1. OnceInv => SentOnce
    BY DEF OnceInv, SentAtMostOnce, SentOnce
  <1> QED  BY <1>1, OnceInit, OnceNext, PTL DEF EffectSpec

===============================================================================

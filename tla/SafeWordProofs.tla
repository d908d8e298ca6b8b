--------------------------- MODULE SafeWordProofs ---------------------------
(***************************************************************************)
(* Proofs about SafeWord, for any words, any number of calls, operations   *)
(* and signals, in whatever order and however often they arrive: no term   *)
(* is one partner's alone, and a signal is seen as received only when it   *)
(* was.                                                                    *)
(***************************************************************************)
EXTENDS SafeWord, WireProofs, WellFoundedInduction

-----------------------------------------------------------------------------
(* The inductive invariant.                                                *)

(* A word that is pending, about to be accepted or on its way was proposed *)
(* by the partner it is said to come from, and a confirmation tells of a   *)
(* term that was accepted.                                                 *)
TermInv(s) ==
  /\ proposal[s] # NoProposal => proposal[s].word \in proposed[proposal[s].by]
  /\ \A c \in Items(calls[s]) : c.kind = "accept" => c.word \in proposed[Other(s)]
  /\ \A op \in Way(s) :
       /\ op.kind = "propose" => op.arg \in proposed[s]
       /\ op.kind = "confirm" => accepted[s] # {}
  /\ term[s] # "none" =>
       \/ term[s] \in accepted[s] \cap proposed[Other(s)]
       \/ term[s] \in proposed[s] /\ accepted[Other(s)] # {}

(* A signal that exists was fired by the phone it is sent from, which has  *)
(* its row, and what is acknowledged was acknowledged by the other phone.  *)
SignalInv(s) ==
  /\ \A t \in Trigger : /\ firedBy[t] = s => alert[s][t] # "absent"
                        /\ firedBy[t] = "none" => alert[s][t] = "absent"
                        /\ firedBy[t] = s /\ alert[s][t] = "acked" =>
                             alert[Other(s)][t] = "acked"
  /\ \A op \in Way(s) :
       /\ op.kind = "trigger" => firedBy[op.arg] = s
       /\ op.kind = "ack" => alert[s][op.arg] = "acked"

(* What has not reached a phone, or not come back to it, is on its way.    *)
TransitInv(s) ==
  \A t \in Trigger :
    /\ firedBy[t] = s /\ alert[Other(s)][t] = "absent" =>
         \E op \in Way(s) : op.kind = "trigger" /\ op.arg = t
    /\ firedBy[t] = Other(s) /\ alert[s][t] = "acked" /\ alert[Other(s)][t] # "acked" =>
         \E op \in Way(s) : op.kind = "ack" /\ op.arg = t

Terms == \A s \in Side : TermInv(s)

Signals == \A s \in Side : SignalInv(s)

Transits == \A s \in Side : TransitInv(s)

-----------------------------------------------------------------------------
LEMMA OperationFacts ==
  ASSUME NEW op \in Operation
  PROVE  /\ op.num \in 0 .. MaxOps
         /\ op.kind = "propose" => op.arg \in Word
         /\ op.kind \in {"trigger", "ack"} => op.arg \in Trigger
  BY SafeWordAssumption DEF SafeWordAssumption, Operation

LEMMA NoneApart == "none" \notin Word /\ "none" \notin Side /\ NoProposal.by = "none"
  BY SafeWordAssumption DEF SafeWordAssumption, Side, NoProposal

(* What stands in a row and what a call holds. *)
RowType ==
  /\ proposal \in [Side -> Proposal]
  /\ term \in [Side -> Word \cup {"none"}]
  /\ screen \in [Side -> {"none", "set", "awaiting_partner", "incoming_proposal"}]
  /\ calls \in [Side -> Seq(Call)]
  /\ issued \in [Side -> 0 .. MaxOps]
  /\ newest \in [Side -> 0 .. MaxOps]
  /\ proposed \in [Side -> SUBSET Word]
  /\ accepted \in [Side -> SUBSET Word]
  /\ untidy \in BOOLEAN

SignalType ==
  /\ alert \in [Side -> [Trigger -> {"absent", "active", "acked"}]]
  /\ firedBy \in [Trigger -> Side \cup {"none"}]

LEMMA WayType ==
  ASSUME WireTypeOK(Operation), NEW s \in Side
  PROVE  Way(s) \subseteq Operation
  BY OtherSide DEF WireTypeOK, Entry, Way, Items, OnRelay

LEMMA TermStateType ==
  ASSUME NEW s
  PROVE  TermState(s) \in {"none", "set", "awaiting_partner", "incoming_proposal"}
  BY DEF TermState

LEMMA InitAll == Init => /\ WireTypeOK(Operation) /\ RowType /\ SignalType
                         /\ Terms /\ Signals /\ Transits
<1> SUFFICES ASSUME Init
             PROVE  WireTypeOK(Operation) /\ RowType /\ SignalType /\ Terms /\ Signals /\ Transits
  OBVIOUS
<1>1. WireTypeOK(Operation) /\ \A s \in Side : Way(s) = {}
  BY WireInitWay DEF Init
<1>2. RowType
  <2>1. /\ proposal \in [Side -> Proposal] /\ term \in [Side -> Word \cup {"none"}]
        /\ screen \in [Side -> {"none", "set", "awaiting_partner", "incoming_proposal"}]
    BY DEF Init, Proposal
  <2>2. issued \in [Side -> 0 .. MaxOps] /\ newest \in [Side -> 0 .. MaxOps]
    BY SafeWordAssumption DEF Init, SafeWordAssumption
  <2>3. /\ calls \in [Side -> Seq(Call)] /\ proposed \in [Side -> SUBSET Word]
        /\ accepted \in [Side -> SUBSET Word]
    BY DEF Init
  <2>4. untidy \in BOOLEAN
    BY DEF Init
  <2> QED
    BY <2>1, <2>2, <2>3, <2>4 DEF RowType
<1>3. SignalType
  BY DEF Init, SignalType
<1>4. \A s \in Side : TermInv(s) /\ SignalInv(s) /\ TransitInv(s)
  BY <1>1, OtherSide, NoneApart DEF Init, TermInv, SignalInv, TransitInv, Items
<1> QED
  BY <1>1, <1>2, <1>4, <1>3 DEF Terms, Signals, Transits

-----------------------------------------------------------------------------
(* Type correctness.                                                       *)

LEMMA IssueWay ==
  ASSUME WireTypeOK(Operation), RowType, NEW s \in Side, NEW kind, NEW arg,
         Issue(s, kind, arg), [kind |-> kind, num |-> issued[s] + 1, arg |-> arg] \in Operation
  PROVE  /\ WireTypeOK(Operation)' /\ issued' \in [Side -> 0 .. MaxOps]
         /\ Way(Other(s))' = Way(Other(s))
         /\ Way(s)' = Way(s) \cup {[kind |-> kind, num |-> issued[s] + 1, arg |-> arg]}
<1>1. Queue(s, [kind |-> kind, num |-> issued[s] + 1, arg |-> arg])
  BY DEF Issue
<1>2. issued[s] \in 0 .. MaxOps /\ issued[Other(s)] \in 0 .. MaxOps /\ MaxOps \in Nat
  BY OtherSide, SafeWordAssumption DEF RowType, SafeWordAssumption
<1>3. issued[s] + 1 \in 0 .. MaxOps
  BY <1>2 DEF Issue, MayIssue
<1>4. issued' \in [Side -> 0 .. MaxOps]
  BY <1>3 DEF Issue, RowType
<1> QED
  BY <1>1, <1>4, QueueWay

LEMMA IssuedOperation ==
  ASSUME RowType, NEW s \in Side, NEW kind, NEW arg, Issue(s, kind, arg),
         \/ kind = "propose" /\ arg \in Word
         \/ kind \in {"confirm", "withdraw", "clear"} /\ arg = "none"
  PROVE  [kind |-> kind, num |-> issued[s] + 1, arg |-> arg] \in Operation
<1>1. issued[s] \in 0 .. MaxOps /\ issued[Other(s)] \in 0 .. MaxOps /\ MaxOps \in Nat
  BY OtherSide, SafeWordAssumption DEF RowType, SafeWordAssumption
<1>2. issued[s] + 1 \in 1 .. MaxOps
  BY <1>1 DEF Issue, MayIssue
<1> QED
  BY <1>2 DEF Operation

(* How each step changes what is on its way, or leaves it alone.           *)
LEMMA ProposeWay ==
  ASSUME WireTypeOK(Operation), RowType, NEW s \in Side, NEW w \in Word, Issue(s, "propose", w)
  PROVE  /\ WireTypeOK(Operation)' /\ issued' \in [Side -> 0 .. MaxOps]
         /\ Way(Other(s))' = Way(Other(s))
         /\ \A op \in Way(s)' : op \in Way(s) \/ (op.kind = "propose" /\ op.arg = w)
         /\ Way(s) \subseteq Way(s)'
<1>1. Issue(s, "propose", w)
  OBVIOUS
<1>2. [kind |-> "propose", num |-> issued[s] + 1, arg |-> w] \in Operation
  BY <1>1, IssuedOperation
<1> QED
  BY <1>1, <1>2, IssueWay

LEMMA ChangeWay ==
  ASSUME WireTypeOK(Operation), RowType, NEW s \in Side,
         NEW kind \in {"confirm", "withdraw", "clear"}, Issue(s, kind, "none")
  PROVE  /\ WireTypeOK(Operation)' /\ issued' \in [Side -> 0 .. MaxOps]
         /\ Way(Other(s))' = Way(Other(s))
         /\ \A op \in Way(s)' : op \in Way(s) \/ op.kind = kind
         /\ Way(s) \subseteq Way(s)'
<1>1. [kind |-> kind, num |-> issued[s] + 1, arg |-> "none"] \in Operation
  BY IssuedOperation
<1> QED
  BY <1>1, IssueWay

LEMMA SignalWay ==
  ASSUME WireTypeOK(Operation), NEW s \in Side, NEW kind \in {"trigger", "ack"},
         NEW t \in Trigger, Queue(s, [kind |-> kind, num |-> 0, arg |-> t])
  PROVE  /\ WireTypeOK(Operation)'
         /\ Way(Other(s))' = Way(Other(s))
         /\ \A op \in Way(s)' : op \in Way(s) \/ (op.kind = kind /\ op.arg = t)
         /\ Way(s) \subseteq Way(s)'
         /\ \E op \in Way(s)' : op.kind = kind /\ op.arg = t
<1>1. [kind |-> kind, num |-> 0, arg |-> t] \in Operation
  BY DEF Operation
<1>2. Way(s)' = Way(s) \cup {[kind |-> kind, num |-> 0, arg |-> t]}
  BY <1>1, QueueWay
<1> QED
  BY <1>1, <1>2, QueueWay

LEMMA ScreenType ==
  ASSUME RowType, NEW s \in Side, Refreshed(s)
  PROVE  screen' \in [Side -> {"none", "set", "awaiting_partner", "incoming_proposal"}]
  BY TermStateType DEF RowType, Refreshed, TermState

LEMMA CallsType ==
  ASSUME RowType, NEW s \in Side, NEW i \in DOMAIN calls[s], Returns(s, i)
  PROVE  /\ calls' \in [Side -> Seq(Call)] /\ Items(calls'[s]) \subseteq Items(calls[s])
         /\ calls'[Other(s)] = calls[Other(s)]
         /\ calls[s][i] \in Call /\ calls[s][i] \in Items(calls[s])
         /\ calls[s][i].kind # "fire" => calls[s][i].word \in Word
<1>1. calls[s] \in Seq(Call)
  BY DEF RowType
<1>2. /\ calls'[s] = SubSeq(calls[s], 1, i - 1) \o SubSeq(calls[s], i + 1, Len(calls[s]))
      /\ calls'[Other(s)] = calls[Other(s)]
  BY OtherSide DEF RowType, Returns
<1>3. calls'[s] \in Seq(Call) /\ Items(calls'[s]) \subseteq Items(calls[s])
  BY <1>1, <1>2, ItemsRemove
<1>4. calls' \in [Side -> Seq(Call)]
  BY <1>2, <1>3 DEF RowType, Returns
<1>5. calls[s][i] \in Call /\ calls[s][i] \in Items(calls[s])
  BY <1>1 DEF Items
<1>6. calls[s][i].kind # "fire" => calls[s][i].word \in Word
  BY <1>5 DEF Call
<1> QED
  BY <1>2, <1>3, <1>4, <1>5, <1>6

(* What a call carries, by its kind. *)
Carries(s, kind, w) ==
  \/ kind = "propose" /\ w \in Word
  \/ kind = "accept" /\ Incoming(s) /\ w = proposal[s].word
  \/ kind = "withdraw" /\ proposal[s].by = s /\ w = proposal[s].word
  \/ kind = "fire" /\ w = "none"

LEMMA BeginType ==
  ASSUME RowType, NEW s \in Side, NEW kind, NEW w, Begin(s, kind, w), Carries(s, kind, w)
  PROVE  /\ calls' \in [Side -> Seq(Call)] /\ calls'[Other(s)] = calls[Other(s)]
         /\ Items(calls'[s]) = Items(calls[s]) \cup {[kind |-> kind, word |-> w]}
<1> DEFINE call == [kind |-> kind, word |-> w]
<1>1. call \in Call /\ calls[s] \in Seq(Call)
  <2>1. proposal[s] = NoProposal \/ proposal[s] \in [by : Side, word : Word]
    BY DEF RowType, Proposal
  <2>2. kind \in {"accept", "withdraw"} => w \in Word
    BY <2>1, NoneApart, OtherSide DEF Incoming, Carries
  <2>3. call \in Call
    BY <2>2 DEF Call, Carries
  <2> QED
    BY <2>3 DEF RowType
<1>2. calls' = [calls EXCEPT ![s] = Append(@, call)]
  BY DEF Begin
<1> HIDE DEF call
<1>3. Append(calls[s], call) \in Seq(Call)
      /\ Items(Append(calls[s], call)) = Items(calls[s]) \cup {call}
  BY <1>1, ItemsAppend
<1>4. calls' \in [Side -> Seq(Call)]
  BY <1>2, <1>3 DEF RowType
<1>5. calls'[s] = Append(calls[s], call) /\ calls'[Other(s)] = calls[Other(s)]
  BY <1>2, OtherSide DEF RowType
<1> QED
  BY <1>3, <1>4, <1>5 DEF call

(* A call of the user begins. *)
Begins(s) ==
  \/ \E w \in Word : ProposeTerm(s, w)
  \/ AcceptTerm(s) \/ WithdrawProposal(s) \/ FireTrigger(s)

LEMMA BeginCarries ==
  ASSUME NEW s \in Side, Begins(s)
  PROVE  \E kind, w : Begin(s, kind, w) /\ Carries(s, kind, w)
  BY DEF Begins, ProposeTerm, AcceptTerm, WithdrawProposal, FireTrigger, Carries

LEMMA NextType ==
  /\ WireTypeOK(Operation) /\ RowType /\ SignalType /\ [Next]_vars
  => WireTypeOK(Operation)' /\ RowType' /\ SignalType'
<1> SUFFICES ASSUME WireTypeOK(Operation), RowType, SignalType, [Next]_vars
             PROVE  WireTypeOK(Operation)' /\ RowType' /\ SignalType'
  OBVIOUS
<1>1. ASSUME NEW s \in Side, Look(s)
      PROVE  WireTypeOK(Operation)' /\ RowType' /\ SignalType'
  <2>1. screen' \in [Side -> {"none", "set", "awaiting_partner", "incoming_proposal"}]
    BY <1>1, TermStateType DEF Look, RowType
  <2> QED
    BY <1>1, <2>1, WireQuiet DEF Look, RowType, SignalType, termRow, signals, consent
<1>2. ASSUME NEW s \in Side, NEW i \in DOMAIN calls[s], ProposeCommit(s, i)
      PROVE  WireTypeOK(Operation)' /\ RowType' /\ SignalType'
  <2>1. calls' \in [Side -> Seq(Call)] /\ calls[s][i].word \in Word
    BY <1>2, CallsType DEF ProposeCommit
  <2>2. WireTypeOK(Operation)' /\ issued' \in [Side -> 0 .. MaxOps]
    BY <1>2, <2>1, ProposeWay DEF ProposeCommit
  <2>3. /\ proposal' \in [Side -> Proposal] /\ proposed' \in [Side -> SUBSET Word]
        /\ untidy' \in BOOLEAN
    BY <1>2, <2>1 DEF ProposeCommit, RowType, Proposal
  <2>4. screen' \in [Side -> {"none", "set", "awaiting_partner", "incoming_proposal"}]
    BY <1>2, ScreenType DEF ProposeCommit
  <2> QED
    BY <1>2, <2>1, <2>2, <2>3, <2>4 DEF ProposeCommit, RowType, SignalType, signals
<1>3. ASSUME NEW s \in Side, Begins(s)
      PROVE  WireTypeOK(Operation)' /\ RowType' /\ SignalType'
  <2>1. PICK kind, w : Begin(s, kind, w) /\ Carries(s, kind, w)
    BY <1>3, BeginCarries
  <2>2. calls' \in [Side -> Seq(Call)]
    BY <2>1, BeginType
  <2> QED
    BY <2>1, <2>2, WireQuiet DEF Begin, RowType, SignalType, termRow, signals, consent
<1>4. ASSUME NEW s \in Side, ClearTerm(s)
      PROVE  WireTypeOK(Operation)' /\ RowType' /\ SignalType'
  <2>1. WireTypeOK(Operation)' /\ issued' \in [Side -> 0 .. MaxOps]
    BY <1>4, ChangeWay DEF ClearTerm
  <2>2. /\ proposal' \in [Side -> Proposal] /\ term' \in [Side -> Word \cup {"none"}]
        /\ untidy' \in BOOLEAN
    BY <1>4 DEF ClearTerm, RowType, Proposal
  <2>3. screen' \in [Side -> {"none", "set", "awaiting_partner", "incoming_proposal"}]
    BY <1>4, ScreenType DEF ClearTerm
  <2> QED
    BY <1>4, <2>1, <2>2, <2>3 DEF ClearTerm, RowType, SignalType, signals, consent
<1>5. ASSUME NEW s \in Side, AckTrigger(s)
      PROVE  WireTypeOK(Operation)' /\ RowType' /\ SignalType'
  <2>1. PICK t \in Trigger : /\ alert' = [alert EXCEPT ![s][t] = "acked"]
                             /\ Queue(s, [kind |-> "ack", num |-> 0, arg |-> t])
    BY <1>5 DEF AckTrigger, AlertUp, Active
  <2>2. WireTypeOK(Operation)'
    BY <2>1, SignalWay
  <2>3. alert' \in [Side -> [Trigger -> {"absent", "active", "acked"}]]
    BY <2>1 DEF SignalType
  <2> QED
    BY <1>5, <2>2, <2>3 DEF AckTrigger, RowType, SignalType, termRow, consent
<1>6. ASSUME NEW s \in Side, NEW i \in DOMAIN calls[s], AcceptCommit(s, i)
      PROVE  WireTypeOK(Operation)' /\ RowType' /\ SignalType'
  <2>1. WireTypeOK(Operation)' /\ issued' \in [Side -> 0 .. MaxOps]
    BY <1>6, ChangeWay DEF AcceptCommit
  <2>2. calls' \in [Side -> Seq(Call)] /\ calls[s][i] \in Call
    BY <1>6, CallsType DEF AcceptCommit
  <2>3. calls[s][i].word \in Word
    BY <1>6, <2>2 DEF AcceptCommit, Call
  <2>4. /\ term' \in [Side -> Word \cup {"none"}] /\ accepted' \in [Side -> SUBSET Word]
        /\ proposal' \in [Side -> Proposal]
    BY <1>6, <2>3 DEF AcceptCommit, RowType, Proposal
  <2>5. screen' \in [Side -> {"none", "set", "awaiting_partner", "incoming_proposal"}]
    BY <1>6, ScreenType DEF AcceptCommit
  <2>6. untidy' \in BOOLEAN
    BY <1>6 DEF AcceptCommit, RowType
  <2> QED
    BY <1>6, <2>1, <2>2, <2>4, <2>5, <2>6 DEF AcceptCommit, RowType, SignalType, signals
<1>7. ASSUME NEW s \in Side, NEW i \in DOMAIN calls[s], WithdrawCommit(s, i)
      PROVE  WireTypeOK(Operation)' /\ RowType' /\ SignalType'
  <2>1. WireTypeOK(Operation)' /\ issued' \in [Side -> 0 .. MaxOps]
    BY <1>7, ChangeWay DEF WithdrawCommit
  <2>2. calls' \in [Side -> Seq(Call)]
    BY <1>7, CallsType DEF WithdrawCommit
  <2>3. proposal' \in [Side -> Proposal] /\ untidy' \in BOOLEAN
    BY <1>7 DEF WithdrawCommit, RowType, Proposal
  <2>4. screen' \in [Side -> {"none", "set", "awaiting_partner", "incoming_proposal"}]
    BY <1>7, ScreenType DEF WithdrawCommit
  <2> QED
    BY <1>7, <2>1, <2>2, <2>3, <2>4 DEF WithdrawCommit, RowType, SignalType, signals, consent
<1>8. ASSUME NEW s \in Side, NEW i \in DOMAIN calls[s], NEW t \in Trigger, FireCommit(s, i, t)
      PROVE  WireTypeOK(Operation)' /\ RowType' /\ SignalType'
  <2>1. WireTypeOK(Operation)'
    BY <1>8, SignalWay DEF FireCommit
  <2>2. calls' \in [Side -> Seq(Call)]
    BY <1>8, CallsType DEF FireCommit
  <2>3. SignalType'
    BY <1>8 DEF FireCommit, SignalType
  <2> QED
    BY <1>8, <2>1, <2>2, <2>3 DEF FireCommit, RowType, termRow, consent
<1>9. ASSUME NEW s \in Side, Restart(s)
      PROVE  WireTypeOK(Operation)' /\ RowType' /\ SignalType'
  <2>1. calls' \in [Side -> Seq(Call)]
    BY <1>9 DEF Restart, RowType
  <2>2. screen' \in [Side -> {"none", "set", "awaiting_partner", "incoming_proposal"}]
    BY <1>9, ScreenType DEF Restart
  <2> QED
    BY <1>9, <2>1, <2>2, WireQuiet DEF Restart, RowType, SignalType, termRow, signals, consent
<1>10. ASSUME NEW s \in Side, Sync(s)
       PROVE  WireTypeOK(Operation)' /\ RowType' /\ SignalType'
  BY <1>10, WireStepWay DEF Sync, RowType, SignalType, termRow, signals, consent
<1>11. ASSUME NEW s \in Side, ApplyNext(s)
       PROVE  WireTypeOK(Operation)' /\ RowType' /\ SignalType'
  <2>1. PICK e \in page[s] :
          /\ Take(s, e)
          /\ \/ ApplyPropose(s, e.op) \/ ApplyConfirm(s, e.op)
             \/ ApplyWithdraw(s, e.op) \/ ApplyClear(s, e.op)
             \/ ApplyTrigger(s, e.op) \/ ApplyAck(s, e.op)
          /\ newest' = [newest EXCEPT ![s] = IF e.op.num > @ THEN e.op.num ELSE @]
          /\ untidy' = (untidy \/ e.op.num \in 1 .. newest[s])
          /\ UNCHANGED <<firedBy, screen, calls, issued, consent>>
    BY <1>11 DEF ApplyNext
  <2>2. WireTypeOK(Operation)' /\ e.op \in Operation
    BY <2>1, TakeWay
  <2>3. /\ e.op.num \in 0 .. MaxOps /\ (e.op.kind = "propose" => e.op.arg \in Word)
        /\ e.op.kind \in {"trigger", "ack"} => e.op.arg \in Trigger
    BY <2>2, OperationFacts
  <2>4. newest' \in [Side -> 0 .. MaxOps] /\ untidy' \in BOOLEAN
    BY <2>1, <2>3 DEF RowType
  <2>5. proposal' \in [Side -> Proposal]
    <3>1. CASE ApplyPropose(s, e.op)
      BY <2>3, <3>1, OtherSide DEF ApplyPropose, RowType, Proposal
    <3>2. CASE ~ApplyPropose(s, e.op)
      BY <2>1, <3>2 DEF ApplyConfirm, ApplyWithdraw, ApplyClear, ApplyTrigger, ApplyAck,
                        termRow, RowType, Proposal
    <3> QED
      BY <3>1, <3>2
  <2>6. term' \in [Side -> Word \cup {"none"}]
    <3>1. CASE ApplyConfirm(s, e.op)
      <4>1. proposal[s].by = s => proposal[s].word \in Word
        BY NoneApart DEF RowType, Proposal
      <4> QED
        BY <3>1, <4>1 DEF ApplyConfirm, RowType
    <3>2. CASE ~ApplyConfirm(s, e.op)
      BY <2>1, <3>2 DEF ApplyPropose, ApplyWithdraw, ApplyClear, ApplyTrigger, ApplyAck,
                        termRow, RowType
    <3> QED
      BY <3>1, <3>2
  <2>7. alert' \in [Side -> [Trigger -> {"absent", "active", "acked"}]]
    BY <2>1, <2>3 DEF ApplyPropose, ApplyConfirm, ApplyWithdraw, ApplyClear, ApplyTrigger,
                      ApplyAck, SignalType
  <2> QED
    BY <2>1, <2>2, <2>4, <2>5, <2>6, <2>7 DEF RowType, SignalType, consent
<1>12. CASE UNCHANGED vars
  BY <1>12, WireQuiet DEF vars, RowType, SignalType, termRow, signals, consent
<1> QED
  BY <1>1, <1>2, <1>3, <1>4, <1>5, <1>6, <1>7, <1>8, <1>9, <1>10, <1>11, <1>12
     DEF Next, Commit, Begins

-----------------------------------------------------------------------------
(* The term.                                                               *)

(* A step that adds no operation of the kinds that carry a term and leaves *)
(* the row alone, while the history grows.                                 *)
LEMMA TermFrame ==
  ASSUME NEW s \in Side, TermInv(s),
         proposal'[s] \in {proposal[s], NoProposal}, term'[s] \in {term[s], "none"},
         Items(calls'[s]) \subseteq Items(calls[s]),
         \A q \in Side : proposed[q] \subseteq proposed'[q] /\ accepted[q] \subseteq accepted'[q],
         proposal[s] # NoProposal => proposal[s].by \in Side,
         \A op \in Way(s)' : op \in Way(s) \/ op.kind \notin {"propose", "confirm"}
  PROVE  TermInv(s)'
<1>1. proposal'[s] # NoProposal => proposal'[s].word \in proposed'[proposal'[s].by]
  BY DEF TermInv
<1>2. \A c \in Items(calls'[s]) : c.kind = "accept" => c.word \in proposed'[Other(s)]
  BY OtherSide DEF TermInv
<1>3. \A op \in Way(s)' : /\ op.kind = "propose" => op.arg \in proposed'[s]
                          /\ op.kind = "confirm" => accepted'[s] # {}
  BY DEF TermInv
<1>4. term'[s] # "none" =>
        \/ term'[s] \in accepted'[s] \cap proposed'[Other(s)]
        \/ term'[s] \in proposed'[s] /\ accepted'[Other(s)] # {}
  BY OtherSide DEF TermInv
<1>5. Items(calls[s])' = Items(calls'[s])
  BY DEF Items
<1> QED
  BY <1>1, <1>2, <1>3, <1>4, <1>5 DEF TermInv

LEMMA NextTerms ==
  WireTypeOK(Operation) /\ RowType /\ Terms /\ [Next]_vars => Terms'
<1> SUFFICES ASSUME WireTypeOK(Operation), RowType, \A s \in Side : TermInv(s), [Next]_vars
             PROVE  \A q \in Side : TermInv(q)'
  BY DEF Terms
<1>1. \A s \in Side : proposal[s] # NoProposal => proposal[s].by \in Side
  BY DEF RowType, Proposal
<1>2. ASSUME UNCHANGED <<proposal, term, calls, consent>>,
             \A s \in Side : \A op \in Way(s)' :
               op \in Way(s) \/ op.kind \notin {"propose", "confirm"}
      PROVE  \A q \in Side : TermInv(q)'
  BY <1>1, <1>2, TermFrame DEF consent
<1>3. ASSUME NEW s \in Side, Look(s) \/ Sync(s) \/ AckTrigger(s)
      PROVE  \A q \in Side : TermInv(q)'
  <2>1. UNCHANGED <<proposal, term, calls, consent>>
    BY <1>3 DEF Look, Sync, AckTrigger, termRow
  <2>2. CASE Look(s) \/ Sync(s)
    BY <2>1, <2>2, <1>2, WireQuiet, WireStepWay DEF Look, Sync
  <2>3. CASE AckTrigger(s)
    <3>1. PICK t \in Trigger : Queue(s, [kind |-> "ack", num |-> 0, arg |-> t])
      BY <2>3 DEF AckTrigger, AlertUp, Active
    <3>2. /\ Way(Other(s))' = Way(Other(s))
          /\ \A op \in Way(s)' : op \in Way(s) \/ op.kind = "ack"
      BY <3>1, SignalWay
    <3> QED
      BY <1>2, <2>1, <3>2, OtherSide
  <2> QED
    BY <1>3, <2>2, <2>3
<1>4. CASE UNCHANGED vars
  BY <1>2, <1>4, WireQuiet DEF vars, termRow
<1>5. ASSUME NEW s \in Side, NEW i \in DOMAIN calls[s], ProposeCommit(s, i)
      PROVE  \A q \in Side : TermInv(q)'
  <2>0. PICK w \in Word : w = calls[s][i].word
    BY <1>5, CallsType DEF ProposeCommit
  <2>1. /\ Way(Other(s))' = Way(Other(s))
        /\ \A op \in Way(s)' : op \in Way(s) \/ (op.kind = "propose" /\ op.arg = w)
    BY <1>5, <2>0, ProposeWay DEF ProposeCommit
  <2>2. /\ proposal'[s] = [by |-> s, word |-> w] /\ proposal'[Other(s)] = proposal[Other(s)]
        /\ proposed'[s] = proposed[s] \cup {w} /\ proposed'[Other(s)] = proposed[Other(s)]
        /\ UNCHANGED <<term, accepted>>
    BY <1>5, <2>0, OtherSide DEF ProposeCommit, RowType
  <2>3. Items(calls'[s]) \subseteq Items(calls[s]) /\ calls'[Other(s)] = calls[Other(s)]
    BY <1>5, CallsType DEF ProposeCommit
  <2>4. TermInv(Other(s))'
    BY <1>1, <2>1, <2>2, <2>3, OtherSide, TermFrame
  <2>5. \A c \in Items(calls'[s]) : c.kind = "accept" => c.word \in proposed[Other(s)]
    BY <2>3 DEF TermInv
  <2>6. Items(calls[s])' = Items(calls'[s])
    BY DEF Items
  <2>7. TermInv(s)'
    BY <2>1, <2>2, <2>5, <2>6, OtherSide DEF TermInv
  <2> QED
    BY <2>4, <2>7, OtherSide
<1>6. ASSUME NEW s \in Side, Begins(s)
      PROVE  \A q \in Side : TermInv(q)'
  <2>1. PICK kind, w : Begin(s, kind, w) /\ Carries(s, kind, w)
    BY <1>6, BeginCarries
  <2>2. /\ calls'[Other(s)] = calls[Other(s)]
        /\ Items(calls'[s]) = Items(calls[s]) \cup {[kind |-> kind, word |-> w]}
    BY <2>1, BeginType
  <2>3. UNCHANGED <<wireVars, proposal, term, proposed, accepted>>
    BY <2>1 DEF Begin, termRow, consent
  <2>4. \A q \in Side : Way(q)' = Way(q)
    BY <2>3, WireQuiet
  <2>5. TermInv(Other(s))'
    BY <1>1, <2>2, <2>3, <2>4, OtherSide, TermFrame
  <2>6. kind = "accept" => w \in proposed[Other(s)]
    BY <2>1, OtherSide, NoneApart DEF Carries, Incoming, TermInv
  <2>7. \A c \in Items(calls'[s]) : c.kind = "accept" => c.word \in proposed[Other(s)]
    BY <2>2, <2>6 DEF TermInv
  <2>8. Items(calls[s])' = Items(calls'[s])
    BY DEF Items
  <2>9. TermInv(s)'
    BY <2>3, <2>4, <2>7, <2>8 DEF TermInv
  <2> QED
    BY <2>5, <2>9, OtherSide
<1>7. ASSUME NEW s \in Side, ClearTerm(s) PROVE \A q \in Side : TermInv(q)'
  <2>1. /\ Way(Other(s))' = Way(Other(s))
        /\ \A op \in Way(s)' : op \in Way(s) \/ op.kind = "clear"
    BY <1>7, ChangeWay DEF ClearTerm
  <2>2. /\ \A q \in Side : proposal'[q] \in {proposal[q], NoProposal}
        /\ \A q \in Side : term'[q] \in {term[q], "none"}
        /\ UNCHANGED <<calls, proposed, accepted>>
    BY <1>7 DEF ClearTerm, RowType, consent
  <2> QED
    BY <1>1, <2>1, <2>2, OtherSide, TermFrame
<1>8. ASSUME NEW s \in Side, NEW i \in DOMAIN calls[s], AcceptCommit(s, i)
      PROVE  \A q \in Side : TermInv(q)'
  <2> DEFINE w == calls[s][i].word
  <2>1. /\ Way(Other(s))' = Way(Other(s))
        /\ \A op \in Way(s)' : op \in Way(s) \/ op.kind = "confirm"
    BY <1>8, ChangeWay DEF AcceptCommit
  <2>2. /\ Items(calls'[s]) \subseteq Items(calls[s]) /\ calls'[Other(s)] = calls[Other(s)]
        /\ w \in proposed[Other(s)]
    BY <1>8, CallsType DEF AcceptCommit, TermInv
  <2>3. /\ proposal'[s] = NoProposal /\ proposal'[Other(s)] = proposal[Other(s)]
        /\ term'[s] = w /\ term'[Other(s)] = term[Other(s)]
        /\ accepted'[s] = accepted[s] \cup {w} /\ accepted'[Other(s)] = accepted[Other(s)]
        /\ proposed' = proposed
    BY <1>8, OtherSide DEF AcceptCommit, RowType
  <2>4. TermInv(Other(s))'
    BY <1>1, <2>1, <2>2, <2>3, OtherSide, TermFrame
  <2>5. \A c \in Items(calls'[s]) : c.kind = "accept" => c.word \in proposed[Other(s)]
    BY <2>2 DEF TermInv
  <2>6. Items(calls[s])' = Items(calls'[s])
    BY DEF Items
  <2>7. TermInv(s)'
    BY <2>1, <2>2, <2>3, <2>5, <2>6, OtherSide DEF TermInv
  <2> QED
    BY <2>4, <2>7, OtherSide
<1>9. ASSUME NEW s \in Side, NEW i \in DOMAIN calls[s],
             WithdrawCommit(s, i) \/ \E t \in Trigger : FireCommit(s, i, t)
      PROVE  \A q \in Side : TermInv(q)'
  <2>1. /\ Way(Other(s))' = Way(Other(s))
        /\ \A op \in Way(s)' : op \in Way(s) \/ op.kind \in {"withdraw", "trigger"}
    <3>1. CASE WithdrawCommit(s, i)
      BY <3>1, ChangeWay DEF WithdrawCommit
    <3>2. ASSUME NEW t \in Trigger, FireCommit(s, i, t)
          PROVE  /\ Way(Other(s))' = Way(Other(s))
                 /\ \A op \in Way(s)' : op \in Way(s) \/ op.kind = "trigger"
      BY <3>2, SignalWay DEF FireCommit
    <3> QED
      BY <1>9, <3>1, <3>2
  <2>2. Items(calls'[s]) \subseteq Items(calls[s]) /\ calls'[Other(s)] = calls[Other(s)]
    BY <1>9, CallsType DEF WithdrawCommit, FireCommit
  <2>3. /\ \A q \in Side : proposal'[q] \in {proposal[q], NoProposal}
        /\ UNCHANGED <<term, proposed, accepted>>
    BY <1>9 DEF WithdrawCommit, FireCommit, RowType, termRow, consent
  <2> QED
    BY <1>1, <2>1, <2>2, <2>3, OtherSide, TermFrame
<1>10. ASSUME NEW s \in Side, Restart(s) PROVE \A q \in Side : TermInv(q)'
  <2>1. \A q \in Side : Way(q)' = Way(q)
    BY <1>10, WireQuiet DEF Restart
  <2>2. calls'[s] = << >> /\ calls'[Other(s)] = calls[Other(s)]
    BY <1>10, OtherSide DEF Restart, RowType
  <2>3. Items(calls'[s]) = {}
    BY <2>2 DEF Items
  <2>4. UNCHANGED <<proposal, term, proposed, accepted>>
    BY <1>10 DEF Restart, termRow, consent
  <2> QED
    BY <1>1, <2>1, <2>2, <2>3, <2>4, OtherSide, TermFrame
<1>11. ASSUME NEW s \in Side, ApplyNext(s) PROVE \A q \in Side : TermInv(q)'
  <2>1. PICK e \in page[s] :
          /\ Take(s, e)
          /\ \/ ApplyPropose(s, e.op) \/ ApplyConfirm(s, e.op)
             \/ ApplyWithdraw(s, e.op) \/ ApplyClear(s, e.op)
             \/ ApplyTrigger(s, e.op) \/ ApplyAck(s, e.op)
          /\ UNCHANGED <<calls, consent>>
    BY <1>11 DEF ApplyNext
  <2>2. /\ e.op \in Way(Other(s)) /\ Way(s)' = Way(s)
        /\ Way(Other(s))' \subseteq Way(Other(s))
    BY <2>1, TakeWay
  <2>3. proposal'[Other(s)] = proposal[Other(s)] /\ term'[Other(s)] = term[Other(s)]
    BY <2>1, OtherSide DEF RowType, ApplyPropose, ApplyConfirm, ApplyWithdraw, ApplyClear,
       ApplyTrigger, ApplyAck, termRow
  <2>4. TermInv(Other(s))'
    BY <1>1, <2>1, <2>2, <2>3, OtherSide, TermFrame DEF consent
  <2>5. CASE ApplyPropose(s, e.op)
    <3>1. proposal'[s] = [by |-> Other(s), word |-> e.op.arg] /\ term'[s] = term[s]
      BY <2>5 DEF ApplyPropose, RowType
    <3>2. e.op.arg \in proposed[Other(s)]
      BY <2>2, <2>5, OtherSide DEF ApplyPropose, TermInv
    <3>3. TermInv(s)'
      BY <2>1, <2>2, <3>1, <3>2 DEF TermInv, consent, Items
    <3> QED
      BY <2>4, <3>3, OtherSide
  <2>6. CASE ApplyConfirm(s, e.op) /\ proposal[s].by = s
    <3>1. proposal'[s] = NoProposal /\ term'[s] = proposal[s].word
      BY <2>6 DEF ApplyConfirm, RowType
    <3>2. proposal[s].word \in proposed[s] /\ accepted[Other(s)] # {}
      BY <2>2, <2>6, OtherSide, NoneApart DEF ApplyConfirm, TermInv
    <3>3. TermInv(s)'
      BY <2>1, <2>2, <3>1, <3>2 DEF TermInv, consent, Items
    <3> QED
      BY <2>4, <3>3, OtherSide
  <2>7. CASE \/ ApplyConfirm(s, e.op) /\ proposal[s].by # s
             \/ ApplyWithdraw(s, e.op) \/ ApplyClear(s, e.op)
             \/ ApplyTrigger(s, e.op) \/ ApplyAck(s, e.op)
    <3>1. proposal'[s] \in {proposal[s], NoProposal} /\ term'[s] \in {term[s], "none"}
      BY <2>7 DEF RowType, ApplyConfirm, ApplyWithdraw, ApplyClear, ApplyTrigger, ApplyAck,
                  termRow
    <3>2. TermInv(s)'
      BY <1>1, <2>1, <2>2, <3>1, TermFrame DEF consent
    <3> QED
      BY <2>4, <3>2, OtherSide
  <2> QED
    BY <2>1, <2>5, <2>6, <2>7
<1> QED
  BY <1>3, <1>4, <1>5, <1>6, <1>7, <1>8, <1>9, <1>10, <1>11 DEF Next, Commit, Begins

-----------------------------------------------------------------------------
(* The signals.                                                            *)

(* A step that queues no operation about a signal changes none. *)
LEMMA SignalFrame ==
  ASSUME Signals, Transits, UNCHANGED <<alert, firedBy>>,
         \A s \in Side : Way(s) \subseteq Way(s)',
         \A s \in Side : \A op \in Way(s)' : op \in Way(s) \/ op.kind \notin {"trigger", "ack"}
  PROVE  Signals' /\ Transits'
<1>1. ASSUME NEW s \in Side PROVE SignalInv(s)'
  BY DEF Signals, SignalInv
<1>2. ASSUME NEW s \in Side PROVE TransitInv(s)'
  BY DEF Transits, TransitInv
<1> QED
  BY <1>1, <1>2 DEF Signals, Transits

LEMMA NextSignals ==
  /\ WireTypeOK(Operation) /\ RowType /\ SignalType /\ Signals /\ Transits /\ [Next]_vars
  => Signals' /\ Transits'
<1> SUFFICES ASSUME WireTypeOK(Operation), RowType, SignalType, Signals, Transits, [Next]_vars
             PROVE  Signals' /\ Transits'
  OBVIOUS
<1>1. ASSUME NEW s \in Side, Look(s) \/ Sync(s) \/ Restart(s) \/ Begins(s)
      PROVE  Signals' /\ Transits'
  <2>1. CASE Begins(s)
    <3>1. PICK kind, w : Begin(s, kind, w)
      BY <2>1, BeginCarries
    <3> QED
      BY <3>1, WireQuiet, SignalFrame DEF Begin, signals
  <2>2. CASE Look(s) \/ Sync(s) \/ Restart(s)
    <3>1. \A q \in Side : Way(q)' = Way(q)
      BY <2>2, WireQuiet, WireStepWay DEF Look, Sync, Restart
    <3>2. UNCHANGED <<alert, firedBy>>
      BY <2>2 DEF Look, Sync, Restart, signals
    <3> QED
      BY <3>1, <3>2, SignalFrame
  <2> QED
    BY <1>1, <2>1, <2>2
<1>2. CASE UNCHANGED vars
  BY <1>2, WireQuiet, SignalFrame DEF vars, signals
<1>3. ASSUME NEW s \in Side, NEW i \in DOMAIN calls[s], ProposeCommit(s, i)
      PROVE  Signals' /\ Transits'
  <2>0. calls[s][i].word \in Word /\ Issue(s, "propose", calls[s][i].word)
    BY <1>3, CallsType DEF ProposeCommit
  <2>1. /\ Way(Other(s))' = Way(Other(s)) /\ Way(s) \subseteq Way(s)'
        /\ \A op \in Way(s)' : op \in Way(s) \/ op.kind = "propose"
    BY <2>0, ProposeWay
  <2>2. UNCHANGED <<alert, firedBy>>
    BY <1>3 DEF ProposeCommit, signals
  <2> QED
    BY <2>1, <2>2, SignalFrame, OtherSide
<1>4. ASSUME NEW s \in Side,
             ClearTerm(s) \/ \E i \in DOMAIN calls[s] : AcceptCommit(s, i) \/ WithdrawCommit(s, i)
      PROVE  Signals' /\ Transits'
  <2>1. PICK kind \in {"confirm", "withdraw", "clear"} : Issue(s, kind, "none")
    BY <1>4 DEF ClearTerm, AcceptCommit, WithdrawCommit
  <2>2. /\ Way(Other(s))' = Way(Other(s)) /\ Way(s) \subseteq Way(s)'
        /\ \A op \in Way(s)' : op \in Way(s) \/ op.kind = kind
    BY <2>1, ChangeWay
  <2>3. UNCHANGED <<alert, firedBy>>
    BY <1>4 DEF ClearTerm, AcceptCommit, WithdrawCommit, signals
  <2> QED
    BY <2>2, <2>3, SignalFrame, OtherSide
<1>5. ASSUME NEW s \in Side, NEW i \in DOMAIN calls[s], NEW t \in Trigger, FireCommit(s, i, t)
      PROVE  Signals' /\ Transits'
  <2>1. /\ Way(Other(s))' = Way(Other(s)) /\ Way(s) \subseteq Way(s)'
        /\ \A op \in Way(s)' : op \in Way(s) \/ (op.kind = "trigger" /\ op.arg = t)
        /\ \E op \in Way(s)' : op.kind = "trigger" /\ op.arg = t
    BY <1>5, SignalWay DEF FireCommit
  <2>2. /\ firedBy[t] = "none" /\ firedBy'[t] = s
        /\ \A u \in Trigger : u # t => firedBy'[u] = firedBy[u]
        /\ alert'[s][t] = "active" /\ alert'[Other(s)] = alert[Other(s)]
        /\ \A u \in Trigger : u # t => alert'[s][u] = alert[s][u]
    BY <1>5, OtherSide DEF FireCommit, SignalType
  <2>3. alert[s][t] = "absent" /\ alert[Other(s)][t] = "absent"
    <3>1. firedBy[t] \notin Side
      BY <2>2, NoneApart
    <3> QED
      BY <2>2, OtherSide DEF Signals, SignalInv
  <2>4. \A q \in Side : \A op \in Way(q) : op.kind = "trigger" => op.arg # t
    BY <2>2, NoneApart DEF Signals, SignalInv
  <2>5. \A q \in Side : \A op \in Way(q) : op.kind = "ack" => op.arg # t
    BY <2>3, OtherSide DEF Signals, SignalInv
  <2>6. \A op \in Way(s) \cup Way(Other(s)) :
          op.kind \in {"trigger", "ack"} => op.arg \in Trigger
    <3>1. Way(s) \cup Way(Other(s)) \subseteq Operation
      BY WayType, OtherSide
    <3> QED
      BY <3>1, OperationFacts
  <2>7. SignalInv(s)'
    BY <2>1, <2>2, <2>3, <2>4, <2>5, <2>6, OtherSide DEF Signals, SignalInv
  <2>8. SignalInv(Other(s))'
    BY <2>1, <2>2, <2>3, <2>4, <2>5, <2>6, OtherSide, NoneApart DEF Signals, SignalInv
  <2>9. TransitInv(s)'
    BY <2>1, <2>2, <2>3, OtherSide, NoneApart DEF Transits, TransitInv
  <2>10. TransitInv(Other(s))'
    BY <2>1, <2>2, <2>3, OtherSide, NoneApart DEF Transits, TransitInv
  <2> QED
    BY <2>7, <2>8, <2>9, <2>10, OtherSide DEF Signals, Transits
<1>6. ASSUME NEW s \in Side, AckTrigger(s) PROVE Signals' /\ Transits'
  <2>1. PICK t \in AlertUp(s) : /\ alert' = [alert EXCEPT ![s][t] = "acked"]
                                /\ Queue(s, [kind |-> "ack", num |-> 0, arg |-> t])
                                /\ firedBy' = firedBy
    BY <1>6 DEF AckTrigger
  <2>2. t \in Trigger /\ firedBy[t] # s /\ alert[s][t] = "active"
    BY <2>1 DEF AlertUp, Active
  <2>3. /\ Way(Other(s))' = Way(Other(s)) /\ Way(s) \subseteq Way(s)'
        /\ \A op \in Way(s)' : op \in Way(s) \/ (op.kind = "ack" /\ op.arg = t)
        /\ \E op \in Way(s)' : op.kind = "ack" /\ op.arg = t
    BY <2>1, <2>2, SignalWay
  <2>4. /\ alert'[s][t] = "acked" /\ alert'[Other(s)] = alert[Other(s)]
        /\ \A u \in Trigger : u # t => alert'[s][u] = alert[s][u]
    BY <2>1, <2>2, OtherSide DEF SignalType
  <2>5. \A op \in Way(s) : op.kind \in {"trigger", "ack"} => op.arg \in Trigger
    BY WayType, OperationFacts
  <2>6. firedBy[t] = Other(s)
    BY <2>2, OtherSide DEF Signals, SignalInv, SignalType
  <2>7. SignalInv(s)'
    BY <2>1, <2>2, <2>3, <2>4, <2>5, <2>6, OtherSide, NoneApart DEF Signals, SignalInv
  <2>8. SignalInv(Other(s))'
    BY <2>1, <2>2, <2>3, <2>4, <2>5, <2>6, OtherSide, NoneApart DEF Signals, SignalInv
  <2>9. TransitInv(s)'
    BY <2>1, <2>2, <2>3, <2>4, <2>6, OtherSide, NoneApart DEF Transits, TransitInv
  <2>10. TransitInv(Other(s))'
    BY <2>1, <2>2, <2>3, <2>4, <2>6, OtherSide, NoneApart DEF Transits, TransitInv
  <2> QED
    BY <2>7, <2>8, <2>9, <2>10, OtherSide DEF Signals, Transits
<1>7. ASSUME NEW s \in Side, ApplyNext(s) PROVE Signals' /\ Transits'
  <2>1. PICK e \in page[s] :
          /\ Take(s, e)
          /\ \/ ApplyPropose(s, e.op) \/ ApplyConfirm(s, e.op)
             \/ ApplyWithdraw(s, e.op) \/ ApplyClear(s, e.op)
             \/ ApplyTrigger(s, e.op) \/ ApplyAck(s, e.op)
          /\ firedBy' = firedBy
    BY <1>7 DEF ApplyNext
  <2>2. /\ e.op \in Operation /\ e.op \in Way(Other(s)) /\ Way(s)' = Way(s)
        /\ Way(Other(s))' \subseteq Way(Other(s))
        /\ Way(Other(s)) \subseteq Way(Other(s))' \cup {e.op}
    BY <2>1, TakeWay
  <2>3. \A op \in Way(s) \cup Way(Other(s)) :
          op.kind \in {"trigger", "ack"} => op.arg \in Trigger
    <3>1. Way(s) \cup Way(Other(s)) \subseteq Operation
      BY WayType, OtherSide
    <3> QED
      BY <3>1, OperationFacts
  <2>4. CASE ApplyTrigger(s, e.op)
    <3> DEFINE t == e.op.arg
    <3>1. t \in Trigger /\ firedBy[t] = Other(s)
      BY <2>2, <2>3, <2>4, OtherSide DEF ApplyTrigger, Signals, SignalInv
    <3>2. /\ alert'[s][t] = IF alert[s][t] = "absent" THEN "active" ELSE alert[s][t]
          /\ alert'[Other(s)] = alert[Other(s)]
          /\ \A u \in Trigger : u # t => alert'[s][u] = alert[s][u]
      BY <2>4, <3>1, OtherSide DEF ApplyTrigger, SignalType
    <3>k. e.op.kind = "trigger"
      BY <2>4 DEF ApplyTrigger
    <3>3. SignalInv(s)'
      BY <2>1, <2>2, <2>3, <3>1, <3>2, OtherSide, NoneApart DEF Signals, SignalInv
    <3>4. SignalInv(Other(s))'
      BY <2>1, <2>2, <2>3, <3>1, <3>2, OtherSide, NoneApart DEF Signals, SignalInv
    <3>5. TransitInv(s)'
      BY <2>1, <2>2, <3>1, <3>2, OtherSide, NoneApart DEF Transits, TransitInv
    <3>6. TransitInv(Other(s))'
      BY <2>1, <2>2, <3>k, <3>1, <3>2, OtherSide, NoneApart DEF Transits, TransitInv
    <3> QED
      BY <3>3, <3>4, <3>5, <3>6, OtherSide DEF Signals, Transits
  <2>5. CASE ApplyAck(s, e.op)
    <3> DEFINE t == e.op.arg
    <3>1. t \in Trigger /\ alert[Other(s)][t] = "acked"
      BY <2>2, <2>3, <2>5, OtherSide DEF ApplyAck, Signals, SignalInv
    <3>2. /\ alert'[s][t] = IF alert[s][t] = "active" /\ firedBy[t] # Other(s)
                            THEN "acked" ELSE alert[s][t]
          /\ alert'[Other(s)] = alert[Other(s)]
          /\ \A u \in Trigger : u # t => alert'[s][u] = alert[s][u]
      BY <2>5, <3>1, OtherSide DEF ApplyAck, SignalType
    <3>k. e.op.kind = "ack"
      BY <2>5 DEF ApplyAck
    <3>3. SignalInv(s)'
      BY <2>1, <2>2, <2>3, <3>1, <3>2, OtherSide, NoneApart DEF Signals, SignalInv
    <3>4. SignalInv(Other(s))'
      BY <2>1, <2>2, <2>3, <3>1, <3>2, OtherSide, NoneApart DEF Signals, SignalInv
    <3>5. firedBy[t] = s => alert'[s][t] = "acked"
      BY <3>1, <3>2, OtherSide DEF Signals, SignalInv, SignalType
    <3>6. TransitInv(s)'
      BY <2>1, <2>2, <3>1, <3>2, <3>5, OtherSide, NoneApart DEF Transits, TransitInv
    <3>7. TransitInv(Other(s))'
      BY <2>1, <2>2, <3>k, <3>1, <3>2, <3>5, OtherSide, NoneApart DEF Transits, TransitInv
    <3> QED
      BY <3>3, <3>4, <3>6, <3>7, OtherSide DEF Signals, Transits
  <2>6. CASE \/ ApplyPropose(s, e.op) \/ ApplyConfirm(s, e.op)
             \/ ApplyWithdraw(s, e.op) \/ ApplyClear(s, e.op)
    <3>1. alert' = alert /\ e.op.kind \notin {"trigger", "ack"}
      BY <2>6 DEF ApplyPropose, ApplyConfirm, ApplyWithdraw, ApplyClear
    <3>2. \A q \in Side : SignalInv(q)'
      BY <2>1, <2>2, <3>1, OtherSide DEF Signals, SignalInv
    <3>3. \A q \in Side : TransitInv(q)'
      BY <2>1, <2>2, <3>1, OtherSide DEF Transits, TransitInv
    <3> QED
      BY <3>2, <3>3 DEF Signals, Transits
  <2> QED
    BY <2>1, <2>4, <2>5, <2>6
<1> QED
  BY <1>1, <1>2, <1>3, <1>4, <1>5, <1>6, <1>7 DEF Next, Commit, Begins

-----------------------------------------------------------------------------
(* What is true in every state.                                            *)

Types == WireTypeOK(Operation) /\ RowType /\ SignalType

LEMMA AlwaysTypes == Spec => []Types
<1>1. Init => Types
  BY InitAll DEF Types
<1>2. Types /\ [Next]_vars => Types'
  BY NextType DEF Types
<1> QED
  BY <1>1, <1>2, PTL DEF Spec

LEMMA AlwaysSignals == Spec => [](Signals /\ Transits)
<1>1. Types /\ Signals /\ Transits /\ [Next]_vars => Signals' /\ Transits'
  BY NextSignals DEF Types
<1> QED
  BY <1>1, InitAll, AlwaysTypes, PTL DEF Spec

(* Rows, calls and operations keep their shape, and a signal has a row on  *)
(* the phone that fired it and on no phone before it was fired.            *)
THEOREM SafeWordTypeOK == Spec => []TypeOK
<1>1. Types /\ Signals => TypeOK
  <2> SUFFICES ASSUME Types, Signals PROVE TypeOK
    OBVIOUS
  <2>1. \A t \in Trigger, s \in Side : /\ firedBy[t] = s => alert[s][t] # "absent"
                                       /\ firedBy[t] = "none" => alert[s][t] = "absent"
    BY DEF Signals, SignalInv
  <2> QED
    BY <2>1 DEF Types, TypeOK, RowType, SignalType
<1> QED
  BY <1>1, AlwaysTypes, AlwaysSignals, PTL

(* No term is one partner's alone, whatever was proposed, withdrawn,       *)
(* cleared or accepted meanwhile and in whatever order it arrives.         *)
THEOREM SafeWordNoTermAlone == Spec => []NoTermAlone
<1>1. Types /\ Terms /\ [Next]_vars => Terms'
  BY NextTerms DEF Types
<1>2. Terms => NoTermAlone
  BY DEF Terms, TermInv, NoTermAlone
<1> QED
  BY <1>1, <1>2, InitAll, AlwaysTypes, PTL DEF Spec

(* A partner sees a signal as received only when the other phone raised it *)
(* and its user confirmed.                                                 *)
THEOREM SafeWordAckMeansReceived == Spec => []AckMeansReceived
<1>1. Signals => AckMeansReceived
  BY DEF Signals, SignalInv, AckMeansReceived
<1> QED
  BY <1>1, AlwaysSignals, PTL


LEMMA LastOf ==
  ASSUME NEW T, T \subseteq Trigger, T # {}
  PROVE  \E t \in T : \A u \in T : u <= t
<1>1. MaxTriggers \in Nat
  BY SafeWordAssumption DEF SafeWordAssumption
<1> DEFINE D == {MaxTriggers - t : t \in T}
<1>2. D \subseteq Nat /\ D # {}
  <2>1. ASSUME NEW t \in T PROVE MaxTriggers - t \in Nat
    BY <1>1 DEF Trigger
  <2> QED
    BY <2>1
<1>3. PICK d \in D : \A m \in D : d <= m
  <2>1. PICK d \in D : \A m \in D : <<m, d>> \notin OpToRel(<, Nat)
    BY <1>2, WFMin, NatLessThanWellFounded
  <2>2. ASSUME NEW m \in D PROVE d <= m
    <3>1. m \in Nat /\ d \in Nat
      BY <1>2
    <3>2. m < d => <<m, d>> \in OpToRel(<, Nat)
      BY <3>1 DEF OpToRel
    <3>3. ~(m < d)
      BY <2>1, <3>2, Zenon
    <3> QED
      BY <3>1, <3>3
  <2> QED
    BY <2>2
<1>4. PICK t \in T : d = MaxTriggers - t
  OBVIOUS
<1>5. \A u \in T : u <= t
  <2> SUFFICES ASSUME NEW u \in T PROVE u <= t
    OBVIOUS
  <2>1. MaxTriggers - u \in D
    OBVIOUS
  <2>2. MaxTriggers - t <= MaxTriggers - u
    BY <1>3, <1>4, <2>1
  <2> QED
    BY <1>1, <2>2 DEF Trigger
<1> QED
  BY <1>5

(* Signals that cross hide each other's alert, but never both: when all is *)
(* applied and one is not acknowledged, some phone shows its alert, and    *)
(* its user can confirm.                                                   *)
THEOREM SafeWordSomeAlertUp == Spec => []SomeAlertUp
<1>1. Types /\ Signals /\ Transits => SomeAlertUp
  <2> SUFFICES ASSUME Types, Signals, Transits, Settled, NEW p \in Side, Active(p) # {}
               PROVE  \E s \in Side : AlertUp(s) # {}
    BY DEF SomeAlertUp
  <2>1. \A s \in Side : Way(s) = {}
    BY DrainedWay DEF Settled, Types
  <2>2. \A t \in Trigger : alert[p][t] = "active" <=> alert[Other(p)][t] = "active"
    <3> SUFFICES ASSUME NEW t \in Trigger
                 PROVE  alert[p][t] = "active" <=> alert[Other(p)][t] = "active"
      OBVIOUS
    <3>1. CASE firedBy[t] = "none"
      BY <3>1, OtherSide DEF Signals, SignalInv
    <3>2. ASSUME NEW s \in Side, firedBy[t] = s
          PROVE  alert[s][t] = "active" <=> alert[Other(s)][t] = "active"
      <4>1. alert[s][t] # "absent" /\ alert[Other(s)][t] # "absent"
        BY <2>1, <3>2, OtherSide DEF Signals, SignalInv, Transits, TransitInv
      <4>2. alert[s][t] = "acked" <=> alert[Other(s)][t] = "acked"
        BY <2>1, <3>2, OtherSide DEF Signals, SignalInv, Transits, TransitInv
      <4> QED
        BY <4>1, <4>2, OtherSide DEF Types, SignalType
    <3> QED
      BY <3>1, <3>2, OtherSide DEF Types, SignalType
  <2>3. Active(Other(p)) = Active(p)
    BY <2>2 DEF Active
  <2>4. PICK t \in Active(p) : \A u \in Active(p) : u <= t
    BY LastOf DEF Active
  <2>5. t \in AlertUp(p) \/ t \in AlertUp(Other(p))
    BY <2>3, <2>4, OtherSide DEF AlertUp
  <2> QED
    BY <2>5, OtherSide
<1> QED
  BY <1>1, AlwaysTypes, AlwaysSignals, PTL

-----------------------------------------------------------------------------
(* The term settles when order is kept.                                    *)

Row(s) == [term |-> term[s], proposal |-> proposal[s]]

RowState == [term : Word \cup {"none"}, proposal : Proposal]

(* What an operation of s makes of the row of the other phone. *)
Effect(s, op, x) ==
  CASE op.kind = "propose"  -> [x EXCEPT !.proposal = [by |-> s, word |-> op.arg]]
    [] op.kind = "confirm"  -> IF x.proposal.by = Other(s)
                                 THEN [term |-> x.proposal.word, proposal |-> NoProposal]
                                 ELSE x
    [] op.kind = "withdraw" -> IF x.proposal.by = s THEN [x EXCEPT !.proposal = NoProposal]
                                                    ELSE x
    [] op.kind = "clear"    -> [term |-> "none", proposal |-> NoProposal]
    [] OTHER                -> x

TermOps(s) == {op \in Way(s) : op.num > 0}

(* An operation of s is on its way that will come late or twice. *)
Behind(s) == \E op \in TermOps(s) : op.num <= newest[Other(s)]

(* r is the history of the row of s since the operation its partner        *)
(* applied last: each operation on its way takes one row to the next.      *)
Follows(s, r) ==
  LET n == newest[Other(s)] IN
  /\ n <= issued[s]
  /\ r[n] = Row(Other(s)) /\ r[issued[s]] = Row(s)
  /\ \A m \in n + 1 .. issued[s] : \E op \in TermOps(s) : op.num = m
  /\ \A op \in TermOps(s) : /\ op.num \in n + 1 .. issued[s]
                            /\ r[op.num] = Effect(s, op, r[op.num - 1])

(* Only s has changed the term since both phones agreed. *)
Leads(s) ==
  /\ TermOps(Other(s)) = {}
  /\ newest[s] = issued[Other(s)]
  /\ \E r \in [0 .. MaxOps -> RowState] : Follows(s, r)

InOrder == untidy \/ (\E s \in Side : Behind(s)) \/ (\E s \in Side : Leads(s))

(* A step that neither issues nor applies an operation of the term. *)
LEMMA OrderFrame ==
  ASSUME InOrder, UNCHANGED <<term, proposal, issued, newest>>, untidy => untidy',
         \A s \in Side : TermOps(s)' = TermOps(s)
  PROVE  InOrder'
<1>1. \A s \in Side : Other(s) \in Side
  BY OtherSide
<1>2. CASE untidy
  BY <1>2 DEF InOrder
<1>3. ASSUME NEW s \in Side, Behind(s) PROVE Behind(s)'
  BY <1>3 DEF Behind
<1>4. ASSUME NEW s \in Side, Leads(s) PROVE Leads(s)'
  <2>1. PICK r \in [0 .. MaxOps -> RowState] : Follows(s, r)
    BY <1>4 DEF Leads
  <2>2. Row(s)' = Row(s) /\ Row(Other(s))' = Row(Other(s))
    BY DEF Row
  <2>3. Follows(s, r)'
    BY <2>1, <2>2 DEF Follows
  <2> QED
    BY <1>1, <1>4, <2>3 DEF Leads
<1> QED
  BY <1>2, <1>3, <1>4 DEF InOrder

(* A store function of s that the screen of a tidy phone has called. *)
IssueStep(s, op) ==
  /\ op \in Operation /\ op.num = issued[s] + 1
  /\ Way(s)' = Way(s) \cup {op} /\ Way(Other(s))' = Way(Other(s))
  /\ issued' = [issued EXCEPT ![s] = @ + 1] /\ issued[s] < MaxOps
  /\ newest' = newest
  /\ (untidy => untidy') /\ (Crosses(s) => untidy')
  /\ untidy' \/ (Row(s)' = Effect(s, op, Row(s)) /\ Row(Other(s))' = Row(Other(s)))

LEMMA CrossesWay ==
  ASSUME NEW s \in Side PROVE Crosses(s) <=> TermOps(Other(s)) # {}
  BY OtherSide DEF Crosses, OnItsWay, TermOps, Way, Items, OnRelay

(* When nothing of either phone is on its way, either may go on. *)
LEMMA LeadsBoth ==
  ASSUME RowType, NEW s \in Side, Leads(s), TermOps(s) = {}
  PROVE  Leads(Other(s))
<1>1. Other(s) \in Side /\ Other(Other(s)) = s
  BY OtherSide
<1>2. PICK r \in [0 .. MaxOps -> RowState] : Follows(s, r)
  BY DEF Leads
<1>3. issued[s] \in Nat /\ newest[Other(s)] \in Nat /\ newest[s] \in 0 .. MaxOps
      /\ issued[Other(s)] \in Nat
  BY <1>1, SafeWordAssumption DEF RowType, SafeWordAssumption
<1>4. newest[Other(s)] = issued[s]
  BY <1>2, <1>3 DEF Follows
<1>5. Row(s) = Row(Other(s)) /\ Row(s) \in RowState
  BY <1>1, <1>2, <1>4 DEF Follows, RowType, Row, RowState
<1>6. PICK q \in [0 .. MaxOps -> RowState] : q = [n \in 0 .. MaxOps |-> Row(s)]
  BY <1>5
<1>7. Follows(Other(s), q)
  BY <1>1, <1>3, <1>5, <1>6 DEF Follows, Leads
<1> QED
  BY <1>1, <1>4, <1>7 DEF Leads

LEMMA IssueInOrder ==
  ASSUME RowType, RowType', InOrder, NEW s \in Side, NEW op, IssueStep(s, op)
  PROVE  InOrder'
<1>1. Other(s) \in Side /\ Other(Other(s)) = s /\ Side = {s, Other(s)} /\ Other(s) # s
  BY OtherSide
<1>2. issued[s] \in Nat /\ newest[Other(s)] \in Nat /\ newest[s] \in Nat
      /\ issued[s] + 1 \in 0 .. MaxOps
  BY <1>1, SafeWordAssumption DEF RowType, SafeWordAssumption, IssueStep
<1>3. TermOps(s)' = TermOps(s) \cup {op} /\ TermOps(Other(s))' = TermOps(Other(s))
  BY <1>2 DEF IssueStep, TermOps
<1>4. CASE untidy'
  BY <1>4 DEF InOrder
<1>5. ASSUME NEW q \in Side, Behind(q) PROVE Behind(q)'
  BY <1>1, <1>3, <1>5 DEF Behind, IssueStep
<1>6. ASSUME ~untidy', NEW q \in Side, Leads(q) PROVE Leads(s)'
  <2>1. TermOps(Other(s)) = {}
    BY <1>6, CrossesWay DEF IssueStep
  <2>2. Leads(s)
    BY <1>1, <1>6, <2>1, LeadsBoth
  <2>3. PICK r \in [0 .. MaxOps -> RowState] : Follows(s, r)
    BY <2>2 DEF Leads
  <2>4. PICK k : k = issued[s] + 1
    OBVIOUS
  <2>5. PICK n : n = newest[Other(s)]
    OBVIOUS
  <2>6. /\ n \in Nat /\ k \in 0 .. MaxOps /\ k - 1 = issued[s] /\ n <= k - 1
        /\ n' = n /\ issued'[s] = k /\ op.num = k /\ MaxOps \in Nat
    BY <1>1, <1>2, <2>3, <2>4, <2>5, SafeWordAssumption
       DEF Follows, IssueStep, RowType, SafeWordAssumption
  <2>7. Row(s)' = Effect(s, op, r[k - 1]) /\ Row(Other(s))' = r[n] /\ Row(s)' \in RowState
    <3>1. Row(s)' \in RowState
      BY DEF Row, RowType, RowState
    <3> QED
      BY <1>6, <2>3, <2>5, <2>6, <3>1 DEF IssueStep, Follows
  <2>8. PICK p : p = [r EXCEPT ![k] = Row(s)']
    OBVIOUS
  <2>9. /\ p \in [0 .. MaxOps -> RowState] /\ p[k] = Row(s)'
        /\ \A m \in 0 .. k - 1 : p[m] = r[m]
    BY <2>6, <2>7, <2>8
  <2>10. \A m \in n + 1 .. k : \E o \in TermOps(s)' : o.num = m
    <3>1. \A m \in n + 1 .. k - 1 : \E o \in TermOps(s) : o.num = m
      BY <2>3, <2>5, <2>6 DEF Follows
    <3> QED
      BY <1>3, <2>6, <3>1
  <2>11. \A o \in TermOps(s)' : /\ o.num \in n + 1 .. k
                                /\ p[o.num] = Effect(s, o, p[o.num - 1])
    <3>1. ASSUME NEW o \in TermOps(s)
          PROVE  /\ o.num \in n + 1 .. k - 1
                 /\ p[o.num] = Effect(s, o, p[o.num - 1])
      <4>1. o.num \in n + 1 .. k - 1 /\ r[o.num] = Effect(s, o, r[o.num - 1])
        BY <2>3, <2>5, <2>6 DEF Follows
      <4>2. p[o.num] = r[o.num] /\ p[o.num - 1] = r[o.num - 1]
        BY <2>6, <2>9, <4>1
      <4> QED
        BY <4>1, <4>2
    <3>2. op.num \in n + 1 .. k /\ p[op.num] = Effect(s, op, p[op.num - 1])
      BY <2>6, <2>7, <2>9
    <3> QED
      BY <1>3, <2>6, <3>1, <3>2
  <2>12. newest'[Other(s)] = n /\ p[n] = Row(Other(s))'
    BY <2>5, <2>6, <2>7, <2>9 DEF IssueStep
  <2>13. Follows(s, p)'
    BY <2>6, <2>9, <2>10, <2>11, <2>12 DEF Follows
  <2> QED
    BY <1>1, <1>3, <2>1, <2>2, <2>9, <2>13 DEF Leads, IssueStep
<1> QED
  BY <1>4, <1>5, <1>6 DEF InOrder, IssueStep

(* The row of the phone that issues and the effect on the other agree,     *)
(* unless the step is one that the history calls untidy.                   *)
LEMMA IssueSteps ==
  ASSUME WireTypeOK(Operation), RowType, NEW s \in Side,
         \/ ClearTerm(s)
         \/ \E i \in DOMAIN calls[s] :
              ProposeCommit(s, i) \/ AcceptCommit(s, i) \/ WithdrawCommit(s, i)
  PROVE  \E op : IssueStep(s, op)
<1>1. Other(s) \in Side /\ Other(Other(s)) = s /\ Other(s) # s
  BY OtherSide
<1>2. ASSUME NEW kind, NEW arg, Issue(s, kind, arg),
             \/ kind = "propose" /\ arg \in Word
             \/ kind \in {"confirm", "withdraw", "clear"} /\ arg = "none",
             NEW op, op = [kind |-> kind, num |-> issued[s] + 1, arg |-> arg]
      PROVE  /\ op \in Operation /\ op.num = issued[s] + 1
             /\ Way(s)' = Way(s) \cup {op} /\ Way(Other(s))' = Way(Other(s))
             /\ issued' = [issued EXCEPT ![s] = @ + 1] /\ issued[s] < MaxOps
  <2>1. op \in Operation
    BY <1>2, IssuedOperation
  <2>2. issued[s] < MaxOps
    BY <1>1, <1>2, SafeWordAssumption DEF Issue, MayIssue, RowType, SafeWordAssumption
  <2> QED
    BY <1>2, <2>1, <2>2, IssueWay DEF Issue
<1>3. proposal[s] = NoProposal \/ proposal[s] \in [by : Side, word : Word]
  BY DEF RowType, Proposal
<1>4. ASSUME NEW i \in DOMAIN calls[s], ProposeCommit(s, i) PROVE \E op : IssueStep(s, op)
  <2>0. PICK w \in Word : w = calls[s][i].word
    BY <1>4, CallsType DEF ProposeCommit
  <2>1. PICK op : op = [kind |-> "propose", num |-> issued[s] + 1, arg |-> w]
    OBVIOUS
  <2>2. Row(s)' = Effect(s, op, Row(s)) /\ Row(Other(s))' = Row(Other(s))
    BY <1>1, <1>4, <2>0, <2>1 DEF ProposeCommit, RowType, Row, Effect
  <2>3. Issue(s, "propose", w)
    BY <1>4, <2>0 DEF ProposeCommit
  <2>4. newest' = newest /\ untidy' = (untidy \/ Crosses(s))
    BY <1>4 DEF ProposeCommit
  <2> QED
    BY <1>2, <2>1, <2>2, <2>3, <2>4 DEF IssueStep
<1>5. ASSUME ClearTerm(s) PROVE \E op : IssueStep(s, op)
  <2>1. PICK op : op = [kind |-> "clear", num |-> issued[s] + 1, arg |-> "none"]
    OBVIOUS
  <2>2. Row(s)' = Effect(s, op, Row(s)) /\ Row(Other(s))' = Row(Other(s))
    BY <1>1, <1>5, <2>1 DEF ClearTerm, RowType, Row, Effect
  <2> QED
    BY <1>2, <1>5, <2>1, <2>2 DEF IssueStep, ClearTerm
<1>6. ASSUME NEW i \in DOMAIN calls[s], AcceptCommit(s, i) PROVE \E op : IssueStep(s, op)
  <2>1. PICK op : op = [kind |-> "confirm", num |-> issued[s] + 1, arg |-> "none"]
    OBVIOUS
  <2>2. /\ calls[s][i] \in Call /\ calls[s][i] \in Items(calls[s])
        /\ calls[s][i].kind = "accept"
    BY <1>6, CallsType DEF AcceptCommit
  <2>3. calls[s][i].word \in Word
    BY <2>2 DEF Call
  <2>4. /\ Row(s)' = [term |-> calls[s][i].word, proposal |-> NoProposal]
        /\ Row(Other(s))' = Row(Other(s))
    BY <1>1, <1>6 DEF AcceptCommit, RowType, Row
  <2>5. ~Stale(s, i) /\ Incoming(s) => Row(s)' = Effect(s, op, Row(s))
    BY <2>1, <2>4 DEF Effect, Row, Stale, Incoming
  <2> QED
    BY <1>2, <1>6, <2>1, <2>4, <2>5 DEF IssueStep, AcceptCommit, Stale
<1>7. ASSUME NEW i \in DOMAIN calls[s], WithdrawCommit(s, i) PROVE \E op : IssueStep(s, op)
  <2>1. PICK op : op = [kind |-> "withdraw", num |-> issued[s] + 1, arg |-> "none"]
    OBVIOUS
  <2>2. /\ proposal[s].by = s => Row(s)' = Effect(s, op, Row(s))
        /\ Row(Other(s))' = Row(Other(s))
    BY <1>1, <1>7, <2>1 DEF WithdrawCommit, RowType, Row, Effect
  <2> QED
    BY <1>2, <1>7, <2>1, <2>2 DEF IssueStep, WithdrawCommit, Stale
<1> QED
  BY <1>4, <1>5, <1>6, <1>7

(* The partner applies what comes next, or the history turns untidy, or    *)
(* something was left behind that will make it so.                         *)
LEMMA ApplyInOrder ==
  ASSUME WireTypeOK(Operation), RowType, InOrder, NEW s \in Side, ApplyNext(s)
  PROVE  InOrder'
<1>1. Other(s) \in Side /\ Other(Other(s)) = s /\ Side = {s, Other(s)} /\ Other(s) # s
  BY OtherSide
<1>2. PICK e \in page[s] :
        /\ Take(s, e)
        /\ \/ ApplyPropose(s, e.op) \/ ApplyConfirm(s, e.op)
           \/ ApplyWithdraw(s, e.op) \/ ApplyClear(s, e.op)
           \/ ApplyTrigger(s, e.op) \/ ApplyAck(s, e.op)
        /\ newest' = [newest EXCEPT ![s] = IF e.op.num > @ THEN e.op.num ELSE @]
        /\ untidy' = (untidy \/ e.op.num \in 1 .. newest[s])
        /\ issued' = issued
  BY DEF ApplyNext
<1>3. PICK op : op = e.op
  OBVIOUS
<1>4. PICK p : p = Other(s)
  OBVIOUS
<1>5. /\ op \in Operation /\ op \in Way(p) /\ Way(s)' = Way(s)
      /\ Way(p)' \subseteq Way(p) /\ Way(p) \subseteq Way(p)' \cup {op}
  BY <1>2, <1>3, <1>4, TakeWay
<1>6. op.num \in 0 .. MaxOps /\ newest[s] \in Nat /\ issued[p] \in 0 .. MaxOps /\ MaxOps \in Nat
  BY <1>1, <1>4, <1>5, OperationFacts, SafeWordAssumption DEF RowType, SafeWordAssumption
<1>7. newest'[s] = (IF op.num > newest[s] THEN op.num ELSE newest[s]) /\ newest'[p] = newest[p]
  BY <1>1, <1>2, <1>3, <1>4 DEF RowType
<1>8. Row(s)' = Effect(p, op, Row(s)) /\ Row(p)' = Row(p)
  <2>1. CASE ApplyPropose(s, op)
    BY <1>1, <1>4, <2>1 DEF ApplyPropose, RowType, Row, Effect
  <2>2. CASE ApplyConfirm(s, op)
    BY <1>1, <1>4, <2>2 DEF ApplyConfirm, RowType, Row, Effect
  <2>3. CASE ApplyWithdraw(s, op)
    BY <1>1, <1>4, <2>3 DEF ApplyWithdraw, RowType, Row, Effect
  <2>4. CASE ApplyClear(s, op)
    BY <1>1, <1>4, <2>4 DEF ApplyClear, RowType, Row, Effect
  <2>5. CASE ApplyTrigger(s, op) \/ ApplyAck(s, op)
    BY <1>1, <1>4, <2>5 DEF ApplyTrigger, ApplyAck, termRow, RowType, Row, Effect
  <2> QED
    BY <1>2, <1>3, <2>1, <2>2, <2>3, <2>4, <2>5
<1>9. CASE untidy'
  BY <1>9 DEF InOrder
<1>10. ASSUME ~untidy', NEW q \in Side, Behind(q) PROVE Behind(q)'
  <2>1. PICK o \in TermOps(q) : o.num <= newest[Other(q)]
    BY <1>10 DEF Behind
  <2>2. CASE q = s
    BY <1>4, <1>5, <1>7, <2>1, <2>2 DEF Behind, TermOps
  <2>3. CASE q = p
    <3>1. o \in Operation
      BY <1>1, <1>4, <2>1, <2>3, WayType DEF TermOps
    <3>2. o.num \in 1 .. newest[s]
      BY <1>1, <1>4, <1>6, <2>1, <2>3, <3>1, OperationFacts DEF TermOps
    <3>3. o # op
      BY <1>2, <1>3, <1>10, <3>2
    <3>4. o \in TermOps(p)' /\ o.num <= newest'[s]
      BY <1>5, <1>6, <1>7, <2>1, <2>3, <3>2, <3>3 DEF TermOps
    <3> QED
      BY <1>1, <1>4, <2>3, <3>4 DEF Behind
  <2> QED
    BY <1>1, <1>4, <2>2, <2>3
<1>11. CASE op.num = 0
  <2>1. \A q \in Side : TermOps(q)' = TermOps(q)
    BY <1>1, <1>4, <1>5, <1>11 DEF TermOps
  <2>2. UNCHANGED <<term, proposal, issued, newest>>
    <3>1. newest' = newest
      BY <1>2, <1>3, <1>6, <1>11 DEF RowType
    <3>2. op.kind \in {"trigger", "ack"}
      BY <1>5, <1>11, SafeWordAssumption DEF Operation, SafeWordAssumption
    <3>3. UNCHANGED <<term, proposal>>
      BY <1>2, <1>3, <3>2 DEF ApplyPropose, ApplyConfirm, ApplyWithdraw, ApplyClear,
                              ApplyTrigger, ApplyAck, termRow
    <3> QED
      BY <1>2, <3>1, <3>3
  <2> QED
    BY <1>2, <2>1, <2>2, OrderFrame
<1>12. ASSUME ~untidy', op.num > 0, NEW q \in Side, Leads(q), ~Behind(p)'
       PROVE  Leads(p)'
  <2>1. Leads(p) /\ op \in TermOps(p)
    BY <1>1, <1>4, <1>5, <1>12 DEF Leads, TermOps
  <2>2. PICK r \in [0 .. MaxOps -> RowState] : Follows(p, r)
    BY <2>1 DEF Leads
  <2>3. PICK n : n = newest[s]
    OBVIOUS
  <2>4. /\ n \in Nat /\ n <= issued[p] /\ r[n] = Row(s) /\ r[issued[p]] = Row(p)
        /\ \A m \in n + 1 .. issued[p] : \E o \in TermOps(p) : o.num = m
        /\ \A o \in TermOps(p) : /\ o.num \in n + 1 .. issued[p]
                                 /\ r[o.num] = Effect(p, o, r[o.num - 1])
    BY <1>1, <1>4, <1>6, <2>2, <2>3 DEF Follows
  <2>5. op.num \in n + 1 .. issued[p] /\ newest'[s] = op.num
    BY <1>6, <1>7, <2>1, <2>3, <2>4
  <2>6. \A o \in TermOps(p) : o # op => o \in TermOps(p)' /\ o.num > op.num
    <3> SUFFICES ASSUME NEW o \in TermOps(p), o # op PROVE o \in TermOps(p)' /\ o.num > op.num
      OBVIOUS
    <3>1. o \in TermOps(p)'
      BY <1>5 DEF TermOps
    <3>2. ~(o.num <= newest'[s])
      BY <1>1, <1>4, <1>12, <3>1 DEF Behind
    <3> QED
      BY <2>4, <2>5, <3>1, <3>2
  <2>7. op.num = n + 1
    <3>1. n + 1 \in n + 1 .. issued[p]
      BY <1>6, <2>4, <2>5
    <3>2. PICK o \in TermOps(p) : o.num = n + 1
      BY <2>4, <3>1
    <3> QED
      BY <2>4, <2>5, <2>6, <3>2
  <2>8. TermOps(p)' = TermOps(p) \ {op}
    <3>1. op \notin TermOps(p)'
      BY <1>1, <1>4, <1>12, <2>5 DEF Behind
    <3> QED
      BY <1>5, <2>6, <3>1 DEF TermOps
  <2>9. r[op.num] = Row(s)'
    BY <1>8, <2>1, <2>4, <2>7
  <2>10. \A m \in op.num + 1 .. issued[p] : \E o \in TermOps(p)' : o.num = m
    BY <2>4, <2>5, <2>7, <2>8
  <2>11. \A o \in TermOps(p)' : /\ o.num \in op.num + 1 .. issued[p]
                                /\ r[o.num] = Effect(p, o, r[o.num - 1])
    BY <2>4, <2>5, <2>6, <2>8
  <2>12. Follows(p, r)'
    BY <1>1, <1>2, <1>4, <1>8, <2>4, <2>5, <2>9, <2>10, <2>11 DEF Follows
  <2>13. TermOps(s)' = TermOps(s) /\ TermOps(s) = {} /\ newest[p] = issued[s]
    BY <1>1, <1>4, <1>5, <2>1 DEF Leads, TermOps
  <2> QED
    BY <1>1, <1>2, <1>4, <1>7, <2>12, <2>13 DEF Leads
<1>13. ASSUME ~untidy', NEW q \in Side, Leads(q) PROVE InOrder'
  <2>1. CASE op.num > 0
    <3>1. Behind(p)' \/ Leads(p)'
      BY <1>12, <1>13, <2>1
    <3> QED
      BY <1>1, <1>4, <3>1 DEF InOrder
  <2>2. CASE op.num = 0
    BY <1>11, <2>2
  <2> QED
    BY <1>6, <2>1, <2>2
<1>14. ASSUME ~untidy' PROVE ~untidy
  BY <1>2, <1>14
<1> QED
  BY <1>9, <1>10, <1>13, <1>14 DEF InOrder

LEMMA NextInOrder ==
  /\ WireTypeOK(Operation) /\ RowType /\ RowType' /\ InOrder /\ [Next]_vars
  => InOrder'
<1> SUFFICES ASSUME WireTypeOK(Operation), RowType, RowType', InOrder, [Next]_vars
             PROVE  InOrder'
  OBVIOUS
<1>1. ASSUME NEW s \in Side,
             \/ ClearTerm(s)
             \/ \E i \in DOMAIN calls[s] :
                  ProposeCommit(s, i) \/ AcceptCommit(s, i) \/ WithdrawCommit(s, i)
      PROVE  InOrder'
  BY <1>1, IssueSteps, IssueInOrder
<1>2. ASSUME NEW s \in Side, Look(s) \/ Sync(s) \/ Restart(s) \/ Begins(s)
      PROVE  InOrder'
  <2>1. CASE Begins(s)
    <3>1. PICK kind, w : Begin(s, kind, w)
      BY <2>1, BeginCarries
    <3>2. UNCHANGED <<term, proposal, issued, newest, untidy>> /\ \A q \in Side : Way(q)' = Way(q)
      BY <3>1, WireQuiet DEF Begin, termRow
    <3> QED
      BY <3>2, OrderFrame DEF TermOps
  <2>2. CASE Look(s) \/ Sync(s) \/ Restart(s)
    <3>1. UNCHANGED <<term, proposal, issued, newest, untidy>>
      BY <2>2 DEF Look, Sync, Restart, termRow
    <3>2. \A q \in Side : Way(q)' = Way(q)
      BY <2>2, WireQuiet, WireStepWay DEF Look, Sync, Restart
    <3> QED
      BY <3>1, <3>2, OrderFrame DEF TermOps
  <2> QED
    BY <1>2, <2>1, <2>2
<1>3. ASSUME NEW s \in Side,
             \/ AckTrigger(s)
             \/ \E i \in DOMAIN calls[s], t \in Trigger : FireCommit(s, i, t)
      PROVE  InOrder'
  <2>1. UNCHANGED <<term, proposal, issued, newest, untidy>>
    BY <1>3 DEF AckTrigger, FireCommit, termRow
  <2>2. PICK kind \in {"trigger", "ack"}, t \in Trigger :
          Queue(s, [kind |-> kind, num |-> 0, arg |-> t])
    BY <1>3 DEF AckTrigger, AlertUp, Active, FireCommit
  <2>3. PICK op : op = [kind |-> kind, num |-> 0, arg |-> t]
    OBVIOUS
  <2>4. op \in Operation /\ op.num = 0
    BY <2>3 DEF Operation
  <2>5. Way(s)' = Way(s) \cup {op} /\ Way(Other(s))' = Way(Other(s))
    BY <2>2, <2>3, <2>4, QueueWay
  <2>6. \A q \in Side : TermOps(q)' = TermOps(q)
    BY <2>4, <2>5, OtherSide DEF TermOps
  <2> QED
    BY <2>1, <2>6, OrderFrame
<1>4. ASSUME NEW s \in Side, ApplyNext(s) PROVE InOrder'
  BY <1>4, ApplyInOrder
<1>5. CASE UNCHANGED vars
  <2>1. \A q \in Side : Way(q)' = Way(q)
    BY <1>5, WireQuiet DEF vars
  <2> QED
    BY <1>5, <2>1, OrderFrame DEF vars, termRow, TermOps
<1> QED
  BY <1>1, <1>2, <1>3, <1>4, <1>5 DEF Next, Commit, Begins

(* Everything applied in order, once and on the row it was meant for, both *)
(* phones hold the same term and the same pending proposal, however many   *)
(* proposals, acceptances, withdrawals and clearings there were.           *)
THEOREM SafeWordTermSettlesInOrder == Spec => []TermSettlesInOrder
<1>1. Init => InOrder
  <2> SUFFICES ASSUME Init PROVE InOrder
    OBVIOUS
  <2>1. \A s \in Side : Way(s) = {}
    BY WireInitWay DEF Init
  <2>3. "a" \in Side /\ "b" \in Side /\ Other("a") = "b"
    BY DEF Side, Other
  <2>4. PICK x : x = [term |-> "none", proposal |-> NoProposal]
    OBVIOUS
  <2>5. x \in RowState /\ Row("a") = x /\ Row("b") = x
    BY <2>3, <2>4 DEF Init, Row, RowState, Proposal
  <2>6. PICK r \in [0 .. MaxOps -> RowState] : r = [n \in 0 .. MaxOps |-> x]
    BY <2>5
  <2>7. issued["a"] = 0 /\ issued["b"] = 0 /\ newest["a"] = 0 /\ newest["b"] = 0
    BY <2>3 DEF Init
  <2>8. 0 \in 0 .. MaxOps
    BY SafeWordAssumption DEF SafeWordAssumption
  <2>9. TermOps("a") = {} /\ TermOps("b") = {}
    BY <2>1, <2>3 DEF TermOps
  <2>10. Follows("a", r)
    BY <2>3, <2>5, <2>6, <2>7, <2>8, <2>9 DEF Follows
  <2> QED
    BY <2>3, <2>6, <2>7, <2>9, <2>10 DEF InOrder, Leads
<1>2. Types /\ Types' /\ InOrder /\ [Next]_vars => InOrder'
  BY NextInOrder DEF Types
<1>3. Types /\ InOrder => TermSettlesInOrder
  <2> SUFFICES ASSUME Types, InOrder, Settled, ~untidy
               PROVE  term["a"] = term["b"] /\ proposal["a"] = proposal["b"]
    BY DEF TermSettlesInOrder
  <2>1. \A s \in Side : TermOps(s) = {}
    BY DrainedWay DEF Types, Settled, TermOps
  <2>2. PICK s \in Side : Leads(s)
    BY <2>1 DEF InOrder, Behind
  <2>3. PICK r \in [0 .. MaxOps -> RowState] : Follows(s, r)
    BY <2>2 DEF Leads
  <2>4. issued[s] \in Nat /\ newest[Other(s)] \in Nat
    BY OtherSide, SafeWordAssumption DEF Types, RowType, SafeWordAssumption
  <2>5. newest[Other(s)] = issued[s]
    BY <2>1, <2>3, <2>4 DEF Follows
  <2>6. Row(s) = Row(Other(s))
    BY <2>3, <2>5 DEF Follows
  <2>7. s \in {"a", "b"} /\ {s, Other(s)} = {"a", "b"}
    BY OtherSide DEF Side
  <2> QED
    BY <2>6, <2>7 DEF Row
<1> QED
  BY <1>1, <1>2, <1>3, AlwaysTypes, PTL DEF Spec

=============================================================================

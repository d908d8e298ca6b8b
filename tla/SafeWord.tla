------------------------------ MODULE SafeWord ------------------------------
(***************************************************************************)
(* The shared roleplay term and the signal that uses it: the handshake of  *)
(* features/safeword/term-store.ts, the triggers of trigger-store.ts, the  *)
(* screen that offers the operations (SafeWordRoute.tsx), the app-wide     *)
(* alert (SafeWordAlert.tsx) and the cases of applyCrdtOp.                 *)
(*                                                                         *)
(* The screen shows what it read up to five seconds ago, and a store       *)
(* function reads the row, derives a verifier with Argon2id and only then  *)
(* opens its transaction: a pull may change the row at both points.        *)
(***************************************************************************)
EXTENDS Wire

CONSTANTS
  Word,         \* the words the partners propose
  MaxCalls,     \* bound: store calls of a phone past their guards
  MaxOps,       \* bound: term operations issued by both partners
  MaxTriggers   \* bound: signals fired by both

ASSUME SafeWordAssumption ==
  /\ MaxCalls \in Nat \ {0} /\ MaxOps \in Nat /\ MaxTriggers \in Nat
  /\ "none" \notin Word

VARIABLES
  proposal, \* [Side -> Proposal]: safeword_proposal_by and _term
  term,     \* [Side -> Word or "none"]: safeword_term, set with safeword_confirmed_at
  alert,    \* [Side -> [Trigger -> status]]: the rows of safeword_trigger
  firedBy,  \* [Trigger -> Side or "none"]: triggered_by_pubkey, the same in both rows
  screen,   \* [Side -> STRING]: what SafeWordRoute last read of the row
  calls,    \* [Side -> Seq(Call)]: store calls between their read and their transaction
  issued,   \* [Side -> Nat]: term operations issued so far, numbers them
  newest,   \* [Side -> Nat]: history, number of the newest term op applied
  proposed, \* [Side -> SUBSET Word]: history, words a partner has proposed
  accepted, \* [Side -> SUBSET Word]: history, words a partner has accepted
  untidy    \* history: an op came late or twice, crossed another or met a changed row

termRow    == <<proposal, term>>
signals    == <<alert, firedBy>>
consent    == <<proposed, accepted>>
vars == <<wireVars, termRow, signals, screen, calls, issued, newest,
          consent, untidy>>

Trigger == 1 .. MaxTriggers   \* in the order of triggered_at, then id

NoProposal == [by |-> "none", word |-> "none"]

Init ==
  /\ WireInit
  /\ proposal = [s \in Side |-> NoProposal]
  /\ term = [s \in Side |-> "none"]
  /\ alert = [s \in Side |-> [t \in Trigger |-> "absent"]]
  /\ firedBy = [t \in Trigger |-> "none"]
  /\ screen = [s \in Side |-> "none"]
  /\ calls = [s \in Side |-> << >>]
  /\ issued = [s \in Side |-> 0]
  /\ newest = [s \in Side |-> 0]
  /\ proposed = [s \in Side |-> {}]
  /\ accepted = [s \in Side |-> {}]
  /\ untidy = FALSE

-----------------------------------------------------------------------------
(* The screen.                                                             *)

(* getTermState: a pending proposal hides the active term. *)
TermState(s) ==
  LET by == proposal[s].by IN
  IF by = s THEN "awaiting_partner"
  ELSE IF by # "none" THEN "incoming_proposal"
  ELSE IF term[s] # "none" THEN "set" ELSE "none"

(* refresh, on focus and every five seconds. *)
Look(s) ==
  /\ screen' = [screen EXCEPT ![s] = TermState(s)]
  /\ screen' # screen
  /\ UNCHANGED <<wireVars, termRow, signals, calls, issued, newest, consent, untidy>>

Refreshed(s) == screen' = [screen EXCEPT ![s] = TermState(s)']

(* What the screen has a button for in each state it shows. *)
Offered ==
  [none |-> {"propose"}, awaiting_partner |-> {"withdraw"},
   incoming_proposal |-> {"propose", "accept"}, set |-> {"propose", "clear", "fire"}]

(* A handler runs; its buttons are disabled meanwhile, Accept is not. *)
Busy(s) == calls[s] # << >>

Offers(s, kind) ==
  /\ kind \in Offered[screen[s]]
  /\ kind = "accept" \/ ~Busy(s)

-----------------------------------------------------------------------------
(* term-store.ts.                                                          *)

OnItsWay(s) ==
  {outbox[s][i] : i \in DOMAIN outbox[s]} \cup {e.op : e \in inbox[Other(s)]}

Crosses(s) == \E op \in OnItsWay(Other(s)) : op.num > 0

(* Bound: no operation is issued past MaxOps, and no call begun for one. *)
MayIssue(s) == issued[s] + issued[Other(s)] < MaxOps

(* deps.enqueue, in the transaction of the caller. *)
Issue(s, kind, arg) ==
  /\ MayIssue(s)
  /\ issued' = [issued EXCEPT ![s] = @ + 1]
  /\ Queue(s, [kind |-> kind, num |-> issued[s] + 1, arg |-> arg])

(* A store function has read the row and passed its guards. *)
Begin(s, kind, w) ==
  /\ Len(calls[s]) < MaxCalls
  /\ calls' = [calls EXCEPT ![s] = Append(@, [kind |-> kind, word |-> w])]
  /\ UNCHANGED <<wireVars, termRow, signals, screen, issued, newest, consent, untidy>>

Returns(s, i) ==
  calls' = [calls EXCEPT ![s] = SubSeq(@, 1, i - 1) \o SubSeq(@, i + 1, Len(@))]

(* proposeTerm derives the verifier of the word, ... *)
ProposeTerm(s, w) ==
  /\ MayIssue(s)
  /\ Offers(s, "propose")
  /\ Begin(s, "propose", w)

(* ... and then writes over whatever is pending; the active term stays. *)
ProposeCommit(s, i) ==
  LET call == calls[s][i] IN
  /\ call.kind = "propose"
  /\ Issue(s, "propose", call.word)
  /\ proposal' = [proposal EXCEPT ![s] = [by |-> s, word |-> call.word]]
  /\ proposed' = [proposed EXCEPT ![s] = @ \cup {call.word}]
  /\ untidy' = (untidy \/ Crosses(s))
  /\ Returns(s, i)
  /\ UNCHANGED <<term, signals, newest, accepted>>
  /\ Refreshed(s)

Incoming(s) == proposal[s].by = Other(s)

(* acceptTerm; its button stays enabled while a call is running.           *)
(* confirmTerm, for a proposal that came without its word, differs in the  *)
(* user typing the word: a wrong one is an error and changes nothing here. *)
AcceptTerm(s) ==
  /\ MayIssue(s)
  /\ Offers(s, "accept")
  /\ Incoming(s)
  /\ Begin(s, "accept", proposal[s].word)

(* withdrawProposal, while it is the user's own. *)
WithdrawProposal(s) ==
  /\ MayIssue(s)
  /\ Offers(s, "withdraw")
  /\ proposal[s].by = s
  /\ Begin(s, "withdraw", proposal[s].word)

Stale(s, i) == Crosses(s) \/ proposal[s].word # calls[s][i].word

(* The transaction of acceptTerm or confirmTerm, with the word it read. *)
AcceptCommit(s, i) ==
  LET call == calls[s][i] IN
  /\ call.kind = "accept"
  /\ Issue(s, "confirm", "none")
  /\ term' = [term EXCEPT ![s] = call.word]
  /\ proposal' = [proposal EXCEPT ![s] = NoProposal]
  /\ accepted' = [accepted EXCEPT ![s] = @ \cup {call.word}]
  /\ untidy' = (untidy \/ Stale(s, i) \/ ~Incoming(s))
  /\ Returns(s, i)
  /\ UNCHANGED <<signals, newest, proposed>>
  /\ Refreshed(s)

(* The transaction of withdrawProposal clears whatever is pending by now. *)
WithdrawCommit(s, i) ==
  /\ calls[s][i].kind = "withdraw"
  /\ Issue(s, "withdraw", "none")
  /\ proposal' = [proposal EXCEPT ![s] = NoProposal]
  /\ untidy' = (untidy \/ Stale(s, i) \/ proposal[s].by # s)
  /\ Returns(s, i)
  /\ UNCHANGED <<term, signals, newest, consent>>
  /\ Refreshed(s)

(* clearTerm, by either partner, with the pending proposal. *)
ClearTerm(s) ==
  /\ Offers(s, "clear")
  /\ Issue(s, "clear", "none")
  /\ term' = [term EXCEPT ![s] = "none"]
  /\ proposal' = [proposal EXCEPT ![s] = NoProposal]
  /\ untidy' = (untidy \/ Crosses(s))
  /\ UNCHANGED <<signals, calls, newest, consent>>
  /\ Refreshed(s)

-----------------------------------------------------------------------------
(* trigger-store.ts.                                                       *)

(* fireTrigger reads that a term is set ... *)
FireTrigger(s) ==
  /\ Offers(s, "fire")
  /\ term[s] # "none"
  /\ \E t \in Trigger : firedBy[t] = "none"
  /\ Begin(s, "fire", "none")

(* Mutant: only one signal of a partner is kept active. *)
FireCommitReplaces(s, i, t) ==
  /\ calls[s][i].kind = "fire"
  /\ firedBy[t] = "none"
  /\ firedBy' = [firedBy EXCEPT ![t] = s]
  /\ alert' = [alert EXCEPT ![s] =
                 [u \in Trigger |-> IF u = t THEN "active"
                                    ELSE IF firedBy[u] = s THEN "acked" ELSE @[u]]]
  /\ Queue(s, [kind |-> "trigger", num |-> 0, arg |-> t])
  /\ Returns(s, i)
  /\ UNCHANGED <<termRow, screen, issued, newest, consent, untidy>>

(* ... and then inserts the signal.  Its id and time order it anywhere     *)
(* among the others: the clocks of the phones differ.                      *)
FireCommit(s, i, t) ==
  /\ calls[s][i].kind = "fire"
  /\ firedBy[t] = "none"
  /\ firedBy' = [firedBy EXCEPT ![t] = s]
  /\ alert' = [alert EXCEPT ![s][t] = "active"]
  /\ Queue(s, [kind |-> "trigger", num |-> 0, arg |-> t])
  /\ Returns(s, i)
  /\ UNCHANGED <<termRow, screen, issued, newest, consent, untidy>>

Active(s) == {t \in Trigger : alert[s][t] = "active"}

(* getActiveTrigger, as SafeWordAlert shows it: the newest active signal,  *)
(* and only if the partner fired it.                                       *)
AlertUp(s) == {t \in Active(s) : firedBy[t] # s /\ \A u \in Active(s) : u <= t}

(* ackTrigger, from the alert or from the screen. *)
AckTrigger(s) ==
  \E t \in AlertUp(s) :
    /\ alert' = [alert EXCEPT ![s][t] = "acked"]
    /\ Queue(s, [kind |-> "ack", num |-> 0, arg |-> t])
    /\ UNCHANGED <<termRow, firedBy, screen, calls, issued, newest, consent, untidy>>

-----------------------------------------------------------------------------
(* applyCrdtOp on phone s.                                                 *)

ApplyPropose(s, op) ==
  /\ op.kind = "propose"
  /\ proposal' = [proposal EXCEPT ![s] = [by |-> Other(s), word |-> op.arg]]
  /\ UNCHANGED <<term, alert>>

(* Mutant: whoever made the proposal, it is promoted. *)
ApplyConfirmAny(s, op) ==
  /\ op.kind = "confirm"
  /\ term' = [term EXCEPT ![s] = IF proposal[s] # NoProposal THEN proposal[s].word ELSE @]
  /\ proposal' = [proposal EXCEPT ![s] = NoProposal]
  /\ UNCHANGED alert

(* The proposal pending by now is promoted, if this phone made it. *)
ApplyConfirm(s, op) ==
  LET hit == proposal[s].by = s IN
  /\ op.kind = "confirm"
  /\ term' = [term EXCEPT ![s] = IF hit THEN proposal[s].word ELSE @]
  /\ proposal' = [proposal EXCEPT ![s] = IF hit THEN NoProposal ELSE @]
  /\ UNCHANGED alert

(* Mutant: a withdrawal is only local. *)
ApplyWithdrawNothing(s, op) ==
  /\ op.kind = "withdraw"
  /\ UNCHANGED <<proposal, term, alert>>

ApplyWithdraw(s, op) ==
  /\ op.kind = "withdraw"
  /\ proposal' = [proposal EXCEPT ![s] = IF @.by = Other(s) THEN NoProposal ELSE @]
  /\ UNCHANGED <<term, alert>>

ApplyClear(s, op) ==
  /\ op.kind = "clear"
  /\ term' = [term EXCEPT ![s] = "none"]
  /\ proposal' = [proposal EXCEPT ![s] = NoProposal]
  /\ UNCHANGED alert

(* Mutant: a signal is shown only while a term is set. *)
ApplyTriggerIfSet(s, op) ==
  /\ op.kind = "trigger"
  /\ alert' = [alert EXCEPT ![s][op.arg] =
                 IF @ = "absent" /\ term[s] # "none" THEN "active" ELSE @]
  /\ UNCHANGED termRow

(* INSERT OR IGNORE. *)
ApplyTrigger(s, op) ==
  /\ op.kind = "trigger"
  /\ alert' = [alert EXCEPT ![s][op.arg] = IF @ = "absent" THEN "active" ELSE @]
  /\ UNCHANGED termRow

ApplyAck(s, op) ==
  /\ op.kind = "ack"
  /\ alert' = [alert EXCEPT ![s][op.arg] =
                 IF @ = "active" /\ firedBy[op.arg] # Other(s) THEN "acked" ELSE @]
  /\ UNCHANGED termRow

ApplyNext(s) ==
  \E e \in page[s] :
    LET op == e.op IN
    /\ Take(s, e)
    /\ \/ ApplyPropose(s, op) \/ ApplyConfirm(s, op)
       \/ ApplyWithdraw(s, op) \/ ApplyClear(s, op)
       \/ ApplyTrigger(s, op) \/ ApplyAck(s, op)
    /\ newest' = [newest EXCEPT ![s] = IF op.num > @ THEN op.num ELSE @]
    /\ untidy' = (untidy \/ op.num \in 1 .. newest[s])
    /\ UNCHANGED <<firedBy, screen, calls, issued, consent>>

-----------------------------------------------------------------------------
(* The app is killed and started again: nothing in memory survives.  A     *)
(* kill in the middle of a pull is PullAborts, which is bounded.           *)
Restart(s) ==
  /\ page[s] = {}
  /\ calls[s] # << >>
  /\ calls' = [calls EXCEPT ![s] = << >>]
  /\ UNCHANGED <<wireVars, termRow, signals, issued, newest, consent, untidy>>
  /\ Refreshed(s)

Sync(s) ==
  /\ WireStep(s)
  /\ UNCHANGED <<termRow, signals, screen, calls, issued, newest, consent, untidy>>

Commit(s) ==
  \E i \in DOMAIN calls[s] :
    \/ ProposeCommit(s, i)
    \/ AcceptCommit(s, i)
    \/ WithdrawCommit(s, i)
    \/ \E t \in Trigger : FireCommit(s, i, t)

Next ==
  \E s \in Side :
    \/ Look(s)
    \/ \E w \in Word : ProposeTerm(s, w)
    \/ AcceptTerm(s) \/ WithdrawProposal(s) \/ ClearTerm(s)
    \/ FireTrigger(s) \/ AckTrigger(s)
    \/ Commit(s) \/ Restart(s)
    \/ Sync(s) \/ ApplyNext(s)

Spec == Init /\ [][Next]_vars

(* The ticker keeps syncing, and a partner confirms an alert that is up:   *)
(* it covers every screen and acknowledging it is the only way out.        *)
FairSpec ==
  /\ Spec
  /\ \A s \in Side : WF_vars(Sync(s)) /\ WF_vars(ApplyNext(s)) /\ WF_vars(AckTrigger(s))

-----------------------------------------------------------------------------
Operation ==
  [kind : {"propose"}, num : 1 .. MaxOps, arg : Word]
    \cup [kind : {"confirm", "withdraw", "clear"}, num : 1 .. MaxOps, arg : {"none"}]
    \cup [kind : {"trigger", "ack"}, num : {0}, arg : Trigger]

Proposal == {NoProposal} \cup [by : Side, word : Word]

Call ==
  [kind : {"propose", "accept", "withdraw"}, word : Word]
    \cup [kind : {"fire"}, word : {"none"}]

TypeOK ==
  /\ WireTypeOK(Operation)
  /\ proposal \in [Side -> Proposal]
  /\ term \in [Side -> Word \cup {"none"}]
  /\ alert \in [Side -> [Trigger -> {"absent", "active", "acked"}]]
  /\ firedBy \in [Trigger -> Side \cup {"none"}]
  /\ screen \in [Side -> {"none", "set", "awaiting_partner",
                          "incoming_proposal"}]
  /\ calls \in [Side -> Seq(Call)]
  /\ issued \in [Side -> 0 .. MaxOps]
  /\ newest \in [Side -> 0 .. MaxOps]
  /\ proposed \in [Side -> SUBSET Word]
  /\ accepted \in [Side -> SUBSET Word]
  /\ untidy \in BOOLEAN
  /\ \A t \in Trigger, s \in Side :
       /\ firedBy[t] = s => alert[s][t] # "absent"
       /\ firedBy[t] = "none" => alert[s][t] = "absent"

Settled == \A s \in Side : Drained(s)

(* Everything applied in order, once, on the row it was meant for, both    *)
(* phones hold the same term and the same pending proposal.                *)
TermSettlesInOrder ==
  Settled /\ ~untidy => term["a"] = term["b"] /\ proposal["a"] = proposal["b"]

(* No term is one partner's alone: who holds it accepted what the other    *)
(* proposed, or proposed it and the other accepted a proposal.  This needs *)
(* no order: "the confirm ... echoing the confirmer's OWN proposal" is a   *)
(* no-op (projector.ts 331-335).                                           *)
NoTermAlone ==
  \A s \in Side : term[s] # "none" =>
    \/ term[s] \in accepted[s] \cap proposed[Other(s)]
    \/ term[s] \in proposed[s] /\ accepted[Other(s)] # {}

(* A partner sees a signal as received only when the other phone raised it *)
(* and its user confirmed.                                                 *)
AckMeansReceived ==
  \A t \in Trigger : \A s \in Side :
    firedBy[t] = s /\ alert[s][t] = "acked" => alert[Other(s)][t] = "acked"

(* Signals that cross hide each other's alert, but never both: when all    *)
(* is applied and one is not acknowledged, some phone shows its alert.     *)
SomeAlertUp ==
  Settled /\ (\E s \in Side : Active(s) # {}) => \E s \in Side : AlertUp(s) # {}

(* Again and again no signal is left unacknowledged on either phone: each  *)
(* is confirmed in the end, whatever has become of the term.               *)
EverySignalAcked ==
  []<>(\A t \in Trigger, s \in Side : firedBy[t] # "none" => alert[s][t] = "acked")

(* Refuted: the term a confirm makes active is one the confirmer accepted. *)
ConfirmedByBoth ==
  \A s \in Side : term[s] # "none" =>
    term[s] \in accepted[s] \/ term[s] \in accepted[Other(s)]

(* Refuted: "once set, either partner can fire the safe word"              *)
(* (SafeWordRoute.tsx 36); a pending proposal takes the button away.       *)
SetMeansFireable == \A s \in Side : term[s] # "none" => TermState(s) = "set"

(* Refuted: a partner's signal "stays up until the user confirms receipt"  *)
(* (SafeWordAlert.tsx 17).                                                 *)
AlertStaysUp ==
  \A s \in Side : (\E t \in Active(s) : firedBy[t] # s) => AlertUp(s) # {}

=============================================================================

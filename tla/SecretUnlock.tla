---------------------------- MODULE SecretUnlock ----------------------------
(***************************************************************************)
(* The unlock loop: features/secret-unlock/store.ts on the phone that      *)
(* acts, the secret_unlock.* and ledger_entry.add cases of applyCrdtOp     *)
(* (connection-channel/projector.ts) on the other, and the Couple Points   *)
(* awarded for it (features/ledger/store.ts).                              *)
(*                                                                         *)
(* The Unlocker starts an attempt against the partner's pool of secrets,   *)
(* does the task and submits it; the Author verifies it, which draws one   *)
(* of the secrets and reveals it to the Unlocker, or sends it back; both   *)
(* reflect.  Each phone keeps its own row of the attempt, and the two only *)
(* meet through the operations that guarded UPDATEs apply.  Meanwhile the  *)
(* Author may reveal or delete a secret by hand (features/notes/store.ts). *)
(***************************************************************************)
EXTENDS Wire

CONSTANTS
  Attempt,     \* ids of unlock attempts
  Unlocker,    \* [Attempt -> Side]: who does the task
  Note,        \* the secret notes, announced to both phones beforehand
  Author,      \* [Note -> Side]: who wrote them
  Prompt,      \* prompt keys
  Redrawn,     \* bound: those among them that a re-roll draws
  MaxTokens,   \* REROLL_MAX_BALANCE
  MaxOps,      \* [Side -> Nat]: bound, operations the user of a phone issues
  MaxCalls,    \* bound: startUnlock calls in flight on a phone
  MaxVerifies, \* bound: verifyUnlock calls in flight on a phone
  MaxByHand,   \* bound: notes out of an Author's pool before one more is taken out by hand
  MaxAwards,   \* bound: entries in the ledger of a phone that awards another
  MaxDay       \* bound: the last calendar day

ASSUME SecretUnlockAssumption ==
  /\ Unlocker \in [Attempt -> Side]
  /\ Author \in [Note -> Side]
  /\ Redrawn \subseteq Prompt
  /\ MaxOps \in [Side -> Nat]
  /\ MaxTokens \in Nat
  /\ MaxCalls \in Nat /\ MaxVerifies \in Nat /\ MaxByHand \in Nat /\ MaxAwards \in Nat
  /\ MaxDay \in Nat
  /\ "none" \notin Note \cup Prompt \cup Attempt

VARIABLES
  state,       \* [Side -> [Attempt -> State]]: the row of secret_unlock on each phone
  prompt,      \* [Side -> [Attempt -> Prompt or "none"]]: prompt_key
  drawn,       \* [Side -> [Attempt -> Note or "none"]]: revealed_note_id
  revealed,    \* [Side -> SUBSET Note]: notes with revealed_at set (for a partner: body filled)
  deleted,     \* [Side -> SUBSET Note]: notes with deleted_at set
  reflected,   \* [Side -> SUBSET (Attempt \X Side)]: secret_unlock_reflection
  ledger,      \* [Side -> SUBSET LedgerEntry]: ledger_entry
  tokens,      \* [Side -> Nat]: reroll_balance
  calls,       \* [Side -> Seq(Nat)]: startUnlock past its outer guards, with their day
  drawing,     \* [Side -> SUBSET (Attempt \X Note)]: verifyUnlock between pick and transaction
  startedOn,   \* [Attempt -> Nat]: day of created_at
  day,
  issued,      \* [Side -> Nat]: operations issued, numbers them
  newest,      \* [Side -> Nat]: history, number of the newest op a side has applied
  reordered,   \* history: some op was applied behind a newer one or twice
  canceledOnce,\* history: attempts that were ever canceled
  cut,         \* history: attempts with a reroll that was cut short
  starved,     \* history: attempts left without a secret, see DeleteNote and CreateAttempt
  crossed      \* history: attempts picked a secret for while a pick for another was committed

rows    == <<state, prompt, drawn, revealed, deleted, reflected, ledger>>
local   == <<tokens, calls, drawing, startedOn, day>>
history == <<newest, reordered, canceledOnce, cut, starved, crossed>>
vars    == <<wireVars, rows, local, issued, history>>

State  == {"absent", "assigned", "submitted", "returned", "revealed", "canceled"}
Active == {"assigned", "submitted", "returned"}
Reason == {"unlock_verified", "unlock_reflected"}

TokensPerUnlock == 2      \* REROLL_TOKENS_PER_UNLOCK

AuthorOf(x) == Other(Unlocker[x])

Init ==
  /\ WireInit
  /\ state = [s \in Side |-> [x \in Attempt |-> "absent"]]
  /\ prompt = [s \in Side |-> [x \in Attempt |-> "none"]]
  /\ drawn = [s \in Side |-> [x \in Attempt |-> "none"]]
  /\ revealed = [s \in Side |-> {}]
  /\ deleted = [s \in Side |-> {}]
  /\ reflected = [s \in Side |-> {}]
  /\ ledger = [s \in Side |-> {}]
  /\ tokens = [s \in Side |-> 0]
  /\ calls = [s \in Side |-> << >>]
  /\ drawing = [s \in Side |-> {}]
  /\ startedOn = [x \in Attempt |-> 0]
  /\ day = 0
  /\ issued = [s \in Side |-> 0]
  /\ newest = [s \in Side |-> 0]
  /\ reordered = FALSE
  /\ canceledOnce = {}
  /\ cut = {}
  /\ starved = {}
  /\ crossed = {}

Midnight ==
  /\ day < MaxDay
  /\ day' = day + 1
  /\ UNCHANGED <<wireVars, rows, tokens, calls, drawing, startedOn, issued, history>>

(* deps.enqueue: the operation joins the outbox. *)
Issue(s, kind, x, arg) ==
  /\ issued' = [issued EXCEPT ![s] = @ + 1]
  /\ Queue(s, [kind |-> kind, num |-> issued[s] + 1, x |-> x, arg |-> arg])

-----------------------------------------------------------------------------
(* The Unlocker.                                                           *)

MayStart(s, d) ==
  /\ \A x \in Attempt : Unlocker[x] = s => state[s][x] \notin Active
  /\ \A x \in Attempt : Unlocker[x] = s /\ state[s][x] # "absent" => startedOn[x] < d

(* countUnrevealedSecretsBy, of the partner. *)
Pool(s) == {n \in Note : Author[n] = Other(s) /\ n \notin revealed[s] \cup deleted[s]}

(* What is left for s to unlock once both phones know everything. *)
Left(s) == Pool(s) \ (revealed[Other(s)] \cup deleted[Other(s)])

(* What the hub needs for its "Start an unlock" button: a secret to unlock *)
(* and no attempt of one's own in flight.                                  *)
StartOffered(s) ==
  /\ Pool(s) # {}
  /\ \A x \in Attempt : Unlocker[x] = s => state[s][x] \notin Active

(* The button and startUnlock up to its transaction: the outer guards. *)
StartUnlock(s) ==
  /\ Len(calls[s]) < MaxCalls
  /\ StartOffered(s)
  /\ MayStart(s, day)
  /\ calls' = [calls EXCEPT ![s] = Append(@, day)]
  /\ UNCHANGED <<wireVars, rows, tokens, drawing, startedOn, day, issued, history>>

LeastOf(m, n) == IF m < n THEN m ELSE n

(* The tokens come after the transaction, whatever it did. *)
GrantTokens(s, c) ==
  /\ calls' = [calls EXCEPT ![s] = SubSeq(@, 1, c - 1) \o SubSeq(@, c + 1, Len(@))]
  /\ tokens' = [tokens EXCEPT ![s] = LeastOf(MaxTokens, @ + TokensPerUnlock)]

(* The new row; created_at was read between the guards and the INSERT. *)
CreateAttempt(s, c, x, p) ==
  /\ Unlocker[x] = s
  /\ state[s][x] = "absent"
  /\ state' = [state EXCEPT ![s][x] = "assigned"]
  /\ prompt' = [prompt EXCEPT ![s][x] = p]
  /\ \E d \in calls[s][c] .. day : startedOn' = [startedOn EXCEPT ![x] = d]
  /\ Issue(s, "start", x, p)
  /\ GrantTokens(s, c)
  /\ starved' = IF Left(s) = {} THEN starved \cup {x} ELSE starved
  /\ UNCHANGED <<drawn, revealed, deleted, reflected, ledger, drawing, day,
                 newest, reordered, canceledOnce, cut, crossed>>

(* Mutant: the guards are not read again inside the transaction. *)
StartCommitBlind(s, c, x, p) == CreateAttempt(s, c, x, p)

(* The transaction of call c reads the guards again, all but the pool, and *)
(* creates the row, ...                                                    *)
StartCommit(s, c, x, p) ==
  /\ MayStart(s, calls[s][c])
  /\ CreateAttempt(s, c, x, p)

(* or finds that another call was faster, and creates nothing. *)
StartSkip(s, c) ==
  /\ ~MayStart(s, calls[s][c])
  /\ GrantTokens(s, c)
  /\ UNCHANGED <<wireVars, rows, drawing, startedOn, day, issued, history>>

(* The detail screen shows the task with "mark done" and "re-roll" ... *)
OffersTask(s, x) == Unlocker[x] = s /\ state[s][x] \in {"assigned", "returned"}

(* ... and, the wait for a verdict included, "cancel"; *)
OffersCancel(s, x) == Unlocker[x] = s /\ state[s][x] \in Active

(* an abandoned attempt can be taken up again. *)
OffersUndo(s, x) == Unlocker[x] = s /\ state[s][x] = "canceled"

RerollUnlock(s, x, p) ==
  /\ OffersTask(s, x)
  /\ tokens[s] > 0
  /\ prompt' = [prompt EXCEPT ![s][x] = p]
  /\ tokens' = [tokens EXCEPT ![s] = @ - 1]
  /\ Issue(s, "reroll", x, p)
  /\ UNCHANGED <<state, drawn, revealed, deleted, reflected, ledger, calls, drawing,
                 startedOn, day, history>>

(* Its three writes share no transaction: the app is killed after the      *)
(* first, and the partner is never told.                                   *)
RerollCutShort(s, x, p) ==
  /\ OffersTask(s, x)
  /\ tokens[s] > 0
  /\ prompt' = [prompt EXCEPT ![s][x] = p]
  /\ cut' = cut \cup {x}
  /\ WireFault
  /\ UNCHANGED <<outbox, inbox, page, posted, state, drawn, revealed, deleted, reflected, ledger,
                 local, issued, newest, reordered, canceledOnce, starved, crossed>>

SubmitUnlock(s, x) ==
  /\ OffersTask(s, x)
  /\ state' = [state EXCEPT ![s][x] = "submitted"]
  /\ Issue(s, "submit", x, "none")
  /\ UNCHANGED <<prompt, drawn, revealed, deleted, reflected, ledger, local, history>>

CancelUnlock(s, x) ==
  /\ OffersCancel(s, x)
  /\ state' = [state EXCEPT ![s][x] = "canceled"]
  /\ canceledOnce' = canceledOnce \cup {x}
  /\ Issue(s, "cancel", x, "none")
  /\ UNCHANGED <<prompt, drawn, revealed, deleted, reflected, ledger, local,
                 newest, reordered, cut, starved, crossed>>

UncancelUnlock(s, x) ==
  /\ OffersUndo(s, x)
  /\ \A y \in Attempt : Unlocker[y] = s => state[s][y] \notin Active
  /\ state' = [state EXCEPT ![s][x] = "assigned"]
  /\ Issue(s, "uncancel", x, "none")
  /\ UNCHANGED <<prompt, drawn, revealed, deleted, reflected, ledger, local, history>>

-----------------------------------------------------------------------------
(* The Author.                                                             *)

(* The same screen shows the Author "verify" and "send back". *)
OffersVerdict(s, x) == AuthorOf(x) = s /\ state[s][x] = "submitted"

RejectUnlock(s, x) ==
  /\ OffersVerdict(s, x)
  /\ state' = [state EXCEPT ![s][x] = "returned"]
  /\ Issue(s, "reject", x, "none")
  /\ UNCHANGED <<prompt, drawn, revealed, deleted, reflected, ledger, local, history>>

(* Mutant: secrets drawn by another attempt stay in the pool. *)
CandidatesUnrevealed(s) ==
  {n \in Note : Author[n] = s /\ n \notin revealed[s] \cup deleted[s]}

Candidates(s) ==
  {n \in Note : /\ Author[n] = s
                /\ n \notin revealed[s] \cup deleted[s]
                /\ \A y \in Attempt : drawn[s][y] # n}

(* verifyUnlock up to its transaction: it picks n from the pool and reads  *)
(* the attachments of n.  Calls for one attempt that picked the same note  *)
(* are one: once the first has committed, the others find nothing to do.   *)
VerifyUnlock(s, x, n) ==
  /\ Cardinality(drawing[s]) < MaxVerifies
  /\ OffersVerdict(s, x)
  /\ n \in Candidates(s)
  /\ drawing' = [drawing EXCEPT ![s] = @ \cup {<<x, n>>}]
  /\ UNCHANGED <<wireVars, rows, tokens, calls, startedOn, day, issued, history>>

(* Its transaction reads the attempt again, not the pool, and reveals the  *)
(* pick to the Unlocker; the note of the Author's own phone stays          *)
(* unrevealed.  The award is a step of its own.                            *)
VerifyCommit(s, x, n) ==
  /\ <<x, n>> \in drawing[s]
  /\ state[s][x] = "submitted"
  /\ drawing' = [drawing EXCEPT ![s] = @ \ {<<x, n>>}]
  /\ state' = [state EXCEPT ![s][x] = "revealed"]
  /\ drawn' = [drawn EXCEPT ![s][x] = n]
  /\ Issue(s, "verify", x, n)
  /\ crossed' = crossed \cup {y \in Attempt \ {x} : \E m \in Note : <<y, m>> \in drawing[s]}
  /\ UNCHANGED <<prompt, revealed, deleted, reflected, ledger, tokens, calls, startedOn, day,
                 newest, reordered, canceledOnce, cut, starved>>

(* Or the attempt awaits no verdict any more. *)
VerifySkip(s, x, n) ==
  /\ <<x, n>> \in drawing[s]
  /\ state[s][x] # "submitted"
  /\ drawing' = [drawing EXCEPT ![s] = @ \ {<<x, n>>}]
  /\ UNCHANGED <<wireVars, rows, tokens, calls, startedOn, day, issued, history>>

(* The Author takes secret n out of the pool by hand: the attempts on it   *)
(* starve if it was the last.                                              *)
TakeOut(s, n) ==
  starved' = IF Left(Other(s)) \subseteq {n}
               THEN starved \cup {x \in Attempt : AuthorOf(x) = s} ELSE starved

(* deleteNote, at any time, an attempt under way or not. *)
DeleteNote(s, n) ==
  /\ Author[n] = s
  /\ n \notin deleted[s]
  /\ deleted' = [deleted EXCEPT ![s] = @ \cup {n}]
  /\ Issue(s, "delete", "none", n)
  /\ TakeOut(s, n)
  /\ UNCHANGED <<state, prompt, drawn, revealed, reflected, ledger, local,
                 newest, reordered, canceledOnce, cut, crossed>>

(* revealSecretNote.  It does not ask whether the note was deleted: one    *)
(* with attachments can still be revealed.                                 *)
RevealSecretNote(s, n) ==
  /\ Author[n] = s
  /\ n \notin revealed[s]
  /\ revealed' = [revealed EXCEPT ![s] = @ \cup {n}]
  /\ Issue(s, "reveal", "none", n)
  /\ TakeOut(s, n)
  /\ UNCHANGED <<state, prompt, drawn, deleted, reflected, ledger, local,
                 newest, reordered, canceledOnce, cut, crossed>>

(* The Author is not shown which secret was drawn until they ask. *)
MustDisclose(s, x) == AuthorOf(x) = s /\ drawn[s][x] \notin revealed[s]

(* discloseRevealedNoteToAuthor, local. *)
Disclose(s, x) ==
  /\ state[s][x] = "revealed"
  /\ MustDisclose(s, x)
  /\ revealed' = [revealed EXCEPT ![s] = @ \cup {drawn[s][x]}]
  /\ UNCHANGED <<wireVars, state, prompt, drawn, deleted, reflected, ledger, local, issued,
                 history>>

(* isReflectionComplete. *)
Complete(s, x) == \A q \in Side : <<x, q>> \in reflected[s]

(* What an award is for holds on this phone. *)
Earned(s, x, reason) ==
  /\ AuthorOf(x) = s
  /\ state[s][x] = "revealed"
  /\ reason = "unlock_reflected" => Complete(s, x)

Paid(s, x, reason) == \E e \in ledger[s] : e.x = x /\ e.reason = reason

(* Mutant: the reconcile pass leaves the verify award to verifyUnlock. *)
AwardReflectionOnly(s, x, reason) ==
  /\ reason = "unlock_reflected"
  /\ Earned(s, x, reason) /\ ~Paid(s, x, reason)
  /\ Issue(s, "ledger", x, reason)
  /\ ledger' = [ledger EXCEPT ![s] = @ \cup
                  {[x |-> x, reason |-> reason, by |-> s, num |-> issued[s] + 1]}]
  /\ UNCHANGED <<state, prompt, drawn, revealed, deleted, reflected, local, history>>

(* awardCouplePoints, from verifyUnlock, reflectOnUnlock or the            *)
(* reconcileUnlockRewards pass of every sync cycle.                        *)
Award(s, x, reason) ==
  /\ Earned(s, x, reason) /\ ~Paid(s, x, reason)
  /\ Issue(s, "ledger", x, reason)
  /\ ledger' = [ledger EXCEPT ![s] = @ \cup
                  {[x |-> x, reason |-> reason, by |-> s, num |-> issued[s] + 1]}]
  /\ UNCHANGED <<state, prompt, drawn, revealed, deleted, reflected, local, history>>

(* The form is there until it was filled in, for the Author once the       *)
(* secret was disclosed.                                                   *)
OffersForm(s, x) ==
  /\ state[s][x] = "revealed"
  /\ ~MustDisclose(s, x)
  /\ <<x, s>> \notin reflected[s]

(* Either partner. *)
ReflectOnUnlock(s, x) ==
  /\ OffersForm(s, x)
  /\ reflected' = [reflected EXCEPT ![s] = @ \cup {<<x, s>>}]
  /\ Issue(s, "reflect", x, "none")
  /\ UNCHANGED <<state, prompt, drawn, revealed, deleted, ledger, local, history>>

-----------------------------------------------------------------------------
(* applyCrdtOp on phone s, of an operation the partner issued.             *)

(* The guarded UPDATE: a row in one of the source states moves, another is *)
(* left as it is.                                                          *)
Move(s, x, from, to) ==
  state' = [state EXCEPT ![s][x] = IF @ \in from THEN to ELSE @]

ApplyStart(s, op) ==
  /\ op.kind = "start"
  /\ Move(s, op.x, {"absent"}, "assigned")
  /\ prompt' = [prompt EXCEPT ![s][op.x] = IF state[s][op.x] = "absent" THEN op.arg ELSE @]
  /\ UNCHANGED <<drawn, revealed, deleted, reflected, ledger>>

ApplyReroll(s, op) ==
  /\ op.kind = "reroll"
  /\ prompt' = [prompt EXCEPT ![s][op.x] =
                  IF state[s][op.x] \in {"assigned", "returned"} THEN op.arg ELSE @]
  /\ UNCHANGED <<state, drawn, revealed, deleted, reflected, ledger>>

(* Mutant: a task that was sent back cannot be submitted again. *)
ApplySubmitOnce(s, op) ==
  /\ op.kind = "submit"
  /\ Move(s, op.x, {"assigned"}, "submitted")
  /\ UNCHANGED <<prompt, drawn, revealed, deleted, reflected, ledger>>

ApplySubmit(s, op) ==
  /\ op.kind = "submit"
  /\ Move(s, op.x, {"assigned", "returned"}, "submitted")
  /\ UNCHANGED <<prompt, drawn, revealed, deleted, reflected, ledger>>

ApplyReject(s, op) ==
  /\ op.kind = "reject"
  /\ Move(s, op.x, {"submitted"}, "returned")
  /\ UNCHANGED <<prompt, drawn, revealed, deleted, reflected, ledger>>

(* Two UPDATEs: the attempt if it is submitted, the note in any case. *)
ApplyVerify(s, op) ==
  /\ op.kind = "verify"
  /\ Move(s, op.x, {"submitted"}, "revealed")
  /\ drawn' = [drawn EXCEPT ![s][op.x] = IF state[s][op.x] = "submitted" THEN op.arg ELSE @]
  /\ revealed' = [revealed EXCEPT ![s] = @ \cup {op.arg}]
  /\ UNCHANGED <<prompt, deleted, reflected, ledger>>

ApplyCancel(s, op) ==
  /\ op.kind = "cancel"
  /\ Move(s, op.x, Active, "canceled")
  /\ UNCHANGED <<prompt, drawn, revealed, deleted, reflected, ledger>>

ApplyUncancel(s, op) ==
  /\ op.kind = "uncancel"
  /\ Move(s, op.x, {"canceled"}, "assigned")
  /\ UNCHANGED <<prompt, drawn, revealed, deleted, reflected, ledger>>

(* Mutant: a reflection of an attempt that is not revealed here is dropped. *)
ApplyReflectGuarded(s, op) ==
  /\ op.kind = "reflect"
  /\ reflected' = [reflected EXCEPT ![s] =
                     IF state[s][op.x] = "revealed" THEN @ \cup {<<op.x, Other(s)>>} ELSE @]
  /\ UNCHANGED <<state, prompt, drawn, revealed, deleted, ledger>>

ApplyReflect(s, op) ==
  /\ op.kind = "reflect"
  /\ reflected' = [reflected EXCEPT ![s] = @ \cup {<<op.x, Other(s)>>}]
  /\ UNCHANGED <<state, prompt, drawn, revealed, deleted, ledger>>

ApplyLedger(s, op) ==
  /\ op.kind = "ledger"
  /\ ledger' = [ledger EXCEPT ![s] = @ \cup
                  {[x |-> op.x, reason |-> op.arg, by |-> Other(s), num |-> op.num]}]
  /\ UNCHANGED <<state, prompt, drawn, revealed, deleted, reflected>>

(* The tombstone of a note; the sender is its author. *)
ApplyDelete(s, op) ==
  /\ op.kind = "delete"
  /\ deleted' = [deleted EXCEPT ![s] = @ \cup {op.arg}]
  /\ UNCHANGED <<state, prompt, drawn, revealed, reflected, ledger>>

ApplyReveal(s, op) ==
  /\ op.kind = "reveal"
  /\ revealed' = [revealed EXCEPT ![s] = @ \cup {op.arg}]
  /\ UNCHANGED <<state, prompt, drawn, deleted, reflected, ledger>>

ApplyCrdtOp(s, op) ==
  \/ ApplyStart(s, op) \/ ApplyReroll(s, op) \/ ApplySubmit(s, op)
  \/ ApplyReject(s, op) \/ ApplyVerify(s, op)
  \/ ApplyCancel(s, op) \/ ApplyUncancel(s, op)
  \/ ApplyReflect(s, op) \/ ApplyLedger(s, op)
  \/ ApplyDelete(s, op) \/ ApplyReveal(s, op)

ApplyNext(s) ==
  \E e \in page[s] :
    /\ Take(s, e)
    /\ ApplyCrdtOp(s, e.op)
    /\ newest' = [newest EXCEPT ![s] = IF e.op.num > @ THEN e.op.num ELSE @]
    /\ reordered' = (reordered \/ e.op.num <= newest[s])
    /\ UNCHANGED <<local, issued, canceledOnce, cut, starved, crossed>>

Sync(s) == WireStep(s) /\ UNCHANGED <<rows, local, issued, history>>

-----------------------------------------------------------------------------
(* Mutant: a task that was sent back waits for nobody. *)
NeedsYouOnce(s, x) ==
  \/ state[s][x] = "revealed" /\ <<x, s>> \notin reflected[s]
  \/ Unlocker[x] = s /\ state[s][x] = "assigned"
  \/ AuthorOf(x) = s /\ state[s][x] = "submitted"

(* statusFor: the attempt is listed as waiting for this partner. *)
NeedsYou(s, x) ==
  \/ state[s][x] = "revealed" /\ <<x, s>> \notin reflected[s]
  \/ Unlocker[x] = s /\ state[s][x] \in {"assigned", "returned"}
  \/ AuthorOf(x) = s /\ state[s][x] = "submitted"

Act(s, x) ==
  \/ \E p \in Prompt, c \in DOMAIN calls[s] : StartCommit(s, c, x, p)
  \/ \E p \in Redrawn : RerollUnlock(s, x, p) \/ RerollCutShort(s, x, p)
  \/ SubmitUnlock(s, x) \/ CancelUnlock(s, x) \/ UncancelUnlock(s, x)
  \/ RejectUnlock(s, x)
  \/ \E n \in Note : VerifyUnlock(s, x, n) \/ VerifyCommit(s, x, n)
  \/ Disclose(s, x)
  \/ ReflectOnUnlock(s, x)

Next ==
  \/ Midnight
  \/ \E s \in Side :
       \/ StartUnlock(s)
       \/ \E c \in DOMAIN calls[s] : StartSkip(s, c)
       \/ \E x \in Attempt, n \in Note : VerifySkip(s, x, n)
       \/ issued[s] < MaxOps[s] /\ \E x \in Attempt : Act(s, x)
       \/ /\ issued[s] < MaxOps[s]
          /\ Cardinality(deleted[s] \cup revealed[s]) < MaxByHand
          /\ \E n \in Note : DeleteNote(s, n) \/ RevealSecretNote(s, n)
       \/ /\ Cardinality(ledger[s]) < MaxAwards
          /\ \E x \in Attempt, reason \in Reason : Award(s, x, reason)
       \/ Sync(s) \/ ApplyNext(s)

Spec == Init /\ [][Next]_vars

(* The ticker keeps running its cycle: flush, pull, reconcile. *)
FairSpec ==
  /\ Spec
  /\ \A s \in Side :
       /\ SF_vars(FlushOk(s) /\ UNCHANGED <<rows, local, issued, history>>)
       /\ WF_vars(Sync(s))
       /\ WF_vars(ApplyNext(s))
       /\ \A x \in Attempt, reason \in Reason : WF_vars(Award(s, x, reason))

-----------------------------------------------------------------------------
(* Correctness.                                                            *)

Operation ==
  [kind : {"start", "reroll"}, num : Nat, x : Attempt, arg : Prompt]
    \cup [kind : {"verify"}, num : Nat, x : Attempt, arg : Note]
    \cup [kind : {"ledger"}, num : Nat, x : Attempt, arg : Reason]
    \cup [kind : {"submit", "reject", "cancel", "uncancel", "reflect"}, num : Nat, x : Attempt,
          arg : {"none"}]
    \cup [kind : {"delete", "reveal"}, num : Nat, x : {"none"}, arg : Note]

LedgerEntry == [x : Attempt, reason : Reason, by : Side, num : Nat]

TypeOK ==
  /\ WireTypeOK(Operation)
  /\ state \in [Side -> [Attempt -> State]]
  /\ prompt \in [Side -> [Attempt -> Prompt \cup {"none"}]]
  /\ drawn \in [Side -> [Attempt -> Note \cup {"none"}]]
  /\ revealed \in [Side -> SUBSET Note]
  /\ deleted \in [Side -> SUBSET Note]
  /\ reflected \in [Side -> SUBSET (Attempt \X Side)]
  /\ ledger \in [Side -> SUBSET LedgerEntry]
  /\ tokens \in [Side -> 0 .. MaxTokens]
  /\ calls \in [Side -> Seq(0 .. MaxDay)]
  /\ drawing \in [Side -> SUBSET (Attempt \X Note)]
  /\ startedOn \in [Attempt -> 0 .. MaxDay]
  /\ day \in 0 .. MaxDay
  /\ issued \in [Side -> Nat]
  /\ newest \in [Side -> Nat]
  /\ reordered \in BOOLEAN
  /\ canceledOnce \in SUBSET Attempt
  /\ cut \in SUBSET Attempt
  /\ starved \in SUBSET Attempt
  /\ crossed \in SUBSET Attempt
  /\ \A s \in Side : \A x \in Attempt :
       /\ state[s][x] # "absent" => prompt[s][x] \in Prompt
       /\ state[s][x] = "revealed" <=> drawn[s][x] \in Note

(* However many calls of startUnlock overlap, and whatever is undone next  *)
(* to them, an Unlocker has one attempt at a time and starts one a day     *)
(* (store.ts 292-294).                                                     *)
OneAttemptAtATime ==
  \A s \in Side : \A x, y \in {z \in Attempt : Unlocker[z] = s} :
    x # y => /\ ~(state[s][x] \in Active /\ state[s][y] \in Active)
             /\ state[s][x] # "absent" /\ state[s][y] # "absent"
                  => startedOn[x] # startedOn[y]

(* One secret is drawn for two attempts only if one of them was canceled   *)
(* at some time and the two verifyUnlock calls crossed: the second picked  *)
(* while the first was under way, and its transaction does not look at the *)
(* pool again (store.ts 446-471).  In all other cases the NOT IN of the    *)
(* pool prevents it, though a drawn secret stays unrevealed on the         *)
(* Author's phone until the Author asks for it.                            *)
DrawnOnce ==
  \A s \in Side : \A x, y \in Attempt :
    x # y /\ drawn[s][x] # "none" /\ drawn[s][x] = drawn[s][y] =>
      {x, y} \cap canceledOnce # {} /\ {x, y} \cap crossed # {}

(* Reflections and points converge in whatever order and however often     *)
(* their operations arrive, and no award is counted twice (the INSERT OR   *)
(* IGNOREs of the projector, the re-read of awardCouplePoints).            *)
AddOnlySettles ==
  \A s \in Side :
    LET p == Other(s) IN
    /\ Drained(s) =>
         /\ \A x \in Attempt : <<x, s>> \in reflected[s] => <<x, s>> \in reflected[p]
         /\ \A e \in ledger[s] : e.by = s => e \in ledger[p]
    /\ \A e, f \in ledger[s] : e.x = f.x /\ e.reason = f.reason => e = f

Settled == \A s \in Side : Drained(s)

(* When operations are applied once and in the order they were issued, and *)
(* nothing was canceled, the two rows of an attempt agree as soon as       *)
(* nothing is on its way: state, drawn secret, and the prompt unless a     *)
(* reroll was cut short.                                                   *)
LoopSettlesInOrder ==
  \A x \in Attempt \ canceledOnce :
    Settled /\ ~reordered =>
      LET u == Unlocker[x] v == AuthorOf(x) IN
      /\ state[u][x] = state[v][x]
      /\ x \notin cut => prompt[u][x] = prompt[v][x]
      /\ drawn[u][x] = drawn[v][x]

(* The partner who is asked for the next step can take it: the Author of a *)
(* submission has a secret to draw.                                        *)
CanAct(s, x) == state[s][x] = "submitted" => Candidates(s) # {}

(* The loop never waits for nobody: as long as operations came in order    *)
(* and nothing was canceled, every attempt the two have not both reflected *)
(* on is listed, on one of the phones, as waiting for a partner who can    *)
(* take the next step.  Who cannot is the Author of an attempt that was    *)
(* created when no secret was left, or whose last secrets the Author has   *)
(* deleted or revealed by hand.                                            *)
SomeonesMove ==
  Settled /\ ~reordered /\ canceledOnce = {} =>
    \A x \in Attempt :
      state[Unlocker[x]][x] # "absent" /\ ~(\A s \in Side : Complete(s, x)) =>
        \E s \in Side : NeedsYou(s, x) /\ (CanAct(s, x) \/ x \in starved)

(* The same for every attempt that was not canceled itself.                *)
SomeonesMoveAfterCancel ==
  Settled /\ ~reordered =>
    \A x \in Attempt \ canceledOnce :
      state[Unlocker[x]][x] # "absent" /\ ~(\A s \in Side : Complete(s, x)) =>
        \E s \in Side : NeedsYou(s, x) /\ (CanAct(s, x) \/ x \in starved)

(* "Powers the start gate" (store.ts 244-245): while operations come in    *)
(* order and nothing is canceled, the pool that startUnlock counted still  *)
(* holds a secret when the task is submitted.                              *)
SubmissionCanBeVerified ==
  Settled /\ ~reordered /\ canceledOnce = {} =>
    \A s \in Side, x \in Attempt : OffersVerdict(s, x) => CanAct(s, x)

(* "the one-active-per-partner rule should already prevent a second draw   *)
(* against this pool" (store.ts 444-445).                                  *)
NeverDrawnTwice ==
  \A s \in Side : \A x, y \in Attempt :
    x # y /\ drawn[s][x] # "none" => drawn[s][x] # drawn[s][y]

(* "Tombstoned (deleted_at IS NOT NULL) notes are excluded so a deleted    *)
(* secret can't be drawn for an unlock" (store.ts 246-247).                *)
DeletedNotDrawn ==
  [][\A s \in Side : \A x \in Attempt :
       drawn'[s][x] # drawn[s][x] /\ AuthorOf(x) = s =>
         drawn'[s][x] \notin deleted[s]]_vars

(* "so both sides show the same prompt at submission" (store.ts 322-323).  *)
SamePromptAtSubmission ==
  \A x \in Attempt :
    Settled /\ state[AuthorOf(x)][x] = "submitted" =>
      prompt[Unlocker[x]][x] = prompt[AuthorOf(x)][x]

(* "The WHERE pins the actor ... and the source state, so a replay or a    *)
(* hostile submit no-ops" (projector.ts 436-438): a submission the Author  *)
(* has sent back is not taken for a new one when it arrives again.         *)
ReplayedSubmitIsNoOp ==
  [][\A s \in Side : \A e \in page[s] \ page'[s] :
       (e.op.kind = "submit" /\ e.op.num = newest[s] /\ state[s][e.op.x] = "returned")
         => state'[s] = state[s]]_vars

(* A canceled attempt earns nothing: "Unlocker abandons the attempt before *)
(* the reveal.  No points." (op.ts 481, store.ts 501).                     *)
CanceledEarnsNothing ==
  \A x \in Attempt :
    LET u == Unlocker[x] IN
    state[u][x] = "canceled" => \A e \in ledger[u] : e.x # x

(* "Grant 2 re-roll tokens" is for an attempt (store.ts 157, "Tokens       *)
(* granted per unlock attempt started").                                   *)
TokensAreForAttempts ==
  \A s \in Side :
    tokens[s] <= TokensPerUnlock *
      Cardinality({x \in Attempt : Unlocker[x] = s /\ state[s][x] # "absent"})

(* A verified attempt is paid for on both phones in the end, although      *)
(* verifyUnlock may die between its transaction and the award              *)
(* (reconcileUnlockRewards).                                               *)
VerifiedIsPaid ==
  \A s \in Side, x \in Attempt :
    (AuthorOf(x) = s /\ state[s][x] = "revealed") ~>
      (Paid(s, x, "unlock_verified") /\ Paid(Other(s), x, "unlock_verified"))

=============================================================================

------------------------- MODULE SecretUnlockProofs -------------------------
(***************************************************************************)
(* Proofs about SecretUnlock, for any attempts of either partner, any      *)
(* notes and prompts, any number of operations and days, in whatever order *)
(* and however often the operations arrive.                                *)
(***************************************************************************)
EXTENDS SecretUnlock, WireProofs

-----------------------------------------------------------------------------
(* The inductive invariants.                                               *)

(* A row has a prompt from its creation and a secret from its reveal on.   *)
RowInv(s) ==
  \A x \in Attempt :
    /\ state[s][x] # "absent" => prompt[s][x] \in Prompt
    /\ state[s][x] = "revealed" <=> drawn[s][x] \in Note

(* Only the Unlocker makes an attempt active.                              *)
StartInv(s) ==
  \A op \in Way(s) : op.kind \in {"start", "uncancel"} => Unlocker[op.x] = s

(* The Author's draw is of a note of theirs; the Unlocker has it too or    *)
(* not yet.                                                                *)
DrawInv(s) ==
  /\ \A op \in Way(s) : op.kind = "verify" => AuthorOf(op.x) = s /\ drawn[s][op.x] = op.arg
  /\ \A x \in Attempt :
       /\ drawn[s][x] # "none" => Author[drawn[s][x]] = AuthorOf(x)
       /\ Unlocker[x] = s => drawn[s][x] \in {"none", drawn[Other(s)][x]}

(* A call of verifyUnlock is the Author's, with a pick of their own.       *)
CallInv(s) ==
  \A x \in Attempt, n \in Note : <<x, n>> \in drawing[s] =>
    AuthorOf(x) = s /\ Author[n] = s /\ state[s][x] # "absent"

(* The Author has a row only of attempts the Unlocker has created.         *)
PresentInv(s) ==
  /\ \A op \in Way(s) : op.kind = "start" => state[s][op.x] # "absent"
  /\ \A x \in Attempt :
       AuthorOf(x) = s /\ state[s][x] # "absent" => state[Other(s)][x] # "absent"

(* What a phone has added is with the partner or on its way.               *)
ReflectInv(s) ==
  \A x \in Attempt : <<x, s>> \in reflected[s] =>
    \/ <<x, s>> \in reflected[Other(s)]
    \/ \E op \in Way(s) : op.kind = "reflect" /\ op.x = x

EntryOf(s, op) == [x |-> op.x, reason |-> op.arg, by |-> s, num |-> op.num]

(* Only the Author of an attempt awards points for it, so that what the    *)
(* partner has of them is a part of what the Author has.                   *)
LedgerInv(s) ==
  /\ \A e \in ledger[s] : e.by = AuthorOf(e.x)
  /\ \A e, f \in ledger[s] : e.x = f.x /\ e.reason = f.reason => e = f
  /\ \A e \in ledger[s] : e.by = Other(s) => e \in ledger[Other(s)]
  /\ \A e \in ledger[s] : e.by = s =>
       e \in ledger[Other(s)] \/ \E op \in Way(s) : op.kind = "ledger" /\ EntryOf(s, op) = e
  /\ \A op \in Way(s) : op.kind = "ledger" => EntryOf(s, op) \in ledger[s]

RowType ==
  /\ state \in [Side -> [Attempt -> State]]
  /\ prompt \in [Side -> [Attempt -> Prompt \cup {"none"}]]
  /\ drawn \in [Side -> [Attempt -> Note \cup {"none"}]]
  /\ revealed \in [Side -> SUBSET Note]
  /\ deleted \in [Side -> SUBSET Note]
  /\ reflected \in [Side -> SUBSET (Attempt \X Side)]
  /\ ledger \in [Side -> SUBSET LedgerEntry]

LocalType ==
  /\ tokens \in [Side -> 0 .. MaxTokens]
  /\ calls \in [Side -> Seq(0 .. MaxDay)]
  /\ drawing \in [Side -> SUBSET (Attempt \X Note)]
  /\ startedOn \in [Attempt -> 0 .. MaxDay]
  /\ day \in 0 .. MaxDay
  /\ issued \in [Side -> Nat]

HistoryType ==
  /\ newest \in [Side -> Nat]
  /\ reordered \in BOOLEAN
  /\ canceledOnce \in SUBSET Attempt
  /\ cut \in SUBSET Attempt
  /\ starved \in SUBSET Attempt
  /\ crossed \in SUBSET Attempt

Rows == RowType /\ \A s \in Side : RowInv(s)

Starts == \A s \in Side : StartInv(s)

Draws == \A s \in Side : DrawInv(s)

Calls == \A s \in Side : CallInv(s)

Present == \A s \in Side : PresentInv(s)

Reflections == \A s \in Side : ReflectInv(s)

Awards == \A s \in Side : LedgerInv(s)

-----------------------------------------------------------------------------
(* Operations about a note, not about an attempt. *)
NoteKind == {"delete", "reveal"}

LEMMA OperationFacts ==
  ASSUME NEW op \in Operation
  PROVE  /\ op.num \in Nat
         /\ op.kind \notin NoteKind => op.x \in Attempt
         /\ op.kind \in NoteKind => op.x = "none"
         /\ op.kind \in {"start", "reroll"} => op.arg \in Prompt
         /\ op.kind \in NoteKind \cup {"verify"} => op.arg \in Note
         /\ op.kind = "ledger" => op.arg \in Reason
  BY DEF Operation, NoteKind

LEMMA NoneApart == "none" \notin Note /\ "none" \notin Prompt /\ "none" \notin Attempt
  BY SecretUnlockAssumption DEF SecretUnlockAssumption

LEMMA Partners ==
  \A x \in Attempt : /\ Unlocker[x] \in Side /\ AuthorOf(x) \in Side
                     /\ AuthorOf(x) = Other(Unlocker[x]) /\ Unlocker[x] = Other(AuthorOf(x))
  BY SecretUnlockAssumption, OtherSide DEF SecretUnlockAssumption, AuthorOf

(* What an operation carries, by its kind. *)
Payload(kind, x, arg) ==
  \/ kind \in {"start", "reroll"} /\ x \in Attempt /\ arg \in Prompt
  \/ kind = "verify" /\ x \in Attempt /\ arg \in Note
  \/ kind = "ledger" /\ x \in Attempt /\ arg \in Reason
  \/ /\ kind \in {"submit", "reject", "cancel", "uncancel", "reflect"}
     /\ x \in Attempt /\ arg = "none"
  \/ kind \in NoteKind /\ x = "none" /\ arg \in Note

LEMMA IssueWay ==
  ASSUME WireTypeOK(Operation), LocalType, NEW s \in Side, NEW x, NEW kind, NEW arg,
         Issue(s, kind, x, arg), Payload(kind, x, arg)
  PROVE  /\ WireTypeOK(Operation)' /\ issued' \in [Side -> Nat]
         /\ Way(Other(s))' = Way(Other(s))
         /\ Way(s)' = Way(s) \cup {[kind |-> kind, num |-> issued[s] + 1, x |-> x, arg |-> arg]}
<1> DEFINE op == [kind |-> kind, num |-> issued[s] + 1, x |-> x, arg |-> arg]
<1>1. issued[s] + 1 \in Nat
  BY DEF LocalType
<1>2. op \in Operation
  BY <1>1 DEF Operation, Payload, NoteKind
<1>3. Queue(s, op)
  BY DEF Issue
<1>4. issued' \in [Side -> Nat]
  BY <1>1 DEF Issue, LocalType
<1> HIDE DEF op
<1>5. WireTypeOK(Operation)' /\ Way(s)' = Way(s) \cup {op} /\ Way(Other(s))' = Way(Other(s))
  BY <1>2, <1>3, QueueWay
<1> QED
  BY <1>4, <1>5 DEF op

LEMMA InitAll ==
  Init => /\ WireTypeOK(Operation) /\ Rows /\ LocalType /\ HistoryType
          /\ Starts /\ Draws /\ Calls /\ Present
          /\ Reflections /\ Awards /\ OneAttemptAtATime
<1> SUFFICES ASSUME Init
             PROVE  /\ WireTypeOK(Operation) /\ Rows /\ LocalType /\ HistoryType
                    /\ Starts /\ Draws /\ Calls /\ Present
                    /\ Reflections /\ Awards /\ OneAttemptAtATime
  OBVIOUS
<1>1. WireTypeOK(Operation) /\ \A s \in Side : Way(s) = {}
  BY WireInitWay DEF Init
<1>2. RowType
  BY DEF Init, RowType, State
<1>3. \A s \in Side : RowInv(s)
  BY NoneApart DEF Init, RowInv
<1>4. LocalType
  BY SecretUnlockAssumption DEF Init, LocalType, SecretUnlockAssumption
<1>5. HistoryType
  <2>1. reordered \in BOOLEAN
    BY DEF Init
  <2> QED
    BY <2>1 DEF Init, HistoryType
<1>6. Starts /\ Draws /\ Calls /\ Present
  BY <1>1 DEF Init, Starts, StartInv, Draws, DrawInv, Calls, CallInv, Present, PresentInv
<1>7. Reflections /\ Awards
  BY <1>1 DEF Init, Reflections, ReflectInv, Awards, LedgerInv
<1>8. OneAttemptAtATime
  BY DEF Init, OneAttemptAtATime, Active
<1> QED
  BY <1>1, <1>2, <1>3, <1>4, <1>5, <1>6, <1>7, <1>8 DEF Rows

-----------------------------------------------------------------------------
(* Type correctness.                                                       *)

LEMMA SetAt ==
  ASSUME NEW V, NEW m \in [Side -> [Attempt -> V]], NEW n, NEW s \in Side, NEW x \in Attempt,
         NEW v \in V, n = [m EXCEPT ![s][x] = v]
  PROVE  /\ n \in [Side -> [Attempt -> V]] /\ n[s][x] = v
         /\ \A q \in Side, y \in Attempt : q # s \/ y # x => n[q][y] = m[q][y]
  OBVIOUS

(* A row that exists moves on from one state before the reveal to another. *)
LEMMA MoveRows ==
  ASSUME Rows, NEW s \in Side, NEW x \in Attempt, NEW v \in State \ {"absent", "revealed"},
         state' = [state EXCEPT ![s][x] = v] , state[s][x] \in State \ {"absent", "revealed"},
         UNCHANGED <<prompt, drawn, revealed, deleted, reflected, ledger>>
  PROVE  Rows'
<1>1. /\ state' \in [Side -> [Attempt -> State]] /\ state'[s][x] = v
      /\ \A q \in Side, y \in Attempt : q # s \/ y # x => state'[q][y] = state[q][y]
  BY SetAt DEF Rows, RowType
<1>2. RowType'
  BY <1>1 DEF Rows, RowType
<1>3. \A q \in Side : RowInv(q)'
  BY <1>1 DEF Rows, RowInv
<1> QED
  BY <1>2, <1>3 DEF Rows

LEMMA PromptRows ==
  ASSUME Rows, NEW s \in Side, NEW x \in Attempt, NEW p \in Prompt,
         prompt' = [prompt EXCEPT ![s][x] = p],
         UNCHANGED <<state, drawn, revealed, deleted, reflected, ledger>>
  PROVE  Rows'
<1>1. /\ prompt' \in [Side -> [Attempt -> Prompt \cup {"none"}]] /\ prompt'[s][x] = p
      /\ \A q \in Side, y \in Attempt : q # s \/ y # x => prompt'[q][y] = prompt[q][y]
  BY SetAt DEF Rows, RowType
<1>2. RowType'
  BY <1>1 DEF Rows, RowType
<1>3. \A q \in Side : RowInv(q)'
  BY <1>1 DEF Rows, RowInv
<1> QED
  BY <1>2, <1>3 DEF Rows

LEMMA CreateRows ==
  ASSUME Rows, NEW s \in Side, NEW x \in Attempt, NEW p \in Prompt,
         prompt' = [prompt EXCEPT ![s][x] = p], state' = [state EXCEPT ![s][x] = "assigned"],
         state[s][x] = "absent", UNCHANGED <<drawn, revealed, deleted, reflected, ledger>>
  PROVE  Rows'
<1>1. /\ prompt' \in [Side -> [Attempt -> Prompt \cup {"none"}]] /\ prompt'[s][x] = p
      /\ \A q \in Side, y \in Attempt : q # s \/ y # x => prompt'[q][y] = prompt[q][y]
  BY SetAt DEF Rows, RowType
<1>2. /\ state' \in [Side -> [Attempt -> State]] /\ state'[s][x] = "assigned"
      /\ \A q \in Side, y \in Attempt : q # s \/ y # x => state'[q][y] = state[q][y]
  BY SetAt DEF Rows, RowType, State
<1>3. RowType'
  BY <1>1, <1>2 DEF Rows, RowType
<1>4. \A q \in Side : RowInv(q)'
  BY <1>1, <1>2 DEF Rows, RowInv
<1> QED
  BY <1>3, <1>4 DEF Rows

LEMMA RevealRows ==
  ASSUME Rows, NEW s \in Side, NEW x \in Attempt, NEW n \in Note,
         drawn' = [drawn EXCEPT ![s][x] = n], state' = [state EXCEPT ![s][x] = "revealed"],
         state[s][x] = "submitted", revealed' \in [Side -> SUBSET Note],
         UNCHANGED <<prompt, deleted, reflected, ledger>>
  PROVE  Rows'
<1>1. /\ drawn' \in [Side -> [Attempt -> Note \cup {"none"}]] /\ drawn'[s][x] = n
      /\ \A q \in Side, y \in Attempt : q # s \/ y # x => drawn'[q][y] = drawn[q][y]
  BY SetAt DEF Rows, RowType
<1>2. /\ state' \in [Side -> [Attempt -> State]] /\ state'[s][x] = "revealed"
      /\ \A q \in Side, y \in Attempt : q # s \/ y # x => state'[q][y] = state[q][y]
  BY SetAt DEF Rows, RowType, State
<1>3. RowType'
  BY <1>1, <1>2 DEF Rows, RowType
<1>4. \A q \in Side : RowInv(q)'
  BY <1>1, <1>2 DEF Rows, RowInv
<1> QED
  BY <1>3, <1>4 DEF Rows

LEMMA OtherRows ==
  ASSUME Rows, UNCHANGED <<state, prompt, drawn>>,
         revealed' \in [Side -> SUBSET Note], deleted' \in [Side -> SUBSET Note],
         reflected' \in [Side -> SUBSET (Attempt \X Side)],
         ledger' \in [Side -> SUBSET LedgerEntry]
  PROVE  Rows'
  BY DEF Rows, RowType, RowInv

LEMMA SeqItem ==
  ASSUME NEW S, NEW q \in Seq(S), NEW i \in DOMAIN q
  PROVE  q[i] \in S
  OBVIOUS

LEMMA GrantTokensType ==
  ASSUME LocalType, NEW s \in Side, NEW c \in DOMAIN calls[s], GrantTokens(s, c)
  PROVE  /\ calls' \in [Side -> Seq(0 .. MaxDay)] /\ tokens' \in [Side -> 0 .. MaxTokens]
         /\ calls[s][c] \in 0 .. MaxDay
<1>1. calls[s] \in Seq(0 .. MaxDay)
  BY DEF LocalType
<1>2. calls[s][c] \in 0 .. MaxDay
  BY <1>1, SeqItem
<1> DEFINE rest == SubSeq(calls[s], 1, c - 1) \o SubSeq(calls[s], c + 1, Len(calls[s]))
<1>3. rest \in Seq(0 .. MaxDay)
  BY <1>1, ItemsRemove
<1>4. calls' = [calls EXCEPT ![s] = rest]
  BY DEF GrantTokens
<1> HIDE DEF rest
<1>5. calls' \in [Side -> Seq(0 .. MaxDay)]
  BY <1>3, <1>4 DEF LocalType
<1>6. tokens' \in [Side -> 0 .. MaxTokens]
  <2>0. tokens[s] \in 0 .. MaxTokens
    BY SecretUnlockAssumption DEF LocalType, SecretUnlockAssumption
  <2>1. LeastOf(MaxTokens, tokens[s] + TokensPerUnlock) \in 0 .. MaxTokens
    BY <2>0, SecretUnlockAssumption DEF LeastOf, TokensPerUnlock, SecretUnlockAssumption
  <2>2. tokens' = [tokens EXCEPT ![s] = LeastOf(MaxTokens, tokens[s] + TokensPerUnlock)]
    BY DEF GrantTokens
  <2> QED
    BY <2>1, <2>2 DEF LocalType
<1> QED
  BY <1>2, <1>5, <1>6

LEMMA CreateType ==
  ASSUME WireTypeOK(Operation), Rows, LocalType, HistoryType, NEW s \in Side,
         NEW c \in DOMAIN calls[s], NEW x \in Attempt, NEW p \in Prompt, CreateAttempt(s, c, x, p)
  PROVE  WireTypeOK(Operation)' /\ Rows' /\ LocalType' /\ HistoryType'
<1>1. /\ calls' \in [Side -> Seq(0 .. MaxDay)] /\ tokens' \in [Side -> 0 .. MaxTokens]
      /\ calls[s][c] \in 0 .. MaxDay
  BY GrantTokensType DEF CreateAttempt
<1>2. WireTypeOK(Operation)' /\ issued' \in [Side -> Nat]
  BY IssueWay DEF CreateAttempt, Payload
<1>3. Rows'
  BY CreateRows DEF CreateAttempt
<1>4. startedOn' \in [Attempt -> 0 .. MaxDay]
  <2>1. PICK d \in calls[s][c] .. day : startedOn' = [startedOn EXCEPT ![x] = d]
    BY DEF CreateAttempt
  <2>2. d \in 0 .. MaxDay
    BY <1>1, <2>1, SecretUnlockAssumption DEF LocalType, SecretUnlockAssumption
  <2> QED
    BY <2>1, <2>2 DEF LocalType
<1>5. LocalType'
  BY <1>1, <1>2, <1>4 DEF CreateAttempt, LocalType
<1>6. starved' \in SUBSET Attempt
  BY DEF CreateAttempt, HistoryType
<1>7. reordered' \in BOOLEAN
  BY DEF CreateAttempt, HistoryType
<1>8. HistoryType'
  BY <1>6, <1>7 DEF CreateAttempt, HistoryType
<1> QED
  BY <1>2, <1>3, <1>5, <1>8

(* The other steps of a partner that issue an operation. *)
LEMMA ActType ==
  ASSUME WireTypeOK(Operation), Rows, LocalType, HistoryType, NEW s \in Side,
         NEW x \in Attempt, Act(s, x)
  PROVE  WireTypeOK(Operation)' /\ Rows' /\ LocalType' /\ HistoryType'
<1>0. Redrawn \subseteq Prompt
  BY SecretUnlockAssumption DEF SecretUnlockAssumption
<1>1. ASSUME NEW p \in Prompt, NEW c \in DOMAIN calls[s], StartCommit(s, c, x, p)
      PROVE  WireTypeOK(Operation)' /\ Rows' /\ LocalType' /\ HistoryType'
  BY <1>1, CreateType DEF StartCommit
<1>2. ASSUME NEW p \in Redrawn, RerollUnlock(s, x, p)
      PROVE  WireTypeOK(Operation)' /\ Rows' /\ LocalType' /\ HistoryType'
  <2>1. WireTypeOK(Operation)' /\ issued' \in [Side -> Nat]
    BY <1>0, <1>2, IssueWay DEF RerollUnlock, Payload
  <2>2. Rows'
    BY <1>0, <1>2, PromptRows DEF RerollUnlock
  <2>3. tokens' \in [Side -> 0 .. MaxTokens]
    BY <1>2, SecretUnlockAssumption DEF RerollUnlock, LocalType, SecretUnlockAssumption
  <2>4. LocalType'
    BY <1>2, <2>1, <2>3 DEF RerollUnlock, LocalType
  <2>5. HistoryType'
    BY <1>2 DEF RerollUnlock, HistoryType, history
  <2> QED
    BY <2>1, <2>2, <2>4, <2>5
<1>3. ASSUME NEW p \in Redrawn, RerollCutShort(s, x, p)
      PROVE  WireTypeOK(Operation)' /\ Rows' /\ LocalType' /\ HistoryType'
  <2>1. WireTypeOK(Operation)'
    BY <1>3 DEF RerollCutShort, WireFault, WireTypeOK
  <2>2. Rows'
    BY <1>0, <1>3, PromptRows DEF RerollCutShort
  <2>3. LocalType'
    BY <1>3 DEF RerollCutShort, LocalType, local
  <2>4. HistoryType'
    <3>1. reordered' \in BOOLEAN
      BY <1>3 DEF RerollCutShort, HistoryType
    <3> QED
      BY <1>3, <3>1 DEF RerollCutShort, HistoryType
  <2> QED
    BY <2>1, <2>2, <2>3, <2>4
<1>4. CASE SubmitUnlock(s, x) \/ CancelUnlock(s, x) \/ UncancelUnlock(s, x) \/ RejectUnlock(s, x)
  <2>1. WireTypeOK(Operation)' /\ issued' \in [Side -> Nat]
    BY <1>4, IssueWay DEF SubmitUnlock, CancelUnlock, UncancelUnlock, RejectUnlock, Payload
  <2>2. PICK v \in State \ {"absent", "revealed"} : state' = [state EXCEPT ![s][x] = v]
    BY <1>4 DEF SubmitUnlock, CancelUnlock, UncancelUnlock, RejectUnlock, State
  <2>3. state[s][x] \in State \ {"absent", "revealed"}
    BY <1>4 DEF SubmitUnlock, CancelUnlock, UncancelUnlock, RejectUnlock, OffersTask,
                OffersCancel, OffersUndo, OffersVerdict, Active, State
  <2>4. UNCHANGED <<prompt, drawn, revealed, deleted, reflected, ledger, local>>
    BY <1>4 DEF SubmitUnlock, CancelUnlock, UncancelUnlock, RejectUnlock
  <2>5. Rows'
    BY <2>2, <2>3, <2>4, MoveRows
  <2>6. LocalType'
    BY <2>1, <2>4 DEF LocalType, local
  <2>7. reordered' \in BOOLEAN
    BY <1>4 DEF SubmitUnlock, CancelUnlock, UncancelUnlock, RejectUnlock, history, HistoryType
  <2>8. HistoryType'
    BY <1>4, <2>7 DEF SubmitUnlock, CancelUnlock, UncancelUnlock, RejectUnlock, history,
                      HistoryType
  <2> QED
    BY <2>1, <2>5, <2>6, <2>8
<1>5. ASSUME NEW n \in Note, VerifyUnlock(s, x, n)
      PROVE  WireTypeOK(Operation)' /\ Rows' /\ LocalType' /\ HistoryType'
  <2>1. WireTypeOK(Operation)'
    BY <1>5, WireQuiet DEF VerifyUnlock
  <2>2. Rows'
    BY <1>5, OtherRows DEF VerifyUnlock, rows, Rows, RowType
  <2>3. drawing' \in [Side -> SUBSET (Attempt \X Note)]
    BY <1>5 DEF VerifyUnlock, LocalType
  <2>4. LocalType' /\ HistoryType'
    BY <1>5, <2>3 DEF VerifyUnlock, LocalType, HistoryType, history
  <2> QED
    BY <2>1, <2>2, <2>4
<1>8. ASSUME NEW n \in Note, VerifyCommit(s, x, n)
      PROVE  WireTypeOK(Operation)' /\ Rows' /\ LocalType' /\ HistoryType'
  <2>1. WireTypeOK(Operation)' /\ issued' \in [Side -> Nat]
    BY <1>8, IssueWay DEF VerifyCommit, Payload
  <2>2. Rows'
    BY <1>8, RevealRows DEF VerifyCommit, Rows, RowType
  <2>3. drawing' \in [Side -> SUBSET (Attempt \X Note)]
    BY <1>8 DEF VerifyCommit, LocalType
  <2>4. crossed' \in SUBSET Attempt
    BY <1>8 DEF VerifyCommit, HistoryType
  <2>5. reordered' \in BOOLEAN
    BY <1>8 DEF VerifyCommit, HistoryType
  <2>6. LocalType' /\ HistoryType'
    BY <1>8, <2>1, <2>3, <2>4, <2>5 DEF VerifyCommit, LocalType, HistoryType
  <2> QED
    BY <2>1, <2>2, <2>6
<1>6. CASE Disclose(s, x)
  <2>1. WireTypeOK(Operation)'
    BY <1>6, WireQuiet DEF Disclose
  <2>2. drawn[s][x] \in Note
    BY <1>6 DEF Disclose, Rows, RowInv
  <2>3. Rows'
    BY <1>6, <2>2, OtherRows DEF Disclose, Rows, RowType
  <2>4. LocalType' /\ HistoryType'
    BY <1>6 DEF Disclose, LocalType, HistoryType, local, history
  <2> QED
    BY <2>1, <2>3, <2>4
<1>7. CASE ReflectOnUnlock(s, x)
  <2>1. WireTypeOK(Operation)' /\ issued' \in [Side -> Nat]
    BY <1>7, IssueWay DEF ReflectOnUnlock, Payload
  <2>2. Rows'
    BY <1>7, OtherRows DEF ReflectOnUnlock, Rows, RowType
  <2>3. LocalType' /\ HistoryType'
    BY <1>7, <2>1 DEF ReflectOnUnlock, LocalType, HistoryType, local, history
  <2> QED
    BY <2>1, <2>2, <2>3
<1> QED
  BY <1>1, <1>2, <1>3, <1>4, <1>5, <1>6, <1>7, <1>8 DEF Act

(* The Author takes a secret out of the pool by hand. *)
TakesOut(s, n) == DeleteNote(s, n) \/ RevealSecretNote(s, n)

LEMMA NoteAdded ==
  ASSUME NEW m \in [Side -> SUBSET Note], NEW s \in Side, NEW n \in Note,
         NEW k, k = [m EXCEPT ![s] = @ \cup {n}]
  PROVE  k \in [Side -> SUBSET Note]
  OBVIOUS

LEMMA TakeOutType ==
  ASSUME WireTypeOK(Operation), Rows, LocalType, HistoryType, NEW s \in Side,
         NEW n \in Note, TakesOut(s, n)
  PROVE  WireTypeOK(Operation)' /\ Rows' /\ LocalType' /\ HistoryType'
<1>1. WireTypeOK(Operation)' /\ issued' \in [Side -> Nat]
  BY IssueWay DEF TakesOut, DeleteNote, RevealSecretNote, Payload, NoteKind
<1>2. Rows'
  <2>1. UNCHANGED <<state, prompt, drawn, reflected, ledger>>
    BY DEF TakesOut, DeleteNote, RevealSecretNote
  <2>2. /\ deleted' \in {deleted, [deleted EXCEPT ![s] = @ \cup {n}]}
        /\ revealed' \in {revealed, [revealed EXCEPT ![s] = @ \cup {n}]}
    BY DEF TakesOut, DeleteNote, RevealSecretNote
  <2>3. revealed' \in [Side -> SUBSET Note] /\ deleted' \in [Side -> SUBSET Note]
    BY <2>2, NoteAdded DEF Rows, RowType
  <2> QED
    BY <2>1, <2>3, OtherRows DEF Rows, RowType
<1>3. LocalType'
  BY <1>1 DEF TakesOut, DeleteNote, RevealSecretNote, LocalType, local
<1>4. starved' \in SUBSET Attempt /\ reordered' \in BOOLEAN
  BY DEF TakesOut, DeleteNote, RevealSecretNote, TakeOut, HistoryType
<1>5. HistoryType'
  BY <1>4 DEF TakesOut, DeleteNote, RevealSecretNote, HistoryType
<1> QED
  BY <1>1, <1>2, <1>3, <1>5

(* An operation of the partner that arrives. *)
LEMMA ApplyRows ==
  ASSUME Rows, NEW s \in Side, NEW op \in Operation, ApplyCrdtOp(s, op)
  PROVE  Rows'
<1>9. CASE op.kind \in NoteKind
  <2>1. op.arg \in Note
    BY <1>9, OperationFacts
  <2>2. ApplyDelete(s, op) \/ ApplyReveal(s, op)
    BY <1>9 DEF NoteKind, ApplyCrdtOp, ApplyStart, ApplyReroll, ApplySubmit, ApplyReject,
                ApplyVerify, ApplyCancel, ApplyUncancel, ApplyReflect, ApplyLedger
  <2>3. UNCHANGED <<state, prompt, drawn, reflected, ledger>>
    BY <2>2 DEF ApplyDelete, ApplyReveal
  <2>4. /\ deleted' \in {deleted, [deleted EXCEPT ![s] = @ \cup {op.arg}]}
        /\ revealed' \in {revealed, [revealed EXCEPT ![s] = @ \cup {op.arg}]}
    BY <2>2 DEF ApplyDelete, ApplyReveal
  <2>5. revealed' \in [Side -> SUBSET Note] /\ deleted' \in [Side -> SUBSET Note]
    BY <2>1, <2>4, NoteAdded DEF Rows, RowType
  <2> QED
    BY <2>3, <2>5, OtherRows DEF Rows, RowType
<1> SUFFICES ASSUME op.kind \notin NoteKind
             PROVE  Rows'
  BY <1>9
<1>1. /\ op.x \in Attempt /\ op.num \in Nat
      /\ op.kind \in {"start", "reroll"} => op.arg \in Prompt
      /\ op.kind = "verify" => op.arg \in Note
      /\ op.kind = "ledger" => op.arg \in Reason
  BY OperationFacts
<1> DEFINE x == op.x
<1>2. /\ state[s][x] \in State
      /\ state = [state EXCEPT ![s][x] = @] /\ prompt = [prompt EXCEPT ![s][x] = @]
      /\ drawn = [drawn EXCEPT ![s][x] = @]
  BY <1>1 DEF Rows, RowType
<1>3. CASE ApplyStart(s, op)
  <2>1. CASE state[s][x] = "absent"
    <3>1. state' = [state EXCEPT ![s][x] = "assigned"] /\ prompt' = [prompt EXCEPT ![s][x] = op.arg]
      BY <1>3, <2>1 DEF ApplyStart, Move
    <3> QED
      BY <1>1, <1>3, <2>1, <3>1, CreateRows DEF ApplyStart
  <2>2. CASE state[s][x] # "absent"
    <3>1. state' = state /\ prompt' = prompt
      BY <1>2, <1>3, <2>2 DEF ApplyStart, Move
    <3> QED
      BY <1>3, <3>1, OtherRows DEF ApplyStart, Rows, RowType
  <2> QED
    BY <2>1, <2>2
<1>4. CASE ApplyReroll(s, op)
  <2>1. CASE state[s][x] \in {"assigned", "returned"}
    <3>1. prompt' = [prompt EXCEPT ![s][x] = op.arg]
      BY <1>4, <2>1 DEF ApplyReroll
    <3> QED
      BY <1>1, <1>4, <3>1, PromptRows DEF ApplyReroll
  <2>2. CASE state[s][x] \notin {"assigned", "returned"}
    <3>1. prompt' = prompt
      BY <1>2, <1>4, <2>2 DEF ApplyReroll
    <3> QED
      BY <1>4, <3>1, OtherRows DEF ApplyReroll, Rows, RowType
  <2> QED
    BY <2>1, <2>2
<1>5. CASE ApplySubmit(s, op) \/ ApplyReject(s, op) \/ ApplyCancel(s, op) \/ ApplyUncancel(s, op)
  <2>1. PICK from \in {{"assigned", "returned"}, {"submitted"}, Active, {"canceled"}},
             v \in State \ {"absent", "revealed"} : Move(s, x, from, v)
    BY <1>5 DEF ApplySubmit, ApplyReject, ApplyCancel, ApplyUncancel, State
  <2>2. UNCHANGED <<prompt, drawn, revealed, deleted, reflected, ledger>>
    BY <1>5 DEF ApplySubmit, ApplyReject, ApplyCancel, ApplyUncancel
  <2>3. CASE state[s][x] \in from
    <3>1. state' = [state EXCEPT ![s][x] = v] /\ state[s][x] \in State \ {"absent", "revealed"}
      BY <1>2, <2>1, <2>3 DEF Move, Active
    <3> QED
      BY <1>1, <2>2, <3>1, MoveRows
  <2>4. CASE state[s][x] \notin from
    <3>1. state' = state
      BY <1>2, <2>1, <2>4 DEF Move
    <3> QED
      BY <2>2, <3>1, OtherRows DEF Rows, RowType
  <2> QED
    BY <2>3, <2>4
<1>6. CASE ApplyVerify(s, op)
  <2>1. revealed' \in [Side -> SUBSET Note]
    BY <1>1, <1>6 DEF ApplyVerify, Rows, RowType
  <2>2. CASE state[s][x] = "submitted"
    <3>1. state' = [state EXCEPT ![s][x] = "revealed"] /\ drawn' = [drawn EXCEPT ![s][x] = op.arg]
      BY <1>6, <2>2 DEF ApplyVerify, Move
    <3> QED
      BY <1>1, <1>6, <2>1, <2>2, <3>1, RevealRows DEF ApplyVerify
  <2>3. CASE state[s][x] # "submitted"
    <3>1. state' = state /\ drawn' = drawn
      BY <1>2, <1>6, <2>3 DEF ApplyVerify, Move
    <3> QED
      BY <1>6, <2>1, <3>1, OtherRows DEF ApplyVerify, Rows, RowType
  <2> QED
    BY <2>2, <2>3
<1>7. CASE ApplyReflect(s, op)
  <2>1. reflected' \in [Side -> SUBSET (Attempt \X Side)]
    BY <1>1, <1>7, OtherSide DEF ApplyReflect, Rows, RowType
  <2> QED
    BY <1>7, <2>1, OtherRows DEF ApplyReflect, Rows, RowType
<1>8. CASE ApplyLedger(s, op)
  <2>1. [x |-> op.x, reason |-> op.arg, by |-> Other(s), num |-> op.num] \in LedgerEntry
    BY <1>1, <1>8, OtherSide DEF ApplyLedger, LedgerEntry
  <2>2. ledger' \in [Side -> SUBSET LedgerEntry]
    BY <1>8, <2>1 DEF ApplyLedger, Rows, RowType
  <2> QED
    BY <1>8, <2>2, OtherRows DEF ApplyLedger, Rows, RowType
<1> QED
  BY <1>3, <1>4, <1>5, <1>6, <1>7, <1>8 DEF ApplyCrdtOp, ApplyDelete, ApplyReveal, NoteKind

LEMMA NextType ==
  /\ WireTypeOK(Operation) /\ Rows /\ LocalType /\ HistoryType /\ [Next]_vars
  => WireTypeOK(Operation)' /\ Rows' /\ LocalType' /\ HistoryType'
<1> SUFFICES ASSUME WireTypeOK(Operation), Rows, LocalType, HistoryType, [Next]_vars
             PROVE  WireTypeOK(Operation)' /\ Rows' /\ LocalType' /\ HistoryType'
  OBVIOUS
<1>1. CASE Midnight
  <2>1. day' \in 0 .. MaxDay
    BY <1>1, SecretUnlockAssumption DEF Midnight, LocalType, SecretUnlockAssumption
  <2>2. WireTypeOK(Operation)'
    BY <1>1, WireQuiet DEF Midnight
  <2>3. Rows'
    BY <1>1, OtherRows DEF Midnight, rows, Rows, RowType
  <2>4. LocalType' /\ HistoryType'
    BY <1>1, <2>1 DEF Midnight, LocalType, HistoryType, history
  <2> QED
    BY <2>2, <2>3, <2>4
<1>2. ASSUME NEW s \in Side, StartUnlock(s)
      PROVE  WireTypeOK(Operation)' /\ Rows' /\ LocalType' /\ HistoryType'
  <2>1. Append(calls[s], day) \in Seq(0 .. MaxDay)
    BY DEF LocalType
  <2>2. calls' = [calls EXCEPT ![s] = Append(calls[s], day)]
    BY <1>2 DEF StartUnlock
  <2>3. LocalType' /\ HistoryType'
    BY <1>2, <2>1, <2>2 DEF StartUnlock, LocalType, HistoryType, history
  <2>4. WireTypeOK(Operation)'
    BY <1>2, WireQuiet DEF StartUnlock
  <2>5. Rows'
    BY <1>2, OtherRows DEF StartUnlock, rows, Rows, RowType
  <2> QED
    BY <2>3, <2>4, <2>5
<1>3. ASSUME NEW s \in Side, NEW c \in DOMAIN calls[s], StartSkip(s, c)
      PROVE  WireTypeOK(Operation)' /\ Rows' /\ LocalType' /\ HistoryType'
  <2>1. calls' \in [Side -> Seq(0 .. MaxDay)] /\ tokens' \in [Side -> 0 .. MaxTokens]
    BY <1>3, GrantTokensType DEF StartSkip
  <2>2. WireTypeOK(Operation)'
    BY <1>3, WireQuiet DEF StartSkip
  <2>3. Rows'
    BY <1>3, OtherRows DEF StartSkip, rows, Rows, RowType
  <2>4. LocalType' /\ HistoryType'
    BY <1>3, <2>1 DEF StartSkip, LocalType, HistoryType, history
  <2> QED
    BY <2>2, <2>3, <2>4
<1>4. ASSUME NEW s \in Side, NEW x \in Attempt, NEW reason \in Reason, Award(s, x, reason)
      PROVE  WireTypeOK(Operation)' /\ Rows' /\ LocalType' /\ HistoryType'
  <2>1. WireTypeOK(Operation)' /\ issued' \in [Side -> Nat]
    BY <1>4, IssueWay DEF Award, Payload
  <2>2. [x |-> x, reason |-> reason, by |-> s, num |-> issued[s] + 1] \in LedgerEntry
    BY DEF LocalType, LedgerEntry
  <2>3. ledger' \in [Side -> SUBSET LedgerEntry]
    BY <1>4, <2>2 DEF Award, Rows, RowType
  <2>4. Rows'
    BY <1>4, <2>3, OtherRows DEF Award, Rows, RowType
  <2>5. LocalType' /\ HistoryType'
    BY <1>4, <2>1 DEF Award, LocalType, HistoryType, local, history
  <2> QED
    BY <2>1, <2>4, <2>5
<1>5. ASSUME NEW s \in Side, Sync(s)
      PROVE  WireTypeOK(Operation)' /\ Rows' /\ LocalType' /\ HistoryType'
  <2>1. WireTypeOK(Operation)'
    BY <1>5, WireStepWay DEF Sync
  <2>2. Rows'
    BY <1>5, OtherRows DEF Sync, rows, Rows, RowType
  <2>3. LocalType' /\ HistoryType'
    BY <1>5 DEF Sync, LocalType, HistoryType, local, history
  <2> QED
    BY <2>1, <2>2, <2>3
<1>6. ASSUME NEW s \in Side, ApplyNext(s)
      PROVE  WireTypeOK(Operation)' /\ Rows' /\ LocalType' /\ HistoryType'
  <2>1. PICK e \in page[s] :
          /\ Take(s, e)
          /\ ApplyCrdtOp(s, e.op)
          /\ newest' = [newest EXCEPT ![s] = IF e.op.num > @ THEN e.op.num ELSE @]
          /\ reordered' = (reordered \/ e.op.num <= newest[s])
          /\ UNCHANGED <<local, issued, canceledOnce, cut, starved, crossed>>
    BY <1>6 DEF ApplyNext
  <2>2. WireTypeOK(Operation)' /\ e.op \in Operation
    BY <2>1, TakeWay
  <2>3. Rows'
    BY <2>1, <2>2, ApplyRows
  <2>4. newest' \in [Side -> Nat]
    BY <2>1, <2>2, OperationFacts DEF HistoryType
  <2>5. reordered' \in BOOLEAN
    BY <2>1 DEF HistoryType
  <2>6. LocalType' /\ HistoryType'
    BY <2>1, <2>4, <2>5 DEF LocalType, HistoryType, local
  <2> QED
    BY <2>2, <2>3, <2>6
<1>7. CASE UNCHANGED vars
  <2>1. WireTypeOK(Operation)'
    BY <1>7, WireQuiet DEF vars
  <2>2. Rows'
    BY <1>7, OtherRows DEF vars, rows, Rows, RowType
  <2>3. LocalType' /\ HistoryType'
    BY <1>7 DEF vars, LocalType, HistoryType, local, history
  <2> QED
    BY <2>1, <2>2, <2>3
<1>8. ASSUME NEW s \in Side, NEW x \in Attempt, NEW n \in Note, VerifySkip(s, x, n)
      PROVE  WireTypeOK(Operation)' /\ Rows' /\ LocalType' /\ HistoryType'
  <2>1. WireTypeOK(Operation)'
    BY <1>8, WireQuiet DEF VerifySkip
  <2>2. Rows'
    BY <1>8, OtherRows DEF VerifySkip, rows, Rows, RowType
  <2>3. drawing' \in [Side -> SUBSET (Attempt \X Note)]
    BY <1>8 DEF VerifySkip, LocalType
  <2>4. LocalType' /\ HistoryType'
    BY <1>8, <2>3 DEF VerifySkip, LocalType, HistoryType, history
  <2> QED
    BY <2>1, <2>2, <2>4
<1> QED
  BY <1>1, <1>2, <1>3, <1>4, <1>5, <1>6, <1>7, <1>8, ActType, TakeOutType DEF Next, TakesOut

-----------------------------------------------------------------------------
(* What comes on its way and what leaves it.                               *)

(* The step in which s issues op. *)
Issues(s, op) ==
  /\ op.kind \in {"start", "uncancel"} => Unlocker[op.x] = s
  /\ op.kind = "start" =>
       op.arg \in Prompt /\ \E c \in DOMAIN calls[s] : StartCommit(s, c, op.x, op.arg)
  /\ op.kind = "verify" => op.arg \in Note /\ VerifyCommit(s, op.x, op.arg)
  /\ op.kind = "ledger" => /\ op.arg \in Reason /\ op.num = issued[s] + 1
                           /\ Award(s, op.x, op.arg)
  /\ op.kind = "delete" => op.arg \in Note /\ DeleteNote(s, op.arg)
  /\ op.kind = "reveal" => op.arg \in Note /\ RevealSecretNote(s, op.arg)

WaySteps ==
  \A s \in Side :
    /\ \A op \in Way(s)' : op \in Way(s) \/ (op \in Operation /\ Issues(s, op))
    /\ \A op \in Way(s) :
         op \in Way(s)' \/ (ApplyNext(Other(s)) /\ ApplyCrdtOp(Other(s), op))

LEMMA SameWay ==
  ASSUME \A s \in Side : Way(s)' = Way(s)
  PROVE  WaySteps
  BY DEF WaySteps

LEMMA IssuedWay ==
  ASSUME WireTypeOK(Operation), LocalType, NEW s \in Side, NEW x, NEW kind, NEW arg,
         Issue(s, kind, x, arg), Payload(kind, x, arg),
         kind \in {"start", "uncancel"} => Unlocker[x] = s,
         kind = "start" => \E c \in DOMAIN calls[s] : StartCommit(s, c, x, arg),
         kind = "verify" => VerifyCommit(s, x, arg),
         kind = "ledger" => Award(s, x, arg),
         kind = "delete" => DeleteNote(s, arg),
         kind = "reveal" => RevealSecretNote(s, arg)
  PROVE  WaySteps
<1> DEFINE op == [kind |-> kind, num |-> issued[s] + 1, x |-> x, arg |-> arg]
<1>1. Way(Other(s))' = Way(Other(s)) /\ Way(s)' = Way(s) \cup {op}
  BY IssueWay
<1>2. op \in Operation /\ Issues(s, op)
  <2>1. issued[s] + 1 \in Nat
    BY DEF LocalType
  <2>2. op \in Operation
    BY <2>1 DEF Operation, Payload, NoteKind
  <2>3. Issues(s, op)
    BY DEF Issues, Payload, NoteKind
  <2> QED
    BY <2>2, <2>3
<1>3. \A q \in Side : q = s \/ q = Other(s)
  BY OtherSide
<1> HIDE DEF op
<1> QED
  BY <1>1, <1>2, <1>3 DEF WaySteps

LEMMA ActWay ==
  ASSUME WireTypeOK(Operation), LocalType, NEW s \in Side, NEW x \in Attempt, Act(s, x)
  PROVE  WaySteps
<1>1. ASSUME NEW p \in Prompt, NEW c \in DOMAIN calls[s], StartCommit(s, c, x, p)
      PROVE  WaySteps
  <2>1. Issue(s, "start", x, p) /\ Unlocker[x] = s
    BY <1>1 DEF StartCommit, CreateAttempt
  <2> QED
    BY <1>1, <2>1, IssuedWay DEF Payload
<1>2. ASSUME NEW p \in Redrawn, RerollUnlock(s, x, p)
      PROVE  WaySteps
  <2>1. Issue(s, "reroll", x, p)
    BY <1>2 DEF RerollUnlock
  <2>2. p \in Prompt
    BY SecretUnlockAssumption DEF SecretUnlockAssumption
  <2> QED
    BY <2>1, <2>2, IssuedWay DEF Payload
<1>3. ASSUME NEW p \in Redrawn, RerollCutShort(s, x, p)
      PROVE  WaySteps
  BY <1>3, SameWay DEF RerollCutShort, Way, OnRelay
<1>4. CASE SubmitUnlock(s, x) \/ CancelUnlock(s, x) \/ UncancelUnlock(s, x) \/ RejectUnlock(s, x)
           \/ ReflectOnUnlock(s, x)
  <2>1. PICK kind \in {"submit", "cancel", "uncancel", "reject", "reflect"} :
          Issue(s, kind, x, "none") /\ (kind = "uncancel" => Unlocker[x] = s)
    BY <1>4 DEF SubmitUnlock, CancelUnlock, UncancelUnlock, RejectUnlock, ReflectOnUnlock,
                OffersUndo
  <2> QED
    BY <2>1, IssuedWay DEF Payload
<1>5. ASSUME NEW n \in Note, VerifyCommit(s, x, n)
      PROVE  WaySteps
  <2>1. Issue(s, "verify", x, n)
    BY <1>5 DEF VerifyCommit
  <2> QED
    BY <1>5, <2>1, IssuedWay DEF Payload
<1>7. ASSUME NEW n \in Note, VerifyUnlock(s, x, n)
      PROVE  WaySteps
  BY <1>7, WireQuiet, SameWay DEF VerifyUnlock
<1>6. CASE Disclose(s, x)
  BY <1>6, WireQuiet, SameWay DEF Disclose
<1> QED
  BY <1>1, <1>2, <1>3, <1>4, <1>5, <1>6, <1>7 DEF Act

LEMMA NextWay ==
  ASSUME WireTypeOK(Operation), LocalType, [Next]_vars
  PROVE  WaySteps
<1>1. CASE Midnight
  BY <1>1, WireQuiet, SameWay DEF Midnight
<1>2. ASSUME NEW s \in Side, StartUnlock(s)
      PROVE  WaySteps
  BY <1>2, WireQuiet, SameWay DEF StartUnlock
<1>3. ASSUME NEW s \in Side, NEW c \in DOMAIN calls[s], StartSkip(s, c)
      PROVE  WaySteps
  BY <1>3, WireQuiet, SameWay DEF StartSkip
<1>4. ASSUME NEW s \in Side, NEW x \in Attempt, NEW reason \in Reason, Award(s, x, reason)
      PROVE  WaySteps
  <2>1. Issue(s, "ledger", x, reason)
    BY <1>4 DEF Award
  <2> QED
    BY <1>4, <2>1, IssuedWay DEF Payload
<1>5. ASSUME NEW s \in Side, Sync(s)
      PROVE  WaySteps
  BY <1>5, WireStepWay, SameWay DEF Sync
<1>6. ASSUME NEW s \in Side, ApplyNext(s)
      PROVE  WaySteps
  <2>1. PICK e \in page[s] : Take(s, e) /\ ApplyCrdtOp(s, e.op)
    BY <1>6 DEF ApplyNext
  <2>2. /\ Way(s)' = Way(s) /\ Way(Other(s))' \subseteq Way(Other(s))
        /\ Way(Other(s)) \subseteq Way(Other(s))' \cup {e.op}
    BY <2>1, TakeWay
  <2>3. \A q \in Side : q = s \/ q = Other(s)
    BY OtherSide
  <2> QED
    BY <1>6, <2>1, <2>2, <2>3, OtherSide DEF WaySteps
<1>7. CASE UNCHANGED vars
  BY <1>7, WireQuiet, SameWay DEF vars
<1>8. ASSUME NEW s \in Side, NEW x \in Attempt, NEW n \in Note, VerifySkip(s, x, n)
      PROVE  WaySteps
  BY <1>8, WireQuiet, SameWay DEF VerifySkip
<1>9. ASSUME NEW s \in Side, NEW n \in Note, TakesOut(s, n)
      PROVE  WaySteps
  <2>1. PICK kind \in NoteKind :
          /\ Issue(s, kind, "none", n)
          /\ kind = "delete" => DeleteNote(s, n)
          /\ kind = "reveal" => RevealSecretNote(s, n)
    BY <1>9 DEF TakesOut, DeleteNote, RevealSecretNote, NoteKind
  <2> QED
    BY <2>1, IssuedWay DEF Payload, NoteKind
<1> QED
  BY <1>1, <1>2, <1>3, <1>4, <1>5, <1>6, <1>7, <1>8, <1>9, ActWay DEF Next, TakesOut

(* The step of a phone that applies an operation of the partner. *)
LEMMA Arrival ==
  ASSUME WireTypeOK(Operation), NEW s \in Side, ApplyNext(s)
  PROVE  /\ \E op \in Way(Other(s)) : op \in Operation /\ ApplyCrdtOp(s, op)
         /\ UNCHANGED local
<1>1. PICK e \in page[s] : Take(s, e) /\ ApplyCrdtOp(s, e.op)
  BY DEF ApplyNext
<1> QED
  BY <1>1, TakeWay DEF ApplyNext

(* The steps that leave the rows and what the user says alone.             *)
Aside ==
  \/ Midnight
  \/ \E s \in Side : \/ StartUnlock(s) \/ Sync(s)
                     \/ \E c \in DOMAIN calls[s] : StartSkip(s, c)
                     \/ \E x \in Attempt, n \in Note : VerifySkip(s, x, n)

-----------------------------------------------------------------------------
(* One attempt at a time.                                                  *)

LEMMA NextStarts ==
  WireTypeOK(Operation) /\ LocalType /\ Starts /\ [Next]_vars => Starts'
<1> SUFFICES ASSUME WireTypeOK(Operation), LocalType, Starts, [Next]_vars
             PROVE  Starts'
  OBVIOUS
<1>1. WaySteps
  BY NextWay
<1> QED
  BY <1>1 DEF WaySteps, Issues, Starts, StartInv

OneOf(s) ==
  \A x, y \in {z \in Attempt : Unlocker[z] = s} :
    x # y => /\ ~(state[s][x] \in Active /\ state[s][y] \in Active)
             /\ state[s][x] # "absent" /\ state[s][y] # "absent"
                  => startedOn[x] # startedOn[y]

LEMMA OneOfAll == OneAttemptAtATime <=> \A s \in Side : OneOf(s)
  BY DEF OneAttemptAtATime, OneOf

(* A step that activates and creates none of the attempts of s. *)
LEMMA OneFrame ==
  ASSUME NEW s \in Side, OneOf(s),
         \A x \in Attempt : Unlocker[x] = s =>
           /\ startedOn'[x] = startedOn[x]
           /\ state'[s][x] \in Active => state[s][x] \in Active
           /\ state'[s][x] # "absent" => state[s][x] # "absent"
  PROVE  OneOf(s)'
  BY DEF OneOf

LEMMA CreateOne ==
  ASSUME Rows, LocalType, OneAttemptAtATime, NEW s \in Side,
         NEW c \in DOMAIN calls[s], NEW x \in Attempt, NEW p \in Prompt, StartCommit(s, c, x, p)
  PROVE  OneAttemptAtATime'
<1>1. /\ Unlocker[x] = s /\ state' = [state EXCEPT ![s][x] = "assigned"]
      /\ \A y \in Attempt : Unlocker[y] = s => state[s][y] \notin Active
      /\ \A y \in Attempt : Unlocker[y] = s /\ state[s][y] # "absent" => startedOn[y] < calls[s][c]
  BY DEF StartCommit, CreateAttempt, MayStart
<1>2. PICK d \in calls[s][c] .. day : startedOn' = [startedOn EXCEPT ![x] = d]
  BY DEF StartCommit, CreateAttempt
<1>3. calls[s][c] \in 0 .. MaxDay
  BY SeqItem DEF LocalType
<1>4. \A y \in Attempt : Unlocker[y] = s /\ state[s][y] # "absent" => startedOn[y] # d
  <2>1. day \in Nat /\ calls[s][c] \in Nat /\ d \in Nat /\ calls[s][c] <= d
    BY <1>2, <1>3, SecretUnlockAssumption DEF LocalType, SecretUnlockAssumption
  <2>2. \A y \in Attempt : startedOn[y] \in Nat
    BY DEF LocalType
  <2> QED
    BY <1>1, <2>1, <2>2
<1>5. /\ state'[s][x] = "assigned"
      /\ \A q \in Side, y \in Attempt : q # s \/ y # x => state'[q][y] = state[q][y]
  BY <1>1 DEF Rows, RowType
<1>6. startedOn'[x] = d /\ \A y \in Attempt : y # x => startedOn'[y] = startedOn[y]
  BY <1>2 DEF LocalType
<1>7. OneOf(s)'
  BY <1>1, <1>4, <1>5, <1>6, OneOfAll DEF OneOf
<1>8. \A q \in Side : q # s => OneOf(q)'
  BY <1>1, <1>5, <1>6, OneOfAll DEF OneOf
<1> QED
  BY <1>7, <1>8, OneOfAll DEF OneAttemptAtATime, OneOf

LEMMA NextOne ==
  /\ WireTypeOK(Operation) /\ Rows /\ LocalType /\ Starts /\ OneAttemptAtATime /\ [Next]_vars
  => OneAttemptAtATime'
<1> SUFFICES ASSUME WireTypeOK(Operation), Rows, LocalType, Starts, OneAttemptAtATime, [Next]_vars
             PROVE  OneAttemptAtATime'
  OBVIOUS
<1>1. ASSUME startedOn' = startedOn, state' = state
      PROVE  OneAttemptAtATime'
  BY <1>1 DEF OneAttemptAtATime
<1>2. ASSUME NEW s \in Side, NEW c \in DOMAIN calls[s], NEW x \in Attempt, NEW p \in Prompt,
             StartCommit(s, c, x, p)
      PROVE  OneAttemptAtATime'
  BY <1>2, CreateOne
<1>3. ASSUME NEW s \in Side, NEW x \in Attempt,
             \/ SubmitUnlock(s, x) \/ CancelUnlock(s, x) \/ RejectUnlock(s, x)
             \/ \E n \in Note : VerifyCommit(s, x, n)
      PROVE  OneAttemptAtATime'
  <2>1. PICK v \in State \ {"absent"} :
          state' = [state EXCEPT ![s][x] = v] /\ startedOn' = startedOn
    BY <1>3 DEF SubmitUnlock, CancelUnlock, RejectUnlock, VerifyCommit, local, State
  <2>2. state[s][x] \in Active
    BY <1>3 DEF SubmitUnlock, CancelUnlock, RejectUnlock, VerifyCommit,
                OffersTask, OffersVerdict, OffersCancel, Active
  <2>3. state[s][x] # "absent"
    BY <1>3 DEF SubmitUnlock, CancelUnlock, RejectUnlock, VerifyCommit,
                OffersTask, OffersVerdict, OffersCancel, Active
  <2>4. /\ state'[s][x] = v
        /\ \A q \in Side, y \in Attempt : q # s \/ y # x => state'[q][y] = state[q][y]
    BY <2>1 DEF Rows, RowType
  <2>5. \A q \in Side : OneOf(q)'
    BY <2>1, <2>2, <2>3, <2>4, OneOfAll, OneFrame
  <2> QED
    BY <2>5, OneOfAll DEF OneAttemptAtATime, OneOf
<1>4. ASSUME NEW s \in Side, NEW x \in Attempt, UncancelUnlock(s, x)
      PROVE  OneAttemptAtATime'
  <2>1. /\ state' = [state EXCEPT ![s][x] = "assigned"] /\ startedOn' = startedOn
        /\ Unlocker[x] = s /\ state[s][x] # "absent"
        /\ \A y \in Attempt : Unlocker[y] = s => state[s][y] \notin Active
    BY <1>4 DEF UncancelUnlock, OffersUndo, local
  <2>2. /\ state'[s][x] = "assigned"
        /\ \A q \in Side, y \in Attempt : q # s \/ y # x => state'[q][y] = state[q][y]
    BY <2>1 DEF Rows, RowType
  <2>3. OneOf(s)'
    BY <2>1, <2>2, OneOfAll DEF OneOf
  <2>4. \A q \in Side : q # s => OneOf(q)'
    BY <2>1, <2>2, OneOfAll, OneFrame
  <2> QED
    BY <2>3, <2>4, OneOfAll DEF OneAttemptAtATime, OneOf
<1>5. ASSUME NEW s \in Side, NEW x \in Attempt,
             \/ \E p \in Redrawn : RerollUnlock(s, x, p) \/ RerollCutShort(s, x, p)
             \/ Disclose(s, x) \/ ReflectOnUnlock(s, x) \/ \E n \in Note : VerifyUnlock(s, x, n)
      PROVE  OneAttemptAtATime'
  BY <1>1, <1>5 DEF RerollUnlock, RerollCutShort, Disclose, ReflectOnUnlock, VerifyUnlock, rows,
                    local
<1>6. ASSUME NEW s \in Side, ApplyNext(s)
      PROVE  OneAttemptAtATime'
  <2>1. PICK op \in Way(Other(s)) : op \in Operation /\ ApplyCrdtOp(s, op)
    BY <1>6, Arrival
  <2>2. startedOn' = startedOn
    BY <1>6, Arrival DEF local
  <2>0. CASE op.kind \in NoteKind
    BY <1>1, <2>0, <2>1, <2>2 DEF ApplyCrdtOp, ApplyStart, ApplyReroll, ApplySubmit, ApplyReject,
                ApplyVerify, ApplyCancel, ApplyUncancel, ApplyReflect, ApplyLedger, ApplyDelete,
                ApplyReveal, NoteKind
  <2> SUFFICES ASSUME op.kind \notin NoteKind
               PROVE  OneAttemptAtATime'
    BY <2>0
  <2>3. op.x \in Attempt /\ (op.kind \in {"start", "uncancel"} => Unlocker[op.x] # s)
    BY <2>1, OperationFacts, OtherSide DEF Starts, StartInv
  <2>4. \A q \in Side, y \in Attempt : q # s \/ y # op.x => state'[q][y] = state[q][y]
    BY <2>1, <2>3 DEF ApplyCrdtOp, ApplyStart, ApplyReroll, ApplySubmit, ApplyReject, ApplyVerify,
                ApplyCancel, ApplyUncancel, ApplyReflect, ApplyLedger, ApplyDelete, ApplyReveal,
                Move, Rows, RowType
  <2>5. Unlocker[op.x] = s =>
          /\ state'[s][op.x] \in Active => state[s][op.x] \in Active
          /\ state'[s][op.x] # "absent" => state[s][op.x] # "absent"
    BY <2>1, <2>3 DEF ApplyCrdtOp, ApplyStart, ApplyReroll, ApplySubmit, ApplyReject, ApplyVerify,
                ApplyCancel, ApplyUncancel, ApplyReflect, ApplyLedger, ApplyDelete, ApplyReveal,
                Move, Rows, RowType, Active
  <2>6. \A q \in Side : OneOf(q)'
    BY <2>2, <2>4, <2>5, OneOfAll, OneFrame
  <2> QED
    BY <2>6, OneOfAll DEF OneAttemptAtATime, OneOf
<1>7. CASE Aside
  BY <1>1, <1>7 DEF Aside, Midnight, StartUnlock, Sync, StartSkip, VerifySkip, rows, local
<1>10. ASSUME NEW s \in Side, NEW n \in Note, TakesOut(s, n)
      PROVE  OneAttemptAtATime'
  BY <1>1, <1>10 DEF TakesOut, DeleteNote, RevealSecretNote, local
<1>8. ASSUME NEW s \in Side, NEW x \in Attempt, NEW reason \in Reason, Award(s, x, reason)
      PROVE  OneAttemptAtATime'
  BY <1>1, <1>8 DEF Award, local
<1>9. CASE UNCHANGED vars
  BY <1>1, <1>9 DEF vars, rows, local
<1> QED
  BY <1>2, <1>3, <1>4, <1>5, <1>6, <1>7, <1>8, <1>9, <1>10 DEF Next, Act, Aside, TakesOut

LEMMA WayType ==
  ASSUME WireTypeOK(Operation), NEW s \in Side
  PROVE  Way(s) \subseteq Operation
<1>1. outbox[s] \in Seq(Operation) /\ \A e \in inbox[Other(s)] : e.op \in Operation
  BY OtherSide DEF WireTypeOK, Entry
<1>2. Items(outbox[s]) \subseteq Operation
  BY <1>1, SeqItem DEF Items
<1> QED
  BY <1>1, <1>2 DEF Way, OnRelay

-----------------------------------------------------------------------------
(* What the Author draws.                                                  *)

(* A call of verifyUnlock picks before it commits.                         *)
PickSteps ==
  \A s \in Side, x \in Attempt, n \in Note :
    <<x, n>> \in drawing'[s] => <<x, n>> \in drawing[s] \/ VerifyUnlock(s, x, n)

LEMMA NextPick ==
  ASSUME LocalType, [Next]_vars
  PROVE  PickSteps
<1>1. ASSUME drawing' = drawing
      PROVE  PickSteps
  BY <1>1 DEF PickSteps
<1>2. ASSUME NEW s \in Side, NEW x \in Attempt, NEW n \in Note, VerifyUnlock(s, x, n)
      PROVE  PickSteps
  BY <1>2 DEF VerifyUnlock, PickSteps, LocalType
<1>3. ASSUME NEW s \in Side, NEW x \in Attempt, NEW n \in Note,
             VerifyCommit(s, x, n) \/ VerifySkip(s, x, n)
      PROVE  PickSteps
  BY <1>3 DEF VerifyCommit, VerifySkip, PickSteps, LocalType
<1>4. ASSUME NEW s \in Side, NEW x \in Attempt,
             \/ \E p \in Prompt, c \in DOMAIN calls[s] : StartCommit(s, c, x, p)
             \/ \E p \in Redrawn : RerollUnlock(s, x, p) \/ RerollCutShort(s, x, p)
             \/ SubmitUnlock(s, x) \/ CancelUnlock(s, x) \/ UncancelUnlock(s, x)
             \/ RejectUnlock(s, x) \/ Disclose(s, x) \/ ReflectOnUnlock(s, x)
             \/ \E reason \in Reason : Award(s, x, reason)
      PROVE  PickSteps
  BY <1>1, <1>4 DEF StartCommit, CreateAttempt, RerollUnlock, RerollCutShort, SubmitUnlock,
                    CancelUnlock, UncancelUnlock, RejectUnlock, Disclose, ReflectOnUnlock, Award,
                    local
<1>5. CASE Midnight \/ \E s \in Side : \/ StartUnlock(s) \/ Sync(s) \/ ApplyNext(s)
                                       \/ \E c \in DOMAIN calls[s] : StartSkip(s, c)
  BY <1>1, <1>5 DEF Midnight, StartUnlock, Sync, ApplyNext, StartSkip, local
<1>6. ASSUME NEW s \in Side, NEW n \in Note, TakesOut(s, n)
      PROVE  PickSteps
  BY <1>1, <1>6 DEF TakesOut, DeleteNote, RevealSecretNote, local
<1>7. CASE UNCHANGED vars
  BY <1>1, <1>7 DEF vars, local
<1> QED
  BY <1>2, <1>3, <1>4, <1>5, <1>6, <1>7 DEF Next, Act, TakesOut

(* A row stays once it is there, and comes with its creation or with the   *)
(* Unlocker's word of it.                                                  *)
RowSteps ==
  \A s \in Side, x \in Attempt :
    /\ state[s][x] # "absent" => state'[s][x] # "absent"
    /\ state[s][x] = "absent" /\ state'[s][x] # "absent" =>
         Unlocker[x] = s \/ \E op \in Way(Other(s)) : op.kind = "start" /\ op.x = x

LEMMA NextRow ==
  ASSUME WireTypeOK(Operation), Rows, [Next]_vars
  PROVE  RowSteps
<1>1. ASSUME state' = state
      PROVE  RowSteps
  BY <1>1 DEF RowSteps
<1>2. ASSUME NEW s \in Side, NEW x \in Attempt,
             \/ \E p \in Prompt, c \in DOMAIN calls[s] : StartCommit(s, c, x, p)
             \/ SubmitUnlock(s, x) \/ CancelUnlock(s, x) \/ UncancelUnlock(s, x)
             \/ RejectUnlock(s, x) \/ \E n \in Note : VerifyCommit(s, x, n)
      PROVE  RowSteps
  <2>1. PICK v \in State \ {"absent"} : state' = [state EXCEPT ![s][x] = v]
    BY <1>2 DEF StartCommit, CreateAttempt, SubmitUnlock, CancelUnlock, UncancelUnlock,
                RejectUnlock, VerifyCommit, State
  <2>2. /\ state'[s][x] = v
        /\ \A q \in Side, y \in Attempt : q # s \/ y # x => state'[q][y] = state[q][y]
    BY <2>1, SetAt DEF Rows, RowType
  <2>3. state[s][x] = "absent" => Unlocker[x] = s
    BY <1>2 DEF StartCommit, CreateAttempt, SubmitUnlock, CancelUnlock, UncancelUnlock,
                RejectUnlock, VerifyCommit, OffersTask, OffersCancel, OffersUndo, OffersVerdict
  <2> QED
    BY <2>2, <2>3 DEF RowSteps
<1>3. ASSUME NEW s \in Side, ApplyNext(s)
      PROVE  RowSteps
  <2>1. PICK op \in Way(Other(s)) : op \in Operation /\ ApplyCrdtOp(s, op)
    BY <1>3, Arrival
  <2>2. CASE op.kind \in NoteKind \cup {"reroll", "reflect", "ledger"}
    BY <1>1, <2>1, <2>2 DEF ApplyCrdtOp, ApplyStart, ApplyReroll, ApplySubmit, ApplyReject,
                ApplyVerify, ApplyCancel, ApplyUncancel, ApplyReflect, ApplyLedger, ApplyDelete,
                ApplyReveal, NoteKind
  <2>3. CASE op.kind \notin NoteKind \cup {"reroll", "reflect", "ledger"}
    <3>1. op.x \in Attempt
      BY <2>1, <2>3, OperationFacts
    <3>2. PICK from \in {{"absent"}, {"assigned", "returned"}, {"submitted"}, Active,
                         {"canceled"}},
               to \in State \ {"absent"} :
            /\ Move(s, op.x, from, to)
            /\ from = {"absent"} => op.kind = "start"
      <4>1. CASE op.kind = "start"
        BY <2>1, <4>1 DEF ApplyCrdtOp, ApplyStart, ApplyReroll, ApplySubmit, ApplyReject,
                ApplyVerify, ApplyCancel, ApplyUncancel, ApplyReflect, ApplyLedger, ApplyDelete,
                ApplyReveal, State
      <4>2. CASE op.kind # "start"
        BY <2>1, <2>3, <4>2 DEF ApplyCrdtOp, ApplyStart, ApplyReroll, ApplySubmit, ApplyReject,
                ApplyVerify, ApplyCancel, ApplyUncancel, ApplyReflect, ApplyLedger, ApplyDelete,
                ApplyReveal, NoteKind, State, Active
      <4> QED
        BY <4>1, <4>2
    <3>3. /\ state'[s][op.x] = IF state[s][op.x] \in from THEN to ELSE state[s][op.x]
          /\ \A q \in Side, y \in Attempt : q # s \/ y # op.x => state'[q][y] = state[q][y]
      BY <3>1, <3>2 DEF Move, Rows, RowType
    <3>4. state[s][op.x] = "absent" /\ state'[s][op.x] # "absent" => op.kind = "start"
      BY <3>2, <3>3 DEF Active
    <3> QED
      BY <2>1, <3>1, <3>3, <3>4 DEF RowSteps
  <2> QED
    BY <2>2, <2>3
<1>4. ASSUME NEW s \in Side, NEW x \in Attempt,
             \/ \E p \in Redrawn : RerollUnlock(s, x, p) \/ RerollCutShort(s, x, p)
             \/ Disclose(s, x) \/ ReflectOnUnlock(s, x) \/ \E n \in Note : VerifyUnlock(s, x, n)
             \/ \E reason \in Reason : Award(s, x, reason)
      PROVE  RowSteps
  BY <1>1, <1>4 DEF RerollUnlock, RerollCutShort, Disclose, ReflectOnUnlock, VerifyUnlock, Award,
                    rows
<1>5. CASE Aside
  BY <1>1, <1>5 DEF Aside, Midnight, StartUnlock, Sync, StartSkip, VerifySkip, rows
<1>6. ASSUME NEW s \in Side, NEW n \in Note, TakesOut(s, n)
      PROVE  RowSteps
  BY <1>1, <1>6 DEF TakesOut, DeleteNote, RevealSecretNote
<1>7. CASE UNCHANGED vars
  BY <1>1, <1>7 DEF vars, rows
<1> QED
  BY <1>2, <1>3, <1>4, <1>5, <1>6, <1>7 DEF Next, Act, Aside, TakesOut

LEMMA NextCalls ==
  WireTypeOK(Operation) /\ Rows /\ LocalType /\ Calls /\ [Next]_vars => Calls'
<1> SUFFICES ASSUME WireTypeOK(Operation), Rows, LocalType, Calls, [Next]_vars,
                    NEW s \in Side, NEW x \in Attempt, NEW n \in Note, <<x, n>> \in drawing'[s]
             PROVE  AuthorOf(x) = s /\ Author[n] = s /\ state'[s][x] # "absent"
  BY DEF Calls, CallInv, AuthorOf
<1>1. PickSteps /\ RowSteps
  BY NextPick, NextRow
<1>2. AuthorOf(x) = s /\ Author[n] = s /\ state[s][x] # "absent"
  BY <1>1 DEF PickSteps, VerifyUnlock, OffersVerdict, Candidates, Calls, CallInv
<1> QED
  BY <1>1, <1>2 DEF RowSteps

LEMMA NextPresent ==
  WireTypeOK(Operation) /\ Rows /\ LocalType /\ Present /\ [Next]_vars => Present'
<1> SUFFICES ASSUME WireTypeOK(Operation), Rows, LocalType, Present, [Next]_vars, NEW s \in Side
             PROVE  PresentInv(s)'
  BY DEF Present
<1>1. WaySteps /\ RowSteps
  BY NextWay, NextRow
<1>2. ASSUME NEW op \in Way(s)', op.kind = "start"
      PROVE  state'[s][op.x] # "absent"
  <2>1. CASE op \in Way(s)
    <3>1. op.x \in Attempt
      BY <1>2, <2>1, WayType, OperationFacts DEF NoteKind
    <3> QED
      BY <1>1, <1>2, <2>1, <3>1 DEF Present, PresentInv, RowSteps
  <2>2. CASE op \in Operation /\ Issues(s, op)
    <3>1. op.x \in Attempt
      BY <1>2, <2>2, OperationFacts DEF NoteKind
    <3>2. state' = [state EXCEPT ![s][op.x] = "assigned"]
      BY <1>2, <2>2 DEF Issues, StartCommit, CreateAttempt
    <3> QED
      BY <3>1, <3>2 DEF Rows, RowType
  <2> QED
    BY <1>1, <2>1, <2>2 DEF WaySteps
<1>3. ASSUME NEW x \in Attempt, AuthorOf(x) = s, state'[s][x] # "absent"
      PROVE  state'[Other(s)][x] # "absent"
  <2>1. Other(s) \in Side /\ Unlocker[x] # s
    BY <1>3, Partners, OtherSide
  <2>2. state[Other(s)][x] # "absent"
    BY <1>1, <1>3, <2>1 DEF RowSteps, Present, PresentInv
  <2> QED
    BY <1>1, <2>1, <2>2 DEF RowSteps
<1> QED
  BY <1>2, <1>3 DEF PresentInv, AuthorOf

(* Who changes which secret of an attempt is drawn: the Author, or the     *)
(* arrival of the Author's draw, which reveals it.                         *)
DrawSteps ==
  \A s \in Side, x \in Attempt :
    \/ drawn'[s][x] = drawn[s][x]
    \/ VerifyCommit(s, x, drawn'[s][x]) /\ \A y \in Attempt : y # x => drawn'[s][y] = drawn[s][y]
    \/ /\ \E op \in Way(Other(s)) : op.kind = "verify" /\ op.x = x /\ drawn'[s][x] = op.arg
       /\ drawn'[s][x] \in revealed'[s]

LEMMA NextDraw ==
  ASSUME WireTypeOK(Operation), Rows, LocalType, [Next]_vars
  PROVE  DrawSteps
<1>1. ASSUME drawn' = drawn
      PROVE  DrawSteps
  BY <1>1 DEF DrawSteps
<1>2. ASSUME NEW s \in Side, NEW x \in Attempt, NEW n \in Note, VerifyCommit(s, x, n)
      PROVE  DrawSteps
  <2>1. drawn' = [drawn EXCEPT ![s][x] = n]
    BY <1>2 DEF VerifyCommit
  <2>2. /\ drawn'[s][x] = n
        /\ \A q \in Side, y \in Attempt : q # s \/ y # x => drawn'[q][y] = drawn[q][y]
    BY <2>1 DEF Rows, RowType
  <2>3. VerifyCommit(s, x, drawn'[s][x])
    BY <1>2, <2>2
  <2> QED
    BY <2>2, <2>3 DEF DrawSteps
<1>3. ASSUME NEW s \in Side, ApplyNext(s)
      PROVE  DrawSteps
  <2>1. PICK op \in Way(Other(s)) : op \in Operation /\ ApplyCrdtOp(s, op)
    BY <1>3, Arrival
  <2>2. CASE ApplyVerify(s, op)
    <3>1. op.kind = "verify" /\ op.x \in Attempt
          /\ drawn' = [drawn EXCEPT ![s][op.x] = IF state[s][op.x] = "submitted" THEN op.arg ELSE @]
      BY <2>1, <2>2, OperationFacts DEF ApplyVerify, NoteKind
    <3>2. /\ drawn'[s][op.x] \in {drawn[s][op.x], op.arg}
          /\ \A q \in Side, y \in Attempt : q # s \/ y # op.x => drawn'[q][y] = drawn[q][y]
      BY <3>1 DEF Rows, RowType
    <3>3. op.arg \in revealed'[s]
      BY <2>2 DEF ApplyVerify, Rows, RowType
    <3> QED
      BY <2>1, <3>1, <3>2, <3>3 DEF DrawSteps
  <2>3. CASE ~ApplyVerify(s, op)
    BY <1>1, <2>1, <2>3 DEF ApplyCrdtOp, ApplyStart, ApplyReroll, ApplySubmit, ApplyReject,
                            ApplyCancel, ApplyUncancel, ApplyReflect, ApplyLedger, ApplyDelete,
                            ApplyReveal
  <2> QED
    BY <2>2, <2>3
<1>4. ASSUME NEW s \in Side, NEW x \in Attempt,
             \/ \E p \in Prompt, c \in DOMAIN calls[s] : StartCommit(s, c, x, p)
             \/ \E p \in Redrawn : RerollUnlock(s, x, p) \/ RerollCutShort(s, x, p)
             \/ SubmitUnlock(s, x) \/ CancelUnlock(s, x) \/ UncancelUnlock(s, x)
             \/ RejectUnlock(s, x) \/ Disclose(s, x) \/ ReflectOnUnlock(s, x)
             \/ \E n \in Note : VerifyUnlock(s, x, n)
      PROVE  DrawSteps
  BY <1>1, <1>4 DEF StartCommit, CreateAttempt, RerollUnlock, RerollCutShort, SubmitUnlock,
                    CancelUnlock, UncancelUnlock, RejectUnlock, Disclose, ReflectOnUnlock,
                    VerifyUnlock, rows
<1>5. CASE Aside
  BY <1>1, <1>5 DEF Aside, Midnight, StartUnlock, Sync, StartSkip, VerifySkip, rows
<1>6. ASSUME NEW s \in Side, NEW x \in Attempt, NEW reason \in Reason, Award(s, x, reason)
      PROVE  DrawSteps
  BY <1>1, <1>6 DEF Award
<1>7. CASE UNCHANGED vars
  BY <1>1, <1>7 DEF vars, rows
<1>8. ASSUME NEW s \in Side, NEW n \in Note, TakesOut(s, n)
      PROVE  DrawSteps
  BY <1>1, <1>8 DEF TakesOut, DeleteNote, RevealSecretNote
<1> QED
  BY <1>2, <1>3, <1>4, <1>5, <1>6, <1>7, <1>8 DEF Next, Act, Aside, TakesOut

(* The transaction of verifyUnlock is of a call that picked. *)
LEMMA CommitFacts ==
  ASSUME LocalType, Calls, NEW s \in Side, NEW x, NEW n, VerifyCommit(s, x, n)
  PROVE  /\ x \in Attempt /\ n \in Note /\ <<x, n>> \in drawing[s]
         /\ AuthorOf(x) = s /\ Author[n] = s /\ state[s][x] = "submitted"
<1>1. <<x, n>> \in drawing[s] /\ state[s][x] = "submitted"
  BY DEF VerifyCommit
<1>2. x \in Attempt /\ n \in Note
  BY <1>1 DEF LocalType
<1> QED
  BY <1>1, <1>2 DEF Calls, CallInv

(* The Author draws once: the row is submitted before and revealed after. *)
LEMMA DrawnStays ==
  ASSUME Rows, Draws, DrawSteps, NEW s \in Side, NEW x \in Attempt,
         AuthorOf(x) = s, drawn[s][x] # "none"
  PROVE  drawn'[s][x] = drawn[s][x]
<1>1. state[s][x] = "revealed"
  BY DEF Rows, RowType, RowInv
<1>2. ~VerifyCommit(s, x, drawn'[s][x])
  BY <1>1 DEF VerifyCommit
<1>3. \A op \in Way(Other(s)) : op.kind = "verify" => op.x # x
  BY OtherSide DEF Draws, DrawInv
<1> QED
  BY <1>2, <1>3 DEF DrawSteps

LEMMA NextDraws ==
  WireTypeOK(Operation) /\ Rows /\ LocalType /\ Draws /\ Calls /\ [Next]_vars => Draws'
<1> SUFFICES ASSUME WireTypeOK(Operation), Rows, LocalType, Draws, Calls, [Next]_vars,
                    NEW s \in Side
             PROVE  DrawInv(s)'
  BY DEF Draws
<1>1. WaySteps /\ DrawSteps
  BY NextWay, NextDraw
<1>2. ASSUME NEW x \in Attempt, AuthorOf(x) = s, drawn[s][x] # "none"
      PROVE  drawn'[s][x] = drawn[s][x]
  BY <1>1, <1>2, DrawnStays
<1>3. ASSUME NEW op \in Way(s)', op.kind = "verify"
      PROVE  AuthorOf(op.x) = s /\ drawn'[s][op.x] = op.arg
  <2>1. CASE op \in Way(s)
    <3>1. AuthorOf(op.x) = s /\ drawn[s][op.x] = op.arg
      BY <1>3, <2>1 DEF Draws, DrawInv
    <3>2. op.x \in Attempt /\ op.arg \in Note
      BY <1>3, <2>1, WayType, OperationFacts DEF NoteKind
    <3> QED
      BY <1>2, <3>1, <3>2, NoneApart
  <2>2. CASE Issues(s, op)
    <3>1. VerifyCommit(s, op.x, op.arg)
      BY <1>3, <2>2 DEF Issues
    <3>2. op.x \in Attempt /\ op.arg \in Note /\ AuthorOf(op.x) = s
      BY <3>1, CommitFacts
    <3>3. drawn' = [drawn EXCEPT ![s][op.x] = op.arg]
      BY <3>1 DEF VerifyCommit
    <3> QED
      BY <3>2, <3>3 DEF Rows, RowType
  <2> QED
    BY <1>1, <2>1, <2>2 DEF WaySteps
<1>4. ASSUME NEW x \in Attempt, drawn'[s][x] # "none"
      PROVE  Author[drawn'[s][x]] = AuthorOf(x)
  <2>1. CASE drawn'[s][x] = drawn[s][x]
    BY <1>4, <2>1 DEF Draws, DrawInv
  <2>2. CASE VerifyCommit(s, x, drawn'[s][x])
    <3>1. PICK n : n = drawn'[s][x]
      OBVIOUS
    <3>2. AuthorOf(x) = s /\ Author[n] = s
      BY <2>2, <3>1, CommitFacts
    <3> QED
      BY <3>1, <3>2
  <2>3. ASSUME NEW op \in Way(Other(s)), op.kind = "verify", op.x = x, drawn'[s][x] = op.arg
        PROVE  Author[drawn'[s][x]] = AuthorOf(x)
    <3>1. drawn[Other(s)][x] = op.arg
      BY <2>3, OtherSide DEF Draws, DrawInv
    <3> QED
      BY <1>4, <2>3, <3>1, OtherSide DEF Draws, DrawInv
  <2> QED
    BY <1>1, <2>1, <2>2, <2>3 DEF DrawSteps
<1>5. ASSUME NEW x \in Attempt, Unlocker[x] = s
      PROVE  drawn'[s][x] \in {"none", drawn'[Other(s)][x]}
  <2>0. AuthorOf(x) = Other(s) /\ Other(s) \in Side /\ Other(s) # s
    BY <1>5, OtherSide DEF AuthorOf
  <2>1. CASE drawn'[s][x] = drawn[s][x]
    <3>1. drawn[s][x] \in {"none", drawn[Other(s)][x]}
      BY <1>5 DEF Draws, DrawInv
    <3>2. drawn[s][x] # "none" => drawn'[Other(s)][x] = drawn[Other(s)][x]
      BY <1>1, <2>0, <3>1, DrawnStays
    <3> QED
      BY <2>1, <3>1, <3>2
  <2>2. CASE VerifyCommit(s, x, drawn'[s][x])
    BY <2>0, <2>2, CommitFacts
  <2>3. ASSUME NEW op \in Way(Other(s)), op.kind = "verify", op.x = x, drawn'[s][x] = op.arg
        PROVE  drawn'[s][x] \in {"none", drawn'[Other(s)][x]}
    <3>1. drawn[Other(s)][x] = op.arg
      BY <2>0, <2>3 DEF Draws, DrawInv
    <3>2. op.arg \in Note
      BY <2>0, <2>3, WayType, OperationFacts
    <3>3. drawn'[Other(s)][x] = op.arg
      BY <1>1, <2>0, <3>1, <3>2, DrawnStays, NoneApart
    <3> QED
      BY <2>3, <3>3
  <2> QED
    BY <1>1, <2>1, <2>2, <2>3 DEF DrawSteps
<1> QED
  BY <1>3, <1>4, <1>5 DEF DrawInv, AuthorOf


-----------------------------------------------------------------------------
(* Reflections and points.                                                 *)

(* Who adds a reflection, and who an entry of the ledger; neither is ever  *)
(* taken away.                                                             *)
AddSteps ==
  \A s \in Side :
    /\ reflected[s] \subseteq reflected'[s]
    /\ \A r \in reflected'[s] \ reflected[s] :
         \/ r[2] = s /\ \E op \in Way(s)' : op.kind = "reflect" /\ op.x = r[1]
         \/ r[2] = Other(s)
    /\ ledger[s] \subseteq ledger'[s]
    /\ \A e \in ledger'[s] \ ledger[s] :
         \/ \E x \in Attempt, reason \in Reason :
              /\ Award(s, x, reason)
              /\ \E op \in Way(s)' : op.kind = "ledger" /\ EntryOf(s, op) = e
              /\ e = [x |-> x, reason |-> reason, by |-> s, num |-> issued[s] + 1]
              /\ ledger'[s] = ledger[s] \cup {e}
         \/ \E op \in Way(Other(s)) :
              /\ op.kind = "ledger" /\ EntryOf(Other(s), op) = e
              /\ ledger'[s] = ledger[s] \cup {e}

LEMMA NextAdd ==
  ASSUME WireTypeOK(Operation), Rows, LocalType, [Next]_vars
  PROVE  AddSteps
<1>1. ASSUME reflected' = reflected, ledger' = ledger
      PROVE  AddSteps
  BY <1>1 DEF AddSteps
<1>2. ASSUME NEW s \in Side, NEW x \in Attempt, ReflectOnUnlock(s, x)
      PROVE  AddSteps
  <2>1. /\ reflected' = [reflected EXCEPT ![s] = @ \cup {<<x, s>>}]
        /\ ledger' = ledger /\ Issue(s, "reflect", x, "none")
    BY <1>2 DEF ReflectOnUnlock
  <2>2. /\ reflected'[s] = reflected[s] \cup {<<x, s>>}
        /\ \A q \in Side : q # s => reflected'[q] = reflected[q]
    BY <2>1 DEF Rows, RowType
  <2>3. \E op \in Way(s)' : op.kind = "reflect" /\ op.x = x
    <3> DEFINE op == [kind |-> "reflect", num |-> issued[s] + 1, x |-> x, arg |-> "none"]
    <3>1. op \in Way(s)'
      BY <2>1, IssueWay DEF Payload
    <3> QED
      BY <3>1
  <2> QED
    BY <2>1, <2>2, <2>3 DEF AddSteps
<1>3. ASSUME NEW s \in Side, NEW x \in Attempt, NEW reason \in Reason, Award(s, x, reason)
      PROVE  AddSteps
  <2> DEFINE e == [x |-> x, reason |-> reason, by |-> s, num |-> issued[s] + 1]
             op == [kind |-> "ledger", num |-> issued[s] + 1, x |-> x, arg |-> reason]
  <2>1. /\ ledger' = [ledger EXCEPT ![s] = @ \cup {e}]
        /\ reflected' = reflected /\ Issue(s, "ledger", x, reason)
    BY <1>3 DEF Award
  <2>2. op \in Way(s)'
    BY <2>1, IssueWay DEF Payload
  <2>3. op.kind = "ledger" /\ EntryOf(s, op) = e
    BY DEF EntryOf
  <2> HIDE DEF e, op
  <2>4. ledger'[s] = ledger[s] \cup {e} /\ \A q \in Side : q # s => ledger'[q] = ledger[q]
    BY <2>1 DEF Rows, RowType
  <2>5. \E z \in Attempt, why \in Reason :
          /\ Award(s, z, why)
          /\ \E o \in Way(s)' : o.kind = "ledger" /\ EntryOf(s, o) = e
          /\ e = [x |-> z, reason |-> why, by |-> s, num |-> issued[s] + 1]
          /\ ledger'[s] = ledger[s] \cup {e}
    BY <1>3, <2>2, <2>3, <2>4 DEF e
  <2> QED
    BY <2>1, <2>4, <2>5 DEF AddSteps
<1>4. ASSUME NEW s \in Side, ApplyNext(s)
      PROVE  AddSteps
  <2>1. PICK op \in Way(Other(s)) : op \in Operation /\ ApplyCrdtOp(s, op)
    BY <1>4, Arrival
  <2>2. CASE ApplyReflect(s, op)
    <3>1. /\ reflected'[s] = reflected[s] \cup {<<op.x, Other(s)>>} /\ ledger' = ledger
          /\ \A q \in Side : q # s => reflected'[q] = reflected[q]
      BY <2>2 DEF ApplyReflect, Rows, RowType
    <3> QED
      BY <3>1 DEF AddSteps
  <2>3. CASE ApplyLedger(s, op)
    <3>1. /\ ledger'[s] = ledger[s] \cup {EntryOf(Other(s), op)} /\ reflected' = reflected
          /\ \A q \in Side : q # s => ledger'[q] = ledger[q]
      BY <2>3 DEF ApplyLedger, EntryOf, Rows, RowType
    <3> QED
      BY <2>1, <2>3, <3>1 DEF AddSteps, ApplyLedger
  <2>4. CASE ~ApplyReflect(s, op) /\ ~ApplyLedger(s, op)
    BY <1>1, <2>1, <2>4 DEF ApplyCrdtOp, ApplyStart, ApplyReroll, ApplySubmit, ApplyReject,
                            ApplyCancel, ApplyUncancel, ApplyVerify, ApplyDelete, ApplyReveal
  <2> QED
    BY <2>2, <2>3, <2>4
<1>5. ASSUME NEW s \in Side, NEW x \in Attempt,
             \/ \E p \in Prompt, c \in DOMAIN calls[s] : StartCommit(s, c, x, p)
             \/ \E p \in Redrawn : RerollUnlock(s, x, p) \/ RerollCutShort(s, x, p)
             \/ SubmitUnlock(s, x) \/ CancelUnlock(s, x) \/ UncancelUnlock(s, x)
             \/ RejectUnlock(s, x) \/ Disclose(s, x)
             \/ \E n \in Note : VerifyUnlock(s, x, n) \/ VerifyCommit(s, x, n)
      PROVE  AddSteps
  BY <1>1, <1>5 DEF StartCommit, CreateAttempt, RerollUnlock, RerollCutShort, SubmitUnlock,
                    CancelUnlock, UncancelUnlock, RejectUnlock, Disclose, VerifyUnlock,
                    VerifyCommit,
                    rows
<1>6. CASE Aside
  BY <1>1, <1>6 DEF Aside, Midnight, StartUnlock, Sync, StartSkip, VerifySkip, rows
<1>7. CASE UNCHANGED vars
  BY <1>1, <1>7 DEF vars, rows
<1>8. ASSUME NEW s \in Side, NEW n \in Note, TakesOut(s, n)
      PROVE  AddSteps
  BY <1>1, <1>8 DEF TakesOut, DeleteNote, RevealSecretNote
<1> QED
  BY <1>2, <1>3, <1>4, <1>5, <1>6, <1>7, <1>8 DEF Next, Act, Aside, TakesOut

LEMMA NextReflections ==
  WireTypeOK(Operation) /\ Rows /\ LocalType /\ Reflections /\ [Next]_vars => Reflections'
<1> SUFFICES ASSUME WireTypeOK(Operation), Rows, LocalType, Reflections, [Next]_vars,
                    NEW s \in Side, NEW x \in Attempt, <<x, s>> \in reflected'[s]
             PROVE  \/ <<x, s>> \in reflected'[Other(s)]
                    \/ \E op \in Way(s)' : op.kind = "reflect" /\ op.x = x
  BY DEF Reflections, ReflectInv
<1>1. WaySteps /\ AddSteps
  BY NextWay, NextAdd
<1>2. CASE <<x, s>> \notin reflected[s]
  BY <1>1, <1>2, OtherSide DEF AddSteps
<1>3. CASE <<x, s>> \in reflected[Other(s)]
  BY <1>1, <1>3, OtherSide DEF AddSteps
<1>4. ASSUME NEW op \in Way(s), op.kind = "reflect", op.x = x
      PROVE  <<x, s>> \in reflected'[Other(s)] \/ op \in Way(s)'
  <2>1. CASE ApplyCrdtOp(Other(s), op)
    <3>1. reflected' = [reflected EXCEPT ![Other(s)] = @ \cup {<<op.x, Other(Other(s))>>}]
      BY <1>4, <2>1 DEF ApplyCrdtOp, ApplyStart, ApplyReroll, ApplySubmit, ApplyReject,
                        ApplyVerify, ApplyCancel, ApplyUncancel, ApplyReflect, ApplyLedger,
                        ApplyDelete, ApplyReveal
    <3> QED
      BY <1>4, <3>1, OtherSide DEF Rows, RowType
  <2> QED
    BY <1>1, <2>1 DEF WaySteps
<1> QED
  BY <1>2, <1>3, <1>4 DEF Reflections, ReflectInv

LEMMA NextAwards ==
  WireTypeOK(Operation) /\ Rows /\ LocalType /\ Awards /\ [Next]_vars => Awards'
<1> SUFFICES ASSUME WireTypeOK(Operation), Rows, LocalType, Awards, [Next]_vars, NEW s \in Side
             PROVE  LedgerInv(s)'
  BY DEF Awards
<1> DEFINE p == Other(s)
<1>1. WaySteps /\ AddSteps
  BY NextWay, NextAdd
<1>2. LedgerInv(s) /\ LedgerInv(p) /\ p \in Side /\ Other(p) = s /\ p # s
  BY OtherSide DEF Awards
<1>3. ledger[s] \subseteq ledger'[s] /\ ledger[p] \subseteq ledger'[p]
  BY <1>1, <1>2 DEF AddSteps
(* A new entry is an award of s, ... *)
<1>4. ASSUME NEW e \in ledger'[s] \ ledger[s]
      PROVE  \/ /\ e.by = s /\ AuthorOf(e.x) = s /\ ledger'[s] = ledger[s] \cup {e}
                /\ \E op \in Way(s)' : op.kind = "ledger" /\ EntryOf(s, op) = e
                /\ \A f \in ledger[s] : ~(e.x = f.x /\ e.reason = f.reason)
             \/ e \in ledger[p] /\ e.by = p /\ ledger'[s] = ledger[s] \cup {e}
  <2>1. CASE \E x \in Attempt, reason \in Reason :
               /\ Award(s, x, reason)
               /\ \E op \in Way(s)' : op.kind = "ledger" /\ EntryOf(s, op) = e
               /\ e = [x |-> x, reason |-> reason, by |-> s, num |-> issued[s] + 1]
               /\ ledger'[s] = ledger[s] \cup {e}
    BY <2>1 DEF Award, Earned, Paid
(* ... or one of the partner, who has it. *)
  <2>2. CASE \E op \in Way(p) : /\ op.kind = "ledger" /\ EntryOf(p, op) = e
                                /\ ledger'[s] = ledger[s] \cup {e}
    BY <1>2, <2>2 DEF LedgerInv, EntryOf
  <2> QED
    BY <1>1, <2>1, <2>2 DEF AddSteps
<1>5. \A e \in ledger'[s] : e.by = AuthorOf(e.x)
  BY <1>2, <1>4 DEF LedgerInv
<1>6. ASSUME NEW e \in ledger'[s], NEW f \in ledger'[s], e.x = f.x, e.reason = f.reason
      PROVE  e = f
  <2>1. ASSUME NEW g \in ledger'[s] \ ledger[s], NEW h \in ledger[s],
               g.x = h.x, g.reason = h.reason
        PROVE  g = h
    <3>1. g \in ledger[p] /\ g.by = p
      BY <1>4, <2>1
    <3>2. h.by = p /\ h \in ledger[p]
      BY <1>2, <2>1, <3>1 DEF LedgerInv
    <3> QED
      BY <1>2, <2>1, <3>1, <3>2 DEF LedgerInv
  <2>2. CASE e \in ledger[s] /\ f \in ledger[s]
    BY <1>2, <1>6, <2>2 DEF LedgerInv
  <2>3. CASE e \notin ledger[s] /\ f \notin ledger[s]
    BY <1>4, <2>3
  <2> QED
    BY <1>6, <2>1, <2>2, <2>3
<1>7. ASSUME NEW e \in ledger'[s], e.by = p
      PROVE  e \in ledger'[p]
  BY <1>2, <1>3, <1>4, <1>7 DEF LedgerInv
<1>8. ASSUME NEW e \in ledger'[s], e.by = s
      PROVE  e \in ledger'[p] \/ \E op \in Way(s)' : op.kind = "ledger" /\ EntryOf(s, op) = e
  <2>1. CASE e \notin ledger[s]
    BY <1>2, <1>4, <1>8, <2>1
  <2>2. CASE e \in ledger[p]
    BY <1>3, <2>2
  <2>3. ASSUME NEW op \in Way(s), op.kind = "ledger", EntryOf(s, op) = e
        PROVE  e \in ledger'[p] \/ op \in Way(s)'
    <3>1. CASE ApplyCrdtOp(p, op)
      <4>1. ledger' = [ledger EXCEPT ![p] = @ \cup {EntryOf(Other(p), op)}]
        BY <2>3, <3>1 DEF ApplyCrdtOp, ApplyStart, ApplyReroll, ApplySubmit, ApplyReject,
                          ApplyVerify, ApplyCancel, ApplyUncancel, ApplyReflect, ApplyLedger,
                          ApplyDelete, ApplyReveal,
                          EntryOf
      <4> QED
        BY <1>2, <2>3, <4>1 DEF Rows, RowType
    <3> QED
      BY <1>1, <3>1 DEF WaySteps
  <2> QED
    BY <1>2, <1>8, <2>1, <2>2, <2>3 DEF LedgerInv
<1>9. ASSUME NEW op \in Way(s)', op.kind = "ledger"
      PROVE  EntryOf(s, op) \in ledger'[s]
  <2>1. CASE op \in Way(s)
    BY <1>2, <1>3, <1>9, <2>1 DEF LedgerInv
  <2>2. CASE Issues(s, op)
    BY <1>9, <2>2 DEF Issues, Award, EntryOf, Rows, RowType
  <2> QED
    BY <1>1, <2>1, <2>2 DEF WaySteps
<1> QED
  BY <1>5, <1>6, <1>7, <1>8, <1>9 DEF LedgerInv

LEMMA AddOnly ==
  WireTypeOK(Operation) /\ Rows /\ Reflections /\ Awards => AddOnlySettles
<1> SUFFICES ASSUME WireTypeOK(Operation), Rows, Reflections, Awards, NEW s \in Side
             PROVE  LET p == Other(s) IN
                    /\ Drained(s) =>
                         /\ \A x \in Attempt :
                              <<x, s>> \in reflected[s] => <<x, s>> \in reflected[p]
                         /\ \A e \in ledger[s] : e.by = s => e \in ledger[p]
                    /\ \A e, f \in ledger[s] : e.x = f.x /\ e.reason = f.reason => e = f
  BY DEF AddOnlySettles
<1>1. Drained(s) => Way(s) = {}
  BY DrainedWay
<1> QED
  BY <1>1 DEF Reflections, ReflectInv, Awards, LedgerInv

-----------------------------------------------------------------------------
(* The two rows of an attempt.                                             *)

(* An operation on its way would be applied after a newer one. *)
Behind(s) == \E op \in Way(s) : op.num <= newest[Other(s)]

InOrder == ~reordered /\ \A s \in Side : ~Behind(s)

TaskKind    == {"start", "reroll", "submit"}
VerdictKind == {"reject", "verify"}

(* What either partner has said of x and the other has not heard.          *)
Tasks(x)    == {op \in Way(Unlocker[x]) : op.x = x /\ op.kind \in TaskKind}
Verdicts(x) == {op \in Way(AuthorOf(x)) : op.x = x /\ op.kind \in VerdictKind}

Told(T, kind) == \E op \in T : op.kind = kind

(* The Unlocker's row is u and the Author's v, T and V are on their way:   *)
(* either the Unlocker is ahead, from a task both know or the Author has   *)
(* yet to learn of, or the Author is, by at most one verdict.              *)
UnlockersTurn(u, v, T, V) ==
  /\ V = {}
  /\ \/ v = "absent" /\ u = "absent" /\ T = {}
     \/ v = "absent" /\ u \in {"assigned", "submitted"} /\ Told(T, "start")
     \/ v \in {"assigned", "returned"} /\ u \in {v, "submitted"} /\ ~Told(T, "start")
  /\ u = "submitted" <=> Told(T, "submit")

AuthorsTurn(u, v, T, V) ==
  /\ T = {}
  /\ \/ v = u /\ v \in {"submitted", "revealed"} /\ V = {}
     \/ v = "returned" /\ u = "submitted" /\ Told(V, "reject")
     \/ v = "revealed" /\ u = "submitted" /\ Told(V, "verify")
  /\ \A o, p \in V : o = p

Turn(u, v, T, V) == UnlockersTurn(u, v, T, V) \/ AuthorsTurn(u, v, T, V)

(* A task is started first and submitted last. *)
InTask(T) ==
  \A o, p \in T : o # p /\ (o.kind = "start" \/ p.kind = "submit") => o.num < p.num

(* The Author's row gets the Unlocker's prompt pu with the newest operation *)
(* that names one, and has it already when none is on its way.             *)
Prompts(T) == {op \in T : op.kind \in {"start", "reroll"}}

PromptTurn(pu, pv, T) ==
  \/ Prompts(T) = {} /\ pu = pv
  \/ \E o \in Prompts(T) : o.arg = pu /\ \A p \in Prompts(T) : p.num <= o.num

Agreed(x) ==
  LET u == Unlocker[x]
      v == AuthorOf(x)
  IN  /\ Turn(state[u][x], state[v][x], Tasks(x), Verdicts(x))
      /\ InTask(Tasks(x))
      /\ x \notin cut => PromptTurn(prompt[u][x], prompt[v][x], Tasks(x))

InTurn == InOrder => \A x \in Attempt \ canceledOnce : Agreed(x)

(* An operation is numbered by its sender, who is the one its kind is for; *)
(* what was canceled is known.                                             *)
SentInv(s) ==
  /\ \A op \in Way(s) :
       /\ op.num <= issued[s]
       /\ op.kind \in TaskKind => Unlocker[op.x] = s
       /\ op.kind \in VerdictKind => AuthorOf(op.x) = s
       /\ op.kind \in {"cancel", "uncancel"} => op.x \in canceledOnce
  /\ \A x \in Attempt : state[s][x] = "canceled" => x \in canceledOnce

Sent == \A s \in Side : SentInv(s)

(* What is said. *)
LEMMA StartTurn ==
  ASSUME NEW v, NEW T, NEW V, NEW o, NEW pv, o.kind = "start", o.num \in Nat,
         Turn("absent", v, T, V)
  PROVE  /\ Turn("assigned", v, T \cup {o}, V) /\ InTask(T \cup {o})
         /\ PromptTurn(o.arg, pv, T \cup {o})
<1>1. v = "absent" /\ T = {} /\ V = {}
  BY DEF Turn, UnlockersTurn, AuthorsTurn
<1>2. Turn("assigned", v, T \cup {o}, V)
  BY <1>1 DEF Turn, UnlockersTurn, Told
<1>3. Prompts(T \cup {o}) = {o}
  BY <1>1 DEF Prompts
<1>4. o.num <= o.num
  OBVIOUS
<1> QED
  BY <1>1, <1>2, <1>3, <1>4 DEF InTask, PromptTurn

LEMMA RerollTurn ==
  ASSUME NEW u \in {"assigned", "returned"}, NEW v, NEW T, NEW V, NEW o, NEW pv,
         o.kind = "reroll", o.num \in Nat, \A p \in T : p.num \in Nat /\ p.num < o.num,
         Turn(u, v, T, V), InTask(T)
  PROVE  /\ Turn(u, v, T \cup {o}, V) /\ InTask(T \cup {o})
         /\ PromptTurn(o.arg, pv, T \cup {o})
<1>1. UnlockersTurn(u, v, T, V) /\ ~Told(T, "submit")
  BY DEF Turn, UnlockersTurn, AuthorsTurn
<1>2. \A kind \in {"start", "submit"} : Told(T \cup {o}, kind) <=> Told(T, kind)
  BY DEF Told
<1>3. Turn(u, v, T \cup {o}, V)
  BY <1>1, <1>2 DEF Turn, UnlockersTurn
<1>4. InTask(T \cup {o})
  BY <1>1 DEF InTask, Told
<1>5. o \in Prompts(T \cup {o}) /\ \A p \in Prompts(T \cup {o}) : p.num <= o.num
  BY DEF Prompts
<1> QED
  BY <1>3, <1>4, <1>5 DEF PromptTurn

LEMMA SubmitTurn ==
  ASSUME NEW u \in {"assigned", "returned"}, NEW v, NEW T, NEW V, NEW o, NEW pu, NEW pv,
         o.kind = "submit", o.num \in Nat, \A p \in T : p.num \in Nat /\ p.num < o.num,
         Turn(u, v, T, V), InTask(T)
  PROVE  /\ Turn("submitted", v, T \cup {o}, V) /\ InTask(T \cup {o})
         /\ PromptTurn(pu, pv, T) => PromptTurn(pu, pv, T \cup {o})
<1>1. UnlockersTurn(u, v, T, V) /\ ~Told(T, "submit")
  BY DEF Turn, UnlockersTurn, AuthorsTurn
<1>2. Told(T \cup {o}, "submit") /\ (Told(T \cup {o}, "start") <=> Told(T, "start"))
  BY DEF Told
<1>3. Turn("submitted", v, T \cup {o}, V)
  BY <1>1, <1>2 DEF Turn, UnlockersTurn
<1>4. InTask(T \cup {o})
  BY <1>1 DEF InTask, Told
<1>5. Prompts(T \cup {o}) = Prompts(T)
  BY DEF Prompts
<1> QED
  BY <1>3, <1>4, <1>5 DEF PromptTurn

LEMMA VerdictTurn ==
  ASSUME NEW u, NEW T, NEW V, NEW o, o.kind \in VerdictKind, Turn(u, "submitted", T, V)
  PROVE  Turn(u, IF o.kind = "reject" THEN "returned" ELSE "revealed", T, V \cup {o})
<1>1. T = {} /\ u = "submitted" /\ V = {}
  BY DEF Turn, UnlockersTurn, AuthorsTurn
<1>2. Told(V \cup {o}, o.kind) /\ \A p, q \in V \cup {o} : p = q
  BY <1>1 DEF Told
<1> QED
  BY <1>1, <1>2 DEF Turn, AuthorsTurn, VerdictKind

(* What is heard, if nothing older is left on its way.                     *)
LEMMA HeardPrompt ==
  ASSUME NEW T, NEW pu, NEW pv, NEW o \in T, o.kind \in {"start", "reroll"},
         \A p \in T : p.num \in Nat, \A p \in T \ {o} : o.num < p.num, PromptTurn(pu, pv, T)
  PROVE  PromptTurn(pu, o.arg, T \ {o})
<1>1. o \in Prompts(T) /\ Prompts(T \ {o}) = Prompts(T) \ {o} /\ Prompts(T) \subseteq T
  BY DEF Prompts
<1>2. PICK q \in Prompts(T) : q.arg = pu /\ \A p \in Prompts(T) : p.num <= q.num
  BY <1>1 DEF PromptTurn
<1>3. CASE q = o
  <2>1. \A p \in T \ {o} : ~(p.num <= o.num)
    OBVIOUS
  <2>2. Prompts(T \ {o}) = {}
    BY <1>1, <1>2, <1>3, <2>1
  <2> QED
    BY <1>2, <1>3, <2>2 DEF PromptTurn
<1>4. CASE q # o
  BY <1>1, <1>2, <1>4 DEF PromptTurn
<1> QED
  BY <1>3, <1>4

LEMMA HeardStart ==
  ASSUME NEW u, NEW v, NEW T, NEW V, NEW o \in T, o.kind = "start",
         \A p \in T : p.num \in Nat, \A p \in T \ {o} : o.num < p.num,
         Turn(u, v, T, V), InTask(T)
  PROVE  /\ v = "absent" /\ Turn(u, "assigned", T \ {o}, V) /\ InTask(T \ {o})
<1>1. Told(T, "start")
  BY DEF Told
<1>2. UnlockersTurn(u, v, T, V) /\ v = "absent" /\ u \in {"assigned", "submitted"}
  BY <1>1 DEF Turn, UnlockersTurn, AuthorsTurn
<1>3. ~Told(T \ {o}, "start") /\ (Told(T \ {o}, "submit") <=> Told(T, "submit"))
  BY DEF Told, InTask
<1>4. Turn(u, "assigned", T \ {o}, V)
  BY <1>2, <1>3 DEF Turn, UnlockersTurn
<1>5. InTask(T \ {o})
  BY DEF InTask
<1> QED
  BY <1>2, <1>4, <1>5

LEMMA HeardReroll ==
  ASSUME NEW u, NEW v, NEW T, NEW V, NEW o \in T, o.kind = "reroll",
         \A p \in T : p.num \in Nat, \A p \in T \ {o} : o.num < p.num,
         Turn(u, v, T, V), InTask(T)
  PROVE  /\ v \in {"assigned", "returned"} /\ Turn(u, v, T \ {o}, V) /\ InTask(T \ {o})
<1>1. ~Told(T, "start")
  BY DEF Told, InTask
<1>2. UnlockersTurn(u, v, T, V) /\ v \in {"assigned", "returned"}
  BY <1>1 DEF Turn, UnlockersTurn, AuthorsTurn
<1>3. \A kind \in {"start", "submit"} : Told(T \ {o}, kind) <=> Told(T, kind)
  BY DEF Told
<1>4. Turn(u, v, T \ {o}, V)
  BY <1>2, <1>3 DEF Turn, UnlockersTurn
<1>5. InTask(T \ {o})
  BY DEF InTask
<1> QED
  BY <1>2, <1>4, <1>5

LEMMA HeardSubmit ==
  ASSUME NEW u, NEW v, NEW T, NEW V, NEW pu, NEW pv, NEW o \in T, o.kind = "submit",
         \A p \in T : p.num \in Nat, \A p \in T \ {o} : o.num < p.num,
         Turn(u, v, T, V), InTask(T)
  PROVE  /\ v \in {"assigned", "returned"} /\ Turn(u, "submitted", T \ {o}, V)
         /\ InTask(T \ {o})
         /\ PromptTurn(pu, pv, T) => PromptTurn(pu, pv, T \ {o})
<1>1. T = {o}
  BY DEF InTask
<1>2. Told(T, "submit") /\ ~Told(T, "start")
  BY <1>1 DEF Told
<1>3. u = "submitted" /\ v \in {"assigned", "returned"} /\ V = {}
  BY <1>1, <1>2 DEF Turn, UnlockersTurn, AuthorsTurn
<1>4. Turn(u, "submitted", T \ {o}, V)
  BY <1>1, <1>3 DEF Turn, AuthorsTurn
<1>5. Prompts(T) = {} /\ Prompts(T \ {o}) = {}
  BY <1>1 DEF Prompts
<1> QED
  BY <1>1, <1>3, <1>4, <1>5 DEF InTask, PromptTurn

LEMMA HeardVerdict ==
  ASSUME NEW u, NEW v, NEW T, NEW V, NEW o \in V, o.kind \in VerdictKind, Turn(u, v, T, V)
  PROVE  /\ u = "submitted"
         /\ Turn(IF o.kind = "reject" THEN "returned" ELSE "revealed", v, T, V \ {o})
<1>1. AuthorsTurn(u, v, T, V) /\ V = {o}
  BY DEF Turn, UnlockersTurn, AuthorsTurn
<1>2. /\ u = "submitted" /\ T = {}
      /\ v = IF o.kind = "reject" THEN "returned" ELSE "revealed"
  BY <1>1 DEF AuthorsTurn, Told, VerdictKind
<1>3. ~Told(T, "start") /\ ~Told(T, "submit") /\ V \ {o} = {}
  BY <1>1, <1>2 DEF Told
<1> QED
  BY <1>2, <1>3 DEF Turn, UnlockersTurn, AuthorsTurn, VerdictKind

LEMMA TalkType ==
  ASSUME WireTypeOK(Operation), NEW x \in Attempt
  PROVE  \A op \in Tasks(x) \cup Verdicts(x) : op \in Operation /\ op.num \in Nat /\ op.x = x
  BY Partners, WayType, OperationFacts DEF Tasks, Verdicts

LEMMA AgreedFrame ==
  ASSUME NEW x \in Attempt, Agreed(x), \A q \in Side : state'[q][x] = state[q][x],
         x \notin cut' => x \notin cut /\ \A q \in Side : prompt'[q][x] = prompt[q][x],
         Tasks(x)' = Tasks(x), Verdicts(x)' = Verdicts(x)
  PROVE  Agreed(x)'
  BY Partners DEF Agreed

(* A step of s that is about x leaves the other attempts as they are.      *)
LEMMA TurnFrame ==
  ASSUME InTurn, NEW s \in Side, NEW x \in Attempt, InOrder' => InOrder,
         canceledOnce \subseteq canceledOnce', cut \subseteq cut',
         \A q \in Side, y \in Attempt : q # s \/ y # x =>
           state'[q][y] = state[q][y] /\ prompt'[q][y] = prompt[q][y],
         InOrder' => \A y \in Attempt \ {x} : Tasks(y)' = Tasks(y) /\ Verdicts(y)' = Verdicts(y),
         InOrder' /\ InOrder /\ x \notin canceledOnce' /\ Agreed(x) => Agreed(x)'
  PROVE  InTurn'
<1> SUFFICES ASSUME InOrder', NEW y \in Attempt, y \notin canceledOnce' PROVE Agreed(y)'
  BY DEF InTurn
<1>1. InOrder /\ Agreed(y)
  BY DEF InTurn
<1>2. CASE y = x
  BY <1>1, <1>2
<1>3. CASE y # x
  BY <1>1, <1>3, AgreedFrame
<1> QED
  BY <1>2, <1>3

(* An operation that s issues is the newest and says nothing of others.    *)
LEMMA IssueView ==
  ASSUME WireTypeOK(Operation), LocalType, HistoryType, Sent, NEW s \in Side, NEW x \in Attempt,
         NEW op, op.x = x, op.num = issued[s] + 1,
         Way(s)' = Way(s) \cup {op}, Way(Other(s))' = Way(Other(s)), UNCHANGED <<newest, reordered>>
  PROVE  /\ op.num \in Nat
         /\ InOrder' => InOrder
         /\ \A p \in Tasks(x) : s = Unlocker[x] => p.num \in Nat /\ p.num < op.num
         /\ \A y \in Attempt \ {x} : Tasks(y)' = Tasks(y) /\ Verdicts(y)' = Verdicts(y)
         /\ Tasks(x)' = IF Unlocker[x] = s /\ op.kind \in TaskKind
                        THEN Tasks(x) \cup {op} ELSE Tasks(x)
         /\ Verdicts(x)' = IF AuthorOf(x) = s /\ op.kind \in VerdictKind
                           THEN Verdicts(x) \cup {op} ELSE Verdicts(x)
<1>1. issued[s] \in Nat /\ \A q \in Side : q = s \/ q = Other(s)
  BY OtherSide DEF LocalType
<1>2. InOrder' => InOrder
  <2> SUFFICES ASSUME InOrder', NEW q \in Side PROVE ~reordered /\ ~Behind(q)
    BY DEF InOrder
  <2>1. Way(q) \subseteq Way(q)'
    BY <1>1
  <2> QED
    BY <2>1 DEF InOrder, Behind
<1>3. ASSUME NEW p \in Tasks(x), s = Unlocker[x] PROVE p.num \in Nat /\ p.num < op.num
  <2>1. p \in Way(s) /\ p.num \in Nat
    BY <1>3, TalkType DEF Tasks
  <2>2. p.num <= issued[s]
    BY <2>1 DEF Sent, SentInv
  <2> QED
    BY <1>1, <2>1, <2>2
<1>4. \A y \in Attempt : Unlocker[y] \in {s, Other(s)} /\ AuthorOf(y) \in {s, Other(s)}
  BY <1>1, Partners
<1>5. \A y \in Attempt \ {x} : Tasks(y)' = Tasks(y) /\ Verdicts(y)' = Verdicts(y)
  BY <1>4 DEF Tasks, Verdicts, AuthorOf
<1>6. Tasks(x)' = IF Unlocker[x] = s /\ op.kind \in TaskKind THEN Tasks(x) \cup {op} ELSE Tasks(x)
  BY <1>4, OtherSide DEF Tasks
<1>7. Verdicts(x)' = IF AuthorOf(x) = s /\ op.kind \in VerdictKind
                     THEN Verdicts(x) \cup {op} ELSE Verdicts(x)
  BY <1>4, OtherSide DEF Verdicts, AuthorOf
<1> QED
  BY <1>1, <1>2, <1>3, <1>5, <1>6, <1>7

LEMMA IssueSent ==
  ASSUME Sent, LocalType, WireTypeOK(Operation), NEW s \in Side, NEW op, op.num = issued[s] + 1,
         issued' = [issued EXCEPT ![s] = @ + 1],
         Way(s)' = Way(s) \cup {op}, Way(Other(s))' = Way(Other(s)),
         canceledOnce \subseteq canceledOnce',
         op.kind \in TaskKind => Unlocker[op.x] = s,
         op.kind \in VerdictKind => AuthorOf(op.x) = s,
         op.kind \in {"cancel", "uncancel"} => op.x \in canceledOnce',
         \A q \in Side, y \in Attempt :
           state'[q][y] = "canceled" => state[q][y] = "canceled" \/ y \in canceledOnce'
  PROVE  Sent'
<1>1. \A q \in Side : q = s \/ q = Other(s)
  BY OtherSide
<1>2. /\ \A q \in Side : issued[q] \in Nat /\ issued'[q] \in Nat /\ issued[q] <= issued'[q]
      /\ op.num <= issued'[s]
  BY DEF LocalType
<1>3. \A q \in Side : \A p \in Way(q) : p.num \in Nat /\ p.num <= issued'[q]
  BY <1>2, WayType, OperationFacts DEF Sent, SentInv
<1>4. \A q \in Side : \A p \in Way(q)' : p \in Way(q) \/ (q = s /\ p = op)
  BY <1>1
<1> QED
  BY <1>2, <1>3, <1>4 DEF Sent, SentInv, AuthorOf

LEMMA QuietSent ==
  ASSUME Sent, UNCHANGED <<state, issued>>, \A q \in Side : Way(q)' = Way(q),
         canceledOnce \subseteq canceledOnce'
  PROVE  Sent'
  BY DEF Sent, SentInv, AuthorOf

LEMMA QuietTurn ==
  ASSUME InTurn, UNCHANGED <<state, history>>, \A q \in Side : Way(q)' = Way(q),
         UNCHANGED prompt
  PROVE  InTurn'
<1>1. \A y \in Attempt : Tasks(y)' = Tasks(y) /\ Verdicts(y)' = Verdicts(y)
  BY Partners DEF Tasks, Verdicts, AuthorOf
<1>2. UNCHANGED <<newest, reordered, canceledOnce, cut>>
  BY DEF history
<1>3. InOrder' => InOrder
  BY <1>2 DEF InOrder, Behind
<1>4. ASSUME NEW y \in Attempt, Agreed(y) PROVE Agreed(y)'
  BY <1>1, <1>2, <1>4, AgreedFrame
<1> QED
  BY <1>2, <1>3, <1>4 DEF InTurn

LEMMA SetSame ==
  ASSUME NEW V, NEW m \in [Side -> [Attempt -> V]], NEW s \in Side, NEW x \in Attempt
  PROVE  m = [m EXCEPT ![s][x] = m[s][x]] /\ m[s][x] \in V
  OBVIOUS

ForSender(s, x, kind) ==
  /\ kind \in TaskKind => Unlocker[x] = s
  /\ kind \in VerdictKind => AuthorOf(x) = s
  /\ kind \in {"cancel", "uncancel"} => x \in canceledOnce'

(* A step of s that writes v and p into the row of x and issues an         *)
(* operation about x.                                                      *)
Says(s, x, kind, arg, v, p) ==
  /\ Issue(s, kind, x, arg) /\ Payload(kind, x, arg) /\ ForSender(s, x, kind)
  /\ state' = [state EXCEPT ![s][x] = v] /\ v \in State
  /\ v = "canceled" => x \in canceledOnce'
  /\ prompt' = [prompt EXCEPT ![s][x] = p] /\ p \in Prompt \cup {"none"}
  /\ canceledOnce \subseteq canceledOnce'
  /\ UNCHANGED <<newest, reordered, cut>>

Said(s, x, op, kind, arg, v, p) ==
  /\ Sent'
  /\ state'[s][x] = v /\ state'[Other(s)][x] = state[Other(s)][x]
  /\ prompt'[s][x] = p /\ prompt'[Other(s)][x] = prompt[Other(s)][x]
  /\ op.kind = kind /\ op.arg = arg /\ op.num \in Nat
  /\ \A q \in Tasks(x) : s = Unlocker[x] => q.num \in Nat /\ q.num < op.num
  /\ Tasks(x)' = IF kind \in TaskKind THEN Tasks(x) \cup {op} ELSE Tasks(x)
  /\ Verdicts(x)' = IF kind \in VerdictKind THEN Verdicts(x) \cup {op} ELSE Verdicts(x)
  /\ (x \notin canceledOnce' /\ Agreed(x) => Agreed(x)') => InTurn'

LEMMA Spoken ==
  ASSUME WireTypeOK(Operation), Rows, LocalType, HistoryType, Sent, InTurn, NEW s \in Side,
         NEW x \in Attempt, NEW kind, NEW arg, NEW v, NEW p, Says(s, x, kind, arg, v, p)
  PROVE  \E op : Said(s, x, op, kind, arg, v, p)
<1>1. PICK op : op = [kind |-> kind, num |-> issued[s] + 1, x |-> x, arg |-> arg]
  OBVIOUS
<1>2. op.kind = kind /\ op.x = x /\ op.arg = arg /\ op.num = issued[s] + 1
  BY <1>1
<1>3. Way(Other(s))' = Way(Other(s)) /\ Way(s)' = Way(s) \cup {op}
  BY <1>1, IssueWay DEF Says
<1>4. /\ state'[s][x] = v
      /\ \A q \in Side, y \in Attempt : q # s \/ y # x => state'[q][y] = state[q][y]
  BY SetAt DEF Rows, RowType, Says
<1>5. /\ prompt'[s][x] = p
      /\ \A q \in Side, y \in Attempt : q # s \/ y # x => prompt'[q][y] = prompt[q][y]
  BY SetAt DEF Rows, RowType, Says
<1>6. Other(s) \in Side /\ Other(s) # s
  BY OtherSide
<1>7. issued' = [issued EXCEPT ![s] = @ + 1]
  BY DEF Issue, Says
<1>8. \A q \in Side, y \in Attempt :
        state'[q][y] = "canceled" => state[q][y] = "canceled" \/ y \in canceledOnce'
  BY <1>4 DEF Says
<1>9. Sent'
  BY <1>2, <1>3, <1>7, <1>8, IssueSent DEF Says, ForSender
<1>10. /\ op.num \in Nat
       /\ InOrder' => InOrder
       /\ \A q \in Tasks(x) : s = Unlocker[x] => q.num \in Nat /\ q.num < op.num
       /\ \A y \in Attempt \ {x} : Tasks(y)' = Tasks(y) /\ Verdicts(y)' = Verdicts(y)
       /\ Tasks(x)' = IF Unlocker[x] = s /\ op.kind \in TaskKind
                      THEN Tasks(x) \cup {op} ELSE Tasks(x)
       /\ Verdicts(x)' = IF AuthorOf(x) = s /\ op.kind \in VerdictKind
                         THEN Verdicts(x) \cup {op} ELSE Verdicts(x)
  BY <1>2, <1>3, IssueView DEF Says
<1>11. \A q \in Side, y \in Attempt : q # s \/ y # x =>
         state'[q][y] = state[q][y] /\ prompt'[q][y] = prompt[q][y]
  BY <1>4, <1>5
<1>12. (x \notin canceledOnce' /\ Agreed(x) => Agreed(x)') => InTurn'
  BY <1>10, <1>11, TurnFrame DEF Says
<1>13. /\ Tasks(x)' = IF kind \in TaskKind THEN Tasks(x) \cup {op} ELSE Tasks(x)
       /\ Verdicts(x)' = IF kind \in VerdictKind THEN Verdicts(x) \cup {op} ELSE Verdicts(x)
  BY <1>2, <1>10 DEF Says, ForSender
<1> QED
  BY <1>2, <1>4, <1>5, <1>6, <1>9, <1>10, <1>12, <1>13 DEF Said

(* The Unlocker names a prompt or hands the task in. *)
LEMMA UnlockerTurn ==
  ASSUME WireTypeOK(Operation), Rows, LocalType, HistoryType, Sent, InTurn, NEW s \in Side,
         NEW x \in Attempt,
         \/ \E p \in Prompt, c \in DOMAIN calls[s] : StartCommit(s, c, x, p)
         \/ \E p \in Redrawn : RerollUnlock(s, x, p)
         \/ SubmitUnlock(s, x)
  PROVE  Sent' /\ InTurn'
<1>1. Unlocker[x] = s /\ AuthorOf(x) = Other(s)
  BY DEF StartCommit, CreateAttempt, RerollUnlock, SubmitUnlock, OffersTask, AuthorOf
<1>2. UNCHANGED <<newest, reordered, canceledOnce, cut>>
  BY DEF StartCommit, CreateAttempt, RerollUnlock, SubmitUnlock, history
<1>3. \A kind \in TaskKind : ForSender(s, x, kind)
  BY <1>1 DEF ForSender, TaskKind, VerdictKind
<1>4. /\ state[s][x] \in State /\ prompt[s][x] \in Prompt \cup {"none"}
      /\ state = [state EXCEPT ![s][x] = state[s][x]]
      /\ prompt = [prompt EXCEPT ![s][x] = prompt[s][x]]
  BY SetSame DEF Rows, RowType
<1>5. "assigned" \in State /\ "submitted" \in State
  BY DEF State
<1>6. ASSUME NEW p \in Prompt, NEW c \in DOMAIN calls[s], StartCommit(s, c, x, p)
      PROVE  Sent' /\ InTurn'
  <2>1. Says(s, x, "start", p, "assigned", p) /\ state[s][x] = "absent"
    BY <1>2, <1>3, <1>5, <1>6 DEF StartCommit, CreateAttempt, Says, Payload, TaskKind
  <2>2. PICK op : Said(s, x, op, "start", p, "assigned", p)
    BY <2>1, Spoken
  <2>3. Tasks(x)' = Tasks(x) \cup {op} /\ Verdicts(x)' = Verdicts(x)
    BY <2>2 DEF Said, TaskKind, VerdictKind
  <2>4. ASSUME Agreed(x) PROVE Agreed(x)'
    <3>1. Turn("absent", state[Other(s)][x], Tasks(x), Verdicts(x))
      BY <1>1, <2>1, <2>4 DEF Agreed
    <3>2. op.kind = "start" /\ op.num \in Nat /\ op.arg = p
      BY <2>2 DEF Said
    <3>3. /\ Turn("assigned", state[Other(s)][x], Tasks(x) \cup {op}, Verdicts(x))
          /\ InTask(Tasks(x) \cup {op})
          /\ PromptTurn(p, prompt[Other(s)][x], Tasks(x) \cup {op})
      BY <3>1, <3>2, StartTurn
    <3> QED
      BY <1>1, <2>2, <2>3, <3>3 DEF Agreed, AuthorOf, Said
  <2> QED
    BY <2>2, <2>4 DEF Said
<1>7. ASSUME NEW p \in Redrawn, RerollUnlock(s, x, p)
      PROVE  Sent' /\ InTurn'
  <2>0. p \in Prompt
    BY SecretUnlockAssumption DEF SecretUnlockAssumption
  <2>1. state' = state /\ state[s][x] \in {"assigned", "returned"}
    BY <1>7 DEF RerollUnlock, OffersTask
  <2>2. Says(s, x, "reroll", p, state[s][x], p)
    BY <1>2, <1>3, <1>4, <1>7, <2>0, <2>1 DEF RerollUnlock, Says, Payload, TaskKind
  <2>3. PICK op : Said(s, x, op, "reroll", p, state[s][x], p)
    BY <2>2, Spoken
  <2>4. Tasks(x)' = Tasks(x) \cup {op} /\ Verdicts(x)' = Verdicts(x)
    BY <2>3 DEF Said, TaskKind, VerdictKind
  <2>5. ASSUME Agreed(x) PROVE Agreed(x)'
    <3>1. Turn(state[s][x], state[Other(s)][x], Tasks(x), Verdicts(x)) /\ InTask(Tasks(x))
      BY <1>1, <2>5 DEF Agreed
    <3>2. /\ op.kind = "reroll" /\ op.num \in Nat /\ op.arg = p
          /\ \A q \in Tasks(x) : q.num \in Nat /\ q.num < op.num
      BY <1>1, <2>3 DEF Said
    <3>3. /\ Turn(state[s][x], state[Other(s)][x], Tasks(x) \cup {op}, Verdicts(x))
          /\ InTask(Tasks(x) \cup {op})
          /\ PromptTurn(p, prompt[Other(s)][x], Tasks(x) \cup {op})
      BY <2>1, <3>1, <3>2, RerollTurn
    <3> QED
      BY <1>1, <2>3, <2>4, <3>3 DEF Agreed, AuthorOf, Said
  <2> QED
    BY <2>3, <2>5 DEF Said
<1>8. CASE SubmitUnlock(s, x)
  <2>1. prompt' = prompt /\ state[s][x] \in {"assigned", "returned"}
    BY <1>8 DEF SubmitUnlock, OffersTask
  <2>2. Says(s, x, "submit", "none", "submitted", prompt[s][x])
    BY <1>2, <1>3, <1>4, <1>5, <1>8, <2>1 DEF SubmitUnlock, Says, Payload, TaskKind
  <2>3. PICK op : Said(s, x, op, "submit", "none", "submitted", prompt[s][x])
    BY <2>2, Spoken
  <2>4. Tasks(x)' = Tasks(x) \cup {op} /\ Verdicts(x)' = Verdicts(x)
    BY <2>3 DEF Said, TaskKind, VerdictKind
  <2>5. ASSUME Agreed(x) PROVE Agreed(x)'
    <3>1. Turn(state[s][x], state[Other(s)][x], Tasks(x), Verdicts(x)) /\ InTask(Tasks(x))
      BY <1>1, <2>5 DEF Agreed
    <3>2. /\ op.kind = "submit" /\ op.num \in Nat
          /\ \A q \in Tasks(x) : q.num \in Nat /\ q.num < op.num
      BY <1>1, <2>3 DEF Said
    <3>3. /\ Turn("submitted", state[Other(s)][x], Tasks(x) \cup {op}, Verdicts(x))
          /\ InTask(Tasks(x) \cup {op})
          /\ PromptTurn(prompt[s][x], prompt[Other(s)][x], Tasks(x)) =>
               PromptTurn(prompt[s][x], prompt[Other(s)][x], Tasks(x) \cup {op})
      BY <2>1, <3>1, <3>2, SubmitTurn
    <3> QED
      BY <1>1, <1>2, <2>3, <2>4, <2>5, <3>3 DEF Agreed, AuthorOf, Said
  <2> QED
    BY <2>3, <2>5 DEF Said
<1> QED
  BY <1>6, <1>7, <1>8

(* The Author sends the task back or draws a secret for it. *)
LEMMA AuthorTurn ==
  ASSUME WireTypeOK(Operation), Rows, LocalType, HistoryType, Sent, InTurn, Calls, NEW s \in Side,
         NEW x \in Attempt, RejectUnlock(s, x) \/ \E n \in Note : VerifyCommit(s, x, n)
  PROVE  Sent' /\ InTurn'
<1>1. AuthorOf(x) = s /\ Unlocker[x] = Other(s) /\ state[s][x] = "submitted"
  BY Partners, CommitFacts DEF RejectUnlock, OffersVerdict
<1>2. UNCHANGED <<prompt, newest, reordered, canceledOnce, cut>>
  BY DEF RejectUnlock, VerifyCommit, history
<1>3. /\ prompt[s][x] \in Prompt \cup {"none"}
      /\ prompt = [prompt EXCEPT ![s][x] = prompt[s][x]]
  BY SetSame DEF Rows, RowType
<1>4. \E kind \in VerdictKind : \E arg :
        Says(s, x, kind, arg, IF kind = "reject" THEN "returned" ELSE "revealed", prompt[s][x])
  <2>1. \A kind \in VerdictKind : ForSender(s, x, kind)
    BY <1>1 DEF ForSender, TaskKind, VerdictKind
  <2>2. CASE RejectUnlock(s, x)
    <3>1. Says(s, x, "reject", "none", "returned", prompt[s][x])
      BY <1>2, <1>3, <2>1, <2>2 DEF RejectUnlock, Says, Payload, VerdictKind, State
    <3> QED
      BY <3>1 DEF VerdictKind
  <2>3. ASSUME NEW n \in Note, VerifyCommit(s, x, n)
        PROVE  Says(s, x, "verify", n, "revealed", prompt[s][x])
    BY <1>2, <1>3, <2>1, <2>3 DEF VerifyCommit, Says, Payload, VerdictKind, State
  <2> QED
    BY <2>2, <2>3 DEF VerdictKind
<1>5. PICK kind \in VerdictKind : \E arg :
        Says(s, x, kind, arg, IF kind = "reject" THEN "returned" ELSE "revealed", prompt[s][x])
  BY <1>4
<1>6. PICK v : v = IF kind = "reject" THEN "returned" ELSE "revealed"
  OBVIOUS
<1>7. PICK op : \E arg : Said(s, x, op, kind, arg, v, prompt[s][x])
  BY <1>5, <1>6, Spoken
<1>8. Tasks(x)' = Tasks(x) /\ Verdicts(x)' = Verdicts(x) \cup {op} /\ op.kind = kind
  BY <1>7 DEF Said, TaskKind, VerdictKind
<1>9. ASSUME Agreed(x) PROVE Agreed(x)'
  <2>1. Turn(state[Other(s)][x], "submitted", Tasks(x), Verdicts(x))
    BY <1>1, <1>9 DEF Agreed
  <2>2. Turn(state[Other(s)][x], v, Tasks(x), Verdicts(x) \cup {op})
    BY <1>6, <1>8, <2>1, VerdictTurn
  <2> QED
    BY <1>1, <1>2, <1>7, <1>8, <1>9, <2>2 DEF Agreed, AuthorOf, Said
<1> QED
  BY <1>7, <1>9 DEF Said

(* What neither partner waits for. *)
LEMMA AsideSaid ==
  ASSUME WireTypeOK(Operation), Rows, LocalType, HistoryType, Sent, InTurn, NEW s \in Side,
         NEW x \in Attempt, NEW kind \in {"cancel", "uncancel", "reflect", "ledger"}, NEW arg,
         NEW v, Says(s, x, kind, arg, v, prompt[s][x]), v = state[s][x] \/ x \in canceledOnce'
  PROVE  Sent' /\ InTurn'
<1>1. PICK op : Said(s, x, op, kind, arg, v, prompt[s][x])
  BY Spoken
<1>2. Tasks(x)' = Tasks(x) /\ Verdicts(x)' = Verdicts(x)
  BY <1>1 DEF Said, TaskKind, VerdictKind
<1>3. ASSUME Agreed(x), x \notin canceledOnce' PROVE Agreed(x)'
  <2>1. \A q \in Side : state'[q][x] = state[q][x] /\ prompt'[q][x] = prompt[q][x]
    BY <1>1, <1>3, OtherSide DEF Said
  <2>2. cut' = cut
    BY DEF Says
  <2> QED
    BY <1>2, <1>3, <2>1, <2>2, AgreedFrame
<1> QED
  BY <1>1, <1>3 DEF Said

LEMMA AsideTurn ==
  ASSUME WireTypeOK(Operation), Rows, LocalType, HistoryType, Sent, InTurn, NEW s \in Side,
         NEW x \in Attempt,
         \/ CancelUnlock(s, x) \/ UncancelUnlock(s, x) \/ ReflectOnUnlock(s, x)
         \/ \E reason \in Reason : Award(s, x, reason)
  PROVE  Sent' /\ InTurn'
<1>1. /\ prompt' = prompt /\ prompt[s][x] \in Prompt \cup {"none"}
      /\ prompt = [prompt EXCEPT ![s][x] = prompt[s][x]]
      /\ state[s][x] \in State /\ state = [state EXCEPT ![s][x] = state[s][x]]
  BY SetSame DEF Rows, RowType, CancelUnlock, UncancelUnlock, ReflectOnUnlock, Award
<1>2. /\ "canceled" \in State /\ "assigned" \in State
      /\ \A kind \in {"cancel", "uncancel", "reflect", "ledger"} :
           kind \notin TaskKind /\ kind \notin VerdictKind
  BY DEF State, TaskKind, VerdictKind
<1>3. state[s][x] = "canceled" => x \in canceledOnce
  BY DEF Sent, SentInv
<1>4. CASE CancelUnlock(s, x)
  <2>1. Says(s, x, "cancel", "none", "canceled", prompt[s][x]) /\ x \in canceledOnce'
    BY <1>1, <1>2, <1>4 DEF CancelUnlock, Says, Payload, ForSender
  <2> QED
    BY <2>1, AsideSaid
<1>5. CASE UncancelUnlock(s, x)
  <2>1. Says(s, x, "uncancel", "none", "assigned", prompt[s][x]) /\ x \in canceledOnce'
    BY <1>1, <1>2, <1>3, <1>5 DEF UncancelUnlock, OffersUndo, Says, Payload, ForSender, history
  <2> QED
    BY <2>1, AsideSaid
<1>6. CASE ReflectOnUnlock(s, x)
  <2>1. Says(s, x, "reflect", "none", state[s][x], prompt[s][x])
    BY <1>1, <1>2, <1>3, <1>6 DEF ReflectOnUnlock, Says, Payload, ForSender, history
  <2> QED
    BY <2>1, AsideSaid
<1>7. ASSUME NEW reason \in Reason, Award(s, x, reason)
      PROVE  Sent' /\ InTurn'
  <2>1. Says(s, x, "ledger", reason, state[s][x], prompt[s][x])
    BY <1>1, <1>2, <1>3, <1>7 DEF Award, Says, Payload, ForSender, history
  <2> QED
    BY <2>1, AsideSaid
<1> QED
  BY <1>4, <1>5, <1>6, <1>7

(* A secret taken out of the pool by hand is about no attempt. *)
LEMMA NoteTurn ==
  ASSUME WireTypeOK(Operation), Rows, LocalType, HistoryType, Sent, InTurn, NEW s \in Side,
         NEW n \in Note, TakesOut(s, n)
  PROVE  Sent' /\ InTurn'
<1>1. PICK kind \in NoteKind : Issue(s, kind, "none", n)
  BY DEF TakesOut, DeleteNote, RevealSecretNote, NoteKind
<1>2. PICK op : op = [kind |-> kind, num |-> issued[s] + 1, x |-> "none", arg |-> n]
  OBVIOUS
<1>3. /\ op.num = issued[s] + 1 /\ op.kind \notin TaskKind \cup VerdictKind
      /\ op.kind \notin {"cancel", "uncancel"}
  BY <1>2 DEF NoteKind, TaskKind, VerdictKind
<1>4. Way(Other(s))' = Way(Other(s)) /\ Way(s)' = Way(s) \cup {op}
  BY <1>1, <1>2, IssueWay DEF Payload
<1>5. UNCHANGED <<state, prompt, newest, reordered, canceledOnce, cut>>
  BY DEF TakesOut, DeleteNote, RevealSecretNote
<1>6. issued' = [issued EXCEPT ![s] = @ + 1]
  BY <1>1 DEF Issue
<1>7. Sent'
  BY <1>3, <1>4, <1>5, <1>6, IssueSent
<1>8. \A q \in Side : q = s \/ q = Other(s)
  BY OtherSide
<1>9. \A y \in Attempt : Tasks(y)' = Tasks(y) /\ Verdicts(y)' = Verdicts(y)
  BY <1>3, <1>4, <1>8, Partners DEF Tasks, Verdicts, AuthorOf
<1>10. InOrder' => InOrder
  BY <1>4, <1>5, <1>8 DEF InOrder, Behind
<1>11. \A y \in Attempt : Agreed(y) => Agreed(y)'
  BY <1>5, <1>9, AgreedFrame
<1> QED
  BY <1>5, <1>7, <1>10, <1>11 DEF InTurn

(* The Unlocker's phone is killed before the partner is told. *)
LEMMA CutTurn ==
  ASSUME Rows, Sent, InTurn, NEW s \in Side, NEW x \in Attempt, NEW p \in Prompt,
         RerollCutShort(s, x, p)
  PROVE  Sent' /\ InTurn'
<1>1. \A q \in Side : Way(q)' = Way(q)
  BY DEF RerollCutShort, Way, OnRelay
<1>2. \A y \in Attempt : Tasks(y)' = Tasks(y) /\ Verdicts(y)' = Verdicts(y)
  BY <1>1, Partners DEF Tasks, Verdicts, AuthorOf
<1>3. UNCHANGED <<state, issued, newest, reordered, canceledOnce>> /\ cut' = cut \cup {x}
  BY DEF RerollCutShort
<1>4. InOrder' => InOrder
  BY <1>1, <1>3 DEF InOrder, Behind
<1>5. \A q \in Side, y \in Attempt : q # s \/ y # x => prompt'[q][y] = prompt[q][y]
  BY SetAt DEF RerollCutShort, Rows, RowType
<1>6. ASSUME Agreed(x) PROVE Agreed(x)'
  BY <1>2, <1>3, <1>6, AgreedFrame
<1>7. InTurn'
  BY <1>2, <1>3, <1>4, <1>5, <1>6, TurnFrame
<1> QED
  BY <1>1, <1>3, <1>7, QuietSent

(* The operation a phone applies: as long as the order is kept, nothing of *)
(* it is left on its way, and what is left is newer.                       *)
Hears(s, op) ==
  /\ op \in Way(Other(s)) /\ op \in Operation /\ ApplyCrdtOp(s, op)
  /\ Way(s)' = Way(s) /\ Way(Other(s))' \subseteq Way(Other(s))
  /\ InOrder' => /\ InOrder /\ Way(Other(s))' = Way(Other(s)) \ {op}
                 /\ \A p \in Way(Other(s)) \ {op} : op.num < p.num
  /\ UNCHANGED <<local, issued, canceledOnce, cut, starved, crossed>>

LEMMA Hearing ==
  ASSUME WireTypeOK(Operation), HistoryType, NEW s \in Side, ApplyNext(s)
  PROVE  \E op : Hears(s, op)
<1>1. PICK e \in page[s] :
        /\ Take(s, e) /\ ApplyCrdtOp(s, e.op)
        /\ newest' = [newest EXCEPT ![s] = IF e.op.num > @ THEN e.op.num ELSE @]
        /\ reordered' = (reordered \/ e.op.num <= newest[s])
        /\ UNCHANGED <<local, issued, canceledOnce, cut, starved, crossed>>
  BY DEF ApplyNext
<1>2. PICK op : op = e.op
  OBVIOUS
<1>3. /\ op \in Operation /\ op \in Way(Other(s)) /\ Way(s)' = Way(s)
      /\ Way(Other(s))' \subseteq Way(Other(s))
      /\ Way(Other(s)) \subseteq Way(Other(s))' \cup {op}
  BY <1>1, <1>2, TakeWay
<1>4. ASSUME InOrder'
      PROVE  /\ InOrder /\ Way(Other(s))' = Way(Other(s)) \ {op}
             /\ \A p \in Way(Other(s)) \ {op} : op.num < p.num
  <2>1. /\ Other(s) \in Side /\ Other(Other(s)) = s /\ Other(s) # s
        /\ \A q \in Side : q = s \/ q = Other(s)
    BY OtherSide
  <2>2. op.num \in Nat /\ newest[s] \in Nat /\ \A p \in Way(Other(s)) : p.num \in Nat
    BY <1>3, <2>1, WayType, OperationFacts DEF HistoryType
  <2>3. ~reordered /\ ~(op.num <= newest[s])
    BY <1>1, <1>2, <1>4 DEF InOrder
  <2>4. newest'[s] = op.num /\ newest'[Other(s)] = newest[Other(s)]
    BY <1>1, <1>2, <2>1, <2>2, <2>3 DEF HistoryType
  <2>5. \A p \in Way(Other(s))' : ~(p.num <= op.num)
    BY <1>4, <2>1, <2>4 DEF InOrder, Behind
  <2>6. op \notin Way(Other(s))'
    BY <2>2, <2>5
  <2>7. Way(Other(s))' = Way(Other(s)) \ {op}
    BY <1>3, <2>6
  <2>8. \A p \in Way(Other(s)) \ {op} : op.num < p.num
    BY <2>2, <2>5, <2>7
  <2>9. ~Behind(Other(s))
    BY <2>1, <2>2, <2>3, <2>8 DEF Behind
  <2>10. ~Behind(s)
    BY <1>3, <1>4, <2>1, <2>4 DEF InOrder, Behind
  <2> QED
    BY <2>1, <2>3, <2>7, <2>8, <2>9, <2>10 DEF InOrder
<1> QED
  BY <1>1, <1>2, <1>3, <1>4 DEF Hears

(* What it leaves of the attempt's own operations. *)
LEMMA HearsView ==
  ASSUME WireTypeOK(Operation), Sent, NEW s \in Side, NEW op, Hears(s, op), InOrder',
         op.kind \notin NoteKind
  PROVE  /\ op.x \in Attempt
         /\ \A y \in Attempt \ {op.x} : Tasks(y)' = Tasks(y) /\ Verdicts(y)' = Verdicts(y)
         /\ op.kind \in TaskKind =>
              /\ AuthorOf(op.x) = s /\ Unlocker[op.x] = Other(s)
              /\ op \in Tasks(op.x) /\ Tasks(op.x)' = Tasks(op.x) \ {op}
              /\ \A p \in Tasks(op.x) \ {op} : op.num < p.num
         /\ op.kind \notin TaskKind => Tasks(op.x)' = Tasks(op.x)
         /\ op.kind \in VerdictKind =>
              /\ Unlocker[op.x] = s /\ AuthorOf(op.x) = Other(s)
              /\ op \in Verdicts(op.x) /\ Verdicts(op.x)' = Verdicts(op.x) \ {op}
         /\ op.kind \notin VerdictKind => Verdicts(op.x)' = Verdicts(op.x)
<1>1. /\ op.x \in Attempt /\ op \in Way(Other(s)) /\ Way(s)' = Way(s)
      /\ Way(Other(s))' = Way(Other(s)) \ {op}
      /\ \A p \in Way(Other(s)) \ {op} : op.num < p.num
  BY OperationFacts DEF Hears
<1>2. \A y \in Attempt : /\ Unlocker[y] \in {s, Other(s)} /\ AuthorOf(y) \in {s, Other(s)}
                         /\ AuthorOf(y) = Other(Unlocker[y]) /\ Unlocker[y] = Other(AuthorOf(y))
  BY Partners, OtherSide
<1>3. \A y \in Attempt \ {op.x} : Tasks(y)' = Tasks(y) /\ Verdicts(y)' = Verdicts(y)
  BY <1>1, <1>2 DEF Tasks, Verdicts, AuthorOf
<1>4. op.kind \in TaskKind => AuthorOf(op.x) = s /\ Unlocker[op.x] = Other(s)
  BY <1>1, <1>2, OtherSide DEF Sent, SentInv
<1>5. op.kind \in VerdictKind => Unlocker[op.x] = s /\ AuthorOf(op.x) = Other(s)
  BY <1>1, <1>2, OtherSide DEF Sent, SentInv
<1>6. op.kind \in TaskKind =>
        /\ op \in Tasks(op.x) /\ Tasks(op.x)' = Tasks(op.x) \ {op}
        /\ \A p \in Tasks(op.x) \ {op} : op.num < p.num
  BY <1>1, <1>4 DEF Tasks
<1>7. op.kind \notin TaskKind => Tasks(op.x)' = Tasks(op.x)
  BY <1>1, <1>2 DEF Tasks
<1>8. op.kind \in VerdictKind => op \in Verdicts(op.x) /\ Verdicts(op.x)' = Verdicts(op.x) \ {op}
  BY <1>1, <1>5 DEF Verdicts, AuthorOf
<1>9. op.kind \notin VerdictKind => Verdicts(op.x)' = Verdicts(op.x)
  BY <1>1, <1>2 DEF Verdicts, AuthorOf
<1> QED
  BY <1>1, <1>3, <1>4, <1>5, <1>6, <1>7, <1>8, <1>9

(* A phone that writes v and p into the row the operation is about.        *)
LEMMA HeardFrame ==
  ASSUME WireTypeOK(Operation), Rows, Sent, InTurn, NEW s \in Side, NEW op, Hears(s, op),
         op.kind \notin NoteKind, NEW x \in Attempt, op.x = x,
         NEW v \in State, state' = [state EXCEPT ![s][x] = v],
         NEW p \in Prompt \cup {"none"}, prompt' = [prompt EXCEPT ![s][x] = p],
         v = "canceled" => x \in canceledOnce,
         InOrder' /\ x \notin canceledOnce /\ Agreed(x) => Agreed(x)'
  PROVE  Sent' /\ InTurn'
<1>1. /\ state'[s][x] = v
      /\ \A q \in Side, y \in Attempt : q # s \/ y # x => state'[q][y] = state[q][y]
  BY SetAt DEF Rows, RowType
<1>2. \A q \in Side, y \in Attempt : q # s \/ y # x => prompt'[q][y] = prompt[q][y]
  BY SetAt DEF Rows, RowType
<1>3. \A q \in Side : Way(q)' \subseteq Way(q)
  BY OtherSide DEF Hears
<1>4. UNCHANGED <<issued, canceledOnce, cut>> /\ (InOrder' => InOrder)
  BY DEF Hears
<1>5. Sent'
  BY <1>1, <1>3, <1>4 DEF Sent, SentInv, AuthorOf
<1>6. InOrder' => \A y \in Attempt \ {x} : Tasks(y)' = Tasks(y) /\ Verdicts(y)' = Verdicts(y)
  BY HearsView
<1>7. \A q \in Side, y \in Attempt : q # s \/ y # x =>
        state'[q][y] = state[q][y] /\ prompt'[q][y] = prompt[q][y]
  BY <1>2, <1>1
<1>8. InTurn'
  BY <1>4, <1>6, <1>7, TurnFrame
<1> QED
  BY <1>5, <1>8

(* The Author learns of the attempt. *)
LEMMA StartHeard ==
  ASSUME WireTypeOK(Operation), Rows, Sent, InTurn, NEW s \in Side, NEW op, Hears(s, op),
         ApplyStart(s, op)
  PROVE  Sent' /\ InTurn'
<1>1. /\ op.kind = "start" /\ op.kind \in TaskKind /\ op.kind \notin VerdictKind \cup NoteKind
      /\ op.arg \in Prompt \/ op.kind = "submit"
  BY OperationFacts DEF Hears, ApplyStart, TaskKind, VerdictKind, NoteKind
<1>2. PICK x \in Attempt : x = op.x
  BY <1>1, OperationFacts DEF Hears
<1>3. /\ state[s][x] \in State /\ prompt[s][x] \in Prompt \cup {"none"}
      /\ state = [state EXCEPT ![s][x] = state[s][x]]
      /\ prompt = [prompt EXCEPT ![s][x] = prompt[s][x]]
  BY SetSame DEF Rows, RowType
<1>4. PICK v : v = IF state[s][x] = "absent" THEN "assigned" ELSE state[s][x]
  OBVIOUS
<1>5. PICK p : p = IF state[s][x] = "absent" THEN op.arg ELSE prompt[s][x]
  OBVIOUS
<1>6. v \in State /\ p \in Prompt \cup {"none"} /\ (v = "canceled" => x \in canceledOnce)
  BY <1>1, <1>3, <1>4, <1>5 DEF State, Sent, SentInv
<1>7. state' = [state EXCEPT ![s][x] = v] /\ prompt' = [prompt EXCEPT ![s][x] = p]
  BY <1>2, <1>3, <1>4, <1>5 DEF ApplyStart, Move
<1>8. /\ state'[s][x] = v /\ state'[Other(s)][x] = state[Other(s)][x]
      /\ prompt'[s][x] = p /\ prompt'[Other(s)][x] = prompt[Other(s)][x]
  <2>1. Other(s) \in Side /\ Other(s) # s
    BY OtherSide
  <2>2. state'[s][x] = v /\ state'[Other(s)][x] = state[Other(s)][x]
    BY <1>6, <1>7, <2>1, SetAt DEF Rows, RowType
  <2>3. prompt'[s][x] = p /\ prompt'[Other(s)][x] = prompt[Other(s)][x]
    BY <1>6, <1>7, <2>1, SetAt DEF Rows, RowType
  <2> QED
    BY <2>2, <2>3
<1>9. ASSUME InOrder', Agreed(x) PROVE Agreed(x)'
  <2>1. /\ AuthorOf(x) = s /\ Unlocker[x] = Other(s)
        /\ op \in Tasks(x) /\ Tasks(x)' = Tasks(x) \ {op}
        /\ Verdicts(x)' = Verdicts(x)
        /\ \A q \in Tasks(x) \ {op} : op.num < q.num
    BY <1>1, <1>2, <1>9, HearsView
  <2>2. \A q \in Tasks(x) : q.num \in Nat
    BY TalkType
  <2>3. Turn(state[Other(s)][x], state[s][x], Tasks(x), Verdicts(x)) /\ InTask(Tasks(x))
    BY <1>9, <2>1 DEF Agreed
  <2>4. PICK T : T = Tasks(x)
    OBVIOUS
  <2>5. PICK V : V = Verdicts(x)
    OBVIOUS
  <2>6. op \in T /\ (\A q \in T : q.num \in Nat) /\ (\A q \in T \ {op} : op.num < q.num)
    BY <2>1, <2>2, <2>4
  <2>7. Turn(state[Other(s)][x], state[s][x], T, V) /\ InTask(T)
    BY <2>3, <2>4, <2>5
  <2>8. /\ state[s][x] = "absent"
        /\ Turn(state[Other(s)][x], "assigned", T \ {op}, V)
        /\ InTask(T \ {op})
    BY <1>1, <2>6, <2>7, HeardStart
  <2>9. PromptTurn(prompt[Other(s)][x], prompt[s][x], T) =>
          PromptTurn(prompt[Other(s)][x], op.arg, T \ {op})
    BY <1>1, <2>6, <2>7, HeardPrompt
  <2>10. v = "assigned" /\ p = op.arg
    BY <1>4, <1>5, <2>8
  <2>11. AuthorOf(x)' = AuthorOf(x) /\ cut' = cut
    BY DEF AuthorOf, Hears
  <2> QED
    BY <1>8, <1>9, <2>1, <2>4, <2>5, <2>8, <2>9, <2>10, <2>11 DEF Agreed
<1> QED
  BY <1>1, <1>2, <1>6, <1>7, <1>9, HeardFrame

(* The Author learns of a new prompt. *)
LEMMA RerollHeard ==
  ASSUME WireTypeOK(Operation), Rows, Sent, InTurn, NEW s \in Side, NEW op, Hears(s, op),
         ApplyReroll(s, op)
  PROVE  Sent' /\ InTurn'
<1>1. /\ op.kind = "reroll" /\ op.kind \in TaskKind /\ op.kind \notin VerdictKind \cup NoteKind
      /\ op.arg \in Prompt \/ op.kind = "submit"
  BY OperationFacts DEF Hears, ApplyReroll, TaskKind, VerdictKind, NoteKind
<1>2. PICK x \in Attempt : x = op.x
  BY <1>1, OperationFacts DEF Hears
<1>3. /\ state[s][x] \in State /\ prompt[s][x] \in Prompt \cup {"none"}
      /\ state = [state EXCEPT ![s][x] = state[s][x]]
      /\ prompt = [prompt EXCEPT ![s][x] = prompt[s][x]]
  BY SetSame DEF Rows, RowType
<1>4. PICK v : v = state[s][x]
  OBVIOUS
<1>5. PICK p : p = IF state[s][x] \in {"assigned", "returned"} THEN op.arg ELSE prompt[s][x]
  OBVIOUS
<1>6. v \in State /\ p \in Prompt \cup {"none"} /\ (v = "canceled" => x \in canceledOnce)
  BY <1>1, <1>3, <1>4, <1>5 DEF State, Sent, SentInv
<1>7. state' = [state EXCEPT ![s][x] = v] /\ prompt' = [prompt EXCEPT ![s][x] = p]
  BY <1>2, <1>3, <1>4, <1>5 DEF ApplyReroll, Move
<1>8. /\ state'[s][x] = v /\ state'[Other(s)][x] = state[Other(s)][x]
      /\ prompt'[s][x] = p /\ prompt'[Other(s)][x] = prompt[Other(s)][x]
  <2>1. Other(s) \in Side /\ Other(s) # s
    BY OtherSide
  <2>2. state'[s][x] = v /\ state'[Other(s)][x] = state[Other(s)][x]
    BY <1>6, <1>7, <2>1, SetAt DEF Rows, RowType
  <2>3. prompt'[s][x] = p /\ prompt'[Other(s)][x] = prompt[Other(s)][x]
    BY <1>6, <1>7, <2>1, SetAt DEF Rows, RowType
  <2> QED
    BY <2>2, <2>3
<1>9. ASSUME InOrder', Agreed(x) PROVE Agreed(x)'
  <2>1. /\ AuthorOf(x) = s /\ Unlocker[x] = Other(s)
        /\ op \in Tasks(x) /\ Tasks(x)' = Tasks(x) \ {op}
        /\ Verdicts(x)' = Verdicts(x)
        /\ \A q \in Tasks(x) \ {op} : op.num < q.num
    BY <1>1, <1>2, <1>9, HearsView
  <2>2. \A q \in Tasks(x) : q.num \in Nat
    BY TalkType
  <2>3. Turn(state[Other(s)][x], state[s][x], Tasks(x), Verdicts(x)) /\ InTask(Tasks(x))
    BY <1>9, <2>1 DEF Agreed
  <2>4. PICK T : T = Tasks(x)
    OBVIOUS
  <2>5. PICK V : V = Verdicts(x)
    OBVIOUS
  <2>6. op \in T /\ (\A q \in T : q.num \in Nat) /\ (\A q \in T \ {op} : op.num < q.num)
    BY <2>1, <2>2, <2>4
  <2>7. Turn(state[Other(s)][x], state[s][x], T, V) /\ InTask(T)
    BY <2>3, <2>4, <2>5
  <2>8. /\ state[s][x] \in {"assigned", "returned"}
        /\ Turn(state[Other(s)][x], state[s][x], T \ {op}, V)
        /\ InTask(T \ {op})
    BY <1>1, <2>6, <2>7, HeardReroll
  <2>9. PromptTurn(prompt[Other(s)][x], prompt[s][x], T) =>
          PromptTurn(prompt[Other(s)][x], op.arg, T \ {op})
    BY <1>1, <2>6, <2>7, HeardPrompt
  <2>10. v = state[s][x] /\ p = op.arg
    BY <1>4, <1>5, <2>8
  <2>11. AuthorOf(x)' = AuthorOf(x) /\ cut' = cut
    BY DEF AuthorOf, Hears
  <2> QED
    BY <1>8, <1>9, <2>1, <2>4, <2>5, <2>8, <2>9, <2>10, <2>11 DEF Agreed
<1> QED
  BY <1>1, <1>2, <1>6, <1>7, <1>9, HeardFrame

(* The Author learns that the task is done. *)
LEMMA SubmitHeard ==
  ASSUME WireTypeOK(Operation), Rows, Sent, InTurn, NEW s \in Side, NEW op, Hears(s, op),
         ApplySubmit(s, op)
  PROVE  Sent' /\ InTurn'
<1>1. /\ op.kind = "submit" /\ op.kind \in TaskKind /\ op.kind \notin VerdictKind \cup NoteKind
      /\ op.arg \in Prompt \/ op.kind = "submit"
  BY OperationFacts DEF Hears, ApplySubmit, TaskKind, VerdictKind, NoteKind
<1>2. PICK x \in Attempt : x = op.x
  BY <1>1, OperationFacts DEF Hears
<1>3. /\ state[s][x] \in State /\ prompt[s][x] \in Prompt \cup {"none"}
      /\ state = [state EXCEPT ![s][x] = state[s][x]]
      /\ prompt = [prompt EXCEPT ![s][x] = prompt[s][x]]
  BY SetSame DEF Rows, RowType
<1>4. PICK v : v = IF state[s][x] \in {"assigned", "returned"} THEN "submitted" ELSE state[s][x]
  OBVIOUS
<1>5. PICK p : p = prompt[s][x]
  OBVIOUS
<1>6. v \in State /\ p \in Prompt \cup {"none"} /\ (v = "canceled" => x \in canceledOnce)
  BY <1>1, <1>3, <1>4, <1>5 DEF State, Sent, SentInv
<1>7. state' = [state EXCEPT ![s][x] = v] /\ prompt' = [prompt EXCEPT ![s][x] = p]
  BY <1>2, <1>3, <1>4, <1>5 DEF ApplySubmit, Move
<1>8. /\ state'[s][x] = v /\ state'[Other(s)][x] = state[Other(s)][x]
      /\ prompt'[s][x] = p /\ prompt'[Other(s)][x] = prompt[Other(s)][x]
  <2>1. Other(s) \in Side /\ Other(s) # s
    BY OtherSide
  <2>2. state'[s][x] = v /\ state'[Other(s)][x] = state[Other(s)][x]
    BY <1>6, <1>7, <2>1, SetAt DEF Rows, RowType
  <2>3. prompt'[s][x] = p /\ prompt'[Other(s)][x] = prompt[Other(s)][x]
    BY <1>6, <1>7, <2>1, SetAt DEF Rows, RowType
  <2> QED
    BY <2>2, <2>3
<1>9. ASSUME InOrder', Agreed(x) PROVE Agreed(x)'
  <2>1. /\ AuthorOf(x) = s /\ Unlocker[x] = Other(s)
        /\ op \in Tasks(x) /\ Tasks(x)' = Tasks(x) \ {op}
        /\ Verdicts(x)' = Verdicts(x)
        /\ \A q \in Tasks(x) \ {op} : op.num < q.num
    BY <1>1, <1>2, <1>9, HearsView
  <2>2. \A q \in Tasks(x) : q.num \in Nat
    BY TalkType
  <2>3. Turn(state[Other(s)][x], state[s][x], Tasks(x), Verdicts(x)) /\ InTask(Tasks(x))
    BY <1>9, <2>1 DEF Agreed
  <2>4. PICK T : T = Tasks(x)
    OBVIOUS
  <2>5. PICK V : V = Verdicts(x)
    OBVIOUS
  <2>6. op \in T /\ (\A q \in T : q.num \in Nat) /\ (\A q \in T \ {op} : op.num < q.num)
    BY <2>1, <2>2, <2>4
  <2>7. Turn(state[Other(s)][x], state[s][x], T, V) /\ InTask(T)
    BY <2>3, <2>4, <2>5
  <2>8. /\ state[s][x] \in {"assigned", "returned"}
        /\ Turn(state[Other(s)][x], "submitted", T \ {op}, V)
        /\ InTask(T \ {op})
    BY <1>1, <2>6, <2>7, HeardSubmit
  <2>9. PromptTurn(prompt[Other(s)][x], prompt[s][x], T) =>
          PromptTurn(prompt[Other(s)][x], prompt[s][x], T \ {op})
    BY <1>1, <2>6, <2>7, HeardSubmit
  <2>10. v = "submitted" /\ p = prompt[s][x]
    BY <1>4, <1>5, <2>8
  <2>11. AuthorOf(x)' = AuthorOf(x) /\ cut' = cut
    BY DEF AuthorOf, Hears
  <2> QED
    BY <1>8, <1>9, <2>1, <2>4, <2>5, <2>8, <2>9, <2>10, <2>11 DEF Agreed
<1> QED
  BY <1>1, <1>2, <1>6, <1>7, <1>9, HeardFrame

(* The Unlocker learns of the verdict. *)
LEMMA VerdictHeard ==
  ASSUME WireTypeOK(Operation), Rows, Sent, InTurn, NEW s \in Side, NEW op, Hears(s, op),
         ApplyReject(s, op) \/ ApplyVerify(s, op)
  PROVE  Sent' /\ InTurn'
<1>1. op.kind \in VerdictKind /\ op.kind \notin TaskKind \cup NoteKind
  BY DEF ApplyReject, ApplyVerify, TaskKind, VerdictKind, NoteKind
<1>2. PICK x \in Attempt : x = op.x
  BY <1>1, OperationFacts DEF Hears
<1>3. /\ state[s][x] \in State /\ prompt[s][x] \in Prompt \cup {"none"}
      /\ state = [state EXCEPT ![s][x] = state[s][x]]
      /\ prompt = [prompt EXCEPT ![s][x] = prompt[s][x]]
  BY SetSame DEF Rows, RowType
<1>4. PICK v : v = IF state[s][x] = "submitted"
                   THEN IF op.kind = "reject" THEN "returned" ELSE "revealed" ELSE state[s][x]
  OBVIOUS
<1>5. v \in State /\ (v = "canceled" => x \in canceledOnce)
  BY <1>3, <1>4 DEF State, Sent, SentInv
<1>6. state' = [state EXCEPT ![s][x] = v] /\ prompt' = prompt
  <2>1. CASE ApplyReject(s, op)
    BY <1>2, <1>3, <1>4, <2>1 DEF ApplyReject, Move
  <2>2. CASE ApplyVerify(s, op)
    BY <1>2, <1>3, <1>4, <2>2 DEF ApplyVerify, Move
  <2> QED
    BY <2>1, <2>2
<1>7. state'[s][x] = v /\ state'[Other(s)][x] = state[Other(s)][x]
  BY <1>5, <1>6, OtherSide, SetAt DEF Rows, RowType
<1>8. PICK p \in Prompt \cup {"none"} : prompt' = [prompt EXCEPT ![s][x] = p]
  BY <1>3, <1>6
<1>9. ASSUME InOrder', Agreed(x) PROVE Agreed(x)'
  <2>1. /\ Unlocker[x] = s /\ AuthorOf(x) = Other(s)
        /\ op \in Verdicts(x) /\ Verdicts(x)' = Verdicts(x) \ {op} /\ Tasks(x)' = Tasks(x)
    BY <1>1, <1>2, <1>9, HearsView
  <2>2. PICK V : V = Verdicts(x)
    OBVIOUS
  <2>3. Turn(state[s][x], state[Other(s)][x], Tasks(x), V) /\ op \in V
    BY <1>9, <2>1, <2>2 DEF Agreed
  <2>4. /\ state[s][x] = "submitted"
        /\ Turn(IF op.kind = "reject" THEN "returned" ELSE "revealed", state[Other(s)][x],
                Tasks(x), V \ {op})
    BY <1>1, <2>3, HeardVerdict
  <2>5. Turn(v, state[Other(s)][x], Tasks(x), V \ {op})
    BY <1>4, <2>4
  <2>6. AuthorOf(x)' = AuthorOf(x) /\ cut' = cut
    BY DEF AuthorOf, Hears
  <2> QED
    BY <1>6, <1>7, <1>9, <2>1, <2>2, <2>5, <2>6 DEF Agreed
<1> QED
  BY <1>1, <1>2, <1>5, <1>6, <1>8, <1>9, HeardFrame

(* What is about a canceled attempt, and what no row waits for.            *)
LEMMA AsideHeard ==
  ASSUME WireTypeOK(Operation), Rows, Sent, InTurn, NEW s \in Side, NEW op, Hears(s, op),
         \/ ApplyCancel(s, op) \/ ApplyUncancel(s, op)
         \/ ApplyReflect(s, op) \/ ApplyLedger(s, op)
  PROVE  Sent' /\ InTurn'
<1>1. /\ op.kind \in {"cancel", "uncancel", "reflect", "ledger"}
      /\ op.kind \notin VerdictKind \cup TaskKind \cup NoteKind
  BY DEF ApplyCancel, ApplyUncancel, ApplyReflect, ApplyLedger, TaskKind, VerdictKind, NoteKind
<1>2. PICK x \in Attempt : x = op.x
  BY <1>1, OperationFacts DEF Hears
<1>3. /\ state[s][x] \in State /\ prompt[s][x] \in Prompt \cup {"none"}
      /\ state = [state EXCEPT ![s][x] = state[s][x]]
      /\ prompt = [prompt EXCEPT ![s][x] = prompt[s][x]]
  BY SetSame DEF Rows, RowType
<1>4. prompt' = prompt
  BY DEF ApplyCancel, ApplyUncancel, ApplyReflect, ApplyLedger
<1>5. op.kind \in {"cancel", "uncancel"} => x \in canceledOnce
  BY <1>2, OtherSide DEF Hears, Sent, SentInv
<1>6. CASE op.kind \in {"cancel", "uncancel"}
  <2>1. PICK v \in State : state' = [state EXCEPT ![s][x] = v]
    <3>1. CASE ApplyCancel(s, op)
      BY <1>2, <1>3, <3>1 DEF ApplyCancel, Move, State
    <3>2. CASE ApplyUncancel(s, op)
      BY <1>2, <1>3, <3>2 DEF ApplyUncancel, Move, State
    <3> QED
      BY <1>6, <3>1, <3>2 DEF ApplyReflect, ApplyLedger
  <2> QED
    BY <1>1, <1>2, <1>3, <1>4, <1>5, <1>6, <2>1, HeardFrame
<1>7. CASE op.kind \in {"reflect", "ledger"}
  <2>1. state' = state
    BY <1>7 DEF ApplyCancel, ApplyUncancel, ApplyReflect, ApplyLedger
  <2>2. ASSUME InOrder', Agreed(x) PROVE Agreed(x)'
    <3>1. Tasks(x)' = Tasks(x) /\ Verdicts(x)' = Verdicts(x)
      BY <1>1, <1>2, <2>2, HearsView
    <3>2. cut' = cut
      BY DEF Hears
    <3> QED
      BY <1>4, <2>1, <2>2, <3>1, <3>2, AgreedFrame
  <2>3. state[s][x] = "canceled" => x \in canceledOnce
    BY DEF Sent, SentInv
  <2> QED
    BY <1>1, <1>2, <1>3, <1>4, <2>1, <2>2, <2>3, HeardFrame
<1> QED
  BY <1>1, <1>6, <1>7

(* What is about a secret, not about an attempt. *)
LEMMA NoteHeard ==
  ASSUME WireTypeOK(Operation), Rows, Sent, InTurn, NEW s \in Side, NEW op, Hears(s, op),
         ApplyDelete(s, op) \/ ApplyReveal(s, op)
  PROVE  Sent' /\ InTurn'
<1>1. op.kind \notin TaskKind \cup VerdictKind
  BY DEF ApplyDelete, ApplyReveal, TaskKind, VerdictKind
<1>2. UNCHANGED <<state, prompt, issued, canceledOnce, cut>>
  BY DEF ApplyDelete, ApplyReveal, Hears
<1>3. \A q \in Side : Way(q)' \subseteq Way(q)
  BY OtherSide DEF Hears
<1>4. Sent'
  BY <1>2, <1>3 DEF Sent, SentInv, AuthorOf
<1>5. ASSUME InOrder', NEW y \in Attempt, Agreed(y) PROVE Agreed(y)'
  <2>1. Way(s)' = Way(s) /\ Way(Other(s))' = Way(Other(s)) \ {op}
    BY <1>5 DEF Hears
  <2>2. Unlocker[y] \in {s, Other(s)} /\ AuthorOf(y) \in {s, Other(s)}
    BY Partners, OtherSide
  <2>3. Tasks(y)' = Tasks(y) /\ Verdicts(y)' = Verdicts(y)
    BY <1>1, <2>1, <2>2 DEF Tasks, Verdicts, AuthorOf
  <2> QED
    BY <1>2, <1>5, <2>3, AgreedFrame
<1>6. InOrder' => InOrder
  BY DEF Hears
<1> QED
  BY <1>2, <1>4, <1>5, <1>6 DEF InTurn

LEMMA NextTurn ==
  ASSUME WireTypeOK(Operation), Rows, LocalType, HistoryType, Calls, Sent, InTurn, [Next]_vars
  PROVE  Sent' /\ InTurn'
<1>1. CASE \/ Midnight
           \/ \E s \in Side : \/ StartUnlock(s) \/ \E c \in DOMAIN calls[s] : StartSkip(s, c)
                              \/ \E x \in Attempt, n \in Note :
                                   VerifyUnlock(s, x, n) \/ VerifySkip(s, x, n)
  <2>1. UNCHANGED <<wireVars, state, prompt, issued, history>>
    BY <1>1 DEF Midnight, StartUnlock, StartSkip, VerifyUnlock, VerifySkip, rows
  <2>2. \A q \in Side : Way(q)' = Way(q)
    BY <2>1, WireQuiet
  <2> QED
    BY <2>1, <2>2, QuietSent, QuietTurn DEF history
<1>2. ASSUME NEW s \in Side, Sync(s)
      PROVE  Sent' /\ InTurn'
  <2>1. \A q \in Side : Way(q)' = Way(q)
    BY <1>2, WireStepWay DEF Sync
  <2> QED
    BY <1>2, <2>1, QuietSent, QuietTurn DEF Sync, rows, history
<1>3. ASSUME NEW s \in Side, NEW x \in Attempt, Act(s, x)
      PROVE  Sent' /\ InTurn'
  <2>1. CASE Disclose(s, x)
    <3>1. \A q \in Side : Way(q)' = Way(q)
      BY <2>1, WireQuiet DEF Disclose
    <3> QED
      BY <2>1, <3>1, QuietSent, QuietTurn DEF Disclose, history
  <2>2. CASE \/ \E p \in Prompt, c \in DOMAIN calls[s] : StartCommit(s, c, x, p)
             \/ \E p \in Redrawn : RerollUnlock(s, x, p)
             \/ SubmitUnlock(s, x)
    BY <2>2, UnlockerTurn
  <2>3. CASE RejectUnlock(s, x) \/ \E n \in Note : VerifyCommit(s, x, n)
    BY <2>3, AuthorTurn
  <2>4. CASE CancelUnlock(s, x) \/ UncancelUnlock(s, x) \/ ReflectOnUnlock(s, x)
    BY <2>4, AsideTurn
  <2>5. ASSUME NEW p \in Redrawn, RerollCutShort(s, x, p)
        PROVE  Sent' /\ InTurn'
    BY <2>5, CutTurn, SecretUnlockAssumption DEF SecretUnlockAssumption
  <2> QED
    BY <1>1, <1>3, <2>1, <2>2, <2>3, <2>4, <2>5 DEF Act
<1>4. ASSUME NEW s \in Side, NEW x \in Attempt, NEW reason \in Reason, Award(s, x, reason)
      PROVE  Sent' /\ InTurn'
  BY <1>4, AsideTurn
<1>5. ASSUME NEW s \in Side, ApplyNext(s)
      PROVE  Sent' /\ InTurn'
  <2>1. PICK op : Hears(s, op)
    BY <1>5, Hearing
  <2>2. ApplyCrdtOp(s, op)
    BY <2>1 DEF Hears
  <2> QED
    BY <2>1, <2>2, StartHeard, RerollHeard, SubmitHeard, VerdictHeard, AsideHeard, NoteHeard
       DEF ApplyCrdtOp
<1>6. CASE UNCHANGED vars
  <2>1. UNCHANGED <<wireVars, state, prompt, issued, history>>
    BY <1>6 DEF vars, rows
  <2>2. \A q \in Side : Way(q)' = Way(q)
    BY <2>1, WireQuiet
  <2> QED
    BY <2>1, <2>2, QuietSent, QuietTurn DEF history
<1> QED
  BY <1>1, <1>2, <1>3, <1>4, <1>5, <1>6, NoteTurn DEF Next, TakesOut

LEMMA InitTurn == Init => Sent /\ InTurn
<1> SUFFICES ASSUME Init PROVE Sent /\ InTurn
  OBVIOUS
<1>1. \A s \in Side : Way(s) = {}
  BY WireInitWay DEF Init
<1>2. Sent
  BY <1>1 DEF Init, Sent, SentInv
<1>3. ASSUME NEW x \in Attempt PROVE Agreed(x)
  <2>1. Tasks(x) = {} /\ Verdicts(x) = {}
    BY <1>1, Partners DEF Tasks, Verdicts
  <2>2. /\ state[Unlocker[x]][x] = "absent" /\ state[AuthorOf(x)][x] = "absent"
        /\ prompt[Unlocker[x]][x] = prompt[AuthorOf(x)][x]
    BY Partners DEF Init
  <2>3. Turn("absent", "absent", {}, {})
    BY DEF Turn, UnlockersTurn, Told
  <2>4. InTask({}) /\ Prompts({}) = {}
    BY DEF InTask, Prompts
  <2> QED
    BY <2>1, <2>2, <2>3, <2>4 DEF Agreed, PromptTurn
<1> QED
  BY <1>2, <1>3 DEF InTurn

(* With nothing on its way. *)
LEMMA SettledInOrder ==
  ASSUME WireTypeOK(Operation), InTurn, Settled, ~reordered
  PROVE  /\ InOrder
         /\ \A x \in Attempt \ canceledOnce :
              /\ Agreed(x) /\ Tasks(x) = {} /\ Verdicts(x) = {}
              /\ state[Unlocker[x]][x] = state[AuthorOf(x)][x]
              /\ state[Unlocker[x]][x] \in
                   {"absent", "assigned", "returned", "submitted", "revealed"}
<1>1. \A s \in Side : Way(s) = {}
  BY DrainedWay DEF Settled
<1>2. InOrder
  BY <1>1 DEF InOrder, Behind
<1>3. ASSUME NEW x \in Attempt, x \notin canceledOnce
      PROVE  /\ Agreed(x) /\ Tasks(x) = {} /\ Verdicts(x) = {}
             /\ state[Unlocker[x]][x] = state[AuthorOf(x)][x]
             /\ state[Unlocker[x]][x] \in
                  {"absent", "assigned", "returned", "submitted", "revealed"}
  <2>1. Agreed(x)
    BY <1>2, <1>3 DEF InTurn
  <2>2. Tasks(x) = {} /\ Verdicts(x) = {}
    BY <1>1, Partners DEF Tasks, Verdicts
  <2>3. Turn(state[Unlocker[x]][x], state[AuthorOf(x)][x], {}, {})
    BY <2>1, <2>2 DEF Agreed
  <2> QED
    BY <2>1, <2>2, <2>3 DEF Turn, UnlockersTurn, AuthorsTurn, Told
<1> QED
  BY <1>2, <1>3

LEMMA LoopAgrees ==
  WireTypeOK(Operation) /\ Rows /\ Draws /\ InTurn => LoopSettlesInOrder
<1> SUFFICES ASSUME WireTypeOK(Operation), Rows, Draws, InTurn, NEW x \in Attempt,
                    x \notin canceledOnce, Settled, ~reordered
             PROVE  LET u == Unlocker[x]
                        v == AuthorOf(x)
                    IN  /\ state[u][x] = state[v][x]
                        /\ x \notin cut => prompt[u][x] = prompt[v][x]
                        /\ drawn[u][x] = drawn[v][x]
  BY DEF LoopSettlesInOrder
<1>1. /\ Agreed(x) /\ Tasks(x) = {} /\ state[Unlocker[x]][x] = state[AuthorOf(x)][x]
  BY SettledInOrder
<1>2. x \notin cut => prompt[Unlocker[x]][x] = prompt[AuthorOf(x)][x]
  BY <1>1 DEF Agreed, PromptTurn, Prompts
<1>3. drawn[Unlocker[x]][x] = drawn[AuthorOf(x)][x]
  <2>1. /\ Unlocker[x] \in Side /\ AuthorOf(x) \in Side /\ AuthorOf(x) = Other(Unlocker[x])
    BY Partners
  <2>2. drawn[Unlocker[x]][x] \in {"none", drawn[AuthorOf(x)][x]}
    BY <2>1 DEF Draws, DrawInv
  <2>3. \A s \in Side : /\ drawn[s][x] \in Note \cup {"none"}
                        /\ state[s][x] = "revealed" <=> drawn[s][x] \in Note
    BY DEF Rows, RowType, RowInv
  <2> QED
    BY <1>1, <2>1, <2>2, <2>3, NoneApart
<1> QED
  BY <1>1, <1>2, <1>3

-----------------------------------------------------------------------------
(* What the history remembers.                                             *)

(* An order that was lost is not restored, and what was canceled, starved  *)
(* or crossed stays so.                                                    *)
HistorySteps ==
  /\ InOrder' => InOrder
  /\ canceledOnce \subseteq canceledOnce'
  /\ starved \subseteq starved'
  /\ crossed \subseteq crossed'

LEMMA NextHistory ==
  ASSUME WireTypeOK(Operation), LocalType, HistoryType, [Next]_vars
  PROVE  HistorySteps
<1>1. CASE \E s \in Side : ApplyNext(s)
  BY <1>1, Hearing DEF Hears, HistorySteps
<1>2. ASSUME \A s \in Side : ~ApplyNext(s), UNCHANGED <<newest, reordered>>,
             canceledOnce \subseteq canceledOnce', starved \subseteq starved',
             crossed \subseteq crossed'
      PROVE  HistorySteps
  <2>1. \A s \in Side : Way(s) \subseteq Way(s)'
    BY <1>2, NextWay, OtherSide DEF WaySteps
  <2> QED
    BY <1>2, <2>1 DEF InOrder, Behind, HistorySteps
<1>3. CASE UNCHANGED history
  BY <1>1, <1>2, <1>3 DEF history
<1>4. ASSUME NEW s \in Side, NEW x \in Attempt, Act(s, x)
      PROVE  HistorySteps
  BY <1>1, <1>2, <1>4 DEF Act, StartCommit, CreateAttempt, RerollUnlock, RerollCutShort,
                          SubmitUnlock, CancelUnlock, UncancelUnlock, RejectUnlock, VerifyUnlock,
                          VerifyCommit, Disclose, ReflectOnUnlock, history
<1>5. CASE Aside \/ \E s \in Side, x \in Attempt, reason \in Reason : Award(s, x, reason)
  BY <1>3, <1>5 DEF Aside, Midnight, StartUnlock, Sync, StartSkip, VerifySkip, Award
<1>6. CASE UNCHANGED vars
  BY <1>3, <1>6 DEF vars
<1>7. ASSUME NEW s \in Side, NEW n \in Note, TakesOut(s, n)
      PROVE  HistorySteps
  BY <1>1, <1>2, <1>7 DEF TakesOut, DeleteNote, RevealSecretNote, TakeOut
<1> QED
  BY <1>1, <1>4, <1>5, <1>6, <1>7 DEF Next, Aside, TakesOut

-----------------------------------------------------------------------------
(* A secret is drawn once.                                                 *)

(* One of the attempts was canceled, and the calls crossed.                *)
Excused(x, y) == {x, y} \cap canceledOnce # {} /\ {x, y} \cap crossed # {}

(* What a call has picked, another attempt has drawn only since then: the  *)
(* calls crossed, and unless one of the attempts was canceled this call    *)
(* has nothing to do any more.                                             *)
TwiceInv(s) ==
  \A x, y \in Attempt : AuthorOf(x) = s /\ AuthorOf(y) = s /\ x # y =>
    /\ drawn[s][x] # "none" /\ drawn[s][x] = drawn[s][y] => Excused(x, y)
    /\ \A n \in Note : <<x, n>> \in drawing[s] /\ drawn[s][y] = n =>
         /\ x \in crossed
         /\ state[s][x] = "revealed" \/ {x, y} \cap canceledOnce # {}

Twice == \A s \in Side : TwiceInv(s)

(* Of two attempts of one Unlocker one is over when the other is handed    *)
(* in, unless one of them was canceled.                                    *)
LEMMA OneInVerdict ==
  ASSUME Rows, Draws, Present, OneAttemptAtATime, Sent, NEW s \in Side,
         NEW x \in Attempt, NEW y \in Attempt, AuthorOf(x) = s, AuthorOf(y) = s, x # y,
         state[s][x] # "absent", state[s][y] = "submitted", {x, y} \cap canceledOnce = {}
  PROVE  state[s][x] = "revealed"
<1>1. PICK u \in Side : u = Other(s) /\ Unlocker[x] = u /\ Unlocker[y] = u /\ Other(u) = s
  BY Partners, OtherSide
<1>2. \A z \in {x, y} : state[u][z] \in State \ {"absent", "canceled"}
  BY <1>1 DEF Present, PresentInv, Sent, SentInv, Rows, RowType
<1>3. ~(state[u][x] \in Active /\ state[u][y] \in Active)
  BY <1>1 DEF OneAttemptAtATime
<1>4. PICK z \in {x, y} : state[u][z] = "revealed"
  BY <1>2, <1>3 DEF State, Active
<1>5. drawn[u][z] \in Note
  BY <1>4 DEF Rows, RowInv
<1>6. drawn[s][z] \in Note
  BY <1>1, <1>5, NoneApart DEF Draws, DrawInv
<1>7. state[s][z] = "revealed"
  BY <1>6 DEF Rows, RowInv
<1> QED
  BY <1>7

LEMMA NextTwice ==
  ASSUME WireTypeOK(Operation), Rows, LocalType, HistoryType, Draws, Calls, Present,
         OneAttemptAtATime, Sent, Twice, [Next]_vars, Rows'
  PROVE  Twice'
<1> SUFFICES ASSUME NEW s \in Side, NEW x \in Attempt, NEW y \in Attempt,
                    AuthorOf(x) = s, AuthorOf(y) = s, x # y
             PROVE  /\ drawn'[s][x] # "none" /\ drawn'[s][x] = drawn'[s][y] => Excused(x, y)'
                    /\ \A n \in Note : <<x, n>> \in drawing'[s] /\ drawn'[s][y] = n =>
                         /\ x \in crossed'
                         /\ state'[s][x] = "revealed" \/ {x, y} \cap canceledOnce' # {}
  BY DEF Twice, TwiceInv, AuthorOf
<1>1. DrawSteps /\ PickSteps /\ HistorySteps
  BY NextDraw, NextPick, NextHistory
(* Nothing the partner sends draws a secret here. *)
<1>2. \A z \in {x, y} : \/ drawn'[s][z] = drawn[s][z]
                        \/ /\ VerifyCommit(s, z, drawn'[s][z])
                           /\ \A w \in Attempt : w # z => drawn'[s][w] = drawn[s][w]
  <2>1. \A op \in Way(Other(s)) : op.kind = "verify" => op.x # x /\ op.x # y
    BY OtherSide DEF Draws, DrawInv
  <2> QED
    BY <1>1, <2>1 DEF DrawSteps
(* The second of two calls that picked the same secret commits.            *)
<1>3. ASSUME NEW z \in Attempt, NEW w \in Attempt, AuthorOf(z) = s, AuthorOf(w) = s, z # w,
             NEW n, VerifyCommit(s, z, n), drawn[s][w] = n
      PROVE  Excused(z, w)'
  <2>1. n \in Note /\ <<z, n>> \in drawing[s] /\ state[s][z] = "submitted"
    BY <1>3, CommitFacts
  <2>2. z \in crossed /\ {z, w} \cap canceledOnce # {}
    BY <1>3, <2>1 DEF Twice, TwiceInv
  <2> QED
    BY <1>1, <2>2 DEF Excused, HistorySteps
<1>4. ASSUME drawn'[s][x] # "none", drawn'[s][x] = drawn'[s][y]
      PROVE  Excused(x, y)'
  <2>1. CASE drawn'[s][x] = drawn[s][x] /\ drawn'[s][y] = drawn[s][y]
    BY <1>1, <1>4, <2>1 DEF Twice, TwiceInv, Excused, HistorySteps
  <2>2. CASE VerifyCommit(s, x, drawn'[s][x]) /\ drawn[s][y] = drawn'[s][x]
    BY <1>3, <2>2
  <2>3. CASE VerifyCommit(s, y, drawn'[s][y]) /\ drawn[s][x] = drawn'[s][y]
    <3>1. Excused(y, x)'
      BY <1>3, <2>3
    <3> QED
      BY <3>1 DEF Excused
  <2> QED
    BY <1>2, <1>4, <2>1, <2>2, <2>3
<1>5. ASSUME NEW n \in Note, <<x, n>> \in drawing'[s], drawn'[s][y] = n
      PROVE  /\ x \in crossed'
             /\ state'[s][x] = "revealed" \/ {x, y} \cap canceledOnce' # {}
  <2>1. CASE VerifyUnlock(s, x, n)
    BY <1>5, <2>1 DEF VerifyUnlock, Candidates, rows
  <2>2. <<x, n>> \in drawing[s] \/ VerifyUnlock(s, x, n)
    BY <1>1, <1>5 DEF PickSteps
  <2>3. ASSUME state[s][x] = "revealed"
        PROVE  state'[s][x] = "revealed"
    <3>1. drawn[s][x] \in Note
      BY <2>3 DEF Rows, RowInv
    <3>2. drawn'[s][x] \in Note
      BY <1>1, <3>1, DrawnStays, NoneApart
    <3> QED
      BY <3>2 DEF Rows, RowInv
  <2>4. CASE <<x, n>> \in drawing[s] /\ drawn[s][y] = n
    BY <1>1, <2>3, <2>4 DEF Twice, TwiceInv, HistorySteps
  <2>5. CASE <<x, n>> \in drawing[s] /\ VerifyCommit(s, y, n)
    <3>1. crossed' = crossed \cup {z \in Attempt \ {y} : \E m \in Note : <<z, m>> \in drawing[s]}
      BY <2>5 DEF VerifyCommit
    <3>2. state[s][x] # "absent" /\ state[s][y] = "submitted"
      BY <2>5, CommitFacts DEF Calls, CallInv
    <3>3. state[s][x] = "revealed" \/ {x, y} \cap canceledOnce # {}
      BY <3>2, OneInVerdict
    <3> QED
      BY <1>1, <2>3, <2>5, <3>1, <3>3 DEF HistorySteps
  <2> QED
    BY <1>2, <1>5, <2>1, <2>2, <2>4, <2>5
<1> QED
  BY <1>4, <1>5

LEMMA InitTwice == Init => Twice
  BY DEF Init, Twice, TwiceInv

LEMMA DrawsOnce == Rows /\ Draws /\ Twice => DrawnOnce
<1> SUFFICES ASSUME Rows, Draws, Twice, NEW s \in Side, NEW x \in Attempt, NEW y \in Attempt,
                    x # y, drawn[s][x] # "none", drawn[s][x] = drawn[s][y]
             PROVE  Excused(x, y)
  BY DEF DrawnOnce, Excused
<1>1. DrawInv(s) /\ DrawInv(Other(s)) /\ TwiceInv(s) /\ TwiceInv(Other(s))
  BY OtherSide DEF Draws, Twice
<1>2. AuthorOf(x) = AuthorOf(y)
  BY <1>1 DEF DrawInv
<1>3. CASE AuthorOf(x) = s
  BY <1>1, <1>2, <1>3 DEF TwiceInv
<1>4. CASE AuthorOf(x) # s
  <2>1. Unlocker[x] = s /\ Unlocker[y] = s /\ AuthorOf(x) = Other(s) /\ AuthorOf(y) = Other(s)
    BY <1>2, <1>4, Partners, OtherSide
  <2>2. drawn[s][x] = drawn[Other(s)][x] /\ drawn[s][y] = drawn[Other(s)][y]
    BY <1>1, <2>1 DEF DrawInv
  <2> QED
    BY <1>1, <2>1, <2>2 DEF TwiceInv
<1> QED
  BY <1>3, <1>4

-----------------------------------------------------------------------------
(* Somebody can take the next step.                                        *)

(* The Unlocker has the secret of a revealed attempt.                      *)
KnownInv ==
  \A x \in Attempt :
    LET u == Unlocker[x] IN state[u][x] = "revealed" => drawn[u][x] \in revealed[u]

(* The author of a secret knows what was done to it by hand.               *)
HandInv ==
  \A s \in Side : \A op \in Way(s) :
    /\ op.kind \in NoteKind => Author[op.arg] = s
    /\ op.kind = "reveal" => op.arg \in revealed[s]
    /\ op.kind = "delete" => op.arg \in deleted[s]

(* An attempt is created with a secret left for it, which nothing takes    *)
(* away but the verdict and the Author's hand.                             *)
LeftInv ==
  InOrder /\ canceledOnce = {} =>
    \A x \in Attempt \ starved :
      state[Unlocker[x]][x] \in Active /\ drawn[AuthorOf(x)][x] = "none"
        => Left(Unlocker[x]) # {}

(* Which notes a step reveals or deletes: by hand, by a draw, to its       *)
(* Author or to the Unlocker, or on the other phone.                       *)
OutSteps ==
  \A s \in Side :
    /\ revealed[s] \subseteq revealed'[s] /\ deleted[s] \subseteq deleted'[s]
    /\ \A n \in revealed'[s] \ revealed[s] :
         \/ RevealSecretNote(s, n)
         \/ \E y \in Attempt : drawn[s][y] = n
         \/ \E op \in Way(Other(s)) : op.kind \in {"verify", "reveal"} /\ op.arg = n
    /\ \A n \in deleted'[s] \ deleted[s] :
         \/ DeleteNote(s, n)
         \/ \E op \in Way(Other(s)) : op.kind = "delete" /\ op.arg = n

LEMMA NextOut ==
  ASSUME WireTypeOK(Operation), Rows, [Next]_vars
  PROVE  OutSteps
<1>1. ASSUME revealed' = revealed, deleted' = deleted
      PROVE  OutSteps
  BY <1>1 DEF OutSteps
<1>2. ASSUME NEW s \in Side, NEW x \in Attempt, Disclose(s, x)
      PROVE  OutSteps
  <2>1. revealed' = [revealed EXCEPT ![s] = @ \cup {drawn[s][x]}] /\ deleted' = deleted
    BY <1>2 DEF Disclose
  <2> QED
    BY <2>1 DEF OutSteps, Rows, RowType
<1>3. ASSUME NEW s \in Side, ApplyNext(s)
      PROVE  OutSteps
  <2>1. PICK op \in Way(Other(s)) : op \in Operation /\ ApplyCrdtOp(s, op)
    BY <1>3, Arrival
  <2>2. CASE ApplyVerify(s, op) \/ ApplyReveal(s, op)
    <3>1. /\ op.kind \in {"verify", "reveal"} /\ deleted' = deleted
          /\ revealed' = [revealed EXCEPT ![s] = @ \cup {op.arg}]
      BY <2>2 DEF ApplyVerify, ApplyReveal
    <3> QED
      BY <2>1, <3>1 DEF OutSteps, Rows, RowType
  <2>3. CASE ApplyDelete(s, op)
    <3>1. /\ op.kind = "delete" /\ revealed' = revealed
          /\ deleted' = [deleted EXCEPT ![s] = @ \cup {op.arg}]
      BY <2>3 DEF ApplyDelete
    <3> QED
      BY <2>1, <3>1 DEF OutSteps, Rows, RowType
  <2>4. CASE ~(ApplyVerify(s, op) \/ ApplyReveal(s, op) \/ ApplyDelete(s, op))
    BY <1>1, <2>1, <2>4 DEF ApplyCrdtOp, ApplyStart, ApplyReroll, ApplySubmit, ApplyReject,
                            ApplyCancel, ApplyUncancel, ApplyReflect, ApplyLedger
  <2> QED
    BY <2>2, <2>3, <2>4
<1>4. ASSUME NEW s \in Side, NEW x \in Attempt, Act(s, x), ~Disclose(s, x)
      PROVE  OutSteps
  BY <1>1, <1>4 DEF Act, StartCommit, CreateAttempt, RerollUnlock, RerollCutShort, SubmitUnlock,
                    CancelUnlock, UncancelUnlock, RejectUnlock, VerifyUnlock, VerifyCommit,
                    ReflectOnUnlock, rows
<1>5. CASE Aside
  BY <1>1, <1>5 DEF Aside, Midnight, StartUnlock, Sync, StartSkip, VerifySkip, rows
<1>6. ASSUME NEW s \in Side, NEW x \in Attempt, NEW reason \in Reason, Award(s, x, reason)
      PROVE  OutSteps
  BY <1>1, <1>6 DEF Award
<1>7. CASE UNCHANGED vars
  BY <1>1, <1>7 DEF vars, rows
<1>8. ASSUME NEW s \in Side, NEW n \in Note, DeleteNote(s, n)
      PROVE  OutSteps
  <2>1. deleted' = [deleted EXCEPT ![s] = @ \cup {n}] /\ revealed' = revealed
    BY <1>8 DEF DeleteNote
  <2> QED
    BY <1>8, <2>1 DEF OutSteps, Rows, RowType
<1>9. ASSUME NEW s \in Side, NEW n \in Note, RevealSecretNote(s, n)
      PROVE  OutSteps
  <2>1. revealed' = [revealed EXCEPT ![s] = @ \cup {n}] /\ deleted' = deleted
    BY <1>9 DEF RevealSecretNote
  <2> QED
    BY <1>9, <2>1 DEF OutSteps, Rows, RowType
<1> QED
  BY <1>2, <1>3, <1>4, <1>5, <1>6, <1>7, <1>8, <1>9 DEF Next, Aside

LEMMA NextHand ==
  ASSUME WireTypeOK(Operation), Rows, LocalType, HandInv, [Next]_vars
  PROVE  HandInv'
<1>1. WaySteps /\ OutSteps
  BY NextWay, NextOut
<1> SUFFICES ASSUME NEW s \in Side, NEW op \in Way(s)'
             PROVE  /\ op.kind \in NoteKind => Author[op.arg] = s
                    /\ op.kind = "reveal" => op.arg \in revealed'[s]
                    /\ op.kind = "delete" => op.arg \in deleted'[s]
  BY DEF HandInv
<1>2. CASE op \in Way(s)
  BY <1>1, <1>2 DEF HandInv, OutSteps
<1>3. CASE Issues(s, op)
  BY <1>3 DEF Issues, NoteKind, DeleteNote, RevealSecretNote, Rows, RowType
<1> QED
  BY <1>1, <1>2, <1>3 DEF WaySteps

(* A draw on its way is of the sender's notes.                             *)
LEMMA DrawOnWay ==
  ASSUME WireTypeOK(Operation), Draws, NEW s \in Side, NEW op \in Way(s), op.kind = "verify"
  PROVE  /\ op.x \in Attempt /\ op.arg \in Note /\ Author[op.arg] = s
         /\ drawn[s][op.x] = op.arg
<1>1. op.x \in Attempt /\ op.arg \in Note
  BY WayType, OperationFacts DEF NoteKind
<1>2. AuthorOf(op.x) = s /\ drawn[s][op.x] = op.arg
  BY DEF Draws, DrawInv
<1> QED
  BY <1>1, <1>2, NoneApart DEF Draws, DrawInv

LEMMA NextKnown ==
  ASSUME WireTypeOK(Operation), Rows, LocalType, Draws, Calls, KnownInv, Rows', [Next]_vars
  PROVE  KnownInv'
<1>1. OutSteps /\ DrawSteps
  BY NextOut, NextDraw
<1> SUFFICES ASSUME NEW x \in Attempt, state'[Unlocker[x]][x] = "revealed"
             PROVE  drawn'[Unlocker[x]][x] \in revealed'[Unlocker[x]]
  BY DEF KnownInv
<1>2. PICK u \in Side : u = Unlocker[x] /\ AuthorOf(x) # u
  BY Partners, OtherSide
<1>3. drawn'[u][x] \in Note
  BY <1>2 DEF Rows, RowInv
<1>4. CASE drawn'[u][x] = drawn[u][x]
  <2>1. state[u][x] = "revealed"
    BY <1>2, <1>3, <1>4 DEF Rows, RowInv
  <2> QED
    BY <1>1, <1>2, <1>4, <2>1 DEF KnownInv, OutSteps
<1>5. ~VerifyCommit(u, x, drawn'[u][x])
  BY <1>2, CommitFacts
<1> QED
  BY <1>1, <1>2, <1>4, <1>5 DEF DrawSteps

(* Who activates an attempt of the Unlocker u: nobody else.                *)
Activates(u, x) ==
  \/ state[u][x] \in Active
  \/ \E p \in Prompt, c \in DOMAIN calls[u] : StartCommit(u, c, x, p)
  \/ UncancelUnlock(u, x)

LEMMA NextActive ==
  ASSUME WireTypeOK(Operation), Rows, LocalType, Starts, [Next]_vars,
         NEW u \in Side, NEW x \in Attempt, Unlocker[x] = u, state'[u][x] \in Active
  PROVE  Activates(u, x)
<1>1. ASSUME state' = state
      PROVE  Activates(u, x)
  BY <1>1 DEF Activates
<1>2. ASSUME NEW s \in Side, NEW y \in Attempt,
             \/ \E p \in Prompt, c \in DOMAIN calls[s] : StartCommit(s, c, y, p)
             \/ SubmitUnlock(s, y) \/ CancelUnlock(s, y) \/ UncancelUnlock(s, y)
             \/ RejectUnlock(s, y) \/ \E n \in Note : VerifyCommit(s, y, n)
      PROVE  Activates(u, x)
  <2>1. PICK v \in State : state' = [state EXCEPT ![s][y] = v]
    BY <1>2 DEF StartCommit, CreateAttempt, SubmitUnlock, CancelUnlock, UncancelUnlock,
                RejectUnlock, VerifyCommit, State
  <2>2. \A q \in Side, z \in Attempt : q # s \/ z # y => state'[q][z] = state[q][z]
    BY <2>1, SetAt DEF Rows, RowType
  <2>3. CASE s # u \/ y # x
    BY <2>2, <2>3 DEF Activates
  <2>4. CASE s = u /\ y = x
    BY <1>2, <2>4 DEF Activates, SubmitUnlock, CancelUnlock, RejectUnlock, VerifyCommit,
                      OffersTask, OffersCancel, OffersVerdict, Active
  <2> QED
    BY <2>3, <2>4
<1>3. ASSUME NEW s \in Side, NEW y \in Attempt,
             \/ \E p \in Redrawn : RerollUnlock(s, y, p) \/ RerollCutShort(s, y, p)
             \/ Disclose(s, y) \/ ReflectOnUnlock(s, y) \/ \E n \in Note : VerifyUnlock(s, y, n)
             \/ \E reason \in Reason : Award(s, y, reason)
      PROVE  Activates(u, x)
  BY <1>1, <1>3 DEF RerollUnlock, RerollCutShort, Disclose, ReflectOnUnlock, VerifyUnlock, Award,
                    rows
<1>4. ASSUME NEW s \in Side, ApplyNext(s)
      PROVE  Activates(u, x)
  <2>1. PICK op \in Way(Other(s)) : op \in Operation /\ ApplyCrdtOp(s, op)
    BY <1>4, Arrival
  <2>0. CASE op.kind \in NoteKind
    BY <1>1, <2>0, <2>1 DEF ApplyCrdtOp, ApplyStart, ApplyReroll, ApplySubmit, ApplyReject,
                ApplyVerify, ApplyCancel, ApplyUncancel, ApplyReflect, ApplyLedger, ApplyDelete,
                ApplyReveal, NoteKind
  <2> SUFFICES ASSUME op.kind \notin NoteKind
               PROVE  Activates(u, x)
    BY <2>0
  <2>2. op.x \in Attempt /\ (op.kind \in {"start", "uncancel"} => Unlocker[op.x] # s)
    BY <2>1, OperationFacts, OtherSide DEF Starts, StartInv
  <2>3. \A q \in Side, y \in Attempt : q # s \/ y # op.x => state'[q][y] = state[q][y]
    BY <2>1, <2>2 DEF ApplyCrdtOp, ApplyStart, ApplyReroll, ApplySubmit, ApplyReject, ApplyVerify,
                ApplyCancel, ApplyUncancel, ApplyReflect, ApplyLedger, ApplyDelete, ApplyReveal,
                Move, Rows, RowType
  <2>4. Unlocker[op.x] = s /\ state'[s][op.x] \in Active => state[s][op.x] \in Active
    BY <2>1, <2>2 DEF ApplyCrdtOp, ApplyStart, ApplyReroll, ApplySubmit, ApplyReject, ApplyVerify,
                ApplyCancel, ApplyUncancel, ApplyReflect, ApplyLedger, ApplyDelete, ApplyReveal,
                Move, Rows, RowType, Active
  <2> QED
    BY <2>3, <2>4 DEF Activates
<1>5. CASE Aside
  BY <1>1, <1>5 DEF Aside, Midnight, StartUnlock, Sync, StartSkip, VerifySkip, rows
<1>6. CASE UNCHANGED vars
  BY <1>1, <1>6 DEF vars, rows
<1>7. ASSUME NEW s \in Side, NEW n \in Note, TakesOut(s, n)
      PROVE  Activates(u, x)
  BY <1>1, <1>7 DEF TakesOut, DeleteNote, RevealSecretNote
<1> QED
  BY <1>2, <1>3, <1>4, <1>5, <1>6, <1>7 DEF Next, Act, Aside, TakesOut

(* What is left is not drawn: the Unlocker has every other attempt behind  *)
(* them, and knows the secrets of those.                                   *)
LEMMA LeftUndrawn ==
  ASSUME Rows, Draws, InTurn, OneAttemptAtATime, KnownInv, InOrder, canceledOnce = {},
         NEW x \in Attempt, state[Unlocker[x]][x] \in Active, drawn[AuthorOf(x)][x] = "none",
         NEW n \in Left(Unlocker[x]), NEW y \in Attempt
  PROVE  drawn[AuthorOf(x)][y] # n
<1> SUFFICES ASSUME drawn[AuthorOf(x)][y] = n PROVE FALSE
  OBVIOUS
<1>1. PICK u \in Side, v \in Side :
        /\ u = Unlocker[x] /\ v = AuthorOf(x) /\ Other(v) = u /\ Other(u) = v /\ u # v
  BY Partners, OtherSide
<1>2. n \in Note /\ Author[n] = v /\ n \notin revealed[u]
  BY <1>1 DEF Left, Pool
<1>3. AuthorOf(y) = v /\ Unlocker[y] = u
  BY <1>1, <1>2, Partners, NoneApart DEF Draws, DrawInv
<1>4. state[v][y] = "revealed"
  BY <1>1, <1>2 DEF Rows, RowInv
<1>5. Turn(state[u][y], "revealed", Tasks(y), Verdicts(y))
  BY <1>3, <1>4 DEF InTurn, Agreed
<1>6. state[u][y] \in {"revealed", "submitted"}
  BY <1>5 DEF Turn, UnlockersTurn, AuthorsTurn
<1>7. y # x
  BY <1>1, <1>2, NoneApart
<1>8. state[u][y] = "revealed"
  BY <1>1, <1>3, <1>6, <1>7 DEF Active, OneAttemptAtATime
<1>9. drawn[u][y] \in revealed[u] /\ drawn[u][y] \in Note
  BY <1>3, <1>8 DEF KnownInv, Rows, RowInv
<1>10. drawn[u][y] = n
  BY <1>1, <1>3, <1>9, NoneApart DEF Draws, DrawInv
<1> QED
  BY <1>2, <1>9, <1>10

(* It is there until the Author takes it out by hand.                      *)
LEMMA LeftStays ==
  ASSUME WireTypeOK(Operation), Rows, Draws, HandInv, OutSteps,
         NEW u \in Side, NEW n \in Left(u), \A y \in Attempt : drawn[Other(u)][y] # n
  PROVE  n \in Left(u)' \/ TakesOut(Other(u), n)
<1>1. PICK v \in Side : v = Other(u) /\ Other(v) = u /\ u # v
  BY OtherSide
<1>2. /\ n \in Note /\ Author[n] = v
      /\ \A q \in {u, v} : n \notin revealed[q] /\ n \notin deleted[q]
  BY <1>1 DEF Left, Pool
<1>3. \A op \in Way(u) : op.kind \in NoteKind \cup {"verify"} => op.arg # n
  BY <1>1, <1>2, DrawOnWay DEF HandInv
<1>4. \A op \in Way(v) : op.kind \in NoteKind \cup {"verify"} => op.arg # n
  BY <1>1, <1>2, DrawOnWay DEF HandInv, NoteKind
<1>5. \A y \in Attempt : drawn[u][y] # n
  <2> SUFFICES ASSUME NEW y \in Attempt, drawn[u][y] = n PROVE FALSE
    OBVIOUS
  <2>1. AuthorOf(y) = v
    BY <1>1, <1>2, NoneApart DEF Draws, DrawInv
  <2>2. Unlocker[y] = u
    BY <1>1, <2>1, Partners
  <2> QED
    BY <1>1, <1>2, <2>2, NoneApart DEF Draws, DrawInv
<1>6. n \notin revealed'[u] /\ n \notin deleted'[u]
  BY <1>1, <1>2, <1>4, <1>5 DEF OutSteps, RevealSecretNote, DeleteNote, NoteKind
<1>7. TakesOut(v, n) \/ (n \notin revealed'[v] /\ n \notin deleted'[v])
  BY <1>1, <1>2, <1>3 DEF OutSteps, TakesOut, NoteKind
<1> QED
  BY <1>1, <1>2, <1>6, <1>7 DEF Left, Pool

LEMMA NextLeft ==
  ASSUME WireTypeOK(Operation), Rows, LocalType, HistoryType, Starts, Draws, OneAttemptAtATime,
         Sent, InTurn, KnownInv, HandInv, LeftInv, [Next]_vars
  PROVE  LeftInv'
<1> SUFFICES ASSUME InOrder', canceledOnce' = {}, NEW x \in Attempt, x \notin starved',
                    state'[Unlocker[x]][x] \in Active, drawn'[AuthorOf(x)][x] = "none"
             PROVE  Left(Unlocker[x])' # {}
  BY DEF LeftInv
<1>1. PICK u \in Side, v \in Side :
        /\ u = Unlocker[x] /\ v = AuthorOf(x) /\ Other(v) = u /\ Other(u) = v /\ u # v
  BY Partners, OtherSide
<1>2. InOrder /\ canceledOnce = {} /\ x \notin starved
  BY NextHistory DEF HistorySteps
<1>3. drawn[v][x] = "none"
  BY <1>1, DrawnStays, NextDraw
<1>4. CASE state[u][x] \in Active
  <2>1. Left(u) # {}
    BY <1>1, <1>2, <1>3, <1>4 DEF LeftInv
  <2>2. ASSUME NEW n \in Left(u) PROVE n \in Left(u)' \/ TakesOut(v, n)
    <3>1. \A y \in Attempt : drawn[v][y] # n
      BY <1>1, <1>2, <1>3, <1>4, LeftUndrawn
    <3> QED
      BY <1>1, <3>1, LeftStays, NextOut
  <2>3. ASSUME NEW n \in Note, TakesOut(v, n) PROVE Left(u)' # {}
    <3>1. ~(Left(u) \subseteq {n})
      BY <1>1, <2>3 DEF TakesOut, DeleteNote, RevealSecretNote, TakeOut
    <3>2. PICK m \in Left(u) : m # n
      BY <3>1
    <3>3. \/ deleted' = [deleted EXCEPT ![v] = @ \cup {n}] /\ revealed' = revealed
          \/ revealed' = [revealed EXCEPT ![v] = @ \cup {n}] /\ deleted' = deleted
      BY <2>3 DEF TakesOut, DeleteNote, RevealSecretNote
    <3>4. m \in Left(u)'
      BY <1>1, <3>2, <3>3 DEF Left, Pool, Rows, RowType
    <3> QED
      BY <3>4
  <2>4. Left(u) \subseteq Note
    BY DEF Left, Pool
  <2> QED
    BY <1>1, <2>1, <2>2, <2>3, <2>4
<1>5. ASSUME NEW p \in Prompt, NEW c \in DOMAIN calls[u], StartCommit(u, c, x, p)
      PROVE  Left(u)' # {}
  <2>1. Left(u) # {} /\ revealed' = revealed /\ deleted' = deleted
    BY <1>5 DEF StartCommit, CreateAttempt
  <2> QED
    BY <2>1 DEF Left, Pool
<1>6. ~UncancelUnlock(u, x)
  BY <1>2 DEF UncancelUnlock, OffersUndo, Sent, SentInv
<1> QED
  BY <1>1, <1>4, <1>5, <1>6, NextActive DEF Activates

LEMMA InitLeft == Init => KnownInv /\ HandInv /\ LeftInv
<1> SUFFICES ASSUME Init PROVE KnownInv /\ HandInv /\ LeftInv
  OBVIOUS
<1>1. \A s \in Side, x \in Attempt : state[s][x] = "absent"
  BY DEF Init
<1>2. HandInv
  BY WireInitWay DEF Init, HandInv
<1> QED
  BY <1>1, <1>2, Partners DEF KnownInv, LeftInv, Active

LEMMA SomeoneMoves ==
  ASSUME WireTypeOK(Operation), Rows, Draws, Reflections, OneAttemptAtATime, InTurn, KnownInv,
         LeftInv
  PROVE  SomeonesMove
<1> SUFFICES ASSUME Settled, ~reordered, canceledOnce = {}, NEW x \in Attempt,
                    state[Unlocker[x]][x] # "absent", ~(\A s \in Side : Complete(s, x))
             PROVE  \E s \in Side : NeedsYou(s, x) /\ (CanAct(s, x) \/ x \in starved)
  BY DEF SomeonesMove
<1>1. PICK u \in Side, v \in Side :
        /\ u = Unlocker[x] /\ v = AuthorOf(x) /\ Other(v) = u /\ Other(u) = v /\ u # v
        /\ \A q \in Side : q \in {u, v}
  BY Partners, OtherSide
<1>2. InOrder /\ state[u][x] = state[v][x]
  BY <1>1, SettledInOrder
<1>3. state[u][x] \in {"assigned", "returned", "submitted", "revealed"}
  BY <1>1, SettledInOrder
<1>4. CASE state[u][x] \in {"assigned", "returned"}
  BY <1>1, <1>4 DEF NeedsYou, CanAct
<1>5. CASE state[u][x] = "submitted"
  <2>1. drawn[v][x] = "none"
    <3>1. drawn[v][x] \in Note \cup {"none"} /\ state[v][x] # "revealed"
      BY <1>2, <1>5 DEF Rows, RowType
    <3> QED
      BY <3>1 DEF Rows, RowInv
  <2>2. CASE x \in starved
    BY <1>1, <1>2, <1>5, <2>2 DEF NeedsYou
  <2>3. ASSUME x \notin starved
        PROVE  Candidates(v) # {}
    <3>1. state[u][x] \in Active
      BY <1>5 DEF Active
    <3>2. PICK n \in Left(u) : TRUE
      BY <1>1, <1>2, <2>1, <2>3, <3>1 DEF LeftInv
    <3>3. \A y \in Attempt : drawn[v][y] # n
      BY <1>1, <1>2, <2>1, <3>1, <3>2, LeftUndrawn
    <3>4. n \in Candidates(v)
      BY <1>1, <3>2, <3>3 DEF Left, Pool, Candidates
    <3> QED
      BY <3>4
  <2> QED
    BY <1>1, <1>2, <1>5, <2>2, <2>3 DEF NeedsYou, CanAct
<1>6. CASE state[u][x] = "revealed"
  <2>1. PICK s \in Side, q \in Side : <<x, q>> \notin reflected[s]
    BY DEF Complete
  <2>2. \A p \in Side : Way(p) = {}
    BY DrainedWay DEF Settled
  <2>3. <<x, q>> \notin reflected[q]
    BY <1>1, <2>1, <2>2 DEF Reflections, ReflectInv
  <2> QED
    BY <1>1, <1>2, <1>6, <2>3 DEF NeedsYou, CanAct
<1> QED
  BY <1>3, <1>4, <1>5, <1>6

-----------------------------------------------------------------------------
(* The theorems.                                                           *)

(* Everything TypeOK says, that a row has a prompt from its creation and a *)
(* secret exactly when it is revealed included.                            *)
THEOREM SecretUnlockTypeOK == Spec => []TypeOK
<1>1. WireTypeOK(Operation) /\ Rows /\ LocalType /\ HistoryType => TypeOK
  BY DEF Rows, RowType, RowInv, LocalType, HistoryType, TypeOK
<1> QED
  BY <1>1, InitAll, NextType, PTL DEF Spec

(* However many calls of startUnlock overlap, in whatever order they come  *)
(* to their transactions and whatever is undone meanwhile, an Unlocker has *)
(* one attempt at a time and starts one a day: the guards are read again   *)
(* inside the transaction (store.ts 292-294), and no operation of the      *)
(* partner activates an attempt of one's own.                              *)
THEOREM SecretUnlockOneAttemptAtATime == Spec => []OneAttemptAtATime
  BY InitAll, NextType, NextStarts, NextOne, PTL DEF Spec

(* The invariant of the next three theorems: whatever order operations     *)
(* come in.                                                                *)
Base ==
  /\ WireTypeOK(Operation) /\ Rows /\ LocalType /\ HistoryType
  /\ Starts /\ Draws /\ Calls /\ Present /\ Reflections /\ OneAttemptAtATime
  /\ Sent /\ InTurn

LEMMA InitBase == Init => Base
  BY InitAll, InitTurn DEF Base

LEMMA NextBase == Base /\ [Next]_vars => Base'
  BY NextType, NextStarts, NextDraws, NextCalls, NextPresent, NextReflections, NextOne, NextTurn
     DEF Base

(* One secret is drawn for two attempts, on either phone, only if one of   *)
(* them was canceled at some time and two calls of verifyUnlock crossed:   *)
(* nothing but the pool read before the transaction (store.ts 446-471)     *)
(* makes it happen, in whatever order and however often operations arrive, *)
(* although a draw stays unrevealed on the Author's phone.                 *)
THEOREM SecretUnlockDrawnOnce == Spec => []DrawnOnce
<1>1. Base /\ Base' /\ Twice /\ [Next]_vars => Twice'
  BY NextTwice DEF Base
<1>2. Base /\ Twice => DrawnOnce
  BY DrawsOnce DEF Base
<1> QED
  BY <1>1, <1>2, InitBase, InitTwice, NextBase, PTL DEF Spec

(* Reflections and points are with the partner as soon as nothing is on    *)
(* its way, in whatever order and however often they arrived, and each     *)
(* award is counted once on both phones.                                   *)
THEOREM SecretUnlockAddOnlySettles == Spec => []AddOnlySettles
  BY InitAll, NextType, NextReflections, NextAwards, AddOnly, PTL DEF Spec

(* As long as operations are applied once and in the order they were       *)
(* issued, the rows of an attempt that was never canceled agree as soon as *)
(* nothing is on its way: in state, drawn secret and, unless a re-roll was *)
(* cut short, prompt.  The guarded UPDATEs of the projector never skip one *)
(* of them.                                                                *)
THEOREM SecretUnlockLoopSettlesInOrder == Spec => []LoopSettlesInOrder
<1>1. Base => LoopSettlesInOrder
  BY LoopAgrees DEF Base
<1> QED
  BY <1>1, InitBase, NextBase, PTL DEF Spec

(* In order and with nothing canceled, the loop never waits for nobody:    *)
(* every attempt the two have not both reflected on is listed as waiting   *)
(* for a partner who can take the next step; the Author of a submission    *)
(* has a secret to draw for it, unless there was none left when it was     *)
(* created or the Author has deleted or revealed the last by hand since.   *)
THEOREM SecretUnlockSomeonesMove == Spec => []SomeonesMove
<1> DEFINE Lefts == KnownInv /\ HandInv /\ LeftInv
<1>1. Init => Lefts
  BY InitLeft
<1>2. Base /\ Base' /\ Lefts /\ [Next]_vars => Lefts'
  BY NextKnown, NextHand, NextLeft DEF Base
<1>3. Base /\ Lefts => SomeonesMove
  BY SomeoneMoves DEF Base
<1> HIDE DEF Lefts
<1> QED
  BY <1>1, <1>2, <1>3, InitBase, NextBase, PTL DEF Spec

=============================================================================

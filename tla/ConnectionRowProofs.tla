------------------------ MODULE ConnectionRowProofs ------------------------
(***************************************************************************)
(* Proofs about ConnectionRow, for any roles, grace windows, preferences   *)
(* and posts and any number of operations of each partner: what one phone  *)
(* holds of the other is what the other holds of itself, or the rest of it *)
(* is on its way.                                                          *)
(***************************************************************************)
EXTENDS ConnectionRow, WireProofs

-----------------------------------------------------------------------------
(* The inductive invariant.                                                *)

(* An operation carries what its kind writes, and its number is its own.   *)
Payload(op) ==
  /\ op.kind = "role.set" => op.arg \in Role
  /\ op.kind = "sever.schedule" => op.at \in 0 .. MaxNow
  /\ op.kind = "prompt_preference.set" => [at |-> op.at, set |-> op.arg] \in Preference
  /\ op.kind = "saved_post.add" => op.arg \in Post

SentInv(s) ==
  /\ \A op \in Way(s) : Payload(op) /\ op.num <= issued[s]
  /\ \A o, p \in Way(s) : o.num = p.num => o = p

Sent == \A s \in Side : SentInv(s)

(* An operation on its way would be applied after a newer one. *)
Behind(s) == \E op \in Way(s) : op.num < newest[Other(s)]

InOrder(s) == ~reordered[Other(s)] /\ ~Behind(s)

LastOf(S, op) == op \in S /\ \A o \in S : o.num <= op.num

(* The role of s is the last one told, or the partner has it.              *)
RoleOps(s) == {op \in Way(s) : op.kind = "role.set"}

RoleInv(s) ==
  BothHere /\ InOrder(s) =>
    \/ RoleOps(s) = {} /\ role[Other(s)][s] = role[s][s]
    \/ \E op \in RoleOps(s) : LastOf(RoleOps(s), op) /\ op.arg = role[s][s]

(* Only s has changed the pending sever since both phones agreed: its row  *)
(* is what its last operation on its way says, and an undo that is applied *)
(* next does not meet a sever of the partner.                              *)
SeverOps(s) == {op \in Way(s) : op.kind \in {"sever.schedule", "sever.cancel"}}

Says(s, op) ==
  \/ op.kind = "sever.schedule" /\ initiatedBy[s] = s /\ severAt[s] = op.at
  \/ op.kind = "sever.cancel" /\ initiatedBy[s] = "none" /\ severAt[s] = Never

Leads(s) ==
  /\ SeverOps(Other(s)) = {}
  /\ \/ SeverOps(s) = {} /\ SeverAgrees
     \/ \E op \in SeverOps(s) : LastOf(SeverOps(s), op) /\ Says(s, op)
  /\ \A op \in SeverOps(s) :
       op.kind = "sever.cancel" /\ initiatedBy[Other(s)] = Other(s) =>
         \E o \in SeverOps(s) : o.kind = "sever.schedule" /\ o.num < op.num

SeverInv ==
  BothHere /\ ~crossed /\ (\A s \in Side : InOrder(s)) => \E s \in Side : Leads(s)

(* The partner's preferences are never ahead; the stamp tells them apart.  *)
PrefOf(op) == [at |-> op.at, set |-> op.arg]

Told(s) == {PrefOf(op) : op \in {o \in Way(s) : o.kind = "prompt_preference.set"}}
             \cup {p \in {unsent[s]} : p # NoPreference}

PrefInv(s) ==
  /\ prefs[s][s].at <= now + 1
  /\ BothHere /\ ~tied[s] /\ ~cut[s] =>
       /\ \A p \in Told(s) \cup {prefs[Other(s)][s]} :
            p.at < prefs[s][s].at \/ p = prefs[s][s]
       /\ prefs[s][s] \in Told(s) \cup {prefs[Other(s)][s]}

(* A bookmark is one's only one of its post, and with the partner or on    *)
(* its way.                                                                *)
ShelfInv(s) ==
  /\ \A b, c \in saved[s] : b.by = s /\ c.by = s /\ b.post = c.post => b = c
  /\ BothHere =>
       \A b \in saved[s] : b.by = s =>
         \/ b \in saved[Other(s)]
         \/ \E op \in Way(s) : op.kind = "saved_post.add" /\ op.num = b.num /\ op.arg = b.post

IInv ==
  /\ TypeOK /\ Sent /\ SeverInv
  /\ \A s \in Side : RoleInv(s) /\ PrefInv(s) /\ ShelfInv(s)

-----------------------------------------------------------------------------
(* Types.                                                                  *)

RowType ==
  /\ role \in [Side -> [Side -> Role \cup {"none"}]]
  /\ initiatedBy \in [Side -> Side \cup {"none"}]
  /\ severAt \in [Side -> Nat]
  /\ wiped \in [Side -> BOOLEAN] /\ undoing \in [Side -> BOOLEAN]
  /\ \A s \in Side : severAt[s] = Never <=> initiatedBy[s] = "none"

TasteType ==
  /\ prefs \in [Side -> [Side -> Preference]] /\ unsent \in [Side -> Preference]
  /\ now \in 0 .. MaxNow

ShelfType ==
  saved \in [Side -> SUBSET Bookmark] /\ saving \in [Side -> [Post -> 0 .. MaxTaps]]

CountType ==
  /\ mix \in Mixes
  /\ issued \in [Side -> 0 .. MaxOps] /\ newest \in [Side -> 0 .. MaxOps]
  /\ reordered \in [Side -> BOOLEAN] /\ crossed \in BOOLEAN
  /\ tied \in [Side -> BOOLEAN] /\ cut \in [Side -> BOOLEAN]

Types == WireTypeOK(Operation) /\ RowType /\ TasteType /\ ShelfType /\ CountType

LEMMA TypeParts == TypeOK <=> Types
  BY DEF TypeOK, Types, RowType, TasteType, ShelfType, CountType

LEMMA Constants ==
  /\ MaxOps \in Nat /\ MaxTaps \in Nat /\ MaxNow \in Nat /\ Grace \subseteq Nat
  /\ Mixes \subseteq [Side -> SUBSET Kind]
  BY ConnectionRowAssumption DEF ConnectionRowAssumption

LEMMA NoPreferenceType == NoPreference \in Preference
  BY Constants DEF NoPreference, Preference

(* A queued operation gets the next number of its phone.                   *)
LEMMA IssueWay ==
  ASSUME WireTypeOK(Operation), CountType, NEW s \in Side, NEW kind, NEW at \in Nat,
         NEW arg \in Role \cup Choice \cup Post \cup {"none"}, Issue(s, kind, arg, at)
  PROVE  LET op == [kind |-> kind, num |-> issued[s] + 1, arg |-> arg, at |-> at]
         IN  /\ WireTypeOK(Operation)' /\ op \in Operation
             /\ Way(s)' = Way(s) \cup {op} /\ Way(Other(s))' = Way(Other(s))
             /\ issued' = [issued EXCEPT ![s] = @ + 1] /\ issued' \in [Side -> 0 .. MaxOps]
             /\ issued[s] + 1 \in 1 .. MaxOps /\ ~wiped[s]
<1> DEFINE op == [kind |-> kind, num |-> issued[s] + 1, arg |-> arg, at |-> at]
<1>1. kind \in Kind
  BY Constants DEF Issue, CountType
<1>2. issued[s] \in 0 .. MaxOps /\ issued[s] < MaxOps
  BY DEF Issue, CountType
<1>3. issued[s] + 1 \in 1 .. MaxOps
  BY <1>2, Constants
<1>4. op \in Operation
  BY <1>1, <1>3 DEF Operation
<1>5. issued' = [issued EXCEPT ![s] = @ + 1] /\ Queue(s, op) /\ ~wiped[s]
  BY DEF Issue
<1>6. issued' \in [Side -> 0 .. MaxOps]
  BY <1>3, <1>5 DEF CountType
<1> HIDE DEF op
<1>7. /\ WireTypeOK(Operation)'
      /\ Way(s)' = Way(s) \cup {op} /\ Way(Other(s))' = Way(Other(s))
  BY <1>4, <1>5, QueueWay
<1> QED
  BY <1>3, <1>4, <1>5, <1>6, <1>7 DEF op

-----------------------------------------------------------------------------
(* Steps, as what is on its way and the order it is applied in see them.   *)

(* Nothing is issued, applied or erased. *)
Local ==
  /\ \A s \in Side : Way(s)' = Way(s)
  /\ UNCHANGED <<role, initiatedBy, severAt, wiped, mix, issued, newest, reordered, crossed>>

Issues(s, op) ==
  /\ op \in Operation /\ op.num = issued[s] + 1 /\ Payload(op)
  /\ Way(s)' = Way(s) \cup {op} /\ Way(Other(s))' = Way(Other(s))
  /\ issued' = [issued EXCEPT ![s] = @ + 1]
  /\ UNCHANGED <<wiped, mix, newest, reordered>>

(* The partner of s applies an operation of s. *)
Applies(s, op) ==
  /\ op \in Operation /\ op \in Way(s)
  /\ Way(s)' \subseteq Way(s) /\ Way(s) \subseteq Way(s)' \cup {op}
  /\ Way(Other(s))' = Way(Other(s))
  /\ ApplyCrdtOp(Other(s), op)
  /\ newest' = [newest EXCEPT ![Other(s)] = IF op.num > @ THEN op.num ELSE @]
  /\ reordered' = [reordered EXCEPT ![Other(s)] = @ \/ op.num < newest[Other(s)]]
  /\ UNCHANGED <<wiped, undoing, unsent, saving, mix, now, issued, crossed, tied, cut>>

Erases(s) ==
  /\ \A q \in Side : Way(q)' \subseteq Way(q)
  /\ wiped' = [wiped EXCEPT ![s] = TRUE]
  /\ UNCHANGED <<taste, shelf, mix, now, issued, history>>

Quiet(s) ==
  \/ Tick \/ CancelSever(s) \/ (\E p \in Post : SaveBegin(s, p) \/ SaveSkip(s, p))
  \/ Sync(s) \/ UNCHANGED vars

(* Only the clock, and calls in flight, change. *)
LEMMA QuietSteps ==
  ASSUME Types, NEW s \in Side, Quiet(s)
  PROVE  /\ Types' /\ Local
         /\ UNCHANGED <<taste, saved, tied, cut>> /\ now <= now'
<1> USE DEF Types, RowType, TasteType, ShelfType, CountType, Local, phone, row, taste, shelf,
            history
<1>1. CASE Tick
  <2>1. now' = now + 1 /\ now' \in 0 .. MaxNow
    BY <1>1, Constants DEF Tick
  <2>2. UNCHANGED <<wireVars, phone, issued, history>>
    BY <1>1 DEF Tick
  <2>3. WireTypeOK(Operation)' /\ \A q \in Side : Way(q)' = Way(q)
    BY <2>2, WireQuiet
  <2> QED
    BY <2>1, <2>2, <2>3
<1>2. CASE CancelSever(s)
  <2>1. UNCHANGED <<wireVars, row, taste, shelf, mix, now, issued, history>>
    BY <1>2 DEF CancelSever
  <2>2. undoing' \in [Side -> BOOLEAN]
    BY <1>2 DEF CancelSever
  <2>3. WireTypeOK(Operation)' /\ \A q \in Side : Way(q)' = Way(q)
    BY <2>1, WireQuiet
  <2> QED
    BY <2>1, <2>2, <2>3
<1>3. CASE \E p \in Post : SaveBegin(s, p) \/ SaveSkip(s, p)
  <2>1. UNCHANGED <<wireVars, row, undoing, taste, saved, mix, now, issued, history>>
    BY <1>3 DEF SaveBegin, SaveSkip
  <2>2. saving' \in [Side -> [Post -> 0 .. MaxTaps]]
    <3>1. PICK p \in Post : SaveBegin(s, p) \/ SaveSkip(s, p)
      BY <1>3
    <3>2. saving[s] \in [Post -> 0 .. MaxTaps] /\ saving[s][p] \in 0 .. MaxTaps
      OBVIOUS
    <3>3. CASE SaveBegin(s, p)
      <4>1. saving[s][p] + 1 \in 0 .. MaxTaps
        BY <3>2, <3>3, Constants DEF SaveBegin
      <4>2. saving' = [saving EXCEPT ![s][p] = saving[s][p] + 1]
        BY <3>3 DEF SaveBegin
      <4> QED
        BY <3>2, <4>1, <4>2
    <3>4. CASE SaveSkip(s, p)
      <4>1. saving[s][p] - 1 \in 0 .. MaxTaps
        BY <3>2, <3>4, Constants DEF SaveSkip
      <4>2. saving' = [saving EXCEPT ![s][p] = saving[s][p] - 1]
        BY <3>4 DEF SaveSkip
      <4> QED
        BY <3>2, <4>1, <4>2
    <3> QED
      BY <3>1, <3>3, <3>4
  <2>3. WireTypeOK(Operation)' /\ \A q \in Side : Way(q)' = Way(q)
    BY <2>1, WireQuiet
  <2> QED
    BY <2>1, <2>2, <2>3
<1>4. CASE Sync(s)
  <2>1. UNCHANGED <<phone, now, issued, history>> /\ WireStep(s)
    BY <1>4 DEF Sync
  <2>2. WireTypeOK(Operation)' /\ \A q \in Side : Way(q)' = Way(q)
    BY <2>1, WireStepWay
  <2> QED
    BY <2>1, <2>2
<1>5. CASE UNCHANGED vars
  <2>1. UNCHANGED <<wireVars, phone, now, issued, history>>
    BY <1>5 DEF vars
  <2>2. WireTypeOK(Operation)' /\ \A q \in Side : Way(q)' = Way(q)
    BY <2>1, WireQuiet
  <2> QED
    BY <2>1, <2>2
<1> QED
  BY <1>1, <1>2, <1>3, <1>4, <1>5 DEF Quiet

LEMMA SavePreferencesStep ==
  ASSUME Types, NEW s \in Side, NEW c \in Choice, SavePreferences(s, c)
  PROVE  /\ Types' /\ Local /\ UNCHANGED saved
         /\ [at |-> now + 1, set |-> c] \in Preference
<1> DEFINE p == [at |-> now + 1, set |-> c]
<1>1. p \in Preference
  BY Constants DEF Preference, Types, TasteType
<1>2. UNCHANGED <<wireVars, row, undoing, shelf, mix, now, issued, newest, reordered, crossed, cut>>
  BY DEF SavePreferences
<1>3. unsent' \in [Side -> Preference]
  BY <1>1 DEF SavePreferences, Types, TasteType
<1>4. prefs' \in [Side -> [Side -> Preference]]
  BY <1>1 DEF SavePreferences, Types, TasteType
<1>5. tied' \in [Side -> BOOLEAN]
  BY DEF SavePreferences, Types, CountType
<1>6. WireTypeOK(Operation)' /\ \A q \in Side : Way(q)' = Way(q)
  BY <1>2, WireQuiet DEF Types
<1> QED
  BY <1>1, <1>2, <1>3, <1>4, <1>5, <1>6
     DEF Types, RowType, TasteType, ShelfType, CountType, Local, row, shelf

LEMMA SaveCutShortStep ==
  ASSUME Types, NEW s \in Side, SaveCutShort(s)
  PROVE  Types' /\ Local /\ UNCHANGED saved
<1>1. UNCHANGED <<outbox, inbox, page, posted, row, undoing, prefs, shelf, mix, now, issued,
                  newest, reordered, crossed, tied>>
  BY DEF SaveCutShort
<1>2. unsent' \in [Side -> Preference] /\ cut' \in [Side -> BOOLEAN]
  BY NoPreferenceType DEF SaveCutShort, Types, TasteType, CountType
<1>3. faults' \in Nat
  BY DEF SaveCutShort, WireFault, Types, WireTypeOK
<1>4. WireTypeOK(Operation)' /\ \A q \in Side : Way(q)' = Way(q)
  BY <1>1, <1>3 DEF Types, WireTypeOK, Way, OnRelay
<1> QED
  BY <1>1, <1>2, <1>4 DEF Types, RowType, TasteType, ShelfType, CountType, Local, row, shelf

LEMMA RemoveSavedStep ==
  ASSUME Types, NEW s \in Side, NEW b \in saved[s], RemoveSaved(s, b)
  PROVE  Types' /\ Local /\ UNCHANGED <<taste, now, tied, cut>>
<1>1. UNCHANGED <<wireVars, row, undoing, taste, saving, mix, now, issued, history>>
  BY DEF RemoveSaved
<1>2. saved' \in [Side -> SUBSET Bookmark]
  BY DEF RemoveSaved, Types, ShelfType
<1>3. WireTypeOK(Operation)' /\ \A q \in Side : Way(q)' = Way(q)
  BY <1>1, WireQuiet DEF Types
<1> QED
  BY <1>1, <1>2, <1>3
     DEF Types, RowType, TasteType, ShelfType, CountType, Local, row, taste, history

LEMMA IssueSteps ==
  ASSUME Types, NEW s \in Side, NEW kind, NEW at \in Nat,
         NEW arg \in Role \cup Choice \cup Post \cup {"none"}, Issue(s, kind, arg, at),
         Payload([kind |-> kind, num |-> issued[s] + 1, arg |-> arg, at |-> at]),
         UNCHANGED <<wiped, mix, newest, reordered>>
  PROVE  /\ WireTypeOK(Operation)' /\ issued' \in [Side -> 0 .. MaxOps]
         /\ issued[s] + 1 \in 1 .. MaxOps
         /\ Issues(s, [kind |-> kind, num |-> issued[s] + 1, arg |-> arg, at |-> at])
<1> DEFINE op == [kind |-> kind, num |-> issued[s] + 1, arg |-> arg, at |-> at]
<1>1. /\ WireTypeOK(Operation)' /\ op \in Operation
      /\ Way(s)' = Way(s) \cup {op} /\ Way(Other(s))' = Way(Other(s))
      /\ issued' = [issued EXCEPT ![s] = @ + 1] /\ issued' \in [Side -> 0 .. MaxOps]
      /\ issued[s] + 1 \in 1 .. MaxOps
  BY IssueWay DEF Types
<1>2. op.num = issued[s] + 1 /\ Payload(op)
  OBVIOUS
<1> HIDE DEF op
<1> QED
  BY <1>1, <1>2 DEF Issues, op

LEMMA SetMyRoleStep ==
  ASSUME Types, NEW s \in Side, NEW r \in Role, SetMyRole(s, r)
  PROVE  /\ Types'
         /\ \E op : Issues(s, op) /\ op.kind = "role.set" /\ op.arg = r
         /\ role' = [role EXCEPT ![s][s] = r]
         /\ UNCHANGED <<initiatedBy, severAt, taste, now, saved, crossed, tied, cut>>
<1> DEFINE op == [kind |-> "role.set", num |-> issued[s] + 1, arg |-> r, at |-> 0]
<1>1. Issue(s, "role.set", r, 0)
  BY DEF SetMyRole
<1>2. role' = [role EXCEPT ![s][s] = r]
  BY DEF SetMyRole
<1>3. UNCHANGED <<initiatedBy, severAt, wiped, undoing, taste, shelf, mix, now, history>>
  BY DEF SetMyRole
<1>4. Payload(op)
  BY DEF Payload
<1>5. /\ WireTypeOK(Operation)' /\ issued' \in [Side -> 0 .. MaxOps]
      /\ Issues(s, op)
  BY <1>1, <1>3, <1>4, IssueSteps DEF history
<1>6. role' \in [Side -> [Side -> Role \cup {"none"}]]
  BY <1>2 DEF Types, RowType
<1>7. Types'
  BY <1>3, <1>5, <1>6 DEF Types, RowType, TasteType, ShelfType, CountType, taste, shelf, history
<1> QED
  BY <1>2, <1>3, <1>5, <1>7 DEF history, shelf

LEMMA ScheduleSeverStep ==
  ASSUME Types, NEW s \in Side, NEW at \in 0 .. MaxNow, ScheduleSever(s, at)
  PROVE  /\ Types'
         /\ \E op : /\ Issues(s, op)
                    /\ op.kind = "sever.schedule" /\ op.at = at
         /\ initiatedBy' = [initiatedBy EXCEPT ![s] = s]
         /\ severAt' = [severAt EXCEPT ![s] = at]
         /\ crossed' = (crossed \/ Crosses(s))
         /\ UNCHANGED <<role, taste, now, saved, tied, cut>>
<1> DEFINE op == [kind |-> "sever.schedule", num |-> issued[s] + 1, arg |-> "none", at |-> at]
<1>1. Issue(s, "sever.schedule", "none", at)
  BY DEF ScheduleSever
<1>2. /\ initiatedBy' = [initiatedBy EXCEPT ![s] = s]
      /\ severAt' = [severAt EXCEPT ![s] = at]
      /\ crossed' = (crossed \/ Crosses(s))
  BY DEF ScheduleSever
<1>3. UNCHANGED <<role, wiped, undoing, taste, shelf, mix, now, newest, reordered, tied, cut>>
  BY DEF ScheduleSever
<1>4. Payload(op)
  BY DEF Payload
<1>5. /\ WireTypeOK(Operation)' /\ issued' \in [Side -> 0 .. MaxOps]
      /\ Issues(s, op)
  BY <1>1, <1>3, <1>4, IssueSteps, Constants
<1>6. RowType'
  BY <1>2, <1>3, Constants DEF Types, RowType, Never, Side
<1>7. crossed' \in BOOLEAN
  BY <1>2 DEF Types, CountType, Crosses
<1>8. Types'
  BY <1>3, <1>5, <1>6, <1>7 DEF Types, TasteType, ShelfType, CountType, taste, shelf
<1> QED
  BY <1>2, <1>3, <1>5, <1>8 DEF shelf

(* Both "Terminate" and "End now" schedule within the clock. *)
LEMMA ScheduledInTime ==
  ASSUME Types, NEW s \in Side, (\E g \in Grace : Terminate(s, g)) \/ EndNow(s)
  PROVE  \E at \in 0 .. MaxNow : ScheduleSever(s, at)
  BY Constants DEF Terminate, EndNow, Types, TasteType

LEMMA CancelSeverCommitStep ==
  ASSUME Types, NEW s \in Side, CancelSeverCommit(s)
  PROVE  /\ Types'
         /\ \E op : Issues(s, op) /\ op.kind = "sever.cancel"
         /\ initiatedBy' = [initiatedBy EXCEPT ![s] = "none"]
         /\ severAt' = [severAt EXCEPT ![s] = Never]
         /\ crossed' = (crossed \/ Crosses(s) \/ initiatedBy[s] = Other(s))
         /\ UNCHANGED <<role, taste, now, saved, tied, cut>>
<1> DEFINE op == [kind |-> "sever.cancel", num |-> issued[s] + 1, arg |-> "none", at |-> now]
<1>1. Issue(s, "sever.cancel", "none", now) /\ now \in Nat
  BY Constants DEF CancelSeverCommit, Types, TasteType
<1>2. /\ initiatedBy' = [initiatedBy EXCEPT ![s] = "none"]
      /\ severAt' = [severAt EXCEPT ![s] = Never]
      /\ crossed' = (crossed \/ Crosses(s) \/ initiatedBy[s] = Other(s))
      /\ undoing' = [undoing EXCEPT ![s] = FALSE]
  BY DEF CancelSeverCommit
<1>3. UNCHANGED <<role, wiped, taste, shelf, mix, now, newest, reordered, tied, cut>>
  BY DEF CancelSeverCommit
<1>4. Payload(op)
  BY DEF Payload
<1>5. /\ WireTypeOK(Operation)' /\ issued' \in [Side -> 0 .. MaxOps]
      /\ Issues(s, op)
  BY <1>1, <1>3, <1>4, IssueSteps
<1>6. RowType'
  BY <1>2, <1>3, Constants DEF Types, RowType, Never, Side
<1>7. crossed' \in BOOLEAN
  BY <1>2 DEF Types, CountType, Crosses
<1>8. Types'
  BY <1>3, <1>5, <1>6, <1>7 DEF Types, TasteType, ShelfType, CountType, taste, shelf
<1> QED
  BY <1>2, <1>3, <1>5, <1>8 DEF shelf

LEMMA BroadcastPreferencesStep ==
  ASSUME Types, NEW s \in Side, BroadcastPreferences(s)
  PROVE  /\ Types'
         /\ \E op : /\ Issues(s, op)
                    /\ op.kind = "prompt_preference.set" /\ PrefOf(op) = unsent[s]
         /\ unsent[s] # NoPreference /\ unsent' = [unsent EXCEPT ![s] = NoPreference]
         /\ UNCHANGED <<row, prefs, now, saved, crossed, tied, cut>>
<1> DEFINE u == unsent[s]
           op == [kind |-> "prompt_preference.set", num |-> issued[s] + 1,
                  arg |-> u.set, at |-> u.at]
<1>1. /\ u \in Preference
      /\ u.at \in Nat /\ u.set \in Role \cup Choice \cup Post \cup {"none"}
  BY Constants DEF Types, TasteType, Preference
<1>2. Issue(s, "prompt_preference.set", u.set, u.at)
  BY DEF BroadcastPreferences
<1>3. /\ unsent[s] # NoPreference /\ unsent' = [unsent EXCEPT ![s] = NoPreference]
      /\ UNCHANGED <<row, undoing, prefs, shelf, mix, now, history>>
  BY DEF BroadcastPreferences
<1>4. [at |-> u.at, set |-> u.set] = u
  BY <1>1 DEF Preference
<1>5. Payload(op) /\ PrefOf(op) = u
  BY <1>1, <1>4 DEF Payload, PrefOf
<1> HIDE DEF u
<1>6. UNCHANGED <<wiped, mix, newest, reordered>>
  BY <1>3 DEF row, history
<1>7. /\ WireTypeOK(Operation)' /\ issued' \in [Side -> 0 .. MaxOps]
      /\ Issues(s, op)
  BY <1>1, <1>2, <1>5, <1>6, IssueSteps
<1>8. unsent' \in [Side -> Preference]
  BY <1>3, NoPreferenceType DEF Types, TasteType
<1>9. Types'
  BY <1>3, <1>7, <1>8 DEF Types, RowType, TasteType, ShelfType, CountType, row, shelf, history
<1> QED
  BY <1>3, <1>5, <1>7, <1>9 DEF u, shelf, history

LEMMA SaveCommitStep ==
  ASSUME Types, NEW s \in Side, NEW p \in Post, SaveCommit(s, p)
  PROVE  /\ Types' /\ ~Has(s, p)
         /\ \E op : Issues(s, op) /\ op.kind = "saved_post.add" /\ op.arg = p
         /\ saved' = [saved EXCEPT ![s] = @ \cup {[by |-> s, num |-> issued[s] + 1, post |-> p]}]
         /\ UNCHANGED <<row, taste, now, crossed, tied, cut>>
<1> DEFINE op == [kind |-> "saved_post.add", num |-> issued[s] + 1, arg |-> p, at |-> 0]
<1>1. /\ ~Has(s, p) /\ saving[s][p] > 0
      /\ saving' = [saving EXCEPT ![s][p] = saving[s][p] - 1]
      /\ saved' = [saved EXCEPT ![s] = @ \cup {[by |-> s, num |-> issued[s] + 1, post |-> p]}]
  BY DEF SaveCommit, SaveRow
<1>2. Issue(s, "saved_post.add", p, 0)
  BY DEF SaveCommit, SaveRow
<1>3. UNCHANGED <<row, undoing, taste, mix, now, history>>
  BY DEF SaveCommit, SaveRow
<1>4. Payload(op)
  BY DEF Payload
<1>5. /\ WireTypeOK(Operation)' /\ issued' \in [Side -> 0 .. MaxOps]
      /\ issued[s] + 1 \in 1 .. MaxOps
      /\ Issues(s, op)
  BY <1>2, <1>3, <1>4, IssueSteps DEF row, history
<1>6. saved' \in [Side -> SUBSET Bookmark]
  BY <1>1, <1>5 DEF Types, ShelfType, Bookmark
<1>7. saving' \in [Side -> [Post -> 0 .. MaxTaps]]
  <2>1. saving[s] \in [Post -> 0 .. MaxTaps] /\ saving[s][p] \in 0 .. MaxTaps
    BY DEF Types, ShelfType
  <2>2. saving[s][p] - 1 \in 0 .. MaxTaps
    BY <1>1, <2>1, Constants
  <2> QED
    BY <1>1, <2>1, <2>2 DEF Types, ShelfType
<1>8. Types'
  BY <1>3, <1>5, <1>6, <1>7 DEF Types, RowType, TasteType, ShelfType, CountType, row, taste, history
<1> QED
  BY <1>1, <1>3, <1>5, <1>8 DEF history

LEMMA ApplyNextStep ==
  ASSUME Types, Sent, NEW q \in Side, ApplyNext(q)
  PROVE  Types' /\ \E op : Applies(Other(q), op)
<1>1. PICK e \in page[q] :
        /\ Take(q, e) /\ ApplyCrdtOp(q, e.op)
        /\ newest' = [newest EXCEPT ![q] = IF e.op.num > @ THEN e.op.num ELSE @]
        /\ reordered' = [reordered EXCEPT ![q] = @ \/ e.op.num < newest[q]]
        /\ UNCHANGED <<wiped, undoing, unsent, saving, mix, now, issued, crossed, tied, cut>>
  BY DEF ApplyNext
<1> DEFINE op == e.op
           s == Other(q)
<1>2. s \in Side /\ Other(s) = q
  BY OtherSide
<1>3. /\ WireTypeOK(Operation)'
      /\ op \in Operation /\ op \in Way(s)
      /\ Way(q)' = Way(q)
      /\ Way(s)' \subseteq Way(s) /\ Way(s) \subseteq Way(s)' \cup {op}
  BY <1>1, TakeWay DEF Types
<1> HIDE DEF op, s
<1>4. Applies(s, op)
  BY <1>1, <1>2, <1>3 DEF Applies, op
<1>5. Payload(op)
  BY <1>2, <1>3 DEF Sent, SentInv
<1>6. RowType'
  <2> USE <1>1, <1>2, <1>5 DEF Types, RowType, Payload, op, s
  <2>1. CASE ApplyRoleSet(q, op)
    BY <2>1 DEF ApplyRoleSet
  <2>2. CASE ApplySeverSchedule(q, op)
    BY <2>2, Constants DEF ApplySeverSchedule, Never, Side
  <2>3. CASE ApplySeverCancel(q, op)
    BY <2>3, Constants DEF ApplySeverCancel, Never
  <2>4. CASE ApplyPreferenceSet(q, op) \/ ApplySavedPostAdd(q, op)
    BY <2>4 DEF ApplyPreferenceSet, ApplySavedPostAdd
  <2> QED
    BY <2>1, <2>2, <2>3, <2>4 DEF ApplyCrdtOp
<1>7. TasteType'
  <2>1. CASE ApplyPreferenceSet(q, op)
    <3>1. [at |-> op.at, set |-> op.arg] \in Preference
      BY <1>5, <2>1 DEF Payload, ApplyPreferenceSet
    <3> QED
      BY <1>1, <1>2, <2>1, <3>1 DEF ApplyPreferenceSet, Types, TasteType
  <2>2. CASE ~ApplyPreferenceSet(q, op)
    BY <1>1, <2>2 DEF ApplyCrdtOp, ApplyRoleSet, ApplySeverSchedule, ApplySeverCancel,
                      ApplySavedPostAdd, Types, TasteType, op
  <2> QED
    BY <2>1, <2>2
<1>8. ShelfType'
  <2>1. CASE ApplySavedPostAdd(q, op)
    <3>1. [by |-> s, num |-> op.num, post |-> op.arg] \in Bookmark
      BY <1>2, <1>3, <1>5, <2>1 DEF Payload, ApplySavedPostAdd, Bookmark, Operation
    <3> QED
      BY <1>1, <2>1, <3>1 DEF ApplySavedPostAdd, Types, ShelfType, s
  <2>2. CASE ~ApplySavedPostAdd(q, op)
    BY <1>1, <2>2 DEF ApplyCrdtOp, ApplyRoleSet, ApplySeverSchedule, ApplySeverCancel,
                      ApplyPreferenceSet, Types, ShelfType, op
  <2> QED
    BY <2>1, <2>2
<1>9. CountType'
  <2>1. op.num \in 0 .. MaxOps
    BY <1>3, Constants DEF Operation
  <2> QED
    BY <1>1, <2>1 DEF Types, CountType, op
<1> QED
  BY <1>3, <1>4, <1>6, <1>7, <1>8, <1>9 DEF Types, s

LEMMA MaybeFinalizeSeverStep ==
  ASSUME Types, NEW s \in Side, MaybeFinalizeSever(s)
  PROVE  Types' /\ Erases(s)
<1>1. Forget(s) /\ UNCHANGED <<taste, shelf, mix, now, issued, history>>
  BY DEF MaybeFinalizeSever
<1>2. /\ wiped' = [wiped EXCEPT ![s] = TRUE]
      /\ role' = [role EXCEPT ![s] = [q \in Side |-> "none"]]
      /\ initiatedBy' = [initiatedBy EXCEPT ![s] = "none"]
      /\ severAt' = [severAt EXCEPT ![s] = Never]
      /\ undoing' = [undoing EXCEPT ![s] = FALSE]
  BY DEF MaybeFinalizeSever
<1>3. RowType'
  BY <1>2, Constants DEF Types, RowType, Never
<1>4. /\ WireTypeOK(Operation)'
      /\ Way(s)' \subseteq Way(s) /\ Way(Other(s))' = Way(Other(s))
  BY <1>1, ForgetWay DEF Types
<1>5. \A q \in Side : Way(q)' \subseteq Way(q)
  BY <1>4, OtherSide
<1> QED
  BY <1>1, <1>2, <1>3, <1>4, <1>5
     DEF Erases, Types, TasteType, ShelfType, CountType, taste, shelf, history

LocalStep(s) ==
  \/ Quiet(s)
  \/ \E c \in Choice : SavePreferences(s, c)
  \/ SaveCutShort(s)
  \/ \E b \in saved[s] : RemoveSaved(s, b)

LEMMA LocalSteps ==
  ASSUME Types, NEW s \in Side, LocalStep(s) PROVE Types' /\ Local
  BY QuietSteps, SavePreferencesStep, SaveCutShortStep, RemoveSavedStep DEF LocalStep

StepOf(s) ==
  \/ LocalStep(s)
  \/ \E r \in Role : SetMyRole(s, r)
  \/ \E at \in 0 .. MaxNow : ScheduleSever(s, at)
  \/ CancelSeverCommit(s)
  \/ BroadcastPreferences(s)
  \/ \E p \in Post : SaveCommit(s, p)
  \/ ApplyNext(s)
  \/ MaybeFinalizeSever(s)

LEMMA StepCases == Types /\ [Next]_vars => \E s \in Side : StepOf(s)
<1> SUFFICES ASSUME Types, [Next]_vars PROVE \E s \in Side : StepOf(s)
  OBVIOUS
<1>1. "a" \in Side
  BY DEF Side
<1>2. CASE Tick \/ UNCHANGED vars
  BY <1>1, <1>2 DEF Quiet, LocalStep, StepOf
<1>3. CASE ~Tick /\ ~UNCHANGED vars
  <2>1. PICK s \in Side :
          \/ \E r \in Role : SetMyRole(s, r)
          \/ \E g \in Grace : Terminate(s, g)
          \/ EndNow(s)
          \/ CancelSever(s) \/ CancelSeverCommit(s)
          \/ \E c \in Choice : SavePreferences(s, c)
          \/ BroadcastPreferences(s) \/ SaveCutShort(s)
          \/ \E p \in Post : SaveBegin(s, p) \/ SaveCommit(s, p) \/ SaveSkip(s, p)
          \/ \E b \in saved[s] : RemoveSaved(s, b)
          \/ Sync(s) \/ ApplyNext(s)
          \/ MaybeFinalizeSever(s)
    BY <1>3 DEF Next
  <2> QED
    BY <2>1, ScheduledInTime DEF Quiet, LocalStep, StepOf
<1> QED
  BY <1>2, <1>3

LEMMA InitTypes == Init => Types /\ \A s \in Side : Way(s) = {}
<1> SUFFICES ASSUME Init PROVE Types /\ \A s \in Side : Way(s) = {}
  OBVIOUS
<1>1. WireTypeOK(Operation) /\ \A s \in Side : Way(s) = {}
  BY WireInitWay DEF Init
<1>2. RowType
  BY Constants DEF Init, RowType, Never
<1>3. TasteType
  BY NoPreferenceType, Constants DEF Init, TasteType
<1>4. ShelfType
  BY Constants DEF Init, ShelfType
<1>5. CountType
  <2>1. /\ mix \in Mixes
        /\ issued \in [Side -> 0 .. MaxOps] /\ newest \in [Side -> 0 .. MaxOps]
    BY Constants DEF Init
  <2>2. /\ reordered \in [Side -> BOOLEAN] /\ crossed \in BOOLEAN
        /\ tied \in [Side -> BOOLEAN] /\ cut \in [Side -> BOOLEAN]
    BY DEF Init
  <2> QED
    BY <2>1, <2>2 DEF CountType
<1> QED
  BY <1>1, <1>2, <1>3, <1>4, <1>5 DEF Types

LEMMA NextTypes == Types /\ Sent /\ [Next]_vars => Types'
<1> SUFFICES ASSUME Types, Sent, [Next]_vars PROVE Types'
  OBVIOUS
<1> QED
  BY StepCases, LocalSteps, SetMyRoleStep, ScheduleSeverStep, CancelSeverCommitStep,
     BroadcastPreferencesStep, SaveCommitStep, ApplyNextStep, MaybeFinalizeSeverStep DEF StepOf

-----------------------------------------------------------------------------
(* Numbers: an operation has one of its own.                               *)

LEMMA IssueSent ==
  ASSUME Types, Sent, NEW s \in Side, NEW op, Issues(s, op)
  PROVE  Sent' /\ \A o \in Way(s) : o.num < op.num
<1> DEFINE q == Other(s)
<1>1. /\ op.num = issued[s] + 1 /\ issued[s] \in Nat /\ issued[q] \in Nat
      /\ issued'[s] = issued[s] + 1 /\ issued'[q] = issued[q]
  BY OtherSide, Constants DEF Issues, Types, CountType
<1>2. Way(s) \subseteq Operation
  BY OtherSide DEF Types, WireTypeOK, Way, Items, OnRelay, Entry
<1>3. \A o \in Way(s) : o.num \in Nat /\ o.num <= issued[s]
  BY <1>2, Constants DEF Sent, SentInv, Operation
<1>4. \A o \in Way(s) : o.num < op.num
  BY <1>1, <1>3
<1>5. SentInv(s)'
  <2>1. Way(s)' = Way(s) \cup {op} /\ Payload(op)
    BY DEF Issues
  <2>2. \A o \in Way(s)' : Payload(o) /\ o.num <= issued'[s]
    BY <1>1, <1>3, <2>1 DEF Sent, SentInv
  <2>3. \A o, p \in Way(s)' : o.num = p.num => o = p
    BY <1>1, <1>3, <1>4, <2>1 DEF Sent, SentInv
  <2> QED
    BY <2>2, <2>3 DEF SentInv, Payload
<1>6. SentInv(q)'
  BY <1>1, OtherSide DEF Issues, Sent, SentInv, Payload
<1> QED
  BY <1>4, <1>5, <1>6, OtherSide DEF Sent

LEMMA LessSent ==
  ASSUME Sent, issued' = issued, \A s \in Side : Way(s)' \subseteq Way(s)
  PROVE  Sent'
  BY DEF Sent, SentInv, Payload

LEMMA InitSent == Init => Sent
  BY InitTypes DEF Sent, SentInv

LEMMA NextSent == Types /\ Sent /\ [Next]_vars => Sent'
<1> SUFFICES ASSUME Types, Sent, [Next]_vars PROVE Sent'
  OBVIOUS
<1>1. PICK s \in Side : StepOf(s)
  BY StepCases
<1>2. CASE LocalStep(s)
  <2>1. Local
    BY <1>2, LocalSteps
  <2> QED
    BY <2>1, LessSent DEF Local
<1>3. CASE \/ \E r \in Role : SetMyRole(s, r)
           \/ \E at \in 0 .. MaxNow : ScheduleSever(s, at)
           \/ CancelSeverCommit(s) \/ BroadcastPreferences(s)
           \/ \E p \in Post : SaveCommit(s, p)
  <2>1. \E op : Issues(s, op)
    BY <1>3, SetMyRoleStep, ScheduleSeverStep, CancelSeverCommitStep,
       BroadcastPreferencesStep, SaveCommitStep
  <2> QED
    BY <2>1, IssueSent
<1>4. CASE ApplyNext(s)
  <2>1. PICK op : Applies(Other(s), op)
    BY <1>4, ApplyNextStep
  <2>2. issued' = issued /\ \A q \in Side : Way(q)' \subseteq Way(q)
    BY <2>1, OtherSide DEF Applies
  <2> QED
    BY <2>2, LessSent
<1>5. CASE MaybeFinalizeSever(s)
  <2>1. issued' = issued /\ \A q \in Side : Way(q)' \subseteq Way(q)
    BY <1>5, MaybeFinalizeSeverStep DEF Erases
  <2> QED
    BY <2>1, LessSent
<1> QED
  BY <1>1, <1>2, <1>3, <1>4, <1>5 DEF StepOf

-----------------------------------------------------------------------------
(* Order.                                                                  *)

LEMMA WayNumbers ==
  ASSUME Types, NEW s \in Side, NEW op \in Way(s)
  PROVE  op \in Operation /\ op.num \in Nat /\ newest[s] \in Nat /\ newest[Other(s)] \in Nat
<1>1. op \in Operation
  BY OtherSide DEF Types, WireTypeOK, Way, Items, OnRelay, Entry
<1>2. newest[s] \in 0 .. MaxOps /\ newest[Other(s)] \in 0 .. MaxOps
  BY OtherSide DEF Types, CountType
<1> QED
  BY <1>1, <1>2, Constants DEF Operation

(* A new operation, or a step that applies none, puts none behind.         *)
LEMMA OrderKept ==
  ASSUME NEW s \in Side, Way(s) \subseteq Way(s)', UNCHANGED <<newest, reordered>>
  PROVE  InOrder(s)' => InOrder(s)
  BY DEF InOrder, Behind

(* If order is kept, what is applied was the first of what was on its way; *)
(* what is left comes after it, but for a second copy of it.               *)
LEMMA OrderApplied ==
  ASSUME Types, Sent, NEW s \in Side, NEW op, Applies(s, op), InOrder(s)'
  PROVE  /\ InOrder(s)
         /\ \A o \in Way(s)' : o.num >= op.num /\ (o.num = op.num => o = op)
<1> DEFINE q == Other(s)
<1>1. q \in Side /\ op \in Way(s) /\ Way(s)' \subseteq Way(s) /\ Way(s) \subseteq Way(s)' \cup {op}
  BY OtherSide DEF Applies
<1>2. /\ newest'[q] = IF op.num > newest[q] THEN op.num ELSE newest[q]
      /\ ~reordered[q] /\ ~(op.num < newest[q])
  BY <1>1 DEF Applies, InOrder, Types, CountType
<1>3. op.num \in Nat /\ newest[q] \in Nat /\ newest'[q] = op.num
  BY <1>1, <1>2, WayNumbers
<1>4. \A o \in Way(s)' : ~(o.num < op.num)
  BY <1>3 DEF InOrder, Behind
<1>5. \A o \in Way(s)' : o.num \in Nat
  BY <1>1, WayNumbers
<1>6. \A o \in Way(s)' : o.num = op.num => o = op
  BY <1>1 DEF Sent, SentInv
<1>7. \A o \in Way(s) : ~(o.num < newest[q])
  BY <1>1, <1>2, <1>3, <1>4, <1>5
<1> QED
  BY <1>2, <1>3, <1>4, <1>5, <1>6, <1>7 DEF InOrder, Behind

(* The partner applying something of s leaves the order of its own alone.  *)
LEMMA OrderOther ==
  ASSUME Types, NEW s \in Side, NEW op, Applies(s, op)
  PROVE  /\ Way(Other(s))' = Way(Other(s))
         /\ InOrder(Other(s))' => InOrder(Other(s))
<1>1. Other(s) \in Side /\ Other(s) # s /\ Other(Other(s)) = s
  BY OtherSide
<1>2. /\ Way(Other(s))' = Way(Other(s))
      /\ newest'[s] = newest[s] /\ reordered'[s] = reordered[s]
  BY <1>1 DEF Applies, Types, CountType
<1> QED
  BY <1>1, <1>2 DEF InOrder, Behind

-----------------------------------------------------------------------------
(* Roles.                                                                  *)

(* A step that touches neither the role of s nor an operation about it.    *)
LEMMA RoleKept ==
  ASSUME NEW s \in Side, RoleInv(s), BothHere' => BothHere, InOrder(s)' => InOrder(s),
         RoleOps(s)' = RoleOps(s),
         role'[s][s] = role[s][s], role'[Other(s)][s] = role[Other(s)][s]
  PROVE  RoleInv(s)'
  BY DEF RoleInv, LastOf

LEMMA LocalRole ==
  ASSUME Local, NEW s \in Side, RoleInv(s) PROVE RoleInv(s)'
<1>1. /\ Way(s)' = Way(s) /\ UNCHANGED <<newest, reordered, wiped, role>>
  BY DEF Local
<1> QED
  BY <1>1, RoleKept, OrderKept DEF RoleOps, BothHere

(* An operation about something else, or of the partner. *)
LEMMA IssueRole ==
  ASSUME Types, Sent, NEW s \in Side, NEW op, Issues(s, op), NEW z \in Side, RoleInv(z),
         \/ op.kind # "role.set" /\ role' = role
         \/ op.kind = "role.set" /\ role' = [role EXCEPT ![s][s] = op.arg]
  PROVE  RoleInv(z)'
<1>1. /\ Way(s)' = Way(s) \cup {op} /\ Way(Other(s))' = Way(Other(s))
      /\ UNCHANGED <<wiped, newest, reordered>>
  BY DEF Issues
<1>2. (BothHere' => BothHere) /\ Way(z) \subseteq Way(z)'
  BY <1>1, OtherSide DEF BothHere
<1>3. InOrder(z)' => InOrder(z)
  BY <1>1, <1>2, OrderKept
<1>4. CASE z # s \/ op.kind # "role.set"
  <2>1. RoleOps(z)' = RoleOps(z)
    BY <1>1, <1>4, OtherSide DEF RoleOps
  <2>2. role'[z][z] = role[z][z] /\ role'[Other(z)][z] = role[Other(z)][z]
    BY <1>4, OtherSide DEF Types, RowType
  <2> QED
    BY <1>2, <1>3, <2>1, <2>2, RoleKept
<1>5. CASE z = s /\ op.kind = "role.set"
  <2>1. RoleOps(s)' = RoleOps(s) \cup {op}
    BY <1>1, <1>5 DEF RoleOps
  <2>2. role'[s][s] = op.arg
    BY <1>5 DEF Types, RowType
  <2>3. \A o \in RoleOps(s) : o.num < op.num /\ o.num \in Nat
    BY IssueSent, WayNumbers DEF RoleOps
  <2>5. op.num \in Nat
    BY Constants DEF Issues, Operation
  <2>4. LastOf(RoleOps(s)', op)
    BY <2>1, <2>3, <2>5 DEF LastOf
  <2> QED
    BY <1>5, <2>1, <2>2, <2>4 DEF RoleInv, LastOf
<1> QED
  BY <1>4, <1>5

LEMMA ApplyRole ==
  ASSUME Types, Sent, NEW s \in Side, NEW op, Applies(s, op), NEW z \in Side, RoleInv(z)
  PROVE  RoleInv(z)'
<1> DEFINE q == Other(s)
<1>1. q \in Side /\ q # s /\ Other(q) = s
  BY OtherSide
<1>2. /\ op \in Way(s) /\ Way(s)' \subseteq Way(s) /\ Way(s) \subseteq Way(s)' \cup {op}
      /\ wiped' = wiped /\ ApplyCrdtOp(q, op)
  BY DEF Applies
<1>3. BothHere' => BothHere
  BY <1>2 DEF BothHere
<1>4. \/ op.kind = "role.set" /\ role' = [role EXCEPT ![q][s] = op.arg]
      \/ op.kind # "role.set" /\ role' = role
  BY <1>1, <1>2 DEF ApplyCrdtOp, ApplyRoleSet, ApplySeverSchedule, ApplySeverCancel,
                    ApplyPreferenceSet, ApplySavedPostAdd
<1>5. CASE z = q
  <2>1. RoleOps(q)' = RoleOps(q) /\ (InOrder(q)' => InOrder(q))
    BY OrderOther DEF RoleOps
  <2>2. role'[q][q] = role[q][q] /\ role'[s][q] = role[s][q]
    BY <1>1, <1>4 DEF Types, RowType
  <2> QED
    BY <1>1, <1>3, <1>5, <2>1, <2>2, RoleKept
<1>6. CASE z = s /\ op.kind # "role.set"
  <2>1. RoleOps(s)' = RoleOps(s)
    BY <1>2, <1>6 DEF RoleOps
  <2> QED
    BY <1>3, <1>4, <1>6, <2>1, RoleKept, OrderApplied
<1>7. CASE z = s /\ op.kind = "role.set"
  <2> SUFFICES ASSUME BothHere', InOrder(s)'
               PROVE  \/ RoleOps(s)' = {} /\ role'[q][s] = role'[s][s]
                      \/ \E o \in RoleOps(s)' :
                           LastOf(RoleOps(s)', o) /\ o.arg = role'[s][s]
    BY <1>7 DEF RoleInv, LastOf
  <2>1. role'[q][s] = op.arg /\ role'[s][s] = role[s][s]
    BY <1>1, <1>4, <1>7 DEF Types, RowType
  <2>2. /\ InOrder(s)
        /\ \A o \in Way(s)' : o.num >= op.num /\ (o.num = op.num => o = op)
    BY OrderApplied
  <2>3. /\ RoleOps(s)' \subseteq RoleOps(s) /\ RoleOps(s) \subseteq RoleOps(s)' \cup {op}
        /\ op \in RoleOps(s)
    BY <1>2, <1>7 DEF RoleOps
  <2>4. PICK last \in RoleOps(s) : LastOf(RoleOps(s), last) /\ last.arg = role[s][s]
    BY <1>3, <1>7, <2>2, <2>3 DEF RoleInv
  <2>5. CASE last \in RoleOps(s)'
    BY <2>1, <2>3, <2>4, <2>5 DEF LastOf
  <2>6. CASE last \notin RoleOps(s)'
    <3>1. last = op
      BY <2>3, <2>6
    <3>2. \A o \in RoleOps(s)' : o.num \in Nat /\ o.num <= op.num /\ o.num >= op.num
      BY <2>2, <2>3, <2>4, <3>1, WayNumbers DEF LastOf, RoleOps
    <3>3. \A o \in RoleOps(s)' : o = op
      BY <1>2, <2>2, <3>2, WayNumbers DEF RoleOps
    <3>4. RoleOps(s)' = {}
      BY <2>6, <3>1, <3>3
    <3> QED
      BY <2>1, <2>4, <3>1, <3>4
  <2> QED
    BY <2>5, <2>6
<1> QED
  BY <1>1, <1>5, <1>6, <1>7, OtherSide

LEMMA NextRole ==
  ASSUME Types, Sent, [Next]_vars, NEW z \in Side, RoleInv(z)
  PROVE  RoleInv(z)'
<1>1. PICK s \in Side : StepOf(s)
  BY StepCases
<1>2. CASE LocalStep(s)
  <2>1. Local
    BY <1>2, LocalSteps
  <2> QED
    BY <2>1, LocalRole
<1>3. CASE \E r \in Role : SetMyRole(s, r)
  <2>1. PICK op : /\ Issues(s, op) /\ op.kind = "role.set"
                  /\ role' = [role EXCEPT ![s][s] = op.arg]
    BY <1>3, SetMyRoleStep
  <2> QED
    BY <2>1, IssueRole
<1>4. CASE \/ \E at \in 0 .. MaxNow : ScheduleSever(s, at)
           \/ CancelSeverCommit(s) \/ BroadcastPreferences(s)
           \/ \E p \in Post : SaveCommit(s, p)
  <2>1. PICK op : Issues(s, op) /\ op.kind # "role.set" /\ role' = role
    BY <1>4, ScheduleSeverStep, CancelSeverCommitStep,
       BroadcastPreferencesStep, SaveCommitStep DEF row
  <2> QED
    BY <2>1, IssueRole
<1>5. CASE ApplyNext(s)
  <2>1. PICK op : Applies(Other(s), op)
    BY <1>5, ApplyNextStep
  <2> QED
    BY <2>1, ApplyRole, OtherSide
<1>6. CASE MaybeFinalizeSever(s)
  <2>1. ~BothHere'
    BY <1>6, MaybeFinalizeSeverStep DEF Erases, BothHere, Types, RowType, Side
  <2> QED
    BY <2>1 DEF RoleInv
<1> QED
  BY <1>1, <1>2, <1>3, <1>4, <1>5, <1>6 DEF StepOf

-----------------------------------------------------------------------------
(* The pending sever.                                                      *)

Settling == BothHere /\ ~crossed /\ \A s \in Side : InOrder(s)

LEMMA SeverKept ==
  ASSUME SeverInv, Settling' => Settling, \A s \in Side : SeverOps(s)' = SeverOps(s),
         UNCHANGED <<initiatedBy, severAt>>
  PROVE  SeverInv'
<1> SUFFICES ASSUME Settling' PROVE \E s \in Side : Leads(s)'
  BY DEF SeverInv, Settling
<1>1. PICK s \in Side : Leads(s)
  BY DEF SeverInv, Settling
<1>2. Leads(s)'
  BY <1>1, OtherSide DEF Leads, LastOf, Says, SeverAgrees
<1> QED
  BY <1>2

LEMMA LocalSever ==
  ASSUME Local, SeverInv PROVE SeverInv'
<1>1. \A s \in Side : SeverOps(s)' = SeverOps(s) /\ (InOrder(s)' => InOrder(s))
  BY OrderKept DEF Local, SeverOps
<1>2. Settling' => Settling
  BY <1>1 DEF Local, Settling, BothHere
<1> QED
  BY <1>1, <1>2, SeverKept DEF Local

(* Without an operation of the partner on its way, a phone leads.          *)
LEMMA LeadsAlone ==
  ASSUME NEW z \in Side, Leads(z), NEW s \in Side, SeverOps(Other(s)) = {}
  PROVE  Leads(s)
  BY OtherSide DEF Leads, SeverAgrees, Side

LEMMA IssueOrder ==
  ASSUME NEW s \in Side, NEW op, Issues(s, op), crossed => crossed'
  PROVE  Settling' => Settling
<1>1. \A z \in Side : Way(z) \subseteq Way(z)'
  BY OtherSide DEF Issues
<1>2. \A z \in Side : InOrder(z)' => InOrder(z)
  BY <1>1, OrderKept DEF Issues
<1> QED
  BY <1>2 DEF Settling, BothHere, Issues

LEMMA IssueOtherKind ==
  ASSUME SeverInv, NEW s \in Side, NEW op, Issues(s, op),
         UNCHANGED <<initiatedBy, severAt, crossed>>,
         op.kind \notin {"sever.schedule", "sever.cancel"}
  PROVE  SeverInv'
<1>1. \A z \in Side : SeverOps(z)' = SeverOps(z)
  BY OtherSide DEF Issues, SeverOps
<1> QED
  BY <1>1, IssueOrder, SeverKept

(* What a sever operation meets when it crosses none of the partner's.     *)
LEMMA IssueSever ==
  ASSUME Types, Sent, SeverInv, NEW s \in Side, NEW op, Issues(s, op), Settling',
         op.kind \in {"sever.schedule", "sever.cancel"}, ~crossed, ~Crosses(s)
  PROVE  /\ Leads(s)
         /\ SeverOps(s)' = SeverOps(s) \cup {op} /\ SeverOps(Other(s))' = {}
         /\ LastOf(SeverOps(s)', op) /\ \A o \in SeverOps(s) : o.num < op.num
<1>1. SeverOps(Other(s)) = {}
  BY DEF Crosses, OnItsWay, SeverOps, Way, Items, OnRelay
<1>2. Settling
  BY IssueOrder
<1>3. Leads(s)
  BY <1>1, <1>2, LeadsAlone DEF SeverInv, Settling
<1>4. SeverOps(s)' = SeverOps(s) \cup {op} /\ SeverOps(Other(s))' = {}
  BY <1>1 DEF Issues, SeverOps
<1>5. \A o \in SeverOps(s) : o.num < op.num /\ o.num \in Nat
  BY IssueSent, WayNumbers DEF SeverOps
<1>6. op.num \in Nat
  BY Constants DEF Issues, Operation
<1> QED
  BY <1>3, <1>4, <1>5, <1>6 DEF LastOf

LEMMA ScheduleSeverInv ==
  ASSUME Types, Sent, SeverInv, NEW s \in Side, NEW at \in 0 .. MaxNow, ScheduleSever(s, at)
  PROVE  SeverInv'
<1> SUFFICES ASSUME Settling' PROVE Leads(s)'
  BY DEF SeverInv, Settling
<1>1. PICK op : Issues(s, op) /\ op.kind = "sever.schedule" /\ op.at = at
  BY ScheduleSeverStep
<1>2. /\ initiatedBy' = [initiatedBy EXCEPT ![s] = s]
      /\ severAt' = [severAt EXCEPT ![s] = at]
      /\ crossed' = (crossed \/ Crosses(s))
  BY ScheduleSeverStep
<1>3. ~crossed /\ ~Crosses(s)
  BY <1>2 DEF Settling
<1>4. /\ Leads(s)
      /\ SeverOps(s)' = SeverOps(s) \cup {op} /\ SeverOps(Other(s))' = {}
      /\ LastOf(SeverOps(s)', op) /\ \A o \in SeverOps(s) : o.num < op.num
  BY <1>1, <1>3, IssueSever
<1>5. Says(s, op)'
  BY <1>1, <1>2 DEF Says, Types, RowType
<1>6. initiatedBy'[Other(s)] = initiatedBy[Other(s)]
  BY <1>2, OtherSide DEF Types, RowType
<1> QED
  BY <1>1, <1>4, <1>5, <1>6 DEF Leads, LastOf, Says

LEMMA CancelSeverInv ==
  ASSUME Types, Sent, SeverInv, NEW s \in Side, CancelSeverCommit(s)
  PROVE  SeverInv'
<1> DEFINE q == Other(s)
<1> SUFFICES ASSUME Settling' PROVE Leads(s)'
  BY DEF SeverInv, Settling
<1>1. PICK op : Issues(s, op) /\ op.kind = "sever.cancel"
  BY CancelSeverCommitStep
<1>2. /\ initiatedBy' = [initiatedBy EXCEPT ![s] = "none"]
      /\ severAt' = [severAt EXCEPT ![s] = Never]
      /\ crossed' = (crossed \/ Crosses(s) \/ initiatedBy[s] = q)
  BY CancelSeverCommitStep
<1>3. ~crossed /\ ~Crosses(s) /\ initiatedBy[s] # q
  BY <1>2 DEF Settling
<1>4. /\ Leads(s)
      /\ SeverOps(s)' = SeverOps(s) \cup {op} /\ SeverOps(q)' = {}
      /\ LastOf(SeverOps(s)', op) /\ \A o \in SeverOps(s) : o.num < op.num
  BY <1>1, <1>3, IssueSever
<1>5. Says(s, op)'
  BY <1>1, <1>2 DEF Says, Types, RowType
<1>6. initiatedBy'[q] = initiatedBy[q]
  BY <1>2, OtherSide DEF Types, RowType
<1>7. ASSUME initiatedBy[q] = q
      PROVE  \E o \in SeverOps(s) : o.kind = "sever.schedule" /\ o.num < op.num
  <2>1. ~(SeverOps(s) = {} /\ SeverAgrees)
    BY <1>3, <1>7, OtherSide DEF SeverAgrees, Side
  <2>2. PICK last \in SeverOps(s) : LastOf(SeverOps(s), last) /\ Says(s, last)
    BY <1>4, <2>1 DEF Leads
  <2>3. CASE last.kind = "sever.schedule"
    BY <1>4, <2>3
  <2>4. CASE last.kind = "sever.cancel"
    BY <1>4, <1>7, <2>4 DEF Leads
  <2> QED
    BY <2>2, <2>3, <2>4 DEF Says
<1>8. \A c \in SeverOps(s)' :
        c.kind = "sever.cancel" /\ initiatedBy'[q] = q =>
          \E o \in SeverOps(s)' : o.kind = "sever.schedule" /\ o.num < c.num
  BY <1>4, <1>6, <1>7 DEF Leads
<1> QED
  BY <1>4, <1>5, <1>8 DEF Leads, LastOf, Says

(* The operation applied next is the first of those that lead, and no undo *)
(* meets a sever of the partner.                                           *)
LEMMA ApplySeverOp ==
  ASSUME Types, Sent, NEW s \in Side, NEW op, Applies(s, op), InOrder(s)', Leads(s),
         op.kind \in {"sever.schedule", "sever.cancel"}
  PROVE  Leads(s)'
<1> DEFINE q == Other(s)
<1>1. q \in Side /\ q # s /\ Other(q) = s
  BY OtherSide
<1>2. /\ op \in Way(s) /\ Way(s)' \subseteq Way(s) /\ Way(s) \subseteq Way(s)' \cup {op}
      /\ Way(q)' = Way(q) /\ ApplyCrdtOp(q, op)
  BY DEF Applies
<1>3. /\ SeverOps(q)' = {} /\ op \in SeverOps(s)
      /\ SeverOps(s)' \subseteq SeverOps(s) /\ SeverOps(s) \subseteq SeverOps(s)' \cup {op}
  BY <1>2 DEF Leads, SeverOps
<1>4. \A o \in SeverOps(s)' : o.num >= op.num /\ (o.num = op.num => o = op)
  BY OrderApplied DEF SeverOps
<1>5. \A o \in SeverOps(s) : o.num \in Nat
  BY WayNumbers DEF SeverOps
<1>6. op.kind = "sever.cancel" => initiatedBy[q] # q
  <2> SUFFICES ASSUME op.kind = "sever.cancel", initiatedBy[q] = q PROVE FALSE
    OBVIOUS
  <2>1. PICK o \in SeverOps(s) : o.kind = "sever.schedule" /\ o.num < op.num
    BY <1>3 DEF Leads
  <2>2. o \in SeverOps(s)'
    BY <1>3, <2>1
  <2> QED
    BY <1>3, <1>4, <1>5, <2>1, <2>2
<1>7. /\ initiatedBy'[s] = initiatedBy[s] /\ severAt'[s] = severAt[s]
      /\ \/ op.kind = "sever.schedule" /\ initiatedBy'[q] = s /\ severAt'[q] = op.at
         \/ op.kind = "sever.cancel" /\ initiatedBy'[q] = "none" /\ severAt'[q] = Never
  <2>1. CASE ApplySeverSchedule(q, op)
    BY <1>1, <2>1 DEF ApplySeverSchedule, Types, RowType
  <2>2. CASE ApplySeverCancel(q, op)
    <3>1. initiatedBy[q] \in {s, "none"}
      BY <1>1, <1>6, <2>2, OtherSide DEF ApplySeverCancel, Types, RowType
    <3>2. initiatedBy[q] = "none" => severAt[q] = Never
      BY <1>1 DEF Types, RowType
    <3>3. s # "none"
      BY DEF Side
    <3> QED
      BY <1>1, <2>2, <3>1, <3>2, <3>3 DEF ApplySeverCancel, Types, RowType
  <2> QED
    BY <1>2, <2>1, <2>2 DEF ApplyCrdtOp, ApplyRoleSet, ApplyPreferenceSet, ApplySavedPostAdd
<1>8. initiatedBy'[q] # q
  BY <1>1, <1>7 DEF Side
<1>9. PICK last \in SeverOps(s) : LastOf(SeverOps(s), last) /\ Says(s, last)
  BY <1>3 DEF Leads
<1>10. CASE last \in SeverOps(s)'
  <2>1. LastOf(SeverOps(s)', last) /\ Says(s, last)'
    BY <1>3, <1>7, <1>9, <1>10 DEF LastOf, Says
  <2> QED
    BY <1>3, <1>8, <1>10, <2>1 DEF Leads, LastOf, Says
<1>11. CASE last \notin SeverOps(s)'
  <2>1. last = op
    BY <1>3, <1>11
  <2>2. \A o \in SeverOps(s)' : o.num <= op.num /\ o.num >= op.num /\ o.num \in Nat
    BY <1>3, <1>4, <1>5, <1>9, <2>1 DEF LastOf
  <2>3. SeverOps(s)' = {}
    BY <1>3, <1>4, <1>5, <1>11, <2>1, <2>2
  <2>4. initiatedBy'[q] = initiatedBy'[s] /\ severAt'[q] = severAt'[s]
    BY <1>7, <1>9, <2>1 DEF Says
  <2>5. SeverAgrees'
    BY <1>1, <2>4 DEF SeverAgrees, Side
  <2> QED
    BY <1>3, <2>3, <2>5 DEF Leads
<1> QED
  BY <1>10, <1>11

LEMMA ApplySever ==
  ASSUME Types, Sent, SeverInv, NEW s \in Side, NEW op, Applies(s, op)
  PROVE  SeverInv'
<1> DEFINE q == Other(s)
<1>1. (InOrder(s)' => InOrder(s)) /\ (InOrder(q)' => InOrder(q))
  BY OrderApplied, OrderOther
<1>2. Settling' => Settling
  BY <1>1, OtherSide DEF Settling, BothHere, Applies
<1>3. /\ op \in Way(s) /\ Way(s)' \subseteq Way(s) /\ Way(s) \subseteq Way(s)' \cup {op}
      /\ Way(q)' = Way(q) /\ ApplyCrdtOp(q, op)
  BY DEF Applies
<1>4. CASE op.kind \in {"sever.schedule", "sever.cancel"}
  <2> SUFFICES ASSUME Settling' PROVE Leads(s)'
    BY DEF SeverInv, Settling
  <2>1. PICK z \in Side : Leads(z)
    BY <1>2 DEF SeverInv, Settling
  <2>2. op \in SeverOps(s)
    BY <1>3, <1>4 DEF SeverOps
  <2>3. z = s
    BY <2>1, <2>2, OtherSide DEF Leads
  <2> QED
    BY <1>4, <2>1, <2>3, ApplySeverOp DEF Settling
<1>5. CASE op.kind \notin {"sever.schedule", "sever.cancel"}
  <2>1. SeverOps(s)' = SeverOps(s) /\ SeverOps(q)' = SeverOps(q)
    BY <1>3, <1>5 DEF SeverOps
  <2>2. \A z \in Side : SeverOps(z)' = SeverOps(z)
    BY <2>1, OtherSide
  <2>3. UNCHANGED <<initiatedBy, severAt>>
    BY <1>3, <1>5 DEF ApplyCrdtOp, ApplyRoleSet, ApplySeverSchedule, ApplySeverCancel,
                      ApplyPreferenceSet, ApplySavedPostAdd
  <2> QED
    BY <1>2, <2>2, <2>3, SeverKept
<1> QED
  BY <1>4, <1>5

LEMMA NextSever == Types /\ Sent /\ SeverInv /\ [Next]_vars => SeverInv'
<1> SUFFICES ASSUME Types, Sent, SeverInv, [Next]_vars PROVE SeverInv'
  OBVIOUS
<1>1. PICK s \in Side : StepOf(s)
  BY StepCases
<1>2. CASE LocalStep(s)
  BY <1>2, LocalSteps, LocalSever
<1>3. CASE \E r \in Role : SetMyRole(s, r)
  <2>1. PICK op : /\ Issues(s, op) /\ op.kind = "role.set"
                  /\ UNCHANGED <<initiatedBy, severAt, crossed>>
    BY <1>3, SetMyRoleStep
  <2> QED
    BY <2>1, IssueOtherKind
<1>4. CASE \E at \in 0 .. MaxNow : ScheduleSever(s, at)
  BY <1>4, ScheduleSeverInv
<1>5. CASE CancelSeverCommit(s)
  BY <1>5, CancelSeverInv
<1>6. CASE BroadcastPreferences(s)
  <2>1. PICK op : /\ Issues(s, op) /\ op.kind = "prompt_preference.set"
                  /\ UNCHANGED <<initiatedBy, severAt, crossed>>
    BY <1>6, BroadcastPreferencesStep DEF row
  <2> QED
    BY <2>1, IssueOtherKind
<1>7. CASE \E p \in Post : SaveCommit(s, p)
  <2>1. PICK op : /\ Issues(s, op) /\ op.kind = "saved_post.add"
                  /\ UNCHANGED <<initiatedBy, severAt, crossed>>
    BY <1>7, SaveCommitStep DEF row
  <2> QED
    BY <2>1, IssueOtherKind
<1>8. CASE ApplyNext(s)
  BY <1>8, ApplyNextStep, ApplySever, OtherSide
<1>9. CASE MaybeFinalizeSever(s)
  <2>1. ~BothHere'
    BY <1>9, MaybeFinalizeSeverStep DEF Erases, BothHere, Types, RowType, Side
  <2> QED
    BY <2>1 DEF SeverInv
<1> QED
  BY <1>1, <1>2, <1>3, <1>4, <1>5, <1>6, <1>7, <1>8, <1>9 DEF StepOf

-----------------------------------------------------------------------------
(* Preferences.                                                            *)

(* A step that touches neither what s saved nor what the partner has of it.*)
LEMMA PrefKept ==
  ASSUME NEW s \in Side, PrefInv(s), BothHere' => BothHere, Types, Types', now <= now',
         UNCHANGED <<tied, cut>>, Told(s)' = Told(s),
         prefs'[s][s] = prefs[s][s], prefs'[Other(s)][s] = prefs[Other(s)][s]
  PROVE  PrefInv(s)'
<1>1. prefs[s][s].at \in Nat /\ now \in Nat /\ now' \in Nat
  BY Constants DEF Types, TasteType, Preference
<1>2. prefs'[s][s].at <= now' + 1
  BY <1>1 DEF PrefInv
<1> QED
  BY <1>2 DEF PrefInv

LEMMA SavePreferencesInv ==
  ASSUME Types, NEW s \in Side, NEW c \in Choice, SavePreferences(s, c), PrefInv(s)
  PROVE  PrefInv(s)'
<1> DEFINE p == [at |-> now + 1, set |-> c]
<1>1. /\ Types' /\ Local /\ p \in Preference
  BY SavePreferencesStep
<1>2. /\ now' = now /\ cut' = cut /\ unsent[s] = NoPreference
      /\ prefs' = [prefs EXCEPT ![s][s] = IF p.at >= @.at THEN p ELSE @]
      /\ unsent' = [unsent EXCEPT ![s] = p]
      /\ tied' = [tied EXCEPT ![s] = @ \/ prefs[s][s].at = p.at]
  BY DEF SavePreferences
<1>3. prefs[s][s].at \in Nat /\ now \in Nat /\ prefs[s][s].at <= now + 1 /\ p.at = now + 1
  BY Constants DEF Types, TasteType, Preference, PrefInv
<1> HIDE DEF p
<1>4. /\ prefs'[s][s] = p /\ prefs'[Other(s)] = prefs[Other(s)] /\ unsent'[s] = p
      /\ tied'[s] = (tied[s] \/ prefs[s][s].at = p.at)
  BY <1>2, <1>3, OtherSide DEF Types, TasteType, CountType
<1>5. Told(s)' \subseteq Told(s) \cup {p} /\ p \in Told(s)'
  <2>1. Way(s)' = Way(s)
    BY <1>1 DEF Local
  <2>2. p # NoPreference
    BY <1>3 DEF NoPreference
  <2> QED
    BY <1>4, <2>1, <2>2 DEF Told
<1>6. prefs'[s][s].at <= now' + 1
  BY <1>2, <1>3, <1>4
<1>7. ASSUME BothHere', ~tied'[s], ~cut'[s]
      PROVE  \A o \in Told(s)' \cup {prefs'[Other(s)][s]} : o.at < p.at \/ o = p
  <2>1. BothHere /\ ~tied[s] /\ ~cut[s] /\ prefs[s][s].at < p.at
    <3>1. BothHere
      BY <1>1, <1>7 DEF Local, BothHere
    <3>2. ~cut[s]
      BY <1>2, <1>7
    <3>3. ~tied[s] /\ prefs[s][s].at # p.at
      BY <1>4, <1>7
    <3>4. p.at = now + 1
      BY <1>3
    <3>5. prefs[s][s].at < p.at
      BY <1>3, <3>3, <3>4
    <3> QED
      BY <3>1, <3>2, <3>3, <3>5
  <2>2. \A o \in Told(s) \cup {prefs[Other(s)][s]} : o.at < prefs[s][s].at \/ o = prefs[s][s]
    BY <2>1 DEF PrefInv
  <2>3. \A o \in Told(s) \cup {prefs[Other(s)][s]} : o.at \in Nat
    <3>1. prefs[Other(s)][s].at \in Nat /\ unsent[s].at \in Nat
      BY OtherSide, Constants DEF Types, TasteType, Preference
    <3>2. \A o \in Way(s) : o.at \in Nat
      BY WayNumbers DEF Operation
    <3> QED
      BY <3>1, <3>2 DEF Told, PrefOf
  <2>4. \A o \in Told(s) \cup {prefs[Other(s)][s]} : o.at < p.at
    BY <1>3, <2>1, <2>2, <2>3
  <2> QED
    BY <1>4, <1>5, <2>4
<1> QED
  BY <1>4, <1>5, <1>6, <1>7 DEF PrefInv

(* The partner takes what it is told only if it was saved later.           *)
LEMMA ApplyPref ==
  ASSUME Types, Types', NEW s \in Side, NEW op, Applies(s, op), PrefInv(s)
  PROVE  PrefInv(s)'
<1> DEFINE q == Other(s)
           mine == prefs[s][s]
           theirs == prefs[q][s]
<1>1. q \in Side /\ q # s /\ Other(q) = s
  BY OtherSide
<1>2. /\ op \in Way(s) /\ Way(s)' \subseteq Way(s) /\ Way(s) \subseteq Way(s)' \cup {op}
      /\ ApplyCrdtOp(q, op) /\ UNCHANGED <<wiped, unsent, now, tied, cut>>
  BY DEF Applies
<1>3. (BothHere' => BothHere) /\ now \in Nat
  BY <1>2, Constants DEF BothHere, Types, TasteType
<1>4. CASE op.kind # "prompt_preference.set"
  <2>1. prefs' = prefs
    BY <1>2, <1>4 DEF ApplyCrdtOp, ApplyRoleSet, ApplySeverSchedule, ApplySeverCancel,
                      ApplyPreferenceSet, ApplySavedPostAdd
  <2>2. Told(s)' = Told(s)
    BY <1>2, <1>4 DEF Told
  <2> QED
    BY <1>2, <1>3, <2>1, <2>2, PrefKept
<1>5. CASE op.kind = "prompt_preference.set"
  <2>1. prefs' = [prefs EXCEPT ![q][s] = IF op.at > @.at THEN PrefOf(op) ELSE @]
    BY <1>1, <1>2, <1>5 DEF ApplyCrdtOp, ApplyRoleSet, ApplySeverSchedule, ApplySeverCancel,
                            ApplyPreferenceSet, ApplySavedPostAdd, PrefOf
  <2>2. /\ prefs'[s][s] = mine
        /\ prefs'[q][s] = IF op.at > theirs.at THEN PrefOf(op) ELSE theirs
    BY <1>1, <2>1 DEF Types, TasteType
  <2>3. /\ PrefOf(op) \in Told(s) /\ PrefOf(op).at = op.at
        /\ Told(s)' \subseteq Told(s) /\ Told(s) \subseteq Told(s)' \cup {PrefOf(op)}
    BY <1>2, <1>5 DEF Told, PrefOf
  <2>4. op.at \in Nat /\ theirs.at \in Nat /\ mine.at \in Nat
    BY <1>1, <1>2, WayNumbers, Constants DEF Operation, Types, TasteType, Preference
  <2>5. prefs'[s][s].at <= now' + 1
    BY <1>2, <2>2 DEF PrefInv
  <2>6. ASSUME BothHere', ~tied'[s], ~cut'[s]
        PROVE  /\ \A p \in Told(s)' \cup {prefs'[q][s]} : p.at < mine.at \/ p = mine
               /\ mine \in Told(s)' \cup {prefs'[q][s]}
    <3>1. /\ \A p \in Told(s) \cup {theirs} : p.at < mine.at \/ p = mine
          /\ mine \in Told(s) \cup {theirs}
      BY <1>2, <1>3, <2>6 DEF PrefInv
    <3>2. prefs'[q][s] \in {PrefOf(op), theirs}
      BY <2>2
    <3>3. mine \in Told(s)' \cup {prefs'[q][s]}
      <4>1. CASE mine \in Told(s)'
        BY <4>1
      <4>2. CASE mine = theirs /\ mine \notin Told(s)'
        <5>1. op.at <= mine.at
          BY <2>3, <2>4, <3>1
        <5> QED
          BY <2>2, <2>4, <4>2, <5>1
      <4>3. CASE mine # theirs /\ mine \notin Told(s)'
        <5>1. mine = PrefOf(op) /\ theirs.at < mine.at
          BY <2>3, <3>1, <4>3
        <5> QED
          BY <2>2, <2>3, <5>1
      <4> QED
        BY <4>1, <4>2, <4>3
    <3> QED
      BY <2>3, <3>1, <3>2, <3>3
  <2> HIDE DEF mine, theirs
  <2> QED
    BY <2>2, <2>5, <2>6 DEF PrefInv
<1> QED
  BY <1>4, <1>5

LEMMA NextPref ==
  ASSUME Types, Sent, [Next]_vars, NEW z \in Side, PrefInv(z)
  PROVE  PrefInv(z)'
<1>1. PICK s \in Side : StepOf(s)
  BY StepCases
<1>2. Types'
  BY NextTypes
<1>3. Other(z) \in Side
  BY OtherSide
(* A step that only issues, or only changes what is not compared here.     *)
<1>4. ASSUME BothHere' => BothHere, now <= now', UNCHANGED <<prefs, unsent, tied, cut>>,
             {o \in Way(z) : o.kind = "prompt_preference.set"}'
               = {o \in Way(z) : o.kind = "prompt_preference.set"}
      PROVE  PrefInv(z)'
  <2>1. Told(z)' = Told(z)
    BY <1>4 DEF Told
  <2> QED
    BY <1>2, <1>4, <2>1, PrefKept
<1>5. now <= now
  BY Constants DEF Types, TasteType
<1>6. ASSUME NEW op, Issues(s, op), op.kind # "prompt_preference.set"
      PROVE  /\ BothHere' => BothHere
             /\ {o \in Way(z) : o.kind = "prompt_preference.set"}'
                  = {o \in Way(z) : o.kind = "prompt_preference.set"}
  BY <1>6, OtherSide DEF Issues, BothHere
<1>7. CASE Quiet(s)
  BY <1>4, <1>7, QuietSteps DEF Local, BothHere, taste
<1>8. CASE \E c \in Choice : SavePreferences(s, c)
  <2>1. PICK c \in Choice : SavePreferences(s, c)
    BY <1>8
  <2>2. CASE z = s
    BY <2>1, <2>2, SavePreferencesInv
  <2>3. CASE z # s
    <3>1. /\ prefs' = [prefs EXCEPT ![s] = prefs'[s]] /\ unsent'[z] = unsent[z]
          /\ tied'[z] = tied[z] /\ cut'[z] = cut[z] /\ now' = now
      BY <2>1, <2>3 DEF SavePreferences, Types, TasteType, CountType
    <3>2. prefs'[z][z] = prefs[z][z] /\ prefs'[Other(z)][z] = prefs[Other(z)][z]
      BY <1>3, <2>1, <2>3 DEF SavePreferences, Types, TasteType
    <3>3. Told(z)' = Told(z) /\ (BothHere' => BothHere)
      BY <2>1, <3>1, SavePreferencesStep DEF Told, Local, BothHere
    <3> QED
      BY <3>1, <3>2, <3>3 DEF PrefInv
  <2> QED
    BY <2>2, <2>3
<1>9. CASE SaveCutShort(s)
  <2>1. Local /\ prefs' = prefs /\ now' = now /\ tied' = tied
    BY <1>9, SaveCutShortStep DEF SaveCutShort
  <2>2. CASE z = s
    <3>1. cut'[z]
      BY <1>9, <2>2 DEF SaveCutShort, Types, CountType
    <3> QED
      BY <2>1, <3>1 DEF PrefInv
  <2>3. CASE z # s
    <3>1. unsent'[z] = unsent[z] /\ cut'[z] = cut[z]
      BY <1>9, <2>3 DEF SaveCutShort, Types, TasteType, CountType
    <3>2. Told(z)' = Told(z) /\ (BothHere' => BothHere)
      BY <2>1, <3>1 DEF Told, Local, BothHere
    <3> QED
      BY <2>1, <3>1, <3>2 DEF PrefInv
  <2> QED
    BY <2>2, <2>3
<1>10. CASE \E b \in saved[s] : RemoveSaved(s, b)
  BY <1>4, <1>5, <1>10, RemoveSavedStep DEF Local, BothHere, taste
<1>11. CASE \/ \E r \in Role : SetMyRole(s, r)
            \/ \E at \in 0 .. MaxNow : ScheduleSever(s, at)
            \/ CancelSeverCommit(s)
            \/ \E p \in Post : SaveCommit(s, p)
  <2>1. PICK op : /\ Issues(s, op) /\ op.kind # "prompt_preference.set"
                  /\ UNCHANGED <<prefs, unsent, now, tied, cut>>
    BY <1>11, SetMyRoleStep, ScheduleSeverStep, CancelSeverCommitStep, SaveCommitStep DEF taste
  <2> QED
    BY <1>4, <1>5, <1>6, <2>1
<1>12. CASE BroadcastPreferences(s)
  <2>1. PICK op : /\ Issues(s, op)
                  /\ op.kind = "prompt_preference.set" /\ PrefOf(op) = unsent[s]
    BY <1>12, BroadcastPreferencesStep
  <2>2. /\ unsent[s] # NoPreference /\ unsent' = [unsent EXCEPT ![s] = NoPreference]
        /\ UNCHANGED <<prefs, now, tied, cut>>
    BY <1>12, BroadcastPreferencesStep
  <2>3. Told(z)' = Told(z)
    <3>1. CASE z = s
      <4>1. Way(s)' = Way(s) \cup {op} /\ unsent'[s] = NoPreference
        BY <2>1, <2>2 DEF Issues, Types, TasteType
      <4> QED
        BY <2>1, <2>2, <3>1, <4>1 DEF Told
    <3>2. CASE z # s
      <4>1. Way(z)' = Way(z) /\ unsent'[z] = unsent[z]
        BY <2>1, <2>2, <3>2, OtherSide DEF Issues, Types, TasteType
      <4> QED
        BY <4>1 DEF Told
    <3> QED
      BY <3>1, <3>2
  <2>4. BothHere' => BothHere
    BY <2>1 DEF Issues, BothHere
  <2> QED
    BY <1>2, <1>5, <2>2, <2>3, <2>4, PrefKept
<1>13. CASE ApplyNext(s)
  <2>1. PICK op : Applies(Other(s), op)
    BY <1>13, ApplyNextStep
  <2>2. CASE z = Other(s)
    BY <1>2, <2>1, <2>2, ApplyPref
  <2>3. CASE z = s
    <3>1. Way(s)' = Way(s) /\ UNCHANGED <<wiped, unsent, now, tied, cut>>
      BY <2>1, OtherSide DEF Applies
    <3>2. prefs'[s][s] = prefs[s][s] /\ prefs'[Other(s)][s] = prefs[Other(s)][s]
      BY <2>1, OtherSide
         DEF Applies, ApplyCrdtOp, ApplyRoleSet, ApplySeverSchedule, ApplySeverCancel,
             ApplyPreferenceSet, ApplySavedPostAdd, Types, TasteType
    <3>3. Told(s)' = Told(s) /\ (BothHere' => BothHere)
      BY <3>1 DEF Told, BothHere
    <3> QED
      BY <1>2, <1>5, <2>3, <3>1, <3>2, <3>3, PrefKept
  <2> QED
    BY <2>2, <2>3, OtherSide
<1>14. CASE MaybeFinalizeSever(s)
  <2>1. ~BothHere' /\ prefs' = prefs /\ now' = now
    BY <1>14, MaybeFinalizeSeverStep DEF Erases, BothHere, Types, RowType, Side, taste
  <2> QED
    BY <2>1 DEF PrefInv
<1> QED
  BY <1>1, <1>7, <1>8, <1>9, <1>10, <1>11, <1>12, <1>13, <1>14 DEF StepOf, LocalStep

-----------------------------------------------------------------------------
(* Bookmarks.                                                              *)

Unique(s) ==
  \A b, c \in saved[s] : b.by = s /\ c.by = s /\ b.post = c.post => b = c

Mirrors(s, b) ==
  \/ b \in saved[Other(s)]
  \/ \E op \in Way(s) : op.kind = "saved_post.add" /\ op.num = b.num /\ op.arg = b.post

LEMMA ShelfParts ==
  ASSUME NEW s \in Side
  PROVE  ShelfInv(s) <=> /\ Unique(s)
                         /\ BothHere => \A b \in saved[s] : b.by = s => Mirrors(s, b)
  BY DEF ShelfInv, Unique, Mirrors

(* Bookmarks of s on its own shelf and at the partner stay, and so do the  *)
(* operations that carry them.                                             *)
LEMMA ShelfKept ==
  ASSUME NEW s \in Side, ShelfInv(s), BothHere' => BothHere,
         \A b \in saved'[s] : b.by = s => b \in saved[s],
         \A b \in saved[Other(s)] : b.by = s => b \in saved'[Other(s)],
         Way(s) \subseteq Way(s)'
  PROVE  ShelfInv(s)'
  BY DEF ShelfInv

LEMMA SaveCommitInv ==
  ASSUME Types, NEW s \in Side, NEW p \in Post, SaveCommit(s, p), ShelfInv(s)
  PROVE  ShelfInv(s)'
<1>1. PICK op : Issues(s, op) /\ op.kind = "saved_post.add" /\ op.arg = p
  BY SaveCommitStep
<1>2. PICK new : new = [by |-> s, num |-> issued[s] + 1, post |-> p]
  OBVIOUS
<1>3. /\ ~Has(s, p) /\ saved' = [saved EXCEPT ![s] = @ \cup {new}]
      /\ new.by = s /\ new.post = p /\ new.num = op.num
  BY <1>1, <1>2, SaveCommitStep DEF Issues
<1>4. saved'[s] = saved[s] \cup {new} /\ saved'[Other(s)] = saved[Other(s)]
  BY <1>3, OtherSide DEF Types, ShelfType
<1>5. Way(s)' = Way(s) \cup {op} /\ (BothHere' => BothHere)
  BY <1>1 DEF Issues, BothHere
<1>6. Unique(s)'
  BY <1>3, <1>4 DEF ShelfInv, Unique, Has
<1>7. Mirrors(s, new)'
  BY <1>1, <1>3, <1>5 DEF Mirrors
<1>8. ASSUME NEW b \in saved[s], b.by = s, BothHere' PROVE Mirrors(s, b)'
  BY <1>4, <1>5, <1>8 DEF ShelfInv, Mirrors
<1>9. ShelfInv(s)' <=> /\ Unique(s)'
                       /\ BothHere' => \A b \in saved'[s] : b.by = s => Mirrors(s, b)'
  BY DEF ShelfInv, Unique, Mirrors
<1> QED
  BY <1>4, <1>6, <1>7, <1>8, <1>9

(* What is applied may be the operation that carries a bookmark: then the  *)
(* partner has the bookmark.                                               *)
LEMMA ApplyShelf ==
  ASSUME Types, Sent, NEW s \in Side, NEW op, Applies(s, op), ShelfInv(s)
  PROVE  ShelfInv(s)'
<1> DEFINE q == Other(s)
<1>1. q \in Side /\ q # s /\ Other(q) = s
  BY OtherSide
<1>2. /\ op \in Way(s) /\ Way(s) \subseteq Way(s)' \cup {op} /\ ApplyCrdtOp(q, op)
      /\ (BothHere' => BothHere)
  BY DEF Applies, BothHere
<1>3. CASE op.kind # "saved_post.add"
  <2>1. saved' = saved
    BY <1>2, <1>3 DEF ApplyCrdtOp, ApplyRoleSet, ApplySeverSchedule, ApplySeverCancel,
                      ApplyPreferenceSet, ApplySavedPostAdd
  <2> QED
    BY <1>2, <1>3, <2>1 DEF ShelfInv
<1>4. CASE op.kind = "saved_post.add"
  <2> DEFINE new == [by |-> s, num |-> op.num, post |-> op.arg]
  <2>1. saved' = [saved EXCEPT ![q] = @ \cup {new}]
    BY <1>1, <1>2, <1>4 DEF ApplyCrdtOp, ApplyRoleSet, ApplySeverSchedule, ApplySeverCancel,
                            ApplyPreferenceSet, ApplySavedPostAdd
  <2>2. saved'[s] = saved[s] /\ saved'[q] = saved[q] \cup {new}
    BY <1>1, <2>1 DEF Types, ShelfType
  <2>3. ASSUME NEW b \in saved[s], b.by = s, op.num = b.num, op.arg = b.post PROVE b = new
    BY <2>3 DEF Types, ShelfType, Bookmark
  <2> HIDE DEF new
  <2>4. ASSUME NEW b \in saved[s], b.by = s, BothHere' PROVE Mirrors(s, b)'
    <3>1. CASE b \in saved[q]
      BY <2>2, <3>1 DEF Mirrors
    <3>2. CASE b \notin saved[q]
      <4>1. PICK o \in Way(s) :
              o.kind = "saved_post.add" /\ o.num = b.num /\ o.arg = b.post
        BY <1>2, <2>4, <3>2 DEF ShelfInv
      <4>2. CASE o = op
        BY <2>2, <2>3, <2>4, <4>1, <4>2 DEF Mirrors
      <4>3. CASE o # op
        BY <1>2, <4>1, <4>3 DEF Mirrors
      <4> QED
        BY <4>2, <4>3
    <3> QED
      BY <3>1, <3>2
  <2>5. Unique(s)'
    BY <2>2 DEF ShelfInv, Unique
  <2>6. ShelfInv(s)' <=> /\ Unique(s)'
                         /\ BothHere' => \A b \in saved'[s] : b.by = s => Mirrors(s, b)'
    BY DEF ShelfInv, Unique, Mirrors
  <2> QED
    BY <2>2, <2>4, <2>5, <2>6
<1> QED
  BY <1>3, <1>4

LEMMA NextShelf ==
  ASSUME Types, Sent, [Next]_vars, NEW z \in Side, ShelfInv(z)
  PROVE  ShelfInv(z)'
<1>1. PICK s \in Side : StepOf(s)
  BY StepCases
<1>2. Other(z) \in Side /\ Other(z) # z
  BY OtherSide
<1>3. ASSUME NEW op, Issues(s, op) PROVE Way(z) \subseteq Way(z)' /\ (BothHere' => BothHere)
  BY <1>3, OtherSide DEF Issues, BothHere
<1>4. CASE LocalStep(s) /\ saved' = saved
  <2>1. Way(z)' = Way(z) /\ (BothHere' => BothHere)
    BY <1>4, LocalSteps DEF Local, BothHere
  <2> QED
    BY <1>4, <2>1, ShelfKept
<1>5. CASE \E b \in saved[s] : RemoveSaved(s, b)
  <2>1. PICK b \in saved[s] : RemoveSaved(s, b)
    BY <1>5
  <2>2. Way(z)' = Way(z) /\ (BothHere' => BothHere)
    BY <2>1, RemoveSavedStep DEF Local, BothHere
  <2>3. b.by = s /\ saved' = [saved EXCEPT ![s] = @ \ {b}]
    BY <2>1 DEF RemoveSaved
  <2>4. saved'[z] \subseteq saved[z]
    BY <2>3 DEF Types, ShelfType
  <2>5. \A c \in saved[Other(z)] : c.by = z => c \in saved'[Other(z)]
    BY <1>2, <2>3 DEF Types, ShelfType
  <2> QED
    BY <2>2, <2>4, <2>5, ShelfKept
<1>6. CASE \/ \E r \in Role : SetMyRole(s, r)
           \/ \E at \in 0 .. MaxNow : ScheduleSever(s, at)
           \/ CancelSeverCommit(s) \/ BroadcastPreferences(s)
  <2>1. PICK op : Issues(s, op) /\ saved' = saved
    BY <1>6, SetMyRoleStep, ScheduleSeverStep, CancelSeverCommitStep, BroadcastPreferencesStep
  <2> QED
    BY <1>3, <2>1, ShelfKept
<1>7. CASE \E p \in Post : SaveCommit(s, p)
  <2>1. PICK p \in Post : SaveCommit(s, p)
    BY <1>7
  <2>2. CASE z = s
    BY <2>1, <2>2, SaveCommitInv
  <2>3. CASE z # s
    <3>1. PICK op : Issues(s, op)
      BY <2>1, SaveCommitStep
    <3>2. saved' = [saved EXCEPT ![s] = @ \cup {[by |-> s, num |-> issued[s] + 1, post |-> p]}]
      BY <2>1, SaveCommitStep
    <3>3. saved'[z] = saved[z] /\ saved[Other(z)] \subseteq saved'[Other(z)]
      BY <1>2, <2>3, <3>2 DEF Types, ShelfType
    <3> QED
      BY <1>3, <3>1, <3>3, ShelfKept
  <2> QED
    BY <2>2, <2>3
<1>8. CASE ApplyNext(s)
  <2>1. PICK op : Applies(Other(s), op)
    BY <1>8, ApplyNextStep
  <2>2. CASE z = Other(s)
    BY <1>2, <2>1, <2>2, ApplyShelf
  <2>3. CASE z = s
    <3>1. Way(s)' = Way(s) /\ (BothHere' => BothHere) /\ ApplyCrdtOp(s, op)
      BY <2>1, OtherSide DEF Applies, BothHere
    <3>2. /\ saved'[Other(s)] = saved[Other(s)]
          /\ saved'[s] \subseteq
               saved[s] \cup {[by |-> Other(s), num |-> op.num, post |-> op.arg]}
      BY <1>2, <2>3, <3>1
         DEF ApplyCrdtOp, ApplyRoleSet, ApplySeverSchedule, ApplySeverCancel,
             ApplyPreferenceSet, ApplySavedPostAdd, Types, ShelfType
    <3>3. \A b \in saved'[s] : b.by = s => b \in saved[s]
      BY <1>2, <2>3, <3>2
    <3> QED
      BY <2>3, <3>1, <3>2, <3>3, ShelfKept
  <2> QED
    BY <2>2, <2>3, OtherSide
<1>9. CASE MaybeFinalizeSever(s)
  <2>1. ~BothHere' /\ saved' = saved
    BY <1>9, MaybeFinalizeSeverStep DEF Erases, BothHere, Types, RowType, Side, shelf
  <2> QED
    BY <2>1 DEF ShelfInv
<1>10. LocalStep(s) => saved' = saved \/ \E b \in saved[s] : RemoveSaved(s, b)
  BY QuietSteps, SavePreferencesStep, SaveCutShortStep DEF LocalStep
<1> QED
  BY <1>1, <1>4, <1>5, <1>6, <1>7, <1>8, <1>9, <1>10 DEF StepOf

-----------------------------------------------------------------------------
(* The theorems.                                                           *)

LEMMA InitIInv == Init => IInv
<1> SUFFICES ASSUME Init PROVE IInv
  OBVIOUS
<1>1. Types /\ Sent /\ \A s \in Side : Way(s) = {}
  BY InitTypes, InitSent
<1>2. "a" \in Side
  BY DEF Side
<1>3. SeverInv
  BY <1>1, <1>2, OtherSide DEF SeverInv, Leads, SeverOps, SeverAgrees, Init, Side
<1>4. ASSUME NEW s \in Side PROVE RoleInv(s) /\ PrefInv(s) /\ ShelfInv(s)
  <2>1. RoleInv(s)
    BY <1>1, OtherSide DEF RoleInv, RoleOps, Init
  <2>2. PrefInv(s)
    <3>1. /\ prefs[s][s] = NoPreference /\ prefs[Other(s)][s] = NoPreference
          /\ unsent[s] = NoPreference /\ now = 0
      BY OtherSide DEF Init
    <3>2. Told(s) = {}
      BY <1>1, <3>1 DEF Told
    <3> QED
      BY <3>1, <3>2 DEF PrefInv, NoPreference
  <2>3. ShelfInv(s)
    BY DEF ShelfInv, Init
  <2> QED
    BY <2>1, <2>2, <2>3
<1> QED
  BY <1>1, <1>3, <1>4, TypeParts DEF IInv

LEMMA NextIInv == IInv /\ [Next]_vars => IInv'
<1> SUFFICES ASSUME IInv, [Next]_vars PROVE IInv'
  OBVIOUS
<1>1. Types /\ Sent /\ SeverInv
  BY TypeParts DEF IInv
<1>2. TypeOK'
  <2>1. Types'
    BY <1>1, NextTypes
  <2> QED
    BY <2>1 DEF TypeOK, Types, RowType, TasteType, ShelfType, CountType
<1>3. Sent' /\ SeverInv'
  BY <1>1, NextSent, NextSever
<1>4. \A s \in Side : RoleInv(s)' /\ PrefInv(s)' /\ ShelfInv(s)'
  BY <1>1, NextRole, NextPref, NextShelf DEF IInv
<1> QED
  BY <1>2, <1>3, <1>4 DEF IInv

(* The inductive invariant: what a phone holds of its partner is what the  *)
(* partner holds of itself, or the operations from which applyCrdtOp makes *)
(* it so are queued or on the relay.                                       *)
THEOREM ConnectionRowIInv == Spec => []IInv
  BY InitIInv, NextIInv, PTL DEF Spec

(* Types, and: the columns of a pending sever are both set or both NULL.   *)
THEOREM ConnectionRowTypeOK == Spec => []TypeOK
<1>1. IInv => TypeOK
  BY DEF IInv
<1> QED
  BY <1>1, ConnectionRowIInv, PTL

(* setMyRole and its operation: the partner ends with the role declared    *)
(* last, however many were declared, queued, retried or delivered twice,   *)
(* as long as none is applied behind a newer operation.                    *)
THEOREM ConnectionRowRolesSettleInOrder == Spec => []RolesSettleInOrder
<1>1. IInv => RolesSettleInOrder
  <2> SUFFICES ASSUME IInv, NEW s \in Side, BothHere, Drained(s), ~reordered[Other(s)]
               PROVE  role[Other(s)][s] = role[s][s]
    BY DEF RolesSettleInOrder
  <2>1. Way(s) = {}
    BY TypeParts, DrainedWay DEF IInv, Types
  <2> QED
    BY <2>1 DEF IInv, RoleInv, RoleOps, InOrder, Behind
<1> QED
  BY <1>1, ConnectionRowIInv, PTL

(* scheduleSever and cancelSever: both phones end with the same pending    *)
(* sever, or none, after any number of severs and undos, unless they       *)
(* crossed or were applied out of order.                                   *)
THEOREM ConnectionRowSeverSettlesInOrder == Spec => []SeverSettlesInOrder
<1>1. IInv => SeverSettlesInOrder
  <2> SUFFICES ASSUME IInv, BothHere, \A s \in Side : Drained(s) /\ ~reordered[s], ~crossed
               PROVE  SeverAgrees
    BY DEF SeverSettlesInOrder
  <2>1. \A s \in Side : Way(s) = {} /\ ~reordered[Other(s)]
    BY TypeParts, DrainedWay, OtherSide DEF IInv, Types
  <2>2. PICK s \in Side : Leads(s)
    BY <2>1 DEF IInv, SeverInv, InOrder, Behind
  <2> QED
    BY <2>1, <2>2 DEF Leads, SeverOps
<1> QED
  BY <1>1, ConnectionRowIInv, PTL

(* setMyPromptCategories: the partner ends with the set saved last, in     *)
(* whatever order and however often the operations come.                   *)
THEOREM ConnectionRowPreferencesSettle == Spec => []PreferencesSettle
<1>1. IInv => PreferencesSettle
  <2> SUFFICES ASSUME IInv, NEW s \in Side, BothHere, Drained(s),
                      unsent[s] = NoPreference, ~tied[s], ~cut[s]
               PROVE  prefs[Other(s)][s] = prefs[s][s]
    BY DEF PreferencesSettle
  <2>1. Way(s) = {}
    BY TypeParts, DrainedWay DEF IInv, Types
  <2>2. Told(s) = {}
    BY <2>1 DEF Told
  <2> QED
    BY <2>2 DEF IInv, PrefInv
<1> QED
  BY <1>1, ConnectionRowIInv, PTL

(* saveGlobalPost: a post is on one's shelf once, however often the button *)
(* is tapped, and the partner's mirror ends with all of it.                *)
THEOREM ConnectionRowBookmarksSettle == Spec => []BookmarksSettle
<1>1. IInv => BookmarksSettle
  <2> SUFFICES ASSUME IInv, NEW s \in Side
               PROVE  /\ Unique(s)
                      /\ BothHere /\ Drained(s) =>
                           {b \in saved[s] : b.by = s} \subseteq saved[Other(s)]
    BY DEF BookmarksSettle, Unique
  <2>1. Drained(s) => Way(s) = {}
    BY TypeParts, DrainedWay DEF IInv, Types
  <2>2. /\ Unique(s)
        /\ BothHere => \A b \in saved[s] : b.by = s => Mirrors(s, b)
    BY ShelfParts DEF IInv
  <2> QED
    BY <2>1, <2>2 DEF Mirrors
<1> QED
  BY <1>1, ConnectionRowIInv, PTL

=============================================================================

--------------------------- MODULE ConnectionRow ---------------------------
(***************************************************************************)
(* What the two partners tell each other about themselves and the          *)
(* connection: the roles (features/connection/role-store.ts), the pending  *)
(* sever (features/connection/sever.ts), the prompt preferences            *)
(* (features/secret-unlock/preferences-store.ts) and the bookmarks         *)
(* (connection-channel/saved-post-store.ts), with the cases of applyCrdtOp *)
(* that write them on the other phone (connection-channel/projector.ts).   *)
(*                                                                         *)
(* Roles and sever are columns every write overwrites, whatever it meets;  *)
(* preferences carry the time they were saved, and a later one wins;       *)
(* bookmarks are rows that are only added.                                 *)
(***************************************************************************)
EXTENDS Wire

CONSTANTS
  Role,        \* the roles a partner may declare
  Grace,       \* the grace windows a sever is scheduled with
  Choice,      \* sets of prompt categories a partner may enable
  Post,        \* posts of the public feed
  Mixes,       \* bound: the kinds of operations each phone issues in one behaviour
  MaxOps,      \* bound: operations each partner issues
  MaxTaps,     \* bound: "save" calls in flight for one post
  MaxNow       \* bound: the clock, and the time a sever is due

Kind == {"role.set", "sever.schedule", "sever.cancel", "prompt_preference.set",
         "saved_post.add"}

ASSUME ConnectionRowAssumption ==
  /\ Grace \subseteq Nat
  /\ Mixes \subseteq [Side -> SUBSET Kind]
  /\ MaxTaps \in Nat
  /\ MaxOps \in Nat
  /\ MaxNow \in Nat
  /\ "none" \notin Role \cup Choice \cup Post

VARIABLES
  role,        \* [Side -> [Side -> Role or "none"]]: role[s][q], what phone s holds for q
  initiatedBy, \* [Side -> Side or "none"]: sever_initiated_by
  severAt,     \* [Side -> Nat or Never]: sever_at
  wiped,       \* [Side -> BOOLEAN]: the connection was erased from this phone
  undoing,     \* [Side -> BOOLEAN]: a cancelSever call past its guard
  prefs,       \* [Side -> [Side -> Preference]]: the row of prompt_preference for a partner
  unsent,      \* [Side -> Preference]: saved, its operation not queued yet
  saved,       \* [Side -> SUBSET Bookmark]: saved_post
  saving,      \* [Side -> [Post -> Nat]]: saveGlobalPost calls past their first look
  mix,         \* [Side -> SUBSET Kind]: bound, what is issued in this behaviour
  now,         \* the clock both phones read
  issued,      \* [Side -> Nat]: operations issued so far, numbers them
  newest,      \* [Side -> Nat]: history, number of the newest op a side has applied
  reordered,   \* [Side -> BOOLEAN]: history, a side applied an op behind a newer one
  crossed,     \* history, a sever op crossed one of the partner, or undid one
  tied,        \* [Side -> BOOLEAN]: history, preferences saved twice in one second
  cut          \* [Side -> BOOLEAN]: history, killed before preferences were queued

row     == <<role, initiatedBy, severAt, wiped>>
taste   == <<prefs, unsent>>
shelf   == <<saved, saving>>
phone   == <<row, undoing, taste, shelf, mix>>
history == <<newest, reordered, crossed, tied, cut>>
vars    == <<wireVars, phone, now, issued, history>>

Never == MaxNow + 1       \* NULL, beyond every time a sever can be due

(* No row yet: getPromptCategories answers with the default set. *)
NoPreference == [at |-> 0, set |-> "none"]

Init ==
  /\ WireInit
  /\ role = [s \in Side |-> [q \in Side |-> "none"]]
  /\ initiatedBy = [s \in Side |-> "none"]
  /\ severAt = [s \in Side |-> Never]
  /\ wiped = [s \in Side |-> FALSE]
  /\ undoing = [s \in Side |-> FALSE]
  /\ prefs = [s \in Side |-> [q \in Side |-> NoPreference]]
  /\ unsent = [s \in Side |-> NoPreference]
  /\ saved = [s \in Side |-> {}]
  /\ saving = [s \in Side |-> [p \in Post |-> 0]]
  /\ mix \in Mixes
  /\ now = 0
  /\ issued = [s \in Side |-> 0]
  /\ newest = [s \in Side |-> 0]
  /\ reordered = [s \in Side |-> FALSE]
  /\ crossed = FALSE
  /\ tied = [s \in Side |-> FALSE]
  /\ cut = [s \in Side |-> FALSE]

Tick ==
  /\ now < MaxNow
  /\ now' = now + 1
  /\ UNCHANGED <<wireVars, phone, issued, history>>

(* enqueueOutbox: the operation joins the outbox. *)
Issue(s, kind, arg, at) ==
  /\ kind \in mix[s]
  /\ ~wiped[s]
  /\ issued[s] < MaxOps
  /\ issued' = [issued EXCEPT ![s] = @ + 1]
  /\ Queue(s, [kind |-> kind, num |-> issued[s] + 1, arg |-> arg, at |-> at])

OnItsWay(s) ==
  {outbox[s][i] : i \in DOMAIN outbox[s]} \cup {e.op : e \in inbox[Other(s)]}

Crosses(s) ==
  \E op \in OnItsWay(Other(s)) : op.kind \in {"sever.schedule", "sever.cancel"}

-----------------------------------------------------------------------------
(* Roles and sever: one transaction each, the UPDATE and the outbox row.   *)

(* setMyRole. *)
SetMyRole(s, r) ==
  /\ Issue(s, "role.set", r, 0)
  /\ role' = [role EXCEPT ![s][s] = r]
  /\ UNCHANGED <<initiatedBy, severAt, wiped, undoing, taste, shelf, mix, now, history>>

(* scheduleSever, by either partner, over whatever is pending. *)
ScheduleSever(s, at) ==
  /\ Issue(s, "sever.schedule", "none", at)
  /\ initiatedBy' = [initiatedBy EXCEPT ![s] = s]
  /\ severAt' = [severAt EXCEPT ![s] = at]
  /\ crossed' = (crossed \/ Crosses(s))
  /\ UNCHANGED <<role, wiped, undoing, taste, shelf, mix, now, newest, reordered, tied, cut>>

(* The banner of a pending sever: who started it decides what it offers. *)
BannerUp(s) == severAt[s] # Never
OffersUndo(s) == BannerUp(s) /\ initiatedBy[s] = s

(* "Terminate" in the settings, with a grace window ... *)
Terminate(s, g) ==
  /\ now + g <= MaxNow
  /\ ScheduleSever(s, now + g)

(* ... and "End now" on the banner of a pending sever; the flush and the   *)
(* wipe it goes on with are Sync and MaybeFinalizeSever.                   *)
EndNow(s) ==
  /\ BannerUp(s)
  /\ ScheduleSever(s, now)

(* cancelSever, the initiator's undo: it reads the row and checks who      *)
(* started the sever ...                                                   *)
CancelSever(s) ==
  /\ ~wiped[s] /\ ~undoing[s]
  /\ issued[s] < MaxOps
  /\ OffersUndo(s)
  /\ undoing' = [undoing EXCEPT ![s] = TRUE]
  /\ UNCHANGED <<wireVars, row, taste, shelf, mix, now, issued, history>>

(* ... and then clears the columns, whatever they hold by now. *)
CancelSeverCommit(s) ==
  /\ undoing[s]
  /\ undoing' = [undoing EXCEPT ![s] = FALSE]
  /\ Issue(s, "sever.cancel", "none", now)
  /\ initiatedBy' = [initiatedBy EXCEPT ![s] = "none"]
  /\ severAt' = [severAt EXCEPT ![s] = Never]
  /\ crossed' = (crossed \/ Crosses(s) \/ initiatedBy[s] = Other(s))
  /\ UNCHANGED <<role, wiped, taste, shelf, mix, now, newest, reordered, tied, cut>>

-----------------------------------------------------------------------------
(* Prompt preferences.                                                     *)

(* setMyPromptCategories, from the preferences screen: the row is written, *)
(* unless it holds a later time ...                                        *)
SavePreferences(s, c) ==
  LET p == [at |-> now + 1, set |-> c] IN
  /\ "prompt_preference.set" \in mix[s]
  /\ ~wiped[s] /\ unsent[s] = NoPreference
  /\ issued[s] < MaxOps
  /\ prefs' = [prefs EXCEPT ![s][s] = IF p.at >= @.at THEN p ELSE @]
  /\ unsent' = [unsent EXCEPT ![s] = p]
  /\ tied' = [tied EXCEPT ![s] = @ \/ prefs[s][s].at = p.at]
  /\ UNCHANGED <<wireVars, row, undoing, shelf, mix, now, issued,
                 newest, reordered, crossed, cut>>

(* ... and only then queued, outside any transaction, *)
BroadcastPreferences(s) ==
  /\ unsent[s] # NoPreference
  /\ unsent' = [unsent EXCEPT ![s] = NoPreference]
  /\ Issue(s, "prompt_preference.set", unsent[s].set, unsent[s].at)
  /\ UNCHANGED <<row, undoing, prefs, shelf, mix, now, history>>

(* or the app is killed in between, and the partner is never told.  (In    *)
(* the other operations a kill is a step that is not taken.)               *)
SaveCutShort(s) ==
  /\ unsent[s] # NoPreference
  /\ unsent' = [unsent EXCEPT ![s] = NoPreference]
  /\ cut' = [cut EXCEPT ![s] = TRUE]
  /\ WireFault
  /\ UNCHANGED <<outbox, inbox, page, posted, row, undoing, prefs, shelf, mix, now, issued,
                 newest, reordered, crossed, tied>>

-----------------------------------------------------------------------------
(* Bookmarks.                                                              *)

Has(s, p) == \E b \in saved[s] : b.by = s /\ b.post = p

(* saveGlobalPost: it looks for the row before ... *)
SaveBegin(s, p) ==
  /\ "saved_post.add" \in mix[s]
  /\ saving[s][p] < MaxTaps
  /\ ~wiped[s] /\ ~Has(s, p)
  /\ saving' = [saving EXCEPT ![s][p] = @ + 1]
  /\ UNCHANGED <<wireVars, row, undoing, taste, saved, mix, now, issued, history>>

SaveRow(s, p) ==
  /\ saving[s][p] > 0
  /\ saving' = [saving EXCEPT ![s][p] = @ - 1]
  /\ saved' = [saved EXCEPT ![s] = @ \cup {[by |-> s, num |-> issued[s] + 1, post |-> p]}]
  /\ Issue(s, "saved_post.add", p, 0)
  /\ UNCHANGED <<row, undoing, taste, mix, now, history>>

(* Mutant: it does not look again inside the transaction. *)
SaveCommitBlind(s, p) == SaveRow(s, p)

(* ... and again inside the transaction that inserts and queues it; *)
SaveCommit(s, p) == ~Has(s, p) /\ SaveRow(s, p)

(* a second tap finds the row of the first. *)
SaveSkip(s, p) ==
  /\ saving[s][p] > 0 /\ Has(s, p)
  /\ saving' = [saving EXCEPT ![s][p] = @ - 1]
  /\ UNCHANGED <<wireVars, row, undoing, taste, saved, mix, now, issued, history>>

(* removeSavedPost: this phone's row only, no operation tells the partner. *)
RemoveSaved(s, b) ==
  /\ b \in saved[s] /\ b.by = s
  /\ saved' = [saved EXCEPT ![s] = @ \ {b}]
  /\ UNCHANGED <<wireVars, row, undoing, taste, saving, mix, now, issued, history>>

-----------------------------------------------------------------------------
(* applyCrdtOp on phone s.                                                 *)

(* Mutant: the first value a partner declares is final. *)
ApplyRoleSetFirst(s, op) ==
  /\ op.kind = "role.set"
  /\ role' = [role EXCEPT ![s][Other(s)] = IF @ = "none" THEN op.arg ELSE @]
  /\ UNCHANGED <<initiatedBy, severAt, prefs, saved>>

ApplyRoleSet(s, op) ==
  /\ op.kind = "role.set"
  /\ role' = [role EXCEPT ![s][Other(s)] = op.arg]
  /\ UNCHANGED <<initiatedBy, severAt, prefs, saved>>

(* Mutant: an earlier deadline is kept. *)
ApplySeverScheduleKeepsEarlier(s, op) ==
  /\ op.kind = "sever.schedule"
  /\ initiatedBy' = [initiatedBy EXCEPT ![s] = Other(s)]
  /\ severAt' = [severAt EXCEPT ![s] = IF op.at < @ THEN op.at ELSE @]
  /\ UNCHANGED <<role, prefs, saved>>

ApplySeverSchedule(s, op) ==
  /\ op.kind = "sever.schedule"
  /\ initiatedBy' = [initiatedBy EXCEPT ![s] = Other(s)]
  /\ severAt' = [severAt EXCEPT ![s] = op.at]
  /\ UNCHANGED <<role, prefs, saved>>

ApplySeverCancel(s, op) ==
  LET hit == initiatedBy[s] = Other(s) IN
  /\ op.kind = "sever.cancel"
  /\ initiatedBy' = [initiatedBy EXCEPT ![s] = IF hit THEN "none" ELSE @]
  /\ severAt' = [severAt EXCEPT ![s] = IF hit THEN Never ELSE @]
  /\ UNCHANGED <<role, prefs, saved>>

(* Mutant: preferences overwrite, like a role. *)
ApplyPreferenceSetAny(s, op) ==
  /\ op.kind = "prompt_preference.set"
  /\ prefs' = [prefs EXCEPT ![s][Other(s)] = [at |-> op.at, set |-> op.arg]]
  /\ UNCHANGED <<role, initiatedBy, severAt, saved>>

ApplyPreferenceSet(s, op) ==
  /\ op.kind = "prompt_preference.set"
  /\ prefs' = [prefs EXCEPT ![s][Other(s)] =
                  IF op.at > @.at THEN [at |-> op.at, set |-> op.arg] ELSE @]
  /\ UNCHANGED <<role, initiatedBy, severAt, saved>>

(* INSERT OR IGNORE by id: the copy of an operation adds nothing. *)
ApplySavedPostAdd(s, op) ==
  /\ op.kind = "saved_post.add"
  /\ saved' = [saved EXCEPT ![s] = @ \cup {[by |-> Other(s), num |-> op.num, post |-> op.arg]}]
  /\ UNCHANGED <<role, initiatedBy, severAt, prefs>>

ApplyCrdtOp(s, op) ==
  \/ ApplyRoleSet(s, op) \/ ApplySeverSchedule(s, op) \/ ApplySeverCancel(s, op)
  \/ ApplyPreferenceSet(s, op) \/ ApplySavedPostAdd(s, op)

ApplyNext(s) ==
  \E e \in page[s] :
    LET op == e.op IN
    /\ ~wiped[s]
    /\ Take(s, e)
    /\ ApplyCrdtOp(s, op)
    /\ newest' = [newest EXCEPT ![s] = IF op.num > @ THEN op.num ELSE @]
    /\ reordered' = [reordered EXCEPT ![s] = @ \/ op.num < newest[s]]
    /\ UNCHANGED <<wiped, undoing, unsent, saving, mix, now, issued, crossed, tied, cut>>

-----------------------------------------------------------------------------
(* A pending sever whose time has come. *)
Due(s) == severAt[s] <= now

(* afterPull, which the ticker calls after every cycle: maybeFinalizeSever *)
(* and wipeConnectionData delete the row, the outbox and the rest of the   *)
(* channel, queued operations included (neither prompt_preference nor      *)
(* saved_post), and the phone is unpaired.                                 *)
MaybeFinalizeSever(s) ==
  /\ ~wiped[s] /\ Due(s)
  /\ wiped' = [wiped EXCEPT ![s] = TRUE]
  /\ role' = [role EXCEPT ![s] = [q \in Side |-> "none"]]
  /\ initiatedBy' = [initiatedBy EXCEPT ![s] = "none"]
  /\ severAt' = [severAt EXCEPT ![s] = Never]
  /\ undoing' = [undoing EXCEPT ![s] = FALSE]
  /\ Forget(s)
  /\ UNCHANGED <<taste, shelf, mix, now, issued, history>>

Sync(s) ==
  /\ ~wiped[s]
  /\ WireStep(s)
  /\ UNCHANGED <<phone, now, issued, history>>

Next ==
  \/ Tick
  \/ \E s \in Side :
       \/ \E r \in Role : SetMyRole(s, r)
       \/ \E g \in Grace : Terminate(s, g)
       \/ EndNow(s)
       \/ CancelSever(s) \/ CancelSeverCommit(s)
       \/ \E c \in Choice : SavePreferences(s, c)
       \/ BroadcastPreferences(s) \/ SaveCutShort(s)
       \/ \E p \in Post : SaveBegin(s, p) \/ SaveCommit(s, p) \/ SaveSkip(s, p)
       \/ \E b \in saved[s] : RemoveSaved(s, b)
       \/ Sync(s) \/ ApplyNext(s)
       \/ MaybeFinalizeSever(s)

Spec == Init /\ [][Next]_vars

(* The ticker of a phone keeps running its cycle, and time passes. *)
FairSpec ==
  /\ Spec
  /\ WF_vars(Tick)
  /\ \A s \in Side :
       /\ WF_vars(Sync(s))
       /\ WF_vars(ApplyNext(s))
       /\ WF_vars(MaybeFinalizeSever(s))

-----------------------------------------------------------------------------
Operation == [kind : Kind, num : 1 .. MaxOps,
              arg : Role \cup Choice \cup Post \cup {"none"}, at : Nat]
Preference == [at : 0 .. MaxNow + 1, set : Choice \cup {"none"}]
Bookmark   == [by : Side, num : 1 .. MaxOps, post : Post]

TypeOK ==
  /\ WireTypeOK(Operation)
  /\ role \in [Side -> [Side -> Role \cup {"none"}]]
  /\ initiatedBy \in [Side -> Side \cup {"none"}]
  /\ severAt \in [Side -> Nat]
  /\ wiped \in [Side -> BOOLEAN]
  /\ undoing \in [Side -> BOOLEAN]
  /\ prefs \in [Side -> [Side -> Preference]]
  /\ unsent \in [Side -> Preference]
  /\ saved \in [Side -> SUBSET Bookmark]
  /\ saving \in [Side -> [Post -> 0 .. MaxTaps]]
  /\ mix \in Mixes
  /\ now \in 0 .. MaxNow
  /\ issued \in [Side -> 0 .. MaxOps]
  /\ newest \in [Side -> 0 .. MaxOps]
  /\ reordered \in [Side -> BOOLEAN]
  /\ crossed \in BOOLEAN
  /\ tied \in [Side -> BOOLEAN] /\ cut \in [Side -> BOOLEAN]
  /\ \A s \in Side : severAt[s] = Never <=> initiatedBy[s] = "none"

BothHere == ~wiped["a"] /\ ~wiped["b"]

(* Once everything a partner issued has been applied, the other phone      *)
(* holds the role the partner declared last (op.ts 278-280: "the latest    *)
(* value sticks").                                                         *)
RolesSettle ==
  \A s \in Side :
    BothHere /\ Drained(s) => role[Other(s)][s] = role[s][s]

(* The same while no operation is applied behind a newer one: order is all *)
(* the overwriting UPDATE depends on, the newest may even come twice.      *)
RolesSettleInOrder ==
  \A s \in Side :
    BothHere /\ Drained(s) /\ ~reordered[Other(s)] => role[Other(s)][s] = role[s][s]

SeverAgrees == severAt["a"] = severAt["b"] /\ initiatedBy["a"] = initiatedBy["b"]

(* Once everything is applied, an undone sever is pending on neither phone *)
(* (op.ts 559: "The initiator may cancel (undo) any time before            *)
(* severAt").                                                              *)
UndoSettles ==
  \A s \in Side :
    BothHere /\ Drained(s) /\ severAt[s] = Never => initiatedBy[Other(s)] # s

(* Both phones agree on the pending sever once everything is applied, if   *)
(* operations came in order, no sever operation crossed one of the         *)
(* partner, and no undo cleared a sever the partner started meanwhile.     *)
SeverSettlesInOrder ==
  /\ BothHere
  /\ \A s \in Side : Drained(s) /\ ~reordered[s]
  /\ ~crossed
  => SeverAgrees

(* When "the partner started it ... only they can call it off" (sever.ts   *)
(* 105-107): an undo never clears a sever the partner started.             *)
OnlyOwnSeverUndone ==
  [][\A s \in Side :
       undoing[s] /\ ~undoing'[s] /\ ~wiped'[s] => initiatedBy[s] # Other(s)]_vars

(* Once everything a partner issued has been applied, in whatever order    *)
(* and however often, the other phone holds the preferences saved last:    *)
(* the stamp decides, unless two were saved within its second or the app   *)
(* was killed before one was queued.                                       *)
PreferencesSettle ==
  \A s \in Side :
    BothHere /\ Drained(s) /\ unsent[s] = NoPreference /\ ~tied[s] /\ ~cut[s] =>
      prefs[Other(s)][s] = prefs[s][s]

(* "LWW ... means a stale local re-write ... cannot clobber the row"       *)
(* (preferences-store.ts 28-31), two within one second included.           *)
PreferencesSettleInSecond ==
  \A s \in Side :
    BothHere /\ Drained(s) /\ unsent[s] = NoPreference /\ ~cut[s] =>
      prefs[Other(s)][s] = prefs[s][s]

(* However often "save" is tapped, a post is on one's shelf once, and once *)
(* everything is applied the partner's mirror holds every bookmark of      *)
(* one's shelf.                                                            *)
BookmarksSettle ==
  \A s \in Side :
    /\ \A b, c \in saved[s] : b.by = s /\ c.by = s /\ b.post = c.post => b = c
    /\ BothHere /\ Drained(s) => {b \in saved[s] : b.by = s} \subseteq saved[Other(s)]

(* The end of a connection is never one-sided for long: "both devices then *)
(* wipe all connection-scoped data once severAt passes" (op.ts 556-557).   *)
BothWipe == \A s \in Side : wiped[s] ~> wiped[Other(s)]

=============================================================================

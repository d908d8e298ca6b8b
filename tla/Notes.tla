-------------------------------- MODULE Notes --------------------------------
(***************************************************************************)
(* Notes: features/notes/store.ts, the drafts of pending-store.ts, the     *)
(* screens that offer the operations and the note.* cases of applyCrdtOp.  *)
(*                                                                         *)
(* A store function reads the note, decides what to do and what to send,   *)
(* and only then opens a transaction that looks at parts of the row again. *)
(* What happens in between is what the properties are about: an edit while *)
(* the note is revealed, a deletion while it is published, a pull.         *)
(*                                                                         *)
(* A text stands for the body with its title and comment and is named by   *)
(* the number of its writing; a post of the feed is known by its text,     *)
(* because the server gives equal bodies one id.  Attachments are the      *)
(* subject of module Media.                                                *)
(***************************************************************************)
EXTENDS Wire

CONSTANTS
  Note,      \* the ids the two phones will draw
  Writers,   \* bound: the sides whose users write notes and drafts
  MaxTexts,  \* bound: texts the users write
  MaxClock,  \* bound: seconds told apart as the time of an edit
  MaxCalls   \* bound: store calls of a phone past their first read

ASSUME NotesAssumption ==
  /\ MaxTexts \in Nat /\ MaxClock \in Nat \ {0} /\ MaxCalls \in Nat \ {0}
  /\ "none" \notin Note /\ Writers \subseteq Side

VARIABLES
  row,    \* [Side -> [Note -> Row]]: the rows of table note
  author, \* [Note -> Side or "none"]: author_pubkey, the same in both rows
  draft,  \* [Side -> Draft]: a row of pending_note
  calls,  \* [Side -> Seq(StoreCall)]: store calls between their read and their transaction
  feed,   \* SUBSET Text: what the server has as posts
  texts,  \* texts written so far, names them
  writ,   \* [Note -> Text or 0]: history, the text a note was created with
  stamps, \* [Note -> SUBSET second]: history, times of its edits
  untidy  \* history: an op met a row that was not ready for it, two edits of one
          \* second, or a call that acted on a row that had changed

vars == <<wireVars, row, author, draft, calls, feed, texts, writ, stamps, untidy>>

Text == 1 .. MaxTexts

NoRow == [kind |-> "none", body |-> 0, revealed |-> FALSE, edited |-> 0,
          deleted |-> FALSE, post |-> 0]

NoDraft == [kind |-> "none", text |-> 0]

Init ==
  /\ WireInit
  /\ row = [s \in Side |-> [n \in Note |-> NoRow]]
  /\ author = [n \in Note |-> "none"]
  /\ draft = [s \in Side |-> NoDraft]
  /\ calls = [s \in Side |-> << >>]
  /\ feed = {}
  /\ texts = 0
  /\ writ = [n \in Note |-> 0]
  /\ stamps = [n \in Note |-> {}]
  /\ untidy = FALSE

-----------------------------------------------------------------------------
(* Drafts: written without a partner or saved for later, text only.        *)

(* What the radio buttons of the form choose. *)
NoteKind == {"shared", "secret"}

(* A new text; it gets the next number. *)
Type == texts < MaxTexts /\ texts' = texts + 1

notDrafts == <<wireVars, row, author, calls, feed, writ, stamps, untidy>>

WritePendingNote(s, kind) ==
  /\ draft[s] = NoDraft
  /\ Type
  /\ draft' = [draft EXCEPT ![s] = [kind |-> kind, text |-> texts']]
  /\ UNCHANGED notDrafts

(* The draft may be gone by the time its editor saves: an UPDATE of no row. *)
UpdatePendingNote(s, kind) ==
  /\ draft[s] # NoDraft
  /\ Type
  /\ draft' = [draft EXCEPT ![s] = [kind |-> kind, text |-> texts']]
  /\ UNCHANGED notDrafts

(* The list of notes and the triage after pairing show the draft, with a  *)
(* way to share it and a way to drop it.                                  *)
HasDraft(s) == draft[s] # NoDraft

DiscardPendingNote(s) ==
  /\ HasDraft(s)
  /\ draft' = [draft EXCEPT ![s] = NoDraft]
  /\ UNCHANGED <<texts, notDrafts>>

-----------------------------------------------------------------------------
(* Calls in progress.                                                      *)

Begin(s, call) ==
  /\ Len(calls[s]) < MaxCalls
  /\ calls' = [calls EXCEPT ![s] = Append(@, call)]

Returns(s, i) ==
  calls' = [calls EXCEPT ![s] = SubSeq(@, 1, i - 1) \o SubSeq(@, i + 1, Len(@))]

Call(op, n, text, flag, at) == [op |-> op, note |-> n, text |-> text, flag |-> flag, at |-> at]

Op(kind, n, text, at) == [kind |-> kind, note |-> n, text |-> text, at |-> at]

(* INSERT of a new note and the operation that tells the partner: a shared *)
(* note travels with its text, of a secret only the existence.             *)
CreateNote(s, n, kind, text) ==
  /\ author[n] = "none"
  /\ author' = [author EXCEPT ![n] = s]
  /\ writ' = [writ EXCEPT ![n] = text]
  /\ row' = [row EXCEPT ![s][n] = [NoRow EXCEPT !.kind = kind, !.body = text]]
  /\ IF kind = "shared" THEN Queue(s, Op("share", n, text, 0))
                        ELSE Queue(s, Op("announce", n, 0, 0))

(* submitNoteCompose: writeSharedNote or writeSecretNote. *)
WriteNote(s, n, kind) ==
  /\ Type
  /\ CreateNote(s, n, kind, texts')
  /\ UNCHANGED <<draft, calls, feed, stamps, untidy>>

(* sharePendingNote reads the draft; the list does not wait for a call in  *)
(* progress, and "Save as secret note" first changes the kind of the draft. *)
SharePendingNote(s, kind) ==
  /\ HasDraft(s)
  /\ kind \in {draft[s].kind, "secret"}
  /\ draft' = [draft EXCEPT ![s].kind = kind]
  /\ Begin(s, Call("share", "none", draft[s].text, kind = "secret", 0))
  /\ UNCHANGED <<wireVars, row, author, feed, texts, writ, stamps, untidy>>

ShareCommit(s, i, n) ==
  LET call == calls[s][i] IN
  /\ call.op = "share"
  /\ CreateNote(s, n, IF call.flag THEN "secret" ELSE "shared", call.text)
  /\ draft' = [draft EXCEPT ![s] = NoDraft]
  /\ Returns(s, i)
  /\ UNCHANGED <<feed, texts, stamps, untidy>>

-----------------------------------------------------------------------------
(* Operations on a note, and what the screens offer of them.               *)

IsAuthor(s, n) == author[n] = s

CanReveal(s, n) ==
  LET r == row[s][n] IN
  IsAuthor(s, n) /\ r.kind = "secret" /\ r.body # 0 /\ ~r.revealed

(* The screen of a note that is here and not deleted has a menu. *)
HasMenu(s, n) == row[s][n].kind \in NoteKind /\ ~row[s][n].deleted

(* A shared note by either partner, a secret by its author. *)
CanEdit(s, n) ==
  HasMenu(s, n) /\ (row[s][n].kind = "secret" => IsAuthor(s, n))

CanDelete(s, n) == HasMenu(s, n) /\ IsAuthor(s, n)

(* The user's own notes with a text and no post. *)
CanPublish(s, n) ==
  LET r == row[s][n] IN
  IsAuthor(s, n) /\ r.post = 0 /\ r.body # 0

(* revealSecretNote, from the author's own screen or the unlock loop. *)
RevealSecretNote(s, n) ==
  LET r == row[s][n] IN
  /\ CanReveal(s, n)
  /\ Begin(s, Call("reveal", n, r.body, TRUE, 0))
  /\ UNCHANGED <<wireVars, row, author, draft, feed, texts, writ, stamps, untidy>>

(* The transaction: only revealed_at is looked at again, the text sent is  *)
(* the one read before.                                                    *)
Reveal(s, n, text) ==
  IF row[s][n].revealed
  THEN UNCHANGED <<wireVars, row, untidy>>
  ELSE /\ row' = [row EXCEPT ![s][n].revealed = TRUE]
       /\ Queue(s, Op("reveal", n, text, 0))
       /\ untidy' = (untidy \/ row[s][n].body # text)

RevealCommit(s, i) ==
  LET call == calls[s][i] IN
  /\ call.op = "reveal"
  /\ Reveal(s, call.note, call.text)
  /\ Returns(s, i)
  /\ UNCHANGED <<author, draft, feed, texts, writ, stamps>>

(* Mutant: the partner is always told. *)
EditNoteTells(s, n, at) ==
  /\ CanEdit(s, n)
  /\ Type
  /\ Begin(s, Call("edit", n, texts', TRUE, at))
  /\ UNCHANGED <<wireVars, row, author, draft, feed, writ, stamps, untidy>>

(* editNote.  The flag is partnerNeedsTheOp, of the row as read here. *)
EditNote(s, n, at) ==
  LET r == row[s][n] IN
  /\ CanEdit(s, n)
  /\ Type
  /\ Begin(s, Call("edit", n, texts', r.kind = "shared" \/ r.revealed, at))
  /\ UNCHANGED <<wireVars, row, author, draft, feed, writ, stamps, untidy>>

(* The edit is given up, without an error, if a newer one is in the row. *)
EditCommit(s, i) ==
  LET call == calls[s][i]
      n    == call.note
      r    == row[s][n]
      done == ~r.deleted /\ r.edited < call.at
  IN
  /\ call.op = "edit"
  /\ row' = IF done THEN [row EXCEPT ![s][n].body = call.text, ![s][n].edited = call.at]
                    ELSE row
  /\ IF done /\ call.flag THEN Queue(s, Op("edit", n, call.text, call.at))
                          ELSE UNCHANGED wireVars
  /\ stamps' = [stamps EXCEPT ![n] = @ \cup {call.at}]
  /\ untidy' = (untidy \/ call.at \in stamps[n]
                       \/ call.flag # (r.kind = "shared" \/ r.revealed))
  /\ Returns(s, i)
  /\ UNCHANGED <<author, draft, feed, texts, writ>>

(* deleteNote, by the author. *)
DeleteNote(s, n) ==
  /\ CanDelete(s, n)
  /\ Begin(s, Call("delete", n, 0, TRUE, 0))
  /\ UNCHANGED <<wireVars, row, author, draft, feed, texts, writ, stamps, untidy>>

DeleteCommit(s, i) ==
  LET call == calls[s][i]
      n    == call.note
  IN
  /\ call.op = "delete"
  /\ IF row[s][n].deleted
     THEN UNCHANGED <<wireVars, row>>
     ELSE /\ row' = [row EXCEPT ![s][n].deleted = TRUE, ![s][n].body = 0]
          /\ Queue(s, Op("delete", n, 0, 0))
  /\ Returns(s, i)
  /\ UNCHANGED <<author, draft, feed, texts, writ, stamps, untidy>>

-----------------------------------------------------------------------------
(* publishNote: by the author, of a text that is here.  An unrevealed      *)
(* secret is revealed first, then the text read at the start is posted,    *)
(* then the note is stamped.  The flag says that it has been posted.       *)

PublishNote(s, n) ==
  /\ CanPublish(s, n)
  /\ Begin(s, Call("publish", n, row[s][n].body, FALSE, 0))
  /\ UNCHANGED <<wireVars, row, author, draft, feed, texts, writ, stamps, untidy>>

(* Mutant: a secret is published as it is. *)
PublishRevealsNothing(s, n) == UNCHANGED <<wireVars, row, untidy>>

(* The nested revealSecretNote reads the row again; without a text it throws. *)
PublishReveals(s, n) ==
  IF row[s][n].kind = "secret"
  THEN row[s][n].body # 0 /\ Reveal(s, n, row[s][n].body)
  ELSE UNCHANGED <<wireVars, row, untidy>>

(* The server keeps one post for a body, whoever sends it again. *)
InsertPost(text) == feed' = feed \cup {text}

(* The reveal and the POST; its answer may be lost with the post stored,   *)
(* which ends the call: the user tries again.                              *)
PublishPost(s, i) ==
  LET call == calls[s][i] IN
  /\ call.op = "publish" /\ ~call.flag
  /\ PublishReveals(s, call.note)
  /\ InsertPost(call.text)
  /\ \/ calls' = [calls EXCEPT ![s][i].flag = TRUE]
     \/ Returns(s, i)
  /\ UNCHANGED <<author, draft, texts, writ, stamps>>

PublishCommit(s, i) ==
  LET call == calls[s][i]
      n    == call.note
  IN
  /\ call.op = "publish" /\ call.flag
  /\ IF row[s][n].post # 0
     THEN UNCHANGED <<wireVars, row>>
     ELSE /\ row' = [row EXCEPT ![s][n].post = call.text]
          /\ Queue(s, Op("publish", n, call.text, 0))
  /\ Returns(s, i)
  /\ UNCHANGED <<author, draft, feed, texts, writ, stamps, untidy>>

-----------------------------------------------------------------------------
(* applyCrdtOp on phone s; r is its row of the note.                       *)

Unknown(s, op) == row[s][op.note].kind = "none"

(* INSERT OR IGNORE. *)
ApplyShare(s, op) ==
  /\ op.kind = "share"
  /\ row' = IF Unknown(s, op)
            THEN [row EXCEPT ![s][op.note] =
                    [NoRow EXCEPT !.kind = "shared", !.body = op.text]]
            ELSE row
  /\ UNCHANGED untidy

ApplyAnnounce(s, op) ==
  /\ op.kind = "announce"
  /\ row' = IF Unknown(s, op)
            THEN [row EXCEPT ![s][op.note] = [NoRow EXCEPT !.kind = "secret"]]
            ELSE row
  /\ UNCHANGED untidy

(* A tombstone is filled again if it was a secret's. *)
ApplyReveal(s, op) ==
  LET r == row[s][op.note] IN
  /\ op.kind = "reveal"
  /\ row' = IF r.kind = "secret" /\ ~r.revealed
            THEN [row EXCEPT ![s][op.note].body = op.text,
                             ![s][op.note].revealed = TRUE]
            ELSE row
  /\ untidy' = (untidy \/ Unknown(s, op) \/ (r.deleted /\ ~r.revealed))

ApplyPublish(s, op) ==
  /\ op.kind = "publish"
  /\ row' = IF ~Unknown(s, op) /\ row[s][op.note].post = 0
            THEN [row EXCEPT ![s][op.note].post = op.text] ELSE row
  /\ untidy' = (untidy \/ Unknown(s, op) \/ row[s][op.note].post \notin {0, op.text})

(* Mutant: the time of the edit is not compared. *)
ApplyEditAny(s, op) ==
  LET r == row[s][op.note] IN
  /\ op.kind = "edit"
  /\ row' = IF r.kind # "none" /\ ~r.deleted
            THEN [row EXCEPT ![s][op.note].body = op.text, ![s][op.note].edited = op.at]
            ELSE row
  /\ untidy' = (untidy \/ Unknown(s, op) \/ (r.kind = "secret" /\ ~r.revealed))

(* The newest edit wins.  The author of a secret has been checked by the   *)
(* store that sent it.                                                     *)
ApplyEdit(s, op) ==
  LET r == row[s][op.note] IN
  /\ op.kind = "edit"
  /\ row' = IF r.kind # "none" /\ ~r.deleted /\ r.edited < op.at
            THEN [row EXCEPT ![s][op.note].body = op.text, ![s][op.note].edited = op.at]
            ELSE row
  /\ untidy' = (untidy \/ Unknown(s, op) \/ (r.kind = "secret" /\ ~r.revealed))

(* Mutant: a deletion that finds no row does nothing. *)
ApplyDeleteFound(s, op) ==
  /\ op.kind = "delete"
  /\ row' = IF Unknown(s, op) THEN row
            ELSE [row EXCEPT ![s][op.note].deleted = TRUE, ![s][op.note].body = 0]
  /\ UNCHANGED untidy

(* A note that is not here yet gets a tombstone, of kind shared; a second  *)
(* deletion changes nothing.                                               *)
ApplyDelete(s, op) ==
  LET r == row[s][op.note] IN
  /\ op.kind = "delete"
  /\ row' = IF Unknown(s, op)
            THEN [row EXCEPT ![s][op.note] =
                    [NoRow EXCEPT !.kind = "shared", !.deleted = TRUE]]
            ELSE IF r.deleted THEN row
            ELSE [row EXCEPT ![s][op.note].deleted = TRUE, ![s][op.note].body = 0]
  /\ UNCHANGED untidy

ApplyNext(s) ==
  \E e \in page[s] :
    LET op == e.op IN
    /\ Take(s, e)
    /\ \/ ApplyShare(s, op) \/ ApplyAnnounce(s, op) \/ ApplyReveal(s, op)
       \/ ApplyPublish(s, op) \/ ApplyEdit(s, op) \/ ApplyDelete(s, op)
    /\ UNCHANGED <<author, draft, calls, feed, texts, writ, stamps>>

-----------------------------------------------------------------------------
(* The app is killed and started again, between two pulls. *)
Restart(s) ==
  /\ page[s] = {}
  /\ calls[s] # << >>
  /\ calls' = [calls EXCEPT ![s] = << >>]
  /\ UNCHANGED <<wireVars, row, author, draft, feed, texts, writ, stamps, untidy>>

Sync(s) ==
  /\ WireStep(s)
  /\ UNCHANGED <<row, author, draft, calls, feed, texts, writ, stamps, untidy>>

Commit(s) ==
  \E i \in DOMAIN calls[s] :
    \/ \E n \in Note : ShareCommit(s, i, n)
    \/ RevealCommit(s, i) \/ EditCommit(s, i) \/ DeleteCommit(s, i)
    \/ PublishPost(s, i) \/ PublishCommit(s, i)

OnNote(s, n) ==
  \/ RevealSecretNote(s, n)
  \/ \E at \in 1 .. MaxClock : EditNote(s, n, at)
  \/ DeleteNote(s, n)
  \/ PublishNote(s, n)

Next ==
  \E s \in Side :
    \/ \E kind \in NoteKind :
         /\ s \in Writers
         /\ \/ WritePendingNote(s, kind) \/ UpdatePendingNote(s, kind)
            \/ SharePendingNote(s, kind)
            \/ \E n \in Note : WriteNote(s, n, kind)
    \/ DiscardPendingNote(s)
    \/ \E n \in Note : OnNote(s, n)
    \/ Commit(s) \/ Restart(s)
    \/ Sync(s) \/ ApplyNext(s)

Spec == Init /\ [][Next]_vars

-----------------------------------------------------------------------------
Operation ==
  [kind : {"share", "reveal", "publish"}, note : Note, text : Text, at : {0}]
    \cup [kind : {"announce", "delete"}, note : Note, text : {0}, at : {0}]
    \cup [kind : {"edit"}, note : Note, text : Text, at : 1 .. MaxClock]

Row ==
  [kind : NoteKind \cup {"none"}, body : 0 .. MaxTexts, revealed : BOOLEAN,
   edited : 0 .. MaxClock, deleted : BOOLEAN, post : 0 .. MaxTexts]

Draft == {NoDraft} \cup [kind : NoteKind, text : Text]

StoreCall ==
  [op : {"share"}, note : {"none"}, text : Text, flag : BOOLEAN, at : {0}]
    \cup [op : {"reveal", "publish"}, note : Note, text : Text, flag : BOOLEAN, at : {0}]
    \cup [op : {"edit"}, note : Note, text : Text, flag : BOOLEAN, at : 1 .. MaxClock]
    \cup [op : {"delete"}, note : Note, text : {0}, flag : BOOLEAN, at : {0}]

TypeOK ==
  /\ WireTypeOK(Operation)
  /\ row \in [Side -> [Note -> Row]]
  /\ author \in [Note -> Side \cup {"none"}]
  /\ draft \in [Side -> Draft]
  /\ calls \in [Side -> Seq(StoreCall)]
  /\ feed \subseteq Text
  /\ texts \in 0 .. MaxTexts
  /\ writ \in [Note -> 0 .. MaxTexts]
  /\ stamps \in [Note -> SUBSET (1 .. MaxClock)]
  /\ untidy \in BOOLEAN

OnTheWay == UNION {{outbox[s][i] : i \in DOMAIN outbox[s]} \cup {e.op : e \in inbox[s]}
                   : s \in Side}

Settled == \A s \in Side : Drained(s)

Partner(n) == Other(author[n])

Written == {n \in Note : author[n] # "none"}

(* Nothing of a secret leaves the phone of its author before the author    *)
(* has revealed it: neither on the wire nor in the partner's row, whatever *)
(* edits, publications and deletions are under way.                        *)
SecretStaysSecret ==
  \A n \in Written :
    LET mine == row[author[n]][n] IN
    mine.kind = "secret" /\ ~mine.revealed =>
      /\ row[Partner(n)][n].body = 0
      /\ \A op \in OnTheWay : op.note = n => op.text = 0

(* A deletion reaches the partner in whatever order and however often the  *)
(* operations of the note arrive.                                          *)
DeleteSettles ==
  Settled => \A n \in Written : row[author[n]][n].deleted => row[Partner(n)][n].deleted

(* When nothing met a row that was not ready for it, both phones hold the  *)
(* same text, whatever the order of the edits and whoever made them.       *)
TextsSettle ==
  Settled /\ ~untidy =>
    \A n \in Written :
      row[author[n]][n].kind = "shared" \/ row[author[n]][n].revealed =>
        row[author[n]][n].body = row[Partner(n)][n].body

(* A published note is never one the partner holds without its text: the   *)
(* reveal goes before the publication (store.ts 533-542).                  *)
PublishedHasText ==
  Settled /\ ~untidy =>
    \A n \in Written :
      row[Partner(n)][n].post # 0 =>
        /\ row[Partner(n)][n].body # 0 \/ row[Partner(n)][n].deleted
        /\ row[Partner(n)][n].post = row[author[n]][n].post

-----------------------------------------------------------------------------
(* Refuted: a tombstoned row "holds no plaintext" (projector.ts 261). *)
DeletedHasNoText ==
  \A s \in Side, n \in Note : row[s][n].deleted => row[s][n].body = 0

(* Refuted: "the retry round-trips to the SAME global_post_id" (store.ts   *)
(* 483): an edit between the two attempts makes a second post.             *)
PublishedOnce == Cardinality(feed) <= Cardinality(Written)

(* Refuted: a draft becomes at most one note. *)
DraftSharedOnce == \A n, m \in Written : writ[n] = writ[m] => n = m

(* Refuted: an edit of a secret reaches the partner unless the reveal      *)
(* carries it (store.ts 371-373).                                          *)
EditOrRevealTells ==
  Settled => \A n \in Written :
    row[author[n]][n].revealed /\ ~row[author[n]][n].deleted
      /\ row[Partner(n)][n].revealed => row[author[n]][n].body = row[Partner(n)][n].body

=============================================================================

----------------------------- MODULE NotesProofs -----------------------------
(***************************************************************************)
(* Proofs about Notes, for any notes, either partner writing, any number   *)
(* of texts, seconds and store calls in progress, in whatever order and    *)
(* however often the operations arrive.                                    *)
(***************************************************************************)
EXTENDS Notes, WireProofs

-----------------------------------------------------------------------------
(* The inductive invariants.                                               *)

RowType ==
  /\ row \in [Side -> [Note -> Row]]
  /\ author \in [Note -> Side \cup {"none"}]
  /\ draft \in [Side -> Draft]
  /\ calls \in [Side -> Seq(StoreCall)]
  /\ feed \subseteq Text
  /\ texts \in 0 .. MaxTexts
  /\ writ \in [Note -> 0 .. MaxTexts]
  /\ stamps \in [Note -> SUBSET (1 .. MaxClock)]
  /\ untidy \in BOOLEAN

(* The partner may know the text of n. *)
Open(n) ==
  /\ author[n] # "none"
  /\ row[author[n]][n].kind = "shared" \/ row[author[n]][n].revealed

(* The partner's row r holds a text only of an open note, its kind is that *)
(* of the author's row m unless it is a tombstone, and what it says of a   *)
(* post or a deletion is so.                                               *)
Copy(r, m, open) ==
  /\ r.body # 0 \/ r.edited # 0 \/ r.post # 0 => open
  /\ r.kind = "shared" => r.deleted \/ (m.kind = "shared" /\ r.body # 0)
  /\ r.kind = "secret" => m.kind = "secret"
  /\ r.revealed => r.deleted \/ r.body # 0
  /\ r.deleted => m.deleted
  /\ r.post \in {0, m.post}

(* The author's row is there from the start. *)
RowOk(s, n) ==
  /\ row[s][n].kind = "none" => row[s][n] = NoRow
  /\ author[n] = "none" => row[s][n].kind = "none"
  /\ author[n] = s => row[s][n].kind \in NoteKind
  /\ author[n] = Other(s) => Copy(row[s][n], row[Other(s)][n], Open(n))

(* Whose operation it is, and what it tells is so. *)
OpOk(s, op) ==
  LET r == row[s][op.note] IN
  /\ author[op.note] # "none"
  /\ op.kind # "edit" => author[op.note] = s
  /\ op.kind = "edit" => author[op.note] = s \/ row[Other(s)][op.note].kind = "shared"
  /\ op.text # 0 => Open(op.note)
  /\ op.kind = "share" => r.kind = "shared"
  /\ op.kind \in {"announce", "reveal"} => r.kind = "secret"
  /\ op.kind = "delete" => r.deleted
  /\ op.kind = "publish" => r.post = op.text

(* The same of what a store call has decided. *)
CallOk(s, c) ==
  c.op # "share" =>
    /\ author[c.note] # "none" /\ row[s][c.note].kind # "none"
    /\ c.op # "edit" => author[c.note] = s
    /\ c.op = "edit" => author[c.note] = s \/ row[Other(s)][c.note].kind = "shared"
    /\ c.op = "reveal" => row[s][c.note].kind = "secret"
    /\ c.op \in {"edit", "publish"} /\ c.flag => Open(c.note)

(* A deletion is with the partner or on its way. *)
DeleteOk(s, n) ==
  author[n] = s /\ row[s][n].deleted =>
    row[Other(s)][n].deleted \/ \E op \in Way(s) : op.kind = "delete" /\ op.note = n

(* So is a reveal, as long as it met a row that was ready for it. *)
RevealOk(s, n) ==
  author[n] = s /\ row[s][n].kind = "secret" /\ row[s][n].revealed =>
    \/ row[Other(s)][n].revealed
    \/ row[Other(s)][n].kind = "shared"
    \/ \E op \in Way(s) : op.kind = "reveal" /\ op.note = n

Rows == \A s \in Side : \A n \in Note : RowOk(s, n)

Ops == \A s \in Side : \A op \in Way(s) : OpOk(s, op)

Calls == \A s \in Side : \A c \in Items(calls[s]) : CallOk(s, c)

Deletions == \A s \in Side : \A n \in Note : DeleteOk(s, n)

Reveals == untidy \/ \A s \in Side : \A n \in Note : RevealOk(s, n)

-----------------------------------------------------------------------------
(* Texts: a note of which r is the author's row and m the partner's, w the *)
(* text it was created with, times the seconds of its edits, O what its    *)
(* author has on the way about it and P what the partner has.              *)

OpsOn(s, n) == {op \in Way(s) : op.note = n}

Edits(O) == {op \in O : op.kind = "edit"}

(* A second stands for a text wherever it is found: no two edits of a note *)
(* are of one second.                                                      *)
Stands(E, r) == \A op \in E : op.at = r.edited /\ ~r.deleted => op.text = r.body

Stamped(E, times, r, m) ==
  /\ \A op \in E : op.at \in times
  /\ r.edited \in times \cup {0} /\ m.edited \in times \cup {0}
  /\ \A op, other \in E : op.at = other.at => op.text = other.text
  /\ Stands(E, r) /\ Stands(E, m)
  /\ r.edited = m.edited /\ r.edited # 0 /\ ~r.deleted /\ ~m.deleted => r.body = m.body

(* What is sent is in the row of the sender, or has been overtaken there. *)
Sent(O, r) == r.deleted \/ \A op \in Edits(O) : op.at <= r.edited

(* The newest edit of one row is in the other one or on its way. *)
Caught(O, r, m) == m.deleted \/ r.edited <= m.edited \/ \E op \in Edits(O) : op.at = r.edited

(* Before any edit both rows hold the text the note was created with. *)
Origin(w, r, m, O) ==
  /\ \A op \in O : op.kind = "share" => op.text = w
  /\ ~r.deleted /\ r.edited = 0 => r.body = w
  /\ m.kind = "shared" /\ ~m.deleted /\ m.edited = 0 => m.body = w
  /\ m.kind # "none" \/ \E op \in O : op.kind = "share"

(* A revealed secret has been edited after the reveal was read, and then   *)
(* the edit is told, or it is as the reveal tells it.                      *)
Told(r, m, O) ==
  \/ /\ Edits(O) = {} /\ m.edited = 0
     /\ m.revealed => m.body = r.body
     /\ \A op \in O : op.kind = "reveal" => op.text = r.body
  \/ /\ r.edited # 0
     /\ m.edited = r.edited \/ \E op \in Edits(O) : op.at = r.edited

Tidy(w, times, r, m, O, P) ==
  /\ Stamped(Edits(O) \cup Edits(P), times, r, m)
  /\ r.deleted => r.body = 0
  /\ m.deleted => m.body = 0
  /\ m.kind = "secret" /\ m.edited # 0 => m.revealed
  /\ Sent(O, r) /\ Sent(P, m)
  /\ r.kind = "shared" => Caught(O, r, m) /\ Caught(P, m, r) /\ Origin(w, r, m, O)
  /\ r.kind = "secret" /\ ~r.deleted => m.edited <= r.edited /\ (r.revealed => Told(r, m, O))

TidyNote(s, n) ==
  Tidy(writ[n], stamps[n], row[s][n], row[Other(s)][n], OpsOn(s, n), OpsOn(Other(s), n))

Texts == untidy \/ \A s \in Side : \A n \in Note : author[n] = s => TidyNote(s, n)

-----------------------------------------------------------------------------
(* The effects a step can have on the rows and on what is on its way.      *)

RowIs(s, n, r) ==
  /\ row' \in [Side -> [Note -> Row]]
  /\ row'[s][n] = r
  /\ \A q \in Side, m \in Note : q # s \/ m # n => row'[q][m] = row[q][m]

Sends(s, op) == Way(s)' = Way(s) \cup {op} /\ Way(Other(s))' = Way(Other(s))

SendsNothing == \A s \in Side : Way(s)' = Way(s)

Quiet ==
  /\ UNCHANGED <<row, author, writ>> /\ SendsNothing
  /\ stamps' \in [Note -> SUBSET (1 .. MaxClock)] /\ \A n \in Note : stamps[n] \subseteq stamps'[n]
  /\ untidy' \in BOOLEAN
  /\ untidy => untidy'

Created(s, n, kind, text) ==
  /\ author[n] = "none" /\ author' = [author EXCEPT ![n] = s]
  /\ RowIs(s, n, [NoRow EXCEPT !.kind = kind, !.body = text])
  /\ kind = "shared" => Sends(s, Op("share", n, text, 0))
  /\ kind = "secret" => Sends(s, Op("announce", n, 0, 0))
  /\ writ' = [writ EXCEPT ![n] = text]
  /\ UNCHANGED <<stamps, untidy>>

Revealed(s, n, text) ==
  LET r == row[s][n] IN
  /\ author[n] = s /\ r.kind = "secret" /\ ~r.revealed
  /\ RowIs(s, n, [r EXCEPT !.revealed = TRUE])
  /\ Sends(s, Op("reveal", n, text, 0))
  /\ untidy' = (untidy \/ r.body # text)
  /\ UNCHANGED <<author, writ, stamps>>

Rewritten(s, n, text, at, flag) ==
  LET r == row[s][n] IN
  /\ author[n] # "none" /\ (author[n] = s \/ row[Other(s)][n].kind = "shared")
  /\ r.kind # "none" /\ ~r.deleted /\ r.edited < at
  /\ RowIs(s, n, [r EXCEPT !.body = text, !.edited = at])
  /\ flag => Open(n) /\ Sends(s, Op("edit", n, text, at))
  /\ ~flag => SendsNothing
  /\ stamps' = [stamps EXCEPT ![n] = @ \cup {at}]
  /\ untidy' = (untidy \/ at \in stamps[n] \/ flag # (r.kind = "shared" \/ r.revealed))
  /\ UNCHANGED <<author, writ>>

Deleted(s, n) ==
  /\ author[n] = s /\ ~row[s][n].deleted
  /\ RowIs(s, n, [row[s][n] EXCEPT !.deleted = TRUE, !.body = 0])
  /\ Sends(s, Op("delete", n, 0, 0))
  /\ UNCHANGED <<author, writ, stamps, untidy>>

Published(s, n, text) ==
  /\ author[n] = s /\ row[s][n].post = 0 /\ Open(n)
  /\ RowIs(s, n, [row[s][n] EXCEPT !.post = text])
  /\ Sends(s, Op("publish", n, text, 0))
  /\ UNCHANGED <<author, writ, stamps, untidy>>

(* The row that op leaves on phone s. *)
After(s, op) ==
  LET r == row[s][op.note] IN
  CASE op.kind = "share" /\ r.kind = "none" -> [NoRow EXCEPT !.kind = "shared", !.body = op.text]
    [] op.kind = "announce" /\ r.kind = "none" -> [NoRow EXCEPT !.kind = "secret"]
    [] op.kind = "reveal" /\ r.kind = "secret" /\ ~r.revealed ->
         [r EXCEPT !.body = op.text, !.revealed = TRUE]
    [] op.kind = "publish" /\ r.kind # "none" /\ r.post = 0 -> [r EXCEPT !.post = op.text]
    [] op.kind = "edit" /\ r.kind # "none" /\ ~r.deleted /\ r.edited < op.at ->
         [r EXCEPT !.body = op.text, !.edited = op.at]
    [] op.kind = "delete" /\ r.kind = "none" -> [NoRow EXCEPT !.kind = "shared", !.deleted = TRUE]
    [] op.kind = "delete" /\ r.kind # "none" /\ ~r.deleted ->
         [r EXCEPT !.deleted = TRUE, !.body = 0]
    [] OTHER -> r

(* op met a row that was not ready for it. *)
Unready(s, op) ==
  LET r == row[s][op.note] IN
  \/ op.kind \in {"reveal", "publish", "edit"} /\ r.kind = "none"
  \/ op.kind = "reveal" /\ r.deleted /\ ~r.revealed
  \/ op.kind = "publish" /\ r.post \notin {0, op.text}
  \/ op.kind = "edit" /\ r.kind = "secret" /\ ~r.revealed

Arrived(s, op) ==
  /\ op \in Way(Other(s)) /\ op \in Operation
  /\ RowIs(s, op.note, After(s, op))
  /\ Way(s)' = Way(s) /\ Way(Other(s))' \subseteq Way(Other(s))
  /\ Way(Other(s)) \subseteq Way(Other(s))' \cup {op}
  /\ untidy' = (untidy \/ Unready(s, op))
  /\ UNCHANGED <<author, writ, stamps>>

Effect ==
  \/ Quiet
  \/ \E s \in Side :
       \/ \E n \in Note : \/ \E kind \in NoteKind, text \in Text : Created(s, n, kind, text)
                          \/ \E text \in Text : Revealed(s, n, text) \/ Published(s, n, text)
                          \/ \E text \in Text, at \in 1 .. MaxClock, flag \in BOOLEAN :
                               Rewritten(s, n, text, at, flag)
                          \/ Deleted(s, n)
       \/ \E op \in Operation : Arrived(s, op)

(* A store call that comes up has decided on what is so. *)
CallSteps ==
  \A s \in Side : \A c \in Items(calls'[s]) : c \in Items(calls[s]) \/ CallOk(s, c)'

-----------------------------------------------------------------------------
LEMMA OperationFacts ==
  ASSUME NEW op \in Operation
  PROVE  /\ op.note \in Note /\ op.text \in 0 .. MaxTexts /\ op.at \in 0 .. MaxClock
         /\ op.kind \in {"share", "announce", "reveal", "publish", "edit", "delete"}
         /\ op.kind \in {"share", "reveal", "publish", "edit"} => op.text \in Text
         /\ op.kind \in {"announce", "delete"} => op.text = 0
         /\ op.kind = "edit" => op.at \in 1 .. MaxClock
  BY NotesAssumption DEF Operation, Text, NotesAssumption

LEMMA OpIsOperation ==
  ASSUME NEW n \in Note, NEW text, NEW at, NEW kind,
         \/ kind \in {"share", "reveal", "publish"} /\ text \in Text /\ at = 0
         \/ kind \in {"announce", "delete"} /\ text = 0 /\ at = 0
         \/ kind = "edit" /\ text \in Text /\ at \in 1 .. MaxClock
  PROVE  /\ Op(kind, n, text, at) \in Operation
         /\ Op(kind, n, text, at).kind = kind /\ Op(kind, n, text, at).note = n
         /\ Op(kind, n, text, at).text = text /\ Op(kind, n, text, at).at = at
  BY DEF Op, Operation

LEMMA SendWay ==
  ASSUME WireTypeOK(Operation), NEW s \in Side, NEW op \in Operation, Queue(s, op)
  PROVE  WireTypeOK(Operation)' /\ Sends(s, op)
  BY QueueWay DEF Sends

LEMMA QuietWay ==
  ASSUME WireTypeOK(Operation), UNCHANGED wireVars
  PROVE  WireTypeOK(Operation)' /\ SendsNothing
  BY WireQuiet DEF SendsNothing

LEMMA SetRow ==
  ASSUME row \in [Side -> [Note -> Row]], NEW s \in Side, NEW n \in Note, NEW r \in Row,
         row' = [row EXCEPT ![s][n] = r]
  PROVE  RowIs(s, n, r)
  BY DEF RowIs

LEMMA RowFields ==
  ASSUME NEW r \in Row
  PROVE  /\ r.kind \in NoteKind \cup {"none"} /\ r.body \in 0 .. MaxTexts /\ r.revealed \in BOOLEAN
         /\ r.edited \in 0 .. MaxClock /\ r.deleted \in BOOLEAN /\ r.post \in 0 .. MaxTexts
         /\ [r EXCEPT !.revealed = TRUE] \in Row
         /\ [r EXCEPT !.deleted = TRUE, !.body = 0] \in Row
         /\ \A text \in Text : [r EXCEPT !.post = text] \in Row
         /\ \A text \in Text : [r EXCEPT !.body = text, !.revealed = TRUE] \in Row
         /\ \A text \in Text, at \in 1 .. MaxClock : [r EXCEPT !.body = text, !.edited = at] \in Row
<1>1. /\ r.kind \in NoteKind \cup {"none"} /\ r.body \in 0 .. MaxTexts /\ r.revealed \in BOOLEAN
      /\ r.edited \in 0 .. MaxClock /\ r.deleted \in BOOLEAN /\ r.post \in 0 .. MaxTexts
  BY DEF Row
<1>2. /\ 0 \in 0 .. MaxTexts /\ Text \subseteq 0 .. MaxTexts
      /\ 1 .. MaxClock \subseteq 0 .. MaxClock
  BY NotesAssumption DEF NotesAssumption, Text
<1>3. [r EXCEPT !.revealed = TRUE] \in Row
  BY DEF Row
<1>4. [r EXCEPT !.deleted = TRUE, !.body = 0] \in Row
  BY <1>2 DEF Row
<1>5. \A text \in Text : [r EXCEPT !.post = text] \in Row
  BY <1>2 DEF Row
<1>6. \A text \in Text : [r EXCEPT !.body = text, !.revealed = TRUE] \in Row
  BY <1>2 DEF Row
<1>7. \A text \in Text, at \in 1 .. MaxClock : [r EXCEPT !.body = text, !.edited = at] \in Row
  BY <1>2 DEF Row
<1> QED
  BY <1>1, <1>3, <1>4, <1>5, <1>6, <1>7

LEMMA SeqItem ==
  ASSUME NEW S, NEW q \in Seq(S), NEW i \in DOMAIN q
  PROVE  q[i] \in S /\ q[i] \in Items(q)
  BY DEF Items

LEMMA BeginCall ==
  ASSUME RowType, NEW s \in Side, NEW call \in StoreCall, Begin(s, call), CallOk(s, call),
         UNCHANGED <<row, author>>
  PROVE  calls' \in [Side -> Seq(StoreCall)] /\ CallSteps
<1>1. calls' = [calls EXCEPT ![s] = Append(@, call)] /\ calls[s] \in Seq(StoreCall)
  BY DEF Begin, RowType
<1>2. /\ Append(calls[s], call) \in Seq(StoreCall)
      /\ Items(Append(calls[s], call)) = Items(calls[s]) \cup {call}
  BY <1>1, ItemsAppend
<1>3. calls' \in [Side -> Seq(StoreCall)]
  BY <1>1, <1>2 DEF RowType
<1>4. /\ Items(calls'[s]) = Items(calls[s]) \cup {call}
      /\ \A q \in Side : q # s => calls'[q] = calls[q]
  BY <1>1, <1>2 DEF RowType
<1>5. CallOk(s, call)'
  BY DEF CallOk, Open
<1> QED
  BY <1>3, <1>4, <1>5 DEF CallSteps

LEMMA ReturnsCall ==
  ASSUME RowType, NEW s \in Side, NEW i \in DOMAIN calls[s], Returns(s, i)
  PROVE  calls' \in [Side -> Seq(StoreCall)] /\ CallSteps
<1>1. calls[s] \in Seq(StoreCall)
  BY DEF RowType
<1> DEFINE rest == SubSeq(calls[s], 1, i - 1) \o SubSeq(calls[s], i + 1, Len(calls[s]))
<1>2. rest \in Seq(StoreCall) /\ Items(rest) \subseteq Items(calls[s])
  BY <1>1, ItemsRemove
<1>3. calls' = [calls EXCEPT ![s] = rest]
  BY DEF Returns
<1> HIDE DEF rest
<1>4. calls' \in [Side -> Seq(StoreCall)]
  BY <1>2, <1>3 DEF RowType
<1>5. Items(calls'[s]) \subseteq Items(calls[s]) /\ \A q \in Side : q # s => calls'[q] = calls[q]
  BY <1>2, <1>3 DEF RowType
<1> QED
  BY <1>4, <1>5 DEF CallSteps

LEMMA SameCalls ==
  ASSUME RowType, UNCHANGED calls
  PROVE  calls' \in [Side -> Seq(StoreCall)] /\ CallSteps
  BY DEF RowType, CallSteps

(* Fields of a row that are set one by one. *)
LEMMA SetFields ==
  ASSUME row \in [Side -> [Note -> Row]], NEW s \in Side, NEW n \in Note, NEW text, NEW at
  PROVE  /\ [row EXCEPT ![s][n].revealed = TRUE]
              = [row EXCEPT ![s][n] = [row[s][n] EXCEPT !.revealed = TRUE]]
         /\ [row EXCEPT ![s][n].post = text]
              = [row EXCEPT ![s][n] = [row[s][n] EXCEPT !.post = text]]
         /\ [row EXCEPT ![s][n].body = text, ![s][n].edited = at]
              = [row EXCEPT ![s][n] = [row[s][n] EXCEPT !.body = text, !.edited = at]]
         /\ [row EXCEPT ![s][n].body = text, ![s][n].revealed = TRUE]
              = [row EXCEPT ![s][n] = [row[s][n] EXCEPT !.body = text, !.revealed = TRUE]]
         /\ [row EXCEPT ![s][n].deleted = TRUE, ![s][n].body = 0]
              = [row EXCEPT ![s][n] = [row[s][n] EXCEPT !.deleted = TRUE, !.body = 0]]
  OBVIOUS

LEMMA StoreCallFacts ==
  ASSUME NEW c \in StoreCall
  PROVE  /\ c.op \in {"share", "reveal", "publish", "edit", "delete"}
         /\ c.op # "share" => c.note \in Note
         /\ c.op # "delete" => c.text \in Text
         /\ c.op = "edit" => c.at \in 1 .. MaxClock
         /\ c.flag \in BOOLEAN
         /\ [c EXCEPT !.flag = TRUE] \in StoreCall
         /\ [c EXCEPT !.flag = TRUE].op = c.op /\ [c EXCEPT !.flag = TRUE].note = c.note
  BY DEF StoreCall

LEMMA TextHere ==
  ASSUME NEW r \in Row, r.body # 0
  PROVE  r.body \in Text
<1>1. r.body \in 0 .. MaxTexts
  BY RowFields
<1> QED
  BY <1>1, NotesAssumption DEF Text, NotesAssumption

(* A call in progress, what it is and what it knows. *)
LEMMA CallAt ==
  ASSUME RowType, Calls, NEW s \in Side, NEW i \in DOMAIN calls[s]
  PROVE  calls[s][i] \in StoreCall /\ calls[s][i] \in Items(calls[s]) /\ CallOk(s, calls[s][i])
  BY SeqItem DEF RowType, Calls

-----------------------------------------------------------------------------
(* Every step has one of the effects.                                      *)

Stepped == WireTypeOK(Operation)' /\ RowType' /\ Effect /\ CallSteps

LEMMA QuietEffect ==
  ASSUME RowType, UNCHANGED <<row, author, writ, stamps, untidy>>, SendsNothing
  PROVE  Quiet
<1>1. stamps' \in [Note -> SUBSET (1 .. MaxClock)] /\ \A n \in Note : stamps[n] \subseteq stamps'[n]
  BY DEF RowType
<1>2. untidy' \in BOOLEAN /\ (untidy => untidy')
  BY DEF RowType
<1> QED
  BY <1>1, <1>2 DEF Quiet

LEMMA DraftStep ==
  ASSUME RowType, WireTypeOK(Operation), NEW s \in Side, NEW kind \in NoteKind,
         WritePendingNote(s, kind) \/ UpdatePendingNote(s, kind) \/ DiscardPendingNote(s)
  PROVE  Stepped
<1>1. /\ UNCHANGED <<row, author, calls, feed, writ, stamps, untidy>> /\ UNCHANGED wireVars
  BY DEF WritePendingNote, UpdatePendingNote, DiscardPendingNote, notDrafts
<1>2. texts' \in 0 .. MaxTexts /\ draft' \in [Side -> Draft]
  <2>1. CASE WritePendingNote(s, kind) \/ UpdatePendingNote(s, kind)
    <3>1. texts' = texts + 1 /\ texts < MaxTexts
          /\ draft' = [draft EXCEPT ![s] = [kind |-> kind, text |-> texts']]
      BY <2>1 DEF WritePendingNote, UpdatePendingNote, Type
    <3>2. texts' \in 0 .. MaxTexts /\ texts' \in Text
      BY <3>1, NotesAssumption DEF RowType, Text, NotesAssumption
    <3>3. [kind |-> kind, text |-> texts'] \in Draft
      BY <3>2 DEF Draft
    <3> QED
      BY <3>1, <3>2, <3>3 DEF RowType
  <2>2. CASE DiscardPendingNote(s)
    BY <2>2 DEF DiscardPendingNote, RowType, Draft
  <2> QED
    BY <2>1, <2>2
<1>3. WireTypeOK(Operation)' /\ SendsNothing
  BY <1>1, QuietWay
<1>4. Quiet
  BY <1>1, <1>3, QuietEffect
<1>5. calls' \in [Side -> Seq(StoreCall)] /\ CallSteps
  BY <1>1, SameCalls
<1>6. RowType'
  BY <1>1, <1>2, <1>5 DEF RowType
<1> QED
  BY <1>3, <1>4, <1>5, <1>6 DEF Stepped, Effect

LEMMA CreateNoteEffect ==
  ASSUME RowType, WireTypeOK(Operation), NEW s \in Side, NEW n \in Note, NEW kind \in NoteKind,
         NEW text \in Text, CreateNote(s, n, kind, text), UNCHANGED <<stamps, untidy>>
  PROVE  /\ WireTypeOK(Operation)' /\ Created(s, n, kind, text)
         /\ row' \in [Side -> [Note -> Row]] /\ author' \in [Note -> Side \cup {"none"}]
         /\ writ' \in [Note -> 0 .. MaxTexts]
<1> DEFINE new == [NoRow EXCEPT !.kind = kind, !.body = text]
<1>1. text \in 0 .. MaxTexts /\ new \in Row
  <2>1. NoRow \in Row
    BY NotesAssumption DEF NotesAssumption, NoRow, Row
  <2>2. text \in 0 .. MaxTexts
    BY NotesAssumption DEF NotesAssumption, Text
  <2> QED
    BY <2>1, <2>2 DEF Row
<1>2. row' = [row EXCEPT ![s][n] = new]
  BY DEF CreateNote
<1> HIDE DEF new
<1>3. RowIs(s, n, new) /\ row' \in [Side -> [Note -> Row]]
  BY <1>1, <1>2, SetRow DEF RowType, RowIs
<1>4. kind = "shared" => WireTypeOK(Operation)' /\ Sends(s, Op("share", n, text, 0))
  BY OpIsOperation, SendWay DEF CreateNote
<1>5. kind = "secret" => WireTypeOK(Operation)' /\ Sends(s, Op("announce", n, 0, 0))
  BY OpIsOperation, SendWay DEF CreateNote
<1>6. /\ author[n] = "none" /\ author' = [author EXCEPT ![n] = s]
      /\ writ' = [writ EXCEPT ![n] = text]
  BY DEF CreateNote
<1>7. author' \in [Note -> Side \cup {"none"}] /\ writ' \in [Note -> 0 .. MaxTexts]
  BY <1>1, <1>6 DEF RowType
<1> QED
  BY <1>3, <1>4, <1>5, <1>6, <1>7 DEF Created, NoteKind, new

LEMMA CreateStep ==
  ASSUME RowType, WireTypeOK(Operation), NEW s \in Side, NEW n \in Note, NEW kind \in NoteKind,
         WriteNote(s, n, kind)
  PROVE  Stepped
<1>1. /\ texts < MaxTexts /\ texts' = texts + 1 /\ CreateNote(s, n, kind, texts')
      /\ UNCHANGED <<draft, calls, feed, stamps, untidy>>
  BY DEF WriteNote, Type
<1>2. texts' \in 0 .. MaxTexts /\ texts' \in Text
  BY <1>1, NotesAssumption DEF RowType, Text, NotesAssumption
<1>3. /\ WireTypeOK(Operation)' /\ Created(s, n, kind, texts')
      /\ row' \in [Side -> [Note -> Row]] /\ author' \in [Note -> Side \cup {"none"}]
      /\ writ' \in [Note -> 0 .. MaxTexts]
  <2> DEFINE text == texts'
  <2>1. text \in Text /\ CreateNote(s, n, kind, text)
    BY <1>1, <1>2
  <2> HIDE DEF text
  <2>2. /\ WireTypeOK(Operation)' /\ Created(s, n, kind, text)
        /\ row' \in [Side -> [Note -> Row]] /\ author' \in [Note -> Side \cup {"none"}]
        /\ writ' \in [Note -> 0 .. MaxTexts]
    BY <1>1, <2>1, CreateNoteEffect
  <2> QED
    BY <2>2 DEF text
<1>4. calls' \in [Side -> Seq(StoreCall)] /\ CallSteps
  BY <1>1, SameCalls
<1>5. RowType'
  BY <1>1, <1>2, <1>3, <1>4 DEF RowType
<1> QED
  BY <1>2, <1>3, <1>4, <1>5 DEF Stepped, Effect

LEMMA ShareStep ==
  ASSUME RowType, Calls, WireTypeOK(Operation), NEW s \in Side, NEW i \in DOMAIN calls[s],
         NEW n \in Note, ShareCommit(s, i, n)
  PROVE  Stepped
<1> DEFINE call == calls[s][i]
           kind == IF call.flag THEN "secret" ELSE "shared"
<1>1. /\ call.op = "share" /\ CreateNote(s, n, kind, call.text)
      /\ draft' = [draft EXCEPT ![s] = NoDraft] /\ Returns(s, i)
      /\ UNCHANGED <<feed, texts, stamps, untidy>>
  BY DEF ShareCommit
<1>2. call \in StoreCall
  BY CallAt
<1> HIDE DEF call
<1>3. call.text \in Text /\ kind \in NoteKind
  BY <1>1, <1>2, StoreCallFacts DEF NoteKind
<1> HIDE DEF kind
<1>4. /\ WireTypeOK(Operation)' /\ Created(s, n, kind, call.text)
      /\ row' \in [Side -> [Note -> Row]] /\ author' \in [Note -> Side \cup {"none"}]
      /\ writ' \in [Note -> 0 .. MaxTexts]
  BY <1>1, <1>3, CreateNoteEffect
<1>5. calls' \in [Side -> Seq(StoreCall)] /\ CallSteps
  BY <1>1, ReturnsCall
<1>6. draft' \in [Side -> Draft]
  BY <1>1 DEF RowType, Draft
<1>7. RowType'
  BY <1>1, <1>4, <1>5, <1>6 DEF RowType
<1> QED
  BY <1>3, <1>4, <1>5, <1>7 DEF Stepped, Effect

LEMMA SharePendingStep ==
  ASSUME RowType, WireTypeOK(Operation), NEW s \in Side, NEW kind \in NoteKind,
         SharePendingNote(s, kind)
  PROVE  Stepped
<1> DEFINE call == Call("share", "none", draft[s].text, kind = "secret", 0)
<1>1. /\ draft[s] # NoDraft /\ draft' = [draft EXCEPT ![s].kind = kind] /\ Begin(s, call)
      /\ UNCHANGED wireVars /\ UNCHANGED <<row, author, feed, texts, writ, stamps, untidy>>
  BY DEF SharePendingNote, HasDraft
<1>2. draft[s] \in [kind : NoteKind, text : Text]
  BY <1>1 DEF RowType, Draft
<1>3. call \in StoreCall /\ call.op = "share"
  <2>1. draft[s].text \in Text /\ (kind = "secret") \in BOOLEAN
    BY <1>2
  <2> QED
    BY <2>1 DEF Call, StoreCall
<1>4. [draft[s] EXCEPT !.kind = kind] \in Draft
  BY <1>2 DEF Draft
<1>5. draft' \in [Side -> Draft]
  BY <1>1, <1>4 DEF RowType
<1> HIDE DEF call
<1>6. calls' \in [Side -> Seq(StoreCall)] /\ CallSteps
  BY <1>1, <1>3, BeginCall DEF CallOk
<1>7. WireTypeOK(Operation)' /\ Quiet
  BY <1>1, QuietWay, QuietEffect
<1>8. RowType'
  BY <1>1, <1>5, <1>6 DEF RowType
<1> QED
  BY <1>6, <1>7, <1>8 DEF Stepped, Effect

(* The menu of a note is open to its author, of a shared one to either.    *)
LEMMA MenuAuthor ==
  ASSUME RowType, Rows, NEW s \in Side, NEW n \in Note, HasMenu(s, n)
  PROVE  /\ author[n] # "none" /\ row[s][n].kind # "none"
         /\ row[s][n].kind = "secret" \/ author[n] = s \/ row[Other(s)][n].kind = "shared"
<1>1. RowOk(s, n)
  BY DEF Rows
<1>2. author[n] \in {"none", s, Other(s)}
  BY OtherSide DEF RowType
<1> QED
  BY <1>1, <1>2 DEF RowOk, Copy, HasMenu, NoteKind

LEMMA OpeningStep ==
  ASSUME RowType, Rows, WireTypeOK(Operation), NEW s \in Side, NEW n \in Note, OnNote(s, n)
  PROVE  Stepped
<1>1. PICK call \in StoreCall : Begin(s, call) /\ CallOk(s, call)
  <2>0. row[s][n] \in Row /\ texts \in 0 .. MaxTexts
    BY DEF RowType
  <2>1. CASE RevealSecretNote(s, n)
    <3> DEFINE call == Call("reveal", n, row[s][n].body, TRUE, 0)
    <3>1. Begin(s, call) /\ author[n] = s /\ row[s][n].kind = "secret" /\ row[s][n].body # 0
      BY <2>1 DEF RevealSecretNote, CanReveal, IsAuthor
    <3>2. row[s][n].body \in Text
      BY <2>0, <3>1, TextHere
    <3>3. call \in StoreCall /\ call.op = "reveal" /\ call.note = n
      BY <3>2 DEF Call, StoreCall
    <3> HIDE DEF call
    <3>4. author[n] # "none"
      BY <3>1 DEF Side
    <3> QED
      BY <3>1, <3>3, <3>4 DEF CallOk
  <2>2. CASE \E at \in 1 .. MaxClock : EditNote(s, n, at)
    <3>0. PICK at \in 1 .. MaxClock : EditNote(s, n, at)
      BY <2>2
    <3> DEFINE flag == row[s][n].kind = "shared" \/ row[s][n].revealed
               call == Call("edit", n, texts', flag, at)
    <3>1. Begin(s, call) /\ CanEdit(s, n) /\ texts < MaxTexts /\ texts' = texts + 1
      BY <3>0 DEF EditNote, Type
    <3>2. texts' \in Text /\ flag \in BOOLEAN
      BY <2>0, <3>1, NotesAssumption DEF Text, NotesAssumption
    <3>3. call \in StoreCall /\ call.op = "edit" /\ call.note = n /\ call.flag = flag
      BY <3>2 DEF Call, StoreCall
    <3>4. /\ author[n] # "none" /\ row[s][n].kind # "none"
          /\ author[n] = s \/ row[Other(s)][n].kind = "shared"
      BY <3>1, MenuAuthor DEF CanEdit, IsAuthor
    <3>5. flag => Open(n)
      <4>1. RowOk(s, n) /\ author[n] \in {s, Other(s)}
        BY <3>4, OtherSide DEF RowType, Rows
      <4>2. CASE author[n] = s
        BY <4>2, <3>4 DEF Open
      <4>3. CASE author[n] # s
        BY <4>1, <4>3, <3>4 DEF Open
      <4> QED
        BY <4>2, <4>3
    <3> HIDE DEF call
    <3> QED
      BY <3>1, <3>3, <3>4, <3>5 DEF CallOk
  <2>3. CASE DeleteNote(s, n)
    <3> DEFINE call == Call("delete", n, 0, TRUE, 0)
    <3>1. Begin(s, call) /\ author[n] = s /\ HasMenu(s, n)
      BY <2>3 DEF DeleteNote, CanDelete, IsAuthor
    <3>2. call \in StoreCall /\ call.op = "delete" /\ call.note = n
      BY DEF Call, StoreCall
    <3> HIDE DEF call
    <3>3. author[n] # "none" /\ row[s][n].kind # "none"
      BY <3>1, MenuAuthor
    <3> QED
      BY <3>1, <3>2, <3>3 DEF CallOk
  <2>4. CASE PublishNote(s, n)
    <3> DEFINE call == Call("publish", n, row[s][n].body, FALSE, 0)
    <3>1. Begin(s, call) /\ author[n] = s /\ row[s][n].body # 0
      BY <2>4 DEF PublishNote, CanPublish, IsAuthor
    <3>2. row[s][n].body \in Text
      BY <2>0, <3>1, TextHere
    <3>3. call \in StoreCall /\ call.op = "publish" /\ call.note = n /\ call.flag = FALSE
      BY <3>2 DEF Call, StoreCall
    <3> HIDE DEF call
    <3>4. author[n] # "none" /\ row[s][n].kind # "none"
      BY <3>1 DEF Side, Rows, RowOk, NoteKind
    <3> QED
      BY <3>1, <3>3, <3>4 DEF CallOk
  <2> QED
    BY <2>1, <2>2, <2>3, <2>4 DEF OnNote
<1>2. UNCHANGED wireVars /\ UNCHANGED <<row, author, draft, feed, writ, stamps, untidy>>
  BY DEF OnNote, RevealSecretNote, EditNote, DeleteNote, PublishNote
<1>3. texts' = texts \/ (texts < MaxTexts /\ texts' = texts + 1)
  BY DEF OnNote, RevealSecretNote, EditNote, DeleteNote, PublishNote, Type
<1>4. texts' \in 0 .. MaxTexts
  BY <1>3, NotesAssumption DEF RowType, NotesAssumption
<1>5. calls' \in [Side -> Seq(StoreCall)] /\ CallSteps
  BY <1>1, <1>2, BeginCall
<1>6. WireTypeOK(Operation)' /\ Quiet
  BY <1>2, QuietWay, QuietEffect
<1>7. RowType'
  BY <1>2, <1>5, <1>4 DEF RowType
<1> QED
  BY <1>5, <1>6, <1>7 DEF Stepped, Effect

LEMMA RevealEffect ==
  ASSUME RowType, WireTypeOK(Operation), NEW s \in Side, NEW n \in Note, NEW text \in Text,
         author[n] = s, row[s][n].kind = "secret", Reveal(s, n, text),
         UNCHANGED <<author, writ, stamps>>
  PROVE  /\ WireTypeOK(Operation)' /\ Effect
         /\ row' \in [Side -> [Note -> Row]] /\ untidy' \in BOOLEAN
         /\ row'[s][n].revealed /\ row'[s][n].kind = "secret"
<1> DEFINE r == row[s][n]
           new == [r EXCEPT !.revealed = TRUE]
<1>1. r \in Row
  BY DEF RowType
<1>2. CASE r.revealed
  <2>1. UNCHANGED wireVars /\ UNCHANGED <<row, untidy>>
    BY <1>2 DEF Reveal
  <2>2. WireTypeOK(Operation)' /\ Quiet
    BY <2>1, QuietWay, QuietEffect
  <2> QED
    BY <1>2, <2>1, <2>2 DEF RowType, Effect
<1>3. CASE ~r.revealed
  <2>1. /\ row' = [row EXCEPT ![s][n].revealed = TRUE]
        /\ Queue(s, Op("reveal", n, text, 0)) /\ untidy' = (untidy \/ r.body # text)
    BY <1>3 DEF Reveal
  <2>2. row' = [row EXCEPT ![s][n] = new]
    BY <2>1, SetFields DEF RowType
  <2>3. new \in Row /\ new.revealed /\ new.kind = "secret"
    BY <1>1, RowFields DEF Row
  <2> HIDE DEF new
  <2>4. RowIs(s, n, new) /\ row' \in [Side -> [Note -> Row]]
    BY <2>2, <2>3, SetRow DEF RowType, RowIs
  <2>5. WireTypeOK(Operation)' /\ Sends(s, Op("reveal", n, text, 0))
    BY <2>1, OpIsOperation, SendWay
  <2>6. Revealed(s, n, text)
    BY <1>3, <2>1, <2>4, <2>5 DEF Revealed, new
  <2>7. untidy' \in BOOLEAN
    BY <2>1 DEF RowType
  <2> QED
    BY <2>3, <2>4, <2>5, <2>6, <2>7 DEF Effect, RowIs
<1> QED
  BY <1>2, <1>3

LEMMA RevealStep ==
  ASSUME RowType, Calls, WireTypeOK(Operation), NEW s \in Side, NEW i \in DOMAIN calls[s],
         RevealCommit(s, i)
  PROVE  Stepped
<1> DEFINE call == calls[s][i]
<1>1. /\ call.op = "reveal" /\ Reveal(s, call.note, call.text) /\ Returns(s, i)
      /\ UNCHANGED <<author, draft, feed, texts, writ, stamps>>
  BY DEF RevealCommit
<1>2. call \in StoreCall /\ CallOk(s, call)
  BY CallAt
<1> HIDE DEF call
<1>3. /\ call.note \in Note /\ call.text \in Text
      /\ author[call.note] = s /\ row[s][call.note].kind = "secret"
  BY <1>1, <1>2, StoreCallFacts DEF CallOk
<1>4. /\ WireTypeOK(Operation)' /\ Effect
      /\ row' \in [Side -> [Note -> Row]] /\ untidy' \in BOOLEAN
  BY <1>1, <1>3, RevealEffect
<1>5. calls' \in [Side -> Seq(StoreCall)] /\ CallSteps
  BY <1>1, ReturnsCall
<1>6. RowType'
  BY <1>1, <1>4, <1>5 DEF RowType
<1> QED
  BY <1>4, <1>5, <1>6 DEF Stepped

LEMMA EditStep ==
  ASSUME RowType, Calls, WireTypeOK(Operation), NEW s \in Side, NEW i \in DOMAIN calls[s],
         EditCommit(s, i)
  PROVE  Stepped
<1> DEFINE call == calls[s][i]
           n == call.note
           r == row[s][n]
           done == ~r.deleted /\ r.edited < call.at
           new == [r EXCEPT !.body = call.text, !.edited = call.at]
<1>1. /\ call.op = "edit"
      /\ row' = IF done THEN [row EXCEPT ![s][n].body = call.text, ![s][n].edited = call.at]
                        ELSE row
      /\ IF done /\ call.flag THEN Queue(s, Op("edit", n, call.text, call.at))
                              ELSE UNCHANGED wireVars
      /\ stamps' = [stamps EXCEPT ![n] = @ \cup {call.at}]
      /\ untidy' = (untidy \/ call.at \in stamps[n]
                           \/ call.flag # (r.kind = "shared" \/ r.revealed))
      /\ Returns(s, i)
      /\ UNCHANGED <<author, draft, feed, texts, writ>>
  BY DEF EditCommit
<1>2. call \in StoreCall /\ CallOk(s, call)
  BY CallAt
<1> HIDE DEF call
<1>3. n \in Note /\ call.text \in Text /\ call.at \in 1 .. MaxClock /\ call.flag \in BOOLEAN
  BY <1>1, <1>2, StoreCallFacts
<1>4. /\ author[n] # "none" /\ (author[n] = s \/ row[Other(s)][n].kind = "shared")
      /\ r.kind # "none" /\ (call.flag => Open(n))
  BY <1>1, <1>2 DEF CallOk
<1> HIDE DEF n
<1>5. calls' \in [Side -> Seq(StoreCall)] /\ CallSteps
  BY <1>1, ReturnsCall
<1>6. stamps' \in [Note -> SUBSET (1 .. MaxClock)] /\ \A m \in Note : stamps[m] \subseteq stamps'[m]
  BY <1>1, <1>3 DEF RowType
<1>7. untidy' \in BOOLEAN
  BY <1>1
<1>t. untidy => untidy'
  BY <1>1
<1>8. CASE ~done
  <2>1. UNCHANGED wireVars /\ UNCHANGED <<row, author, writ>>
    BY <1>1, <1>8
  <2>2. WireTypeOK(Operation)' /\ SendsNothing
    BY <2>1, QuietWay
  <2>3. Quiet
    BY <1>6, <1>7, <1>t, <2>1, <2>2 DEF Quiet
  <2>4. RowType'
    BY <1>1, <1>5, <1>6, <1>7, <2>1 DEF RowType
  <2> QED
    BY <1>5, <2>2, <2>3, <2>4 DEF Stepped, Effect
<1>9. CASE done
  <2>1. row' = [row EXCEPT ![s][n] = new]
    <3>1. row' = [row EXCEPT ![s][n].body = call.text, ![s][n].edited = call.at]
      BY <1>1, <1>9
    <3>2. row \in [Side -> [Note -> Row]]
      BY DEF RowType
    <3> QED
      BY <1>3, <3>1, <3>2
  <2>2. r \in Row /\ new \in Row
    <3>1. r \in Row
      BY <1>3 DEF RowType
    <3> QED
      BY <1>3, <3>1, RowFields
  <2> HIDE DEF new
  <2>3. RowIs(s, n, new) /\ row' \in [Side -> [Note -> Row]]
    BY <1>3, <2>1, <2>2, SetRow DEF RowType, RowIs
  <2>4. CASE call.flag
    <3>1. Queue(s, Op("edit", n, call.text, call.at))
      BY <1>1, <1>9, <2>4
    <3>2. WireTypeOK(Operation)' /\ Sends(s, Op("edit", n, call.text, call.at))
      BY <1>3, <3>1, OpIsOperation, SendWay
    <3>3. Rewritten(s, n, call.text, call.at, call.flag)
      BY <1>1, <1>4, <1>9, <2>3, <2>4, <3>2 DEF Rewritten, new
    <3>4. RowType'
      BY <1>1, <1>5, <1>6, <1>7, <2>3 DEF RowType
    <3> QED
      BY <1>3, <1>5, <3>2, <3>3, <3>4 DEF Stepped, Effect
  <2>5. CASE ~call.flag
    <3>1. UNCHANGED wireVars
      BY <1>1, <1>9, <2>5
    <3>2. WireTypeOK(Operation)' /\ SendsNothing
      BY <3>1, QuietWay
    <3>3. Rewritten(s, n, call.text, call.at, call.flag)
      BY <1>1, <1>4, <1>9, <2>3, <2>5, <3>2 DEF Rewritten, new
    <3>4. RowType'
      BY <1>1, <1>5, <1>6, <1>7, <2>3 DEF RowType
    <3> QED
      BY <1>3, <1>5, <3>2, <3>3, <3>4 DEF Stepped, Effect
  <2> QED
    BY <2>4, <2>5
<1> QED
  BY <1>8, <1>9

LEMMA DeleteStep ==
  ASSUME RowType, Calls, WireTypeOK(Operation), NEW s \in Side, NEW i \in DOMAIN calls[s],
         DeleteCommit(s, i)
  PROVE  Stepped
<1> DEFINE call == calls[s][i]
           n == call.note
           r == row[s][n]
           new == [r EXCEPT !.deleted = TRUE, !.body = 0]
<1>1. /\ call.op = "delete"
      /\ IF r.deleted
         THEN UNCHANGED <<wireVars, row>>
         ELSE /\ row' = [row EXCEPT ![s][n].deleted = TRUE, ![s][n].body = 0]
              /\ Queue(s, Op("delete", n, 0, 0))
      /\ Returns(s, i)
      /\ UNCHANGED <<author, draft, feed, texts, writ, stamps, untidy>>
  BY DEF DeleteCommit
<1>2. call \in StoreCall /\ CallOk(s, call)
  BY CallAt
<1> HIDE DEF call
<1>3. n \in Note /\ author[n] = s
  BY <1>1, <1>2, StoreCallFacts DEF CallOk
<1> HIDE DEF n
<1>4. calls' \in [Side -> Seq(StoreCall)] /\ CallSteps
  BY <1>1, ReturnsCall
<1>5. CASE r.deleted
  <2>1. UNCHANGED wireVars /\ UNCHANGED row
    BY <1>1, <1>5
  <2>2. WireTypeOK(Operation)' /\ Quiet
    BY <1>1, <2>1, QuietWay, QuietEffect
  <2>3. RowType'
    BY <1>1, <1>4, <2>1 DEF RowType
  <2> QED
    BY <1>4, <2>2, <2>3 DEF Stepped, Effect
<1>6. CASE ~r.deleted
  <2>1. /\ row' = [row EXCEPT ![s][n].deleted = TRUE, ![s][n].body = 0]
        /\ Queue(s, Op("delete", n, 0, 0))
    BY <1>1, <1>6
  <2>2. row \in [Side -> [Note -> Row]] /\ r \in Row
    BY <1>3 DEF RowType
  <2>3. row' = [row EXCEPT ![s][n] = new]
    BY <1>3, <2>1, <2>2
  <2>4. new \in Row
    BY <2>2, RowFields
  <2> HIDE DEF new
  <2>5. RowIs(s, n, new) /\ row' \in [Side -> [Note -> Row]]
    BY <1>3, <2>2, <2>3, <2>4, SetRow DEF RowIs
  <2>6. WireTypeOK(Operation)' /\ Sends(s, Op("delete", n, 0, 0))
    BY <1>3, <2>1, OpIsOperation, SendWay
  <2>7. Deleted(s, n)
    BY <1>1, <1>3, <1>6, <2>5, <2>6 DEF Deleted, new
  <2>8. RowType'
    BY <1>1, <1>4, <2>5 DEF RowType
  <2> QED
    BY <1>3, <1>4, <2>6, <2>7, <2>8 DEF Stepped, Effect
<1> QED
  BY <1>5, <1>6

LEMMA PublishStep ==
  ASSUME RowType, Calls, WireTypeOK(Operation), NEW s \in Side, NEW i \in DOMAIN calls[s],
         PublishCommit(s, i)
  PROVE  Stepped
<1> DEFINE call == calls[s][i]
           n == call.note
           r == row[s][n]
           new == [r EXCEPT !.post = call.text]
<1>1. /\ call.op = "publish" /\ call.flag
      /\ IF r.post # 0
         THEN UNCHANGED <<wireVars, row>>
         ELSE /\ row' = [row EXCEPT ![s][n].post = call.text]
              /\ Queue(s, Op("publish", n, call.text, 0))
      /\ Returns(s, i)
      /\ UNCHANGED <<author, draft, feed, texts, writ, stamps, untidy>>
  BY DEF PublishCommit
<1>2. call \in StoreCall /\ CallOk(s, call)
  BY CallAt
<1> HIDE DEF call
<1>3. n \in Note /\ call.text \in Text /\ author[n] = s /\ Open(n)
  BY <1>1, <1>2, StoreCallFacts DEF CallOk
<1> HIDE DEF n
<1>4. calls' \in [Side -> Seq(StoreCall)] /\ CallSteps
  BY <1>1, ReturnsCall
<1>5. CASE r.post # 0
  <2>1. UNCHANGED wireVars /\ UNCHANGED row
    BY <1>1, <1>5
  <2>2. WireTypeOK(Operation)' /\ Quiet
    BY <1>1, <2>1, QuietWay, QuietEffect
  <2>3. RowType'
    BY <1>1, <1>4, <2>1 DEF RowType
  <2> QED
    BY <1>4, <2>2, <2>3 DEF Stepped, Effect
<1>6. CASE r.post = 0
  <2>1. /\ row' = [row EXCEPT ![s][n].post = call.text]
        /\ Queue(s, Op("publish", n, call.text, 0))
    BY <1>1, <1>6
  <2>2. row \in [Side -> [Note -> Row]] /\ r \in Row
    BY <1>3 DEF RowType
  <2>3. row' = [row EXCEPT ![s][n] = new]
    BY <1>3, <2>1, <2>2
  <2>4. new \in Row
    BY <1>3, <2>2, RowFields
  <2> HIDE DEF new
  <2>5. RowIs(s, n, new) /\ row' \in [Side -> [Note -> Row]]
    BY <1>3, <2>2, <2>3, <2>4, SetRow DEF RowIs
  <2>6. WireTypeOK(Operation)' /\ Sends(s, Op("publish", n, call.text, 0))
    BY <1>3, <2>1, OpIsOperation, SendWay
  <2>7. Published(s, n, call.text)
    BY <1>1, <1>3, <1>6, <2>5, <2>6 DEF Published, new
  <2>8. RowType'
    BY <1>1, <1>4, <2>5 DEF RowType
  <2> QED
    BY <1>3, <1>4, <2>6, <2>7, <2>8 DEF Stepped, Effect
<1> QED
  BY <1>5, <1>6

(* The call that has posted knows the note open: the reveal came first.    *)
LEMMA PostStep ==
  ASSUME RowType, Rows, Calls, WireTypeOK(Operation), NEW s \in Side, NEW i \in DOMAIN calls[s],
         PublishPost(s, i)
  PROVE  Stepped
<1> PICK call : call = calls[s][i]
  OBVIOUS
<1> PICK n : n = call.note
  OBVIOUS
<1> PICK r : r = row[s][n]
  OBVIOUS
<1> PICK sent : sent = [call EXCEPT !.flag = TRUE]
  OBVIOUS
<1>1. /\ call.op = "publish" /\ PublishReveals(s, n) /\ feed' = feed \cup {call.text}
      /\ calls' = [calls EXCEPT ![s][i].flag = TRUE] \/ Returns(s, i)
      /\ UNCHANGED <<author, draft, texts, writ, stamps>>
  BY DEF PublishPost, InsertPost
<1>2. call \in StoreCall /\ CallOk(s, call) /\ calls[s] \in Seq(StoreCall)
  BY CallAt DEF RowType
<1>3. calls' = [calls EXCEPT ![s][i].flag = TRUE] => calls' = [calls EXCEPT ![s][i] = sent]
  BY <1>2 DEF RowType
<1>4. n \in Note /\ call.text \in Text /\ author[n] = s
  BY <1>1, <1>2, StoreCallFacts DEF CallOk
<1>5. /\ sent \in StoreCall /\ sent.op = "publish" /\ sent.note = n
  BY <1>1, <1>2, StoreCallFacts
<1>6. r \in Row /\ r.kind \in NoteKind
  <2>1. row[s][n] \in Row
    BY <1>4 DEF RowType
  <2>2. RowOk(s, n)
    BY <1>4 DEF Rows
  <2> QED
    BY <1>4, <2>1, <2>2 DEF RowOk
<1>7. /\ WireTypeOK(Operation)' /\ Effect
      /\ row' \in [Side -> [Note -> Row]] /\ untidy' \in BOOLEAN
      /\ row'[s][n].kind \in NoteKind /\ Open(n)'
  <2>1. CASE r.kind = "secret"
    <3>1. r.body # 0 /\ Reveal(s, n, r.body)
      BY <1>1, <2>1 DEF PublishReveals
    <3>2. r.body \in Text
      BY <1>6, <3>1, TextHere
    <3>3. /\ WireTypeOK(Operation)' /\ Effect
          /\ row' \in [Side -> [Note -> Row]] /\ untidy' \in BOOLEAN
          /\ row'[s][n].revealed /\ row'[s][n].kind = "secret"
      BY <1>1, <1>4, <2>1, <3>1, <3>2, RevealEffect
    <3> QED
      BY <1>1, <1>4, <3>3 DEF Open, NoteKind, Side
  <2>2. CASE r.kind = "shared"
    <3>1. UNCHANGED wireVars /\ UNCHANGED <<row, untidy>>
      BY <1>1, <2>2 DEF PublishReveals
    <3>2. WireTypeOK(Operation)' /\ Quiet
      BY <1>1, <3>1, QuietWay, QuietEffect
    <3>3. row' \in [Side -> [Note -> Row]] /\ untidy' \in BOOLEAN
      BY <3>1 DEF RowType
    <3> QED
      BY <1>1, <1>4, <1>6, <2>2, <3>1, <3>2, <3>3 DEF Open, Effect, Side
  <2> QED
    BY <1>6, <2>1, <2>2 DEF NoteKind
<1>8. calls' \in [Side -> Seq(StoreCall)] /\ CallSteps
  <2>1. CASE Returns(s, i)
    BY <2>1, ReturnsCall
  <2>2. CASE calls' = [calls EXCEPT ![s][i] = sent]
    <3>1. calls' \in [Side -> Seq(StoreCall)]
      BY <1>2, <1>5, <2>2 DEF RowType
    <3>2. \A q \in Side : q # s => calls'[q] = calls[q]
      BY <2>2 DEF RowType
    <3>3. Items(calls'[s]) \subseteq Items(calls[s]) \cup {sent}
      <4>1. calls'[s] = [calls[s] EXCEPT ![i] = sent]
        BY <2>2 DEF RowType
      <4> QED
        BY <4>1 DEF Items
    <3>4. CallOk(s, sent)'
      BY <1>1, <1>4, <1>5, <1>7 DEF CallOk, NoteKind, Side
    <3> QED
      BY <3>1, <3>2, <3>3, <3>4 DEF CallSteps
  <2> QED
    BY <1>1, <1>3, <2>1, <2>2
<1>9. RowType'
  BY <1>1, <1>4, <1>7, <1>8 DEF RowType
<1> QED
  BY <1>7, <1>8, <1>9 DEF Stepped

(* What is applied leaves the row that After says. *)
LEMMA ApplyRow ==
  ASSUME RowType, NEW s \in Side, NEW op \in Operation,
         \/ ApplyShare(s, op) \/ ApplyAnnounce(s, op) \/ ApplyReveal(s, op)
         \/ ApplyPublish(s, op) \/ ApplyEdit(s, op) \/ ApplyDelete(s, op)
  PROVE  /\ row' = [row EXCEPT ![s][op.note] = After(s, op)] /\ After(s, op) \in Row
         /\ untidy' = (untidy \/ Unready(s, op))
<1> PICK n : n = op.note
  OBVIOUS
<1> PICK r : r = row[s][n]
  OBVIOUS
<1>1. n \in Note /\ op.text \in 0 .. MaxTexts /\ op.at \in 0 .. MaxClock
  BY OperationFacts
<1>2. r \in Row /\ row \in [Side -> [Note -> Row]]
  BY <1>1 DEF RowType
<1>3. row = [row EXCEPT ![s][n] = r]
  BY <1>2
<1>4. NoRow \in Row
  BY NotesAssumption DEF NotesAssumption, NoRow, Row
<1>5. untidy \in BOOLEAN
  BY DEF RowType
<1>6. CASE ApplyShare(s, op)
  <2>1. op.kind = "share" /\ UNCHANGED untidy
    BY <1>6 DEF ApplyShare
  <2>2. untidy' = (untidy \/ Unready(s, op))
    BY <1>5, <2>1 DEF Unready
  <2>3. CASE r.kind = "none"
    <3>1. After(s, op) = [NoRow EXCEPT !.kind = "shared", !.body = op.text]
      BY <2>1, <2>3 DEF After
    <3>2. row' = [row EXCEPT ![s][n] = [NoRow EXCEPT !.kind = "shared", !.body = op.text]]
      BY <1>6, <2>3 DEF ApplyShare, Unknown
    <3>3. [NoRow EXCEPT !.kind = "shared", !.body = op.text] \in Row
      BY <1>1, <1>4 DEF Row, NoteKind
    <3> QED
      BY <2>2, <3>1, <3>2, <3>3
  <2>4. CASE r.kind # "none"
    <3>1. After(s, op) = r
      BY <2>1, <2>4 DEF After
    <3>2. row' = row
      BY <1>6, <2>4 DEF ApplyShare, Unknown
    <3> QED
      BY <1>2, <1>3, <2>2, <3>1, <3>2
  <2> QED
    BY <2>3, <2>4
<1>7. CASE ApplyAnnounce(s, op)
  <2>1. op.kind = "announce" /\ UNCHANGED untidy
    BY <1>7 DEF ApplyAnnounce
  <2>2. untidy' = (untidy \/ Unready(s, op))
    BY <1>5, <2>1 DEF Unready
  <2>3. CASE r.kind = "none"
    <3>1. After(s, op) = [NoRow EXCEPT !.kind = "secret"]
      BY <2>1, <2>3 DEF After
    <3>2. row' = [row EXCEPT ![s][n] = [NoRow EXCEPT !.kind = "secret"]]
      BY <1>7, <2>3 DEF ApplyAnnounce, Unknown
    <3>3. [NoRow EXCEPT !.kind = "secret"] \in Row
      BY <1>4 DEF Row, NoteKind
    <3> QED
      BY <2>2, <3>1, <3>2, <3>3
  <2>4. CASE r.kind # "none"
    <3>1. After(s, op) = r
      BY <2>1, <2>4 DEF After
    <3>2. row' = row
      BY <1>7, <2>4 DEF ApplyAnnounce, Unknown
    <3> QED
      BY <1>2, <1>3, <2>2, <3>1, <3>2
  <2> QED
    BY <2>3, <2>4
<1>8. CASE ApplyReveal(s, op)
  <2>1. /\ op.kind = "reveal"
        /\ untidy' = (untidy \/ Unknown(s, op) \/ (r.deleted /\ ~r.revealed))
    BY <1>8 DEF ApplyReveal
  <2>2. untidy' = (untidy \/ Unready(s, op))
    BY <1>5, <2>1 DEF Unready, Unknown
  <2>3. CASE r.kind = "secret" /\ ~r.revealed
    <3> PICK new : new = [r EXCEPT !.body = op.text, !.revealed = TRUE]
      OBVIOUS
    <3>1. After(s, op) = new
      BY <2>1, <2>3 DEF After
    <3>2. row' = [row EXCEPT ![s][n].body = op.text, ![s][n].revealed = TRUE]
      BY <1>8, <2>3 DEF ApplyReveal
    <3>3. row' = [row EXCEPT ![s][n] = new]
      BY <1>1, <1>2, <3>2
    <3>4. new \in Row
      BY <2>1, <1>2, OperationFacts, RowFields
    <3> QED
      BY <2>2, <3>1, <3>3, <3>4
  <2>4. CASE ~(r.kind = "secret" /\ ~r.revealed)
    <3>1. After(s, op) = r
      BY <2>1, <2>4 DEF After
    <3>2. row' = row
      BY <1>8, <2>4 DEF ApplyReveal
    <3> QED
      BY <1>2, <1>3, <2>2, <3>1, <3>2
  <2> QED
    BY <2>3, <2>4
<1>9. CASE ApplyPublish(s, op)
  <2>1. /\ op.kind = "publish"
        /\ untidy' = (untidy \/ Unknown(s, op) \/ r.post \notin {0, op.text})
    BY <1>9 DEF ApplyPublish
  <2>2. untidy' = (untidy \/ Unready(s, op))
    BY <1>5, <2>1 DEF Unready, Unknown
  <2>3. CASE r.kind # "none" /\ r.post = 0
    <3> PICK new : new = [r EXCEPT !.post = op.text]
      OBVIOUS
    <3>1. After(s, op) = new
      BY <2>1, <2>3 DEF After
    <3>2. row' = [row EXCEPT ![s][n].post = op.text]
      BY <1>9, <2>3 DEF ApplyPublish, Unknown
    <3>3. row' = [row EXCEPT ![s][n] = new]
      BY <1>1, <1>2, <3>2
    <3>4. new \in Row
      BY <2>1, <1>2, OperationFacts, RowFields
    <3> QED
      BY <2>2, <3>1, <3>3, <3>4
  <2>4. CASE ~(r.kind # "none" /\ r.post = 0)
    <3>1. After(s, op) = r
      BY <2>1, <2>4 DEF After
    <3>2. row' = row
      BY <1>9, <2>4 DEF ApplyPublish, Unknown
    <3> QED
      BY <1>2, <1>3, <2>2, <3>1, <3>2
  <2> QED
    BY <2>3, <2>4
<1>10. CASE ApplyEdit(s, op)
  <2>1. /\ op.kind = "edit"
        /\ untidy' = (untidy \/ Unknown(s, op) \/ (r.kind = "secret" /\ ~r.revealed))
    BY <1>10 DEF ApplyEdit
  <2>2. untidy' = (untidy \/ Unready(s, op))
    BY <1>5, <2>1 DEF Unready, Unknown
  <2>3. CASE r.kind # "none" /\ ~r.deleted /\ r.edited < op.at
    <3> PICK new : new = [r EXCEPT !.body = op.text, !.edited = op.at]
      OBVIOUS
    <3>1. After(s, op) = new
      BY <2>1, <2>3 DEF After
    <3>2. row' = [row EXCEPT ![s][n].body = op.text, ![s][n].edited = op.at]
      BY <1>10, <2>3 DEF ApplyEdit
    <3>3. row' = [row EXCEPT ![s][n] = new]
      BY <1>1, <1>2, <3>2
    <3>4. new \in Row
      BY <2>1, <1>2, OperationFacts, RowFields
    <3> QED
      BY <2>2, <3>1, <3>3, <3>4
  <2>4. CASE ~(r.kind # "none" /\ ~r.deleted /\ r.edited < op.at)
    <3>1. After(s, op) = r
      BY <2>1, <2>4 DEF After
    <3>2. row' = row
      BY <1>10, <2>4 DEF ApplyEdit
    <3> QED
      BY <1>2, <1>3, <2>2, <3>1, <3>2
  <2> QED
    BY <2>3, <2>4
<1>11. CASE ApplyDelete(s, op)
  <2>1. op.kind = "delete" /\ UNCHANGED untidy
    BY <1>11 DEF ApplyDelete
  <2>2. untidy' = (untidy \/ Unready(s, op))
    BY <1>5, <2>1 DEF Unready
  <2>3. CASE r.kind = "none"
    <3>1. After(s, op) = [NoRow EXCEPT !.kind = "shared", !.deleted = TRUE]
      BY <2>1, <2>3 DEF After
    <3>2. row' = [row EXCEPT ![s][n] = [NoRow EXCEPT !.kind = "shared", !.deleted = TRUE]]
      BY <1>11, <2>3 DEF ApplyDelete, Unknown
    <3>3. [NoRow EXCEPT !.kind = "shared", !.deleted = TRUE] \in Row
      BY <1>4 DEF Row, NoteKind
    <3> QED
      BY <2>2, <3>1, <3>2, <3>3
  <2>4. CASE r.kind # "none" /\ ~r.deleted
    <3> PICK new : new = [r EXCEPT !.deleted = TRUE, !.body = 0]
      OBVIOUS
    <3>1. After(s, op) = new
      BY <2>1, <2>4 DEF After
    <3>2. row' = [row EXCEPT ![s][n].deleted = TRUE, ![s][n].body = 0]
      BY <1>11, <2>4 DEF ApplyDelete, Unknown
    <3>3. row' = [row EXCEPT ![s][n] = new]
      BY <1>1, <1>2, <3>2
    <3>4. new \in Row
      BY <1>2, RowFields
    <3> QED
      BY <2>2, <3>1, <3>3, <3>4
  <2>5. CASE r.kind # "none" /\ r.deleted
    <3>1. After(s, op) = r
      BY <2>1, <2>5 DEF After
    <3>2. row' = row
      BY <1>11, <2>5 DEF ApplyDelete, Unknown
    <3> QED
      BY <1>2, <1>3, <2>2, <3>1, <3>2
  <2> QED
    BY <2>3, <2>4, <2>5
<1> QED
  BY <1>6, <1>7, <1>8, <1>9, <1>10, <1>11

LEMMA ApplyStep ==
  ASSUME RowType, WireTypeOK(Operation), NEW s \in Side, ApplyNext(s)
  PROVE  Stepped
<1>1. PICK e \in page[s] :
        /\ Take(s, e)
        /\ \/ ApplyShare(s, e.op) \/ ApplyAnnounce(s, e.op) \/ ApplyReveal(s, e.op)
           \/ ApplyPublish(s, e.op) \/ ApplyEdit(s, e.op) \/ ApplyDelete(s, e.op)
        /\ UNCHANGED <<author, draft, calls, feed, texts, writ, stamps>>
  BY DEF ApplyNext
<1> PICK op : op = e.op
  OBVIOUS
<1>2. /\ WireTypeOK(Operation)' /\ op \in Operation /\ op \in Way(Other(s))
      /\ Way(s)' = Way(s) /\ Way(Other(s))' \subseteq Way(Other(s))
      /\ Way(Other(s)) \subseteq Way(Other(s))' \cup {op}
  BY <1>1, TakeWay
<1>3. /\ row' = [row EXCEPT ![s][op.note] = After(s, op)] /\ After(s, op) \in Row
      /\ untidy' = (untidy \/ Unready(s, op))
  BY <1>1, <1>2, ApplyRow
<1>4. op.note \in Note
  BY <1>2, OperationFacts
<1>5. RowIs(s, op.note, After(s, op)) /\ row' \in [Side -> [Note -> Row]]
  BY <1>3, <1>4, SetRow DEF RowType, RowIs
<1>6. Arrived(s, op)
  BY <1>1, <1>2, <1>3, <1>5 DEF Arrived
<1>7. calls' \in [Side -> Seq(StoreCall)] /\ CallSteps
  BY <1>1, SameCalls
<1>8. untidy' \in BOOLEAN
  BY <1>3
<1>9. RowType'
  BY <1>1, <1>5, <1>7, <1>8 DEF RowType
<1> QED
  BY <1>2, <1>6, <1>7, <1>9 DEF Stepped, Effect

LEMMA OtherStep ==
  ASSUME RowType, WireTypeOK(Operation),
         UNCHANGED vars \/ \E s \in Side : Sync(s) \/ Restart(s)
  PROVE  Stepped
<1>1. UNCHANGED <<row, author, draft, feed, texts, writ, stamps, untidy>>
  BY DEF vars, Sync, Restart
<1>2. WireTypeOK(Operation)' /\ SendsNothing
  <2>1. CASE UNCHANGED vars \/ \E s \in Side : Restart(s)
    BY <2>1, QuietWay DEF vars, Restart
  <2>2. CASE \E s \in Side : Sync(s)
    BY <2>2, WireStepWay DEF Sync, SendsNothing
  <2> QED
    BY <2>1, <2>2
<1>3. calls' \in [Side -> Seq(StoreCall)] /\ CallSteps
  <2>1. CASE UNCHANGED vars \/ \E s \in Side : Sync(s)
    BY <2>1, SameCalls DEF vars, Sync
  <2>2. CASE \E s \in Side : Restart(s)
    <3>1. PICK s \in Side : calls' = [calls EXCEPT ![s] = << >>]
      BY <2>2 DEF Restart
    <3> QED
      BY <3>1 DEF RowType, CallSteps, Items
  <2> QED
    BY <2>1, <2>2
<1>4. Quiet
  BY <1>1, <1>2, QuietEffect
<1>5. RowType'
  BY <1>1, <1>3 DEF RowType
<1> QED
  BY <1>2, <1>3, <1>4, <1>5 DEF Stepped, Effect

LEMMA NextEffect ==
  ASSUME RowType, Rows, Calls, WireTypeOK(Operation), [Next]_vars
  PROVE  Stepped
<1>1. CASE UNCHANGED vars
  BY <1>1, OtherStep
<1>2. ASSUME NEW s \in Side, NEW kind \in NoteKind,
             \/ WritePendingNote(s, kind) \/ UpdatePendingNote(s, kind)
             \/ SharePendingNote(s, kind) \/ \E n \in Note : WriteNote(s, n, kind)
      PROVE  Stepped
  BY <1>2, DraftStep, SharePendingStep, CreateStep
<1>3. ASSUME NEW s \in Side,
             \/ DiscardPendingNote(s) \/ \E n \in Note : OnNote(s, n)
             \/ Restart(s) \/ Sync(s) \/ ApplyNext(s)
      PROVE  Stepped
  <2>1. "shared" \in NoteKind
    BY DEF NoteKind
  <2> QED
    BY <1>3, <2>1, DraftStep, OpeningStep, OtherStep, ApplyStep
<1>4. ASSUME NEW s \in Side, Commit(s) PROVE Stepped
  BY <1>4, ShareStep, RevealStep, EditStep, DeleteStep, PostStep, PublishStep DEF Commit
<1> QED
  BY <1>1, <1>2, <1>3, <1>4 DEF Next

-----------------------------------------------------------------------------
(* What is settled stays so: the author, the kind, a reveal, a deletion    *)
(* and a post of a note.                                                   *)

Keeps(r, new) ==
  /\ r.kind # "none" => new.kind = r.kind
  /\ r.revealed => new.revealed
  /\ r.deleted => new.deleted
  /\ r.post # 0 => new.post = r.post

Stable ==
  \A n \in Note :
    /\ author[n] # "none" => author'[n] = author[n]
    /\ \A s \in Side : Keeps(row[s][n], row'[s][n])
    /\ Open(n) => Open(n)'

LEMMA AfterKeeps ==
  ASSUME RowType, Rows, NEW s \in Side, NEW op \in Operation
  PROVE  Keeps(row[s][op.note], After(s, op))
<1> PICK r : r = row[s][op.note]
  OBVIOUS
<1>1. r \in Row /\ (r.kind = "none" => r = NoRow)
  <2>1. op.note \in Note
    BY OperationFacts
  <2>2. row[s][op.note] \in Row
    BY <2>1 DEF RowType
  <2>3. RowOk(s, op.note)
    BY <2>1 DEF Rows
  <2> QED
    BY <2>2, <2>3 DEF RowOk
<1>2. CASE r.kind = "none"
  BY <1>1, <1>2 DEF Keeps, NoRow
<1>3. CASE r.kind # "none"
  <2>1. After(s, op).kind = r.kind
    BY <1>1, <1>3 DEF After, Row
  <2>2. r.revealed => After(s, op).revealed
    BY <1>1, <1>3 DEF After, Row
  <2>3. r.deleted => After(s, op).deleted
    BY <1>1, <1>3 DEF After, Row
  <2>4. r.post # 0 => After(s, op).post = r.post
    BY <1>1, <1>3 DEF After, Row
  <2> QED
    BY <2>1, <2>2, <2>3, <2>4 DEF Keeps
<1> QED
  BY <1>2, <1>3

(* One row and one author change at most. *)
LEMMA OneRow ==
  ASSUME RowType, Rows, NEW s \in Side, NEW n \in Note, NEW new, RowIs(s, n, new),
         Keeps(row[s][n], new),
         author' = author \/ (author[n] = "none" /\ author' = [author EXCEPT ![n] = s])
  PROVE  Stable
<1> SUFFICES ASSUME NEW m \in Note
             PROVE  /\ author[m] # "none" => author'[m] = author[m]
                    /\ \A q \in Side : Keeps(row[q][m], row'[q][m])
                    /\ Open(m) => Open(m)'
  BY DEF Stable
<1>1. author[m] # "none" => author'[m] = author[m]
  BY DEF RowType
<1>2. \A q \in Side : Keeps(row[q][m], row'[q][m])
  BY DEF RowIs, Keeps
<1>3. Open(m) => Open(m)'
  <2>1. SUFFICES ASSUME Open(m) PROVE Open(m)'
    OBVIOUS
  <2>2. author[m] \in Side /\ author'[m] = author[m]
    BY <1>1, <2>1 DEF Open, RowType
  <2> PICK q : q = author[m]
    OBVIOUS
  <2>3. Keeps(row[q][m], row'[q][m])
    BY <1>2, <2>2
  <2> QED
    BY <2>1, <2>2, <2>3 DEF Open, Keeps, Side
<1> QED
  BY <1>1, <1>2, <1>3

LEMMA EffectStable ==
  ASSUME RowType, Rows, Effect
  PROVE  Stable
<1>1. CASE Quiet
  BY <1>1 DEF Quiet, Stable, Keeps, Open
<1>2. ASSUME NEW s \in Side, NEW n \in Note, NEW kind \in NoteKind, NEW text \in Text,
             Created(s, n, kind, text)
      PROVE  Stable
  <2>1. row[s][n] = NoRow
    BY <1>2 DEF Created, Rows, RowOk
  <2> PICK new : new = [NoRow EXCEPT !.kind = kind, !.body = text]
    OBVIOUS
  <2>2. Keeps(row[s][n], new)
    BY <2>1 DEF Keeps, NoRow
  <2>3. RowIs(s, n, new)
    BY <1>2 DEF Created
  <2> QED
    BY <1>2, <2>2, <2>3, OneRow DEF Created
<1>3. ASSUME NEW s \in Side, NEW n \in Note, NEW text \in Text,
             Revealed(s, n, text) \/ Published(s, n, text)
      PROVE  Stable
  <2>1. row[s][n] \in Row
    BY DEF RowType
  <2>2. PICK new : RowIs(s, n, new) /\ Keeps(row[s][n], new)
    BY <1>3, <2>1 DEF Revealed, Published, Keeps, Row
  <2> QED
    BY <1>3, <2>2, OneRow DEF Revealed, Published
<1>4. ASSUME NEW s \in Side, NEW n \in Note, NEW text \in Text, NEW at \in 1 .. MaxClock,
             NEW flag \in BOOLEAN, Rewritten(s, n, text, at, flag)
      PROVE  Stable
  <2>1. row[s][n] \in Row
    BY DEF RowType
  <2> PICK new : new = [row[s][n] EXCEPT !.body = text, !.edited = at]
    OBVIOUS
  <2>2. RowIs(s, n, new)
    BY <1>4 DEF Rewritten
  <2>3. Keeps(row[s][n], new)
    BY <2>1 DEF Keeps, Row
  <2> QED
    BY <1>4, <2>2, <2>3, OneRow DEF Rewritten
<1>5. ASSUME NEW s \in Side, NEW op \in Operation, Arrived(s, op) PROVE Stable
  BY <1>5, OperationFacts, AfterKeeps, OneRow DEF Arrived
<1>6. ASSUME NEW s \in Side, NEW n \in Note, Deleted(s, n) PROVE Stable
  <2>1. row[s][n] \in Row
    BY DEF RowType
  <2> PICK new : new = [row[s][n] EXCEPT !.deleted = TRUE, !.body = 0]
    OBVIOUS
  <2>2. RowIs(s, n, new)
    BY <1>6 DEF Deleted
  <2>3. Keeps(row[s][n], new)
    BY <2>1 DEF Keeps, Row
  <2> QED
    BY <1>6, <2>2, <2>3, OneRow DEF Deleted
<1> QED
  BY <1>1, <1>2, <1>3, <1>4, <1>5, <1>6 DEF Effect

-----------------------------------------------------------------------------
(* Rows.                                                                   *)

LEMMA OtherRows ==
  ASSUME RowType, Rows, NEW s \in Side, NEW n \in Note, NEW new, RowIs(s, n, new),
         \A m \in Note : m # n => author'[m] = author[m],
         RowOk(s, n)', RowOk(Other(s), n)'
  PROVE  Rows'
<1> SUFFICES ASSUME NEW q \in Side, NEW m \in Note PROVE RowOk(q, m)'
  BY DEF Rows
<1>1. CASE m = n
  BY <1>1, OtherSide
<1>2. CASE m # n
  <2>1. /\ author'[m] = author[m] /\ row'[q][m] = row[q][m]
        /\ row'[Other(q)][m] = row[Other(q)][m]
    BY <1>2, OtherSide DEF RowIs
  <2>2. Open(m)' = Open(m)
    <3>1. author[m] \in Side => row'[author[m]][m] = row[author[m]][m]
      BY <1>2 DEF RowIs
    <3> QED
      BY <2>1, <3>1 DEF Open, RowType
  <2>3. RowOk(q, m)
    BY DEF Rows
  <2> QED
    BY <2>1, <2>2, <2>3 DEF RowOk
<1> QED
  BY <1>1, <1>2

(* Whatever keeps what is settled in the author's row. *)
LEMMA AuthorRow ==
  ASSUME RowType, Rows, Stable, NEW s \in Side, NEW n \in Note, NEW new, RowIs(s, n, new),
         author[n] = s, UNCHANGED author
  PROVE  Rows'
<1>1. author[n] # "none" /\ Other(s) \in Side /\ Other(s) # s /\ Other(Other(s)) = s
  BY OtherSide DEF Side
<1> PICK r : r = row[s][n]
  OBVIOUS
<1> PICK m : m = row[Other(s)][n]
  OBVIOUS
<1>2. row'[s][n] = new /\ row'[Other(s)][n] = m
  BY <1>1 DEF RowIs
<1>3. Keeps(r, new) /\ (Open(n) => Open(n)')
  BY <1>2 DEF Stable
<1>4. r.kind \in NoteKind /\ (m.kind = "none" => m = NoRow) /\ Copy(m, r, Open(n))
  BY <1>1 DEF Rows, RowOk
<1>5. new.kind \in NoteKind /\ new.kind # "none"
  BY <1>3, <1>4 DEF Keeps, NoteKind
<1>6. Copy(m, new, Open(n)')
  BY <1>3, <1>4 DEF Copy, Keeps, NoteKind
<1>7. RowOk(s, n)'
  BY <1>1, <1>2, <1>5 DEF RowOk
<1>8. RowOk(Other(s), n)'
  BY <1>1, <1>2, <1>4, <1>6 DEF RowOk
<1> QED
  BY <1>7, <1>8, OtherRows

LEMMA PartnerRow ==
  ASSUME RowType, Rows, Stable, NEW s \in Side, NEW n \in Note, NEW new, RowIs(s, n, new),
         author[n] = Other(s), UNCHANGED author,
         new.kind = "none" => new = NoRow,
         Copy(new, row[Other(s)][n], Open(n))
  PROVE  Rows'
<1>1. author[n] # "none" /\ Other(s) \in Side /\ Other(s) # s /\ Other(Other(s)) = s
  BY OtherSide DEF Side
<1> PICK m : m = row[Other(s)][n]
  OBVIOUS
<1>2. row'[s][n] = new /\ row'[Other(s)][n] = m
  BY <1>1 DEF RowIs
<1>3. Open(n) => Open(n)'
  BY DEF Stable
<1>4. m.kind \in NoteKind /\ (m.kind = "none" => m = NoRow)
  BY <1>1 DEF Rows, RowOk
<1>5. Copy(new, m, Open(n)')
  BY <1>3 DEF Copy
<1>6. RowOk(s, n)'
  BY <1>1, <1>2, <1>5 DEF RowOk
<1>7. RowOk(Other(s), n)'
  BY <1>1, <1>2, <1>4 DEF RowOk
<1> QED
  BY <1>6, <1>7, OtherRows

LEMMA CreatedRows ==
  ASSUME RowType, Rows, NEW s \in Side, NEW n \in Note, NEW kind \in NoteKind, NEW text \in Text,
         Created(s, n, kind, text)
  PROVE  Rows'
<1> PICK new : new = [NoRow EXCEPT !.kind = kind, !.body = text]
  OBVIOUS
<1>1. RowIs(s, n, new) /\ author[n] = "none" /\ author' = [author EXCEPT ![n] = s]
  BY DEF Created
<1>2. Other(s) \in Side /\ Other(s) # s /\ Other(Other(s)) = s /\ s # "none"
  BY OtherSide DEF Side
<1>3. row[Other(s)][n] = NoRow
  BY <1>1, <1>2 DEF Rows, RowOk
<1>4. row'[s][n] = new /\ row'[Other(s)][n] = NoRow /\ author'[n] = s
  BY <1>1, <1>2, <1>3 DEF RowIs, RowType
<1>5. new.kind \in NoteKind /\ new.kind # "none"
  BY DEF NoRow, NoteKind
<1>6. Copy(NoRow, new, Open(n)')
  BY DEF Copy, NoRow
<1>7. RowOk(s, n)'
  BY <1>2, <1>4, <1>5 DEF RowOk
<1>8. RowOk(Other(s), n)'
  BY <1>2, <1>4, <1>6 DEF RowOk
<1>9. \A m \in Note : m # n => author'[m] = author[m]
  BY <1>1 DEF RowType
<1> QED
  BY <1>1, <1>7, <1>8, <1>9, OtherRows

(* An operation that arrives at the partner tells what is so. *)
LEMMA ArrivedRows ==
  ASSUME RowType, Rows, Ops, Stable, NEW s \in Side, NEW op \in Operation, Arrived(s, op)
  PROVE  Rows'
<1> PICK n : n = op.note
  OBVIOUS
<1> PICK r : r = row[s][n]
  OBVIOUS
<1> PICK m : m = row[Other(s)][n]
  OBVIOUS
<1> PICK new : new = After(s, op)
  OBVIOUS
<1>1. /\ n \in Note /\ RowIs(s, n, new) /\ UNCHANGED author
      /\ op \in Way(Other(s))
  BY OperationFacts DEF Arrived
<1>2. Other(s) \in Side /\ Other(s) # s /\ Other(Other(s)) = s /\ Side = {s, Other(s)}
  BY OtherSide
<1>3. OpOk(Other(s), op)
  BY <1>1, <1>2 DEF Ops
<1>4. author[n] \in {s, Other(s)}
  BY <1>1, <1>2, <1>3 DEF OpOk, RowType
<1>5. CASE author[n] = s
  BY <1>1, <1>5, AuthorRow
<1>6. CASE author[n] = Other(s)
  <2>1. r \in Row
    BY <1>1 DEF RowType
  <2>2. (r.kind = "none" => r = NoRow) /\ Copy(r, m, Open(n))
    BY <1>1, <1>6 DEF Rows, RowOk
  <2>3. m.kind \in NoteKind
    BY <1>1, <1>2, <1>6 DEF Rows, RowOk
  <2>4. /\ op.kind \in {"share", "announce", "reveal", "publish", "edit", "delete"}
        /\ op.kind \in {"share", "reveal", "publish", "edit"} => op.text # 0
        /\ op.text # 0 => Open(n)
        /\ op.kind = "share" => m.kind = "shared"
        /\ op.kind \in {"announce", "reveal"} => m.kind = "secret"
        /\ op.kind = "delete" => m.deleted
        /\ op.kind = "publish" => m.post = op.text
    BY <1>3, OperationFacts DEF OpOk, Text
  <2>5. CASE new = r
    BY <1>1, <1>6, <2>2, <2>5, PartnerRow
  <2>6. CASE op.kind = "share" /\ r.kind = "none"
    <3>1. new = [NoRow EXCEPT !.kind = "shared", !.body = op.text]
      BY <2>6 DEF After
    <3>2. Copy(new, m, Open(n)) /\ new.kind # "none"
      BY <2>4, <2>6, <3>1 DEF Copy, NoRow
    <3> QED
      BY <1>1, <1>6, <3>2, PartnerRow
  <2>7. CASE op.kind = "announce" /\ r.kind = "none"
    <3>1. new = [NoRow EXCEPT !.kind = "secret"]
      BY <2>7 DEF After
    <3>2. Copy(new, m, Open(n)) /\ new.kind # "none"
      BY <2>4, <2>7, <3>1 DEF Copy, NoRow
    <3> QED
      BY <1>1, <1>6, <3>2, PartnerRow
  <2>8. CASE op.kind = "reveal" /\ r.kind = "secret" /\ ~r.revealed
    <3>1. new = [r EXCEPT !.body = op.text, !.revealed = TRUE]
      BY <2>8 DEF After
    <3>2. Copy(new, m, Open(n)) /\ new.kind # "none"
      BY <2>1, <2>2, <2>4, <2>8, <3>1 DEF Copy, Row
    <3> QED
      BY <1>1, <1>6, <3>2, PartnerRow
  <2>9. CASE op.kind = "publish" /\ r.kind # "none" /\ r.post = 0
    <3>1. new = [r EXCEPT !.post = op.text]
      BY <2>9 DEF After
    <3>2. Copy(new, m, Open(n)) /\ new.kind # "none"
      BY <2>1, <2>2, <2>4, <2>9, <3>1 DEF Copy, Row
    <3> QED
      BY <1>1, <1>6, <3>2, PartnerRow
  <2>10. CASE op.kind = "edit" /\ r.kind # "none" /\ ~r.deleted /\ r.edited < op.at
    <3>1. new = [r EXCEPT !.body = op.text, !.edited = op.at]
      BY <2>10 DEF After
    <3>2. Copy(new, m, Open(n)) /\ new.kind # "none"
      BY <2>1, <2>2, <2>4, <2>10, <3>1 DEF Copy, Row
    <3> QED
      BY <1>1, <1>6, <3>2, PartnerRow
  <2>11. CASE op.kind = "delete" /\ r.kind = "none"
    <3>1. new = [NoRow EXCEPT !.kind = "shared", !.deleted = TRUE]
      BY <2>11 DEF After
    <3>2. Copy(new, m, Open(n)) /\ new.kind # "none"
      BY <2>4, <2>11, <3>1 DEF Copy, NoRow
    <3> QED
      BY <1>1, <1>6, <3>2, PartnerRow
  <2>12. CASE op.kind = "delete" /\ r.kind # "none" /\ ~r.deleted
    <3>1. new = [r EXCEPT !.deleted = TRUE, !.body = 0]
      BY <2>12 DEF After
    <3>2. Copy(new, m, Open(n)) /\ new.kind # "none"
      BY <2>1, <2>2, <2>4, <2>12, <3>1 DEF Copy, Row
    <3> QED
      BY <1>1, <1>6, <3>2, PartnerRow
  <2> QED
    BY <2>5, <2>6, <2>7, <2>8, <2>9, <2>10, <2>11, <2>12 DEF After
<1> QED
  BY <1>4, <1>5, <1>6

LEMMA NextRows ==
  ASSUME RowType, Rows, Ops, Effect
  PROVE  Rows'
<1>1. Stable
  BY EffectStable
<1>2. CASE Quiet
  BY <1>2 DEF Quiet, Rows, RowOk, Copy, Open
<1>3. ASSUME NEW s \in Side, NEW n \in Note, NEW kind \in NoteKind, NEW text \in Text,
             Created(s, n, kind, text)
      PROVE  Rows'
  BY <1>3, CreatedRows
<1>4. ASSUME NEW s \in Side, NEW n \in Note, NEW text \in Text,
             Revealed(s, n, text) \/ Published(s, n, text)
      PROVE  Rows'
  BY <1>1, <1>4, AuthorRow DEF Revealed, Published
<1>5. ASSUME NEW s \in Side, NEW n \in Note, Deleted(s, n) PROVE Rows'
  BY <1>1, <1>5, AuthorRow DEF Deleted
<1>6. ASSUME NEW s \in Side, NEW n \in Note, NEW text \in Text, NEW at \in 1 .. MaxClock,
             NEW flag \in BOOLEAN, Rewritten(s, n, text, at, flag)
      PROVE  Rows'
  <2> PICK new : new = [row[s][n] EXCEPT !.body = text, !.edited = at]
    OBVIOUS
  <2>1. RowIs(s, n, new) /\ UNCHANGED author /\ author[n] \in {s, Other(s)}
    BY <1>6, OtherSide DEF Rewritten, RowType
  <2>2. CASE author[n] = s
    BY <1>1, <2>1, <2>2, AuthorRow
  <2>3. CASE author[n] = Other(s)
    <3>1. row[s][n] \in Row /\ row[s][n].kind # "none" /\ ~row[s][n].deleted /\ text # 0
      BY <1>6 DEF Rewritten, RowType, Text
    <3>2. /\ Copy(row[s][n], row[Other(s)][n], Open(n)) /\ row[Other(s)][n].kind = "shared"
      BY <1>6, <2>3, OtherSide DEF Rewritten, Rows, RowOk
    <3>3. Open(n)
      BY <2>3, <3>2, OtherSide DEF Open, Side
    <3>4. Copy(new, row[Other(s)][n], Open(n)) /\ new.kind # "none"
      BY <3>1, <3>2, <3>3 DEF Copy, Row
    <3> QED
      BY <1>1, <2>1, <2>3, <3>4, PartnerRow
  <2> QED
    BY <2>1, <2>2, <2>3
<1>7. ASSUME NEW s \in Side, NEW op \in Operation, Arrived(s, op) PROVE Rows'
  BY <1>1, <1>7, ArrivedRows
<1> QED
  BY <1>2, <1>3, <1>4, <1>5, <1>6, <1>7 DEF Effect

-----------------------------------------------------------------------------
(* Operations and calls.                                                   *)

LEMMA OpStays ==
  ASSUME Stable, NEW s \in Side, NEW op \in Operation, OpOk(s, op)
  PROVE  OpOk(s, op)'
<1> PICK n : n = op.note
  OBVIOUS
<1>1. /\ n \in Note /\ Other(s) \in Side
      /\ op.kind = "publish" => op.text # 0
  BY OperationFacts, OtherSide DEF Text
<1>2. /\ author'[n] = author[n] /\ author[n] # "none" /\ (Open(n) => Open(n)')
      /\ Keeps(row[s][n], row'[s][n]) /\ Keeps(row[Other(s)][n], row'[Other(s)][n])
  BY <1>1 DEF Stable, OpOk
<1> QED
  BY <1>1, <1>2 DEF OpOk, Keeps

LEMMA CallStays ==
  ASSUME Stable, NEW s \in Side, NEW c \in StoreCall, CallOk(s, c)
  PROVE  CallOk(s, c)'
<1> SUFFICES ASSUME c.op # "share" PROVE CallOk(s, c)'
  BY DEF CallOk
<1> PICK n : n = c.note
  OBVIOUS
<1>1. n \in Note /\ Other(s) \in Side
  BY StoreCallFacts, OtherSide
<1>2. /\ author'[n] = author[n] /\ author[n] # "none" /\ (Open(n) => Open(n)')
      /\ Keeps(row[s][n], row'[s][n]) /\ Keeps(row[Other(s)][n], row'[Other(s)][n])
  BY <1>1 DEF Stable, CallOk
<1> QED
  BY <1>1, <1>2 DEF CallOk, Keeps

LEMMA NextCalls ==
  ASSUME RowType, Rows, Calls, Effect, CallSteps
  PROVE  Calls'
<1>1. Stable
  BY EffectStable
<1> SUFFICES ASSUME NEW s \in Side, NEW c \in Items(calls'[s]) PROVE CallOk(s, c)'
  BY DEF Calls, Items
<1>2. CASE c \in Items(calls[s])
  <2>1. c \in StoreCall /\ CallOk(s, c)
    BY <1>2 DEF RowType, Items, Calls
  <2> QED
    BY <1>1, <2>1, CallStays
<1> QED
  BY <1>2 DEF CallSteps

LEMMA WayOperation ==
  ASSUME WireTypeOK(Operation), NEW s \in Side, NEW op \in Way(s)
  PROVE  op \in Operation
  BY OtherSide DEF WireTypeOK, Way, Items, OnRelay, Entry

(* What one side sends is so when it is sent. *)
LEMMA SentOps ==
  ASSUME WireTypeOK(Operation), Ops, Stable, NEW s \in Side, NEW new, Sends(s, new), OpOk(s, new)'
  PROVE  Ops'
<1> SUFFICES ASSUME NEW q \in Side, NEW op \in Way(q)' PROVE OpOk(q, op)'
  BY DEF Ops
<1>1. CASE op \in Way(q)
  <2>1. op \in Operation /\ OpOk(q, op)
    BY <1>1, WayOperation DEF Ops
  <2> QED
    BY <2>1, OpStays
<1>2. CASE op \notin Way(q)
  BY <1>2, OtherSide DEF Sends
<1> QED
  BY <1>1, <1>2

LEMMA FewerOps ==
  ASSUME WireTypeOK(Operation), Ops, Stable, \A s \in Side : Way(s)' \subseteq Way(s)
  PROVE  Ops'
<1> SUFFICES ASSUME NEW q \in Side, NEW op \in Way(q)' PROVE OpOk(q, op)'
  BY DEF Ops
<1>1. op \in Operation /\ OpOk(q, op)
  BY WayOperation DEF Ops
<1> QED
  BY <1>1, OpStays

LEMMA NextOps ==
  ASSUME WireTypeOK(Operation), RowType, Rows, Ops, Effect
  PROVE  Ops'
<1>1. Stable
  BY EffectStable
<1>2. CASE Quiet
  BY <1>1, <1>2, FewerOps DEF Quiet, SendsNothing
<1>3. ASSUME NEW s \in Side, NEW n \in Note, NEW kind \in NoteKind, NEW text \in Text,
             Created(s, n, kind, text)
      PROVE  Ops'
  <2>1. /\ author'[n] = s /\ s # "none" /\ row'[s][n].kind = kind
        /\ kind = "shared" => Open(n)'
    BY <1>3 DEF Created, RowIs, NoRow, RowType, Open, Side
  <2>2. CASE kind = "shared"
    <3> PICK op : op = Op("share", n, text, 0)
      OBVIOUS
    <3>1. Sends(s, op) /\ op.kind = "share" /\ op.note = n
      BY <1>3, <2>2 DEF Created, Op
    <3>2. OpOk(s, op)'
      BY <2>1, <2>2, <3>1 DEF OpOk
    <3> QED
      BY <1>1, <3>1, <3>2, SentOps
  <2>3. CASE kind = "secret"
    <3> PICK op : op = Op("announce", n, 0, 0)
      OBVIOUS
    <3>1. Sends(s, op) /\ op.kind = "announce" /\ op.note = n /\ op.text = 0
      BY <1>3, <2>3 DEF Created, Op
    <3>2. OpOk(s, op)'
      BY <2>1, <2>3, <3>1 DEF OpOk
    <3> QED
      BY <1>1, <3>1, <3>2, SentOps
  <2> QED
    BY <2>2, <2>3 DEF NoteKind
<1>4. ASSUME NEW s \in Side, NEW n \in Note, NEW text \in Text, Revealed(s, n, text)
      PROVE  Ops'
  <2> PICK op : op = Op("reveal", n, text, 0)
    OBVIOUS
  <2>1. Sends(s, op) /\ op.kind = "reveal" /\ op.note = n
    BY <1>4 DEF Revealed, Op
  <2>2. row[s][n] \in Row
    BY DEF RowType
  <2>3. /\ author'[n] = s /\ s # "none" /\ row'[s][n].kind = "secret" /\ row'[s][n].revealed
    BY <1>4, <2>2 DEF Revealed, RowIs, Row, Side
  <2>4. OpOk(s, op)'
    BY <2>1, <2>3 DEF OpOk, Open
  <2> QED
    BY <1>1, <2>1, <2>4, SentOps
<1>5. ASSUME NEW s \in Side, NEW n \in Note, NEW text \in Text, Published(s, n, text)
      PROVE  Ops'
  <2> PICK op : op = Op("publish", n, text, 0)
    OBVIOUS
  <2>1. Sends(s, op) /\ op.kind = "publish" /\ op.note = n /\ op.text = text
    BY <1>5 DEF Published, Op
  <2>2. row[s][n] \in Row
    BY DEF RowType
  <2>3. /\ author'[n] = s /\ s # "none" /\ row'[s][n].post = text /\ Open(n)'
    BY <1>1, <1>5, <2>2 DEF Published, RowIs, Row, Side, Stable
  <2>4. OpOk(s, op)'
    BY <2>1, <2>3 DEF OpOk
  <2> QED
    BY <1>1, <2>1, <2>4, SentOps
<1>6. ASSUME NEW s \in Side, NEW n \in Note, Deleted(s, n) PROVE Ops'
  <2> PICK op : op = Op("delete", n, 0, 0)
    OBVIOUS
  <2>1. Sends(s, op) /\ op.kind = "delete" /\ op.note = n /\ op.text = 0
    BY <1>6 DEF Deleted, Op
  <2>2. row[s][n] \in Row
    BY DEF RowType
  <2>3. author'[n] = s /\ s # "none" /\ row'[s][n].deleted
    BY <1>6, <2>2 DEF Deleted, RowIs, Row, Side
  <2>4. OpOk(s, op)'
    BY <2>1, <2>3 DEF OpOk
  <2> QED
    BY <1>1, <2>1, <2>4, SentOps
<1>7. ASSUME NEW s \in Side, NEW n \in Note, NEW text \in Text, NEW at \in 1 .. MaxClock,
             NEW flag \in BOOLEAN, Rewritten(s, n, text, at, flag)
      PROVE  Ops'
  <2>1. CASE flag
    <3> PICK op : op = Op("edit", n, text, at)
      OBVIOUS
    <3>1. Sends(s, op) /\ op.kind = "edit" /\ op.note = n
      BY <1>7, <2>1 DEF Rewritten, Op
    <3>2. /\ author'[n] # "none" /\ Open(n)'
          /\ author'[n] = s \/ row'[Other(s)][n].kind = "shared"
      BY <1>1, <1>7, <2>1, OtherSide DEF Rewritten, Stable, Keeps
    <3>3. OpOk(s, op)'
      BY <3>1, <3>2 DEF OpOk
    <3> QED
      BY <1>1, <3>1, <3>3, SentOps
  <2>2. CASE ~flag
    BY <1>1, <1>7, <2>2, FewerOps DEF Rewritten, SendsNothing
  <2> QED
    BY <2>1, <2>2
<1>8. ASSUME NEW s \in Side, NEW op \in Operation, Arrived(s, op) PROVE Ops'
  BY <1>1, <1>8, FewerOps, OtherSide DEF Arrived
<1> QED
  BY <1>2, <1>3, <1>4, <1>5, <1>6, <1>7, <1>8 DEF Effect

-----------------------------------------------------------------------------
(* Deletions and reveals that are on their way.                            *)

(* What is on its way stays there until the partner has applied it. *)
LEMMA WayStays ==
  ASSUME Effect, NEW s \in Side, NEW op \in Way(s), op \notin Way(s)'
  PROVE  Arrived(Other(s), op)
<1>1. Other(s) \in Side /\ Other(Other(s)) = s /\ Side = {s, Other(s)} /\ Other(s) # s
  BY OtherSide
<1>2. ~Quiet
  BY DEF Quiet, SendsNothing
<1>3. ASSUME NEW q \in Side, NEW sent, Sends(q, sent) PROVE FALSE
  BY <1>1, <1>3 DEF Sends
<1>4. ASSUME NEW q \in Side, SendsNothing PROVE FALSE
  BY <1>4 DEF SendsNothing
<1>5. ASSUME NEW q \in Side, NEW n \in Note, NEW kind \in NoteKind, NEW text \in Text,
             Created(q, n, kind, text)
      PROVE  FALSE
  BY <1>3, <1>5 DEF Created, NoteKind
<1>6. ASSUME NEW q \in Side, NEW n \in Note, NEW text \in Text,
             Revealed(q, n, text) \/ Published(q, n, text)
      PROVE  FALSE
  BY <1>3, <1>6 DEF Revealed, Published
<1>7. ASSUME NEW q \in Side, NEW n \in Note, Deleted(q, n) PROVE FALSE
  BY <1>3, <1>7 DEF Deleted
<1>8. ASSUME NEW q \in Side, NEW n \in Note, NEW text \in Text, NEW at \in 1 .. MaxClock,
             NEW flag \in BOOLEAN, Rewritten(q, n, text, at, flag)
      PROVE  FALSE
  BY <1>3, <1>4, <1>8 DEF Rewritten
<1>9. PICK q \in Side, other \in Operation : Arrived(q, other)
  BY <1>2, <1>5, <1>6, <1>7, <1>8 DEF Effect
<1> QED
  BY <1>1, <1>9 DEF Arrived

LEMMA NextDeletions ==
  ASSUME RowType, Rows, Ops, Deletions, Effect
  PROVE  Deletions'
<1>1. Stable
  BY EffectStable
<1> SUFFICES ASSUME NEW s \in Side, NEW n \in Note, author'[n] = s, row'[s][n].deleted,
                    ~row'[Other(s)][n].deleted
             PROVE  \E op \in Way(s)' : op.kind = "delete" /\ op.note = n
  BY DEF Deletions, DeleteOk
<1>2. Other(s) \in Side /\ Other(Other(s)) = s /\ Side = {s, Other(s)} /\ Other(s) # s /\ s # "none"
  BY OtherSide DEF Side
<1>3. ~row[Other(s)][n].deleted
  BY <1>1, <1>2 DEF Stable, Keeps
<1>4. CASE author[n] = s /\ row[s][n].deleted
  <2>1. PICK op \in Way(s) : op.kind = "delete" /\ op.note = n
    BY <1>3, <1>4 DEF Deletions, DeleteOk
  <2>2. ASSUME op \notin Way(s)' PROVE FALSE
    <3>1. RowIs(Other(s), n, After(Other(s), op))
      BY <2>1, <2>2, WayStays DEF Arrived
    <3>2. row'[Other(s)][n] = After(Other(s), op) /\ row[Other(s)][n] \in Row
      BY <1>2, <3>1 DEF RowIs, RowType
    <3>3. After(Other(s), op).deleted
      BY <1>3, <2>1, <3>2 DEF After, Row, NoRow
    <3> QED
      BY <3>2, <3>3
  <2> QED
    BY <2>1, <2>2
<1>5. CASE ~(author[n] = s /\ row[s][n].deleted)
  <2>1. row[s][n] \in Row
    BY DEF RowType
  <2>2. CASE Quiet
    BY <1>5, <2>2 DEF Quiet
  <2>3. ASSUME NEW q \in Side, NEW m \in Note, NEW kind \in NoteKind, NEW text \in Text,
               Created(q, m, kind, text)
        PROVE  FALSE
    <3>1. /\ author[m] = "none" /\ author' = [author EXCEPT ![m] = q]
          /\ RowIs(q, m, [NoRow EXCEPT !.kind = kind, !.body = text])
      BY <2>3 DEF Created
    <3>2. CASE m = n
      <4>1. q = s
        BY <3>1, <3>2 DEF RowType
      <4>2. row'[s][n] = [NoRow EXCEPT !.kind = kind, !.body = text]
        BY <3>1, <3>2, <4>1 DEF RowIs
      <4>3. [NoRow EXCEPT !.kind = kind, !.body = text].deleted = FALSE
        BY DEF NoRow
      <4> QED
        BY <4>2, <4>3
    <3>3. CASE m # n
      BY <1>5, <3>1, <3>3 DEF RowIs, RowType
    <3> QED
      BY <3>2, <3>3
  <2>4. ASSUME NEW q \in Side, NEW m \in Note, NEW text \in Text,
               Revealed(q, m, text) \/ Published(q, m, text)
        PROVE  FALSE
    <3>1. author' = author
      BY <2>4 DEF Revealed, Published
    <3>2. row'[s][n].deleted = row[s][n].deleted
      <4>1. CASE q = s /\ m = n
        BY <2>1, <2>4, <4>1 DEF Revealed, Published, RowIs, Row
      <4>2. CASE ~(q = s /\ m = n)
        BY <2>4, <4>2 DEF Revealed, Published, RowIs
      <4> QED
        BY <4>1, <4>2
    <3> QED
      BY <1>5, <3>1, <3>2
  <2>5. ASSUME NEW q \in Side, NEW m \in Note, NEW text \in Text, NEW at \in 1 .. MaxClock,
               NEW flag \in BOOLEAN, Rewritten(q, m, text, at, flag)
        PROVE  FALSE
    <3>1. author' = author
      BY <2>5 DEF Rewritten
    <3>2. row'[s][n].deleted = row[s][n].deleted
      <4>1. CASE q = s /\ m = n
        BY <2>1, <2>5, <4>1 DEF Rewritten, RowIs, Row
      <4>2. CASE ~(q = s /\ m = n)
        BY <2>5, <4>2 DEF Rewritten, RowIs
      <4> QED
        BY <4>1, <4>2
    <3> QED
      BY <1>5, <3>1, <3>2
  <2>6. ASSUME NEW q \in Side, NEW m \in Note, Deleted(q, m)
        PROVE  \E op \in Way(s)' : op.kind = "delete" /\ op.note = n
    <3>1. CASE m = n
      <4>1. q = s
        BY <2>6, <3>1 DEF Deleted
      <4>2. Op("delete", n, 0, 0) \in Way(s)'
        BY <2>6, <3>1, <4>1 DEF Deleted, Sends
      <4> QED
        BY <4>2 DEF Op
    <3>2. CASE m # n
      BY <1>5, <2>6, <3>2 DEF Deleted, RowIs
    <3> QED
      BY <3>1, <3>2
  <2>7. ASSUME NEW q \in Side, NEW op \in Operation, Arrived(q, op) PROVE FALSE
    <3>1. author' = author /\ RowIs(q, op.note, After(q, op)) /\ op \in Way(Other(q))
      BY <2>7 DEF Arrived
    <3>2. ~row[s][n].deleted
      BY <1>5, <3>1
    <3>3. q = s /\ op.note = n
      BY <3>1, <3>2 DEF RowIs
    <3>4. After(s, op).deleted
      BY <3>1, <3>3 DEF RowIs
    <3>5. op.kind = "delete"
      BY <2>1, <3>2, <3>3, <3>4 DEF After, Row, NoRow
    <3>6. author[n] = s /\ author[n] = Other(q)
      BY <1>2, <3>1, <3>3, <3>5 DEF Ops, OpOk
    <3> QED
      BY <1>2, <3>3, <3>6
  <2> QED
    BY <2>2, <2>3, <2>4, <2>5, <2>6, <2>7 DEF Effect
<1> QED
  BY <1>4, <1>5

LEMMA UntidyStays ==
  ASSUME Effect
  PROVE  untidy => untidy'
<1>1. CASE Quiet
  BY <1>1 DEF Quiet
<1>2. ASSUME NEW s \in Side, NEW n \in Note, NEW kind \in NoteKind, NEW text \in Text,
             Created(s, n, kind, text)
      PROVE  untidy => untidy'
  BY <1>2 DEF Created
<1>3. ASSUME NEW s \in Side, NEW n \in Note, NEW text \in Text,
             Revealed(s, n, text) \/ Published(s, n, text)
      PROVE  untidy => untidy'
  BY <1>3 DEF Revealed, Published
<1>4. ASSUME NEW s \in Side, NEW n \in Note, Deleted(s, n) PROVE untidy => untidy'
  BY <1>4 DEF Deleted
<1>5. ASSUME NEW s \in Side, NEW n \in Note, NEW text \in Text, NEW at \in 1 .. MaxClock,
             NEW flag \in BOOLEAN, Rewritten(s, n, text, at, flag)
      PROVE  untidy => untidy'
  BY <1>5 DEF Rewritten
<1>6. ASSUME NEW s \in Side, NEW op \in Operation, Arrived(s, op) PROVE untidy => untidy'
  BY <1>6 DEF Arrived
<1> QED
  BY <1>1, <1>2, <1>3, <1>4, <1>5, <1>6 DEF Effect

LEMMA NextReveals ==
  ASSUME RowType, RowType', Rows, Ops, Reveals, Effect
  PROVE  Reveals'
<1>1. Stable
  BY EffectStable
<1> SUFFICES ASSUME ~untidy',
                    NEW s \in Side, NEW n \in Note, author'[n] = s,
                    row'[s][n].kind = "secret", row'[s][n].revealed,
                    ~row'[Other(s)][n].revealed, row'[Other(s)][n].kind # "shared"
             PROVE  \E op \in Way(s)' : op.kind = "reveal" /\ op.note = n
  BY DEF Reveals, RevealOk
<1>2. Other(s) \in Side /\ Other(Other(s)) = s /\ Side = {s, Other(s)} /\ Other(s) # s /\ s # "none"
  BY OtherSide DEF Side
<1>3. ~row[Other(s)][n].revealed /\ row[Other(s)][n].kind # "shared"
  BY <1>1, <1>2 DEF Stable, Keeps
<1>4. CASE author[n] = s /\ row[s][n].kind = "secret" /\ row[s][n].revealed
  <2>1. ~untidy
    BY UntidyStays
  <2>2. PICK op \in Way(s) : op.kind = "reveal" /\ op.note = n
    BY <1>3, <1>4, <2>1 DEF Reveals, RevealOk
  <2>3. ASSUME op \notin Way(s)' PROVE FALSE
    <3>1. /\ RowIs(Other(s), n, After(Other(s), op))
          /\ untidy' = (untidy \/ Unready(Other(s), op))
      BY <2>2, <2>3, WayStays DEF Arrived
    <3>2. row'[Other(s)][n] = After(Other(s), op) /\ row[Other(s)][n] \in Row
      BY <1>2, <3>1 DEF RowIs, RowType
    <3>3. ~Unready(Other(s), op)
      BY <3>1
    <3>4. row[Other(s)][n].kind = "secret"
      BY <1>3, <2>2, <3>2, <3>3, RowFields DEF Unready, NoteKind
    <3>5. After(Other(s), op) = [row[Other(s)][n] EXCEPT !.body = op.text, !.revealed = TRUE]
      BY <1>3, <2>2, <3>4 DEF After
    <3>6. After(Other(s), op).revealed
      BY <3>2, <3>5 DEF Row
    <3> QED
      BY <3>2, <3>6
  <2> QED
    BY <2>2, <2>3
<1>5. CASE ~(author[n] = s /\ row[s][n].kind = "secret" /\ row[s][n].revealed)
  <2>1. row[s][n] \in Row
    BY DEF RowType
  <2>2. CASE Quiet
    BY <1>5, <2>2 DEF Quiet
  <2>3. ASSUME NEW q \in Side, NEW m \in Note, NEW kind \in NoteKind, NEW text \in Text,
               Created(q, m, kind, text)
        PROVE  FALSE
    <3>1. /\ author[m] = "none" /\ author' = [author EXCEPT ![m] = q]
          /\ RowIs(q, m, [NoRow EXCEPT !.kind = kind, !.body = text])
      BY <2>3 DEF Created
    <3>2. CASE m = n
      <4>1. q = s
        BY <3>1, <3>2 DEF RowType
      <4>2. row'[s][n] = [NoRow EXCEPT !.kind = kind, !.body = text]
        BY <3>1, <3>2, <4>1 DEF RowIs
      <4>3. [NoRow EXCEPT !.kind = kind, !.body = text].revealed = FALSE
        BY DEF NoRow
      <4> QED
        BY <4>2, <4>3
    <3>3. CASE m # n
      BY <1>5, <3>1, <3>3 DEF RowIs, RowType
    <3> QED
      BY <3>2, <3>3
  <2>4. ASSUME NEW q \in Side, NEW m \in Note, NEW text \in Text, Revealed(q, m, text)
        PROVE  \E op \in Way(s)' : op.kind = "reveal" /\ op.note = n
    <3>1. CASE m = n
      <4>1. q = s
        BY <2>4, <3>1 DEF Revealed
      <4>2. Op("reveal", n, text, 0) \in Way(s)'
        BY <2>4, <3>1, <4>1 DEF Revealed, Sends
      <4> QED
        BY <4>2 DEF Op
    <3>2. CASE m # n
      BY <1>5, <2>4, <3>2 DEF Revealed, RowIs
    <3> QED
      BY <3>1, <3>2
  <2>5. ASSUME NEW q \in Side, NEW m \in Note, NEW new, RowIs(q, m, new), author' = author,
               new.revealed = row[q][m].revealed, new.kind = row[q][m].kind
        PROVE  FALSE
    <3>1. row'[s][n].revealed = row[s][n].revealed /\ row'[s][n].kind = row[s][n].kind
      BY <2>5 DEF RowIs
    <3> QED
      BY <1>5, <2>5, <3>1
  <2>6. ASSUME NEW q \in Side, NEW m \in Note, NEW text \in Text, Published(q, m, text)
        PROVE  FALSE
    <3> PICK new : new = [row[q][m] EXCEPT !.post = text]
      OBVIOUS
    <3>1. RowIs(q, m, new) /\ author' = author
      BY <2>6 DEF Published
    <3>2. row[q][m] \in Row
      BY DEF RowType
    <3>3. new.revealed = row[q][m].revealed /\ new.kind = row[q][m].kind
      BY <3>2 DEF Row
    <3> QED
      BY <2>5, <3>1, <3>3
  <2>7. ASSUME NEW q \in Side, NEW m \in Note, Deleted(q, m) PROVE FALSE
    <3> PICK new : new = [row[q][m] EXCEPT !.deleted = TRUE, !.body = 0]
      OBVIOUS
    <3>1. RowIs(q, m, new) /\ author' = author
      BY <2>7 DEF Deleted
    <3>2. row[q][m] \in Row
      BY DEF RowType
    <3>3. new.revealed = row[q][m].revealed /\ new.kind = row[q][m].kind
      BY <3>2 DEF Row
    <3> QED
      BY <2>5, <3>1, <3>3
  <2>8. ASSUME NEW q \in Side, NEW m \in Note, NEW text \in Text, NEW at \in 1 .. MaxClock,
               NEW flag \in BOOLEAN, Rewritten(q, m, text, at, flag)
        PROVE  FALSE
    <3> PICK new : new = [row[q][m] EXCEPT !.body = text, !.edited = at]
      OBVIOUS
    <3>1. RowIs(q, m, new) /\ author' = author
      BY <2>8 DEF Rewritten
    <3>2. row[q][m] \in Row
      BY DEF RowType
    <3>3. new.revealed = row[q][m].revealed /\ new.kind = row[q][m].kind
      BY <3>2 DEF Row
    <3> QED
      BY <2>5, <3>1, <3>3
  <2>9. ASSUME NEW q \in Side, NEW op \in Operation, Arrived(q, op) PROVE FALSE
    <3>1. author' = author /\ RowIs(q, op.note, After(q, op)) /\ op \in Way(Other(q))
      BY <2>9 DEF Arrived
    <3>2. ~(row[s][n].kind = "secret" /\ row[s][n].revealed) /\ author[n] = s
      BY <1>5, <3>1
    <3>3. q = s /\ op.note = n
      BY <3>1, <3>2 DEF RowIs
    <3>4. row[s][n].kind \in NoteKind /\ row[s][n].kind # "none"
      BY <1>2, <3>2 DEF Rows, RowOk, NoteKind
    <3>5. op.kind # "edit" => author[n] = Other(q)
      BY <1>2, <3>1, <3>3 DEF Ops, OpOk
    <3>6. op.kind = "edit"
      BY <1>2, <3>2, <3>3, <3>5
    <3>7. After(s, op).revealed = row[s][n].revealed /\ After(s, op).kind = row[s][n].kind
      BY <2>1, <3>3, <3>6 DEF After, Row
    <3> QED
      BY <2>5, <3>1, <3>3, <3>7, OperationFacts
  <2> QED
    BY <2>2, <2>3, <2>4, <2>6, <2>7, <2>8, <2>9 DEF Effect
<1> QED
  BY <1>4, <1>5

-----------------------------------------------------------------------------
(* Texts, for one note at a time.                                          *)

(* What the other invariants say of it. *)
Known(r, m, O, P) ==
  /\ r \in Row /\ m \in Row /\ O \subseteq Operation /\ P \subseteq Operation
  /\ r.kind \in NoteKind
  /\ m.kind = "none" => m = NoRow
  /\ Copy(m, r, r.kind = "shared" \/ r.revealed)
  /\ \A op \in O : /\ op.text # 0 => r.kind = "shared" \/ r.revealed
                   /\ op.kind = "share" => r.kind = "shared"
                   /\ op.kind \in {"announce", "reveal"} => r.kind = "secret"
                   /\ op.kind = "delete" => r.deleted
  /\ \A op \in P : op.kind = "edit" /\ r.kind = "shared"

LEMMA Seconds ==
  ASSUME NEW r \in Row, NEW O \in SUBSET Operation
  PROVE  r.edited \in Nat /\ \A op \in Edits(O) : op.at \in Nat \ {0} /\ op.text \in Text
<1>1. r.edited \in 0 .. MaxClock
  BY RowFields
<1>2. \A op \in Edits(O) : op.at \in 1 .. MaxClock /\ op.text \in Text
  BY OperationFacts DEF Edits
<1> QED
  BY <1>1, <1>2, NotesAssumption DEF NotesAssumption

(* An edit at a second that is new, with the row of its sender. *)
LEMMA StampedEdit ==
  ASSUME NEW E, NEW times, NEW x, NEW y, NEW new, NEW op, NEW E1,
         Stamped(E, times, x, y), op.at \notin times, op.at # 0,
         new.edited = op.at, new.body = op.text,
         E1 \subseteq E \cup {op}
  PROVE  Stamped(E1, times \cup {op.at}, new, y)
<1>1. \A e \in E : e.at \in times /\ e.at # op.at
  BY DEF Stamped
<1>2. y.edited # op.at
  BY DEF Stamped
<1>3. \A e, other \in E1 : e.at = other.at => e.text = other.text
  BY <1>1 DEF Stamped
<1>4. Stands(E1, new)
  BY <1>1 DEF Stands
<1>5. Stands(E1, y)
  BY <1>2 DEF Stands, Stamped
<1> QED
  BY <1>1, <1>2, <1>3, <1>4, <1>5 DEF Stamped

LEMMA StampedSwap ==
  ASSUME NEW E, NEW times, NEW x, NEW y, Stamped(E, times, x, y)
  PROVE  Stamped(E, times, y, x)
  BY DEF Stamped

(* An edit that is taken over is the one its second stands for. *)
LEMMA StampedTaken ==
  ASSUME NEW E, NEW times, NEW x, NEW y, NEW new, NEW op \in E, NEW E1,
         Stamped(E, times, x, y), new.edited = op.at, new.body = op.text, E1 \subseteq E
  PROVE  Stamped(E1, times, new, y)
<1>1. Stands(E1, new) /\ Stands(E1, y)
  BY DEF Stamped, Stands
<1>2. new.edited = y.edited /\ ~y.deleted => new.body = y.body
  BY DEF Stamped, Stands
<1> QED
  BY <1>1, <1>2 DEF Stamped

(* A row that changes without an edit: it is deleted, or has none yet. *)
LEMMA StampedSame ==
  ASSUME NEW E, NEW times, NEW x, NEW y, NEW new, NEW E1,
         Stamped(E, times, x, y), new.edited = x.edited, E1 \subseteq E,
         \A op \in E : op.at # 0,
         ~new.deleted => ~x.deleted /\ (x.edited = 0 \/ new.body = x.body)
  PROVE  Stamped(E1, times, new, y)
<1>1. Stands(E1, new) /\ Stands(E1, y)
  BY DEF Stamped, Stands
<1> QED
  BY <1>1 DEF Stamped

LEMMA AuthorEdits ==
  ASSUME NEW w, NEW times, NEW r, NEW m, NEW O, NEW P,
         Known(r, m, O, P), Tidy(w, times, r, m, O, P),
         NEW op \in Operation, op.kind = "edit", op.at \notin times,
         ~r.deleted, r.edited < op.at,
         NEW new, new.kind = r.kind, new.revealed = r.revealed, new.deleted = r.deleted,
         new.body = op.text, new.edited = op.at,
         NEW O1, O1 = IF r.kind = "shared" \/ r.revealed THEN O \cup {op} ELSE O
  PROVE  Tidy(w, times \cup {op.at}, new, m, O1, P)
<1>1. /\ r.edited \in Nat /\ m.edited \in Nat /\ op.at \in Nat \ {0}
      /\ \A e \in Edits(O) \cup Edits(P) : e.at \in Nat \ {0}
  <2>1. op \in Edits({op}) /\ {op} \subseteq Operation
    BY DEF Edits
  <2> QED
    BY <2>1, Seconds DEF Known
<1>2. Edits(O1) \subseteq Edits(O) \cup {op} /\ Edits(O) \subseteq Edits(O1)
      /\ (r.kind = "shared" \/ r.revealed => op \in Edits(O1))
  BY DEF Edits
<1>3. Stamped(Edits(O1) \cup Edits(P), times \cup {op.at}, new, m)
  BY <1>1, <1>2, StampedEdit DEF Tidy
<1>4. Sent(O1, new) /\ Sent(P, m)
  <2>1. \A e \in Edits(O) : e.at <= r.edited
    BY DEF Tidy, Sent
  <2>2. \A e \in Edits(O1) : e.at <= op.at
    BY <1>1, <1>2, <2>1
  <2>3. Sent(P, m)
    BY DEF Tidy
  <2> QED
    BY <2>2, <2>3 DEF Sent
<1>5. new.kind = "shared" => Caught(O1, new, m) /\ Caught(P, m, new) /\ Origin(w, new, m, O1)
  <2> SUFFICES ASSUME r.kind = "shared"
               PROVE  Caught(O1, new, m) /\ Caught(P, m, new) /\ Origin(w, new, m, O1)
    OBVIOUS
  <2>1. Caught(O1, new, m)
    BY <1>2 DEF Caught
  <2>2. Caught(P, m, new)
    BY <1>1 DEF Tidy, Caught
  <2>3. Origin(w, new, m, O1)
    BY <1>1 DEF Tidy, Origin
  <2> QED
    BY <2>1, <2>2, <2>3
<1>6. new.kind = "secret" /\ ~new.deleted
        => m.edited <= new.edited /\ (new.revealed => Told(new, m, O1))
  <2> SUFFICES ASSUME r.kind = "secret"
               PROVE  m.edited <= new.edited /\ (new.revealed => Told(new, m, O1))
    OBVIOUS
  <2>1. m.edited <= r.edited
    BY DEF Tidy
  <2>2. m.edited <= new.edited /\ new.edited # 0
    BY <1>1, <2>1
  <2>3. new.revealed => op \in Edits(O1) /\ op.at = new.edited
    BY <1>2
  <2> QED
    BY <2>2, <2>3 DEF Told
<1> QED
  BY <1>3, <1>4, <1>5, <1>6 DEF Tidy

LEMMA PartnerEdits ==
  ASSUME NEW w, NEW times, NEW r, NEW m, NEW O, NEW P,
         Known(r, m, O, P), Tidy(w, times, r, m, O, P),
         NEW op \in Operation, op.kind = "edit", op.at \notin times,
         r.kind = "shared", ~m.deleted, m.edited < op.at,
         NEW new, new.kind = m.kind, new.revealed = m.revealed, new.deleted = m.deleted,
         new.body = op.text, new.edited = op.at,
         NEW P1, P1 = P \cup {op}
  PROVE  Tidy(w, times \cup {op.at}, r, new, O, P1)
<1>1. /\ r.edited \in Nat /\ m.edited \in Nat /\ op.at \in Nat \ {0}
      /\ \A e \in Edits(O) \cup Edits(P) : e.at \in Nat \ {0}
  <2>1. op \in Edits({op}) /\ {op} \subseteq Operation
    BY DEF Edits
  <2> QED
    BY <2>1, Seconds DEF Known
<1>2. Edits(P1) = Edits(P) \cup {op}
  BY DEF Edits
<1>3. Stamped(Edits(O) \cup Edits(P1), times \cup {op.at}, r, new)
  <2>1. Stamped(Edits(O) \cup Edits(P), times, m, r)
    BY StampedSwap DEF Tidy
  <2>2. Edits(O) \cup Edits(P1) \subseteq (Edits(O) \cup Edits(P)) \cup {op}
    BY <1>2
  <2>3. Stamped(Edits(O) \cup Edits(P1), times \cup {op.at}, new, r)
    BY <1>1, <2>1, <2>2, StampedEdit
  <2> QED
    BY <2>3, StampedSwap
<1>4. Sent(O, r) /\ Sent(P1, new)
  <2>1. \A e \in Edits(P) : e.at <= m.edited
    BY DEF Tidy, Sent
  <2>2. \A e \in Edits(P1) : e.at <= op.at
    BY <1>1, <1>2, <2>1
  <2>3. Sent(O, r)
    BY DEF Tidy
  <2> QED
    BY <2>2, <2>3 DEF Sent
<1>5. Caught(O, r, new) /\ Caught(P1, new, r) /\ Origin(w, r, new, O)
  <2>1. Caught(O, r, new)
    BY <1>1 DEF Tidy, Caught
  <2>2. Caught(P1, new, r)
    BY <1>2 DEF Caught
  <2>3. Origin(w, r, new, O)
    BY <1>1 DEF Tidy, Origin
  <2> QED
    BY <2>1, <2>2, <2>3
<1>6. new.kind # "secret"
  BY DEF Known, Copy
<1> QED
  BY <1>3, <1>4, <1>5, <1>6 DEF Tidy

LEMMA AuthorReveals ==
  ASSUME NEW w, NEW times, NEW r, NEW m, NEW O, NEW P,
         Known(r, m, O, P), Tidy(w, times, r, m, O, P),
         NEW op \in Operation, op.kind = "reveal", op.text = r.body,
         r.kind = "secret", ~r.revealed,
         NEW new, new.kind = r.kind, new.revealed, new.deleted = r.deleted,
         new.body = r.body, new.edited = r.edited,
         NEW O1, O1 = O \cup {op}
  PROVE  Tidy(w, times, new, m, O1, P)
<1>1. \A e \in Edits(O) \cup Edits(P) : e.at # 0
  BY Seconds DEF Known
<1>2. Edits(O1) = Edits(O)
  BY DEF Edits
<1>3. Stamped(Edits(O1) \cup Edits(P), times, new, m)
  <2>1. Stamped(Edits(O) \cup Edits(P), times, r, m)
    BY DEF Tidy
  <2>2. /\ new.edited = r.edited
        /\ ~new.deleted => ~r.deleted /\ (r.edited = 0 \/ new.body = r.body)
        /\ Edits(O1) \cup Edits(P) \subseteq Edits(O) \cup Edits(P)
    BY <1>2
  <2> QED
    BY <1>1, <2>1, <2>2, StampedSame
<1>4. Sent(O1, new) /\ Sent(P, m)
  BY <1>2 DEF Tidy, Sent
<1>5. ~r.deleted => Told(new, m, O1)
  <2> SUFFICES ASSUME ~r.deleted PROVE Told(new, m, O1)
    OBVIOUS
  <2>1. Edits(O) = {}
    BY Seconds, OperationFacts DEF Known, Edits, Text
  <2>2. \A e \in O : e.kind # "reveal"
    BY OperationFacts DEF Known, Text
  <2>3. m.edited = 0 /\ ~m.revealed
    BY DEF Known, Copy
  <2> QED
    BY <1>2, <2>1, <2>2, <2>3 DEF Told
<1> QED
  BY <1>3, <1>4, <1>5 DEF Tidy

LEMMA AuthorDeletes ==
  ASSUME NEW w, NEW times, NEW r, NEW m, NEW O, NEW P,
         Known(r, m, O, P), Tidy(w, times, r, m, O, P),
         NEW op \in Operation, op.kind = "delete",
         NEW new, new.kind = r.kind, new.revealed = r.revealed, new.deleted,
         new.body = 0, new.edited = r.edited,
         NEW O1, O1 = O \cup {op}
  PROVE  Tidy(w, times, new, m, O1, P)
<1>1. \A e \in Edits(O) \cup Edits(P) : e.at # 0
  BY Seconds DEF Known
<1>2. Edits(O1) = Edits(O)
  BY DEF Edits
<1>3. Stamped(Edits(O1) \cup Edits(P), times, new, m)
  <2>1. Stamped(Edits(O) \cup Edits(P), times, r, m)
    BY DEF Tidy
  <2>2. /\ new.edited = r.edited
        /\ ~new.deleted => ~r.deleted /\ (r.edited = 0 \/ new.body = r.body)
        /\ Edits(O1) \cup Edits(P) \subseteq Edits(O) \cup Edits(P)
    BY <1>2
  <2> QED
    BY <1>1, <2>1, <2>2, StampedSame
<1>4. Sent(O1, new) /\ Sent(P, m)
  BY DEF Tidy, Sent
<1>5. r.kind = "shared" => Caught(O1, new, m) /\ Caught(P, m, new) /\ Origin(w, new, m, O1)
  BY <1>2 DEF Tidy, Caught, Origin
<1> QED
  BY <1>3, <1>4, <1>5 DEF Tidy

LEMMA AuthorPublishes ==
  ASSUME NEW w, NEW times, NEW r, NEW m, NEW O, NEW P,
         Known(r, m, O, P), Tidy(w, times, r, m, O, P),
         NEW op \in Operation, op.kind = "publish",
         NEW new, new.kind = r.kind, new.revealed = r.revealed, new.deleted = r.deleted,
         new.body = r.body, new.edited = r.edited,
         NEW O1, O1 = O \cup {op}
  PROVE  Tidy(w, times, new, m, O1, P)
<1>1. \A e \in Edits(O) \cup Edits(P) : e.at # 0
  BY Seconds DEF Known
<1>2. Edits(O1) = Edits(O)
  BY DEF Edits
<1>3. Stamped(Edits(O1) \cup Edits(P), times, new, m)
  <2>1. Stamped(Edits(O) \cup Edits(P), times, r, m)
    BY DEF Tidy
  <2>2. /\ new.edited = r.edited
        /\ ~new.deleted => ~r.deleted /\ (r.edited = 0 \/ new.body = r.body)
        /\ Edits(O1) \cup Edits(P) \subseteq Edits(O) \cup Edits(P)
    BY <1>2
  <2> QED
    BY <1>1, <2>1, <2>2, StampedSame
<1>4. Sent(O1, new) /\ Sent(P, m)
  BY <1>2 DEF Tidy, Sent
<1>5. r.kind = "shared" => Caught(O1, new, m) /\ Caught(P, m, new) /\ Origin(w, new, m, O1)
  BY <1>2 DEF Tidy, Caught, Origin
<1>6. r.kind = "secret" /\ ~r.deleted
        => m.edited <= new.edited /\ (new.revealed => Told(new, m, O1))
  BY <1>2 DEF Tidy, Told
<1> QED
  BY <1>3, <1>4, <1>5, <1>6 DEF Tidy

LEMMA AuthorCreates ==
  ASSUME NEW w, NEW times, NEW kind \in NoteKind, NEW op,
         op.kind = (IF kind = "shared" THEN "share" ELSE "announce"),
         kind = "shared" => op.text = w,
         NEW new, new = [NoRow EXCEPT !.kind = kind, !.body = w]
  PROVE  Tidy(w, times, new, NoRow, {op}, {})
<1>1. /\ new.kind = kind /\ new.revealed = FALSE /\ new.deleted = FALSE
      /\ new.body = w /\ new.edited = 0
  BY DEF NoRow
<1>2. /\ NoRow.kind = "none" /\ NoRow.deleted = FALSE /\ NoRow.edited = 0 /\ NoRow.body = 0
  BY DEF NoRow
<1>3. Edits({op}) = {} /\ Edits({}) = {}
  BY DEF Edits, NoteKind
<1>4. Stamped(Edits({op}) \cup Edits({}), times, new, NoRow)
  BY <1>1, <1>2, <1>3 DEF Stamped, Stands
<1>5. Sent({op}, new) /\ Sent({}, NoRow)
  BY <1>3 DEF Sent
<1>6. kind = "shared"
        => Caught({op}, new, NoRow) /\ Caught({}, NoRow, new) /\ Origin(w, new, NoRow, {op})
  BY <1>1, <1>2, <1>3 DEF Caught, Origin
<1> QED
  BY <1>1, <1>2, <1>4, <1>5, <1>6 DEF Tidy, NoteKind

LEMMA FewerEdits ==
  ASSUME NEW O, NEW O1, NEW op, O1 \subseteq O, O \subseteq O1 \cup {op}
  PROVE  /\ Edits(O1) \subseteq Edits(O) /\ Edits(O) \subseteq Edits(O1) \cup {op}
         /\ op.kind # "edit" => Edits(O1) = Edits(O)
  BY DEF Edits

(* The partner takes over an edit. *)
LEMMA PartnerTakesEdit ==
  ASSUME NEW w, NEW times, NEW r, NEW m, NEW O, NEW P,
         Known(r, m, O, P), Tidy(w, times, r, m, O, P),
         NEW op \in O, op.kind = "edit", ~m.deleted, m.edited < op.at, m.kind # "none",
         m.kind = "secret" => m.revealed,
         NEW new, new.kind = m.kind, new.revealed = m.revealed, new.deleted = m.deleted,
         new.body = op.text, new.edited = op.at,
         NEW O1, O1 \subseteq O, O \subseteq O1 \cup {op}
  PROVE  Tidy(w, times, r, new, O1, P)
<1>1. /\ r.edited \in Nat /\ m.edited \in Nat /\ op.at \in Nat \ {0} /\ op \in Edits(O)
      /\ \A e \in Edits(O) \cup Edits(P) : e.at \in Nat \ {0}
  <2>1. op \in Edits(O)
    BY DEF Edits
  <2> QED
    BY <2>1, Seconds DEF Known
<1>2. Edits(O1) \subseteq Edits(O) /\ Edits(O) \subseteq Edits(O1) \cup {op}
  BY FewerEdits
<1>3. Stamped(Edits(O1) \cup Edits(P), times, r, new)
  <2>1. Stamped(Edits(O) \cup Edits(P), times, m, r)
    BY StampedSwap DEF Tidy
  <2>2. Stamped(Edits(O1) \cup Edits(P), times, new, r)
    BY <1>1, <1>2, <2>1, StampedTaken
  <2> QED
    BY <2>2, StampedSwap
<1>4. Sent(O1, r) /\ (r.deleted \/ op.at <= r.edited)
  BY <1>1, <1>2 DEF Tidy, Sent
<1>5. Sent(P, new)
  <2>1. \A e \in Edits(P) : e.at <= m.edited
    BY DEF Tidy, Sent
  <2>2. \A e \in Edits(P) : e.at <= op.at
    BY <1>1, <2>1
  <2> QED
    BY <2>2 DEF Sent
<1>6. r.kind = "shared" => Caught(O1, r, new) /\ Caught(P, new, r) /\ Origin(w, r, new, O1)
  <2> SUFFICES ASSUME r.kind = "shared"
               PROVE  Caught(O1, r, new) /\ Caught(P, new, r) /\ Origin(w, r, new, O1)
    OBVIOUS
  <2>1. Caught(O1, r, new)
    <3>1. r.edited <= m.edited \/ \E e \in Edits(O) : e.at = r.edited
      BY DEF Tidy, Caught
    <3>2. r.edited <= op.at \/ \E e \in Edits(O1) : e.at = r.edited
      BY <1>1, <1>2, <3>1
    <3> QED
      BY <3>2 DEF Caught
  <2>2. Caught(P, new, r)
    BY <1>4 DEF Caught
  <2>3. Origin(w, r, new, O1)
    BY <1>1 DEF Tidy, Origin
  <2> QED
    BY <2>1, <2>2, <2>3
<1>7. r.kind = "secret" /\ ~r.deleted => new.edited <= r.edited /\ (r.revealed => Told(r, new, O1))
  <2> SUFFICES ASSUME r.kind = "secret", ~r.deleted
               PROVE  new.edited <= r.edited /\ (r.revealed => Told(r, new, O1))
    OBVIOUS
  <2>1. op.at <= r.edited
    BY <1>4
  <2>2. ASSUME r.revealed PROVE Told(r, new, O1)
    <3>1. Told(r, m, O) /\ Edits(O) # {}
      BY <1>1, <2>2 DEF Tidy
    <3>2. r.edited # 0 /\ (m.edited = r.edited \/ \E e \in Edits(O) : e.at = r.edited)
      BY <3>1 DEF Told
    <3>3. op.at = r.edited \/ \E e \in Edits(O1) : e.at = r.edited
      BY <1>1, <1>2, <2>1, <3>2
    <3> QED
      BY <3>2, <3>3 DEF Told
  <2> QED
    BY <2>1, <2>2
<1>8. (r.deleted => r.body = 0) /\ (new.deleted => new.body = 0)
      /\ (new.kind = "secret" /\ new.edited # 0 => new.revealed)
  BY DEF Tidy
<1> QED
  BY <1>3, <1>4, <1>5, <1>6, <1>7, <1>8 DEF Tidy

(* The partner applies an operation that leaves the time of the last edit. *)
LEMMA PartnerTakesOther ==
  ASSUME NEW w, NEW times, NEW r, NEW m, NEW O, NEW P,
         Known(r, m, O, P), Tidy(w, times, r, m, O, P),
         NEW op \in O, op.kind = "edit" => m.deleted \/ op.at <= m.edited,
         NEW new, new.edited = m.edited,
         ~new.deleted => ~m.deleted /\ (m.edited = 0 \/ new.body = m.body),
         new.deleted => new.body = 0,
         new.kind = "secret" /\ new.edited # 0 => new.revealed,
         r.kind = "shared" /\ new.kind = "shared" /\ ~new.deleted /\ new.edited = 0 => new.body = w,
         new.kind # "none" \/ (m.kind = "none" /\ op.kind # "share"),
         new.revealed => \/ m.revealed /\ new.body = m.body
                         \/ op.kind = "reveal" /\ new.body = op.text
                         \/ new.deleted /\ r.deleted,
         NEW O1, O1 \subseteq O, O \subseteq O1 \cup {op}
  PROVE  Tidy(w, times, r, new, O1, P)
<1>1. /\ r.edited \in Nat /\ m.edited \in Nat
      /\ \A e \in Edits(O) \cup Edits(P) : e.at \in Nat \ {0}
  BY Seconds DEF Known
<1>2. /\ Edits(O1) \subseteq Edits(O) /\ Edits(O) \subseteq Edits(O1) \cup {op}
      /\ op.kind # "edit" => Edits(O1) = Edits(O)
  BY FewerEdits
<1>3. Stamped(Edits(O1) \cup Edits(P), times, r, new)
  <2>1. Stamped(Edits(O) \cup Edits(P), times, m, r)
    BY StampedSwap DEF Tidy
  <2>2. /\ \A e \in Edits(O) \cup Edits(P) : e.at # 0
        /\ Edits(O1) \cup Edits(P) \subseteq Edits(O) \cup Edits(P)
    BY <1>1, <1>2
  <2>3. Stamped(Edits(O1) \cup Edits(P), times, new, r)
    BY <2>1, <2>2, StampedSame
  <2> QED
    BY <2>3, StampedSwap
<1>4. Sent(O1, r)
  BY <1>2 DEF Tidy, Sent
<1>5. Sent(P, new)
  BY DEF Tidy, Sent
<1>6. r.kind = "shared" => Caught(O1, r, new) /\ Caught(P, new, r) /\ Origin(w, r, new, O1)
  <2> SUFFICES ASSUME r.kind = "shared"
               PROVE  Caught(O1, r, new) /\ Caught(P, new, r) /\ Origin(w, r, new, O1)
    OBVIOUS
  <2>1. Caught(O1, r, new)
    <3>1. m.deleted \/ r.edited <= m.edited \/ \E e \in Edits(O) : e.at = r.edited
      BY DEF Tidy, Caught
    <3>2. ASSUME NEW e \in Edits(O), e.at = r.edited, e \notin Edits(O1)
          PROVE  m.deleted \/ r.edited <= m.edited
      BY <1>2, <3>2
    <3>3. m.deleted \/ r.edited <= m.edited \/ \E e \in Edits(O1) : e.at = r.edited
      BY <3>1, <3>2
    <3> QED
      BY <3>3 DEF Caught
  <2>2. Caught(P, new, r)
    BY DEF Tidy, Caught
  <2>3. Origin(w, r, new, O1)
    BY DEF Tidy, Origin
  <2> QED
    BY <2>1, <2>2, <2>3
<1>7. r.kind = "secret" /\ ~r.deleted => new.edited <= r.edited /\ (r.revealed => Told(r, new, O1))
  <2> SUFFICES ASSUME r.kind = "secret", ~r.deleted
               PROVE  new.edited <= r.edited /\ (r.revealed => Told(r, new, O1))
    OBVIOUS
  <2>1. m.edited <= r.edited /\ ~m.deleted
    BY DEF Tidy, Known, Copy
  <2>2. ASSUME r.revealed PROVE Told(r, new, O1)
    <3>1. Told(r, m, O)
      BY <2>2 DEF Tidy
    <3>2. CASE /\ Edits(O) = {} /\ m.edited = 0
               /\ m.revealed => m.body = r.body
               /\ \A e \in O : e.kind = "reveal" => e.text = r.body
      <4>1. Edits(O1) = {} /\ \A e \in O1 : e.kind = "reveal" => e.text = r.body
        BY <1>2, <3>2
      <4>2. new.revealed => new.body = r.body
        BY <3>2
      <4> QED
        BY <3>2, <4>1, <4>2 DEF Told
    <3>3. CASE r.edited # 0 /\ (m.edited = r.edited \/ \E e \in Edits(O) : e.at = r.edited)
      <4>1. ASSUME NEW e \in Edits(O), e.at = r.edited, e \notin Edits(O1)
            PROVE  m.edited = r.edited
        BY <1>1, <1>2, <2>1, <4>1
      <4>2. m.edited = r.edited \/ \E e \in Edits(O1) : e.at = r.edited
        BY <3>3, <4>1
      <4> QED
        BY <3>3, <4>2 DEF Told
    <3> QED
      BY <3>1, <3>2, <3>3 DEF Told
  <2> QED
    BY <2>1, <2>2
<1>8. r.deleted => r.body = 0
  BY DEF Tidy
<1> QED
  BY <1>3, <1>4, <1>5, <1>6, <1>7, <1>8 DEF Tidy

(* The author applies an edit of the partner, of a shared note. *)
LEMMA AuthorTakes ==
  ASSUME NEW w, NEW times, NEW r, NEW m, NEW O, NEW P,
         Known(r, m, O, P), Tidy(w, times, r, m, O, P),
         NEW op \in P,
         NEW new, new.kind = r.kind, new.revealed = r.revealed, new.deleted = r.deleted,
         IF ~r.deleted /\ r.edited < op.at THEN new.body = op.text /\ new.edited = op.at
                                           ELSE new.body = r.body /\ new.edited = r.edited,
         NEW P1, P1 \subseteq P, P \subseteq P1 \cup {op}
  PROVE  Tidy(w, times, new, m, O, P1)
<1>1. /\ r.edited \in Nat /\ m.edited \in Nat /\ op.at \in Nat \ {0} /\ op \in Edits(P)
      /\ \A e \in Edits(O) \cup Edits(P) : e.at \in Nat \ {0}
  <2>1. op \in Edits(P)
    BY DEF Known, Edits
  <2> QED
    BY <2>1, Seconds DEF Known
<1>2. Edits(P1) \subseteq Edits(P) /\ Edits(P) \subseteq Edits(P1) \cup {op} /\ r.kind = "shared"
  BY FewerEdits DEF Known
<1>3. Stamped(Edits(O) \cup Edits(P1), times, new, m)
  <2>1. Stamped(Edits(O) \cup Edits(P), times, r, m)
    BY DEF Tidy
  <2>2. Edits(O) \cup Edits(P1) \subseteq Edits(O) \cup Edits(P)
    BY <1>2
  <2>3. CASE ~r.deleted /\ r.edited < op.at
    BY <1>1, <2>1, <2>2, <2>3, StampedTaken
  <2>4. CASE ~(~r.deleted /\ r.edited < op.at)
    <3>1. \A e \in Edits(O) \cup Edits(P) : e.at # 0
      BY <1>1
    <3>2. new.edited = r.edited /\ (~new.deleted => ~r.deleted /\ new.body = r.body)
      BY <2>4
    <3> QED
      BY <2>1, <2>2, <3>1, <3>2, StampedSame
  <2> QED
    BY <2>3, <2>4
<1>4. r.deleted \/ (op.at <= new.edited /\ r.edited <= new.edited)
  BY <1>1
<1>5. Sent(O, new)
  <2>1. r.deleted \/ \A e \in Edits(O) : e.at <= r.edited
    BY DEF Tidy, Sent
  <2>2. new.edited \in Nat
    BY <1>1
  <2>3. r.deleted \/ \A e \in Edits(O) : e.at <= new.edited
    BY <1>1, <1>4, <2>1, <2>2
  <2> QED
    BY <2>3 DEF Sent
<1>6. Sent(P1, m) /\ (m.deleted \/ op.at <= m.edited)
  BY <1>1, <1>2 DEF Tidy, Sent
<1>7. Caught(O, new, m)
  <2>1. CASE new.edited = op.at
    BY <1>6, <2>1 DEF Caught
  <2>2. CASE new.edited = r.edited
    BY <1>2, <2>2 DEF Tidy, Caught
  <2> QED
    BY <2>1, <2>2
<1>8. Caught(P1, m, new)
  <2>1. r.deleted \/ m.edited <= r.edited \/ \E e \in Edits(P) : e.at = m.edited
    BY <1>2 DEF Tidy, Caught
  <2>2. new.edited \in Nat
    BY <1>1
  <2>3. r.deleted \/ m.edited <= new.edited \/ \E e \in Edits(P1) : e.at = m.edited
    BY <1>1, <1>2, <1>4, <2>1, <2>2
  <2> QED
    BY <2>3 DEF Caught
<1>9. Origin(w, new, m, O)
  BY <1>1, <1>2 DEF Tidy, Origin
<1>10. (new.deleted => new.body = 0) /\ (m.deleted => m.body = 0)
       /\ (m.kind = "secret" /\ m.edited # 0 => m.revealed)
  BY DEF Tidy
<1> QED
  BY <1>2, <1>3, <1>5, <1>6, <1>7, <1>8, <1>9, <1>10 DEF Tidy

-----------------------------------------------------------------------------
(* Texts, step by step.                                                    *)

LEMMA KnownNote ==
  ASSUME WireTypeOK(Operation), RowType, Rows, Ops, NEW s \in Side, NEW n \in Note, author[n] = s
  PROVE  Known(row[s][n], row[Other(s)][n], OpsOn(s, n), OpsOn(Other(s), n))
<1> PICK r : r = row[s][n]
  OBVIOUS
<1> PICK m : m = row[Other(s)][n]
  OBVIOUS
<1>1. Other(s) \in Side /\ Other(Other(s)) = s /\ Other(s) # s
  BY OtherSide
<1>2. r \in Row /\ m \in Row
  BY <1>1 DEF RowType
<1>3. r.kind \in NoteKind /\ (m.kind = "none" => m = NoRow) /\ Copy(m, r, Open(n))
  BY <1>1 DEF Rows, RowOk
<1>4. Open(n) <=> r.kind = "shared" \/ r.revealed
  BY DEF Open, Side
<1>5. Copy(m, r, r.kind = "shared" \/ r.revealed)
  BY <1>3, <1>4 DEF Copy
<1>6. OpsOn(s, n) \subseteq Operation /\ OpsOn(Other(s), n) \subseteq Operation
  BY <1>1, WayOperation DEF OpsOn
<1>7. \A op \in OpsOn(s, n) : OpOk(s, op) /\ op.note = n
  BY DEF Ops, OpsOn
<1>8. \A op \in OpsOn(Other(s), n) : OpOk(Other(s), op) /\ op.note = n
  BY <1>1 DEF Ops, OpsOn
<1>9. \A op \in OpsOn(s, n) : /\ op.text # 0 => r.kind = "shared" \/ r.revealed
                              /\ op.kind = "share" => r.kind = "shared"
                              /\ op.kind \in {"announce", "reveal"} => r.kind = "secret"
                              /\ op.kind = "delete" => r.deleted
  BY <1>4, <1>7 DEF OpOk
<1>10. \A op \in OpsOn(Other(s), n) : op.kind = "edit" /\ r.kind = "shared"
  BY <1>1, <1>8 DEF OpOk
<1> QED
  BY <1>2, <1>3, <1>5, <1>6, <1>9, <1>10 DEF Known

LEMMA SendsOn ==
  ASSUME NEW s \in Side, NEW n \in Note, NEW op, Sends(s, op)
  PROVE  /\ op.note = n => OpsOn(s, n)' = OpsOn(s, n) \cup {op}
         /\ op.note # n => OpsOn(s, n)' = OpsOn(s, n)
         /\ OpsOn(Other(s), n)' = OpsOn(Other(s), n)
  BY DEF Sends, OpsOn

LEMMA ArrivedOn ==
  ASSUME NEW s \in Side, NEW n \in Note, NEW op, Arrived(s, op)
  PROVE  /\ OpsOn(s, n)' = OpsOn(s, n)
         /\ op.note # n => OpsOn(Other(s), n)' = OpsOn(Other(s), n)
         /\ OpsOn(Other(s), n)' \subseteq OpsOn(Other(s), n)
         /\ OpsOn(Other(s), n) \subseteq OpsOn(Other(s), n)' \cup {op}
  BY DEF Arrived, OpsOn

LEMMA Untouched ==
  ASSUME NEW s \in Side, NEW n \in Note, TidyNote(s, n),
         row'[s][n] = row[s][n], row'[Other(s)][n] = row[Other(s)][n],
         writ'[n] = writ[n], stamps[n] \subseteq stamps'[n],
         OpsOn(s, n)' = OpsOn(s, n), OpsOn(Other(s), n)' = OpsOn(Other(s), n)
  PROVE  TidyNote(s, n)'
<1> PICK E : E = Edits(OpsOn(s, n)) \cup Edits(OpsOn(Other(s), n))
  OBVIOUS
<1>1. Stamped(E, stamps'[n], row[s][n], row[Other(s)][n])
  BY DEF TidyNote, Tidy, Stamped
<1> QED
  BY <1>1 DEF TidyNote, Tidy

(* Another note than the one of the step. *)
LEMMA OtherNote ==
  ASSUME NEW s \in Side, NEW n \in Note, TidyNote(s, n), NEW q \in Side, NEW k \in Note, k # n,
         NEW new, RowIs(q, k, new), writ'[n] = writ[n], stamps'[n] = stamps[n],
         \/ SendsNothing
         \/ \E op : op.note = k /\ Sends(q, op)
         \/ \E op : op.note = k /\ Arrived(q, op)
  PROVE  TidyNote(s, n)'
<1>1. Other(s) \in Side /\ q \in {s, Other(s)} /\ Other(Other(s)) = s
  BY OtherSide
<1>2. row'[s][n] = row[s][n] /\ row'[Other(s)][n] = row[Other(s)][n]
  BY <1>1 DEF RowIs
<1>3. OpsOn(s, n)' = OpsOn(s, n) /\ OpsOn(Other(s), n)' = OpsOn(Other(s), n)
  <2>1. CASE SendsNothing
    BY <1>1, <2>1 DEF SendsNothing, OpsOn
  <2>2. CASE \E op : op.note = k /\ Sends(q, op)
    <3>1. PICK op : op.note = k /\ Sends(q, op)
      BY <2>2
    <3>2. OpsOn(q, n)' = OpsOn(q, n) /\ OpsOn(Other(q), n)' = OpsOn(Other(q), n)
      BY <3>1, SendsOn
    <3> QED
      BY <1>1, <3>2
  <2>3. CASE \E op : op.note = k /\ Arrived(q, op)
    <3>1. PICK op : op.note = k /\ Arrived(q, op)
      BY <2>3
    <3>2. OpsOn(q, n)' = OpsOn(q, n) /\ OpsOn(Other(q), n)' = OpsOn(Other(q), n)
      BY <3>1, ArrivedOn
    <3> QED
      BY <1>1, <3>2
  <2> QED
    BY <2>1, <2>2, <2>3
<1> QED
  BY <1>2, <1>3, Untouched

LEMMA PartnerArrives ==
  ASSUME WireTypeOK(Operation), RowType, Rows, Ops, NEW s \in Side, NEW n \in Note, author[n] = s,
         TidyNote(s, n), NEW op \in Operation, op.note = n, Arrived(Other(s), op),
         ~Unready(Other(s), op)
  PROVE  TidyNote(s, n)'
<1> PICK q : q = Other(s)
  OBVIOUS
<1>1. q \in Side /\ Other(q) = s /\ q # s
  BY OtherSide
<1> PICK r : r = row[s][n]
  OBVIOUS
<1> PICK m : m = row[q][n]
  OBVIOUS
<1> PICK new : new = After(q, op)
  OBVIOUS
<1> PICK O : O = OpsOn(s, n)
  OBVIOUS
<1> PICK P : P = OpsOn(q, n)
  OBVIOUS
<1> PICK O1 : O1 = OpsOn(s, n)'
  OBVIOUS
<1>2. /\ Known(r, m, O, P) /\ Tidy(writ[n], stamps[n], r, m, O, P)
  BY KnownNote DEF TidyNote
<1>3. op \in O /\ O1 \subseteq O /\ O \subseteq O1 \cup {op} /\ OpsOn(q, n)' = P
  BY <1>1, ArrivedOn DEF Arrived, OpsOn
<1>4. row'[s][n] = r /\ row'[q][n] = new /\ writ'[n] = writ[n] /\ stamps'[n] = stamps[n]
  BY <1>1 DEF Arrived, RowIs
<1>5. m \in Row /\ r.kind \in NoteKind /\ (m.kind = "none" => m = NoRow)
  BY <1>2 DEF Known
<1>6. /\ op.kind \in {"share", "announce", "reveal", "publish", "edit", "delete"}
      /\ op.text # 0 => r.kind = "shared" \/ r.revealed
      /\ op.kind = "share" => r.kind = "shared"
      /\ op.kind \in {"announce", "reveal"} => r.kind = "secret"
      /\ op.kind = "delete" => r.deleted
  BY <1>2, <1>3, OperationFacts DEF Known
<1>7. /\ op.kind \in {"reveal", "publish", "edit"} => m.kind # "none"
      /\ op.kind = "reveal" => ~(m.deleted /\ ~m.revealed)
      /\ op.kind = "edit" => ~(m.kind = "secret" /\ ~m.revealed)
  BY <1>1 DEF Unready
<1>8. Tidy(writ[n], stamps[n], r, new, O1, P)
  <2> PICK w : w = writ[n]
    OBVIOUS
  <2> PICK times : times = stamps[n]
    OBVIOUS
  <2>0. Tidy(w, times, r, m, O, P)
    BY <1>2
  <2>1. CASE op.kind = "edit" /\ ~m.deleted /\ m.edited < op.at
    <3>1. new = [m EXCEPT !.body = op.text, !.edited = op.at]
      BY <1>1, <1>7, <2>1 DEF After
    <3>2. /\ new.kind = m.kind /\ new.revealed = m.revealed /\ new.deleted = m.deleted
          /\ new.body = op.text /\ new.edited = op.at
      BY <1>5, <3>1 DEF Row
    <3>3. m.kind # "none" /\ (m.kind = "secret" => m.revealed)
      BY <1>7, <2>1
    <3>4. Tidy(w, times, r, new, O1, P)
      BY <1>2, <1>3, <2>0, <2>1, <3>2, <3>3, PartnerTakesEdit
    <3> QED
      BY <3>4
  <2>2. ASSUME \/ op.kind # "edit" \/ m.deleted \/ ~(m.edited < op.at),
               new.edited = m.edited,
               ~new.deleted => ~m.deleted /\ (m.edited = 0 \/ new.body = m.body),
               new.deleted => new.body = 0,
               new.kind = "secret" /\ new.edited # 0 => new.revealed,
               r.kind = "shared" /\ new.kind = "shared" /\ ~new.deleted /\ new.edited = 0
                 => new.body = w,
               new.kind # "none" \/ (m.kind = "none" /\ op.kind # "share"),
               new.revealed => \/ m.revealed /\ new.body = m.body
                               \/ op.kind = "reveal" /\ new.body = op.text
                               \/ new.deleted /\ r.deleted
        PROVE  Tidy(w, times, r, new, O1, P)
    <3>1. op.kind = "edit" => m.deleted \/ op.at <= m.edited
      <4>1. m.edited \in 0 .. MaxClock /\ op.at \in 0 .. MaxClock
        BY <1>5, RowFields, OperationFacts
      <4> QED
        BY <2>2, <4>1
    <3> QED
      BY <1>2, <1>3, <2>0, <2>2, <3>1, PartnerTakesOther
  <2>3. /\ m.deleted => m.body = 0
        /\ m.kind = "secret" /\ m.edited # 0 => m.revealed
        /\ r.kind = "shared" /\ m.kind = "shared" /\ ~m.deleted /\ m.edited = 0 => m.body = w
        /\ \A e \in O : r.kind = "shared" /\ e.kind = "share" => e.text = w
        /\ m.deleted => r.deleted
    BY <1>2, <2>0 DEF Tidy, Origin, Known, Copy
  <2>4. CASE new = m /\ ~(op.kind = "share" /\ m.kind = "none")
             /\ ~(op.kind = "edit" /\ ~m.deleted /\ m.edited < op.at)
    <3>1. new.kind # "none" \/ (m.kind = "none" /\ op.kind # "share")
      BY <2>4
    <3> QED
      BY <2>2, <2>3, <2>4, <3>1
  <2>5. CASE op.kind = "share" /\ m.kind = "none"
    <3>1. new = [NoRow EXCEPT !.kind = "shared", !.body = op.text] /\ m = NoRow
      BY <1>1, <1>5, <2>5 DEF After
    <3>2. /\ new.kind = "shared" /\ new.revealed = FALSE /\ new.deleted = FALSE
          /\ new.body = op.text /\ new.edited = 0 /\ m.edited = 0 /\ m.deleted = FALSE
      BY <3>1 DEF NoRow
    <3>3. op.text = w
      BY <1>3, <1>6, <2>3, <2>5
    <3> QED
      BY <2>2, <2>5, <3>2, <3>3
  <2>6. CASE op.kind = "announce" /\ m.kind = "none"
    <3>1. new = [NoRow EXCEPT !.kind = "secret"] /\ m = NoRow
      BY <1>1, <1>5, <2>6 DEF After
    <3>2. /\ new.kind = "secret" /\ new.revealed = FALSE /\ new.deleted = FALSE
          /\ new.edited = 0 /\ m.edited = 0 /\ m.deleted = FALSE
      BY <3>1 DEF NoRow
    <3> QED
      BY <2>2, <2>6, <3>2
  <2>7. CASE op.kind = "reveal" /\ m.kind = "secret" /\ ~m.revealed
    <3>1. new = [m EXCEPT !.body = op.text, !.revealed = TRUE]
      BY <1>1, <2>7 DEF After
    <3>2. /\ new.kind = m.kind /\ new.revealed /\ new.deleted = m.deleted
          /\ new.body = op.text /\ new.edited = m.edited
      BY <1>5, <3>1 DEF Row
    <3>3. ~m.deleted /\ m.edited = 0 /\ ~new.deleted
      BY <1>7, <2>3, <2>7, <3>2
    <3> QED
      BY <2>2, <2>7, <3>2, <3>3
  <2>8. CASE op.kind = "publish" /\ m.kind # "none" /\ m.post = 0
    <3>1. new = [m EXCEPT !.post = op.text]
      BY <1>1, <2>8 DEF After
    <3>2. /\ new.kind = m.kind /\ new.revealed = m.revealed /\ new.deleted = m.deleted
          /\ new.body = m.body /\ new.edited = m.edited
      BY <1>5, <3>1 DEF Row
    <3> QED
      BY <2>2, <2>3, <2>8, <3>2
  <2>9. CASE op.kind = "delete" /\ m.kind = "none"
    <3>1. new = [NoRow EXCEPT !.kind = "shared", !.deleted = TRUE] /\ m = NoRow
      BY <1>1, <1>5, <2>9 DEF After
    <3>2. /\ new.kind = "shared" /\ new.revealed = FALSE /\ new.deleted = TRUE
          /\ new.body = 0 /\ new.edited = 0 /\ m.edited = 0
      BY <3>1 DEF NoRow
    <3> QED
      BY <2>2, <2>9, <3>2
  <2>10. CASE op.kind = "delete" /\ m.kind # "none" /\ ~m.deleted
    <3>1. new = [m EXCEPT !.deleted = TRUE, !.body = 0]
      BY <1>1, <2>10 DEF After
    <3>2. /\ new.kind = m.kind /\ new.revealed = m.revealed /\ new.deleted
          /\ new.body = 0 /\ new.edited = m.edited
      BY <1>5, <3>1 DEF Row
    <3> QED
      BY <1>6, <2>2, <2>3, <2>10, <3>2
  <2>11. Tidy(w, times, r, new, O1, P)
    <3>1. \/ op.kind = "edit" /\ ~m.deleted /\ m.edited < op.at
          \/ new = m /\ ~(op.kind = "share" /\ m.kind = "none")
             /\ ~(op.kind = "edit" /\ ~m.deleted /\ m.edited < op.at)
          \/ op.kind = "share" /\ m.kind = "none"
          \/ op.kind = "announce" /\ m.kind = "none"
          \/ op.kind = "reveal" /\ m.kind = "secret" /\ ~m.revealed
          \/ op.kind = "publish" /\ m.kind # "none" /\ m.post = 0
          \/ op.kind = "delete" /\ m.kind = "none"
          \/ op.kind = "delete" /\ m.kind # "none" /\ ~m.deleted
      BY <1>1, <1>6 DEF After
    <3> QED
      BY <3>1, <2>1, <2>4, <2>5, <2>6, <2>7, <2>8, <2>9, <2>10
  <2> QED
    BY <2>11
<1> QED
  BY <1>1, <1>3, <1>4, <1>8 DEF TidyNote

LEMMA AuthorArrives ==
  ASSUME WireTypeOK(Operation), RowType, Rows, Ops, NEW s \in Side, NEW n \in Note, author[n] = s,
         TidyNote(s, n), NEW op \in Operation, op.note = n, Arrived(s, op)
  PROVE  TidyNote(s, n)'
<1> PICK q : q = Other(s)
  OBVIOUS
<1>1. q \in Side /\ Other(q) = s /\ q # s
  BY OtherSide
<1> PICK r : r = row[s][n]
  OBVIOUS
<1> PICK m : m = row[q][n]
  OBVIOUS
<1> PICK new : new = After(s, op)
  OBVIOUS
<1> PICK O : O = OpsOn(s, n)
  OBVIOUS
<1> PICK P : P = OpsOn(q, n)
  OBVIOUS
<1> PICK P1 : P1 = OpsOn(q, n)'
  OBVIOUS
<1>2. Known(r, m, O, P) /\ Tidy(writ[n], stamps[n], r, m, O, P)
  BY KnownNote DEF TidyNote
<1>3. op \in P /\ P1 \subseteq P /\ P \subseteq P1 \cup {op} /\ OpsOn(s, n)' = O
  BY <1>1, ArrivedOn DEF Arrived, OpsOn
<1>4. row'[s][n] = new /\ row'[q][n] = m /\ writ'[n] = writ[n] /\ stamps'[n] = stamps[n]
  BY <1>1 DEF Arrived, RowIs
<1>5. r \in Row /\ r.kind # "none" /\ op.kind = "edit"
  BY <1>2, <1>3 DEF Known, NoteKind
<1>6. new = IF ~r.deleted /\ r.edited < op.at THEN [r EXCEPT !.body = op.text, !.edited = op.at]
                                              ELSE r
  BY <1>5 DEF After
<1>7. /\ new.kind = r.kind /\ new.revealed = r.revealed /\ new.deleted = r.deleted
      /\ IF ~r.deleted /\ r.edited < op.at THEN new.body = op.text /\ new.edited = op.at
                                           ELSE new.body = r.body /\ new.edited = r.edited
  BY <1>5, <1>6 DEF Row
<1> HIDE <1>6
<1>8. Tidy(writ[n], stamps[n], new, m, O, P1)
  BY <1>2, <1>3, <1>7, AuthorTakes
<1> QED
  BY <1>3, <1>4, <1>8 DEF TidyNote

LEMMA CreatedTexts ==
  ASSUME WireTypeOK(Operation), RowType, Rows, Ops, NEW s \in Side, NEW n \in Note,
         NEW kind \in NoteKind, NEW text \in Text, Created(s, n, kind, text)
  PROVE  TidyNote(s, n)'
<1> PICK new : new = [NoRow EXCEPT !.kind = kind, !.body = text]
  OBVIOUS
<1> PICK op : op = IF kind = "shared" THEN Op("share", n, text, 0) ELSE Op("announce", n, 0, 0)
  OBVIOUS
<1>1. Other(s) \in Side /\ Other(s) # s /\ author[n] = "none"
  BY OtherSide DEF Created
<1>2. row'[s][n] = new /\ row'[Other(s)][n] = NoRow
  BY <1>1 DEF Created, RowIs, Rows, RowOk
<1>3. writ'[n] = text
  BY DEF Created, RowType
<1>4. /\ op.kind = (IF kind = "shared" THEN "share" ELSE "announce")
      /\ kind = "shared" => op.text = text
      /\ op.note = n
  BY DEF Op
<1>5. Sends(s, op)
  BY DEF Created, NoteKind
<1>6. OpsOn(s, n) = {} /\ OpsOn(Other(s), n) = {}
  BY <1>1 DEF Ops, OpOk, OpsOn
<1>7. OpsOn(s, n)' = {op} /\ OpsOn(Other(s), n)' = {}
  BY <1>4, <1>5, <1>6, SendsOn
<1>8. Tidy(text, stamps'[n], new, NoRow, {op}, {})
  BY <1>4, AuthorCreates
<1> QED
  BY <1>2, <1>3, <1>7, <1>8 DEF TidyNote

LEMMA RevealedTexts ==
  ASSUME WireTypeOK(Operation), RowType, Rows, Ops, NEW s \in Side, NEW n \in Note,
         TidyNote(s, n), NEW text \in Text, Revealed(s, n, text), row[s][n].body = text
  PROVE  TidyNote(s, n)'
<1> PICK op : op = Op("reveal", n, text, 0)
  OBVIOUS
<1> PICK r : r = row[s][n]
  OBVIOUS
<1> PICK new : new = row'[s][n]
  OBVIOUS
<1> PICK m : m = row[Other(s)][n]
  OBVIOUS
<1> PICK O : O = OpsOn(s, n)
  OBVIOUS
<1> PICK P : P = OpsOn(Other(s), n)
  OBVIOUS
<1> PICK O1 : O1 = O \cup {op}
  OBVIOUS
<1> PICK w : w = writ[n]
  OBVIOUS
<1> PICK times : times = stamps[n]
  OBVIOUS
<1>1. Other(s) \in Side /\ Other(s) # s /\ r \in Row
  BY OtherSide DEF RowType
<1>2. op \in Operation /\ op.kind = "reveal" /\ op.text = r.body /\ op.note = n
  BY OpIsOperation
<1>3. /\ new = [r EXCEPT !.revealed = TRUE] /\ row'[Other(s)][n] = row[Other(s)][n]
      /\ writ' = writ /\ stamps' = stamps /\ Sends(s, op)
      /\ author[n] = s /\ r.kind = "secret" /\ ~r.revealed
  BY <1>1 DEF Revealed, RowIs
<1>4. OpsOn(s, n)' = O1 /\ OpsOn(Other(s), n)' = OpsOn(Other(s), n)
  BY <1>2, <1>3, SendsOn
<1>5. /\ new.kind = r.kind /\ new.revealed /\ new.deleted = r.deleted
      /\ new.body = r.body /\ new.edited = r.edited
  BY <1>1, <1>3 DEF Row
<1>6. Known(r, m, O, P)
  BY <1>3, KnownNote
<1>7. Tidy(w, times, r, m, O, P)
  BY DEF TidyNote
<1>8. Tidy(w, times, new, m, O1, P)
  <2>1. r.kind = "secret" /\ ~r.revealed
    BY <1>3
  <2> QED
    BY <2>1, <1>2, <1>5, <1>6, <1>7, AuthorReveals
<1> QED
  BY <1>3, <1>4, <1>8 DEF TidyNote

LEMMA PublishedTexts ==
  ASSUME WireTypeOK(Operation), RowType, Rows, Ops, NEW s \in Side, NEW n \in Note,
         TidyNote(s, n), NEW text \in Text, Published(s, n, text)
  PROVE  TidyNote(s, n)'
<1> PICK op : op = Op("publish", n, text, 0)
  OBVIOUS
<1> PICK r : r = row[s][n]
  OBVIOUS
<1> PICK new : new = row'[s][n]
  OBVIOUS
<1> PICK m : m = row[Other(s)][n]
  OBVIOUS
<1> PICK O : O = OpsOn(s, n)
  OBVIOUS
<1> PICK P : P = OpsOn(Other(s), n)
  OBVIOUS
<1> PICK O1 : O1 = O \cup {op}
  OBVIOUS
<1> PICK w : w = writ[n]
  OBVIOUS
<1> PICK times : times = stamps[n]
  OBVIOUS
<1>1. Other(s) \in Side /\ Other(s) # s /\ r \in Row
  BY OtherSide DEF RowType
<1>2. op \in Operation /\ op.kind = "publish" /\ op.text = text /\ op.note = n
  BY OpIsOperation
<1>3. /\ new = [r EXCEPT !.post = text] /\ row'[Other(s)][n] = row[Other(s)][n]
      /\ writ' = writ /\ stamps' = stamps /\ Sends(s, op) /\ author[n] = s
  BY <1>1 DEF Published, RowIs
<1>4. OpsOn(s, n)' = O1 /\ OpsOn(Other(s), n)' = OpsOn(Other(s), n)
  BY <1>2, <1>3, SendsOn
<1>5. /\ new.kind = r.kind /\ new.revealed = r.revealed /\ new.deleted = r.deleted
      /\ new.body = r.body /\ new.edited = r.edited
  BY <1>1, <1>3 DEF Row
<1>6. Known(r, m, O, P)
  BY <1>3, KnownNote
<1>7. Tidy(w, times, r, m, O, P)
  BY DEF TidyNote
<1>8. Tidy(w, times, new, m, O1, P)
  BY <1>2, <1>4, <1>5, <1>6, <1>7, AuthorPublishes
<1> QED
  BY <1>3, <1>4, <1>8 DEF TidyNote

LEMMA DeletedTexts ==
  ASSUME WireTypeOK(Operation), RowType, Rows, Ops, NEW s \in Side, NEW n \in Note,
         TidyNote(s, n), Deleted(s, n)
  PROVE  TidyNote(s, n)'
<1> PICK op : op = Op("delete", n, 0, 0)
  OBVIOUS
<1> PICK r : r = row[s][n]
  OBVIOUS
<1> PICK new : new = row'[s][n]
  OBVIOUS
<1> PICK m : m = row[Other(s)][n]
  OBVIOUS
<1> PICK O : O = OpsOn(s, n)
  OBVIOUS
<1> PICK P : P = OpsOn(Other(s), n)
  OBVIOUS
<1> PICK O1 : O1 = O \cup {op}
  OBVIOUS
<1> PICK w : w = writ[n]
  OBVIOUS
<1> PICK times : times = stamps[n]
  OBVIOUS
<1>1. Other(s) \in Side /\ Other(s) # s /\ r \in Row
  BY OtherSide DEF RowType
<1>2. op \in Operation /\ op.kind = "delete" /\ op.note = n
  BY OpIsOperation
<1>3. /\ new = [r EXCEPT !.deleted = TRUE, !.body = 0] /\ row'[Other(s)][n] = row[Other(s)][n]
      /\ writ' = writ /\ stamps' = stamps /\ Sends(s, op) /\ author[n] = s
  BY <1>1 DEF Deleted, RowIs
<1>4. OpsOn(s, n)' = O1 /\ OpsOn(Other(s), n)' = OpsOn(Other(s), n)
  BY <1>2, <1>3, SendsOn
<1>5. /\ new.kind = r.kind /\ new.revealed = r.revealed /\ new.deleted
      /\ new.body = 0 /\ new.edited = r.edited
  BY <1>1, <1>3 DEF Row
<1>6. Known(r, m, O, P)
  BY <1>3, KnownNote
<1>7. Tidy(w, times, r, m, O, P)
  BY DEF TidyNote
<1>8. Tidy(w, times, new, m, O1, P)
  BY <1>2, <1>4, <1>5, <1>6, <1>7, AuthorDeletes
<1> QED
  BY <1>3, <1>4, <1>8 DEF TidyNote

(* q is the author or the partner. *)
LEMMA RewrittenTexts ==
  ASSUME WireTypeOK(Operation), RowType, Rows, Ops, NEW s \in Side, NEW n \in Note, author[n] = s,
         TidyNote(s, n), NEW q \in Side, NEW text \in Text, NEW at \in 1 .. MaxClock,
         NEW flag \in BOOLEAN, Rewritten(q, n, text, at, flag), ~untidy'
  PROVE  TidyNote(s, n)'
<1> PICK op : op = Op("edit", n, text, at)
  OBVIOUS
<1> PICK r : r = row[s][n]
  OBVIOUS
<1> PICK m : m = row[Other(s)][n]
  OBVIOUS
<1> PICK new : new = row'[q][n]
  OBVIOUS
<1> PICK O : O = OpsOn(s, n)
  OBVIOUS
<1> PICK P : P = OpsOn(Other(s), n)
  OBVIOUS
<1> PICK w : w = writ[n]
  OBVIOUS
<1> PICK times : times = stamps[n]
  OBVIOUS
<1>1. /\ Other(s) \in Side /\ Other(s) # s /\ Other(Other(s)) = s /\ q \in {s, Other(s)}
      /\ row[q][n] \in Row
  BY OtherSide DEF RowType
<1>2. op \in Operation /\ op.kind = "edit" /\ op.text = text /\ op.note = n /\ op.at = at
  BY OpIsOperation
<1>3. /\ new = [row[q][n] EXCEPT !.body = text, !.edited = at]
      /\ row'[Other(q)][n] = row[Other(q)][n]
      /\ writ'[n] = writ[n] /\ stamps'[n] = stamps[n] \cup {at}
      /\ ~row[q][n].deleted /\ row[q][n].edited < at /\ row[q][n].kind # "none"
      /\ author[n] = q \/ row[Other(q)][n].kind = "shared"
  BY <1>1 DEF Rewritten, RowIs, RowType
<1>4. at \notin stamps[n] /\ (flag <=> row[q][n].kind = "shared" \/ row[q][n].revealed)
  BY DEF Rewritten
<1>5. /\ new.kind = row[q][n].kind /\ new.revealed = row[q][n].revealed
      /\ new.deleted = row[q][n].deleted /\ new.body = op.text /\ new.edited = op.at
  BY <1>1, <1>2, <1>3 DEF Row
<1>6. Known(r, m, O, P) /\ Tidy(w, times, r, m, O, P)
  BY KnownNote DEF TidyNote
<1>7. CASE q = s
  <2>1. OpsOn(s, n)' = (IF flag THEN O \cup {op} ELSE O) /\ OpsOn(Other(s), n)' = P
    <3>1. CASE flag
      BY <1>2, <1>7, <3>1, SendsOn DEF Rewritten
    <3>2. CASE ~flag
      BY <1>1, <1>7, <3>2 DEF Rewritten, SendsNothing, OpsOn
    <3> QED
      BY <3>1, <3>2
  <2> PICK O1 : O1 = IF r.kind = "shared" \/ r.revealed THEN O \cup {op} ELSE O
    OBVIOUS
  <2>2. OpsOn(s, n)' = O1
    BY <1>4, <1>7, <2>1
  <2>3. Tidy(w, times \cup {op.at}, new, m, O1, P)
    <3>1. op.at \notin times /\ ~r.deleted /\ r.edited < op.at
      BY <1>2, <1>3, <1>4, <1>7
    <3>2. /\ new.kind = r.kind /\ new.revealed = r.revealed /\ new.deleted = r.deleted
          /\ new.body = op.text /\ new.edited = op.at
      BY <1>5, <1>7
    <3> QED
      BY <1>2, <1>6, <3>1, <3>2, AuthorEdits
  <2> QED
    BY <1>2, <1>3, <1>7, <2>1, <2>2, <2>3 DEF TidyNote
<1>8. CASE q = Other(s)
  <2>1. r.kind = "shared" /\ m.kind = "shared"
    <3>1. r.kind = "shared"
      BY <1>1, <1>3, <1>8
    <3>2. m.kind \in NoteKind \cup {"none"} /\ Copy(m, r, r.kind = "shared" \/ r.revealed)
      BY <1>1, <1>6, <1>8, RowFields DEF Known
    <3> QED
      BY <1>3, <1>8, <3>1, <3>2 DEF Copy, NoteKind
  <2>2. flag
    BY <1>4, <1>8, <2>1
  <2>3. OpsOn(s, n)' = O /\ OpsOn(Other(s), n)' = P \cup {op}
    BY <1>1, <1>2, <1>8, <2>2, SendsOn DEF Rewritten
  <2> PICK P1 : P1 = P \cup {op}
    OBVIOUS
  <2>4. Tidy(w, times \cup {op.at}, r, new, O, P1)
    <3>1. op.at \notin times /\ ~m.deleted /\ m.edited < op.at
      BY <1>2, <1>3, <1>4, <1>8
    <3>2. /\ new.kind = m.kind /\ new.revealed = m.revealed /\ new.deleted = m.deleted
          /\ new.body = op.text /\ new.edited = op.at
      BY <1>5, <1>8
    <3> QED
      BY <1>2, <1>6, <2>1, <3>1, <3>2, PartnerEdits
  <2> QED
    BY <1>1, <1>2, <1>3, <1>8, <2>3, <2>4 DEF TidyNote
<1> QED
  BY <1>1, <1>7, <1>8

LEMMA NextTexts ==
  ASSUME WireTypeOK(Operation), RowType, Rows, Ops, Texts, Effect
  PROVE  Texts'
<1> SUFFICES ASSUME ~untidy', NEW s \in Side, NEW n \in Note, author'[n] = s
             PROVE  TidyNote(s, n)'
  BY DEF Texts
<1>1. ~untidy
  BY UntidyStays
<1>2. author[n] = s => TidyNote(s, n)
  BY <1>1 DEF Texts
<1>3. CASE Quiet
  <2>1. author[n] = s
    BY <1>3 DEF Quiet
  <2>2. OpsOn(s, n)' = OpsOn(s, n) /\ OpsOn(Other(s), n)' = OpsOn(Other(s), n)
    BY <1>3, OtherSide DEF Quiet, SendsNothing, OpsOn
  <2>3. /\ row'[s][n] = row[s][n] /\ row'[Other(s)][n] = row[Other(s)][n]
        /\ writ'[n] = writ[n] /\ stamps[n] \subseteq stamps'[n]
    BY <1>3 DEF Quiet
  <2> QED
    BY <1>2, <2>1, <2>2, <2>3, Untouched
<1>4. ASSUME NEW q \in Side, NEW k \in Note, NEW kind \in NoteKind, NEW text \in Text,
             Created(q, k, kind, text)
      PROVE  TidyNote(s, n)'
  <2>1. CASE k = n
    <3>1. q = s
      BY <1>4, <2>1 DEF Created, RowType
    <3> QED
      BY <1>4, <2>1, <3>1, CreatedTexts
  <2>2. CASE k # n
    <3> PICK new : new = [NoRow EXCEPT !.kind = kind, !.body = text]
      OBVIOUS
    <3>1. /\ author[n] = s /\ RowIs(q, k, new)
          /\ writ'[n] = writ[n] /\ stamps'[n] = stamps[n]
      BY <1>4, <2>2 DEF Created, RowType
    <3>2. \E op : op.note = k /\ Sends(q, op)
      <4>1. Op("share", k, text, 0).note = k /\ Op("announce", k, 0, 0).note = k
        BY DEF Op
      <4>2. Sends(q, Op("share", k, text, 0)) \/ Sends(q, Op("announce", k, 0, 0))
        BY <1>4 DEF Created, NoteKind
      <4> QED
        BY <4>1, <4>2
    <3> QED
      BY <1>2, <2>2, <3>1, <3>2, OtherNote
  <2> QED
    BY <2>1, <2>2
<1>5. ASSUME NEW q \in Side, NEW k \in Note, NEW text \in Text, Revealed(q, k, text)
      PROVE  TidyNote(s, n)'
  <2>1. author[n] = s /\ author[k] = q /\ row[q][k].body = text
    BY <1>5 DEF Revealed
  <2>2. CASE k = n
    BY <1>2, <1>5, <2>1, <2>2, RevealedTexts
  <2>3. CASE k # n
    <3> PICK new : new = [row[q][k] EXCEPT !.revealed = TRUE]
      OBVIOUS
    <3>1. RowIs(q, k, new) /\ writ'[n] = writ[n] /\ stamps'[n] = stamps[n]
      BY <1>5 DEF Revealed
    <3>2. Op("reveal", k, text, 0).note = k /\ Sends(q, Op("reveal", k, text, 0))
      BY <1>5 DEF Revealed, Op
    <3> QED
      BY <1>2, <2>1, <2>3, <3>1, <3>2, OtherNote
  <2> QED
    BY <2>2, <2>3
<1>6. ASSUME NEW q \in Side, NEW k \in Note, NEW text \in Text, Published(q, k, text)
      PROVE  TidyNote(s, n)'
  <2>1. author[n] = s /\ author[k] = q
    BY <1>6 DEF Published
  <2>2. CASE k = n
    BY <1>2, <1>6, <2>1, <2>2, PublishedTexts
  <2>3. CASE k # n
    <3> PICK new : new = [row[q][k] EXCEPT !.post = text]
      OBVIOUS
    <3>1. RowIs(q, k, new) /\ writ'[n] = writ[n] /\ stamps'[n] = stamps[n]
      BY <1>6 DEF Published
    <3>2. Op("publish", k, text, 0).note = k /\ Sends(q, Op("publish", k, text, 0))
      BY <1>6 DEF Published, Op
    <3> QED
      BY <1>2, <2>1, <2>3, <3>1, <3>2, OtherNote
  <2> QED
    BY <2>2, <2>3
<1>7. ASSUME NEW q \in Side, NEW k \in Note, Deleted(q, k) PROVE TidyNote(s, n)'
  <2>1. author[n] = s /\ author[k] = q
    BY <1>7 DEF Deleted
  <2>2. CASE k = n
    BY <1>2, <1>7, <2>1, <2>2, DeletedTexts
  <2>3. CASE k # n
    <3> PICK new : new = [row[q][k] EXCEPT !.deleted = TRUE, !.body = 0]
      OBVIOUS
    <3>1. RowIs(q, k, new) /\ writ'[n] = writ[n] /\ stamps'[n] = stamps[n]
      BY <1>7 DEF Deleted
    <3>2. Op("delete", k, 0, 0).note = k /\ Sends(q, Op("delete", k, 0, 0))
      BY <1>7 DEF Deleted, Op
    <3> QED
      BY <1>2, <2>1, <2>3, <3>1, <3>2, OtherNote
  <2> QED
    BY <2>2, <2>3
<1>8. ASSUME NEW q \in Side, NEW k \in Note, NEW text \in Text, NEW at \in 1 .. MaxClock,
             NEW flag \in BOOLEAN, Rewritten(q, k, text, at, flag)
      PROVE  TidyNote(s, n)'
  <2>1. author[n] = s
    BY <1>8 DEF Rewritten
  <2>2. CASE k = n
    BY <1>2, <1>8, <2>1, <2>2, RewrittenTexts
  <2>3. CASE k # n
    <3> PICK new : new = [row[q][k] EXCEPT !.body = text, !.edited = at]
      OBVIOUS
    <3>1. RowIs(q, k, new) /\ writ'[n] = writ[n] /\ stamps'[n] = stamps[n]
      BY <1>8, <2>3 DEF Rewritten, RowType
    <3>2. SendsNothing \/ \E op : op.note = k /\ Sends(q, op)
      <4>1. Op("edit", k, text, at).note = k
        BY DEF Op
      <4> QED
        BY <1>8, <4>1 DEF Rewritten
    <3> QED
      BY <1>2, <2>1, <2>3, <3>1, <3>2, OtherNote
  <2> QED
    BY <2>2, <2>3
<1>9. ASSUME NEW q \in Side, NEW op \in Operation, Arrived(q, op) PROVE TidyNote(s, n)'
  <2>1. author[n] = s /\ op.note \in Note
    BY <1>9, OperationFacts DEF Arrived
  <2>2. ~Unready(q, op)
    BY <1>9 DEF Arrived
  <2>3. CASE op.note = n
    <3>1. CASE q = s
      BY <1>2, <1>9, <2>1, <2>3, <3>1, AuthorArrives
    <3>2. CASE q # s
      <4>1. q = Other(s)
        BY <3>2, OtherSide
      <4> QED
        BY <1>2, <1>9, <2>1, <2>2, <2>3, <4>1, PartnerArrives
    <3> QED
      BY <3>1, <3>2
  <2>4. CASE op.note # n
    <3>1. /\ RowIs(q, op.note, After(q, op)) /\ writ'[n] = writ[n] /\ stamps'[n] = stamps[n]
      BY <1>9 DEF Arrived
    <3> QED
      BY <1>2, <1>9, <2>1, <2>4, <3>1, OtherNote
  <2> QED
    BY <2>3, <2>4
<1> QED
  BY <1>3, <1>4, <1>5, <1>6, <1>7, <1>8, <1>9 DEF Effect

-----------------------------------------------------------------------------
(* The theorems.                                                           *)

Wired == WireTypeOK(Operation)

LEMMA InitAll ==
  ASSUME Init
  PROVE  Wired /\ RowType /\ Rows /\ Ops /\ Calls /\ Deletions /\ Reveals /\ Texts
<1>1. Wired /\ \A s \in Side : Way(s) = {}
  BY WireInitWay DEF Init, Wired
<1>2. NoRow \in Row /\ 0 \in 0 .. MaxTexts
  BY NotesAssumption DEF NotesAssumption, NoRow, Row
<1>3. RowType
  <2>1. row \in [Side -> [Note -> Row]] /\ draft \in [Side -> Draft]
    BY <1>2 DEF Init, Draft
  <2>2. calls \in [Side -> Seq(StoreCall)]
    BY DEF Init
  <2>3. /\ author \in [Note -> Side \cup {"none"}] /\ feed \subseteq Text
        /\ texts \in 0 .. MaxTexts /\ writ \in [Note -> 0 .. MaxTexts]
        /\ stamps \in [Note -> SUBSET (1 .. MaxClock)]
    BY <1>2 DEF Init
  <2>4. untidy \in BOOLEAN
    BY DEF Init
  <2> QED
    BY <2>1, <2>2, <2>3, <2>4 DEF RowType
<1>4. Rows /\ Deletions /\ Reveals
  BY OtherSide DEF Init, Rows, RowOk, Deletions, DeleteOk, Reveals, RevealOk, NoRow, Side
<1>5. Ops
  BY <1>1 DEF Ops
<1>6. Calls
  BY DEF Init, Calls, Items
<1>7. Texts
  BY DEF Init, Texts, Side
<1> QED
  BY <1>1, <1>3, <1>4, <1>5, <1>6, <1>7

LEMMA NextStepped ==
  ASSUME Wired, RowType, Rows, Calls, [Next]_vars
  PROVE  Wired' /\ RowType' /\ Effect /\ CallSteps
  BY NextEffect DEF Wired, Stepped

(* Type correctness; the state of a note, a call and an operation stays    *)
(* what the code of store.ts and applyCrdtOp can make of it.               *)
THEOREM NotesTypeOK == Spec => []TypeOK
<1>1. Wired /\ RowType /\ Rows /\ Ops /\ Calls /\ [Next]_vars
        => Wired' /\ RowType' /\ Rows' /\ Ops' /\ Calls'
  BY NextStepped, NextRows, NextOps, NextCalls DEF Wired
<1>2. Wired /\ RowType => TypeOK
  BY DEF Wired, RowType, TypeOK
<1> QED
  BY InitAll, <1>1, <1>2, PTL DEF Spec

LEMMA NotesInvariant ==
  Spec => [](Wired /\ RowType /\ Rows /\ Ops /\ Calls /\ Deletions /\ Reveals /\ Texts)
<1>1. Wired /\ RowType /\ Rows /\ Ops /\ Calls /\ Deletions /\ Reveals /\ Texts /\ [Next]_vars
        => Wired' /\ RowType' /\ Rows' /\ Ops' /\ Calls' /\ Deletions' /\ Reveals' /\ Texts'
  BY NextStepped, NextRows, NextOps, NextCalls, NextDeletions, NextReveals, NextTexts DEF Wired
<1> QED
  BY InitAll, <1>1, PTL DEF Spec

LEMMA WayOfWire ==
  ASSUME NEW op, op \in OnTheWay
  PROVE  \E s \in Side : op \in Way(s)
<1>1. PICK s \in Side : op \in Items(outbox[s]) \/ op \in {e.op : e \in inbox[s]}
  BY DEF OnTheWay, Items
<1>2. CASE op \in Items(outbox[s])
  BY <1>2 DEF Way
<1>3. CASE op \in {e.op : e \in inbox[s]}
  <2>1. Other(s) \in Side /\ OnRelay(Other(s)) = {e.op : e \in inbox[s]}
    BY OtherSide DEF OnRelay
  <2> QED
    BY <1>3, <2>1 DEF Way
<1> QED
  BY <1>1, <1>2, <1>3

(* Neither the partner's row nor the wire holds a text of a secret that    *)
(* its author has not revealed, for any calls in progress at once          *)
(* (revealSecretNote, editNote, publishNote, deleteNote).                  *)
THEOREM NotesSecretStaysSecret == Spec => []SecretStaysSecret
<1>1. RowType /\ Rows /\ Ops => SecretStaysSecret
  <2> SUFFICES ASSUME RowType, Rows, Ops, NEW n \in Written,
                      row[author[n]][n].kind = "secret", ~row[author[n]][n].revealed
               PROVE  /\ row[Partner(n)][n].body = 0
                      /\ \A op \in OnTheWay : op.note = n => op.text = 0
    BY DEF SecretStaysSecret
  <2>1. n \in Note /\ author[n] \in Side /\ ~Open(n)
    BY DEF Written, RowType, Open
  <2>2. row[Partner(n)][n].body = 0
    <3>1. Partner(n) \in Side /\ author[n] = Other(Partner(n))
      BY <2>1, OtherSide DEF Partner
    <3>2. Copy(row[Partner(n)][n], row[author[n]][n], Open(n))
      BY <2>1, <3>1 DEF Rows, RowOk
    <3> QED
      BY <2>1, <3>2 DEF Copy
  <2>3. ASSUME NEW op \in OnTheWay, op.note = n PROVE op.text = 0
    BY <2>1, <2>3, WayOfWire DEF Ops, OpOk
  <2> QED
    BY <2>2, <2>3
<1> QED
  BY NotesInvariant, <1>1, PTL

LEMMA SettledWay ==
  ASSUME Wired, Settled, NEW s \in Side
  PROVE  Way(s) = {}
  BY DrainedWay DEF Wired, Settled

(* Once everything sent has been applied a note its author deleted is      *)
(* deleted with the partner, in whatever order and however often the       *)
(* operations arrived (deleteNote, the tombstone of applyCrdtOp).          *)
THEOREM NotesDeleteSettles == Spec => []DeleteSettles
<1>1. Wired /\ RowType /\ Deletions => DeleteSettles
  <2> SUFFICES ASSUME Wired, RowType, Deletions, Settled, NEW n \in Written,
                      row[author[n]][n].deleted
               PROVE  row[Partner(n)][n].deleted
    BY DEF DeleteSettles
  <2>1. n \in Note /\ author[n] \in Side
    BY DEF Written, RowType
  <2>2. DeleteOk(author[n], n) /\ Way(author[n]) = {}
    BY <2>1, SettledWay DEF Deletions
  <2> QED
    BY <2>2 DEF DeleteOk, Partner
<1> QED
  BY NotesInvariant, <1>1, PTL

(* Once everything sent has been applied, and no operation met a row that  *)
(* was not ready for it, the partner has the text of every published note: *)
(* publishNote reveals a secret before it stamps the post.                 *)
THEOREM NotesPublishedHasText == Spec => []PublishedHasText
<1>1. Wired /\ RowType /\ Rows /\ Reveals => PublishedHasText
  <2> SUFFICES ASSUME Wired, RowType, Rows, Reveals, Settled, ~untidy, NEW n \in Written,
                      row[Partner(n)][n].post # 0
               PROVE  /\ row[Partner(n)][n].body # 0 \/ row[Partner(n)][n].deleted
                      /\ row[Partner(n)][n].post = row[author[n]][n].post
    BY DEF PublishedHasText
  <2>1. n \in Note /\ author[n] \in Side
    BY DEF Written, RowType
  <2> PICK s : s = author[n]
    OBVIOUS
  <2> PICK r : r = row[Other(s)][n]
    OBVIOUS
  <2>2. Other(s) \in Side /\ Other(Other(s)) = s /\ r.post # 0 /\ Partner(n) = Other(s)
    BY <2>1, OtherSide DEF Partner
  <2>3. Copy(r, row[s][n], Open(n)) /\ (r.kind = "none" => r = NoRow) /\ r \in Row
    BY <2>1, <2>2 DEF Rows, RowOk, RowType
  <2>4. r.post = row[s][n].post /\ Open(n)
    BY <2>2, <2>3 DEF Copy
  <2>5. r.kind \in NoteKind
    <3>1. r.kind # "none"
      BY <2>2, <2>3 DEF NoRow
    <3>2. r.kind \in NoteKind \cup {"none"}
      BY <2>3, RowFields
    <3> QED
      BY <3>1, <3>2
  <2>6. CASE r.kind = "shared"
    BY <2>2, <2>3, <2>4, <2>6 DEF Copy
  <2>7. CASE r.kind = "secret"
    <3>1. row[s][n].kind = "secret" /\ row[s][n].revealed
      BY <2>3, <2>4, <2>7 DEF Copy, Open
    <3>2. Way(s) = {} /\ RevealOk(s, n)
      BY <2>1, SettledWay DEF Reveals
    <3>3. r.revealed
      BY <2>7, <3>1, <3>2 DEF RevealOk
    <3> QED
      BY <2>2, <2>3, <2>4, <3>3 DEF Copy
  <2> QED
    BY <2>5, <2>6, <2>7 DEF NoteKind
<1> QED
  BY NotesInvariant, <1>1, PTL

(* Nothing is on its way any more. *)
LEMMA SettledTexts ==
  ASSUME NEW w, NEW times, NEW r, NEW m, Known(r, m, {}, {}), Tidy(w, times, r, m, {}, {}),
         r.deleted => m.deleted, r.kind = "secret" => m.revealed \/ m.kind = "shared",
         r.kind = "shared" \/ r.revealed
  PROVE  r.body = m.body
<1>1. Edits({}) = {}
  BY DEF Edits
<1>2. CASE r.deleted
  BY <1>2 DEF Tidy
<1>3. CASE ~r.deleted
  <2>1. ~m.deleted
    BY <1>3 DEF Known, Copy
  <2>2. r.edited = m.edited /\ r.edited # 0 => r.body = m.body
    BY <1>3, <2>1 DEF Tidy, Stamped
  <2>3. CASE r.kind = "shared"
    <3>1. r.edited = m.edited
      BY <1>1, <1>3, <2>1, <2>3, Seconds DEF Tidy, Caught, Known
    <3>2. m.kind = "shared"
      <4>1. m.kind \in NoteKind \cup {"none"} /\ m.kind # "none" /\ m.kind # "secret"
        BY <2>3, RowFields DEF Known, Copy, Tidy, Origin
      <4> QED
        BY <4>1 DEF NoteKind
    <3>3. r.edited = 0 => r.body = w /\ m.body = w
      BY <1>3, <2>1, <2>3, <3>1, <3>2 DEF Tidy, Origin
    <3> QED
      BY <2>2, <3>1, <3>3
  <2>4. CASE r.kind = "secret"
    <3>1. m.revealed /\ r.revealed
      BY <2>1, <2>4 DEF Known, Copy
    <3>2. Told(r, m, {})
      BY <1>3, <2>4, <3>1 DEF Tidy
    <3> QED
      BY <1>1, <2>2, <3>1, <3>2 DEF Told
  <2> QED
    BY <2>3, <2>4 DEF Known, NoteKind
<1> QED
  BY <1>2, <1>3

(* Once everything sent has been applied, and no operation met a row that  *)
(* was not ready for it, both phones hold the same text of a shared note   *)
(* and of a revealed one, whoever edited it and in whatever order the      *)
(* edits arrived (editNote, the last writer of applyCrdtOp).               *)
THEOREM NotesTextsSettle == Spec => []TextsSettle
<1>1. Wired /\ RowType /\ Rows /\ Ops /\ Deletions /\ Reveals /\ Texts => TextsSettle
  <2> SUFFICES ASSUME Wired, RowType, Rows, Ops, Deletions, Reveals, Texts, Settled, ~untidy,
                      NEW n \in Written,
                      row[author[n]][n].kind = "shared" \/ row[author[n]][n].revealed
               PROVE  row[author[n]][n].body = row[Partner(n)][n].body
    BY DEF TextsSettle
  <2> PICK s : s = author[n]
    OBVIOUS
  <2> PICK r : r = row[s][n]
    OBVIOUS
  <2> PICK m : m = row[Other(s)][n]
    OBVIOUS
  <2> PICK w : w = writ[n]
    OBVIOUS
  <2> PICK times : times = stamps[n]
    OBVIOUS
  <2>1. n \in Note /\ s \in Side /\ Other(s) \in Side /\ Partner(n) = Other(s)
    BY OtherSide DEF Written, RowType, Partner
  <2>2. Way(s) = {} /\ Way(Other(s)) = {}
    BY <2>1, SettledWay
  <2>3. OpsOn(s, n) = {} /\ OpsOn(Other(s), n) = {}
    BY <2>2 DEF OpsOn
  <2>4. Known(r, m, {}, {})
    BY <2>1, <2>3, KnownNote DEF Wired
  <2>5. Tidy(w, times, r, m, {}, {})
    BY <2>1, <2>3 DEF Texts, TidyNote
  <2>6. r.deleted => m.deleted
    BY <2>1, <2>2 DEF Deletions, DeleteOk
  <2>7. RevealOk(s, n)
    BY <2>1 DEF Reveals
  <2>8. r.kind = "shared" \/ r.revealed
    OBVIOUS
  <2>9. r.kind = "secret" => m.revealed \/ m.kind = "shared"
    BY <2>2, <2>7, <2>8 DEF RevealOk
  <2> QED
    BY <2>1, <2>4, <2>5, <2>6, <2>8, <2>9, SettledTexts
<1> QED
  BY NotesInvariant, <1>1, PTL

=============================================================================

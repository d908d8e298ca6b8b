---------------------------- MODULE MediaProofs ----------------------------
(***************************************************************************)
(* Proofs about Media, for any attachments, number of downloads at once,   *)
(* time to live and bounds.                                                *)
(*                                                                         *)
(* What a row or a note names is there because of the order of the writes: *)
(* UploadInv follows an attachment from the bucket to the note, FileInv a  *)
(* download from the file to the row, through a wipe under way.            *)
(***************************************************************************)
EXTENDS Media, TLAPS

-----------------------------------------------------------------------------
(* The inductive invariant.                                                *)

Attached(a) == upload[a] = "answered" \/ a \in kept

\* The server holds what it answered for until that expires, and a row of
\* metadata that is not answered for cannot be listed by the collector.
UploadInv ==
  \A a \in Att :
    /\ upload[a] \in {"none", "put", "insert"} => meta[a] = 0
    /\ upload[a] = "insert" => a \in object /\ 0 < due[a]
    /\ Attached(a) => 0 < due[a] /\ (due[a] <= clock \/ (meta[a] = due[a] /\ a \in object))
    /\ a \in kept => upload[a] = "done"

\* Only copies that were kept make a chip ready and a row of the author.
NoteInv == own \subseteq kept /\ \A a \in Att : staged[a] = "ready" => a \in kept

\* The collector has listed nothing but expired blobs.
DoomInv == \A a \in doomed : 0 < meta[a] /\ Expired(a)

\* A download about to mark its row has written the file, unless the wipe
\* came in between, and then there is no row to mark.
FileInv ==
  /\ wiped # "no" => \A a \in Att : row[a] = NoRow
  /\ wiped = "no" => \A t \in Task : task[t].pc = "ready" => task[t].att \in disk
  /\ \A a \in Att : row[a].local => a \in disk

BlobInv == UploadInv /\ NoteInv /\ DoomInv

IInv == TypeOK /\ BlobInv /\ FileInv

-----------------------------------------------------------------------------
(* Type correctness.                                                       *)

LEMMA InitTypeOK == Init => TypeOK
  BY MediaAssumption DEF Init, TypeOK, MediaAssumption, NoRow, NoTask

\* A run whose screen is gone is still a run.
LEMMA LeftRun ==
  ASSUME NEW r, NEW P, r \in {NoTask} \union [att : Att, mine : BOOLEAN, pc : P]
  PROVE  [att |-> r.att, pc |-> r.pc, mine |-> FALSE]
           \in {NoTask} \union [att : Att, mine : BOOLEAN, pc : P]
<1>1. CASE r = NoTask
  <2>1. r.att = "none" /\ r.pc = "idle"
    BY <1>1 DEF NoTask
  <2> QED
    BY <2>1 DEF NoTask
<1>2. CASE r \in [att : Att, mine : BOOLEAN, pc : P]
  <2>1. r.att \in Att /\ r.pc \in P
    BY <1>2
  <2> QED
    BY <2>1
<1> QED
  BY <1>1, <1>2

LEMMA NextTypeOK == TypeOK /\ [Next]_vars => TypeOK'
<1> SUFFICES ASSUME TypeOK, [Next]_vars PROVE TypeOK'
  OBVIOUS
<1> USE MediaAssumption DEF MediaAssumption, TypeOK, NoRow, NoTask
<1>1. ASSUME NEW a \in Att, Pick(a) PROVE TypeOK'
  BY <1>1 DEF Pick, At, Goes, server, stored, screen
<1>2. ASSUME NEW a \in Att, RemoveMedia(a) PROVE TypeOK'
  BY <1>2 DEF RemoveMedia, server, stored, screen
<1>3. ASSUME NEW a \in Att, PutObject(a) \/ InsertMeta(a) PROVE TypeOK'
  <2>1. CASE PutObject(a)
    <3>1. ExpiresAt \in 0..(MaxClock + Ttl)
      BY DEF ExpiresAt
    <3> QED
      BY <2>1, <3>1 DEF PutObject, At, Goes, stored, screen
  <2>2. CASE InsertMeta(a)
    BY <2>2 DEF InsertMeta, At, Goes, stored, screen
  <2> QED
    BY <1>3, <2>1, <2>2
<1>4. ASSUME NEW a \in Att, InsertFails(a) PROVE TypeOK'
  <2>1. PICK done \in BOOLEAN : meta' = [meta EXCEPT ![a] = IF done THEN due[a] ELSE @]
    BY <1>4 DEF InsertFails
  <2>2. meta' \in [Att -> 0..(MaxClock + Ttl)]
    BY <2>1
  <2> QED
    BY <1>4, <2>2 DEF InsertFails, CanFail, At, Goes, stored, screen
<1>5. ASSUME NEW a \in Att, UploadLost(a) PROVE TypeOK'
  BY <1>5 DEF UploadLost, CanFail, Goes, server, stored, screen
<1>6. ASSUME NEW a \in Att, PrepareDone(a) \/ PrepareFails(a) \/ KeepFails(a) PROVE TypeOK'
  BY <1>6 DEF PrepareDone, PrepareFails, KeepFails, Chip, CanFail, At, Goes, server, stored, screen
<1>7. ASSUME NEW a \in Att, open, HandleOpen(a), tried' \subseteq Att PROVE TypeOK'
  <2>1. PICK t \in Task : task' = [task EXCEPT ![t] = [att |-> a, pc |-> "look", mine |-> TRUE]]
    BY <1>7 DEF HandleOpen
  <2> QED
    BY <1>7, <2>1 DEF HandleOpen, server, author, stored
<1>8. ASSUME NEW kind \in {"shared", "secret"}, Submit(kind) PROVE TypeOK'
  BY <1>8 DEF Submit, Ready, server, stored, screen
<1>9. CASE Reveal \/ Tick \/ PurgeBegin \/ PurgeEnd
  BY <1>9 DEF Reveal, Tick, PurgeBegin, PurgeEnd, server, author, stored, screen
<1>10. CASE ApplyDescriptors
  BY <1>10 DEF ApplyDescriptors, server, author, screen
<1>11. CASE OpenScreen
  BY <1>11 DEF OpenScreen, Listing, server, author, stored
<1>12. CASE Leave
  <2>1. \A t \in Task : task'[t] = [att |-> task[t].att, pc |-> task[t].pc, mine |-> FALSE]
    BY <1>12 DEF Leave
  <2> DEFINE run == [att : Att, mine : BOOLEAN,
                pc : {"look", "mark", "fetch", "write", "ready", "fail", "open", "show", "end"}]
  <2>2. ASSUME NEW t \in Task PROVE task'[t] \in {NoTask} \union run
    <3>1. task[t] \in {NoTask} \union run
      OBVIOUS
    <3>2. [att |-> task[t].att, pc |-> task[t].pc, mine |-> FALSE] \in {NoTask} \union run
      <4> HIDE DEF TypeOK, NoTask
      <4> QED
        BY <3>1, LeftRun
    <3> QED
      BY <2>1, <3>2
  <2>3. task' \in [Task -> {NoTask} \union run]
    BY <1>12, <2>2 DEF Leave
  <2> QED
    BY <1>12, <2>1, <2>3 DEF Leave, server, author, stored
<1>13. CASE Crash
  BY <1>13 DEF Crash, CanFail, server, author, stored
<1>14. CASE WipeRows
  BY <1>14 DEF WipeRows, server, author, screen
<1>15. CASE WipeFiles
  BY <1>15 DEF WipeFiles, server, author, screen
<1>16. ASSUME NEW t \in Task, Run(t) \/ LoadFails(t) PROVE TypeOK'
  <2> DEFINE pcs == {"look", "mark", "fetch", "write", "ready", "fail", "open", "show", "end"}
  <2>1. ASSUME NEW from \in pcs, NEW to \in pcs, Step(t, from, to) PROVE
          /\ task[t].att \in Att
          /\ task' \in [Task -> {NoTask} \union [att : Att, mine : BOOLEAN, pc : pcs]]
          /\ \A u \in Task : task'[u].mine = task[u].mine
    BY <2>1 DEF Step
  <2>2. CASE Look(t) \/ Fetch(t)
    <3>1. /\ \E from \in pcs, to \in pcs : Step(t, from, to)
          /\ UNCHANGED <<stored, faults>> /\ Elsewhere
      <4>1. CASE Look(t)
        BY <4>1 DEF Look
      <4>2. CASE Fetch(t)
        BY <4>2 DEF Fetch
      <4> QED
        BY <2>2, <4>1, <4>2
    <3>2. /\ task' \in [Task -> {NoTask} \union [att : Att, mine : BOOLEAN, pc : pcs]]
          /\ \A u \in Task : task'[u].mine = task[u].mine
      BY <2>1, <3>1
    <3> HIDE DEF pcs
    <3>3. UNCHANGED <<row, disk, plain, faults, clock, object, meta, due, doomed>>
      BY <3>1 DEF Elsewhere, server, stored
    <3>4. UNCHANGED <<open, shown, tried, preview, wiped, cut>> /\ UNCHANGED author
      BY <3>1 DEF Elsewhere, screen
    <3> USE DEF pcs
    <3> QED
      BY <3>2, <3>3, <3>4 DEF author
  <2>3. CASE MarkDownloading(t) \/ MarkFailed(t)
    <3>1. PICK s \in {"downloading", "failed"} : State(task[t].att, s)
      BY <2>3 DEF MarkDownloading, MarkFailed
    <3>2. row' \in [Att -> [state : {"none", "remote", "downloading", "failed", "ready"},
                            local : BOOLEAN]]
      BY <3>1 DEF State
    <3> QED
      BY <2>1, <2>3, <3>2 DEF MarkDownloading, MarkFailed, Elsewhere, server, author, screen
  <2>4. CASE WriteFile(t)
    BY <2>1, <2>4 DEF WriteFile, Elsewhere, server, author, screen
  <2>5. CASE MarkReady(t)
    BY <2>1, <2>5 DEF MarkReady, Elsewhere, server, author, screen
  <2>6. CASE OpenAttachment(t)
    BY <2>1, <2>6 DEF OpenAttachment, Elsewhere, server, author, screen
  <2>7. CASE Finish(t)
    BY <2>7 DEF Finish, Listing, server, author, stored
  <2>8. CASE LoadFails(t)
    BY <2>1, <2>8 DEF LoadFails, CanFail, Elsewhere, server, author, screen, stored
  <2> QED
    BY <1>16, <2>2, <2>3, <2>4, <2>5, <2>6, <2>7, <2>8 DEF Run
<1>17. CASE UNCHANGED vars
  BY <1>17 DEF vars, server, author, stored, screen
<1> QED
  BY <1>1, <1>2, <1>3, <1>4, <1>5, <1>6, <1>7, <1>8, <1>9, <1>10, <1>11, <1>12, <1>13, <1>14,
     <1>16, <1>17, <1>15 DEF Next, AutoLoad, TapLoad

\* Every variable has its type.
THEOREM MediaTypeOK == Spec => []TypeOK
<1>1. Init => TypeOK
  BY InitTypeOK
<1>2. TypeOK /\ [Next]_vars => TypeOK'
  BY NextTypeOK
<1> QED
  BY <1>1, <1>2, PTL DEF Spec

-----------------------------------------------------------------------------
(* The blob behind a note.                                                 *)

LEMMA InitBlobInv == Init => BlobInv
  BY DEF Init, BlobInv, UploadInv, NoteInv, DoomInv, Attached

\* Steps of the partner and of the users leave the blob alone.
LEMMA BlobApart ==
  ASSUME BlobInv, UNCHANGED <<clock, server, author>>
  PROVE  BlobInv'
  BY DEF BlobInv, UploadInv, NoteInv, DoomInv, Attached, Expired, server, author

LEMMA NextBlobInv == TypeOK /\ BlobInv /\ [Next]_vars => BlobInv'
<1> SUFFICES ASSUME TypeOK, BlobInv, [Next]_vars PROVE BlobInv'
  OBVIOUS
<1> USE DEF BlobInv, UploadInv, NoteInv, DoomInv, Attached, Expired
<1>t. /\ clock \in Nat /\ Ttl \in Nat /\ ExpiresAt \in Nat /\ clock < ExpiresAt
      /\ meta \in [Att -> Nat] /\ due \in [Att -> Nat]
      /\ upload \in [Att -> {"none", "put", "insert", "answered", "failed", "done"}]
      /\ staged \in [Att -> {"none", "preparing", "ready", "error"}]
      /\ doomed \subseteq Att /\ own \subseteq Att /\ kept \subseteq Att /\ object \subseteq Att
  BY MediaAssumption DEF TypeOK, MediaAssumption, ExpiresAt
<1>1. ASSUME NEW a \in Att, Pick(a) PROVE BlobInv'
  BY <1>t, <1>1 DEF Pick, At, Goes, server
<1>2. ASSUME NEW a \in Att, RemoveMedia(a) PROVE BlobInv'
  BY <1>t, <1>2 DEF RemoveMedia, server
<1>3. ASSUME NEW a \in Att, PutObject(a) PROVE BlobInv'
  BY <1>t, <1>3 DEF PutObject, At, Goes
<1>4. ASSUME NEW a \in Att, InsertMeta(a) PROVE BlobInv'
  BY <1>t, <1>4 DEF InsertMeta, At, Goes
<1>5. ASSUME NEW a \in Att, InsertFails(a) PROVE BlobInv'
  <2>1. PICK done \in BOOLEAN : meta' = [meta EXCEPT ![a] = IF done THEN due[a] ELSE @]
    BY <1>5 DEF InsertFails
  <2> QED
    BY <1>t, <1>5, <2>1 DEF InsertFails, At, Goes
<1>6. ASSUME NEW a \in Att, UploadLost(a) PROVE BlobInv'
  BY <1>t, <1>6 DEF UploadLost, Goes, server
<1>7. ASSUME NEW a \in Att, PrepareDone(a) \/ PrepareFails(a) PROVE BlobInv'
  BY <1>t, <1>7 DEF PrepareDone, PrepareFails, Chip, At, Goes, server
<1>8. ASSUME NEW a \in Att, KeepFails(a) PROVE BlobInv'
  BY <1>t, <1>8 DEF KeepFails, At, Goes, server
<1>9. ASSUME NEW kind \in {"shared", "secret"}, Submit(kind) PROVE BlobInv'
  BY <1>t, <1>9 DEF Submit, Ready, server
<1>10. CASE Reveal
  BY <1>t, <1>10 DEF Reveal, server
<1>11. CASE Tick
  BY <1>t, <1>11 DEF Tick, server, author
<1>12. CASE PurgeBegin
  BY <1>t, <1>12 DEF PurgeBegin, author
<1>13. CASE PurgeEnd
  BY <1>t, <1>13 DEF PurgeEnd, author
<1>14. CASE UNCHANGED <<clock, server, author>>
  BY <1>14, BlobApart
<1>15. ASSUME NEW a \in Att, AutoLoad(a) \/ TapLoad(a) PROVE UNCHANGED <<clock, server, author>>
  BY <1>15 DEF AutoLoad, TapLoad, HandleOpen
<1>16. CASE ApplyDescriptors \/ OpenScreen \/ Leave \/ Crash \/ WipeRows \/ WipeFiles
  BY <1>14, <1>16 DEF ApplyDescriptors, OpenScreen, Leave, Crash, WipeRows, WipeFiles
<1>17. ASSUME NEW t \in Task, Run(t) \/ LoadFails(t) PROVE UNCHANGED <<clock, server, author>>
  BY <1>17 DEF Run, LoadFails, Look, MarkDownloading, Fetch, WriteFile, MarkReady, MarkFailed,
       OpenAttachment, Finish, Elsewhere
<1>18. CASE UNCHANGED vars
  BY <1>14, <1>18 DEF vars
<1> QED
  BY <1>1, <1>2, <1>3, <1>4, <1>5, <1>6, <1>7, <1>8, <1>9, <1>10, <1>11, <1>12, <1>13, <1>14,
     <1>15, <1>16, <1>17, <1>18 DEF Next

\* What a note names can be fetched until it expires: the order of object
\* and row on the server, of upload and copy on the phone, and the
\* collector that touches nothing that is still served.
THEOREM MediaFetchable == Spec => []FetchableUntilExpiry
<1>1. Init => TypeOK /\ BlobInv
  BY InitTypeOK, InitBlobInv
<1>2. TypeOK /\ BlobInv /\ [Next]_vars => TypeOK' /\ BlobInv'
  BY NextTypeOK, NextBlobInv
<1>3. TypeOK /\ BlobInv => FetchableUntilExpiry
  <2> SUFFICES ASSUME TypeOK, BlobInv, NEW a \in own, ~(due[a] <= clock) PROVE Served(a)
    BY DEF FetchableUntilExpiry
  <2>1. a \in kept /\ a \in Att /\ due[a] \in Nat /\ clock \in Nat
    BY MediaAssumption DEF BlobInv, NoteInv, TypeOK, MediaAssumption
  <2>2. 0 < due[a] /\ meta[a] = due[a] /\ a \in object
    BY <2>1 DEF BlobInv, UploadInv, Attached
  <2> QED
    BY <2>1, <2>2 DEF Served, Expired
<1> QED
  BY <1>1, <1>2, <1>3, PTL DEF Spec

-----------------------------------------------------------------------------
(* The file behind a row.                                                  *)

LEMMA InitFileInv == Init => FileInv
  BY DEF Init, FileInv, NoRow, NoTask

\* A step that neither touches rows and files nor starts the wipe, and by
\* which no download gets to the point of marking its row.
LEMMA FilesApart ==
  ASSUME FileInv, UNCHANGED <<row, disk, wiped>>,
         \A t \in Task : task'[t].pc = "ready" =>
           task[t].pc = "ready" /\ task'[t].att = task[t].att
  PROVE  FileInv'
  BY DEF FileInv

LEMMA NextFileInv == TypeOK /\ FileInv /\ [Next]_vars => FileInv'
<1> SUFFICES ASSUME TypeOK, FileInv, [Next]_vars PROVE FileInv'
  OBVIOUS
<1> DEFINE run == [att : Att, mine : BOOLEAN,
              pc : {"look", "mark", "fetch", "write", "ready", "fail", "open", "show", "end"}]
<1>t. /\ task \in [Task -> {NoTask} \union run]
      /\ row \in [Att -> [state : {"none", "remote", "downloading", "failed", "ready"},
                         local : BOOLEAN]]
      /\ disk \subseteq Att
      /\ \A t \in Task : task[t].pc # "idle" => task[t] \in run
  BY DEF TypeOK, NoTask
<1>1. CASE UNCHANGED <<row, disk, wiped, task>>
  BY <1>1, FilesApart
<1>2. ASSUME NEW a \in Att,
        \/ Pick(a) \/ RemoveMedia(a) \/ PutObject(a) \/ InsertMeta(a) \/ InsertFails(a)
        \/ UploadLost(a) \/ PrepareDone(a) \/ PrepareFails(a) \/ KeepFails(a)
      PROVE FileInv'
  BY <1>1, <1>2 DEF Pick, RemoveMedia, PutObject, InsertMeta, InsertFails, UploadLost, PrepareDone,
       PrepareFails, KeepFails, stored
<1>3. ASSUME NEW a \in Att, AutoLoad(a) \/ TapLoad(a) PROVE FileInv'
  <2>1. HandleOpen(a)
    BY <1>3 DEF AutoLoad, TapLoad
  <2>2. PICK t \in Task : task' = [task EXCEPT ![t] = [att |-> a, pc |-> "look", mine |-> TRUE]]
    BY <2>1 DEF HandleOpen
  <2>3. \A u \in Task : task'[u].pc = "ready" => task'[u] = task[u]
    BY <1>t, <2>2
  <2> QED
    BY <2>1, <2>3, FilesApart DEF HandleOpen, stored
<1>4. ASSUME NEW kind \in {"shared", "secret"}, Submit(kind) PROVE FileInv'
  BY <1>1, <1>4 DEF Submit, stored
<1>5. CASE Reveal \/ Tick \/ PurgeBegin \/ PurgeEnd \/ OpenScreen \/ UNCHANGED vars
  BY <1>1, <1>5 DEF Reveal, Tick, PurgeBegin, PurgeEnd, OpenScreen, vars, stored
<1>6. CASE ApplyDescriptors
  BY <1>t, <1>6 DEF ApplyDescriptors, FileInv, NoRow
<1>7. CASE Leave
  <2>1. \A t \in Task : task'[t].pc = task[t].pc /\ task'[t].att = task[t].att
    BY <1>7 DEF Leave
  <2> QED
    BY <1>7, <2>1, FilesApart DEF Leave, stored
<1>8. CASE Crash
  BY <1>8 DEF Crash, FileInv, NoTask, stored
<1>9. CASE WipeRows
  BY <1>9 DEF WipeRows, FileInv, NoRow
<1>10. CASE WipeFiles
  BY <1>10 DEF WipeFiles, FileInv, NoRow
<1>11. ASSUME NEW t \in Task, Run(t) \/ LoadFails(t) PROVE FileInv'
  <2>1. ASSUME NEW from \in {"look", "mark", "fetch", "write", "ready", "fail", "open"},
               NEW to, Step(t, from, to)
        PROVE  /\ task[t].att \in Att
               /\ task'[t].pc = to /\ task'[t].att = task[t].att
               /\ \A u \in Task \ {t} : task'[u] = task[u]
    BY <1>t, <2>1 DEF Step
  <2>2. CASE Look(t) \/ Fetch(t) \/ OpenAttachment(t) \/ LoadFails(t)
    BY <2>1, <2>2, FilesApart DEF Look, Fetch, OpenAttachment, LoadFails, Elsewhere, stored
  <2>3. CASE MarkDownloading(t)
    <3>1. \A a \in Att : /\ row[a] = NoRow => row'[a] = NoRow
                         /\ row'[a].local => row[a].local
      BY <1>t, <2>3 DEF MarkDownloading, State, NoRow
    <3>2. \A u \in Task : task'[u].pc = "ready" => task'[u] = task[u]
      BY <2>1, <2>3 DEF MarkDownloading
    <3>3. UNCHANGED <<disk, wiped>>
      BY <2>3 DEF MarkDownloading, Elsewhere
    <3>4. wiped' # "no" => \A a \in Att : row'[a] = NoRow
      BY <3>1, <3>3 DEF FileInv
    <3>5. wiped' = "no" => \A u \in Task : task'[u].pc = "ready" => task'[u].att \in disk'
      BY <3>2, <3>3 DEF FileInv
    <3>6. \A a \in Att : row'[a].local => a \in disk'
      BY <3>1, <3>3 DEF FileInv
    <3> QED
      BY <3>4, <3>5, <3>6 DEF FileInv
  <2>4. CASE MarkFailed(t)
    BY <1>t, <2>1, <2>4 DEF MarkFailed, State, Elsewhere, FileInv, NoRow
  <2>5. CASE WriteFile(t)
    BY <1>t, <2>1, <2>5 DEF WriteFile, Elsewhere, FileInv
  <2>6. CASE MarkReady(t)
    <3>1. /\ task[t].pc = "ready" /\ task[t].att \in Att
          /\ \A u \in Task : task'[u].pc = "ready" => task'[u] = task[u]
      BY <2>1, <2>6 DEF MarkReady, Step
    <3>2. \A a \in Att : /\ row[a] = NoRow => row'[a] = NoRow
                         /\ row'[a].local => row[a].local \/ (a = task[t].att /\ row[a] # NoRow)
      BY <1>t, <2>6 DEF MarkReady, NoRow
    <3> QED
      BY <2>6, <3>1, <3>2 DEF MarkReady, Elsewhere, FileInv
  <2>7. CASE Finish(t)
    <3>1. \A u \in Task : task'[u].pc = "ready" => task'[u] = task[u]
      BY <1>t, <2>7 DEF Finish, NoTask
    <3> QED
      BY <2>7, <3>1, FilesApart DEF Finish, stored
  <2> QED
    BY <1>11, <2>2, <2>3, <2>4, <2>5, <2>6, <2>7 DEF Run
<1> QED
  BY <1>2, <1>3, <1>4, <1>5, <1>6, <1>7, <1>8, <1>9, <1>10, <1>11 DEF Next

\* The inductive invariant holds throughout.
THEOREM MediaIInv == Spec => []IInv
<1>1. Init => IInv
  BY InitTypeOK, InitBlobInv, InitFileInv DEF IInv
<1>2. IInv /\ [Next]_vars => IInv'
  BY NextTypeOK, NextBlobInv, NextFileInv DEF IInv
<1> QED
  BY <1>1, <1>2, PTL DEF Spec

\* A row that names a local file has it on disk, on either phone, through
\* kills, two downloads at once and a wipe.
THEOREM MediaRowHasItsFile == Spec => []RowHasItsFile
<1>1. IInv => RowHasItsFile
  BY DEF IInv, BlobInv, NoteInv, FileInv, RowHasItsFile
<1> QED
  BY <1>1, MediaIInv, PTL

\* A copy once fetched is not forgotten before the wipe, whatever is
\* delivered again and however many downloads run or fail.
THEOREM MediaCopyIsKept == Spec => CopyIsKept
<1> DEFINE Keeps == \A a \in Att : row[a].local => row'[a].local \/ wiped' # "no"
<1>1. IInv /\ [Next]_vars => [Keeps]_vars
  <2> SUFFICES ASSUME IInv, Next PROVE Keeps
    OBVIOUS
  <2>t. row \in [Att -> [state : {"none", "remote", "downloading", "failed", "ready"},
                        local : BOOLEAN]]
    BY DEF IInv, TypeOK
  <2>1. CASE UNCHANGED row
    BY <2>1
  <2>2. CASE ApplyDescriptors
    BY <2>t, <2>2 DEF ApplyDescriptors, NoRow
  <2>3. CASE WipeRows
    BY <2>3 DEF WipeRows
  <2>4. ASSUME NEW t \in Task, MarkDownloading(t) \/ MarkFailed(t) PROVE Keeps
    BY <2>t, <2>4 DEF MarkDownloading, MarkFailed, State, NoRow
  <2>5. ASSUME NEW t \in Task, MarkReady(t) PROVE Keeps
    BY <2>t, <2>5 DEF MarkReady, NoRow
  <2>6. ASSUME NEW t \in Task,
          Look(t) \/ Fetch(t) \/ WriteFile(t) \/ OpenAttachment(t) \/ Finish(t) \/ LoadFails(t)
        PROVE UNCHANGED row
    BY <2>6 DEF Look, Fetch, WriteFile, OpenAttachment, Finish, LoadFails, stored
  <2>7. ASSUME NEW a \in Att,
          \/ Pick(a) \/ RemoveMedia(a) \/ PutObject(a) \/ InsertMeta(a) \/ InsertFails(a)
          \/ UploadLost(a) \/ PrepareDone(a) \/ PrepareFails(a) \/ KeepFails(a)
          \/ AutoLoad(a) \/ TapLoad(a)
        PROVE UNCHANGED row
    BY <2>7 DEF Pick, RemoveMedia, PutObject, InsertMeta, InsertFails, UploadLost, PrepareDone,
         PrepareFails, KeepFails, AutoLoad, TapLoad, HandleOpen, stored
  <2>8. ASSUME NEW kind \in {"shared", "secret"}, Submit(kind) PROVE UNCHANGED row
    BY <2>8 DEF Submit, stored
  <2>9. CASE Reveal \/ Tick \/ PurgeBegin \/ PurgeEnd \/ OpenScreen \/ Leave \/ Crash \/ WipeFiles
    BY <2>1, <2>9 DEF Reveal, Tick, PurgeBegin, PurgeEnd, OpenScreen, Leave, Crash,
                     WipeFiles, stored
  <2> QED
    BY <2>1, <2>2, <2>3, <2>4, <2>5, <2>6, <2>7, <2>8, <2>9 DEF Next, Run
<1> QED
  BY <1>1, MediaIInv, PTL DEF Spec, CopyIsKept

=============================================================================

------------------------------- MODULE Media -------------------------------
(***************************************************************************)
(* A photo or a voice note from the phone that attaches it to the phone    *)
(* that looks at it: prepareAttachment (encrypt, upload, keep a copy),     *)
(* the blob store of the API (object bucket, metadata rows, collector),    *)
(* the descriptor on the note's operation, downloadAttachment and          *)
(* openAttachment under the detail screen, and the wipe of a sever.        *)
(*                                                                         *)
(* A blob has the name of its attachment: every pick is uploaded once,     *)
(* under an id the server draws.  The author's phone shows its own media   *)
(* from the copy it kept, so only the partner's screen is modelled.  Text, *)
(* edits and deletion of the note are in module Notes, and the channel     *)
(* that brings the operation, once or more, is in module Channel.          *)
(***************************************************************************)
EXTENDS Naturals, FiniteSets

CONSTANTS
  Att,      \* attachments picked for one note
  Photo,    \* those of mediaType image, which the screen loads by itself
  Task,     \* runs of handleOpenAttachment the partner's phone has room for
  Ttl,      \* DEFAULT_TTL_MS of a blob
  MaxClock, MaxFaults \* bounds: time, failures and kills

ASSUME MediaAssumption ==
  /\ IsFiniteSet(Att) /\ Photo \subseteq Att /\ Ttl \in Nat \ {0}
  /\ {MaxClock, MaxFaults} \subseteq Nat

VARIABLES
  clock,
  object,   \* SUBSET Att: objects in the bucket
  meta,     \* [Att -> Nat]: expires_at of the row in blobs, 0 without one
  due,      \* [Att -> Nat]: expiresAt of the blob, in the answer to its upload
  doomed,   \* SUBSET Att: rows a purge has listed and not yet deleted
  upload,   \* [Att -> STRING]: step at which prepareAttachment is
  staged,   \* [Att -> STRING]: status of the chip, none without one
  kept,     \* SUBSET Att: encrypted copies on the author's disk
  note,     \* STRING: none, secret, or sent once descriptors left the phone
  own,      \* SUBSET Att: the author's rows, all ready
  row,      \* [Att -> row or NoRow]: table attachment of the partner
  disk,     \* SUBSET Att: the partner's encrypted files
  plain,    \* SUBSET Att: the partner's decrypted files in the cache
  task,     \* [Task -> run]: handleOpenAttachment runs
  open,     \* BOOLEAN: the detail screen is mounted
  shown, tried, preview, \* its rows, autoTried and previews
  wiped,    \* STRING: how far wipeConnectionData got: no, rows, files, or killed
  cut,      \* history: SUBSET Att: a kill met their download
  faults

server  == <<object, meta, due, doomed>>
author  == <<upload, staged, kept, note, own>>
screen  == <<open, shown, tried, preview>>
stored  == <<row, disk, plain>>
vars == <<clock, server, author, stored, task, screen, wiped, cut, faults>>

NoRow == [state |-> "none", local |-> FALSE]
NoTask == [att |-> "none", pc |-> "idle", mine |-> FALSE]

Init ==
  /\ clock = 0 /\ object = {} /\ doomed = {}
  /\ meta = [a \in Att |-> 0] /\ due = [a \in Att |-> 0]
  /\ upload = [a \in Att |-> "none"] /\ staged = [a \in Att |-> "none"]
  /\ kept = {} /\ note = "none" /\ own = {}
  /\ row = [a \in Att |-> NoRow] /\ disk = {} /\ plain = {}
  /\ task = [t \in Task |-> NoTask]
  /\ open = FALSE /\ shown = [a \in Att |-> "none"] /\ tried = {} /\ preview = {}
  /\ wiped = "no" /\ cut = {} /\ faults = 0

CanFail == faults < MaxFaults /\ faults' = faults + 1

(***************************************************************************)
(* The author: prepareAttachment under stageAndPrepare of the compose      *)
(* screen, and the submit of the note.                                     *)
(***************************************************************************)
At(a, step) == upload[a] = step
Goes(a, step) == upload' = [upload EXCEPT ![a] = step]
Chip(a, status) ==
  staged' = [staged EXCEPT ![a] = IF @ = "none" THEN @ ELSE status]

\* A new note takes media, picked, taken or recorded, until it is saved.
Composing == note = "none"

\* The chip appears; the file is read, encrypted, and its upload requested.
Pick(a) ==
  /\ Composing /\ At(a, "none")
  /\ Goes(a, "put") /\ staged' = [staged EXCEPT ![a] = "preparing"]
  /\ UNCHANGED <<clock, server, kept, note, own, stored, task, screen, wiped, cut, faults>>

RemoveMedia(a) ==
  /\ Composing /\ staged[a] # "none"
  /\ staged' = [staged EXCEPT ![a] = "none"]
  /\ UNCHANGED <<clock, server, upload, kept, note, own, stored, task, screen, wiped, cut, faults>>

ExpiresAt == clock + Ttl

\* The route dates the blob when the request arrives, before it stores it.
\* S3BlobStore.insert: the object goes first ...
PutObject(a) ==
  /\ At(a, "put") /\ Goes(a, "insert")
  /\ object' = object \union {a} /\ due' = [due EXCEPT ![a] = ExpiresAt]
  /\ UNCHANGED <<clock, meta, doomed, staged, kept, note, own, stored, task, screen, wiped, cut, faults>>

\* ... then the metadata row, at any time after.
InsertMeta(a) ==
  /\ At(a, "insert") /\ Goes(a, "answered")
  /\ meta' = [meta EXCEPT ![a] = due[a]]
  /\ UNCHANGED <<clock, object, due, doomed, staged, kept, note, own, stored, task, screen, wiped, cut, faults>>

\* Mutant: the route answers 200 after the roll-back.
InsertFailsQuietly(a) ==
  /\ At(a, "insert") /\ Goes(a, "answered") /\ CanFail
  /\ object' = object \ {a}
  /\ UNCHANGED <<clock, meta, due, doomed, staged, kept, note, own, stored, task, screen, wiped, cut>>

\* The insert throws, with or without its row in place; the object is
\* deleted, best effort, and the error is thrown on to the phone.
InsertFails(a) ==
  /\ At(a, "insert") /\ Goes(a, "failed") /\ CanFail
  /\ \E done \in BOOLEAN : meta' = [meta EXCEPT ![a] = IF done THEN due[a] ELSE @]
  /\ object' \in {object, object \ {a}}
  /\ UNCHANGED <<clock, due, doomed, staged, kept, note, own, stored, task, screen, wiped, cut>>

\* The request never arrives, the process dies between the two writes, or
\* the answer is lost: uploadBlob throws, whatever the server has done.
UploadLost(a) ==
  /\ upload[a] \in {"put", "insert", "answered"} /\ Goes(a, "failed") /\ CanFail
  /\ UNCHANGED <<clock, server, staged, kept, note, own, stored, task, screen, wiped, cut>>

\* uploadBlob returns and writeEncryptedFile keeps the author's copy.
PrepareDone(a) ==
  /\ At(a, "answered") /\ Goes(a, "done")
  /\ kept' = kept \union {a} /\ Chip(a, "ready")
  /\ UNCHANGED <<clock, server, note, own, stored, task, screen, wiped, cut, faults>>

PrepareFails(a) ==
  /\ At(a, "failed") /\ Goes(a, "done") /\ Chip(a, "error")
  /\ UNCHANGED <<clock, server, kept, note, own, stored, task, screen, wiped, cut, faults>>

\* writeEncryptedFile throws: the blob stays on the server.
KeepFails(a) ==
  /\ At(a, "answered") /\ Goes(a, "failed") /\ CanFail
  /\ UNCHANGED <<clock, server, staged, kept, note, own, stored, task, screen, wiped, cut>>

Ready == {a \in Att : staged[a] = "ready"}

\* canSubmit, the filter of onSubmit, and the transaction of
\* writeSharedNote or writeSecretNote.  Only a shared note sends descriptors.
Submit(kind) ==
  /\ note = "none" /\ Ready # {} /\ \A a \in Att : staged[a] # "preparing"
  /\ own' = Ready /\ note' = kind
  /\ staged' = [a \in Att |-> "none"]
  /\ UNCHANGED <<clock, server, upload, kept, stored, task, screen, wiped, cut, faults>>

\* revealSecretNote, or verifyUnlock: the descriptors of the stored rows.
Reveal ==
  /\ note = "secret" /\ note' = "sent"
  /\ UNCHANGED <<clock, server, upload, staged, kept, own, stored, task, screen, wiped, cut, faults>>

(***************************************************************************)
(* Time, and the collector of the API.                                     *)
(***************************************************************************)
Tick ==
  /\ clock < MaxClock /\ clock' = clock + 1
  /\ UNCHANGED <<server, author, stored, task, screen, wiped, cut, faults>>

Expired(a) == meta[a] <= clock

\* purgeExpired: listExpired, then the objects, best effort, then the rows.
PurgeBegin ==
  /\ doomed = {}
  /\ doomed' = {a \in Att : meta[a] > 0 /\ Expired(a)} /\ doomed' # {}
  /\ object' \in {object, object \ doomed'}
  /\ UNCHANGED <<clock, meta, due, author, stored, task, screen, wiped, cut, faults>>

PurgeEnd ==
  /\ doomed # {} /\ doomed' = {}
  /\ meta' = [a \in Att |-> IF a \in doomed THEN 0 ELSE meta[a]]
  /\ UNCHANGED <<clock, object, due, author, stored, task, screen, wiped, cut, faults>>

\* S3BlobStore.get: the row, unexpired, and then its object, or 404.
Served(a) == meta[a] > 0 /\ ~ Expired(a) /\ a \in object

(***************************************************************************)
(* The partner's phone.                                                    *)
(***************************************************************************)
\* Mutant: INSERT OR REPLACE.
ApplyDescriptorsReplaces ==
  /\ note \in {"shared", "sent"} /\ wiped = "no"
  /\ row' = [a \in Att |-> IF a \in own
                            THEN [state |-> "remote", local |-> FALSE] ELSE row[a]]
  /\ UNCHANGED <<clock, server, author, disk, plain, task, screen, wiped, cut, faults>>

\* The projector inserts 'remote' rows, OR IGNORE, each time it is delivered.
ApplyDescriptors ==
  /\ note \in {"shared", "sent"} /\ wiped = "no"
  /\ row' = [a \in Att |-> IF a \in own /\ row[a] = NoRow
                            THEN [state |-> "remote", local |-> FALSE] ELSE row[a]]
  /\ UNCHANGED <<clock, server, author, disk, plain, task, screen, wiped, cut, faults>>

Listing == [a \in Att |-> row[a].state]

\* The screen mounts and lists the attachments of the note.
OpenScreen ==
  /\ ~ open /\ open' = TRUE /\ shown' = Listing
  /\ UNCHANGED <<clock, server, author, stored, task, tried, preview, wiped, cut, faults>>

\* It unmounts: downloads run on, what they set goes nowhere.
Leave ==
  /\ open /\ open' = FALSE
  /\ shown' = [a \in Att |-> "none"] /\ tried' = {} /\ preview' = {}
  /\ task' = [t \in Task |-> [att |-> task[t].att, pc |-> task[t].pc, mine |-> FALSE]]
  /\ UNCHANGED <<clock, server, author, stored, wiped, cut, faults>>

\* handleOpenAttachment up to its first await.
HandleOpen(a) ==
  /\ \E t \in Task :
       /\ task[t] = NoTask
       /\ task' = [task EXCEPT ![t] = [att |-> a, pc |-> "look", mine |-> TRUE]]
  /\ shown' = [shown EXCEPT ![a] = "downloading"]
  /\ UNCHANGED <<clock, server, author, stored, open, preview, wiped, cut, faults>>

\* The effect that loads photos once per mount.
AutoLoad(a) ==
  /\ open /\ a \in Photo \ (preview \union tried) /\ shown[a] \in {"ready", "remote"}
  /\ tried' = tried \union {a} /\ HandleOpen(a)

\* "Load photo", "Load voice note" and "Retry"; downloading shows a spinner.
TapLoad(a) ==
  /\ open /\ a \notin preview /\ shown[a] \notin {"none", "downloading"}
  /\ HandleOpen(a) /\ UNCHANGED tried

Step(t, from, to) == task[t].pc = from /\ task' = [task EXCEPT ![t].pc = to]
State(a, s) == row' = [row EXCEPT ![a] = IF @ = NoRow THEN NoRow ELSE [state |-> s, local |-> @.local]]
Elsewhere == UNCHANGED <<clock, server, author, screen, wiped, cut>>

\* downloadAttachment reads the row: no row throws, a ready one is done.
Look(t) ==
  LET r == row[task[t].att] IN
  /\ Step(t, "look", IF r = NoRow THEN "end"
                     ELSE IF r.state = "ready" /\ r.local THEN "open" ELSE "mark")
  /\ UNCHANGED <<stored, faults>> /\ Elsewhere

MarkDownloading(t) ==
  /\ Step(t, "mark", "fetch") /\ State(task[t].att, "downloading")
  /\ UNCHANGED <<disk, plain, faults>> /\ Elsewhere

\* Mutant: the row is marked before the file is written.
FetchMarksReady(t) ==
  /\ Step(t, "fetch", IF Served(task[t].att) THEN "write" ELSE "fail")
  /\ row' = [row EXCEPT ![task[t].att] =
               IF @ = NoRow \/ ~ Served(task[t].att) THEN @ ELSE [state |-> "ready", local |-> TRUE]]
  /\ UNCHANGED <<disk, plain, faults>> /\ Elsewhere

Fetch(t) ==
  /\ Step(t, "fetch", IF Served(task[t].att) THEN "write" ELSE "fail")
  /\ UNCHANGED <<stored, faults>> /\ Elsewhere

\* The request or the write of the file throws.
LoadFails(t) ==
  /\ \E from \in {"fetch", "write"} : Step(t, from, "fail")
  /\ CanFail /\ UNCHANGED stored /\ Elsewhere

WriteFile(t) ==
  /\ Step(t, "write", "ready") /\ disk' = disk \union {task[t].att}
  /\ UNCHANGED <<row, plain, faults>> /\ Elsewhere

MarkReady(t) ==
  /\ Step(t, "ready", "open")
  /\ row' = [row EXCEPT ![task[t].att] =
               IF @ = NoRow THEN NoRow ELSE [state |-> "ready", local |-> TRUE]]
  /\ UNCHANGED <<disk, plain, faults>> /\ Elsewhere

\* Mutant: a failed download is not marked.
MarkFailedForgets(t) ==
  /\ Step(t, "fail", "end")
  /\ UNCHANGED <<stored, faults>> /\ Elsewhere

MarkFailed(t) ==
  /\ Step(t, "fail", "end") /\ State(task[t].att, "failed")
  /\ UNCHANGED <<disk, plain, faults>> /\ Elsewhere

\* openAttachment: the row, its file, and the decrypted file in the cache.
OpenAttachment(t) ==
  LET a == task[t].att  r == row[a]  opens == r.local /\ a \in disk IN
  /\ Step(t, "open", IF opens THEN "show" ELSE "end")
  /\ plain' = IF opens THEN plain \union {a} ELSE plain
  /\ UNCHANGED <<row, disk, faults>> /\ Elsewhere

\* setPreviews and the listing of the finally block, if still mounted.
Finish(t) ==
  /\ task[t].pc \in {"show", "end"} /\ task' = [task EXCEPT ![t] = NoTask]
  /\ preview' = IF task[t].pc = "show" /\ task[t].mine
                  THEN preview \union {task[t].att} ELSE preview
  /\ shown' = IF task[t].mine THEN Listing ELSE shown
  /\ UNCHANGED <<clock, server, author, stored, open, tried, wiped, cut, faults>>

Run(t) ==
  \/ Look(t) \/ MarkDownloading(t) \/ Fetch(t) \/ WriteFile(t)
  \/ MarkReady(t) \/ MarkFailed(t) \/ OpenAttachment(t) \/ Finish(t)

\* The app is killed: the screen and its downloads are gone.
Crash ==
  /\ CanFail /\ open' = FALSE
  /\ shown' = [a \in Att |-> "none"] /\ tried' = {} /\ preview' = {}
  /\ cut' = cut \union {a \in Att : row[a].state = "downloading"}
  /\ task' = [t \in Task |-> NoTask]
  /\ wiped' = IF wiped = "rows" THEN "killed" ELSE wiped
  /\ UNCHANGED <<clock, server, author, stored>>

\* wipeConnectionData: the rows in a transaction, then both directories,
\* best effort.  Nothing takes up a wipe that a kill cut short.
WipeRows ==
  /\ wiped = "no" /\ note \in {"shared", "sent"} /\ wiped' = "rows"
  /\ row' = [a \in Att |-> NoRow]
  /\ UNCHANGED <<clock, server, author, disk, plain, task, screen, cut, faults>>

WipeFiles ==
  /\ wiped = "rows" /\ wiped' = "files"
  /\ disk' = {} /\ plain' = {}
  /\ UNCHANGED <<clock, server, author, row, task, screen, cut, faults>>

Next ==
  \/ \E a \in Att :
       \/ Pick(a) \/ RemoveMedia(a) \/ PutObject(a) \/ InsertMeta(a) \/ InsertFails(a)
       \/ UploadLost(a) \/ PrepareDone(a) \/ PrepareFails(a) \/ KeepFails(a)
       \/ AutoLoad(a) \/ TapLoad(a)
  \/ \E kind \in {"shared", "secret"} : Submit(kind)
  \/ Reveal \/ Tick \/ PurgeBegin \/ PurgeEnd
  \/ ApplyDescriptors \/ OpenScreen \/ Leave \/ Crash \/ WipeRows \/ WipeFiles
  \/ \E t \in Task : Run(t) \/ LoadFails(t)

Spec == Init /\ [][Next]_vars

\* A download runs on, the operation is delivered, and the partner comes
\* back to the note, taps what can be tapped and does not stay forever.
FairSpec ==
  /\ Spec /\ WF_vars(ApplyDescriptors) /\ WF_vars(OpenScreen) /\ WF_vars(Leave)
  /\ \A t \in Task : WF_vars(Run(t))
  /\ \A a \in Att : SF_vars(AutoLoad(a)) /\ SF_vars(TapLoad(a))

(***************************************************************************)
(* Properties.                                                             *)
(***************************************************************************)
\* Every variable has its type, and a screen that is gone shows nothing and
\* hears of no download.
TypeOK ==
  /\ clock \in 0..MaxClock /\ faults \in 0..MaxFaults
  /\ object \subseteq Att /\ doomed \subseteq Att /\ kept \subseteq Att /\ own \subseteq Att
  /\ disk \subseteq Att /\ plain \subseteq Att /\ cut \subseteq Att
  /\ tried \subseteq Att /\ preview \subseteq Att
  /\ meta \in [Att -> 0..(MaxClock + Ttl)] /\ due \in [Att -> 0..(MaxClock + Ttl)]
  /\ upload \in [Att -> {"none", "put", "insert", "answered", "failed", "done"}]
  /\ staged \in [Att -> {"none", "preparing", "ready", "error"}]
  /\ note \in {"none", "shared", "secret", "sent"}
  /\ row \in [Att -> [state : {"none", "remote", "downloading", "failed", "ready"}, local : BOOLEAN]]
  /\ task \in [Task -> {NoTask} \union
       [att : Att, mine : BOOLEAN,
        pc : {"look", "mark", "fetch", "write", "ready", "fail", "open", "show", "end"}]]
  /\ shown \in [Att -> {"none", "remote", "downloading", "failed", "ready"}]
  /\ wiped \in {"no", "rows", "files", "killed"}
  /\ open \/ ( /\ \A a \in Att : shown[a] = "none"
               /\ preview = {} /\ \A t \in Task : ~ task[t].mine )

\* A row that names a local file has it on disk, on either phone and through
\* kills, failed writes, two downloads at once and a wipe: the state is
\* written after the file, and the wipe drops the rows before the files.
RowHasItsFile ==
  /\ own \subseteq kept
  /\ \A a \in Att : row[a].local => a \in disk

\* An attachment that made it into a note can be fetched until its blob
\* expires, however the upload went: a failed or rolled-back upload never
\* becomes a descriptor, and the collector only touches expired blobs.
FetchableUntilExpiry == \A a \in own : due[a] <= clock \/ Served(a)

\* A copy once fetched is not forgotten, whatever is delivered again and
\* however many downloads run, until the connection is wiped.
CopyIsKept == [][\A a \in Att : row[a].local => row'[a].local \/ wiped' # "no"]_vars

\* An attachment that arrives is opened in the end by a partner who keeps
\* coming back, unless its blob expires, the connection is wiped, or the app
\* was killed in the middle of its download.
OpenedInTheEnd ==
  \A a \in Att : row[a] # NoRow ~> a \in plain \union cut \/ due[a] <= clock \/ wiped # "no"

(***************************************************************************)
(* What the code and its comments say and TLC refutes (see the README).    *)
(***************************************************************************)
\* types.ts:11, "'downloading' a fetch is in flight".  After a kill nothing
\* runs, the screen shows a spinner in place of a button, and no code moves
\* the row on: the attachment cannot be opened on this phone any more.
DownloadingMeansRunning ==
  \A a \in Att : row[a].state = "downloading" => \E t \in Task : task[t].att = a

\* pipeline.ts:81, a 'ready' row short-circuits.  A second download that was
\* started before the first one finished marks the row failed.
ReadyStaysReady == [][\A a \in Att : row[a].state = "ready" => row'[a].state \in {"ready", "none"}]_vars

\* routes/blobs.ts:15, the TTL "matches the relay".  It runs from the upload,
\* and the descriptors of a secret leave with its reveal, at any time later.
SentWhileFetchable ==
  [][note' # note /\ note' \in {"shared", "sent"} => \A a \in own' : Served(a)]_vars

\* blobs-s3.ts:36-37, no "metadata row pointing at nothing".  An insert that
\* commits and then throws is rolled back in the bucket only.
MetaHasObject == \A a \in Att : meta[a] > clock /\ upload[a] # "insert" => a \in object

\* wipe.ts:44, the wipe takes "attachment files on disk".  A kill after the
\* rows leaves them, and a download that runs on writes them again.
WipeTakesFiles == wiped \in {"files", "killed"} /\ (\A t \in Task : task[t] = NoTask) => plain = {} /\ disk = {}

=============================================================================

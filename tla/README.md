# Secret Notebook in TLA+

Secret Notebook is an app for two paired phones. They share one *connection*:
whatever one partner does (a role, a note, an unlock attempt, a signal, the end
of the connection) is written to the local database, put into an outbox as a
CRDT operation, sealed with a ratchet, left in a mailbox on a relay that cannot
read it, and applied by the other phone. No server orders anything: two phones
that are rarely online together must still agree. This directory models that
path, the features that rest on it and what a phone does before and beside it
(pairing, boot, the app lock, attachments), checks them with TLC on small
instances, and proves with TLAPS, for instances of any size, what the runs check
of safety: the channel's key discipline and its implementation of an abstract
custody, and what the connection row, pairing, boot, the app lock, attachments,
the safe word, the unlock loop and the notes promise. Whatever needs fairness is
model-checked only.

Paths below are relative to `src/`; `features/` stands for
`apps/mobile/src/features/`.

## 1. The system

| component | state | operations | talks to |
| --- | --- | --- | --- |
| Ratchet (`packages/connection-protocol/src/ratchet`) | per direction a chain key and a counter; a cache of skipped keys, at most 1000 | `ratchetEncrypt`, `ratchetDecrypt`, snapshot and restore | sync engine |
| Sync engine (`features/connection-channel`) | `sync_outbox`, `sync_seen`, `connection_ratchet` | `enqueue`, `flush`, `pull` | relay over HTTP; projector, inside the transaction of `pull` |
| Sync ticker (`ticker.ts`) | an `inflight` flag | one cycle: flush, pull, reconcile rewards, finalize a due sever | sync engine; the screens call `flush` and `pull` beside it |
| Relay (`apps/api/src/routes/relay.ts`, `storage/relay-drizzle.ts`, `cron/gc.ts`) | `relay_inbox`: opaque envelopes under a recipient id that changes daily | POST, GET (newest first), DELETE, purge after 30 days | both phones |
| CRDT projector (`projector.ts`) | the tables of the features | `applyCrdtOp`, one case per operation | everything below |
| Connection roles and sever (`features/connection`) | the two roles, `sever_at`, `sever_initiated_by` | set a role; schedule, undo, finalize a sever; wipe | sync engine, projector, ticker, banner |
| Saved posts and prompt preferences (`saved-post-store.ts`, `preferences-store.ts`) | `saved_post`, `prompt_preference` | save, remove, save preferences, broadcast | sync engine |
| Secret unlock (`features/secret-unlock`) | `secret_unlock`, its reflections, the reroll balance | start, reroll, submit, cancel, undo, reject, verify, disclose, reflect | ledger, notes, sync engine |
| Couple Points (`features/ledger`) | `ledger_entry` | award, reconcile | sync engine |
| Notes (`features/notes`) | `note`, `pending_note` | draft, write, share, announce, reveal, edit, delete, publish | attachments, posts API |
| Safe word (`features/safeword`) | the term and its proposal, the triggers | propose, confirm, withdraw, clear, fire, acknowledge | sync engine, alert |
| Pairing (`features/pairing`) | the state machine of each phone, the rendezvous slot, a pending wait | hello, poll, confirm, cancel, persist | rendezvous API, QR code, boot |
| Boot and connection load (`features/boot`, `build-engine.ts`) | keychain item, database key, migrations | `runBoot`, load the connection, build an engine | keychain, database, app lock |
| App lock and lockout (`features/app-lock`, `features/safeword/background-lock-policy.ts`, `lockout.ts`) | session, grace, the background tracker; failures and `lockedUntil` | unlock, lock, leave, return; verify a word | RootStack |
| Attachments (`features/attachments`, `apps/api/src/routes/blobs.ts`) | `attachment`, files; objects and `blobs` | prepare, upload, download, open, wipe; GET, purge | notes, blob store |
| Database access (`apps/mobile/src/db/client.ts`) | one SQLite connection per process | `exec`, `transaction` | every store |
| Posts API, purchases, screens, API wiring | see `PROJECT.json` | | |

### What is hard

* **Await points.** Every statement of the database and every request is an
  `await`. The ticker is guarded by `inflight`, but screens call the same engine
  without that guard, and store functions read rows before the transaction
  that acts on them.
* **The transport is at-least-once and unordered.** A POST can fail before or
  after the relay stored it, a failed row goes behind later ones, rows of one
  second leave in the order of random ids, and a pull applies an inbox newest
  first. `sync_seen` recognises an *envelope*; an operation that was sealed
  twice is two envelopes.
* **Keys are used once.** Each seal consumes a key whether or not the
  envelope arrives; the receiver steps over missing ones into a bounded cache;
  a crash must not let a counter be used twice.
* **Two clocks of forgetting.** A pull looks back two days, the relay keeps
  thirty; a blob is kept thirty days from its upload, not from its mention.
* **Both partners write.** Rows converge only if the guarded UPDATEs of the
  projector cope with whatever order the operations come in.
* **A screen is a snapshot.** It offers what it read some seconds ago, and the
  operating system pauses, resumes and kills the app between any two awaits.
* **Several stores, no transaction over them.** Keychain and database, row
  and file, object and metadata row, connection row and ratchet are written one
  after the other; a kill falls in between.

### What makes each part correct

* *Channel*: no key seals two envelopes; no key that is still needed is lost and
  no key that was used is kept; an operation is in custody until it is applied;
  an envelope is applied at most once; below the bound of the cache nothing
  wedges; eventually everything is applied.
* *Connection row and what goes with it*: both phones end with the same roles,
  pending sever, preferences and bookmarks; only its initiator undoes a sever.
* *Unlock loop*: one attempt at a time and one start a day, no secret drawn
  twice but by verifications that cross, the two rows of an attempt agree in the
  end, somebody is always asked for a step that can be taken, unless the Author
  has emptied the pool, each award is paid once and reaches both ledgers.
* *Notes*: nothing of a secret leaves before it is revealed; a deletion reaches
  the partner; texts converge; a published note has its text.
* *Safe word*: both hold the same term, and neither one the other had no part
  in; a signal is acknowledged by the partner and, in the end, always.
* *Pairing*: both phones end on one root, an engine has its ratchet.
* *Launch*: a database always has its key; a migration is whole; an absence puts
  the gate before the notes; guessing is slowed down.
* *Media*: what a row names is on disk; what a note names can be fetched until it
  expires; what arrived is opened in the end.

## 2. Modules

| module | models | how it corresponds to the code |
| --- | --- | --- |
| `Ratchet` | the two chains and the cache | a chain key is the root hashed `counter` times, so the counter stands for it; `Decryptable` and `Decrypted` are the branches of `ratchetDecrypt` |
| `Channel` | engine, ticker and relay, step by step between awaits | a *task* is one caller of `flush()` or `pull()` with a program counter; `rat`, `outbox`, `waiting`, `seen` are the tables; `snap` is the ratchet object a call holds in memory |
| `Custody` | what the channel promises the features | an operation is accepted, then delivered; never lost, never invented |
| `ChannelProofs` | proofs about `Channel`, and its refinement of `Custody` | section 5 |
| `Wire` | the channel without keys and days | the channel as the features see it: what overtakes what, what comes twice, what is listed newest first |
| `ConnectionRow` (over `Wire`) | roles, sever, preferences, bookmarks | one action per function of `role-store.ts`, `sever.ts`, `preferences-store.ts` and `saved-post-store.ts`, one per case of the projector; `SavePreferences` and `BroadcastPreferences` are the two writes that share no transaction |
| `SecretUnlock` (over `Wire`) | the unlock loop and its points | one action per function of `store.ts`, one per case of the projector; `startUnlock` (`calls`) and `verifyUnlock` (`drawing`: what it picked from the pool) are split at their transactions, the award is a step of its own; `DeleteNote` and `RevealSecretNote` are the Author taking a secret out of the pool by hand; `NeedsYou` is what the list screen asks of a user |
| `SafeWord` (over `Wire`) | term, proposal, triggers, alert | a store call is a read (`ProposeTerm`, `AcceptTerm`, `WithdrawProposal` and `FireTrigger` put it into `calls`) and a transaction (`...Commit`); `screen` is what the route last read |
| `Notes` (over `Wire`) | notes, drafts and the feed | as `SafeWord`: `calls` holds what a call read and decided; `feed` is the table of posts by text |
| `Pairing` | two orchestrators, the rendezvous, persistence, what a boot makes of it | `phase` is the state of `pairingReducer` and then the await of `persistConnection`; `slot` is the table of the API |
| `Launch` | one phone: boot, migrations, gate, background policy, lockout | `boot` is the await of `runBoot`; `tracker` is the closure of the policy; `screen` is the last render of `RootStack` |
| `Media` | an attachment and its blob | `upload` is the await of `prepareAttachment`, `task` a run of `handleOpenAttachment` with its program counter |
| `MediaProofs`, `PhoneProofs` | proofs about `Media`; about `Launch` and `Pairing` (whose `Init`, `Next`, `vars` carry the prefix `Pair`, so that one module can extend both) | section 5 |
| `WireProofs` | lemmas: what each step of `Wire` does to `Way(s)`, the operations of a phone that are on their way | section 5 |
| `ConnectionRowProofs`, `SafeWordProofs`, `SecretUnlockProofs`, `NotesProofs` (over `WireProofs`) | proofs about these modules | section 5 |
| `MC...` | values for the constants | `MCTicker` extends `ChannelProofs`: TLC evaluates `OneTaskPerSide` for the callers of the ticker's runs and checks the inductive invariant |

`Channel` and `Wire` describe the same code at two grains. `Channel` answers
whether bytes and keys survive; `Wire` keeps only what a feature can notice. In
`Wire`, `outbox` is a sequence because the order in which rows leave matters
there, and `Take` deletes and applies in one step because `Channel` shows that
an envelope is applied at most once. `Pairing` ends where `Channel` begins, with
an engine on a root; `Launch` ends with the screens; `Media` takes over when a
descriptor leaves with an operation of `Notes`.

Definitions whose comment begins with *Mutant* are plausible bugs next to the
operator they would replace. They are used by no specification; each shows that
the property it is paired with in `PROJECT.json` can fail.

### Abstractions

* Messages carry a counter and an operation. Ciphers, hashes and signatures are
  ideal; a blinded recipient id is a side and a day; a root key is the set of
  the two hellos it is derived from; a text is the number of its writing.
* Days are UTC days on one clock, and an envelope is in the inbox of the day on
  which the relay stores it; a POST that straddles midnight counts for the later
  day.
* A transaction is one step. `db/client.ts` runs all callers on one connection
  without a lock, so a statement of another caller can fall between BEGIN and
  COMMIT; see sections 7 and 8. A file write is atomic.
* The pages of one GET listing are taken together. A row that arrives between
  two pages is picked up by the next pull.
* In `Channel` a due row leaves in any order, which includes the code's order by
  `next_attempt_at` and random id. The times of the back-off are left out: a row
  is waiting or due.
* In `Wire` an operation is at the head of the outbox, anywhere in front of at
  most `MaxOvertake` rows queued in its second, or back behind the rows that
  overtook it when its POST failed.
* `rerollUnlock` is one step (and `RerollCutShort` the crash after the first of
  its writes): the only screen that calls it shares one `busy` flag between all
  operations of the attempt (`SecretUnlockDetailRoute.tsx:193-208`).
  `startUnlock` is called from another screen and is split.
* In `ConnectionRow` both phones read one clock. In `SecretUnlock` a day is a
  number and `created_at` may fall on any day between the guards and the INSERT.
* `SecretUnlock` starts with all secrets announced and none revealed; those written
  later are left out, since they only add to the pool. Deleting and revealing a
  note by hand are one step each here; the windows inside them are the
  subject of `Notes`. `CreateAttempt`, `DeleteNote` and `RevealSecretNote` record in
  `starved` the attempts that are left without a secret.
* In `Pairing` a kill can fall between any two writes of `onPaired`; an SQL
  statement that fails there is left out. It stops the same sequence at the
  same place, but with the screen alive.
* `Pairing` has one code, the one the partners agreed on; keys never collide.
* In `Launch` time passes only where a comparison can tell; migrations are
  numbered statements. In `Media` only the partner's screen is modelled: the
  author looks at the copy kept at the upload.
* History variables (`newest`, `reordered`, `crossed`, `untidy`, `canceledOnce`,
  `cut`, `starved`, `tied`, `writ`, `stamps`, `proposed`, `accepted`, `third`, `left`, `smooth`)
  are read by properties and by no guard.

## 3. Runs

Distinct states and times are those of two workers on a laptop.

| run | question | bounds | result |
| --- | --- | --- | --- |
| `ticker_safety` | keys, custody, at-most-once, refinement of `Custody`, inductive invariant, under crashes, failed requests, lost answers and rollbacks | 2 operations of one partner and 1 of the other, 2 faults, cache of 2 | holds, 0.8 M states, 80 s |
| `ticker_days` | is everything applied, across midnights and the collector, while the look-back reaches every day of a POST? | 2 operations, 3 days, look-back 1, TTL 1, 1 fault | holds, 0.33 M, 75 s |
| `overlap` | two unguarded callers on one phone, as a screen is beside the ticker: does anything vanish from the queue and the relay before it is applied? | 3 operations, 3 tasks | holds, 1.3 M, 75 s |
| `key_reuse` | the same: does every key seal one operation? | as above | **violated** |
| `settle` | do roles and the pending sever converge when order is kept (and, for the sever, nothing crosses)? do preferences and bookmarks in any order? | 2 operations each, 2 roles, window 1, 2 sets of categories, 1 post, 2 taps, 1 fault, 3 instants; one concern per behaviour | holds, 3.0 M, 105 s |
| `unlock_days` | one attempt at a time, one start a day; is a secret drawn twice only by verifications that crossed; is somebody asked for a step that can be taken, deletions and reveals by hand included? | 2 attempts, 1 secret, 2 days, 2 overlapping starts, 2 overlapping verifications, 5 operations of the Unlocker and 2 of the Author, 1 taken out by hand, overtake 1 | holds, 3.5 M, 165 s |
| `unlock_paid` | do reflections and points converge in any order; do the rows of an attempt agree when order is kept; is every verified attempt paid on both phones? | 1 attempt, 2 prompts, 3 operations of the Unlocker and 2 of the Author, 1 fault | holds, 0.22 M, 110 s |
| `agree` | do both hold the same term, never one alone; does every signal end acknowledged by the partner? | 2 words, 2 calls a phone, 3 term operations, 2 signals, overtake 1 | holds, 0.73 M, 45 s |
| `life` | does a secret stay on the phone, a deletion arrive, do texts converge, when edits, reveals, publications and deletions overlap? | 1 note, 3 texts, 2 seconds, 2 calls a phone | holds, 2.0 M, 60 s |
| `retry` | do both phones end on one root through retries, late hellos, cancels and kills at any await? do they pair at all? | 2 attempts each, 2 faults | holds, 0.28 M, 15 s |
| `gate` | does a database keep its key; does an absence lock, a wrong word cost time, a user get in? | threshold 1, grace 2, session 3, lockout 1 after 2 failures, 2 migrations of 2 and 1 statements, 5 instants, 4 guesses (two at once), 2 faults | holds, 0.79 M, 150 s |
| `fetch` | is what a row names on disk, what a note names fetchable; is it opened in the end? | 1 photo, 2 downloads at once, TTL 1, 2 instants, 2 faults | holds, 0.27 M, 45 s |

Why the bounds are enough.

* *Channel*: with a cache of two keys, two operations one way and two faults, the
  sender can burn two keys, so the receiver meets a gap that fits, one that fills
  the cache, and one that is refused because the newest envelope is listed first;
  the operation the other way makes `saveRatchet`, which writes both directions
  at once, overwrite something. Three days cover a listing that is entirely
  behind the look-back, and a purge while the receiver is in the middle of one.
* *Rows*: two operations per partner are the least that can be reordered, and
  they can cross those of the other; a fault adds the duplicate and the overtaking
  retry; more operations repeat these pairs. A behaviour of `settle` issues
  operations of one concern (roles on both phones, severs on both, or
  preferences and bookmarks on one): operations of different concerns meet in no
  column, and the wipe, which touches all of them, belongs to the sever.
* *Loop*: five operations of the Unlocker are a start and a submission, a cancel that
  comes late, and a second start and submission: with two of the Author, the least in
  which two verifications cross and draw one secret (`NeverDrawnTwice` is violated
  under these bounds, so the case that `DrawnOnce` excepts does occur). One secret
  is the pool that runs out. `MaxTokens` is 6 in the code; in `unlock_days`, where
  nobody re-rolls (`Redrawn` is empty), it is 0, so that states do not differ in tokens
  nobody spends. Re-rolls, and one cut short, happen in `unlock_paid`, with a rejection
  and a second submission. Awards of the reconcile pass are not counted against
  `MaxOps`, which limits what users do, but against `MaxAwards`. Two secrets, two prompts with
  re-rolls and awards in two days, with four operations of the Unlocker, one
  verification at a time and nothing overtaken, were run outside the list, with the
  same result.
* *Safe word*: two proposals with a withdrawal or an acceptance of each are the
  least that cross; two signals are what hides one alert behind another.
* *Notes*: rows of different notes meet only in the feed and in a draft; three texts are
  the original and one edit of each partner; two calls a phone are what overlaps. A
  fault with one call a phone, and an overtaking row with one call, were run
  outside the list, with the same result.
* *Pairing*: the second attempt meets the hello of the first; two faults are a
  failed request on one phone and a kill on the other.
* *Launch*: the three times keep their order (threshold < grace < session), and
  five instants pass each; one migration has two statements, so a kill can fall
  between them; four guesses are two past the bound, and two can
  be in flight at once.
* *Media*: two runs are what a tap beside the automatic load produces; the TTL
  passes once.

Further invariants are written down and in no list, because one of those in a
list says more or because they follow from the way the model is built; they hold
under the constants of the module's run, and all are proved: `TypeOK` of every
module (in a list for `Channel` only), `Channel!SavedBeforeSent`,
`SafeWord!SomeAlertUp`, `Launch!LockedMeansScan` and `Launch!SchemaWhole`.

`key_reuse` looks for a counterexample and has the smallest bounds that show it.

Deadlock is checked in the runs of `Channel`, where the ticker always has a next
step. Elsewhere a behaviour ends when the bounded users have nothing left to
do, so it is not.

Symmetry is used for operations of one author, callers of one phone,
attempts, notes and prompts, where a run checks no liveness.

## 4. Fairness

* `Channel`: weak fairness of each caller, because `useSyncTicker` runs
  `runSyncCycle` on an interval and clears `inflight` in a `finally`, so a cycle
  ends and another begins, and of `RetryDue`, because a back-off is a finite
  time. Faults are bounded and get no fairness, which stands for an eventually
  reliable network. Nothing is assumed of `Midnight` or `PurgeExpired`.
* `SecretUnlock`: weak fairness of the cycle's parts (flush and list, apply) and of
  the awards, because
  `reconcileUnlockRewards` runs in every cycle; strong fairness of a successful
  POST, because a cycle whose other steps keep happening flushes
  again and again whenever the outbox has a due row.
* `SafeWord`: weak fairness of the cycle's parts, and of acknowledging an alert
  that is up: it covers every screen (`SafeWordAlert.tsx`) and has one button.
* `Pairing`: weak fairness of a POST on its way and of its INSERT (the request
  ends), of `Run` (the poll repeats on a timer, awaits return, a user confirms a
  code that matches), and of the start of the first attempt.
* `Launch`: weak fairness of the awaits of boot, of rendering, of the answer to a
  prompt, of a user who holds still for a scan, comes back to the app and retries
  a failed boot; strong fairness of tapping *Unlock*, because leaving the
  app takes the button away again and again.
* `Media`: weak fairness of delivering the operation (`Channel`'s
  `AppliedInReach`), of each download under way, of opening the note and of
  leaving it; strong fairness of loading what can be loaded, because a partner
  who keeps coming back sees the button again and again.

## 5. Proofs

Each theorem holds for every value of the constants that the named assumption
of its module admits (these type the constants; `LaunchAssumption` also keeps the
order of the durations of the code), so for any number of operations, callers,
attempts, notes, words, days and faults. *Under* names a further hypothesis.

| theorem | statement | under |
| --- | --- | --- |
| `ChannelTypeOK` | type correctness | |
| `ChannelOrigins` | nothing is sealed, listed or applied that its author did not issue | |
| `ChannelNothingVanishes` | whatever calls overlap, an operation is queued, on the relay, or applied | `PurgeSpares` |
| `ChannelIInv` | the inductive invariant | `OneTaskPerSide` |
| `ChannelSavedBeforeSent` | the persisted counter is ahead of everything that left the phone | `OneTaskPerSide` |
| `ChannelKeysSurvive`, `ChannelKeysForgotten` | the key of an envelope still to be applied is held; that of an applied one is gone | `OneTaskPerSide` |
| `ChannelOneOpPerKey`, `ChannelCounterNeverReused` | a key seals one operation, a counter is transmitted once | `OneTaskPerSide` |
| `ChannelAppliedOnce` | an envelope is applied at most once | `OneTaskPerSide` |
| `ChannelNotWedged` | with fewer counters than the bound of the cache, every envelope can be opened or was applied | `OneTaskPerSide` |
| `ChannelNothingLost` | an operation is queued, readable on the relay, or applied | both |
| `ChannelKeepsPromise` | `Channel` implements `Custody` | both |
| `MediaTypeOK`, `MediaIInv` | type correctness; the inductive invariant | |
| `MediaFetchable` | what a note names can be fetched until it expires | |
| `MediaRowHasItsFile` | a row that names a local file has it on disk, on either phone | |
| `MediaCopyIsKept` | a copy once fetched is not forgotten before the wipe | |
| `LaunchTypeOK` | type correctness | |
| `LaunchDatabaseOpens` | a database that exists opens with the key in the keychain | |
| `LaunchSchemaWhole` | a migration is in the schema whole and once, and the screens run on all of them | |
| `LaunchAbsenceLocks` | after an absence of the threshold or longer, the gate comes before Main | |
| `LaunchLockedMeansScan` | a session locked or run out has no grace that opens the gate | |
| `LaunchGuessesThrottled` | from the failure that locks on, a lockout lets through no more wrong guesses than are hashed at once | |
| `PairingTypeOK` | type correctness, and what hellos, findings and rows hold | |
| `PairingEngineHasRatchet` | no engine runs on a connection whose ratchet was never saved | `Relink = FALSE` |
| `PairingRootsAgree` | both phones persist one root, made of a hello of each | `Relink = FALSE`, `Careful = TRUE` |
| `ConnectionRowTypeOK`, `ConnectionRowIInv` | type correctness, and a sever has a time exactly when it has an initiator; the inductive invariant | |
| `ConnectionRowRolesSettleInOrder` | in order, the partner ends with the role declared last | |
| `ConnectionRowSeverSettlesInOrder` | in order and uncrossed, both phones end with the same pending sever or with none | |
| `ConnectionRowPreferencesSettle` | the partner ends with the preferences saved last, in any order and however often they come | |
| `ConnectionRowBookmarksSettle` | a post is on one's shelf once, and the partner's mirror ends with the whole shelf | |
| `SafeWordTypeOK` | type correctness | |
| `SafeWordNoTermAlone` | no phone holds a term the other had no part in | |
| `SafeWordTermSettlesInOrder` | in order, on rows ready for it, term and proposal end the same on both | |
| `SafeWordAckMeansReceived` | a signal shown as received was confirmed by the partner's user | |
| `SafeWordSomeAlertUp` | with everything applied, an unacknowledged signal is on some screen | |
| `SecretUnlockTypeOK` | type correctness | |
| `SecretUnlockOneAttemptAtATime` | one attempt at a time and one start a day, whatever starts overlap | |
| `SecretUnlockDrawnOnce` | a secret is drawn twice only if an attempt was canceled and two verifications crossed | |
| `SecretUnlockAddOnlySettles` | reflections and points reach both phones, each award counted once, in any order | |
| `SecretUnlockLoopSettlesInOrder` | in order, the two rows of an attempt never canceled agree | |
| `SecretUnlockSomeonesMove` | in order and with nothing canceled, every attempt under way waits for somebody who can take the next step, unless the pool was empty at its creation or the Author has emptied it by hand | |
| `NotesTypeOK` | type correctness | |
| `NotesSecretStaysSecret` | no text of an unrevealed secret on the wire or with the partner | |
| `NotesDeleteSettles` | a deletion reaches the partner, in any order and however often | |
| `NotesPublishedHasText` | a published note has its text, when rows were ready for what met them | |
| `NotesTextsSettle` | once all is applied, the two phones hold the same text of an open note, in whatever order the edits of both arrived, when rows were ready for them | |

"In order" and "ready" are in the properties themselves, as history variables
(`reordered`, `crossed`, `untidy`, `canceledOnce`), as are "tied" and "cut" for the
preferences; section 6 says what happens otherwise.

*The hypotheses.*

* `OneTaskPerSide`: calls on one phone do not overlap, which the guard of the ticker
  ensures as long as no screen calls the engine. Run `key_reuse` shows that
  `OneOpPerKey` fails without it.
* `[][PurgeSpares]_vars`: the collector removes only what its receiver has
  read. Without it the theorems are false, since thirty days do pass.
* `Relink = FALSE`: a paired phone opens no pairing link. Section 6 has the
  counterexample for TRUE.
* `Careful = TRUE`: the users confirm only a code both phones show, which is what
  the comparison of the codes is for; nothing else tells two roots apart.

### The arguments

But for some of the types, none of these properties is inductive. What was added
is below, by module. The strengthenings that took more than one attempt (`IInv`,
`Origins` and `HandInv` of the channel, `IInv` of the connection row, `InOrder` of
the safe word, `InTurn` of
the loop, `Texts` of the notes)
were checked with TLC on the instances of the runs before they were proved, that
of the connection row also with three sever operations of each partner; the
channel's still is, in `ticker_safety`.

*Channel, one caller.* That a key survives depends on what calls in flight will
write. `TaskInv(t)` ties what a call holds in memory to the row it came from: a
sealed letter carries the counter of the row and the object to be saved is that
row after one step; once saved, the counter is above everything sent; an
envelope being opened is not seen, and the object to be committed is the row
after opening it. `KeyInv(s)` ties the two ends of a direction together: counters
sent are below the persisted one and pairwise different, relay and `sync_seen`
hold only what was sent, and, the heart of it, *a key is held exactly for the
sent letters that were not seen*. With it `FlushSave`, the three outcomes of the
POST and `PullCommit` are the only steps that need an argument; all others leave
the facts alone (`QuietStep`). `LossInv` says where an operation is, with one
argument for each step that removes it from somewhere; `AppliedInv`, that what
was applied was seen. `NotWedged` counts (`RoomForKeys`): the keys in the cache and
those between the chain and an envelope belong to different counters, all of them
outstanding, so that a gap which overflows the cache needs more outstanding
counters than its bound.

*Channel, any callers.* Keys can be lost, but not operations. `Carries(t)` and
`Origins` follow an operation from the row through the letter of a call to the relay;
`HandInv` says that an operation which was queued once still is, or an envelope
with it is on the relay, or it was applied (`Handed`), and that a call about to
delete a row, or an envelope, has the latter behind it.

*Refinement.* `Held` is what is queued or readable on the relay, `Delivered`
what is applied. By `NothingLost` and `Origins` the first is what was issued and
not applied (`HeldIsIssued`), so every step is an accept, a delivery or a
stutter (`PromiseStep`).

*Media.* A note names an attachment only because of three writes in a fixed
order, so `UploadInv` follows it: before the answer the server has no metadata;
when it inserts them the object is there; what was answered for, or kept in the
row of a note, has metadata and an object until it expires. `NoteInv` carries this
to the chips and to the author's row, and `DoomInv` says that the collector,
which lists first and deletes later, has listed nothing but expired blobs, which
no step can make fresh again. `FileInv` is the same for a download: one that is
about to mark its row has written the file, *unless* the wipe came in between;
`wipeConnectionData` deletes the rows before the files, so then there is no row
to mark. Most steps leave both groups alone (`BlobApart`, `FilesApart`).

*Launch.* One group of facts per concern. `SchemaInv`: before its commit no
statement of a migration is in the schema, and from then on each is there once.
`KeyInv`: boot draws a key only when none is stored, and opens the database with
the one that is. `ScreenInv` and `AwayInv`: between leaving Main and the gate
the tracker knows when the app was left, or the session is locked already.
`GraceInv`: grace and session come from one scan and are cleared together.
`GuessInv`: while a lock is on no guess starts, so the failures it lets through are
those in flight when it fell, at most `AtOnce`; the invariant counts them and those
still in flight against the time from the first lock to the end of the last.

*Pairing.* `HelloInv` says which hellos a phone holds in which phase; `RowInv`, that
a phone has no row before its attempt is confirmed, that the row is the root of
that attempt and the only one, and that an engine is built of it and its ratchet;
`ConfirmInv`, that what was confirmed was a hello of the partner and, if both
confirmed, one code.

*Over `Wire`.* `Way(s)` is the outbox of a phone and what the relay lists for its
partner. `WireProofs` shows that each step only adds to it or takes from it, so an
invariant about what is on its way needs one argument for the function that
issues an operation and one for the case of the projector that applies it.

*Connection row.* `Sent` gives each operation on its way a number of its own, up to
those issued. In order, what is applied is then the first of what was on its way
(`OrderApplied`), so `RoleInv` can say: the last role operation on its way names the
partner's role, or there is none and the partner has it. For the sever one phone
*leads*: only its operations are on their way and the last of them says what its row
holds, or there are none and the rows agree. A phone that severs or undoes without
crossing leads from then on (`LeadsAlone`). This alone is not inductive: the projector
ignores an undo that meets a sever of the partner itself, so `Leads` adds that before
such an undo a schedule of the leader arrives, which takes the columns over; it is there
because an undo that cleared the partner's sever counts as a crossing. `PrefInv` needs
no order: `Told(s)` is what is on its way or saved and not queued yet; the
newest preferences are in it or with the partner, and everything else has an older
stamp, so the comparison of the projector can only go up to them. `ShelfInv` is the
same without stamps: what is saved is with the partner or on its way.

*Safe word.* `TermInv`, `SignalInv` and `TransitInv` say who proposed, accepted and
confirmed what, and that what has not arrived is on its way. For
`TermSettlesInOrder` the row of one phone is the row of the other with what is on
its way replayed over it: `Follows(s, r)` gives that history `r`, `Leads(s)` says that
only one phone is ahead, and `InOrder` that one always is as long as nothing was
overtaken and no row was unready. An acceptance that commits on an own proposal,
written meanwhile, counts as untidy. The history is traced by well-founded induction on the counter.

*Unlock loop.* `Rows`, `Starts`, `Draws`, `Reflections` and `Awards` hold always: what
rows hold, that only the Unlocker makes an attempt active (and the transaction of
a start reads the guards again, so that of two calls which passed them one creates
nothing), that the Author draws, and that a reflection or an
entry of a ledger is with the partner or on its way. `Calls` and `Present` add what a
call of `verifyUnlock` in flight holds, and that the Author has no row the
Unlocker never created. In order, an
attempt is always the turn of one of the two: `UnlockersTurn` or `AuthorsTurn`
lists what state its two rows can be in given which tasks and verdicts are on
their way, `InTask` says that a task is started first and submitted last, and
`PromptTurn` that the newest operation that names a prompt names the Unlocker's.
`Sent` says whose operations they are and that what was canceled is known;
`InTurn` is all of that for every attempt never canceled (`Agreed`).
For `DrawnOnce`, `Twice` looks at a call that holds a pick which another attempt
has drawn: the pool no longer shows that secret, so the call picked it before, and
the commit of the other found the call in flight. If neither attempt was canceled,
only one of them can be submitted (`OneInVerdict`, from `OneAttemptAtATime`), so the
call finds nothing to do any more.
For `SomeonesMove` the Author must also have a secret to draw. An attempt that is
not starved was created with one left, in the pool of both phones once all is known
(`Left`); only a verdict, the Author's own deletions and reveals, and the news of
them take secrets away (`OutSteps`). The verdict of another attempt is not
to be had, since an Unlocker has no second attempt under way; a deletion or reveal
of the last secret starves the attempt in the same step; and news of either was
known to its author already (`HandInv`, `KnownInv`). That is `LeftInv`.

*Notes.* `RowOk`, `OpOk` and `CallOk` say what rows, operations and half-done calls can
hold; the secret stays because whatever carries a text is about a note that is
shared or revealed, which a call that has decided to send one has seen, and a
note stays so. `DeleteOk` and `RevealOk`: what
was deleted or revealed here is so there or on its way. `Texts` relates the two rows of a
note (`Tidy`): an edit's second stands for its text wherever it is (`Stamped`), what
was sent is in the sender's row or overtaken (`Sent`), the newest edit of one row
is in the other or on its way (`Caught`), an unedited text is the original
(`Origin`), and a revealed secret tells its edits (`Told`).

### Only model-checked

* Liveness (`AppliedInReach`, `VerifiedIsPaid`, `EverySignalAcked`, `BothPair`,
  `GateOpens`, `OpenedInTheEnd`): fairness and ENABLED are out of the prover's reach.
* `key_reuse` refutes, and so needs no proof.

## 6. Where code and comments disagree

`key_reuse` is the one that costs the system its main promise, and it is a run:
`sync-engine.ts` says every operation reads, changes and writes the ratchet in
a transaction. `encryptAndSend` does so in three separate statements, and
screens call the engine beside the ticker; two operations can be sealed with
one key. The lines are quoted in `PROJECT.json`.

The other statements that the model refutes are definitions at the end of their
modules, marked *Refuted* or quoted, and in no run. Naming one in a copy of the
configuration of the module gives a counterexample; where other constants are
needed they are in the last column.

| property | what the code says | how it fails | constants |
| --- | --- | --- | --- |
| `Channel!EventuallyApplied` | every write becomes visible on the other phone (`implementation-details.md:244`) | what was posted while the partner was away for three days is never listed again, though the relay keeps it for thirty | of `ticker_days`, `Ttl` 3, no fault |
| `ConnectionRow!RolesSettle` | the latest value sticks (`op.ts:278-280`) | of two role changes in one listing, newest first, the older sticks | no fault |
| `ConnectionRow!UndoSettles` | the initiator may undo before `severAt` (`op.ts:559`) | an undo listed with its sever comes first and does nothing; the sever is carried out on one phone | no fault |
| `ConnectionRow!BothWipe` | both devices wipe (`op.ts:556-557`) | "End now" wipes the queued sever when its POST failed (`SeverBanner.tsx:66`) | `FairSpec`, windows 0 and 2, `MaxNow` 1, `MaxOvertake` 1 |
| `ConnectionRow!OnlyOwnSeverUndone` | only its initiator calls a sever off (`sever.ts:105-107`) | the check reads the row before the transaction | |
| `ConnectionRow!PreferencesSettleInSecond` | last write wins (`preferences-store.ts:28-31`) | the sender replaces with `>=`, the receiver with `>`: two saves in one second end apart | |
| `SecretUnlock!ReplayedSubmitIsNoOp` | a replay no-ops (`projector.ts:436-438`) | a submission sent twice re-submits what was sent back | of `unlock_paid` |
| `SecretUnlock!SamePromptAtSubmission` | both see the same prompt at submission (`store.ts:322-323`) | a reroll listed with the submission is dropped | of `unlock_paid` |
| `SecretUnlock!CanceledEarnsNothing` | no points for a cancel (`op.ts:481`) | the cancel crosses the verification | of `unlock_paid` |
| `SecretUnlock!TokensAreForAttempts` | tokens are per attempt started (`store.ts:157`) | of two overlapping starts one creates nothing and still grants | of `unlock_paid`, `MaxCalls` 2 |
| `SecretUnlock!SomeonesMoveAfterCancel` | every open attempt waits for somebody | the crossed cancel leaves a revealed secret; the next attempt is submitted with nothing left to draw | of `unlock_days` |
| `SecretUnlock!NeverDrawnTwice` | the one-active rule and the pool prevent a second draw (`store.ts:443-445`) | a late cancel leaves two submitted attempts on the Author's phone; two verifications read the pool before either commits, and the transaction reads only the attempt again | of `unlock_days` |
| `SecretUnlock!DeletedNotDrawn` | a deleted secret can't be drawn (`store.ts:246-247`) | it is deleted between the pick and the transaction | of `unlock_days` |
| `SecretUnlock!SubmissionCanBeVerified` | counting the pool gates the start (`store.ts:244-245`) | the Author deletes or reveals the last secret while the attempt is open, and `verifyUnlock` throws for good | of `unlock_days` |
| `SafeWord!SetMeansFireable` | once set, either can fire (`SafeWordRoute.tsx:36`) | a pending proposal hides the button | |
| `SafeWord!AlertStaysUp` | an alert stays until confirmed (`SafeWordAlert.tsx:17`) | firing oneself, or a newer signal, hides it | |
| `SafeWord!ConfirmedByBoth` | a term is one the confirmer typed back (`op.ts`, propose) | a confirm does not name the proposal; a second one has replaced it | `MaxOps` 4, `MaxTriggers` 0, `MaxCalls` 1 |
| `Notes!DeletedHasNoText` | a tombstone holds no plaintext (`projector.ts:261`) | an edit or a reveal that arrives later writes it | |
| `Notes!PublishedOnce` | a retry returns the same post (`store.ts:483`) | an edit between the two attempts makes a second post | |
| `Notes!EditOrRevealTells` | an edit travels by itself or with the reveal (`store.ts:371-373`) | it was read as unrevealed and committed after the reveal | |
| `Notes!DraftSharedOnce` | a draft becomes one note | two taps both read it before either deletes it | 2 notes |
| `Pairing!FoundIsPartner` | a peer with our own key is refused (`orchestrator.ts:69`), and is "there to be found" (`relay-transport.ts:98-99`) | after a kill the wait resumes with fresh keys and finds the own old hello | |
| `Pairing!BothConfirmed` | the root is derived once both confirmed (`orchestrator.ts:20`) | each phone derives alone | |
| `Pairing!WaitRemembered` | the wait survives (`pending-store.ts:5-9`) | a cancel forgets it after the partner has found the hello, and so does a kill between clearing the wait and the INSERT | |
| `Pairing!RowHasRatchet` | a re-run picks up where it left off (`persistence.ts:68`) | nothing runs it again | |
| `Pairing!SlotHoldsTwo` | at most 2 hellos (`pair-rendezvous.ts:28`) | count and INSERT are two statements | |
| `Pairing!RootsAgree` | | a phone that is already paired and opens a pairing link gets a second connection, alone | `Relink` TRUE |
| `Launch!ExpiryShowsGate` | the gate re-prompts as the window closes (`app-lock/session.ts:11-12`) | nothing renders when time passes | |
| `Launch!LaunchIsScanned` | a cold launch needs a fresh scan (`session.ts:4-5`) | an item stored unsealed opens without one | |
| `Launch!ReturnLocks` | a longer absence locks (`RootStack.tsx:13-14`) | the policy is not mounted during boot, so an absence that began there has no start | |
| `Launch!RefusedWhileLocked` | past the bound attempts are refused without running Argon2id (`lockout.ts:9-10`) | the check precedes the hash: a guess in flight when the lock falls is still answered; leaving the screen allows a second one beside the first | |
| `Media!DownloadingMeansRunning` | a fetch is in flight (`attachments/types.ts:11`) | after a kill the screen shows a spinner for ever | |
| `Media!ReadyStaysReady` | a ready row short-circuits (`pipeline.ts:81`) | a second download that was under way marks it failed | |
| `Media!SentWhileFetchable` | the TTL matches the relay's (`routes/blobs.ts:15`) | it runs from the upload, and a secret is revealed later | |
| `Media!MetaHasObject` | no row points at nothing (`blobs-s3.ts:36-37`) | an INSERT that commits and then throws is rolled back in the bucket only | |
| `Media!WipeTakesFiles` | the wipe takes the files (`wipe.ts:44`) | a kill after the rows leaves them; a download under way writes them again | |

The passing runs state under which condition the rows do converge: mostly,
operations applied in the order they were issued, on a row that was ready for
them, and for the loop only once. That order is what the comments of `op.ts:180-186`
("this race is theoretical"), `:282-284` and `:300-301`, `notes/store.ts:540-542`
and `outbox.ts:50-54` take for granted. A listing newest first breaks it
whenever two operations are pulled together.

Further differences, read and not modelled as a property:

* A prompt is said to need both partners' categories (`op.ts:597-601`,
  `PromptPreferences.tsx:28`, `:55`, `OnboardingCategoriesRoute.tsx:95-96`);
  `startUnlock` and `rerollUnlock` look at the Unlocker's (`store.ts:286-289`, `:342`).
* *Accept* of a proposal is the only button of its screen that is not disabled
  while a call runs (`SafeWordRoute.tsx:287`): two taps issue two confirms.
* After a lockout has expired one wrong word locks again, and an error that is
  not a wrong word counts as one (`lockout.ts`).
* The grace of `session.ts:17-23` is for a lock that falls within five minutes of
  a scan; `lock()` clears it, so the gate always asks.
* The wipe deletes neither `prompt_preference` nor `saved_post`. `wipe.ts:68` calls
  the files ciphertext; the cache directory holds decrypted ones, and although
  called "lock-cleared" (`pipeline.ts:114`, `types.ts:83`) no lock clears it.
* No code of the phone deletes a blob; `note.delete` leaves rows and files of
  its attachments; an object whose row was lost is never swept.
* `usePostDetail` documents a fall back to a cache it does not read
  (`api/queries.ts:75-79`). A post with an existing body returns the first
  author's post, whatever its audience.

## 7. Plan

Done: the channel; every feature that sends operations over it; pairing, launch
and attachments; every safety property that a passing run checks proved.
Left, in this order:

1. `SqlTx`: transactions of concurrent callers on one connection, against the
   atomic transactions the other modules assume.
2. Flags and moderation of posts, if they come to share rows with anything.

## 8. Not modelled

* *Isolation on one connection.* `db/client.ts:37` runs the transactions of all
  callers on one SQLite connection. A BEGIN inside an open transaction throws
  before the `try`, and a single statement of another caller joins the open
  transaction and rolls back with it. Which of these happen depends on how the
  driver queues statements, which is not in the repository; every module takes
  a transaction as isolated.
* Cryptography (ideal here), HTTP signatures and API wiring, migrations of the
  server.
* Listing, paging and caching of posts: queries without state of their own.
  Flags and moderation: independent rows of the server.
* The library of prompts and media processing: data.
* Purchases: a cache over the vendor's SDK.
* Navigation and presentation, the audio player, and the screens
  `DefineSafeWord` and `SafeWordGate`, which nothing mounts. What a screen offers,
  and when, is a guard of the action behind it.

## Running

    tlc -config MCTicker_safety.cfg MCTicker
    tlc -config MCNotes_life.cfg MCNotes
    tlapm ChannelProofs.tla
    tlapm NotesProofs.tla

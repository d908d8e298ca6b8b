------------------------------ MODULE Channel ------------------------------
(***************************************************************************)
(* The connection channel between two paired phones and the relay between  *)
(* them: apps/mobile/src/features/connection-channel (sync-engine, outbox, *)
(* seen, ratchet-store, ticker) and apps/api/src/routes/relay.ts with its  *)
(* store.                                                                  *)
(*                                                                         *)
(* Each phone queues operations in an outbox.  flush() seals every due row *)
(* with the next key of the ratchet, writes the ratchet back, POSTs the    *)
(* envelope to today's inbox of the partner and deletes the row when the   *)
(* relay answers.  pull() lists the inboxes of today and of a few days     *)
(* back, newest first, and opens and applies every envelope it has not     *)
(* seen, in one transaction with the seen mark and the ratchet row.        *)
(*                                                                         *)
(* A task is one caller of flush() or pull(); every await of the code is a *)
(* point where another task of the same phone can run, so each step below  *)
(* is what happens between two awaits that matter.  Tickers run            *)
(* runSyncCycle under the inflight guard; the other tasks are the screens, *)
(* which call flush() or pull() on their own.                              *)
(***************************************************************************)
EXTENDS Ratchet

CONSTANTS
  Op,          \* the operations the two partners will ever issue
  Author,      \* [Op -> Side]: who issues which
  Task,        \* callers of the two engines
  Home,        \* [Task -> Side]: the phone a caller runs on
  Ticker,      \* the callers that are useSyncTicker's guarded cycle
  Lookback,    \* pullLookbackDays
  Ttl,         \* days an envelope survives on the relay
  MaxDay,      \* bound: the last day of the model
  MaxFaults    \* bound: failed requests, rollbacks and crashes in a behaviour

Side == {"a", "b"}

Other(s) == IF s = "a" THEN "b" ELSE "a"

ASSUME ChannelAssumption ==
  /\ Author \in [Op -> Side]
  /\ Home \in [Task -> Side]
  /\ Ticker \subseteq Task
  /\ Lookback \in Nat
  /\ Ttl \in Nat
  /\ MaxDay \in Nat
  /\ MaxFaults \in Nat

VARIABLES
  issued,      \* [Side -> SUBSET Op]: history, every op ever enqueued
  outbox,      \* [Side -> SUBSET Op]: the rows of sync_outbox
  waiting,     \* [Side -> SUBSET Op]: rows whose next_attempt_at is ahead
  rat,         \* [Side -> RatchetState]: the connection_ratchet row
  seen,        \* [Side -> SUBSET Letter]: sync_seen
  applied,     \* [Side -> SUBSET Op]: ops the projector has applied
  relay,       \* SUBSET Envelope: relay_inbox
  stored,      \* [Side -> Nat]: envelopes ever stored for a side, orders them
  sent,        \* [Side -> SUBSET Letter]: history, what was handed to the network
  day,         \* today, UTC
  faults,      \* faults so far
  pc,          \* [Task -> Label]: where each caller is
  rows,        \* [Task -> SUBSET Op]: flush: rows of its snapshot still to send
  letter,      \* [Task -> Letter or NoLetter]: flush: the sealed envelope
  snap,        \* [Task -> RatchetState]: the ratchet object held in memory
  page,        \* [Task -> SUBSET Envelope]: pull: listed, not yet examined
  env,         \* [Task -> Envelope or NoEnvelope]: pull: the one in hand
  base,        \* [Task -> Nat]: pull: the day it started
  off          \* [Task -> Nat]: pull: the day offset being listed

db    == <<issued, outbox, waiting, rat, seen, applied>>
net   == <<relay, stored, sent>>
world == <<day, faults>>
flushLocals == <<rows, letter>>
pullLocals  == <<page, env, base, off>>
locals == <<pc, flushLocals, snap, pullLocals>>
vars   == <<db, net, world, locals>>

(* header and ciphertext: one key, one plaintext; sha256 of both is the    *)
(* key of sync_seen.                                                       *)
Letter   == [ctr : Nat, op : Op]
NoLetter == [ctr |-> 0, op |-> "none"]

Envelope   == [to : Side, day : Nat, at : Nat, letter : Letter]
NoEnvelope == [to |-> "none", day |-> 0, at |-> 0, letter |-> NoLetter]

FlushLabel == {"row", "save", "post", "sent", "failed"}
PullLabel  == {"list", "page", "open", "commit", "drop"}
Label      == {"idle"} \cup FlushLabel \cup PullLabel

Init ==
  /\ issued  = [s \in Side |-> {}]
  /\ outbox  = [s \in Side |-> {}]
  /\ waiting = [s \in Side |-> {}]
  /\ rat     = [s \in Side |-> FreshRatchet]
  /\ seen    = [s \in Side |-> {}]
  /\ applied = [s \in Side |-> {}]
  /\ relay   = {}
  /\ stored  = [s \in Side |-> 0]
  /\ sent    = [s \in Side |-> {}]
  /\ day     = 0
  /\ faults  = 0
  /\ pc      = [t \in Task |-> "idle"]
  /\ rows    = [t \in Task |-> {}]
  /\ letter  = [t \in Task |-> NoLetter]
  /\ snap    = [t \in Task |-> FreshRatchet]
  /\ page    = [t \in Task |-> {}]
  /\ env     = [t \in Task |-> NoEnvelope]
  /\ base    = [t \in Task |-> 0]
  /\ off     = [t \in Task |-> 0]

Goto(t, from, to) ==
  /\ pc[t] = from
  /\ pc' = [pc EXCEPT ![t] = to]

Fault ==
  /\ faults < MaxFaults
  /\ faults' = faults + 1
  /\ UNCHANGED day

-----------------------------------------------------------------------------
(* The user's side and the clock.                                          *)

(* SyncEngine.enqueue: a new row, due at once. *)
Enqueue(o) ==
  LET s == Author[o] IN
  /\ o \notin issued[s]
  /\ issued' = [issued EXCEPT ![s] = @ \cup {o}]
  /\ outbox' = [outbox EXCEPT ![s] = @ \cup {o}]
  /\ UNCHANGED <<waiting, rat, seen, applied, net, world, locals>>

(* The back-off of a failed row has passed. *)
RetryDue(o) ==
  LET s == Author[o] IN
  /\ o \in waiting[s]
  /\ waiting' = [waiting EXCEPT ![s] = @ \ {o}]
  /\ UNCHANGED <<issued, outbox, rat, seen, applied, net, world, locals>>

Midnight ==
  /\ day < MaxDay
  /\ day' = day + 1
  /\ UNCHANGED <<db, net, faults, locals>>

Expired(e) == day > e.day + Ttl

(* cron/gc: purgeExpired. *)
PurgeExpired ==
  /\ \E e \in relay : Expired(e)
  /\ relay' = {e \in relay : ~Expired(e)}
  /\ UNCHANGED <<db, stored, sent, world, locals>>

(* The app is killed: every call in flight is gone, the database stays. *)
Crash(s) ==
  /\ Fault
  /\ \E t \in Task : Home[t] = s /\ pc[t] # "idle"
  /\ pc'     = [t \in Task |-> IF Home[t] = s THEN "idle" ELSE pc[t]]
  /\ rows'   = [t \in Task |-> IF Home[t] = s THEN {} ELSE rows[t]]
  /\ letter' = [t \in Task |-> IF Home[t] = s THEN NoLetter ELSE letter[t]]
  /\ snap'   = [t \in Task |-> IF Home[t] = s THEN FreshRatchet ELSE snap[t]]
  /\ page'   = [t \in Task |-> IF Home[t] = s THEN {} ELSE page[t]]
  /\ env'    = [t \in Task |-> IF Home[t] = s THEN NoEnvelope ELSE env[t]]
  /\ base'   = [t \in Task |-> IF Home[t] = s THEN 0 ELSE base[t]]
  /\ off'    = [t \in Task |-> IF Home[t] = s THEN 0 ELSE off[t]]
  /\ UNCHANGED <<db, net>>

-----------------------------------------------------------------------------
(* flush().                                                                *)

(* readPendingOutbox: the rows that are due now, as a snapshot. *)
FlushBegin(t) ==
  /\ Goto(t, "idle", "row")
  /\ rows' = [rows EXCEPT ![t] = outbox[Home[t]] \ waiting[Home[t]]]
  /\ UNCHANGED <<db, net, world, letter, snap, pullLocals>>

(* encryptAndSend up to the write: load the row, seal with its counter.    *)
(* Rows leave by next_attempt_at and then by a random id; any order here.  *)
FlushSeal(t, o) ==
  LET r == rat[Home[t]] IN
  /\ o \in rows[t]
  /\ Goto(t, "row", "save")
  /\ rows'   = [rows EXCEPT ![t] = @ \ {o}]
  /\ letter' = [letter EXCEPT ![t] = [ctr |-> r.send, op |-> o]]
  /\ snap'   = [snap EXCEPT ![t] = Encrypted(r)]
  /\ UNCHANGED <<db, net, world, pullLocals>>

(* Mutant: the bumped ratchet is not written back before the POST. *)
FlushSaveLate(t) ==
  /\ Goto(t, "save", "post")
  /\ UNCHANGED <<db, net, world, flushLocals, snap, pullLocals>>

(* Mutant: the sealed envelope is released together with the ratchet object. *)
FlushSaveReleases(t) ==
  /\ Goto(t, "save", "post")
  /\ rat'    = [rat EXCEPT ![Home[t]] = snap[t]]
  /\ snap'   = [snap EXCEPT ![t] = FreshRatchet]
  /\ letter' = [letter EXCEPT ![t] = NoLetter]
  /\ UNCHANGED <<issued, outbox, waiting, seen, applied, net, world, rows, pullLocals>>

(* saveRatchet: the whole row, both directions, is overwritten. *)
FlushSave(t) ==
  /\ Goto(t, "save", "post")
  /\ rat'  = [rat EXCEPT ![Home[t]] = snap[t]]
  /\ snap' = [snap EXCEPT ![t] = FreshRatchet]
  /\ UNCHANGED <<issued, outbox, waiting, seen, applied, net, world,
                 flushLocals, pullLocals>>

Transmit(t) ==
  sent' = [sent EXCEPT ![Home[t]] = @ \cup {letter[t]}]

(* relayRoute POST: one more row in today's inbox of the partner. *)
Posted(t) ==
  LET p == Other(Home[t]) IN
  [to |-> p, day |-> day, at |-> stored[p], letter |-> letter[t]]

Store(t) ==
  /\ stored' = [stored EXCEPT ![Other(Home[t])] = @ + 1]
  /\ relay'  = relay \cup {Posted(t)}

FlushPostOk(t) ==
  /\ Goto(t, "post", "sent")
  /\ Transmit(t)
  /\ Store(t)
  /\ UNCHANGED <<db, world, flushLocals, snap, pullLocals>>

(* The request never reached the relay. *)
FlushPostLost(t) ==
  /\ Fault
  /\ Goto(t, "post", "failed")
  /\ Transmit(t)
  /\ UNCHANGED <<db, relay, stored, flushLocals, snap, pullLocals>>

(* The relay stored the envelope, its answer was lost. *)
FlushReplyLost(t) ==
  /\ Fault
  /\ Goto(t, "post", "failed")
  /\ Transmit(t)
  /\ Store(t)
  /\ UNCHANGED <<db, flushLocals, snap, pullLocals>>

(* A statement of the database throws inside the try: saveRatchet before   *)
(* the POST, deleteOutbox after it.                                        *)
FlushThrows(t) ==
  /\ Fault
  /\ pc[t] \in {"save", "sent"}
  /\ pc'   = [pc EXCEPT ![t] = "failed"]
  /\ snap' = [snap EXCEPT ![t] = FreshRatchet]
  /\ UNCHANGED <<db, net, flushLocals, pullLocals>>

(* deleteOutbox after a 200. *)
FlushDelete(t) ==
  LET s == Home[t] o == letter[t].op IN
  /\ Goto(t, "sent", "row")
  /\ outbox'  = [outbox EXCEPT ![s] = @ \ {o}]
  /\ waiting' = [waiting EXCEPT ![s] = @ \ {o}]
  /\ letter'  = [letter EXCEPT ![t] = NoLetter]
  /\ UNCHANGED <<issued, rat, seen, applied, net, world, rows, snap, pullLocals>>

(* Mutant: a failed POST deletes the row as a successful one does. *)
FlushBumpDrops(t) ==
  LET s == Home[t] o == letter[t].op IN
  /\ Goto(t, "failed", "row")
  /\ outbox'  = [outbox EXCEPT ![s] = @ \ {o}]
  /\ letter'  = [letter EXCEPT ![t] = NoLetter]
  /\ UNCHANGED <<issued, waiting, rat, seen, applied, net, world, rows, snap,
                 pullLocals>>

(* bumpOutboxAttempt: the row, if it is still there, waits for its retry. *)
FlushBump(t) ==
  LET s == Home[t] o == letter[t].op IN
  /\ Goto(t, "failed", "row")
  /\ waiting' = [waiting EXCEPT ![s] = @ \cup ({o} \cap outbox[s])]
  /\ letter'  = [letter EXCEPT ![t] = NoLetter]
  /\ UNCHANGED <<issued, outbox, rat, seen, applied, net, world, rows, snap,
                 pullLocals>>

(* The snapshot is drained: a ticker goes on to pull(), a screen is done. *)
FlushEnd(t) ==
  /\ rows[t] = {}
  /\ Goto(t, "row", IF t \in Ticker THEN "list" ELSE "idle")
  /\ base' = [base EXCEPT ![t] = IF t \in Ticker THEN day ELSE 0]
  /\ UNCHANGED <<db, net, world, flushLocals, snap, page, env, off>>

-----------------------------------------------------------------------------
(* pull().                                                                 *)

(* A screen pulls on its own. *)
PullBegin(t) ==
  /\ t \notin Ticker
  /\ Goto(t, "idle", "list")
  /\ base' = [base EXCEPT ![t] = day]
  /\ UNCHANGED <<db, net, world, flushLocals, snap, page, env, off>>

(* What GET answers for the inbox of one day; the pages of one listing are *)
(* taken together.                                                         *)
Listing(s, d) == {e \in relay : e.to = s /\ e.day = d /\ ~Expired(e)}

PullList(t) ==
  /\ Goto(t, "list", "page")
  /\ page' = [page EXCEPT ![t] = Listing(Home[t], base[t] - off[t])]
  /\ UNCHANGED <<db, net, world, flushLocals, snap, env, base, off>>

(* A failed GET throws out of pull(). *)
PullListFails(t) ==
  /\ Fault
  /\ Goto(t, "list", "idle")
  /\ base' = [base EXCEPT ![t] = 0]
  /\ off'  = [off EXCEPT ![t] = 0]
  /\ UNCHANGED <<db, net, flushLocals, snap, page, env>>

IsNewest(e, E) == e \in E /\ \A f \in E : f.at <= e.at

(* The next envelope of the page, newest first; isEnvelopeSeen. *)
PullPick(t, e) ==
  /\ IsNewest(e, page[t])
  /\ Goto(t, "page", IF e.letter \in seen[Home[t]] THEN "drop" ELSE "open")
  /\ env'  = [env EXCEPT ![t] = e]
  /\ page' = [page EXCEPT ![t] = @ \ {e}]
  /\ UNCHANGED <<db, net, world, flushLocals, snap, base, off>>

(* decryptAndApply outside the transaction: load the row and decrypt. *)
PullOpen(t) ==
  LET r == rat[Home[t]] n == env[t].letter.ctr IN
  /\ Decryptable(r, n)
  /\ Goto(t, "open", "commit")
  /\ snap' = [snap EXCEPT ![t] = Decrypted(r, n)]
  /\ UNCHANGED <<db, net, world, flushLocals, pullLocals>>

(* Mutant: an envelope that cannot be opened is deleted as a read one is. *)
PullRefuseDeletes(t) ==
  /\ ~Decryptable(rat[Home[t]], env[t].letter.ctr)
  /\ Goto(t, "open", "page")
  /\ env'   = [env EXCEPT ![t] = NoEnvelope]
  /\ relay' = relay \ {env[t]}
  /\ UNCHANGED <<db, stored, sent, world, flushLocals, snap, page, base, off>>

(* A replayed counter or a gap too big: left on the relay, not marked. *)
PullRefuse(t) ==
  /\ ~Decryptable(rat[Home[t]], env[t].letter.ctr)
  /\ Goto(t, "open", "page")
  /\ env' = [env EXCEPT ![t] = NoEnvelope]
  /\ UNCHANGED <<db, net, world, flushLocals, snap, page, base, off>>

(* Mutant: the transaction leaves out the seen mark and the ratchet row. *)
PullCommitUnmarked(t) ==
  LET s == Home[t] l == env[t].letter IN
  /\ Goto(t, "commit", "drop")
  /\ applied' = [applied EXCEPT ![s] = @ \cup {l.op}]
  /\ snap'    = [snap EXCEPT ![t] = FreshRatchet]
  /\ UNCHANGED <<issued, outbox, waiting, seen, rat, net, world, flushLocals, pullLocals>>

(* The transaction: applyCrdtOp, markEnvelopeSeen, saveRatchet. *)
PullCommit(t) ==
  LET s == Home[t] l == env[t].letter IN
  /\ Goto(t, "commit", "drop")
  /\ applied' = [applied EXCEPT ![s] = @ \cup {l.op}]
  /\ seen'    = [seen EXCEPT ![s] = @ \cup {l}]
  /\ rat'     = [rat EXCEPT ![s] = snap[t]]
  /\ snap'    = [snap EXCEPT ![t] = FreshRatchet]
  /\ UNCHANGED <<issued, outbox, waiting, net, world, flushLocals, pullLocals>>

(* Any statement of the transaction throws: rolled back, left on the relay. *)
PullRollback(t) ==
  /\ Fault
  /\ Goto(t, "commit", "page")
  /\ env'  = [env EXCEPT ![t] = NoEnvelope]
  /\ snap' = [snap EXCEPT ![t] = FreshRatchet]
  /\ UNCHANGED <<db, net, flushLocals, page, base, off>>

(* deleteEnvelope, best effort. *)
PullDrop(t) ==
  /\ Goto(t, "drop", "page")
  /\ relay' = relay \ {env[t]}
  /\ env' = [env EXCEPT ![t] = NoEnvelope]
  /\ UNCHANGED <<db, stored, sent, world, flushLocals, snap, page, base, off>>

PullDropFails(t) ==
  /\ Fault
  /\ Goto(t, "drop", "page")
  /\ env' = [env EXCEPT ![t] = NoEnvelope]
  /\ UNCHANGED <<db, net, flushLocals, snap, page, base, off>>

(* The page is done: the day before it, or the end of the pull. *)
PullNextDay(t) ==
  /\ page[t] = {}
  /\ off[t] < Lookback
  /\ Goto(t, "page", "list")
  /\ off' = [off EXCEPT ![t] = @ + 1]
  /\ UNCHANGED <<db, net, world, flushLocals, snap, page, env, base>>

PullEnd(t) ==
  /\ page[t] = {}
  /\ off[t] >= Lookback
  /\ Goto(t, "page", "idle")
  /\ base' = [base EXCEPT ![t] = 0]
  /\ off'  = [off EXCEPT ![t] = 0]
  /\ UNCHANGED <<db, net, world, flushLocals, snap, page, env>>

-----------------------------------------------------------------------------
FlushStep(t) ==
  \/ \E o \in Op : FlushSeal(t, o)
  \/ FlushSave(t)
  \/ FlushPostOk(t) \/ FlushPostLost(t) \/ FlushReplyLost(t)
  \/ FlushThrows(t) \/ FlushDelete(t) \/ FlushBump(t)
  \/ FlushEnd(t)

PullStep(t) ==
  \/ PullList(t) \/ PullListFails(t)
  \/ \E e \in page[t] : PullPick(t, e)
  \/ PullOpen(t) \/ PullRefuse(t)
  \/ PullCommit(t) \/ PullRollback(t)
  \/ PullDrop(t) \/ PullDropFails(t)
  \/ PullNextDay(t) \/ PullEnd(t)

Run(t) == FlushBegin(t) \/ PullBegin(t) \/ FlushStep(t) \/ PullStep(t)

Next ==
  \/ \E o \in Op : Enqueue(o) \/ RetryDue(o)
  \/ \E t \in Task : Run(t)
  \/ \E s \in Side : Crash(s)
  \/ Midnight
  \/ PurgeExpired

Spec == Init /\ [][Next]_vars

(* Every call makes progress, the ticker fires again, and a back-off ends. *)
FairSpec ==
  /\ Spec
  /\ \A t \in Task : WF_vars(Run(t))
  /\ \A o \in Op : WF_vars(RetryDue(o))

-----------------------------------------------------------------------------
(* Correctness.                                                            *)

TypeOK ==
  /\ issued \in [Side -> SUBSET Op]
  /\ outbox \in [Side -> SUBSET Op]
  /\ waiting \in [Side -> SUBSET Op]
  /\ rat \in [Side -> RatchetState]
  /\ seen \in [Side -> SUBSET Letter]
  /\ applied \in [Side -> SUBSET Op]
  /\ relay \in SUBSET Envelope
  /\ stored \in [Side -> Nat]
  /\ sent \in [Side -> SUBSET Letter]
  /\ day \in Nat
  /\ faults \in Nat
  /\ pc \in [Task -> Label]
  /\ rows \in [Task -> SUBSET Op]
  /\ letter \in [Task -> Letter \cup {NoLetter}]
  /\ snap \in [Task -> RatchetState]
  /\ page \in [Task -> SUBSET Envelope]
  /\ env \in [Task -> Envelope \cup {NoEnvelope}]
  /\ base \in [Task -> Nat]
  /\ off \in [Task -> Nat]
  /\ \A t \in Task : /\ pc[t] \in FlushLabel \ {"row"} => letter[t] \in Letter
                     /\ pc[t] \in {"open", "commit", "drop"} => env[t] \in Envelope

(* No key seals two transmissions, neither two operations nor an operation *)
(* and its retry: whatever crashes, failed POSTs and lost answers came     *)
(* before, the counter about to go out was never out (sync-engine.ts       *)
(* 139-143: "each retry consumes a fresh counter").                        *)
CounterNeverReused ==
  [][\A t \in Task :
       (pc[t] = "post" /\ pc'[t] \in {"sent", "failed"}) =>
         \A l \in sent[Home[t]] : l.ctr # letter[t].ctr]_vars

(* The persisted ratchet is ahead of everything that ever left the phone,  *)
(* so a crash anywhere in flush() cannot make a restart seal with a used   *)
(* key (the order of saveRatchet and the POST in encryptAndSend).          *)
SavedBeforeSent ==
  \A s \in Side : \A l \in sent[s] : l.ctr < rat[s].send

(* Forward secrecy never destroys a key that is still needed: every        *)
(* envelope on the relay that its receiver has not applied can still be    *)
(* opened, whatever was opened, refused or rolled back before it.          *)
KeysSurvive ==
  \A e \in relay :
    e.letter \notin seen[e.to] => KeyHeld(rat[e.to], e.letter.ctr)

(* Forward secrecy: the key of an applied envelope is gone for good, it is *)
(* neither ahead on the chain nor left in the cache of skipped keys.       *)
KeysForgotten ==
  \A s \in Side : \A l \in seen[s] : ~KeyHeld(rat[s], l.ctr)

(* No key ever seals two different operations, so no two envelopes collide *)
(* at the receiver (sync-engine.ts 139-143).                               *)
OneOpPerKey ==
  \A s \in Side : \A l, m \in sent[s] : l.ctr = m.ctr => l = m

(* o is still queued, or on the relay in an envelope the partner can open. *)
InCustody(o) ==
  LET s == Author[o] p == Other(s) IN
  \/ o \in outbox[s]
  \/ \E e \in relay : /\ e.to = p
                     /\ e.letter.op = o
                     /\ e.letter \notin seen[p]
                     /\ KeyHeld(rat[p], e.letter.ctr)

(* An operation that was enqueued is in custody until it is applied at the *)
(* partner: no crash, failed request or rollback loses it.                 *)
NothingLost ==
  \A o \in Op :
    o \in issued[Author[o]] => InCustody(o) \/ o \in applied[Other(Author[o])]

(* Even when callers overlap on one phone, a row leaves the outbox only    *)
(* after the relay has stored an envelope for it, and the relay row is     *)
(* deleted only after the operation was applied (deleteOutbox after the    *)
(* POST, deleteEnvelope after the commit).  The envelope may be one that   *)
(* nobody can open any more.                                               *)
NothingVanishes ==
  \A o \in Op : o \in issued[Author[o]] =>
    \/ o \in outbox[Author[o]]
    \/ \E e \in relay : e.letter.op = o
    \/ o \in applied[Other(Author[o])]

(* An envelope is applied at most once, across re-listings, crashes,       *)
(* rollbacks and failed deletes; an operation is applied again only when   *)
(* its author sealed it again (isEnvelopeSeen, markEnvelopeSeen).          *)
AppliedOnce ==
  [][\A t \in Task :
       (pc[t] = "commit" /\ pc'[t] = "drop") =>
         LET l == env[t].letter IN
         /\ l \notin seen[Home[t]]
         /\ l.op \in applied[Home[t]] => \E m \in seen[Home[t]] : m.op = l.op]_vars

(* Counters of s that its partner has not opened: lost with a failed POST, *)
(* with a crash, or still on their way.                                    *)
Outstanding(s) ==
  {n \in 0 .. rat[s].send - 1 : \A l \in seen[Other(s)] : l.ctr # n}

(* The channel wedges only when more keys are outstanding than the cache   *)
(* holds: below the bound every waiting envelope can be opened now.        *)
NotWedged ==
  \A e \in relay :
    (e.letter \notin seen[e.to] /\ Cardinality(Outstanding(Other(e.to))) <= MaxSkipped)
      => Decryptable(rat[e.to], e.letter.ctr)

(* The channel implements its promise (module Custody): an operation is in *)
(* custody while it is queued or can still be opened from the relay, and   *)
(* delivered once the partner's projector has applied it.                  *)
Promise == INSTANCE Custody WITH
  custody   <- {o \in Op : InCustody(o) /\ o \notin applied[Other(Author[o])]},
  delivered <- {o \in Op : o \in applied[Other(Author[o])]}

KeepsPromise == Promise!Spec

(* Every operation reaches the partner: "arbitrary write on one device is  *)
(* consistently visible on the other" (implementation-details.md 244).     *)
EventuallyApplied ==
  \A o \in Op : (o \in issued[Author[o]]) ~> (o \in applied[Other(Author[o])])

(* Once the faults are over, every operation reaches the partner, as long  *)
(* as the look-back of pull() covers every day it can be posted on: failed *)
(* POSTs are retried, burnt keys stepped over, a midnight between POST and *)
(* pull bridged (runSyncCycle, bumpOutboxAttempt, pullLookbackDays).       *)
AppliedInReach ==
  \A o \in Op :
    (o \in issued[Author[o]]) ~> (o \in applied[Other(Author[o])] \/ day > Lookback)

=============================================================================

------------------------------- MODULE Launch -------------------------------
(***************************************************************************)
(* One phone, from a cold start to the screens behind the app lock: boot   *)
(* (runBoot, bootstrap, device_master in the keychain, the SQLCipher       *)
(* database, migrations), the biometric gate (app-lock session, background *)
(* policy, AppLockGateRoute, RootStack) and the lockout of the safe-word   *)
(* guesses.                                                                *)
(*                                                                         *)
(* JavaScript runs between awaits; the operating system changes the app    *)
(* state, answers prompts and kills the process in between.  RootStack     *)
(* renders only when the session it subscribes to changes.  What boot      *)
(* makes of the connection row is modelled in Pairing and ConnectionRow.   *)
(***************************************************************************)
EXTENDS Naturals, Sequences, FiniteSets

CONSTANTS
  Threshold,   \* DEFAULT_BACKGROUND_LOCK_THRESHOLD_MS, 1 min
  Recently,    \* RECENTLY_AUTHENTICATED_TTL_MS, 5 min
  Ttl,         \* DEFAULT_APP_LOCK_TTL_MS, 30 min
  Lockout,     \* LOCKOUT_DURATION_MS, 30 s
  MaxFailures, \* MAX_FAILURES_BEFORE_LOCKOUT
  Shipped,     \* Seq(Nat): statements of each migration of the build
  AtOnce,      \* bound: guesses hashed at once, 1 if the screen is never left meanwhile
  MaxClock, MaxGuesses, MaxFaults \* bounds: time, guesses, kills and failures

ASSUME LaunchAssumption ==
  /\ {Threshold, Recently, Ttl, Lockout, MaxFailures} \subseteq Nat \ {0}
  /\ Threshold < Recently /\ Recently <= Ttl
  /\ Shipped \in Seq(Nat \ {0}) /\ AtOnce \in Nat \ {0}
  /\ MaxClock \in Nat \ {0} /\ {MaxGuesses, MaxFaults} \subseteq Nat

VARIABLES
  clock,
  enrolled,  \* BOOLEAN: the device has a biometric or a passcode
  keychain,  \* [master, sealed]: the device_master item, master 0 if none
  dbKey,     \* master the database file was created with, 0 if no file
  schema,    \* Seq(<<migration, statement>>): DDL committed
  applied,   \* SUBSET Nat: table schema_migrations
  boot,      \* STRING: await at which runBoot is, or the phase it ended in
  held,      \* device_master in memory
  stmt,      \* statements executed in the open transaction
  session,   \* [unlockedAt, recent]: useAppLockSession, 0 is null
  auto,      \* BOOLEAN: autoPrompted
  screen,    \* [shown, at]: what RootStack rendered, from which unlockedAt
  attempt,   \* STRING: attempt() of the gate: idle, asking, ok, refused
  app,       \* AppState of the system
  tracker,   \* [since, last]: the closure of the background policy
  guess,     \* [failures, until, running]: the lockout, guesses in flight
  third,     \* history: when the failure that first locked was recorded
  left,      \* history: [at, main]: when the app was left, and for Main
  guesses, faults

device  == <<enrolled, keychain, dbKey, schema, applied>>
booting == <<boot, held, stmt>>
gate    == <<session, auto, screen, attempt>>
words   == <<guess, third, guesses>>
vars == <<clock, device, booting, gate, app, tracker, words, left, faults>>

FreshTracker == [since |-> 0, last |-> "active"]

Locked == [unlockedAt |-> 0, recent |-> 0]

NotLeft == [at |-> 0, main |-> FALSE]

NoGuess == [failures |-> 0, until |-> 0, running |-> 0]

Init ==
  /\ clock = 1
  /\ enrolled \in BOOLEAN
  /\ keychain = [master |-> 0, sealed |-> FALSE]
  /\ dbKey = 0 /\ schema = << >> /\ applied = {}
  /\ boot = "off" /\ held = 0 /\ stmt = 0
  /\ session = Locked /\ auto = FALSE
  /\ screen = [shown |-> "boot", at |-> 0]
  /\ attempt = "idle"
  /\ app = "active" /\ tracker = FreshTracker
  /\ guess = NoGuess /\ third = 0 /\ guesses = 0
  /\ left = NotLeft /\ faults = 0

Fault == faults < MaxFaults /\ faults' = faults + 1

-----------------------------------------------------------------------------
(* Boot.                                                                   *)

At(from, to) == boot = from /\ boot' = to

(* App mounts, or Retry is tapped on the error screen. *)
RunBoot ==
  /\ boot \in {"off", "error"}
  /\ boot' = "load" /\ stmt' = 0
  /\ UNCHANGED <<clock, device, held, gate, app, tracker, words, left, faults>>

(* Mutant: every read that fails means that nothing is stored. *)
NothingStoredOrFailed == TRUE

(* loadDeviceMaster found no item: a failed read is told apart by a second *)
(* look.                                                                   *)
NothingStored == keychain.master = 0

(* getOrCreateDeviceMaster: read, and draw a new one if nothing is there.  *)
LoadMaster ==
  \/ /\ keychain.master # 0
     /\ keychain.sealed => enrolled
     /\ At("load", "open") /\ held' = keychain.master
     /\ left' = NotLeft
     /\ UNCHANGED <<clock, device, stmt, gate, app, tracker, words, faults>>
  \/ /\ NothingStored
     /\ At("load", "save") /\ held' = keychain.master + 1
     /\ UNCHANGED <<clock, device, stmt, gate, app, tracker, words, left, faults>>

(* Sealed where the device can and the write succeeds, else unsealed. *)
SaveMaster ==
  /\ At("save", "open")
  /\ \E sealed \in {enrolled, FALSE} : keychain' = [master |-> held, sealed |-> sealed]
  /\ UNCHANGED <<clock, enrolled, dbKey, schema, applied, held, stmt, gate, app, tracker,
                 words, left, faults>>

(* open creates the file; with another key its first statement fails. *)
OpenDatabase ==
  /\ dbKey \in {0, held}
  /\ At("open", "migrate")
  /\ dbKey' = held
  /\ UNCHANGED <<clock, enrolled, keychain, schema, applied, held, stmt, gate, app, tracker,
                 words, left, faults>>

(* runMigrations: the first that is not applied. *)
Pending(m) == m \in DOMAIN Shipped \ applied /\ \A n \in 1 .. m - 1 : n \in applied

RunStatement ==
  \E m \in DOMAIN Shipped :
    /\ boot = "migrate" /\ Pending(m) /\ stmt < Shipped[m]
    /\ stmt' = stmt + 1
    /\ UNCHANGED <<clock, device, boot, held, gate, app, tracker, words, left, faults>>

Statements(m) == [k \in 1 .. Shipped[m] |-> <<m, k>>]

(* COMMIT, with the row of schema_migrations. *)
CommitMigration ==
  \E m \in DOMAIN Shipped :
    /\ boot = "migrate" /\ Pending(m) /\ stmt = Shipped[m]
    /\ stmt' = 0
    /\ schema' = schema \o Statements(m)
    /\ applied' = applied \cup {m}
    /\ UNCHANGED <<clock, enrolled, keychain, dbKey, boot, held, gate, app, tracker, words,
                   left, faults>>

(* The keychain read counts as the scan of this launch. *)
GrantSession ==
  /\ DOMAIN Shipped \subseteq applied
  /\ At("migrate", "finish")
  /\ session' = [unlockedAt |-> clock, recent |-> clock + Recently]
  /\ auto' = TRUE
  /\ UNCHANGED <<clock, device, held, stmt, screen, attempt, app, tracker, words, left, faults>>

(* Connection, engine, entitlement and prompts are loaded; the navigator   *)
(* mounts.                                                                 *)
Succeed ==
  /\ At("finish", "ready")
  /\ UNCHANGED <<clock, device, held, stmt, gate, app, tracker, words, left, faults>>

(* Any await rejects: a prompt cancelled, a statement failing, an          *)
(* unreadable row.  The transaction is rolled back.                        *)
FailBoot ==
  /\ boot \in {"load", "save", "open", "migrate", "finish"}
  /\ boot' = "error" /\ stmt' = 0
  /\ \/ Fault
     \/ boot = "load" /\ keychain.sealed /\ ~enrolled /\ UNCHANGED faults
     \/ boot = "open" /\ dbKey \notin {0, held} /\ UNCHANGED faults
  /\ UNCHANGED <<clock, device, held, gate, app, tracker, words, left>>

-----------------------------------------------------------------------------
(* The session and what is rendered of it.                                 *)

IsUnlocked == session.unlockedAt # 0 /\ clock < session.unlockedAt + Ttl

RecentlyScanned == clock < session.recent

(* RootStack renders at mount and when unlockedAt changes.  Each render    *)
(* creates the tracker anew; a gate that mounts prompts once.              *)
Render ==
  /\ boot = "ready"
  /\ screen.shown = "boot" \/ screen.at # session.unlockedAt
  /\ LET show   == IF IsUnlocked THEN "main" ELSE "gate"
         mounts == show = "gate" /\ screen.shown # "gate"
     IN /\ screen' = [shown |-> show, at |-> session.unlockedAt]
        /\ attempt' = IF mounts THEN (IF auto THEN "idle" ELSE "asking") ELSE attempt
        /\ auto' = (auto \/ mounts)
  /\ tracker' = FreshTracker
  /\ left' = IF screen.shown # "gate" /\ screen'.shown = "gate" THEN NotLeft ELSE left
  /\ UNCHANGED <<clock, device, booting, session, app, words, faults>>

(* A store that changes renders its subscribers before the next event. *)
Rendered == boot = "ready" => screen.shown # "boot" /\ screen.at = session.unlockedAt

(* attempt(), by the Unlock button. *)
TapUnlock ==
  /\ Rendered
  /\ screen.shown = "gate" /\ app = "active"
  /\ attempt = "idle"
  /\ attempt' = "asking"
  /\ UNCHANGED <<clock, device, booting, session, auto, screen, app, tracker, words, left, faults>>

(* A recent scan or a device without biometrics: unlocked at once. *)
SkipPrompt ==
  /\ Rendered
  /\ attempt = "asking"
  /\ RecentlyScanned \/ ~enrolled
  /\ session' = [session EXCEPT !.unlockedAt = clock]
  /\ attempt' = "idle"
  /\ left' = NotLeft
  /\ UNCHANGED <<clock, device, booting, auto, screen, app, tracker, words, faults>>

(* The user answers the system's prompt. *)
Scan ==
  /\ Rendered
  /\ attempt = "asking" /\ ~RecentlyScanned /\ enrolled
  /\ attempt' = "ok"
  /\ left' = NotLeft
  /\ UNCHANGED <<clock, device, booting, session, auto, screen, app, tracker, words, faults>>

RefuseScan ==
  /\ Rendered
  /\ Fault
  /\ attempt = "asking" /\ ~RecentlyScanned /\ enrolled
  /\ attempt' = "refused"
  /\ UNCHANGED <<clock, device, booting, session, auto, screen, app, tracker, words, left>>

(* Mutant: busy is reset only when the scan succeeds. *)
AnsweredStaysBusy ==
  /\ Rendered
  /\ attempt = "ok"
  /\ session' = [unlockedAt |-> clock, recent |-> clock + Recently]
  /\ attempt' = "idle"
  /\ UNCHANGED <<clock, device, booting, auto, screen, app, tracker, words, left, faults>>

(* The answer reaches the gate. *)
Answered ==
  /\ Rendered
  /\ attempt \in {"ok", "refused"}
  /\ session' = IF attempt = "ok"
                THEN [unlockedAt |-> clock, recent |-> clock + Recently] ELSE session
  /\ attempt' = "idle"
  /\ UNCHANGED <<clock, device, booting, auto, screen, app, tracker, words, left, faults>>

-----------------------------------------------------------------------------
(* The system.                                                             *)

(* Mutant: a change between inactive and background restarts the count. *)
LeftActiveAgain(next) == next # "active"

(* onChange: the moment the app left active. *)
LeftActive(next) == next # "active" /\ tracker.last = "active"

Lock == session' = Locked /\ auto' = FALSE

(* The app state changes; the tracker, once RootStack is mounted, locks on *)
(* a return after the threshold.                                           *)
ChangeApp(next) ==
  /\ Rendered /\ boot # "off" /\ next # app
  /\ app' = next
  /\ IF screen.shown = "boot" THEN UNCHANGED <<tracker, session, auto>>
     ELSE /\ tracker' = [since |-> IF next = "active" THEN 0
                                   ELSE IF LeftActive(next) THEN clock ELSE tracker.since,
                         last |-> next]
          /\ IF /\ next = "active" /\ tracker.last # "active"
                /\ tracker.since # 0 /\ clock >= tracker.since + Threshold
             THEN Lock ELSE UNCHANGED <<session, auto>>
  /\ left' = IF next # "active" /\ app = "active"
             THEN [at |-> clock, main |-> screen.shown = "main"]
             ELSE IF next = "active" /\ clock < left.at + Threshold THEN NotLeft ELSE left
  /\ UNCHANGED <<clock, device, booting, screen, attempt, words, faults>>

Tick ==
  /\ clock < MaxClock
  /\ clock' = clock + 1
  /\ UNCHANGED <<device, booting, gate, app, tracker, words, left, faults>>

(* A passcode is set, or removed. *)
Enroll ==
  /\ Fault
  /\ attempt = "idle" /\ boot \in {"off", "ready", "error"}
  /\ enrolled' = ~enrolled
  /\ UNCHANGED <<clock, keychain, dbKey, schema, applied, booting, gate, app, tracker, words, left>>

(* The process dies: memory is lost, an open transaction rolls back. *)
Kill ==
  /\ Fault
  /\ boot # "off"
  /\ boot' = "off" /\ held' = 0 /\ stmt' = 0
  /\ session' = Locked /\ auto' = FALSE
  /\ screen' = [shown |-> "boot", at |-> 0] /\ attempt' = "idle"
  /\ app' = "active" /\ tracker' = FreshTracker
  /\ guess' = NoGuess /\ third' = 0 /\ left' = NotLeft
  /\ UNCHANGED <<clock, device, guesses>>

-----------------------------------------------------------------------------
(* The lockout of the safe-word guesses, on a screen of Main.              *)

(* Mutant: the screen does not look at the lockout. *)
GuessUnchecked ==
  /\ Rendered
  /\ screen.shown = "main" /\ app = "active"
  /\ guesses < MaxGuesses /\ guesses' = guesses + 1
  /\ guess.running < AtOnce
  /\ guess' = [guess EXCEPT !.running = @ + 1]
  /\ UNCHANGED <<clock, device, booting, gate, app, tracker, third, left, faults>>

(* handleConfirm: refused while locked; the button is disabled while busy, *)
(* which leaving and reopening the screen forgets, so that more guesses    *)
(* than one may be in flight.                                              *)
Guess ==
  /\ Rendered
  /\ screen.shown = "main" /\ app = "active"
  /\ guesses < MaxGuesses /\ guesses' = guesses + 1
  /\ guess.running < AtOnce
  /\ guess.until <= clock
  /\ guess' = [guess EXCEPT !.running = @ + 1]
  /\ UNCHANGED <<clock, device, booting, gate, app, tracker, third, left, faults>>

(* recordFailure *)
RecordFailure(n) ==
  [guess EXCEPT !.failures = n, !.running = @ - 1,
                !.until = IF n >= MaxFailures THEN clock + Lockout ELSE @]

(* The word is wrong, or confirming throws for another reason. *)
WrongGuess ==
  /\ guess.running > 0
  /\ guess' = RecordFailure(guess.failures + 1)
  /\ third' = IF guess'.failures = MaxFailures THEN clock ELSE third
  /\ UNCHANGED <<clock, device, booting, gate, app, tracker, guesses, left, faults>>

(* recordSuccess *)
RightGuess ==
  /\ guess.running > 0
  /\ guess' = [guess EXCEPT !.failures = 0, !.until = 0, !.running = @ - 1]
  /\ third' = 0
  /\ UNCHANGED <<clock, device, booting, gate, app, tracker, guesses, left, faults>>

-----------------------------------------------------------------------------
BootStep ==
  \/ RunBoot \/ LoadMaster \/ SaveMaster \/ OpenDatabase \/ RunStatement
  \/ CommitMigration \/ GrantSession \/ Succeed

Next ==
  \/ BootStep \/ FailBoot
  \/ Render \/ TapUnlock \/ SkipPrompt \/ Scan \/ RefuseScan \/ Answered
  \/ \E next \in {"active", "inactive", "background"} : ChangeApp(next)
  \/ Tick \/ Enroll \/ Kill
  \/ Guess \/ WrongGuess \/ RightGuess

Spec == Init /\ [][Next]_vars

(* Awaits return and renders happen; a user who sees a screen that asks    *)
(* comes back, retries a failed boot, taps Unlock and holds still.         *)
FairSpec ==
  /\ Spec
  /\ WF_vars(BootStep) /\ WF_vars(Render) /\ WF_vars(SkipPrompt) /\ WF_vars(Answered)
  /\ SF_vars(TapUnlock) /\ WF_vars(Scan) /\ WF_vars(ChangeApp("active"))

-----------------------------------------------------------------------------
TypeOK ==
  /\ clock \in 1 .. MaxClock /\ enrolled \in BOOLEAN
  /\ keychain \in [master : 0 .. 1, sealed : BOOLEAN]
  /\ dbKey \in 0 .. 1 /\ applied \subseteq DOMAIN Shipped
  /\ boot \in {"off", "load", "save", "open", "migrate", "finish", "error", "ready"}
  /\ held \in 0 .. 1 /\ stmt \in Nat
  /\ session \in [unlockedAt : 0 .. MaxClock, recent : 0 .. MaxClock + Recently]
  /\ auto \in BOOLEAN
  /\ screen \in [shown : {"boot", "gate", "main"}, at : 0 .. MaxClock]
  /\ attempt \in {"idle", "asking", "ok", "refused"}
  /\ app \in {"active", "inactive", "background"}
  /\ tracker \in [since : 0 .. MaxClock, last : {"active", "inactive", "background"}]
  /\ guess \in [failures : 0 .. MaxGuesses, until : 0 .. MaxClock + Lockout, running : 0 .. AtOnce]
  /\ third \in 0 .. MaxClock /\ left \in [at : 0 .. MaxClock, main : BOOLEAN]
  /\ guesses \in 0 .. MaxGuesses /\ faults \in 0 .. MaxFaults

(* Once a database exists the keychain holds the key it opens with: no     *)
(* failed read, cancelled prompt or kill between drawing, saving and       *)
(* opening leaves the notes behind a key that is lost.                     *)
DatabaseOpens == dbKey # 0 => keychain.master = dbKey

(* A migration is in the schema whole and once, whenever the app was       *)
(* killed, and the screens run on all of them.                             *)
SchemaWhole ==
  /\ \A m \in DOMAIN Shipped : \A k \in 1 .. Shipped[m] :
       Cardinality({i \in DOMAIN schema : schema[i] = <<m, k>>})
         = (IF m \in applied THEN 1 ELSE 0)
  /\ boot = "ready" => applied = DOMAIN Shipped

(* The app was left for the threshold or longer, nobody has scanned or     *)
(* seen the gate since, and Main is shown.                                 *)
AwayTooLong ==
  /\ left.at # 0 /\ clock >= left.at + Threshold
  /\ app = "active" /\ screen.shown = "main"

(* Main, left for the threshold or longer, is not shown again before the   *)
(* gate has been, through any sequence of inactive and background.         *)
AbsenceLocks == left.main /\ AwayTooLong => session.unlockedAt = 0

(* A session that is locked or has run out has no grace left that would    *)
(* let the gate open without a scan.                                       *)
LockedMeansScan == ~IsUnlocked => ~RecentlyScanned

(* From the failure that first locks on, no more wrong guesses get through *)
(* in a lockout than can be hashed at once, whoever leaves and reopens the *)
(* screen to have several in flight when the lock falls or is lifted.      *)
GuessesThrottled ==
  guess.failures >= MaxFailures =>
    (guess.failures - MaxFailures + 1) * Lockout <= AtOnce * (clock - third + Lockout)

(* Whatever prompts were refused, a user who goes on gets in. *)
GateOpens == screen.shown = "gate" ~> screen.shown # "gate"

-----------------------------------------------------------------------------
(* Refuted: past the third wrong answer "subsequent attempts are refused   *)
(* without even running Argon2id" (lockout.ts 9-10): one that was being    *)
(* hashed when the lock fell counts, and is no longer refused.             *)
RefusedWhileLocked ==
  [][guess'.failures > guess.failures /\ guess.failures >= MaxFailures =>
       guess.until <= clock]_vars

(* Refuted: "The gate re-prompts as soon as that window closes"            *)
(* (app-lock/session.ts 11-12): nothing renders when the time has passed.  *)
ExpiryShowsGate ==
  screen.shown = "main" /\ screen.at = session.unlockedAt => IsUnlocked

(* Refuted: Main is behind a scan of this launch also when the item was    *)
(* stored unsealed ("every cold launch ... requires a fresh biometric      *)
(* unlock", app-lock/session.ts 4-5; run.ts 43-46).                        *)
LaunchIsScanned ==
  boot = "ready" /\ enrolled /\ screen.shown = "main" /\ screen.at = session.unlockedAt =>
    keychain.sealed

(* Refuted: an absence locks also if it began during boot or at the gate   *)
(* ("background > threshold", RootStack.tsx 13-14).                        *)
ReturnLocks == AwayTooLong => session.unlockedAt = 0

=============================================================================

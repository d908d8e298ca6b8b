---------------------------- MODULE PhoneProofs ----------------------------
(***************************************************************************)
(* Proofs about a phone outside of the channel.  Launch, for any durations *)
(* in the order the code has them, any migrations and any bounds: the key  *)
(* of the database is never lost, an absence locks, a locked session has   *)
(* no grace, guessing is slowed down.  Pairing, for any number of attempts *)
(* and mishaps: both phones end on one root, an engine has its ratchet.    *)
(***************************************************************************)
EXTENDS Launch, Pairing, FiniteSetTheorems, TLAPS

-----------------------------------------------------------------------------
(* Launch: the inductive invariant, in groups that do not need each other. *)

(* Boot draws a master only when none is stored, and opens the database    *)
(* with the one that is.                                                   *)
KeyInv ==
  /\ dbKey # 0 => keychain.master = dbKey
  /\ boot = "save" => keychain.master = 0 /\ held # 0
  /\ boot = "open" => keychain.master = held /\ held # 0

(* The statements of a migration are in the schema from its commit on.     *)
Once(m, k) ==
  \E i \in DOMAIN schema :
    schema[i] = <<m, k>> /\ \A j \in DOMAIN schema : schema[j] = <<m, k>> => j = i

Absent(m, k) == \A i \in DOMAIN schema : schema[i] # <<m, k>>

SchemaInv ==
  /\ schema \in Seq(Nat \X Nat)
  /\ \A m \in DOMAIN Shipped : \A k \in 1 .. Shipped[m] :
       IF m \in applied THEN Once(m, k) ELSE Absent(m, k)
  /\ boot \in {"finish", "ready"} => applied = DOMAIN Shipped

(* The navigator is mounted once boot has ended, the gate alone asks for a *)
(* scan, and Main was rendered from an unlocked session, which only the    *)
(* background policy takes away.                                           *)
ScreenInv ==
  /\ screen.shown # "boot" => boot = "ready"
  /\ screen.shown = "boot" => tracker = FreshTracker
  /\ attempt # "idle" => screen.shown = "gate" /\ session.unlockedAt \in {0, screen.at}
  /\ screen.shown = "main" =>
       screen.at # 0 /\ session.unlockedAt \in {0, screen.at}
  /\ app = "active" => tracker.last = "active"

(* Between leaving Main and the gate the tracker knows when the app was    *)
(* left, or the session is locked already.                                 *)
AwayInv ==
  left.main =>
    /\ left.at # 0 /\ screen.shown = "main"
    /\ \/ /\ app # "active" /\ session.unlockedAt = screen.at
          /\ tracker.last # "active" /\ tracker.since = left.at
       \/ session.unlockedAt = 0

(* A scan gives its grace and the unlocked session together.               *)
GraceInv ==
  /\ session.unlockedAt = 0 => session.recent = 0
  /\ session.unlockedAt <= clock
  /\ session.recent <= session.unlockedAt + Recently

(* Failures from the one that first locked. *)
Extra == guess.failures - MaxFailures + 1

(* Each lockout since the first has let through at most AtOnce failures,   *)
(* the guesses in flight when it was set; while a lock is on none starts,  *)
(* but those in flight may still fail.                                     *)
GuessInv ==
  guess.failures >= MaxFailures =>
    /\ third <= guess.until /\ guess.until <= clock + Lockout
    /\ Extra * Lockout <= AtOnce * (guess.until - third)
    /\ guess.until > clock =>
         Extra * Lockout + guess.running * Lockout <= AtOnce * (guess.until - third)

-----------------------------------------------------------------------------
(* Type correctness; failures and guesses in flight were all guesses.      *)

GuessCount == guess.failures + guess.running <= guesses

LEMMA Constants ==
  /\ Threshold \in Nat /\ Threshold > 0 /\ Recently \in Nat /\ Recently > Threshold
  /\ Ttl \in Nat /\ Ttl >= Recently /\ Lockout \in Nat /\ Lockout > 0
  /\ MaxFailures \in Nat /\ MaxFailures > 0 /\ AtOnce \in Nat /\ AtOnce > 0
  /\ MaxClock \in Nat /\ MaxClock > 0 /\ MaxGuesses \in Nat /\ MaxFaults \in Nat
  BY LaunchAssumption DEF LaunchAssumption

LEMMA Blank ==
  /\ NotLeft \in [at : 0 .. MaxClock, main : BOOLEAN]
  /\ Locked \in [unlockedAt : 0 .. MaxClock, recent : 0 .. MaxClock + Recently]
  /\ FreshTracker \in [since : 0 .. MaxClock, last : {"active", "inactive", "background"}]
  /\ NoGuess \in [failures : 0 .. MaxGuesses, until : 0 .. MaxClock + Lockout,
                  running : 0 .. AtOnce]
<1>1. 0 \in 0 .. MaxClock /\ 0 \in 0 .. MaxClock + Recently /\ 0 \in 0 .. MaxClock + Lockout
      /\ 0 \in 0 .. MaxGuesses /\ 0 \in 0 .. AtOnce /\ FALSE \in BOOLEAN
  BY Constants
<1> QED
  BY ONLY <1>1 DEF NotLeft, Locked, FreshTracker, NoGuess

LEMMA InitTypeOK == Init => TypeOK /\ GuessCount
<1> SUFFICES ASSUME Init PROVE TypeOK /\ GuessCount
  OBVIOUS
<1> USE Constants, Blank DEF Init
<1>1. keychain \in [master : 0 .. 1, sealed : BOOLEAN] /\ applied \subseteq DOMAIN Shipped
  OBVIOUS
<1>2. screen \in [shown : {"boot", "gate", "main"}, at : 0 .. MaxClock]
  OBVIOUS
<1>3. GuessCount
  BY DEF NoGuess, GuessCount
<1>4. enrolled \in BOOLEAN /\ auto \in BOOLEAN
  OBVIOUS
<1>5. /\ clock \in 1 .. MaxClock /\ dbKey \in 0 .. 1
      /\ boot \in {"off", "load", "save", "open", "migrate", "finish", "error", "ready"}
      /\ held \in 0 .. 1 /\ stmt \in Nat
      /\ attempt \in {"idle", "asking", "ok", "refused"}
      /\ app \in {"active", "inactive", "background"}
      /\ third \in 0 .. MaxClock /\ guesses \in 0 .. MaxGuesses /\ faults \in 0 .. MaxFaults
  OBVIOUS
<1> QED
  BY <1>1, <1>2, <1>3, <1>4, <1>5 DEF TypeOK

LEMMA NextTypeOK == TypeOK /\ GuessCount /\ [Next]_vars => TypeOK' /\ GuessCount'
<1> SUFFICES ASSUME TypeOK, GuessCount, [Next]_vars PROVE TypeOK' /\ GuessCount'
  OBVIOUS
<1> USE Constants, Blank DEF TypeOK, GuessCount, At, Fault
<1>1. CASE RunBoot \/ OpenDatabase
  BY <1>1 DEF RunBoot, OpenDatabase, device, gate, words
<1>2. CASE LoadMaster
  <2>1. held' \in 0 .. 1 /\ boot' \in {"open", "save"} /\ left' \in {left, NotLeft}
    BY <1>2 DEF LoadMaster, NothingStored
  <2>2. left' \in [at : 0 .. MaxClock, main : BOOLEAN]
    BY <2>1
  <2> QED
    BY <1>2, <2>1, <2>2 DEF LoadMaster, device, gate, words
<1>3. CASE SaveMaster
  <2>1. keychain' \in [master : 0 .. 1, sealed : BOOLEAN]
    <3>1. PICK sealed \in {enrolled, FALSE} : keychain' = [master |-> held, sealed |-> sealed]
      BY <1>3 DEF SaveMaster
    <3>2. sealed \in BOOLEAN
      OBVIOUS
    <3> QED
      BY <3>1, <3>2
  <2> QED
    BY <1>3, <2>1 DEF SaveMaster, gate, words
<1>4. CASE RunStatement
  BY <1>4 DEF RunStatement, device, gate, words
<1>5. CASE CommitMigration
  <2>1. PICK m \in DOMAIN Shipped : stmt' = 0 /\ applied' = applied \cup {m}
    BY <1>5 DEF CommitMigration
  <2>2. stmt' \in Nat /\ applied' \subseteq DOMAIN Shipped
    BY <2>1
  <2> QED
    BY <1>5, <2>2 DEF CommitMigration, gate, words
<1>6. CASE GrantSession
  <2>1. session' \in [unlockedAt : 0 .. MaxClock, recent : 0 .. MaxClock + Recently]
    BY <1>6 DEF GrantSession
  <2> QED
    BY <1>6, <2>1 DEF GrantSession, device, words
<1>7. CASE Succeed \/ FailBoot
  BY <1>7 DEF Succeed, FailBoot, device, gate, words
<1>8. CASE Render
  BY <1>8 DEF Render, device, booting, words
<1>9. CASE TapUnlock \/ RefuseScan
  BY <1>9 DEF TapUnlock, RefuseScan, device, booting, words
<1>10. CASE SkipPrompt \/ Scan \/ Answered
  <2>1. session' \in [unlockedAt : 0 .. MaxClock, recent : 0 .. MaxClock + Recently]
    BY <1>10 DEF SkipPrompt, Scan, Answered
  <2>2. left' \in [at : 0 .. MaxClock, main : BOOLEAN]
    BY <1>10 DEF SkipPrompt, Scan, Answered
  <2> QED
    BY <1>10, <2>1, <2>2 DEF SkipPrompt, Scan, Answered, device, booting, words
<1>11. ASSUME NEW next \in {"active", "inactive", "background"}, ChangeApp(next)
      PROVE  TypeOK' /\ GuessCount'
  <2>1. tracker' \in [since : 0 .. MaxClock, last : {"active", "inactive", "background"}]
    BY <1>11 DEF ChangeApp
  <2>2. session' \in {session, Locked} /\ auto' \in BOOLEAN
    BY <1>11 DEF ChangeApp, Lock
  <2>3. session' \in [unlockedAt : 0 .. MaxClock, recent : 0 .. MaxClock + Recently]
    BY <2>2
  <2>4. left' \in [at : 0 .. MaxClock, main : BOOLEAN]
    BY <1>11 DEF ChangeApp
  <2> QED
    BY <1>11, <2>1, <2>2, <2>3, <2>4 DEF ChangeApp, device, booting, words
<1>12. CASE Tick
  BY <1>12 DEF Tick, device, booting, gate, words
<1>13. CASE Enroll
  <2>1. enrolled' \in BOOLEAN /\ faults' \in 0 .. MaxFaults
    BY <1>13 DEF Enroll
  <2> QED
    BY <1>13, <2>1 DEF Enroll, booting, gate, words
<1>14. CASE Kill
  <2>1. /\ session' = Locked /\ tracker' = FreshTracker /\ guess' = NoGuess /\ left' = NotLeft
        /\ boot' = "off" /\ held' = 0 /\ stmt' = 0 /\ auto' = FALSE /\ attempt' = "idle"
        /\ app' = "active" /\ third' = 0
        /\ UNCHANGED <<clock, enrolled, keychain, dbKey, applied, guesses>>
    BY <1>14 DEF Kill, device
  <2>2. /\ screen' \in [shown : {"boot", "gate", "main"}, at : 0 .. MaxClock]
        /\ faults' \in 0 .. MaxFaults
    BY <1>14 DEF Kill
  <2>3. GuessCount'
    BY <2>1 DEF NoGuess
  <2>4. enrolled' \in BOOLEAN /\ auto' \in BOOLEAN
    BY <2>1
  <2>5. /\ tracker' \in [since : 0 .. MaxClock, last : {"active", "inactive", "background"}]
        /\ left' \in [at : 0 .. MaxClock, main : BOOLEAN]
        /\ session' \in [unlockedAt : 0 .. MaxClock, recent : 0 .. MaxClock + Recently]
        /\ guess' \in [failures : 0 .. MaxGuesses, until : 0 .. MaxClock + Lockout,
                       running : 0 .. AtOnce]
        /\ keychain' \in [master : 0 .. 1, sealed : BOOLEAN]
    BY <2>1
  <2> QED
    BY <2>1, <2>2, <2>3, <2>4, <2>5
<1>15. CASE Guess \/ WrongGuess \/ RightGuess
  <2>1. guess \in [failures : Nat, until : Nat, running : Nat]
    OBVIOUS
  <2>2. /\ guess'.failures \in 0 .. MaxGuesses /\ guess'.until \in 0 .. MaxClock + Lockout
        /\ guess'.running \in 0 .. AtOnce /\ guesses' \in 0 .. MaxGuesses
        /\ GuessCount'
    <3>1. CASE Guess
      BY <2>1, <3>1 DEF Guess
    <3>2. CASE WrongGuess
      BY <2>1, <3>2 DEF WrongGuess, RecordFailure
    <3>3. CASE RightGuess
      BY <2>1, <3>3 DEF RightGuess
    <3> QED
      BY <1>15, <3>1, <3>2, <3>3
  <2>3. guess' = [failures |-> guess'.failures, until |-> guess'.until, running |-> guess'.running]
    BY <1>15, <2>1 DEF Guess, WrongGuess, RightGuess, RecordFailure
  <2>4. guess' \in [failures : 0 .. MaxGuesses, until : 0 .. MaxClock + Lockout, running : 0 .. AtOnce]
    BY <2>2, <2>3
  <2>5. third' \in 0 .. MaxClock
    BY <1>15 DEF Guess, WrongGuess, RightGuess
  <2> QED
    BY <1>15, <2>2, <2>4, <2>5 DEF Guess, WrongGuess, RightGuess, device, booting, gate
<1>16. CASE UNCHANGED vars
  BY <1>16 DEF vars, device, booting, gate, words
<1> QED
  BY <1>1, <1>2, <1>3, <1>4, <1>5, <1>6, <1>7, <1>8, <1>9, <1>10, <1>11, <1>12,
     <1>13, <1>14, <1>15, <1>16
     DEF Next, BootStep

-----------------------------------------------------------------------------
(* Each group is preserved by every step.                                  *)

LEMMA NextKeyInv == TypeOK /\ KeyInv /\ [Next]_vars => KeyInv'
<1> SUFFICES ASSUME TypeOK, KeyInv, [Next]_vars PROVE KeyInv'
  OBVIOUS
<1>t. dbKey \in 0 .. 1 /\ held \in 0 .. 1 /\ keychain.master \in 0 .. 1
  BY DEF TypeOK
<1> USE <1>t DEF KeyInv, At
<1>1. CASE LoadMaster
  BY <1>1 DEF LoadMaster, NothingStored, device
<1>2. CASE SaveMaster
  <2>1. keychain'.master = held
    BY <1>2 DEF SaveMaster
  <2> QED
    BY <1>2, <2>1 DEF SaveMaster
<1>3. CASE OpenDatabase
  BY <1>3 DEF OpenDatabase
<1>4. CASE RunBoot \/ RunStatement \/ CommitMigration \/ GrantSession \/ Succeed \/ FailBoot
  BY <1>4 DEF RunBoot, RunStatement, CommitMigration, GrantSession, Succeed, FailBoot, device
<1>5. CASE Kill
  BY <1>5 DEF Kill, device
<1>6. CASE Render \/ TapUnlock \/ SkipPrompt \/ Scan \/ RefuseScan \/ Answered \/ Tick
  BY <1>6 DEF Render, TapUnlock, SkipPrompt, Scan, RefuseScan, Answered, Tick, device, booting
<1>7. ASSUME NEW next, ChangeApp(next) PROVE KeyInv'
  BY <1>7 DEF ChangeApp, device, booting
<1>8. CASE Enroll \/ Guess \/ WrongGuess \/ RightGuess \/ UNCHANGED vars
  BY <1>8 DEF Enroll, Guess, WrongGuess, RightGuess, vars, device, booting
<1> QED
  BY <1>1, <1>2, <1>3, <1>4, <1>5, <1>6, <1>7, <1>8 DEF Next, BootStep

(* A commit adds the whole migration behind what is there.                 *)
LEMMA CommitSchemaInv == TypeOK /\ SchemaInv /\ CommitMigration => SchemaInv'
<1> SUFFICES ASSUME TypeOK, SchemaInv, CommitMigration PROVE SchemaInv'
  OBVIOUS
<1>1. PICK m \in DOMAIN Shipped :
        /\ Pending(m) /\ boot = "migrate" /\ boot' = boot
        /\ schema' = schema \o Statements(m) /\ applied' = applied \cup {m}
  BY DEF CommitMigration
<1>2. m \in Nat /\ Shipped[m] \in Nat /\ m \notin applied /\ Len(schema) \in Nat
  BY <1>1, LaunchAssumption DEF LaunchAssumption, Pending, SchemaInv
<1>3. /\ Statements(m) \in Seq(Nat \X Nat) /\ Len(Statements(m)) = Shipped[m]
      /\ \A k \in 1 .. Shipped[m] : Statements(m)[k] = <<m, k>>
  BY <1>2 DEF Statements
<1> DEFINE L == Len(schema)
           N == Shipped[m]
<1>4. /\ schema' \in Seq(Nat \X Nat) /\ DOMAIN schema' = 1 .. L + N
      /\ \A i \in 1 .. L : schema'[i] = schema[i]
      /\ \A k \in 1 .. N : schema'[L + k] = <<m, k>>
  <2> DEFINE t == Statements(m)
  <2> HIDE DEF t
  <2>1. t \in Seq(Nat \X Nat) /\ Len(t) = N /\ \A k \in 1 .. N : t[k] = <<m, k>>
    BY <1>3 DEF t
  <2>2. schema' = schema \o t
    BY <1>1 DEF t
  <2> QED
    BY <2>1, <2>2 DEF SchemaInv
<1>5. \A i \in DOMAIN schema' : i \in 1 .. L \/ \E k \in 1 .. N : i = L + k
  <2> SUFFICES ASSUME NEW i \in 1 .. L + N, i \notin 1 .. L PROVE \E k \in 1 .. N : i = L + k
    BY <1>4
  <2>1. i - L \in 1 .. N /\ i = L + (i - L)
    BY <1>2
  <2> QED
    BY <2>1
<1>6. DOMAIN schema = 1 .. L
  BY DEF SchemaInv
<1>7. ASSUME NEW n \in DOMAIN Shipped, NEW k \in 1 .. Shipped[n]
      PROVE  IF n \in applied' THEN Once(n, k)' ELSE Absent(n, k)'
  <2>1. CASE n = m
    <3>1. Absent(m, k)
      BY <1>2, <1>7, <2>1 DEF SchemaInv
    <3>2. L + k \in 1 .. L + N /\ k \in Nat
      BY <1>2, <1>7, <2>1
    <3>3. \A j \in DOMAIN schema' : schema'[j] = <<m, k>> => j = L + k
      BY <1>4, <1>5, <1>6, <3>1 DEF Absent
    <3>4. Once(m, k)'
      BY <1>4, <1>7, <2>1, <3>2, <3>3 DEF Once
    <3> QED
      BY <1>1, <2>1, <3>4
  <2>2. CASE n # m
    <3>1. \A i \in DOMAIN schema' : schema'[i] = <<n, k>> => i \in 1 .. L /\ schema[i] = <<n, k>>
      BY <1>4, <1>5, <2>2
    <3>2. \A i \in DOMAIN schema : schema'[i] = schema[i] /\ i \in DOMAIN schema'
      BY <1>2, <1>4, <1>6
    <3>3. Absent(n, k) => Absent(n, k)'
      BY <1>6, <3>1 DEF Absent
    <3>4. Once(n, k) => Once(n, k)'
      BY <1>6, <3>1, <3>2 DEF Once
    <3> QED
      BY <1>1, <1>7, <2>2, <3>3, <3>4 DEF SchemaInv
  <2> QED
    BY <2>1, <2>2
<1> QED
  BY <1>1, <1>4, <1>7 DEF SchemaInv

LEMMA NextSchemaInv == TypeOK /\ SchemaInv /\ [Next]_vars => SchemaInv'
<1> SUFFICES ASSUME TypeOK, SchemaInv, [Next]_vars PROVE SchemaInv'
  OBVIOUS
<1>1. CASE CommitMigration
  BY <1>1, CommitSchemaInv
<1>2. CASE ~CommitMigration
  <2>1. UNCHANGED <<schema, applied>>
    BY <1>2 DEF Next, BootStep, RunBoot, LoadMaster, SaveMaster, OpenDatabase, RunStatement,
                GrantSession, Succeed, FailBoot, Render, TapUnlock, SkipPrompt, Scan, RefuseScan,
                Answered, ChangeApp, Tick, Enroll, Kill, Guess, WrongGuess, RightGuess, vars, device
  <2>2. boot' \in {"finish", "ready"} => applied = DOMAIN Shipped
    BY <1>2 DEF Next, BootStep, RunBoot, LoadMaster, SaveMaster, OpenDatabase, RunStatement,
                GrantSession, Succeed, FailBoot, Render, TapUnlock, SkipPrompt, Scan, RefuseScan,
                Answered, ChangeApp, Tick, Enroll, Kill, Guess, WrongGuess, RightGuess, vars,
                booting, At, SchemaInv, TypeOK
  <2> QED
    BY <2>1, <2>2 DEF SchemaInv, Once, Absent
<1> QED
  BY <1>1, <1>2

LEMMA NextScreenInv == TypeOK /\ ScreenInv /\ [Next]_vars => ScreenInv'
<1> SUFFICES ASSUME TypeOK, ScreenInv, [Next]_vars PROVE ScreenInv'
  OBVIOUS
<1>t. /\ clock \in Nat /\ clock # 0 /\ session.unlockedAt \in Nat /\ screen.at \in Nat
      /\ Locked.unlockedAt = 0 /\ FreshTracker.last = "active"
  BY Constants DEF TypeOK, Locked, FreshTracker
<1> USE <1>t DEF ScreenInv, At
<1>1. CASE BootStep
  <2>1. CASE GrantSession
    BY <2>1 DEF GrantSession
  <2> QED
    BY <1>1, <2>1 DEF BootStep, RunBoot, LoadMaster, SaveMaster, OpenDatabase, RunStatement,
                      CommitMigration, Succeed, gate
<1>2. CASE FailBoot
  BY <1>2 DEF FailBoot, gate
<1>3. CASE Render
  <2>1. /\ boot' = "ready" /\ session' = session /\ app' = app /\ tracker' = FreshTracker
        /\ screen'.at = session.unlockedAt
        /\ screen'.shown = IF IsUnlocked THEN "main" ELSE "gate"
    BY <1>3 DEF Render, booting
  <2>2. screen'.shown = "main" => session.unlockedAt # 0
    BY <2>1 DEF IsUnlocked
  <2>3. attempt' # "idle" => screen'.shown = "gate"
    <3>1. CASE screen'.shown = "gate"
      BY <3>1
    <3>2. CASE screen'.shown = "main"
      <4>1. attempt' = attempt
        BY <1>3, <3>2, <2>1 DEF Render
      <4>2. screen.shown # "boot" => screen.at # session.unlockedAt
        BY <1>3 DEF Render
      <4> QED
        BY <4>1, <4>2, <2>2, <3>2
    <3> QED
      BY <2>1, <3>1, <3>2
  <2> QED
    BY <2>1, <2>2, <2>3
<1>4. CASE TapUnlock \/ Scan \/ RefuseScan
  BY <1>4 DEF TapUnlock, Scan, RefuseScan, Rendered, booting
<1>5. CASE SkipPrompt \/ Answered
  BY <1>5 DEF SkipPrompt, Answered, booting
<1>6. ASSUME NEW next \in {"active", "inactive", "background"}, ChangeApp(next)
      PROVE  ScreenInv'
  <2>1. CASE screen.shown = "boot"
    BY <1>6, <2>1 DEF ChangeApp, booting
  <2>2. CASE screen.shown # "boot"
    <3>1. tracker'.last = next /\ session' \in {session, Locked}
      BY <1>6, <2>2 DEF ChangeApp, Lock
    <3> QED
      BY <1>6, <2>2, <3>1 DEF ChangeApp, booting
  <2> QED
    BY <2>1, <2>2
<1>7. CASE Tick \/ Enroll \/ Guess \/ WrongGuess \/ RightGuess \/ UNCHANGED vars
  BY <1>7 DEF Tick, Enroll, Guess, WrongGuess, RightGuess, vars, booting, gate
<1>8. CASE Kill
  BY <1>8 DEF Kill
<1> QED
  BY <1>1, <1>2, <1>3, <1>4, <1>5, <1>6, <1>7, <1>8 DEF Next

LEMMA NextAwayInv == TypeOK /\ ScreenInv /\ AwayInv /\ [Next]_vars => AwayInv'
<1> SUFFICES ASSUME TypeOK, ScreenInv, AwayInv, [Next]_vars PROVE AwayInv'
  OBVIOUS
<1>t. /\ clock \in Nat /\ clock # 0 /\ session.unlockedAt \in Nat /\ screen.at \in Nat
      /\ left.at \in Nat /\ Threshold \in Nat /\ left.main \in BOOLEAN
      /\ Locked.unlockedAt = 0 /\ ~NotLeft.main
  BY Constants DEF TypeOK, Locked, NotLeft
<1> USE <1>t DEF AwayInv, At
<1>1. CASE BootStep
  <2>1. ~left.main
    BY <1>1 DEF ScreenInv, BootStep, RunBoot, LoadMaster, SaveMaster, OpenDatabase, RunStatement,
                CommitMigration, GrantSession, Succeed
  <2>2. left' \in {left, NotLeft}
    BY <1>1 DEF BootStep, RunBoot, LoadMaster, SaveMaster, OpenDatabase, RunStatement,
                CommitMigration, GrantSession, Succeed
  <2> QED
    BY <2>1, <2>2
<1>2. CASE FailBoot
  BY <1>2 DEF FailBoot, gate
<1>3. CASE Render
  <2>1. CASE left.main
    <3>1. session.unlockedAt = 0
      BY <1>3, <2>1 DEF Render
    <3>2. screen'.shown = "gate"
      BY <1>3, <3>1 DEF Render, IsUnlocked
    <3> QED
      BY <1>3, <2>1, <3>2 DEF Render
  <2>2. CASE ~left.main
    BY <1>3, <2>2 DEF Render
  <2> QED
    BY <2>1, <2>2
<1>4. CASE TapUnlock \/ SkipPrompt \/ Scan \/ RefuseScan \/ Answered
  BY <1>4 DEF TapUnlock, SkipPrompt, Scan, RefuseScan, Answered, ScreenInv
<1>5. ASSUME NEW next \in {"active", "inactive", "background"}, ChangeApp(next)
      PROVE  AwayInv'
  <2> SUFFICES ASSUME left'.main PROVE AwayInv'
    OBVIOUS
  <2>1. CASE next # "active" /\ app = "active"
    <3>1. left'.at = clock /\ screen.shown = "main" /\ screen' = screen /\ app' = next
      BY <1>5, <2>1 DEF ChangeApp
    <3>2. session.unlockedAt = screen.at /\ session' = session
      BY <1>5, <2>1, <3>1 DEF ChangeApp, Rendered, ScreenInv
    <3>3. tracker'.since = clock /\ tracker'.last = next
      BY <1>5, <2>1, <3>1 DEF ChangeApp, LeftActive, ScreenInv
    <3> QED
      BY <2>1, <3>1, <3>2, <3>3
  <2>2. CASE next # "active" /\ app # "active"
    <3>1. left' = left /\ screen' = screen /\ app' = next
      BY <1>5, <2>2 DEF ChangeApp
    <3>2. session' = session
      BY <1>5, <2>2 DEF ChangeApp
    <3>3. tracker.last # "active" =>
            tracker'.since = tracker.since /\ tracker'.last = next
      BY <1>5, <2>2, <3>1 DEF ChangeApp, LeftActive
    <3> QED
      BY <2>2, <3>1, <3>2, <3>3
  <2>3. CASE next = "active"
    <3>1. left' = left /\ screen' = screen /\ ~(clock < left.at + Threshold)
      BY <1>5, <2>3 DEF ChangeApp
    <3>2. session'.unlockedAt = 0
      <4>1. CASE session.unlockedAt = 0
        BY <1>5, <4>1 DEF ChangeApp, Lock
      <4>2. CASE session.unlockedAt # 0
        <5>1. /\ tracker.last # "active" /\ tracker.since = left.at /\ left.at # 0
              /\ screen.shown = "main"
          BY <3>1, <4>2
        <5> QED
          BY <1>5, <2>3, <3>1, <5>1 DEF ChangeApp, Lock
      <4> QED
        BY <4>1, <4>2
    <3> QED
      BY <3>1, <3>2
  <2> QED
    BY <2>1, <2>2, <2>3
<1>6. CASE Tick \/ Enroll \/ Guess \/ WrongGuess \/ RightGuess \/ UNCHANGED vars
  BY <1>6 DEF Tick, Enroll, Guess, WrongGuess, RightGuess, vars, gate
<1>7. CASE Kill
  BY <1>7 DEF Kill
<1> QED
  BY <1>1, <1>2, <1>3, <1>4, <1>5, <1>6, <1>7 DEF Next

LEMMA NextGraceInv == TypeOK /\ GraceInv /\ [Next]_vars => GraceInv'
<1> SUFFICES ASSUME TypeOK, GraceInv, [Next]_vars PROVE GraceInv'
  OBVIOUS
<1>t. /\ clock \in Nat /\ clock # 0 /\ Recently \in Nat
      /\ session \in [unlockedAt : Nat, recent : Nat]
      /\ Locked.unlockedAt = 0 /\ Locked.recent = 0
  BY Constants DEF TypeOK, Locked
<1> USE <1>t DEF GraceInv
<1>1. CASE GrantSession \/ Answered
  BY <1>1 DEF GrantSession, Answered
<1>2. CASE SkipPrompt
  <2>1. session'.unlockedAt = clock /\ session'.recent = session.recent
    BY <1>2 DEF SkipPrompt
  <2> QED
    BY <1>2, <2>1 DEF SkipPrompt
<1>3. ASSUME NEW next, ChangeApp(next) PROVE GraceInv'
  <2>1. session' \in {session, Locked} /\ clock' = clock
    BY <1>3 DEF ChangeApp, Lock
  <2> QED
    BY <2>1
<1>4. CASE Kill
  BY <1>4 DEF Kill
<1>5. CASE Tick
  BY <1>5 DEF Tick, gate
<1>6. CASE RunBoot \/ LoadMaster \/ SaveMaster \/ OpenDatabase \/ RunStatement
           \/ CommitMigration \/ Succeed \/ FailBoot
  BY <1>6 DEF RunBoot, LoadMaster, SaveMaster, OpenDatabase, RunStatement, CommitMigration,
              Succeed, FailBoot, gate
<1>7. CASE Render \/ TapUnlock \/ Scan \/ RefuseScan \/ Enroll \/ Guess \/ WrongGuess
           \/ RightGuess \/ UNCHANGED vars
  BY <1>7 DEF Render, TapUnlock, Scan, RefuseScan, Enroll, Guess, WrongGuess, RightGuess, vars,
              gate
<1> QED
  BY <1>1, <1>2, <1>3, <1>4, <1>5, <1>6, <1>7 DEF Next, BootStep

LEMMA Products ==
  ASSUME NEW k \in Nat, NEW a \in Nat, NEW b \in Nat
  PROVE  /\ k * a \in Nat /\ (a + 1) * k = a * k + k /\ k * (a + b) = k * a + k * b
         /\ a <= b => k * a <= k * b /\ a * k <= b * k
<1>1. k * a \in Nat /\ (a + 1) * k = a * k + k /\ k * (a + b) = k * a + k * b
  OBVIOUS
<1>2. ASSUME a <= b PROVE k * a <= k * b /\ a * k <= b * k
  <2> DEFINE d == b - a
  <2>1. d \in Nat /\ b = a + d
    BY <1>2
  <2>2. k * d \in Nat
    BY <2>1
  <2> HIDE DEF d
  <2>3. k * b = k * a + k * d /\ b * k = k * b /\ a * k = k * a
    BY <2>1
  <2>4. k * a \in Nat
    OBVIOUS
  <2> QED
    BY <2>2, <2>3, <2>4
<1> QED
  BY <1>1, <1>2

LEMMA NextGuessInv == TypeOK /\ GuessInv /\ [Next]_vars => GuessInv'
<1> SUFFICES ASSUME TypeOK, GuessInv, [Next]_vars PROVE GuessInv'
  OBVIOUS
<1>t. /\ clock \in Nat /\ third \in Nat /\ Lockout \in Nat
      /\ MaxFailures \in Nat /\ MaxFailures > 0 /\ AtOnce \in Nat
      /\ guess \in [failures : Nat, until : Nat, running : 0 .. AtOnce]
  BY Constants DEF TypeOK
<1>1. CASE Guess
  <2>1. /\ guess.until <= clock /\ clock' = clock /\ third' = third
        /\ guess'.failures = guess.failures /\ guess'.until = guess.until
    BY <1>1, <1>t DEF Guess
  <2> QED
    BY <1>t, <2>1 DEF GuessInv, Extra
<1>2. CASE WrongGuess
  <2> DEFINE n == guess.failures + 1
             r == guess.running - 1
  <2>1. /\ guess'.failures = n /\ guess'.running = r /\ clock' = clock
        /\ n >= MaxFailures => guess'.until = clock + Lockout
        /\ third' = IF n = MaxFailures THEN clock ELSE third
    BY <1>2, <1>t DEF WrongGuess, RecordFailure
  <2>2. r \in Nat /\ guess.running = r + 1 /\ r + 1 <= AtOnce
    BY <1>2, <1>t DEF WrongGuess
  <2>3. r * Lockout \in Nat /\ guess.running * Lockout = r * Lockout + Lockout
    BY <1>t, <2>2, Products
  <2>4. r * Lockout + Lockout <= AtOnce * Lockout
    <3>1. (r + 1) * Lockout <= AtOnce * Lockout
      BY <1>t, <2>2, Products
    <3> QED
      BY <2>2, <2>3, <3>1
  <2>5. CASE n < MaxFailures
    BY <1>t, <2>1, <2>5 DEF GuessInv
  <2>6. CASE n = MaxFailures
    <3>1. Extra' = 1 /\ Extra' * Lockout = Lockout
      BY <1>t, <2>1, <2>6 DEF Extra
    <3>2. third' = clock /\ guess'.until = clock + Lockout /\ guess'.until - third' = Lockout
      BY <1>t, <2>1, <2>6
    <3> QED
      BY <1>t, <2>1, <2>3, <2>4, <3>1, <3>2 DEF GuessInv
  <2>7. CASE n > MaxFailures
    <3> DEFINE e == Extra
               a == guess.until - third
               b == clock + Lockout - third
    <3>1. /\ e \in Nat /\ Extra' = e + 1 /\ third' = third
          /\ guess'.until = clock + Lockout
      BY <1>t, <2>1, <2>7 DEF Extra
    <3>2. /\ third <= guess.until /\ guess.until <= clock + Lockout
          /\ e * Lockout <= AtOnce * a
          /\ guess.until > clock => e * Lockout + guess.running * Lockout <= AtOnce * a
      BY <1>t, <2>7 DEF GuessInv
    <3>3. a \in Nat /\ b \in Nat /\ a <= b
      BY <1>t, <3>2
    <3>4. (e + 1) * Lockout = e * Lockout + Lockout /\ e * Lockout \in Nat
      BY <1>t, <3>1, Products
    <3> HIDE DEF e, a, b
    <3>5. e * Lockout + Lockout + r * Lockout <= AtOnce * b
      <4>1. CASE guess.until > clock
        <5>1. AtOnce * a <= AtOnce * b /\ AtOnce * a \in Nat /\ AtOnce * b \in Nat
          BY <1>t, <3>3, Products
        <5> QED
          BY <1>t, <2>3, <3>2, <3>4, <4>1, <5>1
      <4>2. CASE guess.until <= clock
        <5>1. a + Lockout \in Nat /\ a + Lockout <= b
          BY <1>t, <3>2, <4>2 DEF a, b
        <5>2. AtOnce * (a + Lockout) = AtOnce * a + AtOnce * Lockout
          BY <1>t, <3>3, Products
        <5>3. AtOnce * (a + Lockout) <= AtOnce * b
          BY <1>t, <3>3, <5>1, Products
        <5>4. AtOnce * a \in Nat /\ AtOnce * b \in Nat /\ AtOnce * Lockout \in Nat
          BY <1>t, <3>3, Products
        <5> QED
          BY <1>t, <2>3, <2>4, <3>2, <3>4, <5>2, <5>3, <5>4
      <4> QED
        BY <1>t, <4>1, <4>2
    <3>6. guess'.until - third' = b
      BY <1>t, <3>1 DEF b
    <3>7. AtOnce * b \in Nat
      BY <1>t, <3>3, Products
    <3>8. Extra' * Lockout <= AtOnce * b
      BY <1>t, <2>3, <3>1, <3>4, <3>5, <3>7
    <3>9. Extra' * Lockout + guess'.running * Lockout <= AtOnce * b
      BY <1>t, <2>1, <2>3, <3>1, <3>4, <3>5, <3>7
    <3>10. third' <= guess'.until /\ guess'.until <= clock' + Lockout
      BY <1>t, <2>1, <3>1, <3>2
    <3> QED
      BY <3>6, <3>8, <3>9, <3>10 DEF GuessInv
  <2> QED
    BY <1>t, <2>5, <2>6, <2>7
<1>3. CASE RightGuess
  <2>1. guess'.failures = 0 /\ guess'.running = guess.running - 1
    BY <1>3, <1>t DEF RightGuess
  <2> QED
    BY <1>t, <2>1 DEF GuessInv
<1>4. CASE Kill
  BY <1>4, <1>t DEF Kill, NoGuess, GuessInv
<1>5. CASE Tick
  BY <1>5, <1>t DEF Tick, words, GuessInv, Extra
<1>6. CASE BootStep \/ FailBoot
  <2>1. UNCHANGED <<clock, guess, third>>
    BY <1>6 DEF BootStep, RunBoot, LoadMaster, SaveMaster, OpenDatabase, RunStatement,
                CommitMigration, GrantSession, Succeed, FailBoot, words
  <2> QED
    BY <2>1 DEF GuessInv, Extra
<1>7. CASE Render \/ TapUnlock \/ SkipPrompt \/ Scan \/ RefuseScan \/ Answered \/ Enroll
           \/ UNCHANGED vars
  <2>1. UNCHANGED <<clock, guess, third>>
    BY <1>7 DEF Render, TapUnlock, SkipPrompt, Scan, RefuseScan, Answered, Enroll, vars, words
  <2> QED
    BY <2>1 DEF GuessInv, Extra
<1>8. ASSUME NEW next, ChangeApp(next) PROVE GuessInv'
  BY <1>8 DEF ChangeApp, words, GuessInv, Extra
<1> QED
  BY <1>1, <1>2, <1>3, <1>4, <1>5, <1>6, <1>7, <1>8 DEF Next

-----------------------------------------------------------------------------
(* The inductive invariants hold throughout.                               *)

LEMMA InitGroups == Init => KeyInv /\ ScreenInv /\ AwayInv /\ GraceInv /\ GuessInv
<1> SUFFICES ASSUME Init PROVE KeyInv /\ ScreenInv /\ AwayInv /\ GraceInv /\ GuessInv
  OBVIOUS
<1> USE Constants DEF Init, Locked, FreshTracker, NotLeft, NoGuess
<1>1. KeyInv /\ ScreenInv
  BY DEF KeyInv, ScreenInv
<1>2. AwayInv /\ GraceInv
  BY DEF AwayInv, GraceInv
<1>3. GuessInv
  BY DEF GuessInv
<1> QED
  BY <1>1, <1>2, <1>3

(* Every value stays in its range, through any number of launches.         *)
THEOREM LaunchTypeOK == Spec => []TypeOK
<1>1. Spec => [](TypeOK /\ GuessCount)
  BY InitTypeOK, NextTypeOK, PTL DEF Spec
<1> QED
  BY <1>1, PTL

(* Once a database exists, the keychain holds the key it opens with: no    *)
(* failed read, cancelled prompt or kill between drawing, saving and       *)
(* opening loses it.                                                       *)
THEOREM LaunchDatabaseOpens == Spec => []DatabaseOpens
<1>1. Init /\ TypeOK => KeyInv
  BY InitGroups
<1>2. KeyInv => DatabaseOpens
  BY DEF KeyInv, DatabaseOpens
<1> QED
  BY <1>1, <1>2, InitGroups, NextKeyInv, LaunchTypeOK, PTL DEF Spec

(* A migration is in the schema whole and once, wherever the app was       *)
(* killed or a statement failed, and the screens run on all of them.       *)
THEOREM LaunchSchemaWhole == Spec => []SchemaWhole
<1>1. Init => SchemaInv
  BY DEF Init, SchemaInv, Absent
<1>2. SchemaInv => SchemaWhole
  <2> SUFFICES ASSUME SchemaInv, NEW m \in DOMAIN Shipped, NEW k \in 1 .. Shipped[m]
               PROVE  Cardinality({i \in DOMAIN schema : schema[i] = <<m, k>>})
                        = (IF m \in applied THEN 1 ELSE 0)
    BY DEF SchemaInv, SchemaWhole
  <2> DEFINE S == {i \in DOMAIN schema : schema[i] = <<m, k>>}
  <2>1. CASE m \in applied
    <3>1. PICK i \in DOMAIN schema :
            schema[i] = <<m, k>> /\ \A j \in DOMAIN schema : schema[j] = <<m, k>> => j = i
      BY <2>1 DEF SchemaInv, Once
    <3>2. S = {i}
      BY <3>1
    <3> QED
      BY <2>1, <3>2, FS_Singleton
  <2>2. CASE m \notin applied
    <3>1. S = {}
      BY <2>2 DEF SchemaInv, Absent
    <3> QED
      BY <2>2, <3>1, FS_EmptySet
  <2> QED
    BY <2>1, <2>2
<1> QED
  BY <1>1, <1>2, NextSchemaInv, LaunchTypeOK, PTL DEF Spec

(* Main, left for the threshold or longer, is not shown again before the   *)
(* gate has been, whatever the app states passed through and however the   *)
(* renders fall between them.                                              *)
THEOREM LaunchAbsenceLocks == Spec => []AbsenceLocks
<1>1. ScreenInv /\ AwayInv => AbsenceLocks
  BY DEF AwayInv, AbsenceLocks, AwayTooLong
<1> QED
  BY <1>1, InitGroups, NextScreenInv, NextAwayInv, LaunchTypeOK, PTL DEF Spec

(* A session that is locked or has run out has no grace left that would    *)
(* open the gate without a scan.                                           *)
THEOREM LaunchLockedMeansScan == Spec => []LockedMeansScan
<1>1. TypeOK /\ GraceInv => LockedMeansScan
  BY Constants DEF TypeOK, GraceInv, LockedMeansScan, IsUnlocked, RecentlyScanned
<1> QED
  BY <1>1, InitGroups, NextGraceInv, LaunchTypeOK, PTL DEF Spec

(* From the failure that first locks on, no more wrong guesses get through *)
(* in a lockout than can be hashed at once, although the screen may be     *)
(* left and reopened while a guess is in flight.                           *)
THEOREM LaunchGuessesThrottled == Spec => []GuessesThrottled
<1>1. TypeOK /\ GuessInv => GuessesThrottled
  <2> SUFFICES ASSUME TypeOK, GuessInv, guess.failures >= MaxFailures
               PROVE  Extra * Lockout <= AtOnce * (clock - third + Lockout)
    BY DEF GuessesThrottled, Extra
  <2>t. /\ clock \in Nat /\ third \in Nat /\ Lockout \in Nat /\ MaxFailures \in Nat
        /\ AtOnce \in Nat /\ guess \in [failures : Nat, until : Nat, running : Nat]
    BY Constants DEF TypeOK
  <2> DEFINE a == guess.until - third
             b == clock - third + Lockout
  <2>1. /\ Extra * Lockout <= AtOnce * a
        /\ third <= guess.until /\ guess.until <= clock + Lockout
    BY DEF GuessInv
  <2>2. a \in Nat /\ b \in Nat /\ a <= b
    BY <2>t, <2>1
  <2>3. Extra \in Nat
    BY <2>t DEF Extra
  <2> HIDE DEF a, b
  <2>4. AtOnce * a <= AtOnce * b /\ AtOnce * a \in Nat /\ AtOnce * b \in Nat
    BY <2>t, <2>2, Products
  <2>5. Extra * Lockout \in Nat
    BY <2>t, <2>3, Products
  <2>6. Extra * Lockout <= AtOnce * b
    BY <2>1, <2>4, <2>5
  <2> QED
    BY <2>6 DEF b
<1>2. TypeOK /\ GuessInv /\ [Next]_vars => GuessInv'
  BY NextGuessInv
<1> QED
  BY <1>1, <1>2, InitGroups, LaunchTypeOK, PTL DEF Spec

-----------------------------------------------------------------------------
(* Pairing: the inductive invariant.                                       *)

(* A phone names its hellos itself, and has found one from the moment a    *)
(* code is shown.                                                          *)
HelloInv(s) ==
  /\ hello[s] # NoHello => hello[s].by = s
  /\ found[s] # NoHello => hello[s] # NoHello
  /\ phase[s] \notin {"choose", "error", "off"} => hello[s] # NoHello
  /\ phase[s] \notin {"choose", "error", "off", "scanning"} => found[s] # NoHello

(* A paired phone starts no run: the connection is the only one, its root  *)
(* is of the attempt the phone was left with, and an engine is built of it *)
(* and its ratchet.                                                        *)
RowInv(s) ==
  /\ phase[s] \in {"scanning", "code_shown", "handshake", "error", "clearing", "row"} =>
       rows[s] = << >>
  /\ rows[s] # << >> => rows[s] = <<Root(s)>>
  /\ engine[s] # NoRoot =>
       rows[s] # << >> /\ engine[s] = Root(s) /\ engine[s] \in ratchets[s]

(* The user has confirmed a code, and the attempt has not been given up. *)
Confirmed(s) == phase[s] \in {"handshake", "clearing", "row"} \/ rows[s] # << >>

(* What was confirmed was the partner's, and if the partner has confirmed  *)
(* too it was the same code.                                               *)
ConfirmInv(s) ==
  Confirmed(s) =>
    /\ hello[s].by = s /\ found[s].by = Other(s)
    /\ Confirmed(Other(s)) => Code(s) = Code(Other(s))

Hellos == \A s \in Side : HelloInv(s)

Connections == \A s \in Side : RowInv(s)

Confirmations == \A s \in Side : ConfirmInv(s)

-----------------------------------------------------------------------------
LEMMA OtherSide ==
  \A s \in Side : Other(s) \in Side /\ Other(Other(s)) = s /\ Other(s) # s /\ Side = {s, Other(s)}
  BY DEF Side, Other

LEMMA NoHelloApart ==
  /\ NoHello \notin Hello /\ NoHello.by \notin Side
  /\ \A h \in Hello : h.by \in Side
  BY DEF NoHello, Hello, Side

(* What a step of one phone leaves alone on the other, and on itself.      *)
LEMMA Goes1 ==
  ASSUME PairTypeOK, NEW s \in Side, NEW from, NEW to, Goes(s, from, to)
  PROVE  /\ phase[s] = from /\ phase'[s] = to
         /\ \A q \in Side : q # s => phase'[q] = phase[q]
  BY DEF Goes, PairTypeOK

LEMMA NextHelloInv ==
  PairTypeOK /\ Hellos /\ [PairNext]_pairVars => PairTypeOK' /\ Hellos'
<1> SUFFICES ASSUME PairTypeOK, \A s \in Side : HelloInv(s), [PairNext]_pairVars
             PROVE  PairTypeOK' /\ (\A s \in Side : HelloInv(s)')
  BY DEF Hellos
<1>c. MaxAttempts \in Nat /\ MaxAttempts > 0 /\ MaxMishaps \in Nat
  BY PairingAssumption DEF PairingAssumption
<1>1. CASE PostHello \/ InsertHello \/ ExpireHello
  <2>1. slot' \in Seq(Hello)
    <3>1. CASE InsertHello
      <4>1. PICK h \in Hello : slot' = Append(slot, h)
        BY <3>1 DEF InsertHello, PairTypeOK
      <4> QED
        BY <4>1 DEF PairTypeOK
    <3>2. CASE PostHello
      BY <3>2 DEF PairTypeOK, PostHello
    <3>3. CASE ExpireHello
      BY <3>3 DEF PairTypeOK, ExpireHello
    <3> QED
      BY <1>1, <3>1, <3>2, <3>3
  <2>2. posting' \subseteq Hello /\ arriving' \subseteq Hello
    BY <1>1 DEF PairTypeOK, PostHello, InsertHello, ExpireHello
  <2>3. UNCHANGED <<phase, hello, found, tries, pending, rows, ratchets, engine, mishaps>>
    BY <1>1 DEF PostHello, InsertHello, ExpireHello, run, persisted
  <2>4. smooth' \in BOOLEAN
    BY <1>1 DEF PairTypeOK, PostHello, InsertHello, ExpireHello
  <2> QED
    BY <2>1, <2>2, <2>3, <2>4 DEF PairTypeOK, HelloInv
<1>2. ASSUME NEW s \in Side, StartRelay(s) PROVE PairTypeOK' /\ (\A q \in Side : HelloInv(q)')
  <2>1. tries'[s] = tries[s] + 1 /\ tries' \in [Side -> 0 .. MaxAttempts]
    BY <1>c, <1>2 DEF StartRelay, PairTypeOK
  <2>2. hello'[s] \in Hello /\ hello'[s].by = s /\ hello' \in [Side -> Hello \cup {NoHello}]
    <3>1. [by |-> s, nr |-> tries'[s]] \in Hello
      BY <1>c, <1>2, <2>1 DEF StartRelay, PairTypeOK, Hello
    <3> QED
      BY <1>2, <3>1 DEF StartRelay, PairTypeOK
  <2>3. /\ found' \in [Side -> Hello \cup {NoHello}] /\ pending' \in [Side -> BOOLEAN]
        /\ posting' \subseteq Hello /\ found'[s] = NoHello
    BY <1>2, <2>2 DEF StartRelay, PairTypeOK
  <2>4. phase'[s] = "scanning" /\ \A q \in Side : q # s => phase'[q] = phase[q]
    BY <1>2, Goes1 DEF StartRelay
  <2>5. phase' \in [Side -> {"choose", "scanning", "code_shown", "handshake", "error",
                             "clearing", "row", "ratchet", "done", "off"}]
    BY <1>2 DEF StartRelay, Goes, PairTypeOK
  <2>6. PairTypeOK'
    BY <1>2, <2>1, <2>2, <2>3, <2>5 DEF StartRelay, PairTypeOK
  <2>7. \A q \in Side : q # s => hello'[q] = hello[q] /\ found'[q] = found[q]
    BY <1>2 DEF StartRelay, PairTypeOK
  <2> QED
    BY <2>2, <2>3, <2>4, <2>6, <2>7, NoHelloApart DEF HelloInv
<1>3. ASSUME NEW s \in Side, Poll(s) PROVE PairTypeOK' /\ (\A q \in Side : HelloInv(q)')
  <2>1. PICK i \in DOMAIN slot : found' = [found EXCEPT ![s] = slot[i]]
    BY <1>3 DEF Poll
  <2>2. slot[i] \in Hello
    BY DEF PairTypeOK
  <2>3. /\ found' \in [Side -> Hello \cup {NoHello}] /\ found'[s] # NoHello
        /\ \A q \in Side : q # s => found'[q] = found[q]
    BY <2>1, <2>2, NoHelloApart DEF PairTypeOK
  <2>4. /\ phase[s] = "scanning" /\ phase'[s] = "code_shown"
        /\ \A q \in Side : q # s => phase'[q] = phase[q]
    BY <1>3, Goes1 DEF Poll
  <2>5. phase' \in [Side -> {"choose", "scanning", "code_shown", "handshake", "error",
                             "clearing", "row", "ratchet", "done", "off"}]
    BY <1>3 DEF Poll, Goes, PairTypeOK
  <2>6. PairTypeOK' /\ hello' = hello
    BY <1>3, <2>3, <2>5 DEF Poll, PairTypeOK, server, persisted
  <2> QED
    BY <2>3, <2>4, <2>6 DEF HelloInv
<1>4. ASSUME NEW s \in Side,
             \/ ConfirmCode(s) \/ HandshakeDone(s) \/ ClearPending(s) \/ InsertConnection(s)
             \/ InsertRatchet(s) \/ BuildEngine(s) \/ Cancel(s) \/ TryAgain(s)
             \/ TransportError(s) \/ KillApp(s) \/ BootAgain(s)
      PROVE  PairTypeOK' /\ (\A q \in Side : HelloInv(q)')
  <2>1. UNCHANGED <<hello, found, tries>>
    BY <1>4 DEF ConfirmCode, HandshakeDone, ClearPending, InsertConnection, InsertRatchet,
                BuildEngine, Cancel, TryAgain, TransportError, KillApp, BootAgain
  <2>2. /\ \A q \in Side : q # s => phase'[q] = phase[q]
        /\ phase'[s] \in {"choose", "error", "off"}
             \/ phase[s] \notin {"choose", "error", "off", "scanning"}
    BY <1>4 DEF Goes, PairTypeOK, ConfirmCode, HandshakeDone, ClearPending, InsertConnection,
                InsertRatchet, BuildEngine, Cancel, TryAgain, TransportError, KillApp, BootAgain
  <2>3. phase' \in [Side -> {"choose", "scanning", "code_shown", "handshake", "error",
                             "clearing", "row", "ratchet", "done", "off"}]
    BY <1>4 DEF Goes, PairTypeOK, ConfirmCode, HandshakeDone, ClearPending, InsertConnection,
                InsertRatchet, BuildEngine, Cancel, TryAgain, TransportError, KillApp, BootAgain
  <2>4. slot' = slot /\ arriving' = arriving /\ posting' \subseteq posting
    BY <1>4 DEF ConfirmCode, HandshakeDone, ClearPending, InsertConnection, InsertRatchet,
                BuildEngine, Cancel, TryAgain, TransportError, KillApp, BootAgain, server
  <2>5. phase[s] \in {"row", "ratchet"} => Root(s) \in SUBSET Hello
    BY DEF Root, HelloInv, PairTypeOK
  <2>6. rows' \in [Side -> Seq(SUBSET Hello)]
    <3>1. CASE InsertConnection(s)
      <4>1. Append(rows[s], Root(s)) \in Seq(SUBSET Hello)
        BY <2>5, <3>1 DEF InsertConnection, Goes, PairTypeOK
      <4> QED
        BY <3>1, <4>1 DEF InsertConnection, PairTypeOK
    <3>2. CASE ~InsertConnection(s)
      BY <1>4, <3>2 DEF PairTypeOK, ConfirmCode, HandshakeDone, ClearPending, InsertRatchet,
                        BuildEngine, Cancel, TryAgain, TransportError, KillApp, BootAgain, persisted
    <3> QED
      BY <3>1, <3>2
  <2>7. ratchets' \in [Side -> SUBSET SUBSET Hello]
    <3>1. CASE InsertRatchet(s)
      BY <2>5, <3>1 DEF InsertRatchet, Goes, PairTypeOK
    <3>2. CASE ~InsertRatchet(s)
      BY <1>4, <3>2 DEF PairTypeOK, ConfirmCode, HandshakeDone, ClearPending, InsertConnection,
                        BuildEngine, Cancel, TryAgain, TransportError, KillApp, BootAgain, persisted
    <3> QED
      BY <3>1, <3>2
  <2>8. engine' \in [Side -> SUBSET Hello]
    <3>1. Buildable(s) \in SUBSET Hello
      BY DEF Buildable, NoRoot, PairTypeOK
    <3> QED
      BY <1>4, <3>1 DEF PairTypeOK, NoRoot, ConfirmCode, HandshakeDone, ClearPending,
         InsertConnection, InsertRatchet, BuildEngine, Cancel, TryAgain, TransportError, KillApp,
         BootAgain
  <2>9. pending' \in [Side -> BOOLEAN]
    <3>1. pending' = pending \/ pending' = [pending EXCEPT ![s] = FALSE]
      BY <1>4 DEF ConfirmCode, HandshakeDone, ClearPending, InsertConnection, InsertRatchet,
                  BuildEngine, Cancel, TryAgain, TransportError, KillApp, BootAgain, persisted
    <3> QED
      BY <3>1 DEF PairTypeOK
  <2>11. mishaps' \in 0 .. MaxMishaps /\ smooth' \in {smooth, FALSE}
    <3>1. mishaps \in 0 .. MaxMishaps
      BY DEF PairTypeOK
    <3>2. mishaps' = mishaps \/ (mishaps < MaxMishaps /\ mishaps' = mishaps + 1)
      BY <1>4 DEF Mishap, ConfirmCode, HandshakeDone, ClearPending, InsertConnection,
         InsertRatchet, BuildEngine, Cancel, TryAgain, TransportError, KillApp, BootAgain
    <3>3. smooth' \in {smooth, FALSE}
      BY <1>4 DEF Mishap, ConfirmCode, HandshakeDone, ClearPending, InsertConnection,
         InsertRatchet, BuildEngine, Cancel, TryAgain, TransportError, KillApp, BootAgain
    <3>4. mishaps' \in 0 .. MaxMishaps
      BY <1>c, <3>1, <3>2
    <3> QED
      BY <3>3, <3>4
  <2>12. smooth' \in BOOLEAN
    BY <2>11 DEF PairTypeOK
  <2>10. PairTypeOK'
    BY <2>1, <2>3, <2>4, <2>6, <2>7, <2>8, <2>9, <2>11, <2>12 DEF PairTypeOK
  <2> QED
    BY <2>1, <2>2, <2>10 DEF HelloInv
<1>5. CASE UNCHANGED pairVars
  BY <1>5 DEF pairVars, server, run, persisted, PairTypeOK, HelloInv
<1> QED
  BY <1>1, <1>2, <1>3, <1>4, <1>5 DEF PairNext, Run

-----------------------------------------------------------------------------
LEMMA NextRowInv ==
  ASSUME Relink = FALSE
  PROVE  PairTypeOK /\ Connections /\ [PairNext]_pairVars => Connections'
<1> SUFFICES ASSUME PairTypeOK, \A s \in Side : RowInv(s), [PairNext]_pairVars
             PROVE  \A s \in Side : RowInv(s)'
  BY DEF Connections
<1> USE DEF RowInv
<1>1. ASSUME UNCHANGED <<phase, hello, found, rows, ratchets, engine>>
      PROVE  \A s \in Side : RowInv(s)'
  BY <1>1 DEF Root
<1>2. CASE PostHello \/ InsertHello \/ ExpireHello \/ UNCHANGED pairVars
  BY <1>1, <1>2 DEF PostHello, InsertHello, ExpireHello, pairVars, run, persisted
<1>3. ASSUME NEW s \in Side, NEW q \in Side, q # s,
             \/ StartRelay(s) \/ Run(s) \/ Cancel(s) \/ TryAgain(s)
             \/ TransportError(s) \/ KillApp(s) \/ BootAgain(s)
      PROVE  RowInv(q)'
  <2>1. /\ phase'[q] = phase[q] /\ hello'[q] = hello[q] /\ found'[q] = found[q]
        /\ rows'[q] = rows[q] /\ ratchets'[q] = ratchets[q] /\ engine'[q] = engine[q]
    BY <1>3 DEF Goes, PairTypeOK, StartRelay, Run, Poll, ConfirmCode, HandshakeDone, ClearPending,
       InsertConnection, InsertRatchet, BuildEngine, Cancel, TryAgain, TransportError, KillApp,
       BootAgain, persisted
  <2> QED
    BY <2>1 DEF Root
<1>4. ASSUME NEW s \in Side, StartRelay(s) PROVE RowInv(s)'
  <2>1. rows[s] = << >> /\ rows' = rows /\ engine' = engine
    BY <1>4 DEF StartRelay, MayStart
  <2> QED
    BY <2>1
<1>5. ASSUME NEW s \in Side, Poll(s) PROVE RowInv(s)'
  <2>1. rows[s] = << >> /\ rows' = rows /\ engine' = engine
    BY <1>5 DEF Poll, Goes, persisted
  <2> QED
    BY <2>1
<1>6. ASSUME NEW s \in Side,
             \/ ConfirmCode(s) \/ HandshakeDone(s) \/ ClearPending(s) \/ Cancel(s)
             \/ TransportError(s) \/ TryAgain(s)
      PROVE  RowInv(s)'
  <2>1. UNCHANGED <<hello, found, rows, ratchets, engine>>
    BY <1>6 DEF ConfirmCode, HandshakeDone, ClearPending, Cancel, TransportError, TryAgain,
                persisted
  <2>2. phase[s] \in {"scanning", "code_shown", "handshake", "error", "clearing"}
    BY <1>6 DEF ConfirmCode, HandshakeDone, ClearPending, Cancel, TransportError, TryAgain,
                Goes, InRun, Waiting
  <2> QED
    BY <2>1, <2>2 DEF Root
<1>7. ASSUME NEW s \in Side, InsertConnection(s) PROVE RowInv(s)'
  <2>1. phase[s] = "row" /\ phase'[s] = "ratchet" /\ rows[s] = << >>
    BY <1>7, Goes1 DEF InsertConnection
  <2>2. rows'[s] = <<Root(s)>> /\ UNCHANGED <<hello, found, engine>>
    BY <1>7, <2>1 DEF InsertConnection, PairTypeOK
  <2> QED
    BY <2>1, <2>2 DEF Root
<1>8. ASSUME NEW s \in Side, InsertRatchet(s) PROVE RowInv(s)'
  <2>1. phase'[s] = "done" /\ ratchets[s] \subseteq ratchets'[s]
    BY <1>8, Goes1 DEF InsertRatchet, PairTypeOK
  <2> QED
    BY <1>8, <2>1 DEF InsertRatchet, Root
<1>9. ASSUME NEW s \in Side, BuildEngine(s) \/ BootAgain(s) PROVE RowInv(s)'
  <2>1. phase'[s] = "choose" /\ engine'[s] = Buildable(s)
        /\ UNCHANGED <<hello, found, rows, ratchets>>
    BY <1>9, Goes1 DEF BuildEngine, BootAgain, PairTypeOK, persisted
  <2>2. Buildable(s) # NoRoot =>
          rows[s] # << >> /\ Buildable(s) = Root(s) /\ Buildable(s) \in ratchets[s]
    BY DEF Buildable
  <2> QED
    BY <2>1, <2>2 DEF Root
<1>10. ASSUME NEW s \in Side, KillApp(s) PROVE RowInv(s)'
  <2>1. phase'[s] = "off" /\ engine'[s] = NoRoot /\ UNCHANGED <<hello, found, rows, ratchets>>
    BY <1>10 DEF KillApp, PairTypeOK, persisted
  <2> QED
    BY <2>1 DEF Root
<1>11. ASSUME NEW s \in Side,
              \/ StartRelay(s) \/ Run(s) \/ Cancel(s) \/ TryAgain(s)
              \/ TransportError(s) \/ KillApp(s) \/ BootAgain(s)
       PROVE  RowInv(s)'
  BY <1>4, <1>5, <1>6, <1>7, <1>8, <1>9, <1>10, <1>11 DEF Run
<1> QED
  BY <1>2, <1>3, <1>11 DEF PairNext

(* Two codes that match are the partner's hello and this phone's, each     *)
(* found by the other.                                                     *)
LEMMA MatchingCodes ==
  ASSUME \A q \in Side : HelloInv(q), NEW s \in Side, hello[s] # NoHello, CodesMatch(s)
  PROVE  hello[s].by = s /\ found[s].by = Other(s)
<1>1. hello[s].by = s /\ hello[Other(s)].by = Other(s)
  BY OtherSide DEF HelloInv, CodesMatch
<1>2. hello[Other(s)] \in {hello[s], found[s]}
  BY DEF CodesMatch, Code
<1> QED
  BY <1>1, <1>2, OtherSide

LEMMA NextConfirmInv ==
  ASSUME Relink = FALSE, Careful = TRUE
  PROVE  PairTypeOK /\ Hellos /\ Connections /\ Confirmations /\ [PairNext]_pairVars =>
           Confirmations'
<1> SUFFICES ASSUME PairTypeOK, \A s \in Side : HelloInv(s), \A s \in Side : RowInv(s),
                    \A s \in Side : ConfirmInv(s), [PairNext]_pairVars
             PROVE  \A s \in Side : ConfirmInv(s)'
  BY DEF Hellos, Connections, Confirmations
<1>1. ASSUME \A s \in Side : Confirmed(s)' => /\ Confirmed(s)
                                              /\ hello'[s] = hello[s] /\ found'[s] = found[s]
      PROVE  \A s \in Side : ConfirmInv(s)'
  BY <1>1, OtherSide DEF ConfirmInv, Code
<1>2. CASE PostHello \/ InsertHello \/ ExpireHello \/ UNCHANGED pairVars
  <2>1. UNCHANGED <<phase, hello, found, rows>>
    BY <1>2 DEF PostHello, InsertHello, ExpireHello, pairVars, run, persisted
  <2> QED
    BY <1>1, <2>1 DEF Confirmed
<1>3. ASSUME NEW s \in Side, NEW q \in Side, q # s,
             \/ StartRelay(s) \/ Run(s) \/ Cancel(s) \/ TryAgain(s)
             \/ TransportError(s) \/ KillApp(s) \/ BootAgain(s)
      PROVE  /\ phase'[q] = phase[q] /\ hello'[q] = hello[q] /\ found'[q] = found[q]
             /\ rows'[q] = rows[q]
  BY <1>3 DEF Goes, PairTypeOK, StartRelay, Run, Poll, ConfirmCode, HandshakeDone, ClearPending,
     InsertConnection, InsertRatchet, BuildEngine, Cancel, TryAgain, TransportError, KillApp,
     BootAgain, persisted
<1>4. ASSUME NEW s \in Side,
             \/ StartRelay(s) \/ Run(s) \/ Cancel(s) \/ TryAgain(s)
             \/ TransportError(s) \/ KillApp(s) \/ BootAgain(s),
             Confirmed(s)' => /\ Confirmed(s)
                              /\ hello'[s] = hello[s] /\ found'[s] = found[s]
      PROVE  \A q \in Side : ConfirmInv(q)'
  <2>1. \A q \in Side : q # s => (Confirmed(q)' <=> Confirmed(q))
    BY <1>3, <1>4 DEF Confirmed
  <2> QED
    BY <1>1, <1>3, <1>4, <2>1
<1>5. ASSUME NEW s \in Side, StartRelay(s) PROVE \A q \in Side : ConfirmInv(q)'
  <2>1. phase'[s] = "scanning" /\ rows'[s] = << >>
    BY <1>5, Goes1 DEF StartRelay, MayStart
  <2>2. ~Confirmed(s)'
    BY <2>1 DEF Confirmed
  <2> QED
    BY <1>4, <1>5, <2>2
<1>6. ASSUME NEW s \in Side, Poll(s) PROVE \A q \in Side : ConfirmInv(q)'
  <2>1. phase'[s] = "code_shown" /\ rows'[s] = << >>
    BY <1>6, Goes1 DEF Poll, RowInv, persisted
  <2>2. ~Confirmed(s)'
    BY <2>1 DEF Confirmed
  <2> QED
    BY <1>4, <1>6, <2>2 DEF Run
<1>7. ASSUME NEW s \in Side, ConfirmCode(s) PROVE \A q \in Side : ConfirmInv(q)'
  <2>1. /\ phase[s] = "code_shown" /\ phase'[s] = "handshake" /\ CodesMatch(s)
        /\ UNCHANGED <<hello, found, rows>>
    BY <1>7, Goes1 DEF ConfirmCode, persisted
  <2>2. hello[s].by = s /\ found[s].by = Other(s) /\ Code(Other(s)) = Code(s)
    BY <2>1, MatchingCodes DEF HelloInv, CodesMatch
  <2>3. \A q \in Side : q # s => (Confirmed(q)' <=> Confirmed(q))
    BY <1>3, <1>7 DEF Confirmed, Run
  <2> QED
    BY <2>1, <2>2, <2>3, OtherSide DEF ConfirmInv, Code
<1>8. ASSUME NEW s \in Side,
             \/ HandshakeDone(s) \/ ClearPending(s) \/ InsertConnection(s) \/ InsertRatchet(s)
             \/ BuildEngine(s) \/ Cancel(s) \/ TryAgain(s) \/ TransportError(s) \/ KillApp(s)
             \/ BootAgain(s)
      PROVE  \A q \in Side : ConfirmInv(q)'
  <2>1. UNCHANGED <<hello, found>>
    BY <1>8 DEF HandshakeDone, ClearPending, InsertConnection, InsertRatchet, BuildEngine,
                Cancel, TryAgain, TransportError, KillApp, BootAgain
  <2>2. \/ phase[s] \in {"handshake", "clearing", "row"}
        \/ phase'[s] \notin {"handshake", "clearing", "row"} /\ rows' = rows
    BY <1>8 DEF Goes, PairTypeOK, HandshakeDone, ClearPending, InsertConnection, InsertRatchet,
       BuildEngine, Cancel, TryAgain, TransportError, KillApp, BootAgain, persisted
  <2>3. Confirmed(s)' => Confirmed(s)
    BY <2>2 DEF Confirmed
  <2> QED
    BY <1>4, <1>8, <2>1, <2>3 DEF Run
<1> QED
  BY <1>2, <1>5, <1>6, <1>7, <1>8 DEF PairNext, Run

-----------------------------------------------------------------------------
LEMMA InitAll == PairInit => PairTypeOK /\ Hellos /\ Connections /\ Confirmations
<1> SUFFICES ASSUME PairInit PROVE PairTypeOK /\ Hellos /\ Connections /\ Confirmations
  OBVIOUS
<1>1. PairTypeOK
  BY PairingAssumption DEF PairInit, PairTypeOK, PairingAssumption, NoRoot
<1>2. \A s \in Side : HelloInv(s) /\ RowInv(s) /\ ConfirmInv(s)
  BY DEF PairInit, HelloInv, RowInv, ConfirmInv, Confirmed
<1> QED
  BY <1>1, <1>2 DEF Hellos, Connections, Confirmations

(* What is sent, found and stored are hellos of the phones and roots made  *)
(* of them, whatever the users confirm and however often they pair.        *)
THEOREM PairingTypeOK == PairSpec => [](PairTypeOK /\ Hellos)
  BY InitAll, NextHelloInv, PTL DEF PairSpec

(* A paired phone that starts no other run keeps the one connection of its *)
(* attempt.                                                                *)
LEMMA OneConnection ==
  ASSUME Relink = FALSE PROVE PairSpec => []Connections
<1>1. PairTypeOK /\ Connections /\ [PairNext]_pairVars => Connections'
  BY NextRowInv
<1> QED
  BY <1>1, InitAll, PairingTypeOK, PTL DEF PairSpec

(* No engine runs on a connection whose ratchet was never saved, wherever  *)
(* between the two INSERTs the app was killed.                             *)
THEOREM PairingEngineHasRatchet ==
  ASSUME Relink = FALSE PROVE PairSpec => []EngineHasRatchet
<1>1. Connections => EngineHasRatchet
  <2> SUFFICES ASSUME \A s \in Side : RowInv(s) PROVE EngineHasRatchet
    BY DEF Connections
  <2>1. ASSUME NEW s \in Side, engine[s] # NoRoot
        PROVE  engine[s] \in ratchets[s] /\ engine[s] = Newest(s)
    <3>1. rows[s] = <<Root(s)>> /\ engine[s] = Root(s) /\ engine[s] \in ratchets[s]
      BY <2>1 DEF RowInv
    <3> QED
      BY <3>1 DEF Newest
  <2> QED
    BY <2>1 DEF EngineHasRatchet
<1>2. PairSpec => []Connections
  BY OneConnection
<1> QED
  BY <1>1, <1>2, PTL

(* If the users confirm only a code that both phones show, whatever is     *)
(* persisted is a root of this phone and the partner's, the same on both,  *)
(* through retries, hellos left over from earlier attempts and kills.      *)
THEOREM PairingRootsAgree ==
  ASSUME Relink = FALSE, Careful = TRUE PROVE PairSpec => []RootsAgree
<1>1. PairTypeOK /\ Hellos /\ Connections /\ Confirmations /\ [PairNext]_pairVars => Confirmations'
  BY NextConfirmInv
<1>2. PairSpec => []Connections
  BY OneConnection
<1>3. Connections /\ Confirmations => RootsAgree
  <2> SUFFICES ASSUME \A s \in Side : RowInv(s), \A s \in Side : ConfirmInv(s), NEW s \in Side
               PROVE  /\ \A i \in DOMAIN rows[s] : {h.by : h \in rows[s][i]} = Side
                      /\ Newest(s) # NoRoot /\ Newest(Other(s)) # NoRoot =>
                           Newest(s) = Newest(Other(s))
    BY DEF RootsAgree, Connections, Confirmations
  <2>1. ASSUME NEW q \in Side, rows[q] # << >>
        PROVE  /\ Newest(q) = Root(q) /\ Code(q) = Root(q) /\ Confirmed(q)
               /\ \A i \in DOMAIN rows[q] : {h.by : h \in rows[q][i]} = Side
    <3>1. rows[q] = <<Root(q)>> /\ Confirmed(q) /\ Code(q) = Root(q)
      BY <2>1 DEF RowInv, Confirmed, Code, Root
    <3>2. {h.by : h \in Root(q)} = {q, Other(q)}
      BY <3>1 DEF ConfirmInv, Root
    <3>3. \A i \in DOMAIN rows[q] : rows[q][i] = Root(q)
      BY <3>1
    <3> QED
      BY <3>1, <3>2, <3>3, OtherSide DEF Newest
  <2>2. Newest(s) # NoRoot /\ Newest(Other(s)) # NoRoot => Newest(s) = Newest(Other(s))
    BY <2>1, OtherSide DEF Newest, ConfirmInv
  <2>3. \A i \in DOMAIN rows[s] : {h.by : h \in rows[s][i]} = Side
    BY <2>1
  <2> QED
    BY <2>2, <2>3
<1> QED
  BY <1>1, <1>2, <1>3, InitAll, PairingTypeOK, PTL DEF PairSpec

=============================================================================

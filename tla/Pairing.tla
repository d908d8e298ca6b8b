------------------------------- MODULE Pairing -------------------------------
(***************************************************************************)
(* Two phones pair through a code: features/pairing, its screen            *)
(* (PairWithPartner, PairWithPartnerRoute), the rendezvous of the API      *)
(* (pair-rendezvous.ts) and what a boot makes of what was persisted.       *)
(*                                                                         *)
(* Each attempt draws fresh keys and leaves its hello under the code; the  *)
(* phone then polls for a hello that is not its own.  There is no message  *)
(* after the hello: each phone confirms, derives and persists alone.       *)
(*                                                                         *)
(* One code is modelled, the one the partners have agreed on, by QR, link  *)
(* or typing.  Keys are ideal: a root is the two hellos it is derived from *)
(* and a pairing code is told apart from every other.                      *)
(*                                                                         *)
(* PhoneProofs extends this module together with Launch: the names both    *)
(* would use carry the prefix Pair here.                                   *)
(***************************************************************************)
EXTENDS Naturals, Sequences, FiniteSets

CONSTANTS
  MaxAttempts, \* bound: attempts of a phone
  MaxMishaps,  \* bound: failed requests, timeouts and kills
  Careful,     \* BOOLEAN: users confirm only a code both phones show
  Relink       \* BOOLEAN: a paired phone may be sent a pairing link

ASSUME PairingAssumption ==
  /\ MaxAttempts \in Nat \ {0} /\ MaxMishaps \in Nat
  /\ Careful \in BOOLEAN /\ Relink \in BOOLEAN

Side == {"a", "b"}

Other(s) == IF s = "a" THEN "b" ELSE "a"

VARIABLES
  slot,     \* Seq(Hello): pair_rendezvous under the code, by posted_at
  posting,  \* SUBSET Hello: POSTs on their way, outlive a cancelled run
  arriving, \* SUBSET Hello: POSTs the server has checked and not yet inserted
  phase,    \* [Side -> STRING]: state of the run, and of the route after it
  hello,    \* [Side -> Hello or NoHello]: selfKeys of the attempt
  found,    \* [Side -> Hello or NoHello]: peerKeys
  tries,    \* [Side -> Nat]: attempts so far, names the hellos
  pending,  \* [Side -> BOOLEAN]: app_setting pending_pairing
  rows,     \* [Side -> Seq(Root)]: table connection, by paired_at
  ratchets, \* [Side -> SUBSET Root]: table connection_ratchet
  engine,   \* [Side -> Root or {}]: the sync engine in memory
  mishaps,  \* failed requests, timeouts and kills so far
  smooth    \* history: no kill, failure, timeout, refusal or cancel so far

server    == <<slot, posting, arriving>>
run       == <<phase, hello, found, tries>>
persisted == <<pending, rows, ratchets>>
pairVars  == <<server, run, persisted, engine, mishaps, smooth>>

Hello == [by : Side, nr : 1 .. MaxAttempts]

NoHello == [by |-> "none", nr |-> 0]

NoRoot == {}

PairInit ==
  /\ slot = << >> /\ posting = {} /\ arriving = {}
  /\ phase = [s \in Side |-> "choose"]
  /\ hello = [s \in Side |-> NoHello]
  /\ found = [s \in Side |-> NoHello]
  /\ tries = [s \in Side |-> 0]
  /\ pending = [s \in Side |-> FALSE]
  /\ rows = [s \in Side |-> << >>]
  /\ ratchets = [s \in Side |-> {}]
  /\ engine = [s \in Side |-> NoRoot]
  /\ mishaps = 0 /\ smooth = TRUE

Mishap == mishaps < MaxMishaps /\ mishaps' = mishaps + 1 /\ smooth' = FALSE

(* pairingReducer: the step from one state of the run to another. *)
Goes(s, from, to) == phase[s] = from /\ phase' = [phase EXCEPT ![s] = to]

-----------------------------------------------------------------------------
(* A run of the screen.                                                    *)

(* The pickers: in the same room or apart, who shows and who scans. *)
Choosing(s) == phase[s] = "choose"

(* A code is shown, or the camera has read one, and the partner is awaited. *)
Waiting(s) == phase[s] = "scanning"

(* The ways into a run: showing or scanning the QR, creating or joining    *)
(* the code, a link, or the pending wait of an earlier launch.  A paired   *)
(* phone is not led here, but a link opens the screen on it.               *)
MayStart(s) ==
  /\ Choosing(s)
  /\ rows[s] # << >> => Relink

(* What the screen shows of a run that is going; Close leaves any of it. *)
InRun(s) == Waiting(s) \/ phase[s] \in {"code_shown", "handshake"}

(* startRelay; the keys are new each time. *)
StartRelay(s) ==
  /\ MayStart(s)
  /\ Goes(s, "choose", "scanning")
  /\ tries[s] < MaxAttempts
  /\ tries' = [tries EXCEPT ![s] = @ + 1]
  /\ hello' = [hello EXCEPT ![s] = [by |-> s, nr |-> tries'[s]]]
  /\ found' = [found EXCEPT ![s] = NoHello]
  /\ posting' = posting \cup {hello'[s]}
  /\ pending' = [pending EXCEPT ![s] = TRUE]
  /\ UNCHANGED <<slot, arriving, rows, ratchets, engine, mishaps, smooth>>

(* POST: the server lists the hellos of the code ... *)
PostHello ==
  \E h \in posting :
    /\ posting' = posting \ {h}
    /\ arriving' = IF Len(slot) < 2 THEN arriving \cup {h} ELSE arriving
    /\ UNCHANGED <<slot, run, persisted, engine, mishaps, smooth>>

(* ... and inserts this one if there were fewer than two.  A 409 is no     *)
(* error to the phone.                                                     *)
InsertHello ==
  \E h \in arriving :
    /\ slot' = Append(slot, h)
    /\ arriving' = arriving \ {h}
    /\ UNCHANGED <<posting, run, persisted, engine, mishaps, smooth>>

(* Hellos expire after a day and are then neither listed nor counted. *)
ExpireHello ==
  /\ slot # << >>
  /\ slot' = Tail(slot)
  /\ smooth' = FALSE
  /\ UNCHANGED <<posting, arriving, run, persisted, engine, mishaps>>

(* TRANSPORT_ERROR, from anywhere: the POST fails, stored or not, the      *)
(* deadline of the poll passes, the prompt or the derivation throws.  The  *)
(* settled run clears the pending wait.                                    *)
TransportError(s) ==
  /\ Mishap
  /\ InRun(s)
  /\ phase' = [phase EXCEPT ![s] = "error"]
  /\ posting' \in {posting, posting \ {hello[s]}}
  /\ pending' = [pending EXCEPT ![s] = FALSE]
  /\ UNCHANGED <<slot, arriving, hello, found, tries, rows, ratchets, engine>>

(* GET returns two hellos at most, the oldest ones. *)
Listed == {slot[i] : i \in 1 .. (IF Len(slot) < 2 THEN Len(slot) ELSE 2)}

(* Mutant: the first hello listed is taken for the peer's, unless it is    *)
(* this phone's and the only one.                                          *)
PollFirst(s) ==
  /\ Goes(s, "scanning", "code_shown")
  /\ slot # << >> /\ slot[1] # hello[s]
  /\ found' = [found EXCEPT ![s] = slot[1]]
  /\ UNCHANGED <<server, hello, tries, persisted, engine, mishaps, smooth>>

(* pollOnce: the first hello listed that differs from the one this attempt *)
(* has posted.  PEER_FOUND shows the code.                                 *)
Poll(s) ==
  /\ Goes(s, "scanning", "code_shown")
  /\ \E i \in DOMAIN slot :
       /\ slot[i] \in Listed \ {hello[s]}
       /\ \A j \in 1 .. i - 1 : slot[j] = hello[s]
       /\ found' = [found EXCEPT ![s] = slot[i]]
  /\ UNCHANGED <<server, hello, tries, persisted, engine, mishaps, smooth>>

(* Mutant: the code tells the phones apart and not their attempts. *)
CodeOfPhones(s) == {s, found[s].by}

(* pairingCode, of both identity keys. *)
Code(s) == {hello[s], found[s]}

(* The partner has been shown the same code, and not started over. *)
CodesMatch(s) == found[Other(s)] # NoHello /\ Code(Other(s)) = Code(s)

(* confirmCode: BIOMETRIC_PASSED follows at once, and the handshake. *)
ConfirmCode(s) ==
  /\ Goes(s, "code_shown", "handshake")
  /\ Careful => CodesMatch(s)
  /\ UNCHANGED <<server, hello, found, tries, persisted, engine, mishaps, smooth>>

(* The prompt is refused or the screen closed: CANCEL.  The confirmation   *)
(* that comes later finds the run idle and is ignored.                     *)
Cancel(s) ==
  /\ InRun(s)
  /\ phase' = [phase EXCEPT ![s] = "choose"]
  /\ pending' = [pending EXCEPT ![s] = FALSE]
  /\ smooth' = FALSE
  /\ UNCHANGED <<server, hello, found, tries, rows, ratchets, engine, mishaps>>

TryAgain(s) ==
  /\ Goes(s, "error", "choose")
  /\ UNCHANGED <<server, hello, found, tries, persisted, engine, mishaps, smooth>>

(* deriveRootKey; HANDSHAKE_DONE ends the run and calls onPaired. *)
HandshakeDone(s) ==
  /\ Goes(s, "handshake", "clearing")
  /\ UNCHANGED <<server, hello, found, tries, persisted, engine, mishaps, smooth>>

-----------------------------------------------------------------------------
(* onPaired: four writes, one after the other, in no transaction.          *)

Root(s) == {hello[s], found[s]}

ClearPending(s) ==
  /\ Goes(s, "clearing", "row")
  /\ pending' = [pending EXCEPT ![s] = FALSE]
  /\ UNCHANGED <<server, hello, found, tries, rows, ratchets, engine, mishaps, smooth>>

(* persistConnection; the id is derived from the root. *)
InsertConnection(s) ==
  /\ Goes(s, "row", "ratchet")
  /\ rows' = [rows EXCEPT ![s] = Append(@, Root(s))]
  /\ UNCHANGED <<server, hello, found, tries, pending, ratchets, engine, mishaps, smooth>>

InsertRatchet(s) ==
  /\ Goes(s, "ratchet", "done")
  /\ ratchets' = [ratchets EXCEPT ![s] = @ \cup {Root(s)}]
  /\ UNCHANGED <<server, hello, found, tries, pending, rows, engine, mishaps, smooth>>

(* Mutant: the engine is built of the connection row alone. *)
BuildableUnchecked(s) == IF rows[s] = << >> THEN NoRoot ELSE rows[s][Len(rows[s])]

(* loadActiveConnection and tryBuildSyncEngine: the newest connection, if  *)
(* its ratchet is there.                                                   *)
Buildable(s) ==
  IF rows[s] # << >> /\ rows[s][Len(rows[s])] \in ratchets[s]
  THEN rows[s][Len(rows[s])] ELSE NoRoot

(* completePairing, then the engine; the route replaces the screen. *)
BuildEngine(s) ==
  /\ Goes(s, "done", "choose")
  /\ engine' = [engine EXCEPT ![s] = Buildable(s)]
  /\ UNCHANGED <<server, hello, found, tries, persisted, mishaps, smooth>>

(* The app is killed at any await ... *)
KillApp(s) ==
  /\ Mishap
  /\ phase[s] # "off"
  /\ phase' = [phase EXCEPT ![s] = "off"]
  /\ engine' = [engine EXCEPT ![s] = NoRoot]
  /\ UNCHANGED <<server, hello, found, tries, persisted>>

(* ... and booted again. *)
BootAgain(s) ==
  /\ Goes(s, "off", "choose")
  /\ engine' = [engine EXCEPT ![s] = Buildable(s)]
  /\ UNCHANGED <<server, hello, found, tries, persisted, mishaps, smooth>>

Run(s) ==
  \/ Poll(s) \/ ConfirmCode(s) \/ HandshakeDone(s)
  \/ ClearPending(s) \/ InsertConnection(s) \/ InsertRatchet(s) \/ BuildEngine(s)

PairNext ==
  \/ PostHello \/ InsertHello \/ ExpireHello
  \/ \E s \in Side :
       \/ StartRelay(s) \/ Run(s) \/ Cancel(s) \/ TryAgain(s)
       \/ TransportError(s) \/ KillApp(s) \/ BootAgain(s)

PairSpec == PairInit /\ [][PairNext]_pairVars

(* The poll repeats, awaits return, the server answers; a user starts the  *)
(* first attempt and confirms a code that matches.                         *)
PairFairSpec ==
  /\ PairSpec
  /\ WF_pairVars(PostHello) /\ WF_pairVars(InsertHello)
  /\ \A s \in Side : WF_pairVars(Run(s)) /\ WF_pairVars(StartRelay(s))

-----------------------------------------------------------------------------
PairTypeOK ==
  /\ slot \in Seq(Hello) /\ posting \subseteq Hello /\ arriving \subseteq Hello
  /\ phase \in [Side -> {"choose", "scanning", "code_shown", "handshake", "error",
                         "clearing", "row", "ratchet", "done", "off"}]
  /\ hello \in [Side -> Hello \cup {NoHello}]
  /\ found \in [Side -> Hello \cup {NoHello}]
  /\ tries \in [Side -> 0 .. MaxAttempts]
  /\ pending \in [Side -> BOOLEAN]
  /\ rows \in [Side -> Seq(SUBSET Hello)]
  /\ ratchets \in [Side -> SUBSET SUBSET Hello]
  /\ engine \in [Side -> SUBSET Hello]
  /\ mishaps \in 0 .. MaxMishaps
  /\ smooth \in BOOLEAN

Newest(s) == IF rows[s] = << >> THEN NoRoot ELSE rows[s][Len(rows[s])]

(* If the users compare the codes, whatever is persisted is a root of this *)
(* phone and the partner's, and both phones hold the same one, through     *)
(* retries, hellos left over from earlier attempts and kills at any await. *)
RootsAgree ==
  \A s \in Side :
    /\ \A i \in DOMAIN rows[s] : {h.by : h \in rows[s][i]} = Side
    /\ Newest(s) # NoRoot /\ Newest(Other(s)) # NoRoot => Newest(s) = Newest(Other(s))

(* No engine runs on a connection whose ratchet was never saved, also when *)
(* the app was killed between the two INSERTs.                             *)
EngineHasRatchet ==
  \A s \in Side : engine[s] # NoRoot => engine[s] \in ratchets[s] /\ engine[s] = Newest(s)

(* As long as nothing fails and nobody cancels, both phones end with an    *)
(* engine on the same root, whoever posts or polls first.                  *)
BothPair == <>(~smooth \/ (engine["a"] # NoRoot /\ engine["a"] = engine["b"]))

-----------------------------------------------------------------------------
(* Refuted: a phone that resumes its wait after a kill finds the partner:  *)
(* "the peer's is there to be found" (relay-transport.ts 98-99) and "refuse *)
(* a peer whose identity key is our own" (orchestrator.ts 69).             *)
FoundIsPartner == \A s \in Side : found[s] # NoHello => found[s].by = Other(s)

(* Refuted: the root is derived "once both sides have biometric-confirmed" *)
(* (orchestrator.ts 20).                                                   *)
BothConfirmed ==
  \A s \in Side : phase[s] \in {"clearing", "row", "ratchet", "done"} =>
    \/ rows[Other(s)] # << >>
    \/ phase[Other(s)] \in {"handshake", "clearing", "row", "ratchet", "done"}

(* Refuted: a phone whose partner is paired with it is still pairing, has  *)
(* the connection, or remembers the wait (pending-store.ts 5-9).           *)
WaitRemembered ==
  \A s \in Side :
    Newest(Other(s)) # NoRoot /\ hello[s] \in Newest(Other(s)) =>
      rows[s] # << >> \/ pending[s] \/ phase[s] \notin {"choose", "off", "error"}

(* Refuted: a re-run of persistConnection "picks up where it left off"     *)
(* (persistence.ts 68): nothing runs it again.                             *)
RowHasRatchet ==
  \A s \in Side : phase[s] \in {"choose", "off"} /\ rows[s] # << >> =>
    Newest(s) \in ratchets[s]

(* Refuted: "At most 2 hellos per code are returned/accepted"              *)
(* (pair-rendezvous.ts 28); the count and the INSERT are two statements.   *)
SlotHoldsTwo == Len(slot) <= 2

=============================================================================

-------------------------------- MODULE Wire --------------------------------
(***************************************************************************)
(* The connection channel as the features above it see it: module Channel  *)
(* with its keys and days left out.  A row stays in the outbox until a     *)
(* POST is answered, a failed one is tried again behind rows that were     *)
(* queued after it, one whose answer was lost reaches the partner twice,   *)
(* and a pull applies what one listing returned newest first.              *)
(*                                                                         *)
(* The modules that extend this one add the rows of the database the       *)
(* operations act on.                                                      *)
(***************************************************************************)
EXTENDS Naturals, Sequences, FiniteSets

CONSTANTS
  MaxFaults,   \* bound: failed requests and aborted pulls
  MaxOvertake  \* bound: queued rows of its second a new row comes before

ASSUME WireAssumption == MaxFaults \in Nat /\ MaxOvertake \in Nat

Side == {"a", "b"}

Other(s) == IF s = "a" THEN "b" ELSE "a"

VARIABLES
  outbox,      \* [Side -> Seq(Operation)]: sync_outbox in the order flush takes it
  inbox,       \* [Side -> SUBSET Entry]: relay rows addressed to a side
  page,        \* [Side -> SUBSET Entry]: what the pull in progress still has to examine
  posted,      \* [Side -> Nat]: rows a side has stored on the relay, orders them
  faults

wireVars == <<outbox, inbox, page, posted, faults>>

WireInit ==
  /\ outbox = [s \in Side |-> << >>]
  /\ inbox  = [s \in Side |-> {}]
  /\ page   = [s \in Side |-> {}]
  /\ posted = [s \in Side |-> 0]
  /\ faults = 0

WireFault ==
  /\ faults < MaxFaults
  /\ faults' = faults + 1

(* SyncEngine.enqueue, inside the transaction of the caller.  Rows of the  *)
(* same second leave in the order of their random ids, so the new row may  *)
(* come before any of them.                                                *)
Queue(s, op) ==
  /\ \E k \in 0 .. Len(outbox[s]) :
       /\ Len(outbox[s]) - k <= MaxOvertake
       /\ outbox' = [outbox EXCEPT ![s] =
                       SubSeq(@, 1, k) \o <<op>> \o SubSeq(@, k + 1, Len(@))]
  /\ UNCHANGED <<inbox, page, posted, faults>>

Transmit(s) ==
  /\ posted' = [posted EXCEPT ![s] = @ + 1]
  /\ inbox'  = [inbox EXCEPT ![Other(s)] =
                  @ \cup {[at |-> posted[s], op |-> Head(outbox[s])]}]

(* The row at the head waits for its retry; up to k rows overtake it. *)
Postpone(s) ==
  \E k \in 0 .. Len(outbox[s]) - 1 :
    outbox' = [outbox EXCEPT ![s] =
                 SubSeq(@, 2, k + 1) \o <<Head(@)>> \o SubSeq(@, k + 2, Len(@))]

FlushOk(s) ==
  /\ outbox[s] # << >>
  /\ Transmit(s)
  /\ outbox' = [outbox EXCEPT ![s] = Tail(@)]
  /\ UNCHANGED <<page, faults>>

FlushLost(s) ==
  /\ WireFault
  /\ outbox[s] # << >>
  /\ Postpone(s)
  /\ UNCHANGED <<inbox, page, posted>>

FlushReplyLost(s) ==
  /\ WireFault
  /\ outbox[s] # << >>
  /\ Transmit(s)
  /\ Postpone(s)
  /\ UNCHANGED page

PullList(s) ==
  /\ page[s] = {}
  /\ inbox[s] # {}
  /\ page' = [page EXCEPT ![s] = inbox[s]]
  /\ UNCHANGED <<outbox, inbox, posted, faults>>

(* The app is killed or a later GET throws: the rest waits for the next pull. *)
PullAborts(s) ==
  /\ WireFault
  /\ page[s] # {}
  /\ page' = [page EXCEPT ![s] = {}]
  /\ UNCHANGED <<outbox, inbox, posted>>

(* The relay lists newest first. *)
IsNext(e, E) == e \in E /\ \A f \in E : f.at <= e.at

(* The next entry of the page is applied and deleted from the relay. *)
Take(s, e) ==
  /\ IsNext(e, page[s])
  /\ inbox' = [inbox EXCEPT ![s] = @ \ {e}]
  /\ page'  = [page EXCEPT ![s] = @ \ {e}]
  /\ UNCHANGED <<outbox, posted, faults>>

(* The phone's own rows of the channel are deleted with the connection. *)
Forget(s) ==
  /\ outbox' = [outbox EXCEPT ![s] = << >>]
  /\ page'   = [page EXCEPT ![s] = {}]
  /\ UNCHANGED <<inbox, posted, faults>>

WireStep(s) ==
  \/ FlushOk(s) \/ FlushLost(s) \/ FlushReplyLost(s)
  \/ PullList(s) \/ PullAborts(s)

(* Nothing of s is queued or on its way. *)
Drained(s) == outbox[s] = << >> /\ inbox[Other(s)] = {}

Entry(Operation) == [at : Nat, op : Operation]

WireTypeOK(Operation) ==
  /\ outbox \in [Side -> Seq(Operation)]
  /\ inbox \in [Side -> SUBSET Entry(Operation)]
  /\ page \in [Side -> SUBSET Entry(Operation)]
  /\ posted \in [Side -> Nat]
  /\ faults \in Nat
  /\ \A s \in Side : page[s] \subseteq inbox[s]

=============================================================================

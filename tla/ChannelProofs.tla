--------------------------- MODULE ChannelProofs ---------------------------
(***************************************************************************)
(* Proofs about Channel, for any set of operations, any bounds and any     *)
(* number of days.  First what needs calls on one phone that do not        *)
(* overlap, the discipline useSyncTicker keeps with its inflight guard:    *)
(* the inductive invariant, the life of the keys, and that the channel     *)
(* loses nothing but what the relay expires before it was read.  Then      *)
(* what holds for any callers, and that the channel implements Custody.    *)
(***************************************************************************)
EXTENDS Channel, FiniteSetTheorems, TLAPS

(* One caller per phone: the ticker alone. *)
OneTaskPerSide ==
  \A t, u \in Task : Home[t] = Home[u] => t = u

-----------------------------------------------------------------------------
(* The inductive invariant.                                                *)

(* What a call holds in memory agrees with the row it was read from. *)
TaskInv(t) ==
  LET s == Home[t] IN
  /\ pc[t] = "save" => letter[t].ctr = rat[s].send /\ snap[t] = Encrypted(rat[s])
  /\ pc[t] = "post" => /\ letter[t].ctr + 1 = rat[s].send
                       /\ \A l \in sent[s] : l.ctr < letter[t].ctr
  /\ pc[t] \in {"open", "commit", "drop"} =>
       env[t].to = s /\ env[t].letter \in sent[Other(s)]
  /\ pc[t] \in {"open", "commit"} => env[t].letter \notin seen[s]
  /\ pc[t] = "commit" => /\ KeyHeld(rat[s], env[t].letter.ctr)
                         /\ snap[t] = Decrypted(rat[s], env[t].letter.ctr)
  /\ pc[t] = "drop" => env[t].letter \in seen[s]
  /\ \A e \in page[t] : e.to = s /\ e.letter \in sent[Other(s)]

(* The two ends of a direction agree on which keys are used up. *)
KeyInv(s) ==
  /\ \A l \in sent[s] : l.ctr < rat[s].send
  /\ \A l, m \in sent[s] : l.ctr = m.ctr => l = m
  /\ \A e \in relay : e.letter \in sent[Other(e.to)]
  /\ seen[s] \subseteq sent[Other(s)]
  /\ \A n \in rat[s].skipped : n < rat[s].recv
  /\ rat[s].recv = 0 \/ \E l \in seen[s] : rat[s].recv = l.ctr + 1
  /\ \A l \in sent[Other(s)] : KeyHeld(rat[s], l.ctr) <=> l \notin seen[s]

IInv ==
  /\ TypeOK
  /\ \A t \in Task : TaskInv(t)
  /\ \A s \in Side : KeyInv(s)

-----------------------------------------------------------------------------
(* Type correctness.                                                       *)

LEMMA OtherSide ==
  \A s \in Side : Other(s) \in Side /\ Other(Other(s)) = s /\ Other(s) # s
  BY DEF Side, Other

LEMMA EncryptedType ==
  ASSUME NEW r \in RatchetState
  PROVE  /\ Encrypted(r) \in RatchetState
         /\ Encrypted(r).send = r.send + 1
         /\ Encrypted(r).recv = r.recv
         /\ Encrypted(r).skipped = r.skipped
  BY DEF RatchetState, Encrypted

LEMMA DecryptedType ==
  ASSUME NEW r \in RatchetState, NEW n \in Nat
  PROVE  /\ Decrypted(r, n) \in RatchetState
         /\ Decrypted(r, n).send = r.send
  BY DEF RatchetState, Decrypted

LEMMA InitType == Init => TypeOK
  BY DEF Init, TypeOK, RatchetState, FreshRatchet, Label, FlushLabel

LEMMA PostedType ==
  ASSUME TypeOK, NEW t \in Task, letter[t] \in Letter
  PROVE  Posted(t) \in Envelope
<1>1. Other(Home[t]) \in Side
  BY ChannelAssumption, OtherSide
<1>2. stored[Other(Home[t])] \in Nat /\ day \in Nat
  BY <1>1 DEF TypeOK
<1> QED
  BY <1>1, <1>2 DEF Posted, Envelope

LEMMA NextType == TypeOK /\ [Next]_vars => TypeOK'
<1> SUFFICES ASSUME TypeOK, [Next]_vars PROVE TypeOK'
  OBVIOUS
<1> USE DEF TypeOK, Label, FlushLabel, PullLabel
<1>1. CASE UNCHANGED vars
  BY <1>1 DEF vars, db, net, world, locals, flushLocals, pullLocals
<1>2. ASSUME NEW o \in Op, Enqueue(o) PROVE TypeOK'
  BY <1>2, ChannelAssumption DEF Enqueue, net, world, locals, flushLocals, pullLocals
<1>3. ASSUME NEW o \in Op, RetryDue(o) PROVE TypeOK'
  BY <1>3, ChannelAssumption DEF RetryDue, net, world, locals, flushLocals, pullLocals
<1>4. CASE Midnight
  BY <1>4 DEF Midnight, db, net, locals, flushLocals, pullLocals
<1>5. CASE PurgeExpired
  BY <1>5 DEF PurgeExpired, db, world, locals, flushLocals, pullLocals
<1>6. ASSUME NEW s \in Side, Crash(s) PROVE TypeOK'
  BY <1>6 DEF Crash, Fault, db, net, RatchetState, FreshRatchet
<1>7. ASSUME NEW t \in Task, Run(t) PROVE TypeOK'
  <2>0. Home[t] \in Side /\ Other(Home[t]) \in Side
    BY ChannelAssumption, OtherSide
  <2>1. CASE FlushBegin(t)
    BY <2>0, <2>1 DEF FlushBegin, Goto, db, net, world, pullLocals
  <2>2. CASE PullBegin(t)
    BY <2>0, <2>2 DEF PullBegin, Goto, db, net, world, flushLocals
  <2>3. ASSUME NEW o \in Op, FlushSeal(t, o) PROVE TypeOK'
    <3>1. [ctr |-> rat[Home[t]].send, op |-> o] \in Letter
      BY <2>0 DEF Letter, RatchetState
    <3>2. Encrypted(rat[Home[t]]) \in RatchetState
      BY <2>0, EncryptedType
    <3> QED
      BY <2>3, <3>1, <3>2 DEF FlushSeal, Goto, db, net, world, pullLocals
  <2>4. CASE FlushSave(t)
    BY <2>0, <2>4 DEF FlushSave, Goto, net, world, flushLocals, pullLocals,
                      FreshRatchet, RatchetState
  <2>5. ASSUME pc[t] = "post", Transmit(t) PROVE sent' \in [Side -> SUBSET Letter]
    BY <2>0, <2>5 DEF Transmit
  <2>6. ASSUME pc[t] = "post", Store(t)
        PROVE  relay' \in SUBSET Envelope /\ stored' \in [Side -> Nat]
    BY <2>0, <2>6, PostedType DEF Store
  <2>7. CASE FlushPostOk(t)
    BY <2>5, <2>6, <2>7 DEF FlushPostOk, Goto, db, world, flushLocals, pullLocals
  <2>8. CASE FlushPostLost(t)
    BY <2>5, <2>8 DEF FlushPostLost, Goto, Fault, db, flushLocals, pullLocals
  <2>9. CASE FlushReplyLost(t)
    BY <2>5, <2>6, <2>9 DEF FlushReplyLost, Goto, Fault, db, flushLocals, pullLocals
  <2>10. CASE FlushDelete(t)
    BY <2>0, <2>10 DEF FlushDelete, Goto, net, world, pullLocals
  <2>11. CASE FlushBump(t)
    BY <2>0, <2>11 DEF FlushBump, Goto, net, world, pullLocals
  <2>12. CASE FlushEnd(t)
    BY <2>0, <2>12 DEF FlushEnd, Goto, db, net, world, flushLocals
  <2>13. CASE PullList(t)
    BY <2>0, <2>13 DEF PullList, Listing, Goto, db, net, world, flushLocals
  <2>14. CASE PullListFails(t)
    BY <2>0, <2>14 DEF PullListFails, Fault, Goto, db, net, flushLocals
  <2>15. ASSUME NEW e \in page[t], PullPick(t, e) PROVE TypeOK'
    <3>1. e \in Envelope
      OBVIOUS
    <3> QED
      BY <2>0, <2>15, <3>1 DEF PullPick, Goto, db, net, world, flushLocals
  <2>16. CASE PullOpen(t)
    <3>1. env[t].letter.ctr \in Nat
      BY <2>16 DEF PullOpen, Goto, Envelope, Letter
    <3>2. Decrypted(rat[Home[t]], env[t].letter.ctr) \in RatchetState
      BY <2>0, <3>1, DecryptedType
    <3> QED
      BY <2>16, <3>2 DEF PullOpen, Goto, db, net, world, flushLocals, pullLocals
  <2>17. CASE PullRefuse(t)
    BY <2>17 DEF PullRefuse, Goto, db, net, world, flushLocals
  <2>18. CASE PullCommit(t)
    <3>1. env[t].letter \in Letter /\ env[t].letter.op \in Op
      BY <2>18 DEF PullCommit, Goto, Envelope, Letter
    <3> QED
      BY <2>0, <2>18, <3>1 DEF PullCommit, Goto, net, world, flushLocals, pullLocals,
                               FreshRatchet, RatchetState
  <2>19. CASE PullRollback(t)
    BY <2>19 DEF PullRollback, Fault, Goto, db, net, flushLocals, FreshRatchet, RatchetState
  <2>20. CASE PullDrop(t)
    BY <2>20 DEF PullDrop, Goto, db, world, flushLocals
  <2>21. CASE PullDropFails(t)
    BY <2>21 DEF PullDropFails, Fault, Goto, db, net, flushLocals
  <2>22. CASE PullNextDay(t)
    BY <2>22, ChannelAssumption DEF PullNextDay, Goto, db, net, world, flushLocals
  <2>23. CASE PullEnd(t)
    BY <2>23, ChannelAssumption DEF PullEnd, Goto, db, net, world, flushLocals
  <2>24. CASE FlushThrows(t)
    BY <2>24 DEF FlushThrows, Fault, db, net, flushLocals, pullLocals, FreshRatchet, RatchetState
  <2> QED
    BY <1>7, <2>24, <2>1, <2>2, <2>3, <2>4, <2>7, <2>8, <2>9, <2>10, <2>11, <2>12, <2>13,
       <2>14, <2>15, <2>16, <2>17, <2>18, <2>19, <2>20, <2>21, <2>22, <2>23
    DEF Run, FlushStep, PullStep
<1> QED
  BY <1>1, <1>2, <1>3, <1>4, <1>5, <1>6, <1>7 DEF Next

(* The state the channel is in has the type its declarations promise. *)
THEOREM ChannelTypeOK == Spec => []TypeOK
  BY InitType, NextType, PTL DEF Spec

-----------------------------------------------------------------------------
(* The ratchet.                                                            *)

(* Sealing leaves the receiving half alone. *)
LEMMA EncryptedKeys ==
  ASSUME NEW r \in RatchetState, NEW k \in Nat
  PROVE  KeyHeld(Encrypted(r), k) <=> KeyHeld(r, k)
  BY EncryptedType DEF KeyHeld

(* Opening envelope n uses up key n and no other, in whatever order the    *)
(* envelopes come.                                                         *)
LEMMA DecryptedKeys ==
  ASSUME NEW r \in RatchetState, NEW n \in Nat, NEW k \in Nat,
         KeyHeld(r, n), \A m \in r.skipped : m < r.recv
  PROVE  /\ KeyHeld(Decrypted(r, n), k) <=> KeyHeld(r, k) /\ k # n
         /\ \A m \in Decrypted(r, n).skipped : m < Decrypted(r, n).recv
         /\ Decrypted(r, n).recv \in {r.recv, n + 1}
  BY DEF RatchetState, Decrypted, KeyHeld

-----------------------------------------------------------------------------
(* Which parts of the invariant a step can disturb.                        *)

LEMMA KeyQuiet ==
  ASSUME \A s \in Side : KeyInv(s), UNCHANGED <<rat, sent, seen>>,
         relay' \subseteq relay
  PROVE  \A s \in Side : KeyInv(s)'
  BY DEF KeyInv

LEMMA TaskFrame ==
  ASSUME NEW u \in Task, TaskInv(u),
         UNCHANGED <<pc[u], letter[u], snap[u], env[u]>>, page'[u] \subseteq page[u],
         UNCHANGED <<rat[Home[u]], sent[Home[u]], seen[Home[u]]>>,
         sent[Other(Home[u])] \subseteq sent'[Other(Home[u])]
  PROVE  TaskInv(u)'
  BY DEF TaskInv

(* A call between two envelopes owes nothing but its page. *)
LEMMA TaskRest ==
  ASSUME NEW u \in Task, TaskInv(u),
         pc'[u] \in {"idle", "row", "list", "page", "failed", "sent"},
         page'[u] \subseteq page[u],
         sent[Other(Home[u])] \subseteq sent'[Other(Home[u])]
  PROVE  TaskInv(u)'
  BY DEF TaskInv

(* A step of call t that touches no ratchet, no history and no seen mark:  *)
(* what is left to show is that t itself still agrees with its row.        *)
LEMMA QuietStep ==
  ASSUME TypeOK, NEW t \in Task, \A u \in Task : TaskInv(u), \A s \in Side : KeyInv(s),
         UNCHANGED <<rat, sent, seen>>, relay' \subseteq relay,
         \A u \in Task \ {t} :
           UNCHANGED <<pc[u], letter[u], snap[u], env[u], page[u]>>,
         TaskInv(t)'
  PROVE  (\A u \in Task : TaskInv(u)') /\ (\A s \in Side : KeyInv(s)')
<1>1. \A s \in Side : KeyInv(s)'
  BY KeyQuiet
<1>2. ASSUME NEW u \in Task \ {t} PROVE TaskInv(u)'
  BY <1>2, TaskFrame
<1> QED
  BY <1>1, <1>2

-----------------------------------------------------------------------------
(* The invariant is inductive.                                             *)

LEMMA InitIInv == Init => IInv
  BY InitType DEF Init, IInv, TaskInv, KeyInv, FreshRatchet, FlushLabel, Side, Other

LEMMA QuietStepsIInv ==
  ASSUME IInv, NEW t \in Task,
         \/ FlushBegin(t) \/ PullBegin(t) \/ \E o \in Op : FlushSeal(t, o)
         \/ FlushThrows(t) \/ FlushDelete(t) \/ FlushBump(t) \/ FlushEnd(t)
         \/ PullList(t) \/ PullListFails(t) \/ \E e \in page[t] : PullPick(t, e)
         \/ PullOpen(t) \/ PullRefuse(t) \/ PullRollback(t)
         \/ PullDrop(t) \/ PullDropFails(t) \/ PullNextDay(t) \/ PullEnd(t)
  PROVE  (\A u \in Task : TaskInv(u)') /\ (\A s \in Side : KeyInv(s)')
<1> DEFINE s == Home[t]
<1>1. s \in Side /\ Other(s) \in Side
  BY ChannelAssumption, OtherSide
<1> USE DEF IInv
<1> SUFFICES TaskInv(t)' /\ UNCHANGED <<rat, sent, seen>> /\ relay' \subseteq relay
             /\ \A u \in Task \ {t} :
                  UNCHANGED <<pc[u], letter[u], snap[u], env[u], page[u]>>
  BY QuietStep
<1>2. UNCHANGED <<rat, sent, seen>> /\ relay' \subseteq relay
  BY DEF FlushBegin, PullBegin, FlushSeal, FlushThrows, FlushDelete, FlushBump, FlushEnd,
         PullList, PullListFails, PullPick, PullOpen, PullRefuse, PullRollback,
         PullDrop, PullDropFails, PullNextDay, PullEnd, db, net, world
<1>3. ASSUME NEW u \in Task \ {t}
      PROVE  UNCHANGED <<pc[u], letter[u], snap[u], env[u], page[u]>>
  BY DEF FlushBegin, PullBegin, FlushSeal, FlushThrows, FlushDelete, FlushBump, FlushEnd,
         PullList, PullListFails, PullPick, PullOpen, PullRefuse, PullRollback,
         PullDrop, PullDropFails, PullNextDay, PullEnd, Goto, pullLocals, flushLocals,
         TypeOK
<1>4. ASSUME pc'[t] \in {"idle", "row", "list", "page", "failed"}, page'[t] \subseteq page[t]
      PROVE  TaskInv(t)'
  <2>1. sent[Other(s)] \subseteq sent'[Other(s)] /\ TaskInv(t)
    BY <1>2
  <2> QED
    BY <1>4, <2>1, TaskRest
<1>5. ASSUME NEW o \in Op, FlushSeal(t, o) PROVE TaskInv(t)'
  BY <1>1, <1>2, <1>5 DEF FlushSeal, Goto, TypeOK, TaskInv, pullLocals
<1>6. ASSUME PullList(t) PROVE TaskInv(t)'
  <2>1. pc'[t] = "page" /\ page'[t] = Listing(s, base[t] - off[t])
    BY <1>6 DEF PullList, Goto, TypeOK
  <2>2. \A e \in page'[t] : e.to = s /\ e.letter \in sent'[Other(s)]
    BY <1>1, <1>2, <2>1 DEF Listing, KeyInv
  <2> QED
    BY <2>1, <2>2 DEF TaskInv, FlushLabel
<1>7. ASSUME NEW e \in page[t], PullPick(t, e) PROVE TaskInv(t)'
  <2>1. e.to = s /\ e.letter \in sent'[Other(s)]
    BY <1>2 DEF TaskInv
  <2>2. pc'[t] = IF e.letter \in seen'[s] THEN "drop" ELSE "open"
    BY <1>2, <1>7 DEF PullPick, Goto, TypeOK
  <2>3. env'[t] = e /\ page'[t] \subseteq page[t]
    BY <1>7 DEF PullPick, TypeOK
  <2>4. \A f \in page'[t] : f.to = s /\ f.letter \in sent'[Other(s)]
    BY <1>2, <2>3 DEF TaskInv
  <2> QED
    BY <2>1, <2>2, <2>3, <2>4 DEF TaskInv, FlushLabel
<1>8. ASSUME PullOpen(t) PROVE TaskInv(t)'
  <2>1. pc[t] = "open" /\ pc'[t] = "commit" /\ env'[t] = env[t] /\ page'[t] = page[t]
    BY <1>8 DEF PullOpen, Goto, TypeOK, pullLocals
  <2>2. snap'[t] = Decrypted(rat[s], env[t].letter.ctr)
    BY <1>8 DEF PullOpen, TypeOK
  <2>3. TaskInv(t) /\ KeyInv(s)
    BY <1>1
  <2>4. KeyHeld(rat[s], env[t].letter.ctr)
    BY <2>1, <2>3 DEF TaskInv, KeyInv
  <2> QED
    BY <1>2, <2>1, <2>2, <2>3, <2>4 DEF TaskInv, FlushLabel
<1>9. ASSUME \/ FlushBegin(t) \/ PullBegin(t)
             \/ FlushThrows(t) \/ FlushDelete(t) \/ FlushBump(t) \/ FlushEnd(t)
             \/ PullListFails(t) \/ PullRefuse(t) \/ PullRollback(t)
             \/ PullDrop(t) \/ PullDropFails(t) \/ PullNextDay(t) \/ PullEnd(t)
      PROVE  TaskInv(t)'
  BY <1>4, <1>9 DEF FlushBegin, PullBegin, FlushThrows, FlushDelete, FlushBump, FlushEnd,
         PullListFails, PullRefuse, PullRollback,
         PullDrop, PullDropFails, PullNextDay, PullEnd, Goto, pullLocals, TypeOK
<1> QED
  BY <1>2, <1>3, <1>5, <1>6, <1>7, <1>8, <1>9

(* saveRatchet after sealing: the row moves on to the next counter.        *)
LEMMA FlushSaveIInv ==
  ASSUME OneTaskPerSide, IInv, NEW t \in Task, FlushSave(t)
  PROVE  (\A u \in Task : TaskInv(u)') /\ (\A s \in Side : KeyInv(s)')
<1> DEFINE s == Home[t]
<1>1. s \in Side /\ Other(s) \in Side /\ Other(s) # s /\ rat[s] \in RatchetState
  BY ChannelAssumption, OtherSide DEF IInv, TypeOK
<1>2. UNCHANGED <<sent, seen, relay, letter, env, page>>
  BY DEF FlushSave, net, flushLocals, pullLocals
<1>3. pc[t] = "save" /\ pc'[t] = "post"
      /\ \A u \in Task \ {t} : pc'[u] = pc[u] /\ snap'[u] = snap[u]
  BY DEF FlushSave, Goto, IInv, TypeOK
<1>4. TaskInv(t) /\ KeyInv(s)
  BY <1>1 DEF IInv
<1>5. rat'[s] = Encrypted(rat[s]) /\ \A r \in Side \ {s} : rat'[r] = rat[r]
  BY <1>1, <1>3, <1>4 DEF FlushSave, IInv, TypeOK, TaskInv
<1>6. /\ rat'[s].send = rat[s].send + 1
      /\ rat'[s].recv = rat[s].recv
      /\ rat'[s].skipped = rat[s].skipped
  BY <1>1, <1>5, EncryptedType
<1>7. TaskInv(t)'
  <2>1. letter[t].ctr = rat[s].send /\ rat[s].send \in Nat
    BY <1>1, <1>3, <1>4 DEF TaskInv, RatchetState
  <2>2. \A l \in sent[s] : l.ctr < letter[t].ctr
    BY <1>4, <2>1 DEF KeyInv
  <2> QED
    BY <1>2, <1>3, <1>4, <1>6, <2>1, <2>2 DEF TaskInv, FlushLabel
<1>8. ASSUME NEW u \in Task, u # t PROVE TaskInv(u)'
  <2>1. Home[u] \in Side \ {s} /\ TaskInv(u)
    BY <1>8, ChannelAssumption DEF IInv, OneTaskPerSide
  <2> QED
    BY <1>2, <1>3, <1>5, <1>8, <2>1, TaskFrame
<1>9. KeyInv(s)'
  <2>1. \A l \in sent[s] : l.ctr < rat'[s].send
    BY <1>1, <1>4, <1>6 DEF KeyInv, RatchetState, IInv, TypeOK, Letter
  <2>2. \A k : KeyHeld(rat'[s], k) <=> KeyHeld(rat[s], k)
    BY <1>6 DEF KeyHeld
  <2> QED
    BY <1>2, <1>4, <1>6, <2>1, <2>2 DEF KeyInv
<1>10. ASSUME NEW r \in Side, r # s PROVE KeyInv(r)'
  BY <1>2, <1>5, <1>10 DEF KeyInv, IInv
<1> QED
  BY <1>7, <1>8, <1>9, <1>10

(* The POST: one more letter is out, under a counter nobody has used.      *)
LEMMA FlushPostIInv ==
  ASSUME OneTaskPerSide, IInv, NEW t \in Task,
         FlushPostOk(t) \/ FlushPostLost(t) \/ FlushReplyLost(t)
  PROVE  (\A u \in Task : TaskInv(u)') /\ (\A s \in Side : KeyInv(s)')
<1> DEFINE s == Home[t]
           p == Other(s)
           l == letter[t]
<1>1. s \in Side /\ p \in Side /\ p # s /\ Other(p) = s
  BY ChannelAssumption, OtherSide
<1>2. UNCHANGED <<rat, seen, letter, snap, env, page>>
  BY DEF FlushPostOk, FlushPostLost, FlushReplyLost, db, flushLocals, pullLocals
<1>3. /\ pc[t] = "post" /\ pc'[t] \in {"sent", "failed"}
      /\ \A u \in Task \ {t} : pc'[u] = pc[u]
  BY DEF FlushPostOk, FlushPostLost, FlushReplyLost, Goto, IInv, TypeOK
<1>4. TaskInv(t) /\ KeyInv(s) /\ KeyInv(p)
  BY <1>1 DEF IInv
<1>5. sent'[s] = sent[s] \cup {l} /\ sent'[p] = sent[p]
  BY <1>1 DEF FlushPostOk, FlushPostLost, FlushReplyLost, Transmit, IInv, TypeOK
<1>6. \A e \in relay' : e \in relay \/ (e.to = p /\ e.letter = l)
  BY DEF FlushPostOk, FlushPostLost, FlushReplyLost, Store, Posted
<1>7. l \in Letter /\ l.ctr + 1 = rat[s].send /\ \A m \in sent[s] : m.ctr < l.ctr
  BY <1>3, <1>4 DEF TaskInv, IInv, TypeOK, FlushLabel
<1>8. l \notin seen[p] /\ KeyHeld(rat[p], l.ctr)
  <2>1. seen[p] \subseteq sent[s]
    BY <1>1, <1>4 DEF KeyInv
  <2>2. \A m \in sent[s] : m.ctr \in Nat
    BY <1>1 DEF IInv, TypeOK, Letter
  <2>3. l.ctr \in Nat
    BY <1>7 DEF Letter
  <2>4. l \notin seen[p]
    BY <1>7, <2>1, <2>2, <2>3
  <2>5. rat[p].recv = 0 \/ \E m \in seen[p] : rat[p].recv = m.ctr + 1
    BY <1>4 DEF KeyInv
  <2>6. l.ctr >= rat[p].recv
    BY <1>7, <2>1, <2>2, <2>3, <2>5
  <2> QED
    BY <2>4, <2>6 DEF KeyHeld
<1>9. TaskInv(t)'
  <2>1. page'[t] \subseteq page[t] /\ sent[p] \subseteq sent'[p]
    BY <1>2, <1>5
  <2> QED
    BY <1>3, <1>4, <2>1, TaskRest
<1>10. ASSUME NEW u \in Task, u # t PROVE TaskInv(u)'
  <2>1. Home[u] = p /\ TaskInv(u)
    BY <1>1, <1>10, ChannelAssumption DEF IInv, OneTaskPerSide, Side, Other
  <2> QED
    BY <1>1, <1>2, <1>3, <1>5, <1>10, <2>1, TaskFrame
<1>11. \A e \in relay' : e.letter \in sent'[Other(e.to)]
  <2>1. \A e \in relay : e.to \in Side /\ e.letter \in sent[Other(e.to)]
    BY <1>4 DEF KeyInv, IInv, TypeOK, Envelope
  <2>2. \A r \in Side : sent[r] \subseteq sent'[r]
    BY <1>1, <1>5 DEF Side
  <2> QED
    BY <1>1, <1>5, <1>6, <2>1, <2>2, OtherSide
<1>12. KeyInv(s)'
  <2>1. \A m \in sent'[s] : m.ctr < rat[s].send
    BY <1>4, <1>5, <1>7 DEF KeyInv, Letter
  <2>2. \A m, n \in sent'[s] : m.ctr = n.ctr => m = n
    <3>1. \A m \in sent[s] : m.ctr # l.ctr
      BY <1>1, <1>7 DEF Letter, IInv, TypeOK
    <3> QED
      BY <1>4, <1>5, <3>1 DEF KeyInv
  <2> QED
    BY <1>2, <1>4, <1>5, <1>11, <2>1, <2>2 DEF KeyInv
<1>13. KeyInv(p)'
  BY <1>1, <1>2, <1>4, <1>5, <1>8, <1>11 DEF KeyInv
<1> QED
  BY <1>1, <1>9, <1>10, <1>12, <1>13 DEF Side

(* The transaction of pull(): key n is used up, letter n is marked seen.   *)
LEMMA PullCommitIInv ==
  ASSUME OneTaskPerSide, IInv, NEW t \in Task, PullCommit(t)
  PROVE  (\A u \in Task : TaskInv(u)') /\ (\A s \in Side : KeyInv(s)')
<1> DEFINE s == Home[t]
           p == Other(s)
           l == env[t].letter
           r == rat[s]
<1>1. s \in Side /\ p \in Side /\ p # s /\ Other(p) = s /\ r \in RatchetState
  BY ChannelAssumption, OtherSide DEF IInv, TypeOK
<1>2. UNCHANGED <<relay, sent, letter, env, page>>
  BY DEF PullCommit, net, flushLocals, pullLocals
<1>3. /\ pc[t] = "commit" /\ pc'[t] = "drop"
      /\ \A u \in Task \ {t} : pc'[u] = pc[u] /\ snap'[u] = snap[u]
  BY DEF PullCommit, Goto, IInv, TypeOK
<1>4. TaskInv(t) /\ KeyInv(s) /\ KeyInv(p)
  BY <1>1 DEF IInv
<1>5. /\ l \in Letter /\ l.ctr \in Nat
      /\ l \in sent[p] /\ l \notin seen[s] /\ KeyHeld(r, l.ctr)
  BY <1>3, <1>4 DEF TaskInv, IInv, TypeOK, Envelope, Letter
<1>6. /\ rat'[s] = Decrypted(r, l.ctr) /\ rat'[p] = rat[p]
      /\ seen'[s] = seen[s] \cup {l} /\ seen'[p] = seen[p]
  BY <1>1, <1>3, <1>4 DEF PullCommit, IInv, TypeOK, TaskInv
<1>7. \A k \in Nat : KeyHeld(rat'[s], k) <=> KeyHeld(r, k) /\ k # l.ctr
  BY <1>1, <1>4, <1>5, <1>6, DecryptedKeys DEF KeyInv
<1>8. /\ \A n \in rat'[s].skipped : n < rat'[s].recv
      /\ rat'[s].recv \in {r.recv, l.ctr + 1}
      /\ rat'[s].send = r.send
  <2>1. \A m \in r.skipped : m < r.recv
    BY <1>4 DEF KeyInv
  <2>2. /\ \A m \in Decrypted(r, l.ctr).skipped : m < Decrypted(r, l.ctr).recv
        /\ Decrypted(r, l.ctr).recv \in {r.recv, l.ctr + 1}
    BY <1>1, <1>5, <2>1, DecryptedKeys
  <2>3. Decrypted(r, l.ctr).send = r.send
    BY <1>1, <1>5, DecryptedType
  <2> QED
    BY <1>6, <2>2, <2>3
<1>9. TaskInv(t)'
  BY <1>2, <1>3, <1>4, <1>6 DEF TaskInv, FlushLabel
<1>10. ASSUME NEW u \in Task, u # t PROVE TaskInv(u)'
  <2>1. Home[u] = p /\ TaskInv(u)
    BY <1>1, <1>10, ChannelAssumption DEF IInv, OneTaskPerSide, Side, Other
  <2> QED
    BY <1>2, <1>3, <1>6, <1>10, <2>1, TaskFrame
<1>11. KeyInv(s)'
  <2>1. \A m \in sent[p] : m.ctr \in Nat /\ (m.ctr = l.ctr => m = l)
    BY <1>1, <1>4, <1>5 DEF KeyInv, IInv, TypeOK, Letter
  <2>2. \A m \in sent[p] : KeyHeld(rat'[s], m.ctr) <=> m \notin seen'[s]
    BY <1>4, <1>6, <1>7, <2>1 DEF KeyInv
  <2>3. rat'[s].recv = 0 \/ \E m \in seen'[s] : rat'[s].recv = m.ctr + 1
    BY <1>4, <1>6, <1>8 DEF KeyInv
  <2> QED
    BY <1>2, <1>4, <1>5, <1>6, <1>8, <2>2, <2>3 DEF KeyInv
<1>12. KeyInv(p)'
  BY <1>1, <1>2, <1>4, <1>6 DEF KeyInv
<1> QED
  BY <1>1, <1>9, <1>10, <1>11, <1>12 DEF Side

LEMMA NextIInv ==
  ASSUME OneTaskPerSide, IInv, [Next]_vars
  PROVE  IInv'
<1> SUFFICES (\A u \in Task : TaskInv(u)') /\ (\A s \in Side : KeyInv(s)')
  BY NextType DEF IInv
<1> USE DEF IInv
<1>1. CASE \/ UNCHANGED vars \/ Midnight \/ PurgeExpired
           \/ \E o \in Op : Enqueue(o) \/ RetryDue(o)
  <2>1. UNCHANGED <<rat, sent, seen, pc, letter, snap, env, page>> /\ relay' \subseteq relay
    BY <1>1 DEF vars, Midnight, PurgeExpired, Enqueue, RetryDue, db, net, world, locals,
                flushLocals, pullLocals
  <2> QED
    BY <2>1, KeyQuiet, TaskFrame
<1>2. ASSUME NEW s \in Side, Crash(s)
      PROVE  (\A u \in Task : TaskInv(u)') /\ (\A r \in Side : KeyInv(r)')
  <2>1. UNCHANGED <<rat, sent, seen, relay>>
    BY <1>2 DEF Crash, db, net
  <2>2. ASSUME NEW u \in Task, Home[u] = s PROVE TaskInv(u)'
    <3>1. pc'[u] = "idle" /\ page'[u] = {}
      BY <1>2, <2>2 DEF Crash
    <3> QED
      BY <2>1, <3>1, TaskRest
  <2>3. ASSUME NEW u \in Task, Home[u] # s PROVE TaskInv(u)'
    <3>1. UNCHANGED <<pc[u], letter[u], snap[u], env[u], page[u]>>
      BY <1>2, <2>3 DEF Crash
    <3> QED
      BY <2>1, <3>1, TaskFrame
  <2> QED
    BY <2>1, <2>2, <2>3, KeyQuiet
<1>3. ASSUME NEW t \in Task, Run(t)
      PROVE  (\A u \in Task : TaskInv(u)') /\ (\A s \in Side : KeyInv(s)')
  BY <1>3, QuietStepsIInv, FlushSaveIInv, FlushPostIInv, PullCommitIInv
     DEF Run, FlushStep, PullStep
<1> QED
  BY <1>1, <1>2, <1>3 DEF Next

THEOREM ChannelIInv ==
  ASSUME OneTaskPerSide PROVE Spec => []IInv
<1>1. IInv /\ [Next]_vars => IInv'
  BY NextIInv
<1> QED
  BY <1>1, InitIInv, PTL DEF Spec

-----------------------------------------------------------------------------
(* What follows: keys.                                                     *)

(* The persisted counter is ahead of everything that left the phone.       *)
THEOREM ChannelSavedBeforeSent ==
  ASSUME OneTaskPerSide PROVE Spec => []SavedBeforeSent
<1>1. IInv => SavedBeforeSent
  BY DEF IInv, KeyInv, SavedBeforeSent
<1> QED
  BY <1>1, ChannelIInv, PTL

(* An envelope its receiver has not applied can still be opened.           *)
THEOREM ChannelKeysSurvive ==
  ASSUME OneTaskPerSide PROVE Spec => []KeysSurvive
<1>1. IInv => KeysSurvive
  BY DEF IInv, KeyInv, KeysSurvive, TypeOK, Envelope
<1> QED
  BY <1>1, ChannelIInv, PTL

(* The key of an applied envelope is gone.                                 *)
THEOREM ChannelKeysForgotten ==
  ASSUME OneTaskPerSide PROVE Spec => []KeysForgotten
<1>1. IInv => KeysForgotten
  BY DEF IInv, KeyInv, KeysForgotten
<1> QED
  BY <1>1, ChannelIInv, PTL

(* The keys an envelope needs room for are keys outstanding: those kept     *)
(* aside already, and those between the chain and the envelope.            *)
LEMMA RoomForKeys ==
  ASSUME IInv, NEW e \in relay, e.letter \notin seen[e.to],
         e.letter.ctr >= rat[e.to].recv
  PROVE  /\ Cardinality(rat[e.to].skipped) + (e.letter.ctr - rat[e.to].recv)
              <= Cardinality(Outstanding(Other(e.to)))
         /\ Cardinality(rat[e.to].skipped) \in Nat
         /\ Cardinality(Outstanding(Other(e.to))) \in Nat
<1>1. PICK s : s = e.to
  OBVIOUS
<1>2. PICK p : p = Other(s)
  OBVIOUS
<1>3. s \in Side /\ p \in Side /\ Other(p) = s
  BY <1>1, <1>2, OtherSide DEF IInv, TypeOK, Envelope
<1>4. PICK n : n = e.letter.ctr
  OBVIOUS
<1>5. PICK c : c = rat[s].recv
  OBVIOUS
<1>6. PICK S : S = rat[s].skipped
  OBVIOUS
<1>7. n \in Nat /\ c \in Nat /\ S \subseteq Nat /\ rat[p].send \in Nat /\ c <= n
  BY <1>1, <1>3, <1>4, <1>5, <1>6 DEF IInv, TypeOK, Envelope, Letter, RatchetState
<1>8. n < rat[p].send
  BY <1>1, <1>2, <1>3, <1>4 DEF IInv, KeyInv
<1>9. \A m \in S : m < c
  BY <1>3, <1>5, <1>6 DEF IInv, KeyInv
<1>10. \A l \in seen[s] : l.ctr < c /\ l.ctr \notin S
  <2> SUFFICES ASSUME NEW l \in seen[s] PROVE l.ctr < c /\ l.ctr \notin S
    OBVIOUS
  <2>1. ~KeyHeld(rat[s], l.ctr)
    BY <1>3 DEF IInv, KeyInv
  <2>2. l.ctr \in Nat
    BY <1>3 DEF IInv, TypeOK, Letter
  <2> QED
    BY <1>5, <1>6, <1>7, <2>1, <2>2 DEF KeyHeld
<1>11. Outstanding(p) = {m \in 0 .. rat[p].send - 1 : \A l \in seen[s] : l.ctr # m}
  BY <1>3 DEF Outstanding
<1>12. S \cup c .. (n - 1) \subseteq Outstanding(p)
  BY <1>7, <1>8, <1>9, <1>10, <1>11
<1>13. IsFiniteSet(Outstanding(p))
  <2>1. IsFiniteSet(0 .. rat[p].send - 1)
    BY <1>7, FS_Interval
  <2> QED
    BY <1>11, <2>1, FS_Subset
<1>14. IsFiniteSet(S) /\ IsFiniteSet(c .. (n - 1))
  BY <1>12, <1>13, FS_Subset
<1>15. Cardinality(S \cup c .. (n - 1)) <= Cardinality(Outstanding(p))
  BY <1>12, <1>13, FS_Subset
<1>16. Cardinality(c .. (n - 1)) = n - c
  <2>1. n - 1 \in Int /\ c \in Int
    BY <1>7
  <2>2. Cardinality(c .. (n - 1)) = IF c > n - 1 THEN 0 ELSE (n - 1) - c + 1
    BY <2>1, FS_Interval
  <2> QED
    BY <1>7, <2>2
<1>17. S \cap c .. (n - 1) = {}
  BY <1>7, <1>9
<1>18. Cardinality(S) \in Nat /\ Cardinality(Outstanding(p)) \in Nat
  BY <1>13, <1>14, FS_CardinalityType
<1>19. Cardinality(S \cup c .. (n - 1)) = Cardinality(S) + (n - c)
  <2>1. Cardinality(S \cup c .. (n - 1))
          = Cardinality(S) + Cardinality(c .. (n - 1)) - Cardinality(S \cap c .. (n - 1))
    BY <1>14, FS_Union
  <2>2. Cardinality(S \cap c .. (n - 1)) = 0
    BY <1>17, FS_EmptySet
  <2> QED
    BY <1>7, <1>16, <1>18, <2>1, <2>2
<1> QED
  BY <1>1, <1>2, <1>4, <1>5, <1>6, <1>15, <1>18, <1>19

(* While no more keys are outstanding than the cache holds, every envelope *)
(* that waits on the relay can be opened now.                              *)
THEOREM ChannelNotWedged ==
  ASSUME OneTaskPerSide PROVE Spec => []NotWedged
<1>1. IInv => NotWedged
  <2> SUFFICES ASSUME IInv, NEW e \in relay, e.letter \notin seen[e.to],
                      Cardinality(Outstanding(Other(e.to))) <= MaxSkipped
               PROVE  Decryptable(rat[e.to], e.letter.ctr)
    BY DEF NotWedged
  <2>1. e.to \in Side /\ e.letter.ctr \in Nat /\ rat[e.to] \in RatchetState
    BY DEF IInv, TypeOK, Envelope, Letter
  <2>2. KeyHeld(rat[e.to], e.letter.ctr)
    BY <2>1 DEF IInv, KeyInv
  <2>3. CASE e.letter.ctr < rat[e.to].recv
    BY <2>1, <2>2, <2>3 DEF KeyHeld, Decryptable, RatchetState
  <2>4. CASE e.letter.ctr >= rat[e.to].recv
    <3>1. /\ Cardinality(rat[e.to].skipped) + (e.letter.ctr - rat[e.to].recv)
                <= Cardinality(Outstanding(Other(e.to)))
          /\ Cardinality(rat[e.to].skipped) \in Nat
          /\ Cardinality(Outstanding(Other(e.to))) \in Nat
      BY <2>4, RoomForKeys
    <3> QED
      BY <2>1, <2>4, <3>1, MaxSkippedAssumption DEF Decryptable, RatchetState
  <2> QED
    BY <2>1, <2>3, <2>4 DEF RatchetState
<1> QED
  BY <1>1, ChannelIInv, PTL

(* While calls do not overlap, no key seals two operations.                *)
THEOREM ChannelOneOpPerKey ==
  ASSUME OneTaskPerSide PROVE Spec => []OneOpPerKey
<1>1. IInv => OneOpPerKey
  BY DEF IInv, KeyInv, OneOpPerKey
<1> QED
  BY <1>1, ChannelIInv, PTL

(* Nor two transmissions of one operation.                                 *)
THEOREM ChannelCounterNeverReused ==
  ASSUME OneTaskPerSide PROVE Spec => CounterNeverReused
<1>1. IInv => \A t \in Task :
        (pc[t] = "post" /\ pc'[t] \in {"sent", "failed"}) =>
          \A l \in sent[Home[t]] : l.ctr # letter[t].ctr
  <2> SUFFICES ASSUME IInv, NEW t \in Task, pc[t] = "post",
                      NEW l \in sent[Home[t]]
               PROVE  l.ctr # letter[t].ctr
    OBVIOUS
  <2>1. l.ctr < letter[t].ctr /\ letter[t] \in Letter /\ Home[t] \in Side
    BY ChannelAssumption DEF IInv, TaskInv, TypeOK, FlushLabel
  <2>2. l \in Letter
    BY <2>1 DEF IInv, TypeOK
  <2> QED
    BY <2>1, <2>2 DEF Letter
<1> QED
  BY <1>1, ChannelIInv, PTL DEF CounterNeverReused

-----------------------------------------------------------------------------
(* Custody.                                                                *)

(* The operation waits on the relay in an envelope its receiver has not    *)
(* read, or it was applied.                                                *)
OnItsWay(s, o) ==
  \/ \E e \in relay : e.to = s /\ e.letter.op = o /\ e.letter \notin seen[s]
  \/ o \in applied[s]

LossInv ==
  /\ \A s \in Side : \A l \in seen[s] : l.op \in applied[s]
  /\ \A t \in Task : pc[t] = "sent" => OnItsWay(Other(Home[t]), letter[t].op)
  /\ \A o \in Op : o \in issued[Author[o]] =>
       o \in outbox[Author[o]] \/ OnItsWay(Other(Author[o]), o)

(* The relay's garbage collection removes only what was read. *)
PurgeSpares ==
  PurgeExpired => \A e \in relay \ relay' : e.letter \in seen[e.to]

(* Almost every step leaves the marks alone and only adds to the relay. *)
LEMMA CalmSteps ==
  ASSUME [Next]_vars,
         ~PurgeExpired, \A t \in Task : ~PullCommit(t) /\ ~PullDrop(t)
  PROVE  UNCHANGED <<seen, applied>> /\ relay \subseteq relay'
<1>1. CASE \/ UNCHANGED vars \/ Midnight
           \/ \E o \in Op : Enqueue(o) \/ RetryDue(o)
           \/ \E s \in Side : Crash(s)
  BY <1>1 DEF vars, Midnight, Enqueue, RetryDue, Crash, db, net
<1>2. ASSUME NEW t \in Task, Run(t) PROVE UNCHANGED <<seen, applied>> /\ relay \subseteq relay'
  <2>1. CASE \/ FlushBegin(t) \/ \E o \in Op : FlushSeal(t, o)
             \/ FlushSave(t) \/ FlushThrows(t) \/ FlushDelete(t) \/ FlushBump(t) \/ FlushEnd(t)
    BY <2>1 DEF FlushBegin, FlushSeal, FlushSave, FlushThrows, FlushDelete, FlushBump,
                    FlushEnd, db, net
  <2>2. CASE FlushPostOk(t) \/ FlushPostLost(t) \/ FlushReplyLost(t)
    BY <2>2 DEF FlushPostOk, FlushPostLost, FlushReplyLost, Store, db
  <2>3. CASE \/ PullBegin(t) \/ PullList(t) \/ PullListFails(t)
             \/ \E e \in page[t] : PullPick(t, e)
             \/ PullOpen(t) \/ PullRefuse(t) \/ PullRollback(t)
             \/ PullDropFails(t) \/ PullNextDay(t) \/ PullEnd(t)
    BY <2>3 DEF PullBegin, PullList, PullListFails, PullPick, PullOpen, PullRefuse,
                PullRollback, PullDropFails, PullNextDay, PullEnd, db, net
  <2> QED
    BY <1>2, <2>1, <2>2, <2>3 DEF Run, FlushStep, PullStep
<1> QED
  BY <1>1, <1>2 DEF Next

(* Nothing that is on its way goes astray. *)
LEMMA WayKept ==
  ASSUME IInv, LossInv, [Next]_vars, PurgeSpares, NEW s \in Side, NEW o, OnItsWay(s, o)
  PROVE  OnItsWay(s, o)'
<1>1. CASE ~PurgeExpired /\ \A t \in Task : ~PullCommit(t) /\ ~PullDrop(t)
  BY <1>1, CalmSteps DEF OnItsWay
<1>2. CASE PurgeExpired
  BY <1>2 DEF PurgeExpired, PurgeSpares, OnItsWay, db
<1>3. ASSUME NEW t \in Task, PullCommit(t) PROVE OnItsWay(s, o)'
  <2> DEFINE l == env[t].letter
             h == Home[t]
  <2>1. relay' = relay /\ h \in Side
    BY <1>3, ChannelAssumption DEF PullCommit, net
  <2>2. /\ seen'[s] = IF s = h THEN seen[s] \cup {l} ELSE seen[s]
        /\ applied'[s] = IF s = h THEN applied[s] \cup {l.op} ELSE applied[s]
    BY <1>3, <2>1 DEF PullCommit, IInv, TypeOK
  <2> QED
    BY <2>1, <2>2 DEF OnItsWay
<1>4. ASSUME NEW t \in Task, PullDrop(t) PROVE OnItsWay(s, o)'
  <2>1. env[t].letter \in seen[env[t].to]
    BY <1>4 DEF PullDrop, Goto, IInv, TaskInv
  <2> QED
    BY <1>4, <2>1 DEF PullDrop, OnItsWay, db
<1> QED
  BY <1>1, <1>2, <1>3, <1>4

(* The envelope FlushPostOk stores is one its receiver has not read. *)
LEMMA PostOnItsWay ==
  ASSUME IInv, NEW t \in Task, FlushPostOk(t)
  PROVE  OnItsWay(Other(Home[t]), letter[t].op)'
<1> DEFINE s == Home[t]
           p == Other(s)
<1>1. s \in Side /\ p \in Side /\ Other(p) = s
  BY ChannelAssumption, OtherSide
<1>2. pc[t] = "post" /\ relay' = relay \cup {Posted(t)} /\ UNCHANGED <<seen, letter>>
  BY DEF FlushPostOk, Goto, Store, db, flushLocals
<1>3. letter[t] \in Letter /\ \A l \in sent[s] : l \in Letter /\ l.ctr < letter[t].ctr
  BY <1>1, <1>2 DEF IInv, TaskInv, TypeOK, FlushLabel
<1>4. letter[t] \notin sent[s]
  BY <1>3 DEF Letter
<1>5. letter[t] \notin seen[p]
  BY <1>1, <1>4 DEF IInv, KeyInv
<1>6. Posted(t).to = p /\ Posted(t).letter = letter[t]
  BY DEF Posted
<1> QED
  BY <1>2, <1>5, <1>6 DEF OnItsWay

(* How a call comes to have posted, and what it then holds. *)
LEMMA SentSteps ==
  ASSUME TypeOK, [Next]_vars, NEW t \in Task, pc'[t] = "sent"
  PROVE  FlushPostOk(t) \/ (pc[t] = "sent" /\ letter'[t] = letter[t])
<1> SUFFICES ASSUME ~FlushPostOk(t)
             PROVE  pc[t] = "sent" /\ letter'[t] = letter[t]
  OBVIOUS
<1> USE DEF TypeOK
<1>1. CASE \/ UNCHANGED vars \/ Midnight \/ PurgeExpired
           \/ \E o \in Op : Enqueue(o) \/ RetryDue(o)
  BY <1>1 DEF vars, Midnight, PurgeExpired, Enqueue, RetryDue, locals, flushLocals
<1>2. CASE \E s \in Side : Crash(s)
  BY <1>2 DEF Crash
<1>3. ASSUME NEW u \in Task, Run(u) PROVE pc[t] = "sent" /\ letter'[t] = letter[t]
  <2>1. CASE \/ FlushBegin(u) \/ \E o \in Op : FlushSeal(u, o)
             \/ FlushSave(u) \/ FlushThrows(u) \/ FlushDelete(u) \/ FlushBump(u) \/ FlushEnd(u)
    BY <2>1 DEF FlushBegin, FlushSeal, FlushSave, FlushThrows, FlushDelete, FlushBump, FlushEnd,
                Goto, flushLocals
  <2>2. CASE FlushPostOk(u) \/ FlushPostLost(u) \/ FlushReplyLost(u)
    BY <2>2 DEF FlushPostOk, FlushPostLost, FlushReplyLost, Goto, flushLocals
  <2>3. CASE \/ PullBegin(u) \/ PullList(u) \/ PullListFails(u)
             \/ \E e \in page[u] : PullPick(u, e)
             \/ PullOpen(u) \/ PullRefuse(u) \/ PullCommit(u) \/ PullRollback(u)
             \/ PullDrop(u) \/ PullDropFails(u) \/ PullNextDay(u) \/ PullEnd(u)
    BY <2>3 DEF PullBegin, PullList, PullListFails, PullPick, PullOpen, PullRefuse,
                PullCommit, PullRollback, PullDrop, PullDropFails, PullNextDay, PullEnd,
                Goto, flushLocals
  <2> QED
    BY <1>3, <2>1, <2>2, <2>3 DEF Run, FlushStep, PullStep
<1> QED
  BY <1>1, <1>2, <1>3 DEF Next

(* A row leaves the outbox only in FlushDelete. *)
LEMMA OutboxSteps ==
  ASSUME TypeOK, [Next]_vars, NEW o \in Op, o \in issued'[Author[o]]
  PROVE  \/ o \in outbox'[Author[o]]
         \/ o \in issued[Author[o]] /\ o \notin outbox[Author[o]]
         \/ \E t \in Task : FlushDelete(t) /\ Home[t] = Author[o] /\ letter[t].op = o
<1> USE DEF TypeOK
<1>1. Author[o] \in Side
  BY ChannelAssumption
<1>2. CASE UNCHANGED <<issued, outbox>>
  BY <1>2
<1>3. ASSUME NEW q \in Op, Enqueue(q)
      PROVE  o \in outbox'[Author[o]] \/ (o \in issued[Author[o]] /\ o \notin outbox[Author[o]])
  BY <1>1, <1>3, ChannelAssumption DEF Enqueue
<1>4. ASSUME NEW t \in Task, FlushDelete(t)
      PROVE  \/ o \in outbox'[Author[o]]
             \/ o \in issued[Author[o]] /\ o \notin outbox[Author[o]]
             \/ FlushDelete(t) /\ Home[t] = Author[o] /\ letter[t].op = o
  BY <1>1, <1>4, ChannelAssumption DEF FlushDelete
<1>5. CASE \/ UNCHANGED vars \/ Midnight \/ PurgeExpired
           \/ \E q \in Op : RetryDue(q)
           \/ \E s \in Side : Crash(s)
  <2>1. UNCHANGED <<issued, outbox>>
    BY <1>5 DEF vars, Midnight, PurgeExpired, RetryDue, Crash, db
  <2> QED
    BY <1>2, <2>1
<1>6. ASSUME NEW t \in Task, Run(t), ~FlushDelete(t) PROVE UNCHANGED <<issued, outbox>>
  <2>1. CASE \/ FlushBegin(t) \/ \E q \in Op : FlushSeal(t, q)
             \/ FlushSave(t) \/ FlushThrows(t) \/ FlushBump(t) \/ FlushEnd(t)
             \/ FlushPostOk(t) \/ FlushPostLost(t) \/ FlushReplyLost(t)
    BY <2>1 DEF FlushBegin, FlushSeal, FlushSave, FlushThrows, FlushBump, FlushEnd,
                FlushPostOk, FlushPostLost, FlushReplyLost, db
  <2>2. CASE \/ PullBegin(t) \/ PullList(t) \/ PullListFails(t)
             \/ \E e \in page[t] : PullPick(t, e)
             \/ PullOpen(t) \/ PullRefuse(t) \/ PullCommit(t) \/ PullRollback(t)
             \/ PullDrop(t) \/ PullDropFails(t) \/ PullNextDay(t) \/ PullEnd(t)
    BY <2>2 DEF PullBegin, PullList, PullListFails, PullPick, PullOpen, PullRefuse,
                PullCommit, PullRollback, PullDrop, PullDropFails, PullNextDay, PullEnd, db
  <2> QED
    BY <1>6, <2>1, <2>2 DEF Run, FlushStep, PullStep
<1> QED
  BY <1>2, <1>3, <1>4, <1>5, <1>6 DEF Next

LEMMA InitLossInv == Init => LossInv
  BY ChannelAssumption DEF Init, LossInv

LEMMA NextLossInv ==
  ASSUME IInv, LossInv, [Next]_vars, PurgeSpares
  PROVE  LossInv'
<1>1. \A s \in Side : \A l \in seen'[s] : l.op \in applied'[s]
  <2>1. CASE ~PurgeExpired /\ \A t \in Task : ~PullCommit(t) /\ ~PullDrop(t)
    BY <2>1, CalmSteps DEF LossInv
  <2>2. CASE PurgeExpired \/ \E t \in Task : PullDrop(t)
    BY <2>2 DEF PurgeExpired, PullDrop, db, LossInv
  <2>3. ASSUME NEW t \in Task, PullCommit(t)
        PROVE  \A s \in Side : \A l \in seen'[s] : l.op \in applied'[s]
    BY <2>3, ChannelAssumption DEF PullCommit, IInv, TypeOK, LossInv
  <2> QED
    BY <2>1, <2>2, <2>3
<1>2. ASSUME NEW t \in Task, pc'[t] = "sent"
      PROVE  OnItsWay(Other(Home[t]), letter[t].op)'
  <2>1. Other(Home[t]) \in Side
    BY ChannelAssumption, OtherSide
  <2>2. FlushPostOk(t) \/ (pc[t] = "sent" /\ letter'[t] = letter[t])
    BY <1>2, SentSteps DEF IInv
  <2>3. CASE pc[t] = "sent" /\ letter'[t] = letter[t]
    <3>1. OnItsWay(Other(Home[t]), letter[t].op)
      BY <2>3 DEF LossInv
    <3>2. \A x : OnItsWay(Other(Home[t]), x) =>
               \/ \E e \in relay' : /\ e.to = Other(Home[t]) /\ e.letter.op = x
                                    /\ e.letter \notin seen'[Other(Home[t])]
               \/ x \in applied'[Other(Home[t])]
      BY <2>1, WayKept DEF OnItsWay
    <3> QED
      BY <2>3, <3>1, <3>2 DEF OnItsWay
  <2> QED
    BY <2>2, <2>3, PostOnItsWay
<1>3. ASSUME NEW o \in Op, o \in issued'[Author[o]]
      PROVE  o \in outbox'[Author[o]] \/ OnItsWay(Other(Author[o]), o)'
  <2>1. Other(Author[o]) \in Side
    BY ChannelAssumption, OtherSide
  <2>2. ASSUME OnItsWay(Other(Author[o]), o) PROVE OnItsWay(Other(Author[o]), o)'
    BY <2>1, <2>2, WayKept
  <2>3. CASE o \in issued[Author[o]] /\ o \notin outbox[Author[o]]
    BY <2>2, <2>3 DEF LossInv
  <2>4. ASSUME NEW t \in Task, FlushDelete(t), Home[t] = Author[o], letter[t].op = o
        PROVE  OnItsWay(Other(Author[o]), o)
    BY <2>4 DEF FlushDelete, Goto, LossInv
  <2> QED
    BY <1>3, <2>2, <2>3, <2>4, OutboxSteps DEF IInv
<1> QED
  BY <1>1, <1>2, <1>3 DEF LossInv

(* No crash, failed request, lost answer, rollback or refused envelope     *)
(* loses an operation: it is queued, or on the relay in an envelope that   *)
(* can be opened, until the partner has applied it.  The one way to lose   *)
(* an operation is the relay expiring an envelope that was never read.     *)
THEOREM ChannelNothingLost ==
  ASSUME OneTaskPerSide PROVE Spec /\ [][PurgeSpares]_vars => []NothingLost
<1>1. IInv /\ LossInv => NothingLost
  <2> SUFFICES ASSUME IInv, LossInv, NEW o \in Op, o \in issued[Author[o]],
                      o \notin applied[Other(Author[o])]
               PROVE  InCustody(o)
    BY DEF NothingLost
  <2>1. Other(Author[o]) \in Side
    BY ChannelAssumption, OtherSide
  <2>2. CASE o \in outbox[Author[o]]
    BY <2>2 DEF InCustody
  <2>3. ASSUME NEW e \in relay, e.to = Other(Author[o]), e.letter.op = o,
               e.letter \notin seen[Other(Author[o])]
        PROVE  InCustody(o)
    BY <2>1, <2>3 DEF InCustody, IInv, KeyInv
  <2> QED
    BY <2>2, <2>3 DEF LossInv, OnItsWay
<1>2. IInv /\ LossInv /\ [Next]_vars /\ [PurgeSpares]_vars => LossInv'
  <2>1. UNCHANGED vars => PurgeSpares
    BY DEF vars, net, PurgeSpares
  <2> QED
    BY <2>1, NextLossInv
<1> QED
  BY <1>1, <1>2, InitLossInv, ChannelIInv, PTL DEF Spec

-----------------------------------------------------------------------------
(* Applied operations and read envelopes.                                  *)

AppliedInv == \A s \in Side : \A o \in applied[s] : \E l \in seen[s] : l.op = o

LEMMA NextAppliedInv ==
  ASSUME IInv, AppliedInv, [Next]_vars
  PROVE  AppliedInv'
<1>1. CASE ~PurgeExpired /\ \A t \in Task : ~PullCommit(t) /\ ~PullDrop(t)
  BY <1>1, CalmSteps DEF AppliedInv
<1>2. CASE PurgeExpired \/ \E t \in Task : PullDrop(t)
  BY <1>2 DEF PurgeExpired, PullDrop, db, AppliedInv
<1>3. ASSUME NEW t \in Task, PullCommit(t) PROVE AppliedInv'
  BY <1>3, ChannelAssumption DEF PullCommit, IInv, TypeOK, AppliedInv
<1> QED
  BY <1>1, <1>2, <1>3

(* An envelope is applied at most once, and an operation once more only    *)
(* for another envelope.                                                   *)
THEOREM ChannelAppliedOnce ==
  ASSUME OneTaskPerSide PROVE Spec => AppliedOnce
<1>1. Init => AppliedInv
  BY DEF Init, AppliedInv
<1>2. IInv /\ AppliedInv => \A t \in Task :
        (pc[t] = "commit" /\ pc'[t] = "drop") =>
          LET l == env[t].letter IN
          /\ l \notin seen[Home[t]]
          /\ l.op \in applied[Home[t]] => \E m \in seen[Home[t]] : m.op = l.op
  BY ChannelAssumption DEF IInv, TaskInv, AppliedInv
<1> QED
  BY <1>1, <1>2, NextAppliedInv, ChannelIInv, PTL DEF AppliedOnce, Spec

-----------------------------------------------------------------------------
(* Whose an operation is, and what its way leaves behind, however many     *)
(* callers a phone has.                                                    *)

(* What a call holds is of its own phone or of the partner. *)
Carries(t) ==
  LET s == Home[t] IN
  /\ rows[t] \subseteq issued[s]
  /\ pc[t] \in {"save", "post", "sent", "failed"} => letter[t].op \in issued[s]
  /\ \A e \in page[t] : e.to = s /\ e.letter.op \in issued[Other(s)]
  /\ pc[t] \in {"open", "commit", "drop"} =>
       env[t].to = s /\ env[t].letter.op \in issued[Other(s)]

Origins ==
  /\ \A s \in Side : \A o \in issued[s] : Author[o] = s
  /\ \A s \in Side : outbox[s] \subseteq issued[s] /\ applied[s] \subseteq issued[Other(s)]
  /\ \A e \in relay : e.letter.op \in issued[Other(e.to)]
  /\ \A t \in Task : Carries(t)

(* The relay has stored an envelope for it, or it was applied. *)
Handed(o) == (\E e \in relay : e.letter.op = o) \/ o \in applied[Other(Author[o])]

HandInv ==
  /\ \A s \in Side : \A l \in seen[s] : l.op \in applied[s]
  /\ \A t \in Task : pc[t] = "drop" => env[t].letter.op \in applied[Home[t]]
  /\ \A t \in Task : pc[t] = "sent" => Handed(letter[t].op)
  /\ \A o \in Op : o \in issued[Author[o]] => o \in outbox[Author[o]] \/ Handed(o)

-----------------------------------------------------------------------------
(* Operations only come in by Enqueue and reach the projector by           *)
(* PullCommit.                                                             *)

LEMMA IssuedApplied ==
  ASSUME [Next]_vars
  PROVE  \/ UNCHANGED <<issued, applied>>
         \/ \E o \in Op : Enqueue(o)
         \/ \E t \in Task : PullCommit(t)
<1>1. CASE \/ UNCHANGED vars \/ Midnight \/ PurgeExpired
           \/ \E o \in Op : RetryDue(o)
           \/ \E s \in Side : Crash(s)
  BY <1>1 DEF vars, Midnight, PurgeExpired, RetryDue, Crash, db
<1>2. ASSUME NEW t \in Task, Run(t), ~PullCommit(t) PROVE UNCHANGED <<issued, applied>>
  <2>1. CASE \/ FlushBegin(t) \/ \E o \in Op : FlushSeal(t, o)
             \/ FlushSave(t) \/ FlushThrows(t) \/ FlushDelete(t) \/ FlushBump(t) \/ FlushEnd(t)
             \/ FlushPostOk(t) \/ FlushPostLost(t) \/ FlushReplyLost(t)
    BY <2>1 DEF FlushBegin, FlushSeal, FlushSave, FlushThrows, FlushDelete, FlushBump, FlushEnd,
                FlushPostOk, FlushPostLost, FlushReplyLost, db
  <2>2. CASE \/ PullBegin(t) \/ PullList(t) \/ PullListFails(t)
             \/ \E e \in page[t] : PullPick(t, e)
             \/ PullOpen(t) \/ PullRefuse(t) \/ PullRollback(t)
             \/ PullDrop(t) \/ PullDropFails(t) \/ PullNextDay(t) \/ PullEnd(t)
    BY <2>2 DEF PullBegin, PullList, PullListFails, PullPick, PullOpen, PullRefuse,
                PullRollback, PullDrop, PullDropFails, PullNextDay, PullEnd, db
  <2> QED
    BY <1>2, <2>1, <2>2 DEF Run, FlushStep, PullStep
<1> QED
  BY <1>1, <1>2 DEF Next

(* A step that puts nothing new into the hands of a call. *)
LEMMA CarriesFrame ==
  ASSUME NEW u \in Task, Carries(u),
         issued[Home[u]] \subseteq issued'[Home[u]],
         issued[Other(Home[u])] \subseteq issued'[Other(Home[u])],
         rows'[u] \subseteq rows[u], page'[u] \subseteq page[u],
         \/ UNCHANGED <<pc[u], letter[u], env[u]>>
         \/ pc'[u] \in {"idle", "row", "list", "page"}
  PROVE  Carries(u)'
<1>1. CASE UNCHANGED <<pc[u], letter[u], env[u]>>
  BY <1>1 DEF Carries
<1>2. CASE pc'[u] \in {"idle", "row", "list", "page"}
  BY <1>2 DEF Carries
<1> QED
  BY <1>1, <1>2

LEMMA RunCarries ==
  ASSUME TypeOK, Origins, NEW t \in Task, Run(t)
  PROVE  /\ issued' = issued
         /\ \A u \in Task \ {t} : UNCHANGED <<pc[u], letter[u], env[u], page[u], rows[u]>>
         /\ Carries(t)'
<1> DEFINE s == Home[t]
<1>1. s \in Side /\ Other(s) \in Side
  BY ChannelAssumption, OtherSide
<1>2. Carries(t)
  BY DEF Origins
<1>3. CASE \/ FlushBegin(t) \/ \E o \in Op : FlushSeal(t, o)
           \/ FlushSave(t) \/ FlushThrows(t) \/ FlushDelete(t) \/ FlushBump(t) \/ FlushEnd(t)
  <2>1. /\ issued' = issued
        /\ \A u \in Task \ {t} : UNCHANGED <<pc[u], letter[u], env[u], page[u], rows[u]>>
    BY <1>3 DEF FlushBegin, FlushSeal, FlushSave, FlushThrows, FlushDelete, FlushBump, FlushEnd,
                Goto, db, flushLocals, pullLocals, TypeOK
  <2>2. CASE FlushBegin(t)
    <3>1. pc'[t] = "row" /\ rows'[t] \subseteq outbox[s] /\ page'[t] = page[t]
      BY <2>2 DEF FlushBegin, Goto, pullLocals, TypeOK
    <3>2. rows'[t] \subseteq issued[s]
      BY <1>1, <3>1 DEF Origins
    <3> QED
      BY <1>2, <2>1, <3>1, <3>2 DEF Carries
  <2>3. ASSUME NEW o \in Op, FlushSeal(t, o) PROVE Carries(t)'
    <3>1. /\ pc'[t] = "save" /\ o \in rows[t] /\ rows'[t] \subseteq rows[t] /\ page'[t] = page[t]
          /\ letter'[t].op = o
      BY <2>3 DEF FlushSeal, Goto, pullLocals, TypeOK
    <3> QED
      BY <1>2, <2>1, <3>1 DEF Carries
  <2>4. CASE FlushSave(t) \/ FlushThrows(t)
    <3>1. /\ pc[t] \in {"save", "sent"} /\ pc'[t] \in {"post", "failed"}
          /\ UNCHANGED <<letter, rows, page>>
      BY <2>4 DEF FlushSave, FlushThrows, Goto, flushLocals, pullLocals, TypeOK
    <3> QED
      BY <1>2, <2>1, <3>1 DEF Carries
  <2>5. CASE FlushDelete(t) \/ FlushBump(t) \/ FlushEnd(t)
    <3>1. pc'[t] \in {"row", "list", "idle"} /\ UNCHANGED <<rows, page>>
      BY <2>5 DEF FlushDelete, FlushBump, FlushEnd, Goto, flushLocals, pullLocals, TypeOK
    <3> QED
      BY <1>2, <2>1, <3>1, CarriesFrame
  <2> QED
    BY <1>3, <2>1, <2>2, <2>3, <2>4, <2>5
<1>4. CASE FlushPostOk(t) \/ FlushPostLost(t) \/ FlushReplyLost(t)
  <2>1. /\ pc[t] = "post" /\ pc'[t] \in {"sent", "failed"}
        /\ UNCHANGED <<issued, letter, rows, page, env>>
        /\ \A u \in Task \ {t} : pc'[u] = pc[u]
    BY <1>4 DEF FlushPostOk, FlushPostLost, FlushReplyLost, Goto, db, flushLocals, pullLocals,
                TypeOK
  <2> QED
    BY <1>2, <2>1 DEF Carries
<1>5. CASE \/ PullBegin(t) \/ PullList(t) \/ PullListFails(t)
           \/ PullRefuse(t) \/ PullRollback(t) \/ PullDrop(t)
           \/ PullDropFails(t) \/ PullNextDay(t) \/ PullEnd(t)
  <2>1. /\ pc'[t] \in {"idle", "list", "page"} /\ UNCHANGED <<issued, letter, rows>>
        /\ \A u \in Task \ {t} : UNCHANGED <<pc[u], env[u], page[u]>>
    BY <1>5 DEF PullBegin, PullList, PullListFails, PullRefuse, PullRollback, PullDrop,
                PullDropFails, PullNextDay, PullEnd, Goto, db, flushLocals, TypeOK
  <2>2. \A e \in page'[t] : e.to = s /\ e.letter.op \in issued[Other(s)]
    <3>1. CASE PullList(t)
      BY <1>1, <3>1 DEF PullList, Listing, Origins, TypeOK
    <3>2. CASE ~PullList(t)
      <4>1. page' = page
        BY <1>5, <3>2 DEF PullBegin, PullListFails, PullRefuse, PullRollback, PullDrop,
                PullDropFails, PullNextDay, PullEnd
      <4> QED
        BY <1>2, <4>1 DEF Carries
    <3> QED
      BY <3>1, <3>2
  <2> QED
    BY <1>2, <2>1, <2>2 DEF Carries
<1>6. ASSUME NEW e \in page[t], PullPick(t, e)
      PROVE  /\ issued' = issued
             /\ \A u \in Task \ {t} : UNCHANGED <<pc[u], letter[u], env[u], page[u], rows[u]>>
             /\ Carries(t)'
  <2>1. /\ pc'[t] \in {"drop", "open"} /\ env'[t] = e /\ page'[t] \subseteq page[t]
        /\ UNCHANGED <<issued, letter, rows>>
        /\ \A u \in Task \ {t} : UNCHANGED <<pc[u], env[u], page[u]>>
    BY <1>6 DEF PullPick, Goto, db, flushLocals, TypeOK
  <2> QED
    BY <1>2, <2>1 DEF Carries
<1>7. CASE PullOpen(t) \/ PullCommit(t)
  <2>1. /\ pc[t] \in {"open", "commit"} /\ pc'[t] \in {"commit", "drop"}
        /\ UNCHANGED <<issued, letter, rows, page, env>>
        /\ \A u \in Task \ {t} : pc'[u] = pc[u]
    BY <1>7 DEF PullOpen, PullCommit, Goto, db, flushLocals, pullLocals, TypeOK
  <2> QED
    BY <1>2, <2>1 DEF Carries
<1> QED
  BY <1>3, <1>4, <1>5, <1>6, <1>7 DEF Run, FlushStep, PullStep

(* What a call adds to the database of its phone and to the relay. *)
LEMMA RunAdds ==
  ASSUME TypeOK, NEW t \in Task, Run(t)
  PROVE  /\ \A s \in Side : outbox'[s] \subseteq outbox[s]
         /\ applied' # applied => PullCommit(t)
         /\ relay' \subseteq relay \/ (pc[t] = "post" /\ relay' = relay \cup {Posted(t)})
<1> USE DEF TypeOK
<1>1. CASE \/ FlushBegin(t) \/ \E o \in Op : FlushSeal(t, o)
           \/ FlushSave(t) \/ FlushThrows(t) \/ FlushBump(t) \/ FlushEnd(t)
  BY <1>1 DEF FlushBegin, FlushSeal, FlushSave, FlushThrows, FlushBump, FlushEnd, db, net
<1>2. CASE FlushDelete(t)
  BY <1>2, ChannelAssumption DEF FlushDelete, net
<1>3. CASE FlushPostOk(t) \/ FlushPostLost(t) \/ FlushReplyLost(t)
  BY <1>3 DEF FlushPostOk, FlushPostLost, FlushReplyLost, Store, Goto, db
<1>4. CASE \/ PullBegin(t) \/ PullList(t) \/ PullListFails(t)
           \/ \E e \in page[t] : PullPick(t, e)
           \/ PullOpen(t) \/ PullRefuse(t) \/ PullRollback(t)
           \/ PullDrop(t) \/ PullDropFails(t) \/ PullNextDay(t) \/ PullEnd(t)
  BY <1>4 DEF PullBegin, PullList, PullListFails, PullPick, PullOpen, PullRefuse,
              PullRollback, PullDrop, PullDropFails, PullNextDay, PullEnd, db, net
<1>5. CASE PullCommit(t)
  BY <1>5 DEF PullCommit, net
<1> QED
  BY <1>1, <1>2, <1>3, <1>4, <1>5 DEF Run, FlushStep, PullStep

LEMMA NextOrigins ==
  ASSUME TypeOK, Origins, [Next]_vars
  PROVE  Origins'
<1>1. \A t \in Task : Home[t] \in Side /\ Other(Home[t]) \in Side
  BY ChannelAssumption, OtherSide
<1>2. CASE \/ UNCHANGED vars \/ Midnight \/ PurgeExpired \/ \E o \in Op : RetryDue(o)
  <2>1. UNCHANGED <<issued, outbox, applied, pc, letter, env, page, rows>> /\ relay' \subseteq relay
    BY <1>2 DEF vars, Midnight, PurgeExpired, RetryDue, db, net, world, locals, flushLocals,
                pullLocals
  <2>2. \A t \in Task : Carries(t)'
    BY <2>1, CarriesFrame DEF Origins
  <2> QED
    BY <2>1, <2>2 DEF Origins
<1>3. ASSUME NEW o \in Op, Enqueue(o) PROVE Origins'
  <2>1. /\ issued' = [issued EXCEPT ![Author[o]] = @ \cup {o}] /\ Author[o] \in Side
        /\ outbox' = [outbox EXCEPT ![Author[o]] = @ \cup {o}]
        /\ UNCHANGED <<applied, relay, pc, letter, env, page, rows>>
    BY <1>3, ChannelAssumption DEF Enqueue, net, locals, flushLocals, pullLocals
  <2>2. \A s \in Side : issued[s] \subseteq issued'[s]
    BY <2>1 DEF TypeOK
  <2>3. \A t \in Task : Carries(t)'
    BY <1>1, <2>1, <2>2, CarriesFrame DEF Origins
  <2>4. \A s \in Side : \A q \in issued'[s] : Author[q] = s
    BY <2>1 DEF Origins, TypeOK
  <2>5. \A s \in Side : outbox'[s] \subseteq issued'[s] /\ applied'[s] \subseteq issued'[Other(s)]
    BY <2>1, <2>2, OtherSide DEF Origins, TypeOK
  <2>6. \A e \in relay' : e.letter.op \in issued'[Other(e.to)]
    <3>1. \A e \in relay : e.to \in Side
      BY DEF TypeOK, Envelope
    <3> QED
      BY <2>1, <2>2, <3>1, OtherSide DEF Origins
  <2> QED
    BY <2>3, <2>4, <2>5, <2>6 DEF Origins
<1>4. ASSUME NEW s \in Side, Crash(s) PROVE Origins'
  <2>1. UNCHANGED <<issued, outbox, applied, relay>>
    BY <1>4 DEF Crash, db, net
  <2>2. ASSUME NEW t \in Task PROVE Carries(t)'
    <3>1. /\ rows'[t] \subseteq rows[t] /\ page'[t] \subseteq page[t]
          /\ UNCHANGED <<pc[t], letter[t], env[t]>> \/ pc'[t] = "idle"
      BY <1>4 DEF Crash
    <3> QED
      BY <2>1, <3>1, CarriesFrame DEF Origins
  <2> QED
    BY <2>1, <2>2 DEF Origins
<1>5. ASSUME NEW t \in Task, Run(t) PROVE Origins'
  <2>1. issued' = issued /\ Carries(t)'
    BY <1>5, RunCarries
  <2>2. \A u \in Task \ {t} : UNCHANGED <<pc[u], letter[u], env[u], page[u], rows[u]>>
    BY <1>5, RunCarries
  <2>3. \A u \in Task : Carries(u)'
    BY <2>1, <2>2, CarriesFrame DEF Origins
  <2>4. \A s \in Side : outbox'[s] \subseteq issued[s]
    BY <1>5, RunAdds DEF Origins
  <2>5. \A s \in Side : applied'[s] \subseteq issued[Other(s)]
    <3>1. CASE PullCommit(t)
      <4>1. /\ pc[t] = "commit"
            /\ applied' = [applied EXCEPT ![Home[t]] = @ \cup {env[t].letter.op}]
        BY <3>1 DEF PullCommit, Goto
      <4>2. env[t].letter.op \in issued[Other(Home[t])]
        BY <4>1 DEF Origins, Carries
      <4> QED
        BY <4>1, <4>2 DEF Origins, TypeOK
    <3> QED
      BY <1>5, <3>1, RunAdds DEF Origins
  <2>6. \A e \in relay' : e.letter.op \in issued[Other(e.to)]
    <3>1. CASE pc[t] = "post" /\ relay' = relay \cup {Posted(t)}
      <4>1. Posted(t).to = Other(Home[t]) /\ Posted(t).letter = letter[t]
        BY DEF Posted
      <4>2. letter[t].op \in issued[Home[t]] /\ Other(Other(Home[t])) = Home[t]
        BY <1>1, <3>1, OtherSide DEF Origins, Carries
      <4> QED
        BY <3>1, <4>1, <4>2 DEF Origins
    <3> QED
      BY <1>5, <3>1, RunAdds DEF Origins
  <2> QED
    BY <2>1, <2>3, <2>4, <2>5, <2>6 DEF Origins
<1> QED
  BY <1>2, <1>3, <1>4, <1>5 DEF Next

LEMMA InitHands == Init => Origins /\ HandInv
  BY ChannelAssumption DEF Init, Origins, Carries, HandInv

(* An envelope leaves the relay only when its receiver has applied it. *)
LEMMA HandedKept ==
  ASSUME TypeOK, Origins, HandInv, [Next]_vars, PurgeSpares, NEW o \in Op, Handed(o)
  PROVE  Handed(o)'
<1>1. Other(Author[o]) \in Side
  BY ChannelAssumption, OtherSide
<1>2. CASE ~PurgeExpired /\ \A t \in Task : ~PullCommit(t) /\ ~PullDrop(t)
  BY <1>2, CalmSteps DEF Handed
<1>3. ASSUME NEW t \in Task, PullCommit(t) PROVE Handed(o)'
  <2>1. relay' = relay /\ applied[Other(Author[o])] \subseteq applied'[Other(Author[o])]
    BY <1>1, <1>3 DEF PullCommit, net, TypeOK
  <2> QED
    BY <2>1 DEF Handed
(* The envelopes that are taken away are all read. *)
<1>4. ASSUME NEW e \in relay, e.letter.op = o, o \in applied[e.to]
      PROVE  o \in applied[Other(Author[o])]
  <2>1. e.to \in Side /\ o \in issued[Other(e.to)]
    BY <1>4 DEF TypeOK, Envelope, Origins
  <2>2. Author[o] = Other(e.to) /\ Other(Other(e.to)) = e.to
    BY <2>1, OtherSide DEF Origins
  <2> QED
    BY <1>4, <2>2
<1>5. CASE PurgeExpired
  <2>1. applied' = applied /\ \A e \in relay \ relay' : e.letter \in seen[e.to]
    BY <1>5 DEF PurgeExpired, PurgeSpares, db
  <2>2. \A e \in relay \ relay' : e.to \in Side /\ e.letter.op \in applied[e.to]
    BY <2>1 DEF HandInv, TypeOK, Envelope
  <2> QED
    BY <1>4, <2>1, <2>2 DEF Handed
<1>6. ASSUME NEW t \in Task, PullDrop(t) PROVE Handed(o)'
  <2>1. applied' = applied /\ relay' = relay \ {env[t]} /\ pc[t] = "drop"
    BY <1>6 DEF PullDrop, Goto, db
  <2>2. env[t].letter.op \in applied[env[t].to]
    BY <2>1 DEF HandInv, Origins, Carries
  <2> QED
    BY <1>4, <2>1, <2>2 DEF Handed
<1> QED
  BY <1>2, <1>3, <1>5, <1>6

(* How a call comes to delete an envelope: it found it read, or read it. *)
LEMMA DropSteps ==
  ASSUME TypeOK, [Next]_vars, NEW t \in Task, pc'[t] = "drop"
  PROVE  \/ PullCommit(t)
         \/ \E e \in page[t] : env'[t] = e /\ e.letter \in seen[Home[t]]
         \/ pc[t] = "drop" /\ env'[t] = env[t]
<1> USE DEF TypeOK
<1>1. CASE \/ UNCHANGED vars \/ Midnight \/ PurgeExpired
           \/ \E o \in Op : Enqueue(o) \/ RetryDue(o)
  BY <1>1 DEF vars, Midnight, PurgeExpired, Enqueue, RetryDue, locals, pullLocals
<1>2. CASE \E s \in Side : Crash(s)
  BY <1>2 DEF Crash
<1>3. ASSUME NEW u \in Task, Run(u), u # t PROVE pc[t] = "drop" /\ env'[t] = env[t]
  <2>1. CASE \/ FlushBegin(u) \/ \E o \in Op : FlushSeal(u, o)
             \/ FlushSave(u) \/ FlushThrows(u) \/ FlushDelete(u) \/ FlushBump(u) \/ FlushEnd(u)
    BY <1>3, <2>1 DEF FlushBegin, FlushSeal, FlushSave, FlushThrows, FlushDelete, FlushBump,
                      FlushEnd, Goto, pullLocals
  <2>2. CASE FlushPostOk(u) \/ FlushPostLost(u) \/ FlushReplyLost(u)
    BY <1>3, <2>2 DEF FlushPostOk, FlushPostLost, FlushReplyLost, Goto, pullLocals
  <2>3. CASE \/ PullBegin(u) \/ PullList(u) \/ PullListFails(u)
             \/ \E e \in page[u] : PullPick(u, e)
             \/ PullOpen(u) \/ PullRefuse(u) \/ PullCommit(u) \/ PullRollback(u)
             \/ PullDrop(u) \/ PullDropFails(u) \/ PullNextDay(u) \/ PullEnd(u)
    BY <1>3, <2>3 DEF PullBegin, PullList, PullListFails, PullPick, PullOpen, PullRefuse,
                PullCommit, PullRollback, PullDrop, PullDropFails, PullNextDay, PullEnd,
                Goto, pullLocals
  <2> QED
    BY <1>3, <2>1, <2>2, <2>3 DEF Run, FlushStep, PullStep
<1>4. CASE Run(t)
  <2>1. CASE \/ FlushBegin(t) \/ \E o \in Op : FlushSeal(t, o)
             \/ FlushSave(t) \/ FlushThrows(t) \/ FlushDelete(t) \/ FlushBump(t) \/ FlushEnd(t)
             \/ FlushPostOk(t) \/ FlushPostLost(t) \/ FlushReplyLost(t)
    BY <2>1 DEF FlushBegin, FlushSeal, FlushSave, FlushThrows, FlushDelete, FlushBump, FlushEnd,
                FlushPostOk, FlushPostLost, FlushReplyLost, Goto
  <2>2. CASE \/ PullBegin(t) \/ PullList(t) \/ PullListFails(t)
             \/ PullOpen(t) \/ PullRefuse(t) \/ PullRollback(t)
             \/ PullDrop(t) \/ PullDropFails(t) \/ PullNextDay(t) \/ PullEnd(t)
    BY <2>2 DEF PullBegin, PullList, PullListFails, PullOpen, PullRefuse,
                PullRollback, PullDrop, PullDropFails, PullNextDay, PullEnd, Goto
  <2>3. ASSUME NEW e \in page[t], PullPick(t, e) PROVE env'[t] = e /\ e.letter \in seen[Home[t]]
    BY <2>3 DEF PullPick, Goto
  <2> QED
    BY <1>4, <2>1, <2>2, <2>3 DEF Run, FlushStep, PullStep
<1> QED
  BY <1>1, <1>2, <1>3, <1>4 DEF Next

LEMMA NextHandInv ==
  ASSUME TypeOK, Origins, HandInv, [Next]_vars, PurgeSpares
  PROVE  HandInv'
<1>1. /\ \A s \in Side : \A l \in seen'[s] : l.op \in applied'[s]
      /\ \A s \in Side : applied[s] \subseteq applied'[s]
  <2>1. CASE ~PurgeExpired /\ \A t \in Task : ~PullCommit(t) /\ ~PullDrop(t)
    BY <2>1, CalmSteps DEF HandInv
  <2>2. CASE PurgeExpired \/ \E t \in Task : PullDrop(t)
    BY <2>2 DEF PurgeExpired, PullDrop, db, HandInv
  <2>3. ASSUME NEW t \in Task, PullCommit(t)
        PROVE  /\ \A s \in Side : \A l \in seen'[s] : l.op \in applied'[s]
               /\ \A s \in Side : applied[s] \subseteq applied'[s]
    BY <2>3, ChannelAssumption DEF PullCommit, TypeOK, HandInv
  <2> QED
    BY <2>1, <2>2, <2>3
<1>2. ASSUME NEW t \in Task, pc'[t] = "drop" PROVE env'[t].letter.op \in applied'[Home[t]]
  <2>1. Home[t] \in Side
    BY ChannelAssumption
  <2>2. CASE PullCommit(t)
    BY <2>1, <2>2 DEF PullCommit, TypeOK, pullLocals
  <2>3. CASE \/ \E e \in page[t] : env'[t] = e /\ e.letter \in seen[Home[t]]
             \/ pc[t] = "drop" /\ env'[t] = env[t]
    BY <1>1, <2>1, <2>3 DEF HandInv
  <2> QED
    BY <1>2, <2>2, <2>3, DropSteps
<1>3. ASSUME NEW o \in Op, Handed(o) PROVE Handed(o)'
  BY <1>3, HandedKept
<1>4. ASSUME NEW t \in Task, pc'[t] = "sent" PROVE Handed(letter[t].op)'
  <2>1. FlushPostOk(t) \/ (pc[t] = "sent" /\ letter'[t] = letter[t])
    BY <1>4, SentSteps
  <2>2. CASE FlushPostOk(t)
    <3>1. /\ Posted(t) \in relay' /\ Posted(t).letter = letter[t] /\ letter' = letter
      BY <2>2 DEF FlushPostOk, Store, Posted, flushLocals
    <3> QED
      BY <3>1 DEF Handed
  <2>3. CASE pc[t] = "sent" /\ letter'[t] = letter[t]
    <3>1. PICK o \in Op : o = letter[t].op
      BY <2>3 DEF TypeOK, FlushLabel, Letter
    <3>2. Handed(o)
      BY <2>3, <3>1 DEF HandInv
    <3>3. (\E e \in relay' : e.letter.op = o) \/ o \in applied'[Other(Author[o])]
      BY <1>3, <3>2 DEF Handed
    <3> QED
      BY <2>3, <3>1, <3>3 DEF Handed
  <2> QED
    BY <2>1, <2>2, <2>3
<1>5. ASSUME NEW o \in Op, o \in issued'[Author[o]]
      PROVE  o \in outbox'[Author[o]] \/ Handed(o)'
  <2>1. CASE o \in issued[Author[o]] /\ o \notin outbox[Author[o]]
    BY <1>3, <2>1 DEF HandInv
  <2>2. ASSUME NEW t \in Task, FlushDelete(t), letter[t].op = o PROVE Handed(o)'
    BY <1>3, <2>2 DEF FlushDelete, Goto, HandInv
  <2> QED
    BY <1>5, <2>1, <2>2, OutboxSteps
<1> QED
  BY <1>1, <1>2, <1>4, <1>5 DEF HandInv

(* Nothing is sealed, sent, listed or applied that its author did not      *)
(* issue, and the relay addresses it to the other phone, however many      *)
(* calls overlap.                                                          *)
THEOREM ChannelOrigins == Spec => []Origins
<1>1. TypeOK /\ Origins /\ [Next]_vars => Origins'
  BY NextOrigins
<1> QED
  BY <1>1, InitHands, ChannelTypeOK, PTL DEF Spec

(* However the calls of a phone overlap, a row leaves the outbox only when *)
(* the relay has stored an envelope for it, and that envelope leaves the   *)
(* relay only when its operation was applied (deleteOutbox after the POST, *)
(* deleteEnvelope after the commit).                                       *)
THEOREM ChannelNothingVanishes == Spec /\ [][PurgeSpares]_vars => []NothingVanishes
<1>1. HandInv => NothingVanishes
  BY DEF HandInv, Handed, NothingVanishes
<1>2. TypeOK /\ Origins /\ HandInv /\ [Next]_vars /\ [PurgeSpares]_vars => HandInv'
  <2>1. UNCHANGED vars => PurgeSpares
    BY DEF vars, net, PurgeSpares
  <2> QED
    BY <2>1, NextHandInv
<1> QED
  BY <1>1, <1>2, InitHands, ChannelOrigins, ChannelTypeOK, PTL DEF Spec

-----------------------------------------------------------------------------
(* The channel implements what module Custody promises.                    *)

Held == {o \in Op : InCustody(o) /\ o \notin applied[Other(Author[o])]}
Delivered == {o \in Op : o \in applied[Other(Author[o])]}

HeldIsIssued ==
  Held = {o \in Op : o \in issued[Author[o]] /\ o \notin applied[Other(Author[o])]}

LEMMA IssuedIsHeld == Origins /\ NothingLost => HeldIsIssued
<1> SUFFICES ASSUME Origins, NothingLost, NEW o \in Op, InCustody(o)
             PROVE  o \in issued[Author[o]]
  BY DEF HeldIsIssued, Held, NothingLost
<1>1. Author[o] \in Side /\ Other(Other(Author[o])) = Author[o]
  BY ChannelAssumption, OtherSide
<1>2. CASE o \in outbox[Author[o]]
  BY <1>1, <1>2 DEF Origins
<1>3. ASSUME NEW e \in relay, e.to = Other(Author[o]), e.letter.op = o
      PROVE  o \in issued[Author[o]]
  BY <1>1, <1>3 DEF Origins
<1> QED
  BY <1>2, <1>3 DEF InCustody

LEMMA PromiseStep ==
  ASSUME TypeOK, Origins, HeldIsIssued, HeldIsIssued', [Next]_vars
  PROVE  \/ UNCHANGED <<Held, Delivered>>
         \/ \E o \in Op : \/ /\ o \notin Held \cup Delivered
                             /\ Held' = Held \cup {o}
                             /\ Delivered' = Delivered
                          \/ /\ o \in Held
                             /\ Held' = Held \ {o}
                             /\ Delivered' = Delivered \cup {o}
<1>1. CASE UNCHANGED <<issued, applied>>
  BY <1>1 DEF HeldIsIssued, Delivered
<1>2. ASSUME NEW o \in Op, Enqueue(o)
      PROVE  /\ o \notin Held \cup Delivered
             /\ Held' = Held \cup {o}
             /\ Delivered' = Delivered
  <2>1. Author[o] \in Side /\ Other(Other(Author[o])) = Author[o] /\ Other(Author[o]) \in Side
    BY ChannelAssumption, OtherSide
  <2>2. /\ o \notin issued[Author[o]] /\ applied' = applied
        /\ issued' = [issued EXCEPT ![Author[o]] = @ \cup {o}]
    BY <1>2 DEF Enqueue
  <2>3. o \notin applied[Other(Author[o])]
    BY <2>1, <2>2 DEF Origins
  <2>4. \A q \in Op : q \in issued'[Author[q]] <=> q = o \/ q \in issued[Author[q]]
    BY <2>1, <2>2, ChannelAssumption DEF TypeOK
  <2> QED
    BY <2>2, <2>3, <2>4 DEF HeldIsIssued, Delivered
<1>3. ASSUME NEW t \in Task, PullCommit(t)
      PROVE  \/ UNCHANGED <<Held, Delivered>>
             \/ \E o \in Op : /\ o \in Held
                              /\ Held' = Held \ {o}
                              /\ Delivered' = Delivered \cup {o}
  <2>1. PICK o : o = env[t].letter.op
    OBVIOUS
  <2>2. Home[t] \in Side /\ Other(Home[t]) \in Side /\ Other(Other(Home[t])) = Home[t]
    BY ChannelAssumption, OtherSide
  <2>3. /\ pc[t] = "commit" /\ issued' = issued
        /\ applied' = [applied EXCEPT ![Home[t]] = @ \cup {o}]
    BY <1>3, <2>1 DEF PullCommit, Goto
  <2>4. o \in issued[Other(Home[t])]
    BY <2>1, <2>3 DEF Origins, Carries
  <2>5. o \in Op /\ Author[o] = Other(Home[t]) /\ Other(Author[o]) = Home[t]
    BY <2>2, <2>4 DEF Origins, TypeOK
  <2>6. \A q \in Op : q \in applied'[Other(Author[q])]
                       <=> q = o \/ q \in applied[Other(Author[q])]
    <3>1. \A q \in Op : Other(Author[q]) \in Side
      BY ChannelAssumption, OtherSide
    <3> QED
      BY <2>3, <2>5, <3>1 DEF TypeOK
  <2>7. Delivered' = Delivered \cup {o} /\ Held' = Held \ {o}
    BY <2>3, <2>5, <2>6 DEF HeldIsIssued, Delivered
  <2>8. o \notin Held <=> o \in Delivered
    <3>1. o \in issued[Author[o]]
      BY <2>4, <2>5
    <3> QED
      BY <2>5, <3>1 DEF HeldIsIssued, Delivered
  <2> QED
    BY <2>5, <2>7, <2>8
<1> QED
  BY <1>1, <1>2, <1>3, IssuedApplied

(* The channel is the Custody specification with every detail filled in:   *)
(* what enqueue() accepted is held until the partner's projector applies   *)
(* it, nothing else is ever applied, and nothing applied is forgotten.     *)
THEOREM ChannelKeepsPromise ==
  ASSUME OneTaskPerSide PROVE Spec /\ [][PurgeSpares]_vars => KeepsPromise
<1>1. Init => Promise!Init
  BY ChannelAssumption, OtherSide DEF Init, Promise!Init, InCustody
<1>2. TypeOK /\ Origins /\ HeldIsIssued /\ HeldIsIssued' /\ [Next]_vars
        => [Promise!Next]_<<Held, Delivered>>
  <2> SUFFICES ASSUME TypeOK, Origins, HeldIsIssued, HeldIsIssued', [Next]_vars
               PROVE  [Promise!Next]_<<Held, Delivered>>
    OBVIOUS
  <2> QED
    BY PromiseStep DEF Promise!Next, Promise!Accept, Promise!Deliver, Held, Delivered
<1> QED
  BY <1>1, <1>2, IssuedIsHeld, ChannelNothingLost, ChannelOrigins, ChannelTypeOK, PTL
     DEF KeepsPromise, Promise!Spec, Spec, Held, Delivered

=============================================================================

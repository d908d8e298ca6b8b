----------------------------- MODULE WireProofs -----------------------------
(***************************************************************************)
(* What the modules above Wire need of it: which operations of a phone are *)
(* still on their way to the partner, queued, being retried or on the      *)
(* relay, and how each step of the channel changes that set.               *)
(***************************************************************************)
EXTENDS Wire, TLAPS

Items(q) == {q[i] : i \in DOMAIN q}

OnRelay(s) == {e.op : e \in inbox[Other(s)]}

(* Operations of s that the partner has yet to apply, or to apply again.   *)
Way(s) == Items(outbox[s]) \cup OnRelay(s)

-----------------------------------------------------------------------------
(* Sequences.                                                              *)

LEMMA ItemsConcat ==
  ASSUME NEW S, NEW p \in Seq(S), NEW q \in Seq(S)
  PROVE  p \o q \in Seq(S) /\ Items(p \o q) = Items(p) \cup Items(q)
<1>1. /\ p \o q \in Seq(S) /\ Len(p \o q) = Len(p) + Len(q)
      /\ \A i \in 1 .. Len(p) : (p \o q)[i] = p[i]
      /\ \A i \in 1 .. Len(q) : (p \o q)[Len(p) + i] = q[i]
  OBVIOUS
<1>2. Items(p \o q) \subseteq Items(p) \cup Items(q)
  <2> SUFFICES ASSUME NEW i \in 1 .. Len(p) + Len(q)
               PROVE  (p \o q)[i] \in Items(p) \cup Items(q)
    BY <1>1 DEF Items
  <2>1. CASE i <= Len(p)
    BY <1>1, <2>1 DEF Items
  <2>2. CASE i > Len(p)
    <3>1. i - Len(p) \in 1 .. Len(q) /\ i = Len(p) + (i - Len(p))
      BY <2>2
    <3> QED
      BY <1>1, <3>1 DEF Items
  <2> QED
    BY <2>1, <2>2
<1>3. Items(p) \subseteq Items(p \o q)
  BY <1>1 DEF Items
<1>4. Items(q) \subseteq Items(p \o q)
  BY <1>1 DEF Items
<1> QED
  BY <1>1, <1>2, <1>3, <1>4

LEMMA ItemsSubSeq ==
  ASSUME NEW S, NEW q \in Seq(S), NEW m \in Nat \ {0}, NEW n \in 0 .. Len(q)
  PROVE  SubSeq(q, m, n) \in Seq(S) /\ Items(SubSeq(q, m, n)) = {q[i] : i \in m .. n}
<1>1. /\ SubSeq(q, m, n) \in Seq(S)
      /\ Len(SubSeq(q, m, n)) = IF m <= n THEN n - m + 1 ELSE 0
      /\ \A i \in 1 .. Len(SubSeq(q, m, n)) : SubSeq(q, m, n)[i] = q[m + i - 1]
  OBVIOUS
<1>2. Items(SubSeq(q, m, n)) \subseteq {q[i] : i \in m .. n}
  BY <1>1 DEF Items
<1>3. ASSUME NEW i \in m .. n PROVE q[i] \in Items(SubSeq(q, m, n))
  <2> DEFINE j == i - m + 1
  <2>1. j \in 1 .. Len(SubSeq(q, m, n)) /\ m + j - 1 = i
    BY <1>1
  <2>2. SubSeq(q, m, n)[j] = q[i]
    BY <1>1, <2>1
  <2>3. DOMAIN SubSeq(q, m, n) = 1 .. Len(SubSeq(q, m, n))
    BY <1>1
  <2> QED
    BY <2>1, <2>2, <2>3 DEF Items
<1> QED
  BY <1>1, <1>2, <1>3

LEMMA ItemsOne ==
  ASSUME NEW S, NEW x \in S PROVE <<x>> \in Seq(S) /\ Items(<<x>>) = {x}
  BY DEF Items

(* A row put between others. *)
LEMMA ItemsInsert ==
  ASSUME NEW S, NEW q \in Seq(S), NEW x \in S, NEW k \in 0 .. Len(q)
  PROVE  LET r == SubSeq(q, 1, k) \o <<x>> \o SubSeq(q, k + 1, Len(q))
         IN  r \in Seq(S) /\ Items(r) = Items(q) \cup {x}
<1> DEFINE p == SubSeq(q, 1, k)
           t == SubSeq(q, k + 1, Len(q))
<1>1. p \in Seq(S) /\ Items(p) = {q[i] : i \in 1 .. k}
  BY ItemsSubSeq
<1>2. t \in Seq(S) /\ Items(t) = {q[i] : i \in k + 1 .. Len(q)}
  BY ItemsSubSeq
<1> HIDE DEF p, t
<1>3. p \o <<x>> \in Seq(S) /\ Items(p \o <<x>>) = Items(p) \cup {x}
  <2> DEFINE v == <<x>>
  <2>1. v \in Seq(S) /\ Items(v) = {x}
    BY ItemsOne
  <2> HIDE DEF v
  <2>2. p \o v \in Seq(S) /\ Items(p \o v) = Items(p) \cup Items(v)
    BY <1>1, <2>1, ItemsConcat
  <2> QED
    BY <2>1, <2>2 DEF v
<1>4. p \o <<x>> \o t \in Seq(S) /\ Items(p \o <<x>> \o t) = Items(p) \cup {x} \cup Items(t)
  <2> DEFINE u == p \o <<x>>
  <2> HIDE DEF u
  <2>1. u \in Seq(S) /\ Items(u) = Items(p) \cup {x}
    BY <1>3 DEF u
  <2>2. u \o t \in Seq(S) /\ Items(u \o t) = Items(u) \cup Items(t)
    BY <1>2, <2>1, ItemsConcat
  <2> QED
    BY <2>1, <2>2 DEF u
<1>5. Items(q) = {q[i] : i \in 1 .. k} \cup {q[i] : i \in k + 1 .. Len(q)}
  BY DEF Items
<1> QED
  BY <1>1, <1>2, <1>4, <1>5 DEF p, t

(* The first row moved back behind others. *)
LEMMA ItemsPostpone ==
  ASSUME NEW S, NEW q \in Seq(S), q # << >>, NEW k \in 0 .. Len(q) - 1
  PROVE  LET r == SubSeq(q, 2, k + 1) \o <<Head(q)>> \o SubSeq(q, k + 2, Len(q))
         IN  r \in Seq(S) /\ Items(r) = Items(q)
<1> DEFINE p == SubSeq(q, 2, k + 1)
           t == SubSeq(q, k + 2, Len(q))
<1>1. Head(q) \in S /\ Head(q) = q[1] /\ Len(q) \in Nat /\ Len(q) > 0
  OBVIOUS
<1>2. p \in Seq(S) /\ Items(p) = {q[i] : i \in 2 .. k + 1}
  BY <1>1, ItemsSubSeq
<1>3. t \in Seq(S) /\ Items(t) = {q[i] : i \in k + 2 .. Len(q)}
  BY <1>1, ItemsSubSeq
<1> DEFINE x == Head(q)
<1> HIDE DEF p, t, x
<1>4. p \o <<x>> \in Seq(S) /\ Items(p \o <<x>>) = Items(p) \cup {x}
  <2> DEFINE v == <<x>>
  <2>1. v \in Seq(S) /\ Items(v) = {x}
    BY <1>1, ItemsOne DEF x
  <2> HIDE DEF v
  <2>2. p \o v \in Seq(S) /\ Items(p \o v) = Items(p) \cup Items(v)
    BY <1>2, <2>1, ItemsConcat
  <2> QED
    BY <2>1, <2>2 DEF v
<1>5. p \o <<x>> \o t \in Seq(S) /\ Items(p \o <<x>> \o t) = Items(p) \cup {x} \cup Items(t)
  <2> DEFINE u == p \o <<x>>
  <2> HIDE DEF u
  <2>1. u \in Seq(S) /\ Items(u) = Items(p) \cup {x}
    BY <1>4 DEF u
  <2>2. u \o t \in Seq(S) /\ Items(u \o t) = Items(u) \cup Items(t)
    BY <1>3, <2>1, ItemsConcat
  <2> QED
    BY <2>1, <2>2 DEF u
<1>6. Items(q) = {q[i] : i \in 2 .. k + 1} \cup {q[1]} \cup {q[i] : i \in k + 2 .. Len(q)}
  BY <1>1 DEF Items
<1> QED
  BY <1>1, <1>2, <1>3, <1>5, <1>6 DEF p, t, x

(* The first row taken off. *)
LEMMA ItemsTail ==
  ASSUME NEW S, NEW q \in Seq(S), q # << >>
  PROVE  Head(q) \in S /\ Tail(q) \in Seq(S) /\ Items(q) = {Head(q)} \cup Items(Tail(q))
<1>1. /\ Head(q) \in S /\ Head(q) = q[1] /\ Tail(q) \in Seq(S) /\ Len(q) \in Nat \ {0}
      /\ Len(Tail(q)) = Len(q) - 1 /\ \A i \in 1 .. Len(q) - 1 : Tail(q)[i] = q[i + 1]
  OBVIOUS
<1>2. ASSUME NEW i \in 1 .. Len(q), i # 1 PROVE q[i] \in Items(Tail(q))
  <2> DEFINE j == i - 1
  <2>1. j \in 1 .. Len(q) - 1 /\ j + 1 = i
    BY <1>1, <1>2
  <2>2. Tail(q)[j] = q[i] /\ DOMAIN Tail(q) = 1 .. Len(q) - 1
    BY <1>1, <2>1
  <2> QED
    BY <2>1, <2>2 DEF Items
<1>3. Items(Tail(q)) \subseteq Items(q)
  BY <1>1 DEF Items
<1> QED
  BY <1>1, <1>2, <1>3 DEF Items

(* One item taken out. *)
LEMMA ItemsRemove ==
  ASSUME NEW S, NEW q \in Seq(S), NEW i \in DOMAIN q
  PROVE  LET r == SubSeq(q, 1, i - 1) \o SubSeq(q, i + 1, Len(q))
         IN  r \in Seq(S) /\ Items(r) \subseteq Items(q)
<1>1. /\ SubSeq(q, 1, i - 1) \in Seq(S)
      /\ Items(SubSeq(q, 1, i - 1)) = {q[j] : j \in 1 .. i - 1}
  BY ItemsSubSeq
<1>2. /\ SubSeq(q, i + 1, Len(q)) \in Seq(S)
      /\ Items(SubSeq(q, i + 1, Len(q))) = {q[j] : j \in i + 1 .. Len(q)}
  BY ItemsSubSeq
<1> QED
  BY <1>1, <1>2, ItemsConcat DEF Items

LEMMA ItemsAppend ==
  ASSUME NEW S, NEW q \in Seq(S), NEW x \in S
  PROVE  Append(q, x) \in Seq(S) /\ Items(Append(q, x)) = Items(q) \cup {x}
<1>1. /\ Append(q, x) \in Seq(S) /\ Len(Append(q, x)) = Len(q) + 1
      /\ Append(q, x)[Len(q) + 1] = x /\ \A i \in 1 .. Len(q) : Append(q, x)[i] = q[i]
  OBVIOUS
<1>2. Items(q) \cup {x} \subseteq Items(Append(q, x))
  BY <1>1 DEF Items
<1>3. Items(Append(q, x)) \subseteq Items(q) \cup {x}
  BY <1>1 DEF Items
<1> QED
  BY <1>1, <1>2, <1>3

-----------------------------------------------------------------------------
(* The steps of the channel.                                               *)

LEMMA OtherSide ==
  \A s \in Side : Other(s) \in Side /\ Other(Other(s)) = s /\ Other(s) # s /\ Side = {s, Other(s)}
  BY DEF Side, Other

LEMMA WireInitWay ==
  ASSUME NEW Ops, WireInit
  PROVE  WireTypeOK(Ops) /\ \A s \in Side : Way(s) = {}
<1>1. WireTypeOK(Ops)
  BY DEF WireInit, WireTypeOK
<1> QED
  BY <1>1, OtherSide DEF WireInit, Way, Items, OnRelay

(* A queued operation is on its way. *)
LEMMA QueueWay ==
  ASSUME NEW Ops, WireTypeOK(Ops), NEW s \in Side, NEW op \in Ops, Queue(s, op)
  PROVE  /\ WireTypeOK(Ops)'
         /\ Way(s)' = Way(s) \cup {op} /\ Way(Other(s))' = Way(Other(s))
<1>1. PICK k \in 0 .. Len(outbox[s]) :
        outbox' = [outbox EXCEPT ![s] =
                     SubSeq(@, 1, k) \o <<op>> \o SubSeq(@, k + 1, Len(@))]
  BY DEF Queue
<1>2. outbox[s] \in Seq(Ops)
  BY DEF WireTypeOK
<1>3. outbox'[s] \in Seq(Ops) /\ Items(outbox'[s]) = Items(outbox[s]) \cup {op}
  BY <1>1, <1>2, ItemsInsert DEF WireTypeOK
<1>4. outbox' \in [Side -> Seq(Ops)] /\ outbox'[Other(s)] = outbox[Other(s)]
  BY <1>1, <1>3, OtherSide DEF WireTypeOK
<1>5. UNCHANGED <<inbox, page, posted, faults>>
  BY DEF Queue
<1> QED
  BY <1>3, <1>4, <1>5, OtherSide DEF WireTypeOK, Way, OnRelay

LEMMA TransmitWay ==
  ASSUME NEW Ops, WireTypeOK(Ops), NEW s \in Side, outbox[s] # << >>, Transmit(s)
  PROVE  /\ posted' \in [Side -> Nat] /\ inbox' \in [Side -> SUBSET Entry(Ops)]
         /\ OnRelay(s)' = OnRelay(s) \cup {Head(outbox[s])}
         /\ inbox'[s] = inbox[s] /\ \A q \in Side : inbox[q] \subseteq inbox'[q]
<1> DEFINE new == [at |-> posted[s], op |-> Head(outbox[s])]
<1>1. Head(outbox[s]) \in Ops
  BY ItemsTail DEF WireTypeOK
<1>2. new \in Entry(Ops)
  BY <1>1 DEF WireTypeOK, Entry
<1>3. inbox' = [inbox EXCEPT ![Other(s)] = @ \cup {new}]
  BY DEF Transmit
<1>4. inbox'[Other(s)] = inbox[Other(s)] \cup {new} /\ inbox' \in [Side -> SUBSET Entry(Ops)]
  BY <1>2, <1>3, OtherSide DEF WireTypeOK
<1>5. posted' \in [Side -> Nat]
  BY DEF Transmit, WireTypeOK
<1>6. \A q \in Side : q # Other(s) => inbox'[q] = inbox[q]
  BY <1>3 DEF WireTypeOK
<1>7. OnRelay(s)' = OnRelay(s) \cup {new.op}
  BY <1>4 DEF OnRelay
<1>8. inbox'[s] = inbox[s]
  BY <1>6, OtherSide
<1> QED
  BY <1>4, <1>5, <1>6, <1>7, <1>8

(* Neither a flush, answered or not, nor a listing or an aborted pull      *)
(* changes what is on its way.                                             *)
LEMMA WireStepWay ==
  ASSUME NEW Ops, WireTypeOK(Ops), NEW s \in Side, WireStep(s)
  PROVE  WireTypeOK(Ops)' /\ \A q \in Side : Way(q)' = Way(q)
<1>1. CASE FlushOk(s)
  <2>1. outbox[s] \in Seq(Ops) /\ outbox[s] # << >> /\ outbox' = [outbox EXCEPT ![s] = Tail(@)]
    BY <1>1 DEF FlushOk, WireTypeOK
  <2>2. /\ outbox'[s] \in Seq(Ops)
        /\ Items(outbox[s]) = {Head(outbox[s])} \cup Items(outbox'[s])
    BY <2>1, ItemsTail DEF WireTypeOK
  <2>3. outbox' \in [Side -> Seq(Ops)] /\ outbox'[Other(s)] = outbox[Other(s)]
    BY <2>1, <2>2, OtherSide DEF WireTypeOK
  <2>4. /\ posted' \in [Side -> Nat] /\ inbox' \in [Side -> SUBSET Entry(Ops)]
        /\ OnRelay(s)' = OnRelay(s) \cup {Head(outbox[s])}
        /\ inbox'[s] = inbox[s] /\ \A q \in Side : inbox[q] \subseteq inbox'[q]
    BY <1>1, <2>1, TransmitWay DEF FlushOk
  <2>5. Way(s)' = Way(s) /\ Way(Other(s))' = Way(Other(s))
    BY <2>2, <2>3, <2>4, OtherSide DEF Way, OnRelay
  <2>6. WireTypeOK(Ops)'
    BY <1>1, <2>3, <2>4 DEF FlushOk, WireTypeOK
  <2> QED
    BY <2>5, <2>6, OtherSide
<1>2. CASE FlushLost(s) \/ FlushReplyLost(s)
  <2>1. outbox[s] \in Seq(Ops) /\ outbox[s] # << >>
    BY <1>2 DEF FlushLost, FlushReplyLost, WireTypeOK
  <2>2. PICK k \in 0 .. Len(outbox[s]) - 1 :
          outbox' = [outbox EXCEPT ![s] =
                       SubSeq(@, 2, k + 1) \o <<Head(@)>> \o SubSeq(@, k + 2, Len(@))]
    BY <1>2 DEF FlushLost, FlushReplyLost, Postpone
  <2>3. outbox'[s] \in Seq(Ops) /\ Items(outbox'[s]) = Items(outbox[s])
    BY <2>1, <2>2, ItemsPostpone DEF WireTypeOK
  <2>4. outbox' \in [Side -> Seq(Ops)] /\ outbox'[Other(s)] = outbox[Other(s)]
    BY <2>2, <2>3, OtherSide DEF WireTypeOK
  <2>5. Head(outbox[s]) \in Items(outbox[s])
    BY <2>1, ItemsTail
  <2>6. /\ posted' \in [Side -> Nat] /\ inbox' \in [Side -> SUBSET Entry(Ops)]
        /\ OnRelay(s)'
             \in {OnRelay(s),
                  OnRelay(s) \cup {Head(outbox[s])}}
        /\ inbox'[s] = inbox[s] /\ \A q \in Side : inbox[q] \subseteq inbox'[q]
    <3>1. CASE FlushLost(s)
      BY <3>1 DEF FlushLost, WireTypeOK, OnRelay
    <3>2. CASE FlushReplyLost(s)
      BY <3>2, <2>1, TransmitWay DEF FlushReplyLost
    <3> QED
      BY <1>2, <3>1, <3>2
  <2>7. Way(s)' = Way(s)
    BY <2>3, <2>5, <2>6 DEF Way
  <2>10. Way(Other(s))' = Way(Other(s))
    BY <2>4, <2>6, OtherSide DEF Way, OnRelay
  <2>8. faults' \in Nat /\ page' = page
    BY <1>2 DEF FlushLost, FlushReplyLost, WireFault, WireTypeOK
  <2>9. WireTypeOK(Ops)'
    BY <2>4, <2>6, <2>8 DEF WireTypeOK
  <2> QED
    BY <2>7, <2>9, <2>10, OtherSide
<1>3. CASE PullList(s) \/ PullAborts(s)
  <2>1. outbox' = outbox /\ inbox' = inbox /\ posted' = posted
    BY <1>3 DEF PullList, PullAborts
  <2>2. faults' \in Nat
    BY <1>3 DEF PullList, PullAborts, WireFault, WireTypeOK
  <2>3. /\ page' \in [Side -> SUBSET Entry(Ops)]
        /\ \A q \in Side : page'[q] \subseteq inbox[q]
    BY <1>3 DEF PullList, PullAborts, WireTypeOK
  <2> QED
    BY <2>1, <2>2, <2>3 DEF WireTypeOK, Way, OnRelay
<1> QED
  BY <1>1, <1>2, <1>3 DEF WireStep

(* An operation that is applied was on its way, and only it may be gone.   *)
LEMMA TakeWay ==
  ASSUME NEW Ops, WireTypeOK(Ops), NEW s \in Side, NEW e \in page[s], Take(s, e)
  PROVE  /\ WireTypeOK(Ops)'
         /\ e.op \in Ops /\ e.op \in Way(Other(s))
         /\ Way(s)' = Way(s)
         /\ Way(Other(s))' \subseteq Way(Other(s))
         /\ Way(Other(s)) \subseteq Way(Other(s))' \cup {e.op}
<1>1. e \in inbox[s] /\ e \in Entry(Ops)
  BY DEF WireTypeOK
<1>2. /\ inbox' = [inbox EXCEPT ![s] = @ \ {e}] /\ page' = [page EXCEPT ![s] = @ \ {e}]
      /\ UNCHANGED <<outbox, posted, faults>>
  BY DEF Take
<1>3. WireTypeOK(Ops)'
  BY <1>2 DEF WireTypeOK
<1>4. inbox'[s] = inbox[s] \ {e} /\ \A q \in Side : q # s => inbox'[q] = inbox[q]
  BY <1>2 DEF WireTypeOK
<1>5. e.op \in Ops /\ e.op \in Way(Other(s))
  BY <1>1, OtherSide DEF Entry, Way, OnRelay
<1> QED
  BY <1>2, <1>3, <1>4, <1>5, OtherSide DEF Way, OnRelay

(* A phone that forgets its rows has nothing queued.                       *)
LEMMA ForgetWay ==
  ASSUME NEW Ops, WireTypeOK(Ops), NEW s \in Side, Forget(s)
  PROVE  /\ WireTypeOK(Ops)'
         /\ Way(s)' \subseteq Way(s) /\ Way(Other(s))' = Way(Other(s))
<1>1. /\ outbox' = [outbox EXCEPT ![s] = << >>] /\ page' = [page EXCEPT ![s] = {}]
      /\ UNCHANGED <<inbox, posted, faults>>
  BY DEF Forget
<1>2. /\ outbox'[s] = << >> /\ outbox'[Other(s)] = outbox[Other(s)]
      /\ outbox' \in [Side -> Seq(Ops)]
  BY <1>1, OtherSide DEF WireTypeOK
<1>3. /\ page' \in [Side -> SUBSET Entry(Ops)]
      /\ \A q \in Side : page'[q] \subseteq inbox[q]
  BY <1>1 DEF WireTypeOK
<1>4. WireTypeOK(Ops)'
  BY <1>1, <1>2, <1>3 DEF WireTypeOK
<1> QED
  BY <1>1, <1>2, <1>4 DEF Way, Items, OnRelay

LEMMA WireQuiet ==
  ASSUME NEW Ops, WireTypeOK(Ops), UNCHANGED wireVars
  PROVE  WireTypeOK(Ops)' /\ \A s \in Side : Way(s)' = Way(s)
  BY DEF wireVars, WireTypeOK, Way, OnRelay

LEMMA DrainedWay ==
  ASSUME NEW Ops, WireTypeOK(Ops), NEW s \in Side
  PROVE  Drained(s) => Way(s) = {}
  BY OtherSide DEF Drained, Way, Items, OnRelay, WireTypeOK

=============================================================================

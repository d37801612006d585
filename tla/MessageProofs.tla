---------------------------- MODULE MessageProofs ----------------------------
(***************************************************************************)
(* Proofs about what the agent is told and what it hands out, for every    *)
(* value of the constants: the messages of Slack (SlackIntake), the files  *)
(* of a reply from the run that names them to the chat that shows them     *)
(* (Outbound, SlackUpload), and the warnings about quota (QuotaWarnings).  *)
(***************************************************************************)
EXTENDS MCAgent, FiniteSetTheorems, TLAPS

-----------------------------------------------------------------------------
(* Slack's messages.  The number of an event tells where it is: behind the *)
(* cursor it was handed on, ahead of it it will be, and the order of the   *)
(* numbers is that in which events were stored.  An event without a number *)
(* that was handed on has Keep others after it, or its record would still  *)
(* be there to recognise it by.                                            *)

LEMMA Concatenated ==
  ASSUME NEW S, NEW s \in Seq(S), NEW n \in Nat, NEW t \in [1..n -> S]
  PROVE  /\ s \o t \in Seq(S) /\ Len(s \o t) = Len(s) + n
         /\ \A i \in 1..Len(s) : (s \o t)[i] = s[i]
         /\ \A i \in 1..n : (s \o t)[Len(s) + i] = t[i]
<1>1. t \in Seq(S) /\ Len(t) = n
  OBVIOUS
<1> QED
  BY <1>1

LEMMA IntakeCardinality == \A S : K!Cardinality(S) = Cardinality(S)
  BY DEF K!Cardinality, Cardinality

Storing == [event : Messages \cup {0}, number : Nat]

IntakeTypes ==
    /\ kNext \in Nat \ {0} /\ kCursor \in 0..kNext - 1
    /\ kSpool \in [Messages -> 0..kNext - 1]
    /\ kStoring \in [Listeners -> Storing]
    /\ kAnswered \subseteq Messages
    /\ kHanded \in Seq(Messages) /\ kStored \in Seq(Messages)

\* What is being stored is new, and its number is ahead of all others.
StoringInv ==
    \A d \in Listeners :
       kStoring[d] # K!Nothing =>
         LET e == kStoring[d].event
             n == kStoring[d].number IN
         /\ e \in Messages /\ kSpool[e] = 0
         /\ kCursor < n /\ n < kNext
         /\ \A f \in Messages : kSpool[f] < n

\* Events e and f were stored in this order.
InOrder(e, f) == \E a, b \in 1..Len(kStored) : a < b /\ kStored[a] = e /\ kStored[b] = f

\* What has a number, or was handed on, was stored; the order of the numbers, and that
\* in which events are handed on, is the order in which they were stored.
OrderInv ==
    /\ \A e \in Messages : kSpool[e] # 0 => \E a \in 1..Len(kStored) : kStored[a] = e
    /\ \A i \in 1..Len(kHanded) : \E a \in 1..Len(kStored) : kStored[a] = kHanded[i]
    /\ \A e, f \in K!Pending : kSpool[e] < kSpool[f] => InOrder(e, f)
    /\ \A i \in 1..Len(kHanded), f \in K!Pending : InOrder(kHanded[i], f)
    /\ \A i, j \in 1..Len(kHanded) : i < j => InOrder(kHanded[i], kHanded[j])

\* What the cursor has passed was handed on, the later the higher its number; what was
\* answered is on its way.
HandedInv ==
    /\ \A e \in K!Acknowledged : \E i \in 1..Len(kHanded) : kHanded[i] = e
    /\ \A e, f \in K!Acknowledged : kSpool[e] < kSpool[f] =>
         \A i \in 1..Len(kHanded) :
            kHanded[i] = e => \E j \in 1..Len(kHanded) : i < j /\ kHanded[j] = f
    /\ \A e \in kAnswered \ Ignored :
         kSpool[e] # 0 \/ \E i \in 1..Len(kHanded) : kHanded[i] = e

\* The events handed on between two others.
Between(i, j) == {kHanded[k] : k \in i + 1..j - 1}

\* An event that may be handed on again was last handed on Keep others ago.
GapInv ==
    /\ \A e \in Messages \ K!Acknowledged, i \in 1..Len(kHanded) :
         kHanded[i] = e => Cardinality(Between(i, Len(kHanded) + 1)) >= Keep
    /\ \A i, j \in 1..Len(kHanded) :
         i < j /\ kHanded[i] = kHanded[j] => Cardinality(Between(i, j)) >= Keep

IntakeInv == IntakeTypes /\ StoringInv /\ OrderInv /\ HandedInv /\ GapInv

LEMMA IntakeBegins == K!Init => IntakeInv
<1> SUFFICES ASSUME K!Init PROVE IntakeInv
  OBVIOUS
<1>1. /\ kNext = 1 /\ kCursor = 0 /\ kSpool = [e \in Messages |-> 0] /\ kAnswered = {}
      /\ kStoring = [p \in Listeners |-> K!Nothing] /\ kHanded = <<>> /\ kStored = <<>>
  BY DEF K!Init
<1>2. IntakeTypes
  BY <1>1 DEF IntakeTypes, Storing, K!Nothing
<1>3. StoringInv
  BY <1>1 DEF StoringInv
<1>4. K!Pending = {} /\ K!Acknowledged = {} /\ Len(kHanded) = 0
  BY <1>1 DEF K!Pending, K!Acknowledged
<1> QED
  BY <1>1, <1>2, <1>3, <1>4 DEF IntakeInv, OrderInv, HandedInv, GapInv

\* What is known only by the numbers, the cursor and the two orders stays true while these
\* do.
LEMMA IntakeStands ==
  ASSUME OrderInv, HandedInv, GapInv, UNCHANGED <<kSpool, kCursor, kHanded, kStored>>,
         \A e \in kAnswered' \ kAnswered : e \in Ignored \/ kSpool[e] # 0
  PROVE  OrderInv' /\ HandedInv' /\ GapInv'
<1>1. K!Pending' = K!Pending /\ K!Acknowledged' = K!Acknowledged
  BY DEF K!Pending, K!Acknowledged
<1>2. OrderInv'
  BY <1>1 DEF OrderInv, InOrder
<1>3. HandedInv'
  BY <1>1 DEF HandedInv
<1>4. GapInv'
  BY <1>1 DEF GapInv, Between
<1> QED
  BY <1>2, <1>3, <1>4

\* The listener, but for the file of an event.
LEMMA ListenerKeeps ==
  ASSUME IntakeInv, NEW p \in Listeners, NEW e \in Messages,
         \/ K!Ignore(e) \/ K!Redeliver(e) \/ K!AlreadyStored(p, e)
         \/ K!Allocate(p, e) \/ K!StoreFails(p)
  PROVE  IntakeInv'
<1>1. UNCHANGED <<kSpool, kCursor, kHanded, kStored>>
  BY DEF K!Ignore, K!Redeliver, K!AlreadyStored, K!Allocate, K!StoreFails
<1>2. /\ kAnswered' = kAnswered \/ (kAnswered' = kAnswered \cup {e} /\ (e \in Ignored \/ kSpool[e] # 0))
      /\ kNext' = kNext \/ kNext' = kNext + 1
  BY DEF K!Ignore, K!Redeliver, K!AlreadyStored, K!Allocate, K!StoreFails, K!Accepted, K!Known
<1>3. \/ kStoring' = kStoring
      \/ kStoring' = [kStoring EXCEPT ![p] = K!Nothing]
      \/ /\ kStoring' = [kStoring EXCEPT ![p] = [event |-> e, number |-> kNext]]
         /\ kSpool[e] = 0 /\ kNext' = kNext + 1
  BY DEF K!Ignore, K!Redeliver, K!AlreadyStored, K!Allocate, K!StoreFails, K!Known
<1>4. kNext' \in Nat \ {0} /\ kNext <= kNext'
  BY <1>2 DEF IntakeInv, IntakeTypes
<1>5. [event |-> e, number |-> kNext] \in Storing /\ K!Nothing \in Storing
  BY DEF IntakeInv, IntakeTypes, Storing, K!Nothing
<1>6. kStoring' \in [Listeners -> Storing]
  BY <1>3, <1>5 DEF IntakeInv, IntakeTypes
<1>7. IntakeTypes'
  <2>1. \A k \in Nat \ {0} : kNext <= k => 0..kNext - 1 \subseteq 0..k - 1
    BY DEF IntakeInv, IntakeTypes
  <2>2. kSpool' \in [Messages -> 0..kNext' - 1] /\ kCursor' \in 0..kNext' - 1
    BY <1>1, <1>4, <2>1 DEF IntakeInv, IntakeTypes
  <2> QED
    BY <1>1, <1>2, <1>4, <1>6, <2>2 DEF IntakeInv, IntakeTypes
<1>8. StoringInv'
  <2> SUFFICES ASSUME NEW d \in Listeners, kStoring'[d] # K!Nothing
               PROVE  LET f == kStoring'[d].event
                          n == kStoring'[d].number IN
                      /\ f \in Messages /\ kSpool[f] = 0
                      /\ kCursor < n /\ n < kNext'
                      /\ \A g \in Messages : kSpool[g] < n
    BY <1>1 DEF StoringInv, K!Nothing
  <2>1. CASE kStoring'[d] = kStoring[d]
    BY <1>4, <2>1 DEF IntakeInv, IntakeTypes, StoringInv, Storing
  <2>2. CASE /\ kStoring'[d] = [event |-> e, number |-> kNext]
             /\ kSpool[e] = 0 /\ kNext' = kNext + 1
    BY <2>2 DEF IntakeInv, IntakeTypes
  <2> QED
    BY <1>3, <2>1, <2>2 DEF IntakeInv, IntakeTypes
<1>9. OrderInv' /\ HandedInv' /\ GapInv'
  <2>1. \A f \in kAnswered' \ kAnswered : f \in Ignored \/ kSpool[f] # 0
    BY <1>2
  <2> QED
    BY <1>1, <2>1, IntakeStands DEF IntakeInv
<1> QED
  BY <1>7, <1>8, <1>9 DEF IntakeInv

\* The event goes to the end of what is stored, with a number ahead of the cursor.
LEMMA StoreKeeps ==
  ASSUME IntakeInv, NEW d \in Nat, Listeners = {d}, K!Store(d)
  PROVE  IntakeInv'
<1>1. PICK e \in Messages, n \in Nat \ {0} :
         /\ e = kStoring[d].event /\ n = kStoring[d].number
         /\ kSpool[e] = 0 /\ kCursor < n /\ n < kNext
         /\ \A f \in Messages : kSpool[f] < n
  BY DEF K!Store, IntakeInv, StoringInv, IntakeTypes, Storing
<1>2. /\ kSpool' = [kSpool EXCEPT ![e] = n]
      /\ kStored' = Append(kStored, e)
      /\ kStoring' = [kStoring EXCEPT ![d] = K!Nothing]
      /\ UNCHANGED <<kNext, kCursor, kHanded>>
      /\ kAnswered' = kAnswered \/ kAnswered' = kAnswered \cup {e}
  BY <1>1 DEF K!Store
<1>3. /\ kStored \in Seq(Messages) /\ kStored' \in Seq(Messages)
      /\ Len(kStored) \in Nat /\ Len(kStored') = Len(kStored) + 1 /\ kStored'[Len(kStored) + 1] = e
      /\ \A a \in 1..Len(kStored) : a \in 1..Len(kStored') /\ kStored'[a] = kStored[a]
  BY <1>1, <1>2 DEF IntakeInv, IntakeTypes
<1>4. kSpool'[e] = n /\ \A f \in Messages \ {e} : kSpool'[f] = kSpool[f]
  BY <1>1, <1>2 DEF IntakeInv, IntakeTypes
<1>5. IntakeTypes'
  <2>1. kSpool' \in [Messages -> 0..kNext - 1]
    BY <1>1, <1>2 DEF IntakeInv, IntakeTypes
  <2>2. K!Nothing \in Storing
    BY DEF K!Nothing, Storing
  <2> QED
    BY <1>1, <1>2, <1>3, <2>1, <2>2 DEF IntakeInv, IntakeTypes
<1>6. StoringInv'
  BY <1>2 DEF StoringInv, IntakeInv, IntakeTypes
<1>7. K!Acknowledged' = K!Acknowledged /\ e \notin K!Acknowledged
  BY <1>1, <1>2, <1>4 DEF K!Acknowledged, IntakeInv, IntakeTypes
<1>8. K!Pending' \subseteq K!Pending \cup {e}
  BY <1>2, <1>4 DEF K!Pending
<1>9. ASSUME NEW f \in Messages, NEW g \in Messages, InOrder(f, g) PROVE InOrder(f, g)'
  <2>1. PICK a \in 1..Len(kStored), b \in 1..Len(kStored) :
           a < b /\ kStored[a] = f /\ kStored[b] = g
    BY <1>9 DEF InOrder
  <2>2. a \in 1..Len(kStored') /\ b \in 1..Len(kStored') /\ kStored'[a] = f /\ kStored'[b] = g
    BY <1>3, <2>1
  <2> QED
    BY <2>1, <2>2 DEF InOrder
<1>10. ASSUME NEW f \in Messages, \E a \in 1..Len(kStored) : kStored[a] = f PROVE InOrder(f, e)'
  <2>1. PICK a \in 1..Len(kStored) : kStored[a] = f
    BY <1>10
  <2>2. /\ a \in 1..Len(kStored') /\ kStored'[a] = f /\ a < Len(kStored) + 1
        /\ Len(kStored) + 1 \in 1..Len(kStored') /\ kStored'[Len(kStored) + 1] = e
    BY <1>3, <2>1
  <2> QED
    BY <2>2 DEF InOrder
<1>11. OrderInv'
  <2>1. \A f \in Messages : kSpool'[f] # 0 => \E a \in 1..Len(kStored') : kStored'[a] = f
    <3>1. ASSUME NEW f \in Messages, f # e, kSpool'[f] # 0
          PROVE  \E a \in 1..Len(kStored') : kStored'[a] = f
      BY <1>3, <1>4, <3>1 DEF IntakeInv, OrderInv
    <3> QED
      BY <1>3, <3>1
  <2>2. \A i \in 1..Len(kHanded') : \E a \in 1..Len(kStored') : kStored'[a] = kHanded'[i]
    BY <1>2, <1>3 DEF IntakeInv, OrderInv
  <2>3. ASSUME NEW f \in K!Pending', NEW g \in K!Pending', kSpool'[f] < kSpool'[g]
        PROVE  InOrder(f, g)'
    <3>1. CASE g = e
      <4>1. f # e /\ f \in K!Pending
        BY <1>1, <1>4, <1>8, <2>3, <3>1
      <4>2. f \in Messages /\ kSpool[f] # 0
        BY <4>1 DEF K!Pending, IntakeInv, IntakeTypes
      <4>3. \E a \in 1..Len(kStored) : kStored[a] = f
        BY <4>2 DEF IntakeInv, OrderInv
      <4> QED
        BY <1>10, <3>1, <4>2, <4>3
    <3>2. CASE g # e
      <4>1. g \in Messages /\ g \in K!Pending /\ kSpool'[g] = kSpool[g]
        BY <1>4, <1>8, <3>2 DEF K!Pending
      <4>2. f # e
        BY <1>1, <1>4, <2>3, <4>1 DEF IntakeInv, IntakeTypes
      <4>3. f \in Messages /\ f \in K!Pending /\ kSpool'[f] = kSpool[f]
        BY <1>4, <1>8, <4>2 DEF K!Pending
      <4> QED
        BY <1>9, <2>3, <4>1, <4>3 DEF IntakeInv, OrderInv
    <3> QED
      BY <3>1, <3>2
  <2>4. ASSUME NEW i \in 1..Len(kHanded'), NEW f \in K!Pending'
        PROVE  InOrder(kHanded[i], f)'
    <3>1. PICK g \in Messages : g = kHanded[i] /\ g = kHanded'[i]
      BY <1>2 DEF IntakeInv, IntakeTypes
    <3>2. i \in 1..Len(kHanded) /\ f \in Messages
      BY <1>2 DEF K!Pending
    <3>3. InOrder(g, f)'
      <4>1. CASE f = e
        BY <1>10, <3>1, <3>2, <4>1 DEF IntakeInv, OrderInv
      <4>2. CASE f # e
        <5>1. InOrder(g, f)
          BY <1>8, <3>1, <3>2, <4>2 DEF IntakeInv, OrderInv
        <5> QED
          BY <1>9, <3>2, <5>1
      <4> QED
        BY <4>1, <4>2
    <3> QED
      BY <3>1, <3>3
  <2>5. ASSUME NEW i \in 1..Len(kHanded'), NEW j \in 1..Len(kHanded'), i < j
        PROVE  InOrder(kHanded[i], kHanded[j])'
    <3>1. PICK f \in Messages, g \in Messages :
             f = kHanded[i] /\ g = kHanded[j] /\ f = kHanded'[i] /\ g = kHanded'[j]
      BY <1>2 DEF IntakeInv, IntakeTypes
    <3>2. InOrder(f, g)'
      BY <1>2, <1>9, <2>5, <3>1 DEF IntakeInv, OrderInv
    <3> QED
      BY <3>1, <3>2
  <2> QED
    BY <2>1, <2>2, <2>3, <2>4, <2>5 DEF OrderInv
<1>12. HandedInv'
  <2>1. \A f \in K!Acknowledged : kSpool'[f] = kSpool[f]
    BY <1>4, <1>7 DEF K!Acknowledged
  <2>2. \A f \in kAnswered' \ Ignored :
           kSpool'[f] # 0 \/ \E i \in 1..Len(kHanded) : kHanded[i] = f
    BY <1>1, <1>2, <1>4 DEF IntakeInv, IntakeTypes, HandedInv
  <2> QED
    BY <1>2, <1>7, <2>1, <2>2 DEF IntakeInv, HandedInv
<1>13. GapInv'
  BY <1>2, <1>7 DEF IntakeInv, GapInv, Between
<1> QED
  BY <1>5, <1>6, <1>11, <1>12, <1>13 DEF IntakeInv

\* The daemon takes the first of what is ahead of the cursor, and the provider forgets
\* what Keep others came after.
LEMMA ReceiveKeeps ==
  ASSUME IntakeInv, NEW d \in Nat, Listeners = {d}, K!Receive(d)
  PROVE  IntakeInv'
<1>1. PICK n \in 0..K!Cardinality(K!Pending) : \E events \in K!Batch(n) :
         /\ kHanded' = kHanded \o events
         /\ kCursor' = IF n = 0 THEN kCursor ELSE kSpool[events[n]]
  BY DEF K!Receive
<1>2. PICK events \in K!Batch(n) :
         /\ kHanded' = kHanded \o events
         /\ kCursor' = IF n = 0 THEN kCursor ELSE kSpool[events[n]]
  BY <1>1
<1>3. /\ kSpool' = [e \in Messages |-> IF e \in K!Pruned THEN 0 ELSE kSpool[e]]
      /\ UNCHANGED <<kNext, kStoring, kAnswered, kStored>> /\ kStoring[d] = K!Nothing
  BY DEF K!Receive
<1>0. PICK m \in Nat : m = Len(kHanded)
  BY DEF IntakeInv, IntakeTypes
<1> DEFINE batch == {events[i] : i \in 1..n}
<1>4. /\ n \in Nat /\ events \in [1..n -> K!Pending]
      /\ \A i, j \in 1..n : i < j => kSpool[events[i]] < kSpool[events[j]]
      /\ \A e \in K!Pending \ batch : \A i \in 1..n : kSpool[events[i]] < kSpool[e]
  <2>1. IsFiniteSet(K!Pending)
    BY MessagesAssumption, FS_Subset DEF K!Pending
  <2>2. n \in Nat
    BY <2>1, FS_CardinalityType, IntakeCardinality
  <2> QED
    BY <2>2 DEF K!Batch
<1>5. /\ K!Pending \subseteq Messages /\ K!Acknowledged \subseteq Messages
      /\ K!Pending \cap K!Acknowledged = {} /\ K!Pruned \subseteq K!Acknowledged
      /\ \A e \in Messages : kSpool[e] \in Nat
      /\ kSpool \in [Messages -> 0..kNext - 1] /\ kNext \in Nat \ {0} /\ kCursor \in 0..kNext - 1
  BY DEF K!Pending, K!Acknowledged, K!Pruned, IntakeInv, IntakeTypes
<1>6. \A i \in 1..n : events[i] \in K!Pending /\ events[i] \in Messages
  BY <1>4, <1>5
<1>7. batch \subseteq K!Pending
  BY <1>6
<1>8. /\ kHanded \in Seq(Messages) /\ m \in Nat /\ kHanded' \in Seq(Messages)
      /\ Len(kHanded') = m + n
      /\ \A i \in 1..m : kHanded'[i] = kHanded[i]
      /\ \A i \in 1..n : kHanded'[m + i] = events[i]
  <2>1. events \in [1..n -> Messages] /\ kHanded \in Seq(Messages)
    BY <1>4, <1>6 DEF IntakeInv, IntakeTypes
  <2> QED
    BY <1>0, <1>2, <1>4, <2>1, Concatenated, SMTT(30)
<1>9. \A j \in 1..m + n : j \in 1..m \/ \E i \in 1..n : j = m + i
  <2>1. ASSUME NEW j \in 1..m + n, j \notin 1..m PROVE j - m \in 1..n /\ j = m + (j - m)
    BY <1>4, <1>8, <2>1
  <2> QED
    BY <2>1
<1>10. \A e \in Messages : kSpool'[e] = IF e \in K!Pruned THEN 0 ELSE kSpool[e]
  BY <1>3
\* The cursor is at the last of the batch.
<1>11. /\ kCursor' \in 0..kNext - 1 /\ kCursor <= kCursor'
       /\ \A e \in K!Pending : kSpool[e] <= kCursor' <=> e \in batch
  <2>1. CASE n = 0
    BY <1>2, <1>4, <1>5, <2>1 DEF K!Pending
  <2>2. CASE n # 0
    <3>1. n \in 1..n /\ kCursor' = kSpool[events[n]] /\ events[n] \in K!Pending
      BY <1>2, <1>4, <1>6, <2>2
    <3>2. \A i \in 1..n : kSpool[events[i]] <= kSpool[events[n]]
      BY <1>4, <1>5, <1>6, <3>1, SMTT(30)
    <3>3. \A e \in K!Pending \ batch : kSpool[events[n]] < kSpool[e]
      BY <1>4, <3>1
    <3>4. \A e \in batch : kSpool[e] <= kCursor'
      BY <3>1, <3>2
    <3>5. \A e \in K!Pending \ batch : ~(kSpool[e] <= kCursor')
      BY <1>5, <1>6, <3>1, <3>3
    <3> QED
      BY <1>5, <3>1, <3>4, <3>5 DEF K!Pending
  <2> QED
    BY <2>1, <2>2
<1> HIDE DEF batch
<1>12. K!Acknowledged' = (K!Acknowledged \ K!Pruned) \cup batch /\ K!Pending' = K!Pending \ batch
  <2>1. ASSUME NEW e \in Messages
        PROVE  /\ e \in K!Acknowledged' <=> e \in (K!Acknowledged \ K!Pruned) \cup batch
               /\ e \in K!Pending' <=> e \in K!Pending \ batch
    <3>1. CASE e \in K!Pruned
      <4>1. kSpool'[e] = 0 /\ e \in K!Acknowledged /\ e \notin K!Pending /\ e \notin batch
        BY <1>5, <1>7, <1>10, <3>1
      <4> QED
        BY <1>5, <1>11, <3>1, <4>1 DEF K!Acknowledged, K!Pending
    <3>2. CASE e \in K!Pending
      <4>1. /\ kSpool'[e] = kSpool[e] /\ kSpool[e] # 0 /\ kCursor < kSpool[e]
            /\ e \notin K!Acknowledged
        BY <1>5, <1>10, <3>2 DEF K!Pending
      <4>2. e \in K!Acknowledged' <=> kSpool[e] <= kCursor'
        BY <4>1 DEF K!Acknowledged
      <4>3. e \in K!Pending' <=> ~(kSpool[e] <= kCursor')
        BY <1>5, <1>11, <4>1 DEF K!Pending
      <4> QED
        BY <1>11, <3>2, <4>1, <4>2, <4>3
    <3>3. CASE e \notin K!Pruned /\ e \notin K!Pending
      <4>1. kSpool'[e] = kSpool[e] /\ kSpool[e] <= kCursor' /\ e \notin batch
        BY <1>5, <1>7, <1>10, <1>11, <3>3 DEF K!Pending
      <4>2. e \in K!Acknowledged' <=> e \in K!Acknowledged
        BY <1>5, <3>3, <4>1 DEF K!Acknowledged, K!Pending
      <4>3. e \notin K!Pending'
        BY <1>5, <1>11, <4>1 DEF K!Pending
      <4> QED
        BY <3>3, <4>1, <4>2, <4>3
    <3> QED
      BY <3>1, <3>2, <3>3
  <2>2. K!Acknowledged' \subseteq Messages /\ K!Pending' \subseteq Messages
    BY DEF K!Acknowledged, K!Pending
  <2> QED
    BY <1>5, <1>7, <2>1, <2>2
<1>13. \A e \in batch \cup K!Pending \cup (K!Acknowledged \ K!Pruned) : kSpool'[e] = kSpool[e]
  BY <1>5, <1>7, <1>10
<1>14. \A e \in batch : \E i \in 1..n : events[i] = e
  BY DEF batch
<1>15. \A i \in 1..n : events[i] \in batch
  BY DEF batch
\* Old positions show nothing of the batch that is not pending, and the batch is ordered.
<1>16. \A f, g : InOrder(f, g) = InOrder(f, g)'
  BY <1>3 DEF InOrder
<1>17. \A i, j \in 1..n : kSpool[events[i]] < kSpool[events[j]] <=> i < j
  BY <1>4, <1>5, <1>6
<1>18. \A i, j \in 1..n : events[i] = events[j] => i = j
  BY <1>4, <1>5, <1>6
<1>19. IntakeTypes'
  <2>1. kSpool' \in [Messages -> 0..kNext - 1]
    BY <1>3, <1>5
  <2> QED
    BY <1>3, <1>8, <1>11, <2>1 DEF IntakeInv, IntakeTypes
<1>20. StoringInv'
  BY <1>3 DEF StoringInv, K!Nothing
<1>21. OrderInv'
  <2>1. \A e \in Messages : kSpool'[e] # 0 => \E a \in 1..Len(kStored') : kStored'[a] = e
    BY <1>3, <1>10 DEF IntakeInv, OrderInv
  <2>2. ASSUME NEW i \in 1..Len(kHanded')
        PROVE  \E a \in 1..Len(kStored') : kStored'[a] = kHanded'[i]
    <3>1. CASE i \in 1..m
      BY <1>0, <1>3, <1>8, <3>1 DEF IntakeInv, OrderInv
    <3>2. ASSUME NEW k \in 1..n, i = m + k PROVE \E a \in 1..Len(kStored') : kStored'[a] = kHanded'[i]
      <4>1. kHanded'[i] = events[k] /\ events[k] \in Messages /\ kSpool[events[k]] # 0
        <5>1. kHanded'[i] = events[k] /\ events[k] \in Messages /\ events[k] \in K!Pending
          BY <1>6, <1>8, <3>2
        <5> QED
          BY <1>5, <5>1 DEF K!Pending
      <4> QED
        BY <1>3, <4>1 DEF IntakeInv, OrderInv
    <3> QED
      BY <1>8, <1>9, <3>1, <3>2
  <2>3. \A e, f \in K!Pending' : kSpool'[e] < kSpool'[f] => InOrder(e, f)'
    BY <1>12, <1>13, <1>16 DEF IntakeInv, OrderInv
  <2>4. ASSUME NEW i \in 1..Len(kHanded'), NEW f \in K!Pending'
        PROVE  InOrder(kHanded[i], f)'
    <3>1. PICK g : g = kHanded'[i]
      OBVIOUS
    <3>2. f \in K!Pending \ batch
      BY <1>12
    <3>3. CASE i \in 1..m
      BY <1>0, <1>8, <1>16, <3>1, <3>2, <3>3 DEF IntakeInv, OrderInv
    <3>4. ASSUME NEW k \in 1..n, i = m + k PROVE InOrder(g, f)'
      <4>1. g = events[k] /\ g \in K!Pending /\ kSpool[g] < kSpool[f]
        BY <1>4, <1>6, <1>8, <3>1, <3>2, <3>4
      <4> QED
        BY <1>16, <3>2, <4>1 DEF IntakeInv, OrderInv
    <3> QED
      BY <1>8, <1>9, <3>1, <3>3, <3>4
  <2>5. ASSUME NEW i \in 1..Len(kHanded'), NEW j \in 1..Len(kHanded'), i < j
        PROVE  InOrder(kHanded[i], kHanded[j])'
    <3>1. PICK f, g : f = kHanded'[i] /\ g = kHanded'[j]
      OBVIOUS
    <3>2. CASE i \in 1..m /\ j \in 1..m
      BY <1>0, <1>8, <1>16, <2>5, <3>1, <3>2 DEF IntakeInv, OrderInv
    <3>3. ASSUME i \in 1..m, NEW k \in 1..n, j = m + k PROVE InOrder(f, g)'
      <4>1. g = events[k] /\ g \in K!Pending /\ f = kHanded[i]
        BY <1>6, <1>8, <3>1, <3>3
      <4> QED
        BY <1>0, <1>16, <3>3, <4>1 DEF IntakeInv, OrderInv
    <3>4. ASSUME NEW k \in 1..n, NEW l \in 1..n, i = m + k, j = m + l PROVE InOrder(f, g)'
      <4>1. f = events[k] /\ g = events[l] /\ k < l
        BY <1>8, <2>5, <3>1, <3>4
      <4>2. f \in K!Pending /\ g \in K!Pending /\ kSpool[f] < kSpool[g]
        BY <1>4, <1>6, <4>1
      <4> QED
        BY <1>16, <4>2 DEF IntakeInv, OrderInv
    <3>5. i \in 1..m + n /\ j \in 1..m + n /\ (j \in 1..m => i \in 1..m)
      BY <1>4, <1>8, <2>5
    <3> QED
      BY <1>9, <3>1, <3>2, <3>3, <3>4, <3>5
  <2> QED
    BY <2>1, <2>2, <2>3, <2>4, <2>5 DEF OrderInv
<1>22. \A i \in 1..m : i \in 1..Len(kHanded') /\ i \in 1..m + n
  BY <1>4, <1>8
<1>23. \A i \in 1..n : m + i \in 1..Len(kHanded') /\ \A j \in 1..m : j < m + i
  BY <1>4, <1>8
\* What is at an old position and was handed on before, is not in the batch unless it was
\* pending.
<1>24. HandedInv'
  <2>1. ASSUME NEW e \in K!Acknowledged' PROVE \E i \in 1..Len(kHanded') : kHanded'[i] = e
    <3>1. CASE e \in K!Acknowledged
      BY <1>0, <1>8, <1>22, <3>1 DEF IntakeInv, HandedInv
    <3>2. CASE e \in batch
      BY <1>8, <1>14, <1>23, <3>2
    <3> QED
      BY <1>12, <3>1, <3>2
  <2>2. ASSUME NEW e \in K!Acknowledged', NEW f \in K!Acknowledged', kSpool'[e] < kSpool'[f],
               NEW i \in 1..Len(kHanded'), kHanded'[i] = e
        PROVE  \E j \in 1..Len(kHanded') : i < j /\ kHanded'[j] = f
    <3>1. kSpool[e] < kSpool[f]
      BY <1>12, <1>13, <2>2
    <3>2. CASE i \in 1..m /\ f \in batch
      <4>1. PICK k \in 1..n : events[k] = f
        BY <1>14, <3>2
      <4> QED
        BY <1>8, <1>23, <3>2, <4>1
    <3>3. CASE i \in 1..m /\ f \in K!Acknowledged
      <4>1. e \in K!Acknowledged
        BY <1>5, <1>7, <1>12, <3>1, <3>3 DEF K!Pending, K!Acknowledged
      <4>2. kHanded[i] = e
        BY <1>8, <2>2, <3>3
      <4>3. PICK j \in 1..m : i < j /\ kHanded[j] = f
        BY <1>0, <3>1, <3>3, <4>1, <4>2 DEF IntakeInv, HandedInv
      <4> QED
        BY <1>8, <1>22, <4>3
    <3>4. ASSUME NEW k \in 1..n, i = m + k PROVE \E j \in 1..Len(kHanded') : i < j /\ kHanded'[j] = f
      <4>1. e = events[k] /\ e \in K!Pending
        BY <1>6, <1>8, <2>2, <3>4
      <4>2. f \in batch
        BY <1>5, <1>7, <1>12, <3>1, <4>1 DEF K!Pending, K!Acknowledged
      <4>3. PICK l \in 1..n : events[l] = f
        BY <1>14, <4>2
      <4>4. k < l
        BY <1>17, <3>1, <4>1, <4>3
      <4>5. m + l \in 1..Len(kHanded') /\ i < m + l
        BY <1>8, <1>23, <3>4, <4>4
      <4> QED
        BY <1>8, <4>3, <4>5
    <3> QED
      BY <1>8, <1>9, <1>12, <3>2, <3>3, <3>4
  <2>3. ASSUME NEW e \in kAnswered' \ Ignored
        PROVE  kSpool'[e] # 0 \/ \E i \in 1..Len(kHanded') : kHanded'[i] = e
    <3>1. e \in Messages /\ e \in kAnswered \ Ignored
      BY <1>3 DEF IntakeInv, IntakeTypes
    <3>2. e \in K!Pruned => \E i \in 1..m : kHanded[i] = e
      BY <1>0, <1>5 DEF IntakeInv, HandedInv
    <3> QED
      BY <1>0, <1>8, <1>10, <1>22, <3>1, <3>2 DEF IntakeInv, HandedInv
  <2> QED
    BY <2>1, <2>2, <2>3 DEF HandedInv
<1>25. ASSUME NEW i \in Nat, NEW j \in Nat, NEW l \in Nat, j <= m + 1, j <= l, l <= m + n + 1,
              Cardinality(Between(i, j)) >= Keep
       PROVE  Cardinality(Between(i, l)') >= Keep
  <2>1. \A k \in i + 1..j - 1 : k \in 1..m /\ k \in i + 1..l - 1
    BY <1>8, <1>25
  <2>2. Between(i, j) \subseteq Between(i, l)'
    BY <1>8, <2>1 DEF Between
  <2>3. \A k \in i + 1..l - 1 : k \in 1..Len(kHanded')
    BY <1>4, <1>8, <1>25
  <2>4. Between(i, l)' \subseteq Messages
    BY <1>8, <2>3 DEF Between
  <2>5. IsFiniteSet(Between(i, l)') /\ Cardinality(Between(i, j)) <= Cardinality(Between(i, l)')
    BY <2>2, <2>4, MessagesAssumption, FS_Subset
  <2>6. Cardinality(Between(i, j)) \in Nat /\ Cardinality(Between(i, l)') \in Nat
    BY <2>2, <2>5, FS_Subset, FS_CardinalityType
  <2> QED
    BY <1>25, <2>5, <2>6, MessagesAssumption
<1>26. \A i \in 1..m : i \in 1..Len(kHanded) /\ i \in Nat
  BY <1>0
<1>27. ASSUME NEW e \in Messages \ K!Acknowledged, NEW i \in 1..m, kHanded[i] = e,
              NEW l \in Nat, m + 1 <= l, l <= m + n + 1
       PROVE  Cardinality(Between(i, l)') >= Keep
  <2>1. Cardinality(Between(i, m + 1)) >= Keep
    BY <1>0, <1>26, <1>27 DEF IntakeInv, GapInv
  <2>2. m + 1 \in Nat /\ m + 1 <= m + 1 /\ i \in Nat
    BY <1>8
  <2> QED
    BY <1>25, <1>27, <2>1, <2>2
<1>28. ASSUME NEW e \in Messages \ K!Acknowledged', NEW i \in 1..Len(kHanded'), kHanded'[i] = e
       PROVE  Cardinality(Between(i, m + n + 1)') >= Keep
  <2>1. e \notin batch
    BY <1>12
  <2>2. i \in 1..m /\ kHanded[i] = e
    <3>1. \A k \in 1..n : i # m + k
      BY <1>8, <1>15, <1>28, <2>1
    <3>2. i \in 1..m
      BY <1>8, <1>9, <3>1
    <3> QED
      BY <1>8, <1>28, <3>2
  <2>3. m + n + 1 \in Nat /\ m + 1 <= m + n + 1 /\ m + n + 1 <= m + n + 1
    BY <1>4, <1>8
  <2>4. CASE e \notin K!Acknowledged
    BY <1>27, <1>28, <2>2, <2>3, <2>4
  <2>5. CASE e \in K!Acknowledged
    <3>1. e \in K!Pruned
      BY <1>12, <2>5
    <3> DEFINE after == {f \in K!Acknowledged : kSpool[f] > kSpool[e]}
    <3>2. Cardinality(after) >= Keep
      BY <3>1, IntakeCardinality DEF K!Pruned
    <3>3. after \subseteq Between(i, m + n + 1)'
      <4>1. ASSUME NEW f \in after PROVE f \in Between(i, m + n + 1)'
        <5>1. kSpool[e] < kSpool[f]
          BY <1>5, <2>5, <4>1
        <5>2. PICK j \in 1..m : i < j /\ kHanded[j] = f
          BY <1>0, <1>26, <2>2, <2>5, <4>1, <5>1 DEF IntakeInv, HandedInv
        <5>3. j \in i + 1..m + n + 1 - 1 /\ kHanded'[j] = f
          BY <1>4, <1>8, <2>2, <5>2
        <5> QED
          BY <5>3 DEF Between
      <4> QED
        BY <4>1
    <3>4. \A k \in i + 1..m + n + 1 - 1 : k \in 1..Len(kHanded')
      BY <1>4, <1>8, <2>2
    <3>5. Between(i, m + n + 1)' \subseteq Messages
      BY <1>8, <3>4 DEF Between
    <3>6. IsFiniteSet(Between(i, m + n + 1)') /\ Cardinality(after) <= Cardinality(Between(i, m + n + 1)')
      BY <3>3, <3>5, MessagesAssumption, FS_Subset
    <3>7. Cardinality(after) \in Nat /\ Cardinality(Between(i, m + n + 1)') \in Nat
      BY <3>3, <3>6, FS_Subset, FS_CardinalityType
    <3> QED
      BY <3>2, <3>6, <3>7, MessagesAssumption
  <2> QED
    BY <2>4, <2>5
<1>29. ASSUME NEW i \in 1..Len(kHanded'), NEW j \in 1..Len(kHanded'), i < j, kHanded'[i] = kHanded'[j]
       PROVE  Cardinality(Between(i, j)') >= Keep
  <2>1. i \in Nat /\ j \in Nat /\ j <= m + n + 1 /\ i \in 1..m + n /\ j \in 1..m + n
    BY <1>4, <1>8
  <2>2. CASE j \in 1..m
    <3>1. i \in 1..m
      BY <1>8, <1>29, <2>1, <2>2
    <3>2. Cardinality(Between(i, j)) >= Keep
      BY <1>8, <1>26, <1>29, <2>2, <3>1 DEF IntakeInv, GapInv
    <3>3. j <= m + 1 /\ j <= j
      BY <1>8, <2>2
    <3> QED
      BY <1>25, <2>1, <3>2, <3>3
  <2>3. ASSUME NEW k \in 1..n, j = m + k PROVE Cardinality(Between(i, j)') >= Keep
    <3>1. kHanded'[j] = events[k] /\ events[k] \in K!Pending
      BY <1>6, <1>8, <2>3
    <3>2. i \in 1..m
      <4>1. ASSUME NEW l \in 1..n, i = m + l PROVE FALSE
        <5>1. events[l] = events[k]
          BY <1>8, <1>29, <3>1, <4>1
        <5>2. l # k
          BY <1>29, <2>3, <4>1
        <5> QED
          BY <1>18, <5>1, <5>2
      <4> QED
        BY <1>9, <2>1, <4>1
    <3>3. kHanded[i] = events[k] /\ events[k] \in Messages \ K!Acknowledged
      BY <1>5, <1>6, <1>8, <1>29, <3>1, <3>2
    <3>4. m + 1 <= j
      BY <1>8, <2>3
    <3> QED
      BY <1>27, <2>1, <3>2, <3>3, <3>4
  <2> QED
    BY <1>9, <2>1, <2>2, <2>3
<1>30. GapInv'
  <2>1. Len(kHanded') + 1 = m + n + 1
    BY <1>8
  <2>2. ASSUME NEW e \in Messages \ K!Acknowledged', NEW i \in 1..Len(kHanded'), kHanded'[i] = e
        PROVE  Cardinality(Between(i, Len(kHanded) + 1)') >= Keep
    BY <1>28, <2>1, <2>2
  <2> QED
    BY <1>29, <2>2 DEF GapInv
<1> QED
  BY <1>19, <1>20, <1>21, <1>24, <1>30 DEF IntakeInv

LEMMA IntakeKeeps ==
  ASSUME IntakeInv, NEW d \in Nat, Listeners = {d}, K!Next
  PROVE  IntakeInv'
<1>1. K!Newest = d
  BY DEF K!Newest
<1>2. CASE K!Receive(K!Newest)
  BY <1>1, <1>2, ReceiveKeeps
<1>3. CASE K!Store(d)
  BY <1>3, StoreKeeps
<1>4. CASE K!StoreFails(d)
  <2>1. kStoring[d].event \in Messages
    BY <1>4 DEF K!StoreFails, IntakeInv, StoringInv
  <2> QED
    BY <1>4, <2>1, ListenerKeeps
<1>5. ASSUME NEW e \in Messages,
             \/ K!Ignore(e) \/ K!Redeliver(e) \/ K!AlreadyStored(d, e) \/ K!Allocate(d, e)
      PROVE  IntakeInv'
  BY <1>5, ListenerKeeps
<1> QED
  BY <1>2, <1>3, <1>4, <1>5 DEF K!Next

LEMMA IntakeIsSound == IntakeInv => K!TypeOK /\ K!NothingAnsweredIsLost /\ K!HandedInOrder
<1> SUFFICES ASSUME IntakeInv PROVE K!TypeOK /\ K!NothingAnsweredIsLost /\ K!HandedInOrder
  OBVIOUS
<1>1. K!TypeOK
  BY DEF IntakeInv, IntakeTypes, Storing, K!TypeOK
<1>2. K!NothingAnsweredIsLost
  BY DEF IntakeInv, HandedInv, K!NothingAnsweredIsLost, K!Accepted, K!Known, K!Contains
<1>3. K!HandedInOrder
  <2>1. DOMAIN kHanded = 1..Len(kHanded) /\ DOMAIN kStored = 1..Len(kStored)
    BY DEF IntakeInv, IntakeTypes
  <2>2. \A i, j \in 1..Len(kHanded) : i < j /\ kHanded[i] = kHanded[j] =>
           K!Cardinality({kHanded[k] : k \in i + 1..j - 1}) >= Keep
    BY IntakeCardinality DEF IntakeInv, GapInv, Between
  <2>3. \A i, j \in 1..Len(kHanded) : i < j => InOrder(kHanded[i], kHanded[j])
    BY DEF IntakeInv, OrderInv
  <2> QED
    BY <2>1, <2>2, <2>3 DEF K!HandedInOrder, InOrder
<1> QED
  BY <1>1, <1>2, <1>3

-----------------------------------------------------------------------------
(* A reply with files that is sent to Slack.  Nothing is shared before the *)
(* record says that it is about to be, and a record that says so is not    *)
(* taken further before Slack was asked: so the files go to a conversation *)
(* that has none of them.                                                  *)

Delivery == [status : {"pending", "completing", "delivered"}, attempts : Nat,
             stage : [Attachments -> {"none", "url_allocated", "uploaded"}],
             shared : BOOLEAN, rest : BOOLEAN, outcome : {"none", "files", "partial", "fallback"}]

UploadTypes ==
    /\ uDisk \in Delivery /\ uMem \in Delivery
    /\ uAt \in {"idle", "load", "reconcile", "attempt", "upload", "complete", "completed",
                "rest", "rest_posted", "partial", "partial_posted", "fallback", "fallback_posted"}
    /\ uBy \in {"deliver", "reconcile", "recover"}
    /\ uJournal \in [status : {"pending", "in_flight", "retryable_failure", "delivered",
                               "terminal_failure"},
                     attempts : Nat]
    /\ uSlack \in [shares : [Attachments -> Nat], texts : [U!Texts -> Nat]]
    /\ uFaults \in 0..UploadFaults

\* Memory is ahead of the disk by the trailing text only.
SameRecord ==
    /\ uMem.status = uDisk.status /\ uMem.attempts = uDisk.attempts /\ uMem.stage = uDisk.stage
    /\ uMem.shared = uDisk.shared /\ uMem.outcome = uDisk.outcome

\* The journal waits for a call that runs, and is given up after MaxAttempts, but for
\* calls that fail in a recovery.
AttemptsInv ==
    /\ uAt # "idle" => uJournal.status = "in_flight"
    /\ uJournal.attempts <= MaxAttempts + UploadFaults - uFaults
    /\ uJournal.status \in {"pending", "retryable_failure"} =>
         uJournal.attempts < MaxAttempts + UploadFaults - uFaults
    /\ uMem.attempts <= uJournal.attempts
    /\ uAt \in {"load", "attempt"} \/ (uAt = "reconcile" /\ uBy # "recover")
         => uMem.attempts < uJournal.attempts

\* What Slack has, of the files and of the texts.
Sharing == \E f \in Attachments : uSlack.shares[f] > 0
AllShared == (\A f \in Attachments : uSlack.shares[f] > 0) /\ U!Shown("comment")
AllUploaded == \A f \in Attachments : uMem.stage[f] = "uploaded"

\* Where the call is tells what was shared and shown before.
SharingInv ==
    /\ \A f \in Attachments : uSlack.shares[f] <= 1
    /\ Sharing => uMem.status # "pending" /\ AllUploaded /\ U!Shown("comment")
    /\ uAt \in {"attempt", "upload", "complete"} => ~Sharing
    /\ uAt = "complete" => uMem.status = "completing" /\ AllUploaded
    /\ uAt \in {"completed", "rest", "rest_posted"} => AllShared
    /\ uAt \in {"rest", "rest_posted"} => uMem.outcome = "files"
    /\ uAt \notin {"idle", "load", "reconcile"} => uMem.status # "delivered"
    /\ uMem.shared => AllShared
    /\ uMem.outcome = "files" => AllShared
    /\ uMem.rest \/ uDisk.rest => U!Shown("rest")
    /\ uAt \in {"partial", "partial_posted"} => U!Shown("comment")
    /\ uAt = "partial_posted" => U!Shown("partial")
    /\ uAt = "fallback_posted" => U!Shown("fallback")

\* What a record that says delivered stands for.
ShownInv ==
    /\ uDisk.status = "delivered" =>
         \/ uDisk.outcome = "files" /\ AllShared /\ U!Shown("rest")
         \/ uDisk.outcome = "partial" /\ U!Shown("partial") /\ U!Shown("comment")
         \/ uDisk.outcome = "fallback" /\ U!Shown("fallback")
    /\ uJournal.status = "delivered" => uDisk.status = "delivered"

UploadInv == UploadTypes /\ SameRecord /\ AttemptsInv /\ SharingInv /\ ShownInv

LEMMA UploadBegins == U!Init => UploadInv
<1> SUFFICES ASSUME U!Init PROVE UploadInv
  OBVIOUS
<1>1. /\ uDisk = U!NoRecord /\ uMem = U!NoRecord /\ uAt = "idle" /\ uBy = "deliver"
      /\ uJournal = [status |-> "pending", attempts |-> 0] /\ uFaults = UploadFaults
      /\ uSlack = [shares |-> [f \in Attachments |-> 0], texts |-> [t \in U!Texts |-> 0]]
  BY DEF U!Init
<1>2. UploadTypes
  BY <1>1, AttachmentsAssumption DEF UploadTypes, Delivery, U!NoRecord
<1>3. SameRecord /\ AttemptsInv
  BY <1>1, AttachmentsAssumption DEF SameRecord, AttemptsInv, U!NoRecord
<1>4. SharingInv /\ ShownInv
  BY <1>1 DEF SharingInv, ShownInv, Sharing, U!NoRecord
<1> QED
  BY <1>2, <1>3, <1>4 DEF UploadInv


LEMMA UploadKeeps == ASSUME UploadInv, U!Next PROVE UploadInv'
<1>1. ASSUME U!Deliver PROVE UploadInv'
  <2>1. UploadTypes'
    BY <1>1, AttachmentsAssumption DEF UploadInv, UploadTypes, Delivery, U!Deliver
  <2>2. SameRecord'
    BY <1>1, AttachmentsAssumption DEF UploadInv, SameRecord, UploadTypes, Delivery, U!Deliver
  <2>3. AttemptsInv'
    BY <1>1, AttachmentsAssumption DEF UploadInv, UploadTypes, Delivery, SameRecord, AttemptsInv, U!Deliver
  <2>4. SharingInv'
    BY <1>1, AttachmentsAssumption DEF UploadInv, UploadTypes, Delivery, SameRecord, AttemptsInv, SharingInv, Sharing, AllShared, AllUploaded, U!Shown, U!Texts, U!Deliver
  <2>5. ShownInv'
    BY <1>1, AttachmentsAssumption DEF UploadInv, UploadTypes, Delivery, SameRecord, AttemptsInv, SharingInv, ShownInv, Sharing, AllShared, AllUploaded, U!Shown, U!Texts, U!Deliver
  <2> QED
    BY <2>1, <2>2, <2>3, <2>4, <2>5 DEF UploadInv
<1>2. ASSUME U!Recover PROVE UploadInv'
  <2>1. UploadTypes'
    BY <1>2, AttachmentsAssumption DEF UploadInv, UploadTypes, Delivery, U!Recover, U!Go
  <2>2. SameRecord'
    BY <1>2, AttachmentsAssumption DEF UploadInv, SameRecord, UploadTypes, Delivery, U!Recover, U!Go
  <2>3. AttemptsInv'
    BY <1>2, AttachmentsAssumption DEF UploadInv, UploadTypes, Delivery, SameRecord, AttemptsInv, U!Recover, U!Go
  <2>4. SharingInv'
    BY <1>2, AttachmentsAssumption DEF UploadInv, UploadTypes, Delivery, SameRecord, AttemptsInv, SharingInv, Sharing, AllShared, AllUploaded, U!Shown, U!Texts, U!Recover, U!Go
  <2>5. ShownInv'
    BY <1>2, AttachmentsAssumption DEF UploadInv, UploadTypes, Delivery, SameRecord, AttemptsInv, SharingInv, ShownInv, Sharing, AllShared, AllUploaded, U!Shown, U!Texts, U!Recover, U!Go
  <2> QED
    BY <2>1, <2>2, <2>3, <2>4, <2>5 DEF UploadInv
<1>3. ASSUME U!Load PROVE UploadInv'
  <2>1. UploadTypes'
    BY <1>3, AttachmentsAssumption DEF UploadInv, UploadTypes, Delivery, U!Load, U!Go, U!Return, U!Settle
  <2>2. SameRecord'
    BY <1>3, AttachmentsAssumption DEF UploadInv, SameRecord, UploadTypes, Delivery, U!Load, U!Go, U!Return, U!Settle
  <2>3. AttemptsInv'
    <3>1. /\ uMem' = uDisk /\ uAt = "load" /\ uFaults' = uFaults /\ uJournal'.attempts = uJournal.attempts
          /\ \/ uAt' = "idle" /\ uJournal'.status = "delivered"
             \/ uAt' \in {"reconcile", "attempt"} /\ uJournal' = uJournal
      BY <1>3 DEF U!Load, U!Go, U!Return, U!Settle, UploadInv, UploadTypes
    <3>2. uMem'.attempts = uMem.attempts /\ uMem.attempts < uJournal.attempts
      BY <3>1 DEF UploadInv, SameRecord, AttemptsInv
    <3> QED
      BY <3>1, <3>2 DEF UploadInv, UploadTypes, Delivery, AttemptsInv
  <2>4. SharingInv'
    BY <1>3, AttachmentsAssumption DEF UploadInv, UploadTypes, Delivery, SameRecord, AttemptsInv, SharingInv, Sharing, AllShared, AllUploaded, U!Shown, U!Texts, U!Load, U!Go, U!Return, U!Settle
  <2>5. ShownInv'
    BY <1>3, AttachmentsAssumption DEF UploadInv, UploadTypes, Delivery, SameRecord, AttemptsInv, SharingInv, ShownInv, Sharing, AllShared, AllUploaded, U!Shown, U!Texts, U!Load, U!Go, U!Return, U!Settle
  <2> QED
    BY <2>1, <2>2, <2>3, <2>4, <2>5 DEF UploadInv
<1>4. ASSUME U!Reconcile PROVE UploadInv'
  <2>1. /\ uAt = "reconcile" /\ UNCHANGED <<uSlack, uFaults>>
        /\ \/ /\ uMem.status = "delivered" /\ uAt' = "idle"
              /\ uJournal' = [uJournal EXCEPT !.status = "delivered"]
              /\ UNCHANGED <<uDisk, uMem, uBy>>
           \/ /\ uMem.status # "delivered" /\ \A f \in Attachments : uSlack.shares[f] > 0
              /\ uMem' = [uMem EXCEPT !.status = "completing", !.shared = TRUE, !.outcome = "files"]
              /\ uDisk' = uMem' /\ uAt' = "rest" /\ UNCHANGED <<uJournal, uBy>>
           \/ /\ uMem.status # "delivered" /\ uBy = "recover" /\ uBy' = "deliver"
              /\ UNCHANGED <<uDisk, uMem>>
              /\ \/ uAt' = "idle" /\ uJournal' = [uJournal EXCEPT !.status = "terminal_failure"]
                 \/ /\ uAt' = "load" /\ uJournal.attempts < MaxAttempts
                    /\ uJournal' = [uJournal EXCEPT !.attempts = @ + 1]
           \/ /\ uMem.status # "delivered" /\ uBy # "recover" /\ uBy' \in {uBy, "deliver"}
              /\ \/ uAt' = "attempt" /\ U!NotShared
                 \/ uAt' = "partial" /\ ~U!NotShared
              /\ UNCHANGED <<uDisk, uMem, uJournal>>
    <3>1. U!SharedFiles = Attachments => \A f \in Attachments : uSlack.shares[f] > 0
      BY DEF U!SharedFiles
    <3>2. U!TryAgain =>
            /\ uBy' = "deliver"
            /\ \/ uAt' = "idle" /\ uJournal' = [uJournal EXCEPT !.status = "terminal_failure"]
               \/ /\ uAt' = "load" /\ uJournal.attempts < MaxAttempts
                  /\ uJournal' = [uJournal EXCEPT !.attempts = @ + 1]
      BY AttachmentsAssumption DEF U!TryAgain, U!Settle, UploadInv, UploadTypes
    <3> QED
      BY <1>4, <3>1, <3>2 DEF U!Reconcile, U!Go, U!Return, U!Settle, U!Write
  <2>2. U!NotShared /\ uMem.status # "delivered" => ~Sharing
    BY DEF U!NotShared, U!SharedFiles, UploadInv, SharingInv, Sharing, AllUploaded
  <2>3. ~U!NotShared => U!Shown("comment")
    BY DEF U!NotShared, U!SharedFiles, UploadInv, SharingInv, Sharing
  <2>4. (\A f \in Attachments : uSlack.shares[f] > 0) => AllShared
    BY AttachmentsAssumption DEF Sharing, AllShared, UploadInv, SharingInv
  <2>5. CASE /\ uMem.status = "delivered" /\ uAt' = "idle"
             /\ uJournal' = [uJournal EXCEPT !.status = "delivered"]
             /\ UNCHANGED <<uDisk, uMem, uBy>>
    <3>1. UploadTypes'
      BY <2>1, <2>5 DEF UploadInv, UploadTypes, Delivery
    <3>2. SameRecord'
      BY <2>1, <2>5 DEF UploadInv, SameRecord, UploadTypes, Delivery
    <3>3. AttemptsInv'
      BY <2>1, <2>5, AttachmentsAssumption DEF UploadInv, UploadTypes, Delivery, SameRecord, AttemptsInv
    <3>4. SharingInv'
      BY <2>1, <2>5, <2>2, <2>3, <2>4 DEF UploadInv, UploadTypes, Delivery, SameRecord, SharingInv, Sharing,
         AllShared, AllUploaded, U!Shown
    <3>5. ShownInv'
      BY <2>1, <2>5 DEF UploadInv, UploadTypes, Delivery, SameRecord, AttemptsInv, SharingInv, ShownInv,
         AllShared, U!Shown
    <3> QED
      BY <3>1, <3>2, <3>3, <3>4, <3>5 DEF UploadInv
  <2>6. CASE /\ uMem.status # "delivered" /\ \A f \in Attachments : uSlack.shares[f] > 0
             /\ uMem' = [uMem EXCEPT !.status = "completing", !.shared = TRUE, !.outcome = "files"]
             /\ uDisk' = uMem' /\ uAt' = "rest" /\ UNCHANGED <<uJournal, uBy>>
    <3>1. UploadTypes'
      <4>1. [uMem EXCEPT !.status = "completing", !.shared = TRUE, !.outcome = "files"] \in Delivery
        BY DEF UploadInv, UploadTypes, Delivery
      <4> QED
        BY <2>1, <2>6, <4>1 DEF UploadInv, UploadTypes
    <3>2. SameRecord'
      BY <2>1, <2>6 DEF UploadInv, SameRecord, UploadTypes, Delivery
    <3>3. AttemptsInv'
      BY <2>1, <2>6, AttachmentsAssumption DEF UploadInv, UploadTypes, Delivery, SameRecord, AttemptsInv
    <3>4. SharingInv'
      <4>1. /\ uMem'.status = "completing" /\ uMem'.shared /\ uMem'.outcome = "files"
            /\ uMem'.stage = uMem.stage /\ (uMem'.rest \/ uDisk'.rest => uMem.rest)
        <5> DEFINE new == [uMem EXCEPT !.status = "completing", !.shared = TRUE, !.outcome = "files"]
        <5>1. /\ new.status = "completing" /\ new.shared /\ new.outcome = "files"
              /\ new.stage = uMem.stage /\ new.rest = uMem.rest
          BY DEF UploadInv, UploadTypes, Delivery
        <5>2. uMem' = new /\ uDisk' = new
          BY <2>6 DEF new
        <5> HIDE DEF new
        <5> QED
          BY <5>1, <5>2
      <4>2. AllShared /\ AllShared' /\ (Sharing' => Sharing)
        BY <2>1, <2>4, <2>6 DEF AllShared, Sharing, U!Shown
      <4> QED
        <5>1. /\ AllUploaded => AllUploaded'
              /\ (U!Shown("comment") => U!Shown("comment")') /\ (U!Shown("rest") => U!Shown("rest")')
          BY <2>1, <4>1 DEF AllUploaded, U!Shown
        <5>2. /\ \A f \in Attachments : uSlack'.shares[f] <= 1
              /\ Sharing => AllUploaded /\ U!Shown("comment")
              /\ uMem.rest => U!Shown("rest")
          BY <2>1 DEF UploadInv, SharingInv
        <5> QED
          BY <2>6, <4>1, <4>2, <5>1, <5>2 DEF SharingInv
    <3>5. ShownInv'
      BY <2>1, <2>6 DEF UploadInv, UploadTypes, Delivery, SameRecord, AttemptsInv, SharingInv, ShownInv,
         AllShared, U!Shown
    <3> QED
      BY <3>1, <3>2, <3>3, <3>4, <3>5 DEF UploadInv
  <2>7. CASE /\ uMem.status # "delivered" /\ uBy = "recover" /\ uBy' = "deliver"
             /\ UNCHANGED <<uDisk, uMem>>
             /\ \/ uAt' = "idle" /\ uJournal' = [uJournal EXCEPT !.status = "terminal_failure"]
                \/ /\ uAt' = "load" /\ uJournal.attempts < MaxAttempts
                   /\ uJournal' = [uJournal EXCEPT !.attempts = @ + 1]
    <3>1. UploadTypes'
      BY <2>1, <2>7 DEF UploadInv, UploadTypes, Delivery
    <3>2. SameRecord'
      BY <2>1, <2>7 DEF UploadInv, SameRecord, UploadTypes, Delivery
    <3>3. AttemptsInv'
      BY <2>1, <2>7, AttachmentsAssumption DEF UploadInv, UploadTypes, Delivery, SameRecord, AttemptsInv
    <3>4. SharingInv'
      BY <2>1, <2>7, <2>2, <2>3, <2>4 DEF UploadInv, UploadTypes, Delivery, SameRecord, SharingInv, Sharing,
         AllShared, AllUploaded, U!Shown
    <3>5. ShownInv'
      BY <2>1, <2>7 DEF UploadInv, UploadTypes, Delivery, SameRecord, AttemptsInv, SharingInv, ShownInv,
         AllShared, U!Shown
    <3> QED
      BY <3>1, <3>2, <3>3, <3>4, <3>5 DEF UploadInv
  <2>8. CASE /\ uMem.status # "delivered" /\ uBy # "recover" /\ uBy' \in {uBy, "deliver"}
             /\ \/ uAt' = "attempt" /\ U!NotShared
                \/ uAt' = "partial" /\ ~U!NotShared
             /\ UNCHANGED <<uDisk, uMem, uJournal>>
    <3>1. UploadTypes'
      BY <2>1, <2>8 DEF UploadInv, UploadTypes, Delivery
    <3>2. SameRecord'
      BY <2>1, <2>8 DEF UploadInv, SameRecord, UploadTypes, Delivery
    <3>3. AttemptsInv'
      BY <2>1, <2>8, AttachmentsAssumption DEF UploadInv, UploadTypes, Delivery, SameRecord, AttemptsInv
    <3>4. SharingInv'
      BY <2>1, <2>8, <2>2, <2>3, <2>4 DEF UploadInv, UploadTypes, Delivery, SameRecord, SharingInv, Sharing,
         AllShared, AllUploaded, U!Shown
    <3>5. ShownInv'
      BY <2>1, <2>8 DEF UploadInv, UploadTypes, Delivery, SameRecord, AttemptsInv, SharingInv, ShownInv,
         AllShared, U!Shown
    <3> QED
      BY <3>1, <3>2, <3>3, <3>4, <3>5 DEF UploadInv
  <2> QED
    BY <2>1, <2>5, <2>6, <2>7, <2>8
<1>5. ASSUME U!Attempt PROVE UploadInv'
  <2>1. UploadTypes'
    BY <1>5, AttachmentsAssumption DEF UploadInv, UploadTypes, Delivery, U!Attempt, U!Go, U!Write
  <2>2. SameRecord'
    BY <1>5, AttachmentsAssumption DEF UploadInv, SameRecord, UploadTypes, Delivery, U!Attempt, U!Go, U!Write
  <2>3. AttemptsInv'
    BY <1>5, AttachmentsAssumption DEF UploadInv, UploadTypes, Delivery, SameRecord, AttemptsInv, U!Attempt, U!Go, U!Write
  <2>4. SharingInv'
    BY <1>5, AttachmentsAssumption DEF UploadInv, UploadTypes, Delivery, SameRecord, AttemptsInv, SharingInv, Sharing, AllShared, AllUploaded, U!Shown, U!Texts, U!Attempt, U!Go, U!Write
  <2>5. ShownInv'
    BY <1>5, AttachmentsAssumption DEF UploadInv, UploadTypes, Delivery, SameRecord, AttemptsInv, SharingInv, ShownInv, Sharing, AllShared, AllUploaded, U!Shown, U!Texts, U!Attempt, U!Go, U!Write
  <2> QED
    BY <2>1, <2>2, <2>3, <2>4, <2>5 DEF UploadInv
<1>6. ASSUME NEW f \in Attachments, U!Upload(f) PROVE UploadInv'
  <2>1. UploadTypes'
    BY <1>6, AttachmentsAssumption DEF UploadInv, UploadTypes, Delivery, U!Upload, U!Write
  <2>2. SameRecord'
    BY <1>6, AttachmentsAssumption DEF UploadInv, SameRecord, UploadTypes, Delivery, U!Upload, U!Write
  <2>3. AttemptsInv'
    BY <1>6, AttachmentsAssumption DEF UploadInv, UploadTypes, Delivery, SameRecord, AttemptsInv, U!Upload, U!Write
  <2>4. SharingInv'
    BY <1>6, AttachmentsAssumption DEF UploadInv, UploadTypes, Delivery, SameRecord, AttemptsInv, SharingInv, Sharing, AllShared, AllUploaded, U!Shown, U!Texts, U!Upload, U!Write
  <2>5. ShownInv'
    BY <1>6, AttachmentsAssumption DEF UploadInv, UploadTypes, Delivery, SameRecord, AttemptsInv, SharingInv, ShownInv, Sharing, AllShared, AllUploaded, U!Shown, U!Texts, U!Upload, U!Write
  <2> QED
    BY <2>1, <2>2, <2>3, <2>4, <2>5 DEF UploadInv
<1>7. ASSUME U!Completing PROVE UploadInv'
  <2>1. UploadTypes'
    BY <1>7, AttachmentsAssumption DEF UploadInv, UploadTypes, Delivery, U!Completing, U!Write
  <2>2. SameRecord'
    BY <1>7, AttachmentsAssumption DEF UploadInv, SameRecord, UploadTypes, Delivery, U!Completing, U!Write
  <2>3. AttemptsInv'
    BY <1>7, AttachmentsAssumption DEF UploadInv, UploadTypes, Delivery, SameRecord, AttemptsInv, U!Completing, U!Write
  <2>4. SharingInv'
    BY <1>7, AttachmentsAssumption DEF UploadInv, UploadTypes, Delivery, SameRecord, AttemptsInv, SharingInv, Sharing, AllShared, AllUploaded, U!Shown, U!Texts, U!Completing, U!Write
  <2>5. ShownInv'
    BY <1>7, AttachmentsAssumption DEF UploadInv, UploadTypes, Delivery, SameRecord, AttemptsInv, SharingInv, ShownInv, Sharing, AllShared, AllUploaded, U!Shown, U!Texts, U!Completing, U!Write
  <2> QED
    BY <2>1, <2>2, <2>3, <2>4, <2>5 DEF UploadInv
<1>8. ASSUME U!Complete PROVE UploadInv'
  <2>1. UploadTypes'
    <3>1. uSlack' \in [shares : [Attachments -> Nat], texts : [U!Texts -> Nat]]
      BY <1>8 DEF UploadInv, UploadTypes, U!Complete, U!Share, U!Texts
    <3> QED
      BY <1>8, <3>1 DEF UploadInv, UploadTypes, U!Complete
  <2>2. SameRecord'
    BY <1>8, AttachmentsAssumption DEF UploadInv, SameRecord, UploadTypes, Delivery, U!Complete, U!Share
  <2>3. AttemptsInv'
    BY <1>8, AttachmentsAssumption DEF UploadInv, UploadTypes, Delivery, SameRecord, AttemptsInv, U!Complete, U!Share
  <2>4. SharingInv'
    BY <1>8, AttachmentsAssumption DEF UploadInv, UploadTypes, Delivery, SameRecord, AttemptsInv, SharingInv, Sharing, AllShared, AllUploaded, U!Shown, U!Texts, U!Complete, U!Share
  <2>5. ShownInv'
    BY <1>8, AttachmentsAssumption DEF UploadInv, UploadTypes, Delivery, SameRecord, AttemptsInv, SharingInv, ShownInv, Sharing, AllShared, AllUploaded, U!Shown, U!Texts, U!Complete, U!Share
  <2> QED
    BY <2>1, <2>2, <2>3, <2>4, <2>5 DEF UploadInv
<1>9. ASSUME U!RecordReferences PROVE UploadInv'
  <2>1. UploadTypes'
    BY <1>9, AttachmentsAssumption DEF UploadInv, UploadTypes, Delivery, U!RecordReferences, U!Write
  <2>2. SameRecord'
    BY <1>9, AttachmentsAssumption DEF UploadInv, SameRecord, UploadTypes, Delivery, U!RecordReferences, U!Write
  <2>3. AttemptsInv'
    BY <1>9, AttachmentsAssumption DEF UploadInv, UploadTypes, Delivery, SameRecord, AttemptsInv, U!RecordReferences, U!Write
  <2>4. SharingInv'
    BY <1>9, AttachmentsAssumption DEF UploadInv, UploadTypes, Delivery, SameRecord, AttemptsInv, SharingInv, Sharing, AllShared, AllUploaded, U!Shown, U!Texts, U!RecordReferences, U!Write
  <2>5. ShownInv'
    BY <1>9, AttachmentsAssumption DEF UploadInv, UploadTypes, Delivery, SameRecord, AttemptsInv, SharingInv, ShownInv, Sharing, AllShared, AllUploaded, U!Shown, U!Texts, U!RecordReferences, U!Write
  <2> QED
    BY <2>1, <2>2, <2>3, <2>4, <2>5 DEF UploadInv
<1>10. ASSUME U!PostRest PROVE UploadInv'
  <2>1. UploadTypes'
    BY <1>10, AttachmentsAssumption DEF UploadInv, UploadTypes, Delivery, U!PostRest, U!PostOnce
  <2>2. SameRecord'
    BY <1>10, AttachmentsAssumption DEF UploadInv, SameRecord, UploadTypes, Delivery, U!PostRest, U!PostOnce
  <2>3. AttemptsInv'
    BY <1>10, AttachmentsAssumption DEF UploadInv, UploadTypes, Delivery, SameRecord, AttemptsInv, U!PostRest, U!PostOnce
  <2>4. SharingInv'
    BY <1>10, AttachmentsAssumption DEF UploadInv, UploadTypes, Delivery, SameRecord, AttemptsInv, SharingInv, Sharing, AllShared, AllUploaded, U!Shown, U!Texts, U!PostRest, U!PostOnce
  <2>5. ShownInv'
    BY <1>10, AttachmentsAssumption DEF UploadInv, UploadTypes, Delivery, SameRecord, AttemptsInv, SharingInv, ShownInv, Sharing, AllShared, AllUploaded, U!Shown, U!Texts, U!PostRest, U!PostOnce
  <2> QED
    BY <2>1, <2>2, <2>3, <2>4, <2>5 DEF UploadInv
<1>11. ASSUME U!RecordRest PROVE UploadInv'
  <2>1. UploadTypes'
    BY <1>11, AttachmentsAssumption DEF UploadInv, UploadTypes, Delivery, U!RecordRest
  <2>2. SameRecord'
    BY <1>11, AttachmentsAssumption DEF UploadInv, SameRecord, UploadTypes, Delivery, U!RecordRest
  <2>3. AttemptsInv'
    BY <1>11, AttachmentsAssumption DEF UploadInv, UploadTypes, Delivery, SameRecord, AttemptsInv, U!RecordRest
  <2>4. SharingInv'
    BY <1>11, AttachmentsAssumption DEF UploadInv, UploadTypes, Delivery, SameRecord, AttemptsInv, SharingInv, Sharing, AllShared, AllUploaded, U!Shown, U!Texts, U!RecordRest
  <2>5. ShownInv'
    BY <1>11, AttachmentsAssumption DEF UploadInv, UploadTypes, Delivery, SameRecord, AttemptsInv, SharingInv, ShownInv, Sharing, AllShared, AllUploaded, U!Shown, U!Texts, U!RecordRest
  <2> QED
    BY <2>1, <2>2, <2>3, <2>4, <2>5 DEF UploadInv
<1>12. ASSUME U!Finish PROVE UploadInv'
  <2>1. UploadTypes'
    BY <1>12, AttachmentsAssumption DEF UploadInv, UploadTypes, Delivery, U!Finish, U!Return, U!Settle, U!Write
  <2>2. SameRecord'
    BY <1>12, AttachmentsAssumption DEF UploadInv, SameRecord, UploadTypes, Delivery, U!Finish, U!Return, U!Settle, U!Write
  <2>3. AttemptsInv'
    BY <1>12, AttachmentsAssumption DEF UploadInv, UploadTypes, Delivery, SameRecord, AttemptsInv, U!Finish, U!Return, U!Settle, U!Write
  <2>4. SharingInv'
    BY <1>12, AttachmentsAssumption DEF UploadInv, UploadTypes, Delivery, SameRecord, AttemptsInv, SharingInv, Sharing, AllShared, AllUploaded, U!Shown, U!Texts, U!Finish, U!Return, U!Settle, U!Write
  <2>5. ShownInv'
    BY <1>12, AttachmentsAssumption DEF UploadInv, UploadTypes, Delivery, SameRecord, AttemptsInv, SharingInv, ShownInv, Sharing, AllShared, AllUploaded, U!Shown, U!Texts, U!Finish, U!Return, U!Settle, U!Write
  <2> QED
    BY <2>1, <2>2, <2>3, <2>4, <2>5 DEF UploadInv
<1>13. ASSUME NEW n \in U!Notes, U!PostNote(n) PROVE UploadInv'
  <2>1. UploadTypes'
    BY <1>13, AttachmentsAssumption DEF UploadInv, UploadTypes, Delivery, U!PostNote, U!PostOnce, U!Notes, U!Posted
  <2>2. SameRecord'
    BY <1>13, AttachmentsAssumption DEF UploadInv, SameRecord, UploadTypes, Delivery, U!PostNote, U!PostOnce, U!Notes, U!Posted
  <2>3. AttemptsInv'
    BY <1>13, AttachmentsAssumption DEF UploadInv, UploadTypes, Delivery, SameRecord, AttemptsInv, U!PostNote, U!PostOnce, U!Notes, U!Posted
  <2>4. SharingInv'
    BY <1>13, AttachmentsAssumption DEF UploadInv, UploadTypes, Delivery, SameRecord, AttemptsInv, SharingInv, Sharing, AllShared, AllUploaded, U!Shown, U!Texts, U!PostNote, U!PostOnce, U!Notes, U!Posted
  <2>5. ShownInv'
    BY <1>13, AttachmentsAssumption DEF UploadInv, UploadTypes, Delivery, SameRecord, AttemptsInv, SharingInv, ShownInv, Sharing, AllShared, AllUploaded, U!Shown, U!Texts, U!PostNote, U!PostOnce, U!Notes, U!Posted
  <2> QED
    BY <2>1, <2>2, <2>3, <2>4, <2>5 DEF UploadInv
<1>14. ASSUME NEW n \in U!Notes, U!RecordNote(n) PROVE UploadInv'
  <2>1. UploadTypes'
    BY <1>14, AttachmentsAssumption DEF UploadInv, UploadTypes, Delivery, U!RecordNote, U!Return, U!Settle, U!Write, U!Notes, U!Posted
  <2>2. SameRecord'
    BY <1>14, AttachmentsAssumption DEF UploadInv, SameRecord, UploadTypes, Delivery, U!RecordNote, U!Return, U!Settle, U!Write, U!Notes, U!Posted
  <2>3. AttemptsInv'
    BY <1>14, AttachmentsAssumption DEF UploadInv, UploadTypes, Delivery, SameRecord, AttemptsInv, U!RecordNote, U!Return, U!Settle, U!Write, U!Notes, U!Posted
  <2>4. SharingInv'
    BY <1>14, AttachmentsAssumption DEF UploadInv, UploadTypes, Delivery, SameRecord, AttemptsInv, SharingInv, Sharing, AllShared, AllUploaded, U!Shown, U!Texts, U!RecordNote, U!Return, U!Settle, U!Write, U!Notes, U!Posted
  <2>5. ShownInv'
    BY <1>14, AttachmentsAssumption DEF UploadInv, UploadTypes, Delivery, SameRecord, AttemptsInv, SharingInv, ShownInv, Sharing, AllShared, AllUploaded, U!Shown, U!Texts, U!RecordNote, U!Return, U!Settle, U!Write, U!Notes, U!Posted
  <2> QED
    BY <2>1, <2>2, <2>3, <2>4, <2>5 DEF UploadInv
<1>15. ASSUME U!RequestFails PROVE UploadInv'
  <2>1. UploadTypes'
    BY <1>15, AttachmentsAssumption DEF UploadInv, UploadTypes, Delivery, U!RequestFails, U!Handler, U!Raise, U!Go, U!Settle, U!Share, U!PostOnce, U!Notes, U!Posted, U!TryAgain
  <2>2. SameRecord'
    BY <1>15, AttachmentsAssumption DEF UploadInv, SameRecord, UploadTypes, Delivery, U!RequestFails, U!Handler, U!Raise, U!Go, U!Settle, U!Share, U!PostOnce, U!Notes, U!Posted, U!TryAgain
  <2>3. AttemptsInv'
    BY <1>15, AttachmentsAssumption DEF UploadInv, UploadTypes, Delivery, SameRecord, AttemptsInv, U!RequestFails, U!Handler, U!Raise, U!Go, U!Settle, U!Share, U!PostOnce, U!Notes, U!Posted, U!TryAgain
  <2>4. SharingInv'
    BY <1>15, AttachmentsAssumption DEF UploadInv, UploadTypes, Delivery, SameRecord, AttemptsInv, SharingInv, Sharing, AllShared, AllUploaded, U!Shown, U!Texts, U!RequestFails, U!Handler, U!Raise, U!Go, U!Settle, U!Share, U!PostOnce, U!Notes, U!Posted, U!TryAgain
  <2>5. ShownInv'
    BY <1>15, AttachmentsAssumption DEF UploadInv, UploadTypes, Delivery, SameRecord, AttemptsInv, SharingInv, ShownInv, Sharing, AllShared, AllUploaded, U!Shown, U!Texts, U!RequestFails, U!Handler, U!Raise, U!Go, U!Settle, U!Share, U!PostOnce, U!Notes, U!Posted, U!TryAgain
  <2> QED
    BY <2>1, <2>2, <2>3, <2>4, <2>5 DEF UploadInv
<1>16. ASSUME U!Crash PROVE UploadInv'
  <2>1. UploadTypes'
    BY <1>16, AttachmentsAssumption DEF UploadInv, UploadTypes, Delivery, U!Crash
  <2>2. SameRecord'
    BY <1>16, AttachmentsAssumption DEF UploadInv, SameRecord, UploadTypes, Delivery, U!Crash
  <2>3. AttemptsInv'
    BY <1>16, AttachmentsAssumption DEF UploadInv, UploadTypes, Delivery, SameRecord, AttemptsInv, U!Crash
  <2>4. SharingInv'
    BY <1>16, AttachmentsAssumption DEF UploadInv, UploadTypes, Delivery, SameRecord, AttemptsInv, SharingInv, Sharing, AllShared, AllUploaded, U!Shown, U!Texts, U!Crash
  <2>5. ShownInv'
    BY <1>16, AttachmentsAssumption DEF UploadInv, UploadTypes, Delivery, SameRecord, AttemptsInv, SharingInv, ShownInv, Sharing, AllShared, AllUploaded, U!Shown, U!Texts, U!Crash
  <2> QED
    BY <2>1, <2>2, <2>3, <2>4, <2>5 DEF UploadInv
<1> QED
  BY <1>1, <1>2, <1>3, <1>4, <1>5, <1>6, <1>7, <1>8, <1>9, <1>10, <1>11, <1>12, <1>13, <1>14, <1>15, <1>16 DEF U!Next

LEMMA UploadIsSound == UploadInv => U!TypeOK /\ U!FilesSharedOnce /\ U!DeliveredIsShown
<1> SUFFICES ASSUME UploadInv PROVE U!TypeOK /\ U!FilesSharedOnce /\ U!DeliveredIsShown
  OBVIOUS
<1>1. U!TypeOK
  <2>1. uMem.attempts \in 0..MaxAttempts + UploadFaults + 1
    BY AttachmentsAssumption DEF UploadInv, UploadTypes, Delivery, AttemptsInv
  <2>2. uDisk.attempts \in 0..MaxAttempts + UploadFaults + 1
    BY <2>1 DEF UploadInv, SameRecord
  <2> QED
    BY <2>1, <2>2 DEF UploadInv, UploadTypes, Delivery, U!TypeOK
<1>2. U!FilesSharedOnce
  BY DEF UploadInv, SharingInv, U!FilesSharedOnce
<1>3. U!DeliveredIsShown
  BY DEF UploadInv, ShownInv, AllShared, U!DeliveredIsShown
<1> QED
  BY <1>1, <1>2, <1>3

-----------------------------------------------------------------------------
(* The files that runs name.  Each of them is in one place of the thread's *)
(* record from the run that names it to the reply, whatever is done to the *)
(* store meanwhile.                                                        *)

Steps == {"idle", "run", "candidate", "plan", "send", "open", "write", "replace", "unlink"}
Handling == [step : Steps, runs : 0..MaxReplyRuns, todo : SUBSET Attachments,
             got : SUBSET Attachments, file : Attachments \cup {0},
             into : {"none", "temp", "stored", "gone"}, files : SUBSET Attachments,
             refused : SUBSET Attachments, asked : SUBSET Attachments]
Contained == [Attachments -> {"absent", "partial", "whole"}]
MaxSent == [main |-> 2, worker |-> 1]

OutboundTypes ==
    /\ bStored \in Contained /\ bTemp \in Contained
    /\ bThread \in [B!Threads -> Handling]
    /\ bSent \in [B!Threads -> Nat] /\ bPlanned \in [B!Threads -> 0..MaxReplyRuns]
    /\ bReceipt \in [B!Threads -> [status : {"none", "completed"}, files : SUBSET Attachments]]
    /\ bNamed \in [B!Threads -> SUBSET Attachments]

\* A thread t handles a reply whose runs named these files.
Accounted(t, names) ==
    /\ t.step \in {"run", "plan"} => t.todo = {} /\ t.got = {} /\ t.file = 0
    /\ t.step = "candidate" => t.file = 0
    /\ t.step \in {"open", "write", "replace", "unlink"} => t.file \in Attachments
    /\ t.step \notin {"idle", "send"} =>
         /\ t.asked \subseteq names
         /\ t.asked = t.files \cup t.got \cup t.todo \cup t.refused \cup ({t.file} \ {0})

OutboundInv ==
    /\ OutboundTypes
    /\ \A p \in B!Threads :
         /\ Accounted(bThread[p], bNamed[p])
         /\ bReceipt[p].files \subseteq bNamed[p]
         /\ bSent[p] <= MaxSent[p]
         /\ bThread[p].step # "idle" \/ bReceipt[p].status = "completed" => bSent[p] < MaxSent[p]

LEMMA OutboundBegins == B!Init => OutboundInv
<1> SUFFICES ASSUME B!Init PROVE OutboundInv
  OBVIOUS
<1>1. B!At("idle") \in Handling /\ B!At("idle").step = "idle"
  BY AttachmentsAssumption DEF B!At, B!None, Handling, Steps
<1>2. B!NoReply = [status |-> "none", files |-> {}]
  BY DEF B!NoReply
<1>3. OutboundTypes
  BY <1>1, <1>2, AttachmentsAssumption DEF B!Init, OutboundTypes, Contained
<1>4. ASSUME NEW p \in B!Threads
      PROVE  /\ Accounted(bThread[p], bNamed[p]) /\ bReceipt[p].files \subseteq bNamed[p]
             /\ bSent[p] <= MaxSent[p] /\ bSent[p] < MaxSent[p]
  BY <1>1, <1>2 DEF B!Init, Accounted, MaxSent, B!Threads
<1> QED
  BY <1>3, <1>4 DEF OutboundInv

\* A step of thread p that leaves the reply alone; of the other's record it changes at most
\* where its open file is.
LEMMA ThreadSteps ==
  ASSUME OutboundInv, NEW p \in B!Threads, NEW new \in Handling,
         Accounted(new, bNamed[p]), new.step # "idle" => bSent[p] < MaxSent[p],
         bThread' \in [B!Threads -> Handling], bThread'[p] = new,
         \A q \in B!Threads \ {p} :
            \E i \in {"none", "temp", "stored", "gone"} :
               bThread'[q] = [bThread[q] EXCEPT !.into = i],
         bStored' \in Contained, bTemp' \in Contained,
         UNCHANGED <<bSent, bReceipt, bNamed>>,
         bPlanned' \in [B!Threads -> 0..MaxReplyRuns]
  PROVE  OutboundInv'
<1>1. OutboundTypes'
  BY DEF OutboundInv, OutboundTypes
<1>2. ASSUME NEW q \in B!Threads, q # p
      PROVE  Accounted(bThread'[q], bNamed[q]) /\ bThread'[q].step = bThread[q].step
  <2>1. PICK i \in {"none", "temp", "stored", "gone"} : bThread'[q] = [bThread[q] EXCEPT !.into = i]
    BY <1>2
  <2>2. bThread[q] \in Handling
    BY DEF OutboundInv, OutboundTypes
  <2> DEFINE t == [bThread[q] EXCEPT !.into = i]
  <2>3. /\ t.step = bThread[q].step /\ t.todo = bThread[q].todo /\ t.got = bThread[q].got
        /\ t.file = bThread[q].file /\ t.files = bThread[q].files
        /\ t.refused = bThread[q].refused /\ t.asked = bThread[q].asked
    BY <2>2 DEF Handling
  <2> HIDE DEF t
  <2>4. Accounted(t, bNamed[q])
    BY <2>3 DEF OutboundInv, Accounted
  <2> QED
    BY <2>1, <2>3, <2>4 DEF t
<1>3. ASSUME NEW q \in B!Threads
      PROVE  /\ Accounted(bThread'[q], bNamed[q])
             /\ bThread'[q].step # "idle" \/ bReceipt[q].status = "completed" => bSent[q] < MaxSent[q]
  BY <1>2, <1>3 DEF OutboundInv
<1> QED
  BY <1>1, <1>3 DEF OutboundInv

\* The steps of a thread that change its record only.
LEMMA ThreadHandles ==
  ASSUME OutboundInv, NEW p \in B!Threads, NEW new \in Handling,
         Accounted(new, bNamed[p]), new.step # "idle" => bSent[p] < MaxSent[p],
         bThread' = [bThread EXCEPT ![p] = new],
         bStored' \in Contained, bTemp' \in Contained,
         UNCHANGED <<bSent, bReceipt, bNamed>>,
         bPlanned' \in [B!Threads -> 0..MaxReplyRuns]
  PROVE  OutboundInv'
<1>1. bThread \in [B!Threads -> Handling]
  BY DEF OutboundInv, OutboundTypes
<1>2. bThread' \in [B!Threads -> Handling] /\ bThread'[p] = new
  BY <1>1
<1>3. ASSUME NEW q \in B!Threads \ {p}
      PROVE  \E i \in {"none", "temp", "stored", "gone"} : bThread'[q] = [bThread[q] EXCEPT !.into = i]
  <2>1. bThread[q] \in Handling /\ bThread'[q] = bThread[q]
    BY <1>1
  <2>2. bThread[q].into \in {"none", "temp", "stored", "gone"}
    BY <2>1 DEF Handling
  <2>3. [bThread[q] EXCEPT !.into = bThread[q].into] = bThread[q]
    BY <2>1 DEF Handling
  <2> QED
    BY <2>1, <2>2, <2>3
<1> QED
  BY <1>2, <1>3, ThreadSteps

LEMMA ReplyKeeps ==
  ASSUME OutboundInv, NEW p \in B!Threads,
         \/ B!Begin(p) \/ B!Replayed(p) \/ B!Capture(p) \/ B!Plan(p)
         \/ B!Look(p) \/ B!Refuse(p) \/ B!OpenTemp(p) \/ B!Write(p)
  PROVE  OutboundInv'
<1> DEFINE t == bThread[p]
<1>1. /\ t \in Handling /\ Accounted(t, bNamed[p]) /\ bNamed[p] \subseteq Attachments
      /\ t.step # "idle" => bSent[p] < MaxSent[p]
      /\ bStored \in Contained /\ bTemp \in Contained
      /\ bPlanned \in [B!Threads -> 0..MaxReplyRuns]
      /\ bThread \in [B!Threads -> Handling]
  BY DEF OutboundInv, OutboundTypes
<1>2. CASE B!Begin(p)
  <2>1. /\ bThread' = [bThread EXCEPT ![p] = B!At("run")]
        /\ bSent[p] < MaxSent[p] /\ UNCHANGED <<bStored, bTemp, bSent, bPlanned, bReceipt, bNamed>>
    BY <1>2 DEF B!Begin, B!Reset, B!disk, B!chat, MaxSent
  <2>2. B!At("run") \in Handling /\ Accounted(B!At("run"), bNamed[p])
    BY AttachmentsAssumption DEF B!At, B!None, Handling, Steps, Accounted
  <2> QED
    BY <1>1, <2>1, <2>2, ThreadHandles
<1>3. CASE B!Replayed(p)
  <2> DEFINE new == [t EXCEPT !.runs = @ + 1]
  <2>1. /\ bThread' = [bThread EXCEPT ![p].runs = @ + 1] /\ t.step = "run" /\ t.runs < bPlanned[p]
        /\ UNCHANGED <<bStored, bTemp, bSent, bPlanned, bReceipt, bNamed>>
    BY <1>3 DEF B!Replayed, B!disk, B!chat
  <2>2. bThread' = [bThread EXCEPT ![p] = new]
    BY <2>1, Zenon
  <2>3. t.runs \in 0..MaxReplyRuns /\ bPlanned[p] \in 0..MaxReplyRuns
    BY <1>1 DEF Handling
  <2>4. t.runs + 1 \in 0..MaxReplyRuns
    BY <2>1, <2>3, AttachmentsAssumption
  <2>5. new \in Handling /\ Accounted(new, bNamed[p]) /\ new.step = "run"
    BY <1>1, <2>1, <2>4 DEF Handling, Accounted
  <2> HIDE DEF new
  <2> QED
    BY <1>1, <2>1, <2>2, <2>5, ThreadHandles
<1>4. CASE B!Capture(p)
  <2> DEFINE new == B!Merged(t)
  <2>1. /\ bThread' = [bThread EXCEPT ![p] = new] /\ t.step = "candidate" /\ t.todo = {}
        /\ UNCHANGED <<bStored, bTemp, bSent, bPlanned, bReceipt, bNamed>>
    BY <1>4 DEF B!Capture, B!disk, B!chat
  <2>2. new \in Handling /\ Accounted(new, bNamed[p]) /\ new.step = "plan"
    BY <1>1, <2>1 DEF B!Merged, Handling, Steps, Accounted
  <2> HIDE DEF new
  <2> QED
    BY <1>1, <2>1, <2>2, ThreadHandles
<1>5. CASE B!Plan(p)
  <2> DEFINE new == [t EXCEPT !.step = "run"]
  <2>1. /\ bThread' = [bThread EXCEPT ![p].step = "run"] /\ t.step = "plan"
        /\ bPlanned' = bPlanned \/ bPlanned' = [bPlanned EXCEPT ![p] = t.runs]
        /\ UNCHANGED <<bStored, bTemp, bSent, bReceipt, bNamed>>
    BY <1>5 DEF B!Plan, B!disk
  <2>2. bThread' = [bThread EXCEPT ![p] = new]
    BY <2>1, Zenon
  <2>3. bPlanned' \in [B!Threads -> 0..MaxReplyRuns]
    BY <1>1, <2>1 DEF Handling
  <2>4. new \in Handling /\ Accounted(new, bNamed[p]) /\ new.step = "run"
    BY <1>1, <2>1 DEF Handling, Steps, Accounted
  <2> HIDE DEF new
  <2> QED
    BY <1>1, <2>1, <2>2, <2>3, <2>4, ThreadHandles
\* The import of a file: it is refused, attached or on its way.
<1>6. ASSUME NEW f \in t.todo, t.step = "candidate"
      PROVE  LET gone == [t EXCEPT !.todo = @ \ {f}, !.file = f] IN
             \A new \in {B!OverLimit(t, f), B!Attached(gone), B!Refused(gone), [gone EXCEPT !.step = "open"]} :
                new \in Handling /\ Accounted(new, bNamed[p])
  <2> DEFINE gone == [t EXCEPT !.todo = @ \ {f}, !.file = f]
  <2>1. f \in Attachments /\ f # 0 /\ t.file = 0
    BY <1>1, <1>6, AttachmentsAssumption DEF Handling, Accounted
  <2>0. t.asked \subseteq bNamed[p] /\ t.asked = t.files \cup t.got \cup t.todo \cup t.refused
    BY <1>1, <1>6, <2>1 DEF Accounted
  <2>2. B!OverLimit(t, f) \in Handling /\ Accounted(B!OverLimit(t, f), bNamed[p])
    <3> DEFINE new == B!OverLimit(t, f)
    <3>1. /\ new.step = "candidate" /\ new.todo = t.todo \ {f} /\ new.file = 0 /\ new.got = t.got
          /\ new.files = t.files /\ new.refused = t.refused \cup {f} /\ new.asked = t.asked
      BY <1>1, <1>6, <2>1 DEF B!OverLimit, Handling
    <3>2. new \in Handling
      BY <1>1, <1>6, <2>1 DEF B!OverLimit, Handling
    <3>3. t.asked = t.files \cup t.got \cup (t.todo \ {f}) \cup (t.refused \cup {f}) \cup ({0} \ {0})
      BY <1>6, <2>0
    <3> HIDE DEF new
    <3>4. Accounted(new, bNamed[p])
      BY <2>0, <3>1, <3>3 DEF Accounted
    <3> QED
      BY <3>2, <3>4 DEF new
  <2>3. /\ gone \in Handling /\ gone.step = "candidate" /\ gone.todo = t.todo \ {f} /\ gone.file = f
        /\ gone.got = t.got /\ gone.files = t.files /\ gone.refused = t.refused /\ gone.asked = t.asked
    BY <1>1, <1>6, <2>1 DEF Handling
  <2> HIDE DEF gone
  <2>5. B!Attached(gone) \in Handling /\ Accounted(B!Attached(gone), bNamed[p])
    <3> DEFINE new == B!Attached(gone)
    <3>1. /\ new.step = "candidate" /\ new.todo = gone.todo /\ new.file = 0 /\ new.files = gone.files
          /\ new.got = gone.got \cup {f} /\ new.refused = gone.refused /\ new.asked = gone.asked
      BY <2>1, <2>3 DEF B!Attached, B!None, Handling
    <3>2. new \in Handling
      BY <2>1, <2>3 DEF B!Attached, B!None, Handling, Steps
    <3>3. gone.asked = gone.files \cup (gone.got \cup {f}) \cup gone.todo \cup gone.refused \cup ({0} \ {0})
      BY <1>6, <2>0, <2>3
    <3> HIDE DEF new
    <3>4. Accounted(new, bNamed[p])
      BY <2>0, <2>3, <3>1, <3>3 DEF Accounted
    <3> QED
      BY <3>2, <3>4 DEF new
  <2>6. B!Refused(gone) \in Handling /\ Accounted(B!Refused(gone), bNamed[p])
    <3> DEFINE new == B!Refused(gone)
    <3>1. /\ new.step = "candidate" /\ new.todo = gone.todo /\ new.file = 0 /\ new.files = gone.files
          /\ new.refused = gone.refused \cup {f} /\ new.got = gone.got /\ new.asked = gone.asked
      BY <2>1, <2>3 DEF B!Refused, B!None, Handling
    <3>2. new \in Handling
      BY <2>1, <2>3 DEF B!Refused, B!None, Handling, Steps
    <3>3. gone.asked = gone.files \cup gone.got \cup gone.todo \cup (gone.refused \cup {f}) \cup ({0} \ {0})
      BY <1>6, <2>0, <2>3
    <3> HIDE DEF new
    <3>4. Accounted(new, bNamed[p])
      BY <2>0, <2>3, <3>1, <3>3 DEF Accounted
    <3> QED
      BY <3>2, <3>4 DEF new
  <2>7. [gone EXCEPT !.step = "open"] \in Handling /\ Accounted([gone EXCEPT !.step = "open"], bNamed[p])
    BY <1>6, <2>1, <2>3, <2>0 DEF Handling, Steps, Accounted
  <2> QED
    BY <2>2, <2>5, <2>6, <2>7 DEF gone
<1>7. CASE B!Look(p)
  <2>1. /\ t.step = "candidate" /\ UNCHANGED <<bStored, bTemp, bSent, bPlanned, bReceipt, bNamed>>
    BY <1>7 DEF B!Look, B!disk, B!chat
  <2>2. PICK f \in t.todo :
          LET gone == [t EXCEPT !.todo = @ \ {f}, !.file = f] IN
          \E new \in {B!OverLimit(t, f), B!Attached(gone), [gone EXCEPT !.step = "open"]} :
             bThread' = [bThread EXCEPT ![p] = new]
    BY <1>7 DEF B!Look
  <2> QED
    BY <1>1, <1>6, <2>1, <2>2, ThreadHandles
<1>8. CASE B!Refuse(p)
  <2>1. /\ t.step = "candidate" /\ UNCHANGED <<bStored, bTemp, bSent, bPlanned, bReceipt, bNamed>>
    BY <1>8 DEF B!Refuse, B!disk, B!chat
  <2>2. PICK f \in t.todo :
          bThread' = [bThread EXCEPT ![p] = B!Refused([t EXCEPT !.todo = @ \ {f}, !.file = f])]
    BY <1>8 DEF B!Refuse
  <2> QED
    BY <1>1, <1>6, <2>1, <2>2, ThreadHandles
<1>9. CASE B!OpenTemp(p)
  <2> DEFINE new == [t EXCEPT !.step = "write", !.into = "temp"]
  <2>1. /\ bThread' = [bThread EXCEPT ![p].step = "write", ![p].into = "temp"] /\ t.step = "open"
        /\ bTemp' = [bTemp EXCEPT ![t.file] = "partial"]
        /\ UNCHANGED <<bStored, bSent, bPlanned, bReceipt, bNamed>>
    BY <1>9 DEF B!OpenTemp, B!chat
  <2>2. bThread' = [bThread EXCEPT ![p] = new]
    BY <1>1, <2>1
  <2>3. bTemp' \in Contained
    BY <1>1, <2>1 DEF Contained
  <2>4. new \in Handling /\ Accounted(new, bNamed[p]) /\ new.step = "write"
    BY <1>1, <2>1 DEF Handling, Steps, Accounted
  <2> HIDE DEF new
  <2> QED
    BY <1>1, <2>1, <2>2, <2>3, <2>4, ThreadHandles
<1>10. CASE B!Write(p)
  <2> DEFINE new == [t EXCEPT !.step = "replace"]
  <2>1. /\ bThread' = [bThread EXCEPT ![p].step = "replace"] /\ t.step = "write"
        /\ bTemp' = bTemp \/ bTemp' = [bTemp EXCEPT ![t.file] = "whole"]
        /\ bStored' = bStored \/ bStored' = [bStored EXCEPT ![t.file] = "whole"]
        /\ UNCHANGED <<bSent, bPlanned, bReceipt, bNamed>>
    BY <1>10 DEF B!Write, B!chat
  <2>2. bThread' = [bThread EXCEPT ![p] = new]
    BY <2>1, Zenon
  <2>3. bTemp' \in Contained /\ bStored' \in Contained
    BY <1>1, <2>1 DEF Contained
  <2>4. new \in Handling /\ Accounted(new, bNamed[p]) /\ new.step = "replace"
    BY <1>1, <2>1 DEF Handling, Steps, Accounted
  <2> HIDE DEF new
  <2> QED
    BY <1>1, <2>1, <2>2, <2>3, <2>4, ThreadHandles
<1> QED
  BY <1>2, <1>3, <1>4, <1>5, <1>7, <1>8, <1>9, <1>10

\* The temporary file of a content goes to its place, or is removed, under the other
\* thread's hands.
LEMMA StoreMoves ==
  ASSUME OutboundInv, NEW p \in B!Threads, B!Replace(p) \/ B!Unlink(p)
  PROVE  OutboundInv'
<1> DEFINE t == bThread[p]
<1>1. /\ t \in Handling /\ Accounted(t, bNamed[p]) /\ bNamed[p] \subseteq Attachments
      /\ t.step # "idle" => bSent[p] < MaxSent[p]
      /\ bStored \in Contained /\ bTemp \in Contained
      /\ bPlanned \in [B!Threads -> 0..MaxReplyRuns]
      /\ bThread \in [B!Threads -> Handling]
  BY DEF OutboundInv, OutboundTypes
<1>2. /\ t.step \in {"replace", "unlink"} /\ t.file \in Attachments /\ t.file # 0
      /\ UNCHANGED <<bSent, bPlanned, bReceipt, bNamed>>
  BY <1>1, AttachmentsAssumption DEF B!Replace, B!Unlink, B!chat, Accounted
<1>3. \A new \in {B!Refused(t), B!Attached(t), [t EXCEPT !.step = "unlink"]} :
         new \in Handling /\ Accounted(new, bNamed[p])
  <2>1. B!Refused(t) \in Handling /\ Accounted(B!Refused(t), bNamed[p])
    <3> DEFINE new == B!Refused(t)
    <3>1. /\ new.step = "candidate" /\ new.todo = t.todo /\ new.file = 0 /\ new.files = t.files
          /\ new.got = t.got /\ new.refused = t.refused \cup {t.file} /\ new.asked = t.asked
      BY <1>1, <1>2 DEF B!Refused, B!None, Handling
    <3>2. new \in Handling
      BY <1>1, <1>2 DEF B!Refused, B!None, Handling, Steps
    <3>3. /\ t.asked \subseteq bNamed[p]
          /\ t.asked = t.files \cup t.got \cup t.todo \cup (t.refused \cup {t.file}) \cup ({0} \ {0})
      BY <1>1, <1>2 DEF Accounted
    <3> HIDE DEF new
    <3>4. Accounted(new, bNamed[p])
      BY <3>1, <3>3 DEF Accounted
    <3> QED
      BY <3>2, <3>4 DEF new
  <2>2. B!Attached(t) \in Handling /\ Accounted(B!Attached(t), bNamed[p])
    <3> DEFINE new == B!Attached(t)
    <3>1. /\ new.step = "candidate" /\ new.todo = t.todo /\ new.file = 0 /\ new.files = t.files
          /\ new.got = t.got \cup {t.file} /\ new.refused = t.refused /\ new.asked = t.asked
      BY <1>1, <1>2 DEF B!Attached, B!None, Handling
    <3>2. new \in Handling
      BY <1>1, <1>2 DEF B!Attached, B!None, Handling, Steps
    <3>3. /\ t.asked \subseteq bNamed[p]
          /\ t.asked = t.files \cup (t.got \cup {t.file}) \cup t.todo \cup t.refused \cup ({0} \ {0})
      BY <1>1, <1>2 DEF Accounted
    <3> HIDE DEF new
    <3>4. Accounted(new, bNamed[p])
      BY <3>1, <3>3 DEF Accounted
    <3> QED
      BY <3>2, <3>4 DEF new
  <2>3. [t EXCEPT !.step = "unlink"] \in Handling /\ Accounted([t EXCEPT !.step = "unlink"], bNamed[p])
    BY <1>1, <1>2 DEF Handling, Steps, Accounted
  <2> QED
    BY <2>1, <2>2, <2>3
<1>4. ASSUME NEW to \in {"stored", "gone"}, NEW new \in Handling
      PROVE  LET moved == [B!Moved(p, to) EXCEPT ![p] = new] IN
             /\ moved \in [B!Threads -> Handling] /\ moved[p] = new
             /\ \A q \in B!Threads \ {p} :
                   \E i \in {"none", "temp", "stored", "gone"} : moved[q] = [bThread[q] EXCEPT !.into = i]
  <2> DEFINE moved == [B!Moved(p, to) EXCEPT ![p] = new]
  <2>1. ASSUME NEW q \in B!Threads
        PROVE  /\ [bThread[q] EXCEPT !.into = to] \in Handling
               /\ [bThread[q] EXCEPT !.into = bThread[q].into] = bThread[q]
               /\ bThread[q].into \in {"none", "temp", "stored", "gone"} /\ bThread[q] \in Handling
    <3>1. bThread[q] \in Handling
      BY <1>1
    <3> QED
      BY <3>1 DEF Handling
  <2>2. /\ moved = [q \in B!Threads |-> IF q = p THEN new ELSE B!Moved(p, to)[q]]
        /\ \A q \in B!Threads : \/ B!Moved(p, to)[q] = bThread[q]
                                \/ B!Moved(p, to)[q] = [bThread[q] EXCEPT !.into = to]
    BY DEF B!Moved
  <2> HIDE DEF moved
  <2> QED
    BY <2>1, <2>2 DEF moved
<1>5. CASE B!Replace(p)
  <2>1. CASE bTemp[t.file] = "absent"
    <3>1. bThread' = [bThread EXCEPT ![p] = B!Refused(t)] /\ UNCHANGED <<bStored, bTemp>>
      BY <1>5, <2>1 DEF B!Replace, B!disk
    <3> QED
      BY <1>1, <1>2, <1>3, <3>1, ThreadHandles
  <2>2. CASE bTemp[t.file] # "absent"
    <3> DEFINE new == [t EXCEPT !.step = "unlink"]
    <3>1. /\ bThread' = [B!Moved(p, "stored") EXCEPT ![p].step = "unlink"]
          /\ bStored' = [bStored EXCEPT ![t.file] = bTemp[t.file]]
          /\ bTemp' = [bTemp EXCEPT ![t.file] = "absent"]
      BY <1>5, <2>2 DEF B!Replace
    <3>2. bStored' \in Contained /\ bTemp' \in Contained
      BY <1>1, <1>2, <3>1 DEF Contained
    <3>3. B!Moved(p, "stored")[p] = t
      BY DEF B!Moved
    <3>4. bThread' = [B!Moved(p, "stored") EXCEPT ![p] = new]
      BY <3>1, <3>3, Zenon
    <3>5. new \in Handling /\ Accounted(new, bNamed[p])
      BY <1>3
    <3> HIDE DEF new
    <3> QED
      BY <1>1, <1>2, <1>4, <3>2, <3>4, <3>5, ThreadSteps, ZenonT(60)
  <2> QED
    BY <2>1, <2>2
<1>6. CASE B!Unlink(p)
  <2>1. /\ bThread' = [B!Moved(p, "gone") EXCEPT ![p] = B!Attached(@)]
        /\ bTemp' = [bTemp EXCEPT ![t.file] = "absent"] /\ bStored' = bStored
    BY <1>6 DEF B!Unlink
  <2>2. bTemp' \in Contained
    BY <1>1, <1>2, <2>1 DEF Contained
  <2>3. B!Moved(p, "gone")[p] = t
    BY DEF B!Moved
  <2>4. bThread' = [B!Moved(p, "gone") EXCEPT ![p] = B!Attached(t)]
    BY <2>1, <2>3, Zenon
  <2>5. B!Attached(t) \in Handling /\ Accounted(B!Attached(t), bNamed[p])
    BY <1>3
  <2>6. /\ bThread' \in [B!Threads -> Handling] /\ bThread'[p] = B!Attached(t)
        /\ \A q \in B!Threads \ {p} :
              \E i \in {"none", "temp", "stored", "gone"} : bThread'[q] = [bThread[q] EXCEPT !.into = i]
    BY <1>4, <2>4, <2>5
  <2>7. B!Attached(t).step # "idle" => bSent[p] < MaxSent[p]
    BY <1>1, <1>2
  <2> DEFINE new == B!Attached(t)
  <2>8. /\ new \in Handling /\ Accounted(new, bNamed[p]) /\ bThread'[p] = new
        /\ new.step # "idle" => bSent[p] < MaxSent[p]
    BY <2>5, <2>6, <2>7
  <2> HIDE DEF new
  <2> QED
    BY <1>1, <1>2, <2>1, <2>2, <2>6, <2>8, ThreadSteps
<1> QED
  BY <1>5, <1>6

\* The steps of a reply that change what is recorded of it.
LEMMA ReplySteps ==
  ASSUME OutboundInv, NEW p \in B!Threads,
         B!Run(p) \/ B!Complete(p) \/ B!Send(p) \/ B!NotSent(p)
  PROVE  OutboundInv'
<1> DEFINE t == bThread[p]
<1>1. /\ t \in Handling /\ Accounted(t, bNamed[p]) /\ bNamed[p] \subseteq Attachments
      /\ t.step # "idle" => bSent[p] < MaxSent[p]
      /\ bNamed \in [B!Threads -> SUBSET Attachments] /\ bSent \in [B!Threads -> Nat]
      /\ bReceipt \in [B!Threads -> [status : {"none", "completed"}, files : SUBSET Attachments]]
      /\ bThread \in [B!Threads -> Handling] /\ bPlanned \in [B!Threads -> 0..MaxReplyRuns]
      /\ bStored \in Contained /\ bTemp \in Contained
      /\ p \in B!Threads
  BY DEF OutboundInv, OutboundTypes
<1>2. UNCHANGED <<bStored, bTemp>>
  BY DEF B!Run, B!Complete, B!Send, B!NotSent, B!disk
\* Of the other thread nothing changes.
<1>3. ASSUME NEW new \in Handling, NEW names \in SUBSET Attachments, NEW sent \in Nat,
             NEW reply \in [status : {"none", "completed"}, files : SUBSET Attachments],
             NEW planned \in 0..MaxReplyRuns,
             bThread' = [bThread EXCEPT ![p] = new], bNamed' = [bNamed EXCEPT ![p] = names],
             bSent' = [bSent EXCEPT ![p] = sent], bReceipt' = [bReceipt EXCEPT ![p] = reply],
             bPlanned' = [bPlanned EXCEPT ![p] = planned],
             Accounted(new, names), reply.files \subseteq names, sent <= MaxSent[p],
             new.step # "idle" \/ reply.status = "completed" => sent < MaxSent[p]
      PROVE  OutboundInv'
  <2>1. /\ bThread' \in [B!Threads -> Handling] /\ bThread'[p] = new
        /\ bNamed' \in [B!Threads -> SUBSET Attachments] /\ bNamed'[p] = names
        /\ bSent' \in [B!Threads -> Nat] /\ bSent'[p] = sent
        /\ bReceipt' \in [B!Threads -> [status : {"none", "completed"}, files : SUBSET Attachments]]
        /\ bReceipt'[p] = reply
        /\ bPlanned' \in [B!Threads -> 0..MaxReplyRuns]
        /\ \A q \in B!Threads \ {p} : /\ bThread'[q] = bThread[q] /\ bNamed'[q] = bNamed[q]
                                      /\ bSent'[q] = bSent[q] /\ bReceipt'[q] = bReceipt[q]
    BY <1>1, <1>3
  <2>2. OutboundTypes'
    BY <1>1, <1>2, <1>3, <2>1 DEF OutboundTypes
  <2>3. ASSUME NEW q \in B!Threads
        PROVE  /\ Accounted(bThread'[q], bNamed'[q])
               /\ bReceipt'[q].files \subseteq bNamed'[q]
               /\ bSent'[q] <= MaxSent[q]
               /\ bThread'[q].step # "idle" \/ bReceipt'[q].status = "completed" => bSent'[q] < MaxSent[q]
    <3>1. CASE q = p
      BY <1>3, <2>1, <3>1
    <3>2. CASE q # p
      BY <2>1, <3>2 DEF OutboundInv
    <3> QED
      BY <3>1, <3>2
  <2> QED
    BY <2>2, <2>3 DEF OutboundInv
<1>4. /\ bNamed = [bNamed EXCEPT ![p] = bNamed[p]] /\ bSent = [bSent EXCEPT ![p] = bSent[p]]
      /\ bReceipt = [bReceipt EXCEPT ![p] = bReceipt[p]] /\ bPlanned = [bPlanned EXCEPT ![p] = bPlanned[p]]
      /\ bSent[p] \in Nat /\ bReceipt[p] \in [status : {"none", "completed"}, files : SUBSET Attachments]
      /\ bPlanned[p] \in 0..MaxReplyRuns /\ MaxSent[p] \in Nat
  BY <1>1 DEF MaxSent, B!Threads
<1>5. /\ bReceipt[p].files \subseteq bNamed[p] /\ bSent[p] <= MaxSent[p]
      /\ bReceipt[p].status = "completed" => bSent[p] < MaxSent[p]
  BY DEF OutboundInv
<1>6. CASE B!Run(p)
  <2>1. PICK found \in SUBSET Attachments :
          /\ bThread' = [bThread EXCEPT ![p].step = "candidate", ![p].runs = @ + 1,
                                        ![p].todo = found, ![p].got = {},
                                        ![p].asked = @ \cup found]
          /\ bNamed' = [bNamed EXCEPT ![p] = @ \cup found]
    BY <1>6 DEF B!Run
  <2> DEFINE new == [t EXCEPT !.step = "candidate", !.runs = t.runs + 1, !.todo = found,
                              !.got = {}, !.asked = t.asked \cup found]
             names == bNamed[p] \cup found
  <2>2. t.step = "run" /\ t.runs < MaxReplyRuns /\ UNCHANGED <<bSent, bPlanned, bReceipt>>
    BY <1>6 DEF B!Run
  <2>3. bThread' = [bThread EXCEPT ![p] = new] /\ bNamed' = [bNamed EXCEPT ![p] = names]
    BY <1>1, <2>1
  <2>4. t.runs + 1 \in 0..MaxReplyRuns
    BY <1>1, <2>2, AttachmentsAssumption DEF Handling
  <2>5. new \in Handling /\ names \in SUBSET Attachments
    BY <1>1, <2>4 DEF Handling, Steps
  <2>6. /\ new.step = "candidate" /\ new.todo = found /\ new.got = {} /\ new.file = t.file
        /\ new.files = t.files /\ new.refused = t.refused /\ new.asked = t.asked \cup found
    BY <1>1 DEF Handling
  <2>7. /\ t.todo = {} /\ t.got = {} /\ t.file = 0 /\ t.asked \subseteq bNamed[p]
        /\ t.asked = t.files \cup t.refused
    BY <1>1, <2>2 DEF Accounted
  <2>8. t.asked \cup found = t.files \cup {} \cup found \cup t.refused \cup ({0} \ {0})
    BY <2>7
  <2> HIDE DEF new
  <2>9. Accounted(new, names) /\ bReceipt[p].files \subseteq names
    BY <1>5, <2>6, <2>7, <2>8 DEF Accounted
  <2> HIDE DEF names
  <2> QED
    BY <1>1, <1>3, <1>4, <1>5, <2>2, <2>3, <2>5, <2>9
<1>7. CASE B!Complete(p)
  <2> DEFINE new == [t EXCEPT !.step = "send"]
             reply == [status |-> "completed", files |-> t.files]
  <2>1. /\ bThread' = [bThread EXCEPT ![p].step = "send"] /\ t.step = "run"
        /\ bReceipt' = [bReceipt EXCEPT ![p] = reply]
        /\ UNCHANGED <<bSent, bPlanned, bNamed>>
    BY <1>7 DEF B!Complete
  <2>2. bThread' = [bThread EXCEPT ![p] = new]
    BY <2>1, Zenon
  <2>3. t.files \subseteq bNamed[p]
    BY <1>1, <2>1 DEF Accounted
  <2>4. new \in Handling /\ Accounted(new, bNamed[p]) /\ new.step = "send"
    BY <1>1 DEF Handling, Steps, Accounted
  <2>5. /\ reply \in [status : {"none", "completed"}, files : SUBSET Attachments]
        /\ reply.files \subseteq bNamed[p]
    BY <1>1, <2>3
  <2> HIDE DEF new, reply
  <2> QED
    BY <1>1, <1>3, <1>4, <1>5, <2>1, <2>2, <2>4, <2>5
<1>8. /\ B!NoReply \in [status : {"none", "completed"}, files : SUBSET Attachments]
      /\ B!NoReply.status = "none" /\ B!NoReply.files = {}
  BY DEF B!NoReply
<1>9. t.step = "send" => bSent[p] + 1 \in Nat /\ bSent[p] + 1 <= MaxSent[p]
  BY <1>1, <1>4
<1>10. ASSUME NEW new \in Handling, new.step = "idle", t.step = "send", B!Done(p),
              bThread' = [bThread EXCEPT ![p] = new]
       PROVE  OutboundInv'
  <2>1. /\ bSent' = [bSent EXCEPT ![p] = bSent[p] + 1] /\ bPlanned' = [bPlanned EXCEPT ![p] = 0]
        /\ bReceipt' = [bReceipt EXCEPT ![p] = B!NoReply] /\ bNamed' = [bNamed EXCEPT ![p] = {}]
    BY <1>10 DEF B!Done
  <2>2. Accounted(new, {}) /\ 0 \in 0..MaxReplyRuns
    BY <1>10, AttachmentsAssumption DEF Accounted
  <2> QED
    BY <1>3, <1>8, <1>9, <1>10, <2>1, <2>2
<1>11. CASE B!Send(p)
  <2> DEFINE new == [t EXCEPT !.step = "idle"]
  <2>1. bThread' = [bThread EXCEPT ![p].step = "idle"] /\ t.step = "send" /\ B!Done(p)
    BY <1>11 DEF B!Send
  <2>2. bThread' = [bThread EXCEPT ![p] = new]
    BY <2>1, Zenon
  <2>3. new \in Handling /\ new.step = "idle"
    BY <1>1 DEF Handling, Steps
  <2> HIDE DEF new
  <2> QED
    BY <1>10, <2>1, <2>2, <2>3
<1>12. CASE B!NotSent(p)
  <2>1. bThread' = [bThread EXCEPT ![p] = B!At("idle")] /\ t.step = "send"
    BY <1>1, <1>12 DEF B!NotSent
  <2>2. B!At("idle") \in Handling /\ B!At("idle").step = "idle" /\ Accounted(B!At("idle"), bNamed[p])
    BY AttachmentsAssumption DEF B!At, B!None, Handling, Steps, Accounted
  <2>3. CASE B!Done(p)
    BY <1>10, <2>1, <2>2, <2>3
  <2>4. CASE UNCHANGED <<bSent, bPlanned, bReceipt, bNamed>>
    BY <1>1, <1>3, <1>4, <1>5, <2>1, <2>2, <2>4
  <2> QED
    BY <1>12, <2>3, <2>4 DEF B!NotSent
<1> QED
  BY <1>6, <1>7, <1>11, <1>12

\* A message that is handled again, and the end of the process.
LEMMA OutboundKeeps ==
  ASSUME OutboundInv, B!Next
  PROVE  OutboundInv'
<1>1. \A p \in B!Threads : B!At("idle") \in Handling /\ Accounted(B!At("idle"), bNamed[p])
  BY AttachmentsAssumption DEF B!At, B!None, Handling, Steps, Accounted
<1>2. B!At("send") \in Handling /\ Accounted(B!At("send"), bNamed["main"])
  BY AttachmentsAssumption DEF B!At, B!None, Handling, Steps, Accounted
<1>3. "main" \in B!Threads /\ "worker" \in B!Threads /\ B!Threads = {"main", "worker"}
  BY DEF B!Threads
<1>4. /\ bStored \in Contained /\ bTemp \in Contained /\ bPlanned \in [B!Threads -> 0..MaxReplyRuns]
      /\ bThread \in [B!Threads -> Handling]
  BY DEF OutboundInv, OutboundTypes
<1>5. CASE B!Redeliver
  <2>1. /\ bThread' = [bThread EXCEPT !["main"] = B!At("send")]
        /\ UNCHANGED <<bStored, bTemp, bSent, bPlanned, bReceipt, bNamed>>
    BY <1>5 DEF B!Redeliver, B!disk, B!chat
  <2>2. bSent["main"] < MaxSent["main"]
    BY <1>3, <1>5 DEF B!Redeliver, OutboundInv
  <2> QED
    BY <1>2, <1>3, <1>4, <2>1, <2>2, ThreadHandles
<1>6. CASE B!Failed
  <2>1. /\ bThread' = [bThread EXCEPT !["main"] = B!At("idle")]
        /\ UNCHANGED <<bStored, bTemp, bSent, bPlanned, bReceipt, bNamed>>
    BY <1>6 DEF B!Failed, B!disk, B!chat
  <2>2. B!At("idle").step = "idle"
    BY DEF B!At
  <2> QED
    BY <1>1, <1>3, <1>4, <2>1, <2>2, ThreadHandles
<1>7. CASE B!Crash
  <2>1. /\ bTemp' = [f \in Attachments |-> "absent"] /\ bThread' = [p \in B!Threads |-> B!At("idle")]
        /\ UNCHANGED bStored
        /\ \/ UNCHANGED <<bSent, bPlanned, bReceipt, bNamed>>
           \/ bReceipt["worker"].status = "completed" /\ B!Done("worker")
    BY <1>7 DEF B!Crash
  <2>2. B!At("idle").step = "idle"
    BY DEF B!At
  <2>3. bThread' \in [B!Threads -> Handling] /\ bTemp' \in Contained
    BY <1>1, <2>1 DEF Contained
  <2>4. CASE UNCHANGED <<bSent, bPlanned, bReceipt, bNamed>>
    <3>1. OutboundTypes'
      BY <2>1, <2>3, <2>4 DEF OutboundInv, OutboundTypes
    <3> QED
      BY <1>1, <2>1, <2>2, <2>4, <3>1 DEF OutboundInv
  <2>5. CASE bReceipt["worker"].status = "completed" /\ B!Done("worker")
    <3>1. /\ bSent' = [bSent EXCEPT !["worker"] = bSent["worker"] + 1]
          /\ bPlanned' = [bPlanned EXCEPT !["worker"] = 0]
          /\ bReceipt' = [bReceipt EXCEPT !["worker"] = B!NoReply]
          /\ bNamed' = [bNamed EXCEPT !["worker"] = {}]
      BY <2>5 DEF B!Done
    <3>2. /\ B!NoReply \in [status : {"none", "completed"}, files : SUBSET Attachments]
          /\ B!NoReply.status = "none" /\ B!NoReply.files = {} /\ 0 \in 0..MaxReplyRuns
      BY AttachmentsAssumption DEF B!NoReply
    <3>3. OutboundTypes'
      BY <1>3, <2>1, <2>3, <3>1, <3>2 DEF OutboundInv, OutboundTypes
    <3>4. /\ bSent'["worker"] <= MaxSent["worker"] /\ bReceipt'["worker"].status = "none"
          /\ bReceipt'["worker"].files = {}
      <4>1. bSent["worker"] < MaxSent["worker"] /\ bSent["worker"] \in Nat /\ MaxSent["worker"] = 1
        BY <1>3, <2>5 DEF OutboundInv, OutboundTypes, MaxSent
      <4> QED
        BY <1>3, <3>1, <3>2, <4>1 DEF OutboundInv, OutboundTypes
    <3>5. /\ bSent'["main"] = bSent["main"] /\ bReceipt'["main"] = bReceipt["main"]
          /\ bNamed'["main"] = bNamed["main"]
      BY <1>3, <3>1 DEF OutboundInv, OutboundTypes
    <3>6. \A names : \A p \in B!Threads : Accounted(bThread'[p], names) /\ bThread'[p].step = "idle"
      BY <2>1, <2>2 DEF Accounted
    <3> QED
      BY <1>3, <3>3, <3>4, <3>5, <3>6 DEF OutboundInv
  <2> QED
    BY <2>1, <2>4, <2>5
<1> QED
  BY <1>5, <1>6, <1>7, ReplyKeeps, StoreMoves, ReplySteps DEF B!Next

\* Every file that was attached to a reply, or is about to be, has its artifact: nothing
\* removes one from the store.
Stored(t, store) ==
    /\ \A f \in t.got \cup t.files : store[f] # "absent"
    /\ t.step = "unlink" => store[t.file] # "absent"

ArtifactsInv ==
    \A p \in B!Threads : /\ Stored(bThread[p], bStored)
                         /\ \A f \in bReceipt[p].files : bStored[f] # "absent"

LEMMA ArtifactsBegin == B!Init => ArtifactsInv
  BY DEF B!Init, B!At, B!NoReply, ArtifactsInv, Stored

\* A step of thread p leaves the files of the other thread's reply as they are.
LEMMA ArtifactsStep ==
  ASSUME OutboundInv, ArtifactsInv, NEW p \in B!Threads,
         \A f \in Attachments : bStored[f] # "absent" => bStored'[f] # "absent",
         Stored(bThread'[p], bStored'),
         \A q \in B!Threads \ {p} :
            /\ bThread'[q].got = bThread[q].got /\ bThread'[q].files = bThread[q].files
            /\ bThread'[q].step = bThread[q].step /\ bThread'[q].file = bThread[q].file,
         \A q \in B!Threads : bReceipt'[q].files \subseteq bReceipt[q].files
                              \/ bReceipt'[q].files \subseteq bThread[q].files
  PROVE  ArtifactsInv'
<1>1. ASSUME NEW q \in B!Threads
      PROVE  /\ bThread[q].got \subseteq Attachments /\ bThread[q].files \subseteq Attachments
             /\ bThread[q].step = "unlink" => bThread[q].file \in Attachments
             /\ bReceipt[q].files \subseteq Attachments
  <2>1. /\ bThread[q] \in Handling /\ bReceipt[q] \in [status : {"none", "completed"}, files : SUBSET Attachments]
        /\ Accounted(bThread[q], bNamed[q])
    BY DEF OutboundInv, OutboundTypes
  <2> QED
    BY <2>1 DEF Handling, Accounted
<1>2. ASSUME NEW q \in B!Threads \ {p} PROVE Stored(bThread'[q], bStored')
  BY <1>1 DEF ArtifactsInv, Stored
<1>3. ASSUME NEW q \in B!Threads, NEW f \in bReceipt'[q].files PROVE bStored'[f] # "absent"
  BY <1>1, <1>3 DEF ArtifactsInv, Stored
<1> QED
  BY <1>2, <1>3 DEF ArtifactsInv

\* The steps that change the record of one thread only.
LEMMA ArtifactsHandled ==
  ASSUME OutboundInv, ArtifactsInv, NEW p \in B!Threads, NEW new,
         bThread' = [bThread EXCEPT ![p] = new], Stored(new, bStored'),
         \A f \in Attachments : bStored[f] # "absent" => bStored'[f] # "absent",
         \A q \in B!Threads : bReceipt'[q].files \subseteq bReceipt[q].files
                              \/ bReceipt'[q].files \subseteq bThread[q].files
  PROVE  ArtifactsInv'
<1>1. bThread'[p] = new /\ \A q \in B!Threads \ {p} : bThread'[q] = bThread[q]
  BY DEF OutboundInv, OutboundTypes
<1> QED
  BY <1>1, ArtifactsStep

LEMMA ArtifactsKept ==
  ASSUME OutboundInv, ArtifactsInv, B!Next
  PROVE  ArtifactsInv'
<1>1. ASSUME NEW q \in B!Threads
      PROVE  /\ bThread[q] \in Handling /\ Accounted(bThread[q], bNamed[q]) /\ Stored(bThread[q], bStored)
  BY DEF OutboundInv, OutboundTypes, ArtifactsInv
<1>2. /\ bThread \in [B!Threads -> Handling] /\ bStored \in Contained /\ bTemp \in Contained
      /\ bReceipt \in [B!Threads -> [status : {"none", "completed"}, files : SUBSET Attachments]]
  BY DEF OutboundInv, OutboundTypes
<1>3. \A step \in Steps \ {"unlink"} : Stored(B!At(step), bStored)
  BY DEF B!At, Stored
<1>4. ASSUME NEW p \in B!Threads,
             B!Begin(p) \/ B!Run(p) \/ B!Replayed(p) \/ B!Capture(p) \/ B!Plan(p) \/ B!Complete(p)
      PROVE  ArtifactsInv'
  <2> DEFINE t == bThread[p]
  <2>1. UNCHANGED bStored
    BY <1>4 DEF B!Begin, B!Run, B!Replayed, B!Capture, B!Plan, B!Complete, B!disk
  <2>2. CASE B!Begin(p)
    BY <1>3, <2>1, <2>2, ArtifactsHandled DEF B!Begin, B!Reset, B!chat, Steps
  <2>3. CASE B!Run(p)
    <3>1. PICK found \in SUBSET Attachments :
            bThread' = [bThread EXCEPT ![p].step = "candidate", ![p].runs = @ + 1, ![p].todo = found,
                                       ![p].got = {}, ![p].asked = @ \cup found]
      BY <2>3 DEF B!Run
    <3> DEFINE new == [t EXCEPT !.step = "candidate", !.runs = t.runs + 1, !.todo = found, !.got = {},
                                !.asked = t.asked \cup found]
    <3>2. bThread' = [bThread EXCEPT ![p] = new]
      BY <1>2, <3>1
    <3>3. new.step = "candidate" /\ new.got = {} /\ new.files = t.files
      BY <1>1 DEF Handling
    <3> HIDE DEF new
    <3>4. Stored(new, bStored)
      BY <1>1, <3>3 DEF Stored
    <3> QED
      BY <2>1, <2>3, <3>2, <3>4, ArtifactsHandled DEF B!Run
  <2>4. CASE B!Replayed(p)
    <3> DEFINE new == [t EXCEPT !.runs = @ + 1]
    <3>1. bThread' = [bThread EXCEPT ![p] = new]
      BY <2>4, Zenon DEF B!Replayed
    <3>2. new.step = t.step /\ new.got = t.got /\ new.files = t.files /\ new.file = t.file
      BY <1>1 DEF Handling
    <3> HIDE DEF new
    <3>3. Stored(new, bStored)
      BY <1>1, <3>2 DEF Stored
    <3> QED
      BY <2>1, <2>4, <3>1, <3>3, ArtifactsHandled DEF B!Replayed, B!chat
  <2>5. CASE B!Capture(p)
    <3> DEFINE new == B!Merged(t)
    <3>1. bThread' = [bThread EXCEPT ![p] = new]
      BY <2>5 DEF B!Capture
    <3>2. new.step = "plan" /\ new.got = {} /\ new.files = t.files \cup t.got
      BY <1>1 DEF Handling, B!Merged
    <3> HIDE DEF new
    <3>3. Stored(new, bStored)
      BY <1>1, <3>2 DEF Stored
    <3> QED
      BY <2>1, <2>5, <3>1, <3>3, ArtifactsHandled DEF B!Capture, B!chat
  <2>6. CASE B!Plan(p)
    <3> DEFINE new == [t EXCEPT !.step = "run"]
    <3>1. bThread' = [bThread EXCEPT ![p] = new]
      BY <2>6, Zenon DEF B!Plan
    <3>2. new.step = "run" /\ new.got = t.got /\ new.files = t.files
      BY <1>1 DEF Handling
    <3> HIDE DEF new
    <3>3. Stored(new, bStored)
      BY <1>1, <3>2 DEF Stored
    <3> QED
      BY <2>1, <2>6, <3>1, <3>3, ArtifactsHandled DEF B!Plan
  <2>7. CASE B!Complete(p)
    <3> DEFINE new == [t EXCEPT !.step = "send"]
    <3>1. /\ bThread' = [bThread EXCEPT ![p] = new]
          /\ bReceipt' = [bReceipt EXCEPT ![p] = [status |-> "completed", files |-> t.files]]
      BY <2>7, Zenon DEF B!Complete
    <3>2. new.step = "send" /\ new.got = t.got /\ new.files = t.files
      BY <1>1 DEF Handling
    <3> HIDE DEF new
    <3>3. Stored(new, bStored)
      BY <1>1, <3>2 DEF Stored
    <3>4. \A q \in B!Threads : bReceipt'[q].files \subseteq bReceipt[q].files
                               \/ bReceipt'[q].files \subseteq bThread[q].files
      BY <1>2, <3>1
    <3> QED
      BY <2>1, <3>1, <3>3, <3>4, ArtifactsHandled
  <2> QED
    BY <1>4, <2>2, <2>3, <2>4, <2>5, <2>6, <2>7
<1>5. ASSUME NEW q \in B!Threads, B!Done(q)
      PROVE  \A r \in B!Threads : bReceipt'[r].files \subseteq bReceipt[r].files
  BY <1>2, <1>5 DEF B!Done, B!NoReply
<1>6. ASSUME NEW p \in B!Threads, B!Send(p) \/ B!NotSent(p)
      PROVE  ArtifactsInv'
  <2>1. UNCHANGED bStored /\ \A q \in B!Threads : bReceipt'[q].files \subseteq bReceipt[q].files
    BY <1>5, <1>6 DEF B!Send, B!NotSent, B!disk
  <2>2. CASE B!Send(p)
    <3> DEFINE new == [bThread[p] EXCEPT !.step = "idle"]
    <3>1. bThread' = [bThread EXCEPT ![p] = new]
      BY <2>2, Zenon DEF B!Send
    <3>2. new.step = "idle" /\ new.got = bThread[p].got /\ new.files = bThread[p].files
      BY <1>1 DEF Handling
    <3> HIDE DEF new
    <3>3. Stored(new, bStored)
      BY <1>1, <3>2 DEF Stored
    <3> QED
      BY <2>1, <3>1, <3>3, ArtifactsHandled
  <2>3. CASE B!NotSent(p)
    BY <1>3, <2>1, <2>3, ArtifactsHandled DEF B!NotSent, Steps
  <2> QED
    BY <1>6, <2>2, <2>3
\* One file is attached when its artifact is there, and refused or opened otherwise.
<1>7. ASSUME NEW p \in B!Threads, B!Look(p) \/ B!Refuse(p)
      PROVE  ArtifactsInv'
  <2> DEFINE t == bThread[p]
  <2>1. UNCHANGED <<bStored, bReceipt>>
    BY <1>7 DEF B!Look, B!Refuse, B!disk, B!chat
  <2>2. PICK f \in t.todo :
          LET gone == [t EXCEPT !.todo = @ \ {f}, !.file = f] IN
          \E new \in {B!OverLimit(t, f), B!Attached(gone), B!Refused(gone), [gone EXCEPT !.step = "open"]} :
             /\ bThread' = [bThread EXCEPT ![p] = new]
             /\ new = B!Attached(gone) => bStored[f] # "absent" \/ new = [gone EXCEPT !.step = "open"]
                                          \/ new = B!OverLimit(t, f) \/ new = B!Refused(gone)
    BY <1>7 DEF B!Look, B!Refuse
  <2> DEFINE gone == [t EXCEPT !.todo = @ \ {f}, !.file = f]
  <2>3. /\ gone \in Handling /\ gone.got = t.got /\ gone.files = t.files /\ gone.file = f
        /\ f \in Attachments
    BY <1>1, <2>2 DEF Handling
  <2> HIDE DEF gone
  <2>4. Stored(B!OverLimit(t, f), bStored)
    <3>1. B!OverLimit(t, f).got = t.got /\ B!OverLimit(t, f).files = t.files /\ B!OverLimit(t, f).step = t.step
      BY <1>1 DEF B!OverLimit, Handling
    <3>2. B!OverLimit(t, f).file = t.file
      BY <1>1 DEF B!OverLimit, Handling
    <3> QED
      BY <1>1, <3>1, <3>2 DEF Stored
  <2>5. Stored(B!Refused(gone), bStored)
    <3>1. B!Refused(gone).got = t.got /\ B!Refused(gone).files = t.files /\ B!Refused(gone).step = "candidate"
      BY <2>3 DEF B!Refused, Handling
    <3> QED
      BY <1>1, <3>1 DEF Stored
  <2>6. Stored([gone EXCEPT !.step = "open"], bStored)
    <3> DEFINE new == [gone EXCEPT !.step = "open"]
    <3>1. new.got = t.got /\ new.files = t.files /\ new.step = "open"
      BY <2>3 DEF Handling
    <3> HIDE DEF new
    <3>2. Stored(new, bStored)
      BY <1>1, <3>1 DEF Stored
    <3> QED
      BY <3>2 DEF new
  <2>7. bStored[f] # "absent" => Stored(B!Attached(gone), bStored)
    <3>1. /\ B!Attached(gone).got = t.got \cup {f} /\ B!Attached(gone).files = t.files
          /\ B!Attached(gone).step = "candidate"
      BY <2>3 DEF B!Attached, Handling
    <3> QED
      BY <1>1, <3>1 DEF Stored
  <2>8. PICK new : bThread' = [bThread EXCEPT ![p] = new] /\ Stored(new, bStored)
    BY <2>2, <2>4, <2>5, <2>6, <2>7 DEF gone
  <2> QED
    BY <2>1, <2>8, ArtifactsHandled
<1>8. ASSUME NEW p \in B!Threads, B!OpenTemp(p) \/ B!Write(p)
      PROVE  ArtifactsInv'
  <2> DEFINE t == bThread[p]
  <2>1. UNCHANGED bReceipt /\ \A f \in Attachments : bStored[f] # "absent" => bStored'[f] # "absent"
    BY <1>2, <1>8 DEF B!OpenTemp, B!Write, B!chat, Contained
  <2>2. PICK new \in Handling : /\ bThread' = [bThread EXCEPT ![p] = new] /\ new.step \in {"write", "replace"}
                                /\ new.got = t.got /\ new.files = t.files
    <3>1. CASE B!OpenTemp(p)
      <4> DEFINE next == [t EXCEPT !.step = "write", !.into = "temp"]
      <4>1. bThread' = [bThread EXCEPT ![p] = next]
        BY <1>2, <3>1 DEF B!OpenTemp
      <4>2. next \in Handling /\ next.step = "write" /\ next.got = t.got /\ next.files = t.files
        BY <1>1 DEF Handling, Steps
      <4> HIDE DEF next
      <4> QED
        BY <4>1, <4>2
    <3>2. CASE B!Write(p)
      <4> DEFINE next == [t EXCEPT !.step = "replace"]
      <4>1. bThread' = [bThread EXCEPT ![p] = next]
        BY <3>2, Zenon DEF B!Write
      <4>2. next \in Handling /\ next.step = "replace" /\ next.got = t.got /\ next.files = t.files
        BY <1>1 DEF Handling, Steps
      <4> HIDE DEF next
      <4> QED
        BY <4>1, <4>2
    <3> QED
      BY <1>8, <3>1, <3>2
  <2>3. t.got \cup t.files \subseteq Attachments
    BY <1>1 DEF Handling
  <2>4. Stored(new, bStored')
    BY <1>1, <2>1, <2>2, <2>3 DEF Stored
  <2> QED
    BY <2>1, <2>2, <2>4, ArtifactsHandled
<1>9. ASSUME NEW p \in B!Threads, NEW to, NEW new, bThread' = [B!Moved(p, to) EXCEPT ![p] = new]
      PROVE  /\ bThread'[p] = new
             /\ \A q \in B!Threads \ {p} :
                   /\ bThread'[q].got = bThread[q].got /\ bThread'[q].files = bThread[q].files
                   /\ bThread'[q].step = bThread[q].step /\ bThread'[q].file = bThread[q].file
  <2>1. /\ bThread'[p] = new
        /\ \A q \in B!Threads \ {p} : bThread'[q] = bThread[q] \/ bThread'[q] = [bThread[q] EXCEPT !.into = to]
    BY <1>9 DEF B!Moved
  <2>2. ASSUME NEW r \in Handling
        PROVE  /\ [r EXCEPT !.into = to].got = r.got /\ [r EXCEPT !.into = to].files = r.files
               /\ [r EXCEPT !.into = to].step = r.step /\ [r EXCEPT !.into = to].file = r.file
    BY DEF Handling
  <2> QED
    BY <1>1, <2>1, <2>2
<1>10. ASSUME NEW p \in B!Threads, B!Replace(p) \/ B!Unlink(p)
       PROVE  ArtifactsInv'
  <2> DEFINE t == bThread[p]
  <2>1. /\ t \in Handling /\ Accounted(t, bNamed[p]) /\ Stored(t, bStored) /\ UNCHANGED bReceipt
        /\ t.step \in {"replace", "unlink"} /\ t.file \in Attachments
        /\ t.got \cup t.files \subseteq Attachments
    BY <1>1, <1>10 DEF B!Replace, B!Unlink, B!chat, Accounted, Handling
  <2>2. CASE B!Replace(p) /\ bTemp[t.file] = "absent"
    <3>1. bThread' = [bThread EXCEPT ![p] = B!Refused(t)] /\ UNCHANGED bStored
      BY <2>2 DEF B!Replace, B!disk
    <3>2. B!Refused(t).got = t.got /\ B!Refused(t).files = t.files /\ B!Refused(t).step = "candidate"
      BY <2>1 DEF B!Refused, Handling
    <3>3. Stored(B!Refused(t), bStored)
      BY <2>1, <3>2 DEF Stored
    <3> QED
      BY <2>1, <3>1, <3>3, ArtifactsHandled
  <2>3. CASE B!Replace(p) /\ bTemp[t.file] # "absent"
    <3> DEFINE new == [t EXCEPT !.step = "unlink"]
    <3>1. /\ bThread' = [B!Moved(p, "stored") EXCEPT ![p].step = "unlink"]
          /\ bStored' = [bStored EXCEPT ![t.file] = bTemp[t.file]]
      BY <2>3 DEF B!Replace
    <3>2. bThread' = [B!Moved(p, "stored") EXCEPT ![p] = new]
      <4>1. B!Moved(p, "stored")[p] = t
        BY DEF B!Moved
      <4> QED
        BY <3>1, <4>1, Zenon
    <3>3. new.got = t.got /\ new.files = t.files /\ new.file = t.file
      BY <2>1 DEF Handling
    <3>4. /\ \A f \in Attachments : bStored[f] # "absent" => bStored'[f] # "absent"
          /\ bStored'[t.file] # "absent"
      BY <1>2, <2>1, <2>3, <3>1 DEF Contained
    <3> HIDE DEF new
    <3>5. Stored(new, bStored')
      BY <2>1, <3>3, <3>4 DEF Stored
    <3> QED
      BY <1>9, <2>1, <3>2, <3>4, <3>5, ArtifactsStep
  <2>4. CASE B!Unlink(p)
    <3> DEFINE new == B!Attached(t)
    <3>1. bThread' = [B!Moved(p, "gone") EXCEPT ![p] = B!Attached(@)] /\ bStored' = bStored /\ t.step = "unlink"
      BY <2>4 DEF B!Unlink
    <3>2. bThread' = [B!Moved(p, "gone") EXCEPT ![p] = new]
      <4>1. B!Moved(p, "gone")[p] = t
        BY DEF B!Moved
      <4> QED
        BY <3>1, <4>1, Zenon
    <3>3. new.got = t.got \cup {t.file} /\ new.files = t.files /\ new.step = "candidate"
      BY <2>1 DEF B!Attached, Handling
    <3> HIDE DEF new
    <3>4. Stored(new, bStored')
      BY <2>1, <3>1, <3>3 DEF Stored
    <3>5. \A f \in Attachments : bStored[f] # "absent" => bStored'[f] # "absent"
      BY <3>1
    <3>6. /\ bThread'[p] = new
          /\ \A q \in B!Threads \ {p} :
                /\ bThread'[q].got = bThread[q].got /\ bThread'[q].files = bThread[q].files
                /\ bThread'[q].step = bThread[q].step /\ bThread'[q].file = bThread[q].file
      BY <1>9, <3>2
    <3>7. \A q \in B!Threads : bReceipt'[q].files \subseteq bReceipt[q].files
      BY <2>1
    <3> QED
      BY <3>4, <3>5, <3>6, <3>7, ArtifactsStep
  <2> QED
    BY <1>10, <2>2, <2>3, <2>4
<1>11. CASE B!Redeliver \/ B!Failed
  <2>1. "main" \in B!Threads /\ UNCHANGED <<bStored, bReceipt>>
    BY <1>11 DEF B!Redeliver, B!Failed, B!disk, B!chat, B!Threads
  <2>2. PICK step \in {"send", "idle"} : bThread' = [bThread EXCEPT !["main"] = B!At(step)]
    BY <1>11 DEF B!Redeliver, B!Failed
  <2>3. Stored(B!At(step), bStored)
    BY <1>3 DEF Steps
  <2> QED
    BY <2>1, <2>2, <2>3, ArtifactsHandled
<1>12. CASE B!Crash
  <2>1. UNCHANGED bStored /\ bThread' = [p \in B!Threads |-> B!At("idle")]
    BY <1>12 DEF B!Crash
  <2>2. \A q \in B!Threads : bReceipt'[q].files \subseteq bReceipt[q].files
    BY <1>5, <1>12 DEF B!Crash, B!Threads
  <2>3. \A p \in B!Threads : Stored(bThread'[p], bStored')
    BY <1>3, <2>1 DEF Steps
  <2> QED
    BY <2>1, <2>2, <2>3 DEF ArtifactsInv
<1> QED
  BY <1>4, <1>6, <1>7, <1>8, <1>10, <1>11, <1>12 DEF B!Next

LEMMA OutboundIsSound ==
  ASSUME OutboundInv, ArtifactsInv, faults \in 0..MaxFaults
  PROVE  B!TypeOK /\ B!RepliesCarryTheirFiles /\ B!FilesAreAccountedFor
<1>1. B!TypeOK
  <2>1. \A f \in Attachments : {bStored[f], bTemp[f]} \subseteq {"absent", "partial", "whole"}
    BY DEF OutboundInv, OutboundTypes, Contained
  <2>2. \A p \in B!Threads : /\ bThread[p].runs \in 0..MaxReplyRuns /\ bThread[p].file \in Attachments \cup {0}
                             /\ bThread[p].got \cup bThread[p].files \cup bThread[p].refused \subseteq Attachments
    BY DEF OutboundInv, OutboundTypes, Handling
  <2>3. \A p \in B!Threads : bSent[p] \in 0..MaxSent[p] /\ bPlanned[p] \in 0..MaxReplyRuns
    BY DEF OutboundInv, OutboundTypes, MaxSent, B!Threads
  <2> QED
    BY <2>1, <2>2, <2>3 DEF B!TypeOK, B!None, MaxSent
<1>2. B!RepliesCarryTheirFiles
  BY DEF OutboundInv, ArtifactsInv, B!RepliesCarryTheirFiles
<1>3. B!FilesAreAccountedFor
  BY DEF OutboundInv, Accounted, B!FilesAreAccountedFor, B!None
<1> QED
  BY <1>1, <1>2, <1>3

-----------------------------------------------------------------------------
(* All three of them.                                                      *)

\* A reply carries its files or says which it lacks, whatever the threads do to one
\* another's files; a file is shared once and a delivery that is reported was made; no
\* message that Slack need not send again is lost, none is out of order or handed on
\* twice while its record is kept (outbound.py, _deliver_attachments and the listener of
\* the Slack library).  One process is connected: the listeners of two do not exclude
\* each other.
THEOREM MessagesStayWhole ==
  ASSUME NEW d \in Nat, Listeners = {d}
  PROVE  MCSpec => []MessagesAreWhole
<1> DEFINE Faults == part = "outbound" => faults \in 0..MaxFaults
<1>1. MCInit => OutboundInv /\ ArtifactsInv /\ UploadInv /\ IntakeInv /\ Faults
  <2>1. B!Init => faults \in 0..MaxFaults
    BY DamagesAssumption DEF B!Init
  <2> QED
    BY <2>1, OutboundBegins, ArtifactsBegin, UploadBegins, IntakeBegins DEF MCInit
<1>2. OutboundInv /\ [MCNext]_allVars => OutboundInv'
  <2>1. CASE B!Next /\ OutboundInv
    BY <2>1, OutboundKeeps
  <2>2. CASE UNCHANGED outbound /\ OutboundInv
    BY <2>2 DEF outbound, OutboundInv, OutboundTypes
  <2> QED
    BY <2>1, <2>2 DEF MCNext, allVars, messages, InReviews, InLineage, InEvolution, InCuration,
       InLearning, InMemory, InMigration, InPrivateState, InEnvironments, InQuotaWarnings,
       InOutbound, InSlackUpload, InSlackIntake
<1>7. OutboundInv /\ ArtifactsInv /\ [MCNext]_allVars => ArtifactsInv'
  <2>1. CASE B!Next /\ OutboundInv /\ ArtifactsInv
    BY <2>1, ArtifactsKept
  <2>2. CASE UNCHANGED outbound /\ ArtifactsInv
    BY <2>2 DEF outbound, ArtifactsInv
  <2> QED
    BY <2>1, <2>2 DEF MCNext, allVars, messages, InReviews, InLineage, InEvolution, InCuration,
       InLearning, InMemory, InMigration, InPrivateState, InEnvironments, InQuotaWarnings,
       InOutbound, InSlackUpload, InSlackIntake
<1>3. UploadInv /\ [MCNext]_allVars => UploadInv'
  <2>1. CASE U!Next /\ UploadInv
    BY <2>1, UploadKeeps
  <2>2. CASE UNCHANGED upload /\ UploadInv
    BY <2>2 DEF upload, UploadInv, UploadTypes, SameRecord, AttemptsInv, SharingInv, ShownInv,
       Sharing, AllShared, AllUploaded, U!Shown
  <2> QED
    BY <2>1, <2>2 DEF MCNext, allVars, messages, InReviews, InLineage, InEvolution, InCuration,
       InLearning, InMemory, InMigration, InPrivateState, InEnvironments, InQuotaWarnings,
       InOutbound, InSlackUpload, InSlackIntake
<1>4. IntakeInv /\ [MCNext]_allVars => IntakeInv'
  <2>1. CASE K!Next /\ IntakeInv
    BY <2>1, IntakeKeeps
  <2>2. CASE UNCHANGED intake /\ IntakeInv
    <3>1. IntakeTypes' /\ StoringInv'
      BY <2>2 DEF intake, IntakeInv, IntakeTypes, StoringInv, K!Nothing
    <3>2. OrderInv' /\ HandedInv' /\ GapInv'
      BY <2>2, IntakeStands DEF intake, IntakeInv
    <3> QED
      BY <3>1, <3>2 DEF IntakeInv
  <2> QED
    BY <2>1, <2>2 DEF MCNext, allVars, messages, InReviews, InLineage, InEvolution, InCuration,
       InLearning, InMemory, InMigration, InPrivateState, InEnvironments, InQuotaWarnings,
       InOutbound, InSlackUpload, InSlackIntake
<1>5. Faults /\ [MCNext]_allVars => Faults'
  <2>1. ASSUME B!Next, faults \in 0..MaxFaults PROVE faults' \in 0..MaxFaults
    <3> DEFINE Fewer == faults' = faults \/ (faults > 0 /\ faults' = faults - 1)
    <3>1. ASSUME NEW p \in B!Threads,
                 B!Begin(p) \/ B!Run(p) \/ B!Replayed(p) \/ B!Capture(p) \/ B!Plan(p)
          PROVE  Fewer
      BY <3>1 DEF B!Begin, B!Run, B!Replayed, B!Capture, B!Plan
    <3>2. ASSUME NEW p \in B!Threads, B!Complete(p) \/ B!Send(p) \/ B!NotSent(p) \/ B!Look(p)
          PROVE  Fewer
      BY <3>2 DEF B!Complete, B!Send, B!NotSent, B!Look
    <3>3. ASSUME NEW p \in B!Threads, B!OpenTemp(p) \/ B!Write(p) \/ B!Replace(p) \/ B!Unlink(p)
          PROVE  Fewer
      BY <3>3 DEF B!OpenTemp, B!Write, B!Replace, B!Unlink
    <3>4. ASSUME NEW p \in B!Threads, B!Refuse(p)
          PROVE  Fewer
      BY <3>4 DEF B!Refuse, B!Fault
    <3>5. B!Redeliver \/ B!Crash \/ B!Failed => Fewer
      BY DEF B!Redeliver, B!Crash, B!Failed, B!Fault
    <3> HIDE DEF Fewer
    <3>6. Fewer
      BY <2>1, <3>1, <3>2, <3>3, <3>4, <3>5 DEF B!Next
    <3>7. \A m \in Nat : \A n \in 0..m : n > 0 => n - 1 \in 0..m
      OBVIOUS
    <3> QED
      BY <2>1, <3>6, <3>7, DamagesAssumption DEF Fewer
  <2>2. [MCNext]_allVars => part' = part /\ (part = "outbound" => B!Next \/ faults' = faults)
    BY DEF MCNext, allVars, InReviews, InLineage, InEvolution, InCuration,
       InLearning, InMemory, InMigration, InPrivateState, InEnvironments, InQuotaWarnings,
       InOutbound, InSlackUpload, InSlackIntake
  <2> QED
    BY <2>1, <2>2
<1>6. OutboundInv /\ ArtifactsInv /\ UploadInv /\ IntakeInv /\ Faults => MessagesAreWhole
  BY OutboundIsSound, UploadIsSound, IntakeIsSound DEF MessagesAreWhole
<1> HIDE DEF Faults
<1> QED
  BY <1>1, <1>2, <1>3, <1>4, <1>5, <1>6, <1>7, PTL DEF MCSpec

-----------------------------------------------------------------------------
(* Quota warnings.  A reset time that the provider names tells the window, *)
(* because windows end further apart than such a time may be off.          *)

WTiers == {10, 5, 1, -1}
WHandling == {"intent", "sending", "sent", "delivered", "terminal", "refused", "retryable"}
WEntries == [cycle : Nat, notified : WTiers, pending : WTiers, text : Int, drafted : Nat,
             terminal : BOOLEAN, reset : Int, remaining : Int]
WRecords == [status : {"in_flight", "retryable", "delivered", "terminal"}, text : Int]
WSent == [window : Nat, key : Nat \X {10, 5, 1}, known : BOOLEAN, late : BOOLEAN, fresh : BOOLEAN]

QuotaTypes ==
    /\ wNow \in 0..MaxTime
    /\ wAccount \in [window : Nat \ {0}, remaining : {12, 9, 4}, ends : Int]
    /\ wEntry \in WEntries
    /\ wLedger \in [DOMAIN wLedger -> WRecords] /\ DOMAIN wLedger \subseteq Nat \X {10, 5, 1}
    /\ wMonitor \in [step : {"waiting", "reading"} \cup WHandling, remaining : {-1, 12, 9, 4},
                     reset : Int, window : Nat, key : Nat \X Int]
    /\ wEnabled \in BOOLEAN /\ wChat \in Seq(WSent)

\* A warning in hand is the one that the record owes; what was announced in the record's
\* cycle is what it owes, or it knows of something as urgent.
LedgerInv ==
    /\ \A k \in DOMAIN wLedger : k[1] <= wEntry.cycle
    /\ wMonitor.step \in WHandling => /\ wMonitor.key = <<wEntry.cycle, wEntry.pending>>
                                      /\ wEntry.pending # -1
    /\ wMonitor.step \in {"sending", "sent"} => /\ wMonitor.key \in DOMAIN wLedger
                                                /\ wLedger[wMonitor.key].status = "in_flight"
    /\ wEntry.pending # -1 /\ wEntry.notified # -1 => wEntry.pending < wEntry.notified
    /\ \A k \in DOMAIN wLedger :
          k[1] = wEntry.cycle /\ wLedger[k].status = "delivered" =>
             k[2] = wEntry.pending \/ (wEntry.notified # -1 /\ wEntry.notified <= k[2])
    /\ wEntry.cycle = 0 => wEntry.reset = -1 /\ wEntry.notified = -1 /\ wEntry.pending = -1

\* A warning that the chat shows is not sent again, and within a cycle only one whose
\* arrival is unknown is followed by a milder one.
ChatInv ==
    /\ \A i \in 1..Len(wChat) :
          /\ wChat[i].key \in DOMAIN wLedger
          /\ wLedger[wChat[i].key].status \in {"in_flight", "delivered", "terminal"}
          /\ wChat[i].known => wChat[i].fresh
          /\ wMonitor.step = "sending" => wChat[i].key # wMonitor.key
    /\ wMonitor.step = "sent" => wChat # <<>> /\ wChat[Len(wChat)].key = wMonitor.key
    /\ \A i, j \in 1..Len(wChat) :
          /\ wChat[i].window = wChat[j].window
          /\ i < j =>
               /\ wChat[i].key # wChat[j].key
               /\ wChat[i].key[1] = wChat[j].key[1] /\ wChat[i].key[2] < wChat[j].key[2]
                     => wLedger[wChat[i].key].status # "delivered"
               /\ wChat[i].known /\ wChat[j].known /\ ~wChat[j].late
                     => wChat[i].key[1] = wChat[j].key[1]

\* ends: when the windows ended or end; v: the window whose end the record knows.  After a
\* warning of a window was sent, the record stays in that window's cycle until the window
\* is all but over.
Ending(ends) ==
    /\ ends \in [1..wAccount.window -> Int] /\ ends[wAccount.window] = wAccount.ends
    /\ \A x, y \in 1..wAccount.window : x < y => ends[x] + 1 + Jitter < ends[y]
Known(ends, v) ==
    /\ wEntry.reset # -1 =>
         /\ v \in 1..wAccount.window
         /\ ends[v] - Jitter <= wEntry.reset /\ wEntry.reset <= ends[v]
    /\ wEntry.drafted # 0 => wEntry.reset # -1 /\ wEntry.drafted = v
Read(ends, v) ==
    /\ wMonitor.step # "waiting" =>
         /\ wMonitor.window \in 1..wAccount.window
         /\ wEntry.reset # -1 => v <= wMonitor.window
         /\ wMonitor.reset # -1 => /\ ends[wMonitor.window] - Jitter <= wMonitor.reset
                                   /\ wMonitor.reset <= ends[wMonitor.window]
    /\ wMonitor.step \in WHandling /\ wMonitor.reset # -1 =>
         wEntry.reset # -1 /\ v = wMonitor.window
SentIn(ends, v) ==
    \A i \in 1..Len(wChat) :
       /\ wChat[i].window \in 1..wAccount.window
       /\ wChat[i].known =>
            \/ ends[wChat[i].window] <= wNow + Jitter
            \/ /\ wEntry.reset # -1
               /\ wChat[i].window < v \/ (wChat[i].window = v /\ wEntry.cycle = wChat[i].key[1])
Told(ends, v) == Ending(ends) /\ Known(ends, v) /\ Read(ends, v) /\ SentIn(ends, v)
TimesInv == \E ends : \E v : Told(ends, v)

QuotaInv == QuotaTypes /\ LedgerInv /\ ChatInv /\ TimesInv

LEMMA QuotaIsSound == QuotaInv => W!TypeOK /\ W!WarningsEscalate /\ W!WarningsAreCurrent
<1> SUFFICES ASSUME QuotaInv PROVE W!TypeOK /\ W!WarningsEscalate /\ W!WarningsAreCurrent
  OBVIOUS
<1>1. W!TypeOK
  BY DEF QuotaInv, QuotaTypes, WEntries, WTiers, WRecords, W!TypeOK, W!Keys, W!THRESHOLDS, W!Balances,
     W!None
<1>2. DOMAIN wChat = 1..Len(wChat) /\ Len(wChat) \in Nat
  BY DEF QuotaInv, QuotaTypes
<1>3. W!WarningsAreCurrent
  BY <1>2 DEF QuotaInv, ChatInv, W!WarningsAreCurrent
<1>4. ASSUME NEW i \in 1..Len(wChat), NEW j \in 1..Len(wChat), i < j,
             \A k \in i..j : wChat[k].known, ~wChat[j].late
      PROVE  \/ wChat[j].key[2] < wChat[i].key[2]
             \/ /\ wChat[j].key[2] > wChat[i].key[2]
                /\ W!Record(wChat[i].key).status # "delivered"
  <2>1. wChat[i].known /\ wChat[j].known
    BY <1>2, <1>4
  <2>2. /\ wChat[i].key \in Nat \X {10, 5, 1} /\ wChat[j].key \in Nat \X {10, 5, 1}
        /\ wChat[i].key # wChat[j].key
        /\ wChat[i].key[1] = wChat[j].key[1]
        /\ wChat[i].key[2] < wChat[j].key[2] => wLedger[wChat[i].key].status # "delivered"
        /\ wChat[i].key \in DOMAIN wLedger
    BY <2>1, <1>2, <1>4 DEF QuotaInv, QuotaTypes, WSent, ChatInv
  <2>3. \A k, l \in Nat \X {10, 5, 1} : k[1] = l[1] /\ k # l => k[2] < l[2] \/ l[2] < k[2]
    OBVIOUS
  <2> QED
    BY <2>2, <2>3 DEF W!Record
<1>5. W!WarningsEscalate
  BY <1>2, <1>4 DEF W!WarningsEscalate
<1> QED
  BY <1>1, <1>3, <1>5

LEMMA QuotaBegins == W!Init => QuotaInv
<1> SUFFICES ASSUME W!Init PROVE QuotaInv
  OBVIOUS
<1>1. /\ wNow = 0 /\ wAccount = [window |-> 1, remaining |-> 12, ends |-> Length]
      /\ wEntry = [cycle |-> 0, notified |-> -1, pending |-> -1, text |-> -1,
                   drafted |-> 0, terminal |-> FALSE, reset |-> -1, remaining |-> -1]
      /\ wMonitor = [step |-> "waiting", remaining |-> -1, reset |-> -1, window |-> 0,
                     key |-> <<0, 0>>]
      /\ wLedger = [k \in {} |-> [status |-> "none", text |-> -1]]
      /\ wEnabled = TRUE /\ wChat = <<>>
  BY DEF W!Init, W!Idle, W!NoRecord, W!None
<1>2. QuotaTypes
  BY <1>1, QuotaAssumption DEF QuotaTypes, WEntries, WTiers, WRecords
<1>3. LedgerInv /\ ChatInv
  BY <1>1 DEF LedgerInv, ChatInv, WHandling
<1>4. Told([x \in 1..1 |-> Length], 0)
  BY <1>1, QuotaAssumption DEF Told, Ending, Known, Read, SentIn, WHandling
<1> QED
  BY <1>2, <1>3, <1>4 DEF QuotaInv, TimesInv

\* What is late for a window stays late.
LEMMA LateStays ==
  ASSUME QuotaInv, NEW n \in Nat, wNow' = n, wNow <= n, UNCHANGED <<wEntry, wChat>>,
         NEW ends, NEW later, NEW v, Ending(ends), SentIn(ends, v),
         \A x \in 1..wAccount.window : later[x] = ends[x] /\ x \in 1..wAccount'.window
  PROVE  SentIn(later, v)'
<1> SUFFICES ASSUME NEW i \in 1..Len(wChat)
             PROVE  /\ wChat[i].window \in 1..wAccount'.window
                    /\ wChat[i].known =>
                         \/ later[wChat[i].window] <= n + Jitter
                         \/ /\ wEntry.reset # -1
                            /\ wChat[i].window < v \/ (wChat[i].window = v /\ wEntry.cycle = wChat[i].key[1])
  BY DEF SentIn
<1> PICK x \in 1..wAccount.window : wChat[i].window = x
  BY DEF SentIn
<1>1. ends[x] \in Int /\ wNow \in Nat /\ Jitter \in {0, 1}
  BY QuotaAssumption DEF QuotaInv, QuotaTypes, Ending
<1>2. wChat[i].known => \/ ends[x] <= wNow + Jitter
                        \/ /\ wEntry.reset # -1
                           /\ x < v \/ (x = v /\ wEntry.cycle = wChat[i].key[1])
  BY DEF SentIn
<1>3. ends[x] <= wNow + Jitter => ends[x] <= n + Jitter
  BY <1>1
<1> QED
  BY <1>2, <1>3

\* Time goes on, and at most one window begins with it.
LEMMA TimeGoesOn ==
  ASSUME QuotaInv, NEW n \in Nat, wNow' = n, wNow <= n, UNCHANGED <<wEntry, wMonitor, wChat>>,
         NEW w \in Nat, NEW e \in Int, wAccount'.window = w, wAccount'.ends = e,
         \/ w = wAccount.window /\ e = wAccount.ends
         \/ w = wAccount.window + 1 /\ wAccount.ends + 1 + Jitter < e
  PROVE  TimesInv'
<1> PICK ends, v : Told(ends, v)
  BY DEF QuotaInv, TimesInv
<1>1. /\ wAccount.window \in Nat \ {0} /\ wAccount.ends \in Int /\ wNow \in Nat
      /\ Jitter \in {0, 1} /\ wMonitor.window \in Nat /\ wMonitor.reset \in Int
  BY QuotaAssumption DEF QuotaInv, QuotaTypes
<1>2. CASE w = wAccount.window /\ e = wAccount.ends
  <2>1. Ending(ends)' /\ Known(ends, v)' /\ Read(ends, v)'
    BY <1>2 DEF Told, Ending, Known, Read
  <2>2. SentIn(ends, v)'
    BY <1>2, LateStays DEF Told
  <2>3. Told(ends, v)'
    BY <2>1, <2>2 DEF Told
  <2> QED
    BY <2>3 DEF TimesInv
<1>3. CASE w = wAccount.window + 1 /\ wAccount.ends + 1 + Jitter < e
  <2> DEFINE later == [x \in 1..w |-> IF x = w THEN e ELSE ends[x]]
  <2>1. /\ later \in [1..w -> Int] /\ later[w] = e
        /\ \A x \in 1..wAccount.window : later[x] = ends[x] /\ x \in 1..w
    BY <1>1, <1>3 DEF Told, Ending
  <2>2. \A x, y \in 1..w : x < y => later[x] + 1 + Jitter < later[y]
    <3> SUFFICES ASSUME NEW x \in 1..w, NEW y \in 1..w, x < y PROVE later[x] + 1 + Jitter < later[y]
      OBVIOUS
    <3>0. x \in 1..wAccount.window
      BY <1>1, <1>3
    <3>1. later[x] = ends[x] /\ ends[x] \in Int /\ x \in 1..wAccount.window
      BY <2>1, <3>0 DEF Told, Ending
    <3>2. CASE y = w
      <4>1. ends[x] <= wAccount.ends
        BY <1>1, <3>1 DEF Told, Ending
      <4> QED
        BY <1>1, <1>3, <2>1, <3>1, <3>2, <4>1
    <3>3. CASE y # w
      BY <1>1, <1>3, <2>1, <3>1, <3>3 DEF Told, Ending
    <3> QED
      BY <3>2, <3>3
  <2> HIDE DEF later
  <2>3. Ending(later)'
    BY <1>3, <2>1, <2>2 DEF Ending
  <2>4. Known(later, v)' /\ Read(later, v)'
    BY <1>3, <2>1 DEF Told, Known, Read
  <2>5. SentIn(later, v)'
    BY <1>3, <2>1, LateStays DEF Told
  <2>6. Told(later, v)'
    BY <2>3, <2>4, <2>5 DEF Told
  <2> QED
    BY <2>6 DEF TimesInv
<1> QED
  BY <1>2, <1>3

\* Nothing of it changes, or the monitor has nothing in hand.
LEMMA QuotaStands ==
  ASSUME QuotaInv, UNCHANGED <<wNow, wAccount, wEntry, wLedger, wMonitor, wEnabled, wChat>>
  PROVE  QuotaInv'
<1>1. QuotaTypes' /\ LedgerInv' /\ ChatInv'
  BY DEF QuotaInv, QuotaTypes, LedgerInv, ChatInv
<1> PICK ends, v : Told(ends, v)
  BY DEF QuotaInv, TimesInv
<1>2. Ending(ends)' /\ Known(ends, v)' /\ Read(ends, v)' /\ SentIn(ends, v)'
  BY DEF Told, Ending, Known, Read, SentIn
<1> QED
  BY <1>1, <1>2 DEF QuotaInv, TimesInv, Told

LEMMA NothingRead ==
  ASSUME QuotaInv, UNCHANGED <<wNow, wAccount, wEntry, wChat>>, wMonitor'.step = "waiting"
  PROVE  TimesInv'
<1> PICK ends, v : Told(ends, v)
  BY DEF QuotaInv, TimesInv
<1>1. Ending(ends)' /\ Known(ends, v)' /\ SentIn(ends, v)'
  BY DEF Told, Ending, Known, SentIn
<1>2. Read(ends, v)'
  BY DEF Read, WHandling
<1> QED
  BY <1>1, <1>2 DEF TimesInv, Told

LEMMA AccountKeeps ==
  ASSUME QuotaInv, W!Spend \/ W!Tick \/ W!EarlyReset \/ W!Switch
  PROVE  QuotaInv'
<1>1. /\ wAccount \in [window : Nat \ {0}, remaining : {12, 9, 4}, ends : Int]
      /\ wNow \in 0..MaxTime /\ MaxTime \in Nat /\ Length \in Nat /\ Length > 1 + Jitter
      /\ Jitter \in {0, 1} /\ wEnabled \in BOOLEAN
  BY QuotaAssumption DEF QuotaInv, QuotaTypes
<1>2. UNCHANGED <<wEntry, wLedger, wMonitor, wChat>>
  BY DEF W!Spend, W!Tick, W!EarlyReset, W!Switch
<1>3. \E n \in 0..MaxTime, a \in [window : Nat \ {0}, remaining : {12, 9, 4}, ends : Int] :
         /\ wNow' = n /\ wNow <= n /\ wAccount' = a /\ wEnabled' \in BOOLEAN
         /\ \/ a.window = wAccount.window /\ a.ends = wAccount.ends
            \/ a.window = wAccount.window + 1 /\ wAccount.ends + 1 + Jitter < a.ends
  <2>1. CASE W!Spend
    <3>1. PICK r \in {12, 9, 4} : wAccount' = [wAccount EXCEPT !.remaining = r]
      BY <2>1 DEF W!Spend, W!Balances
    <3> DEFINE a == [wAccount EXCEPT !.remaining = r]
    <3>2. /\ a \in [window : Nat \ {0}, remaining : {12, 9, 4}, ends : Int]
          /\ a.window = wAccount.window /\ a.ends = wAccount.ends
      BY <1>1
    <3> HIDE DEF a
    <3> QED
      BY <1>1, <2>1, <3>1, <3>2 DEF W!Spend, a
  <2>2. CASE W!Tick
    <3>1. wNow + 1 \in 0..MaxTime /\ wNow' = wNow + 1 /\ wEnabled' = wEnabled
      BY <1>1, <2>2 DEF W!Tick
    <3>2. CASE wAccount' = wAccount
      BY <1>1, <3>1, <3>2
    <3>3. CASE wAccount' = W!NextWindow(wNow + 1) /\ wNow + 1 >= wAccount.ends
      <4> DEFINE a == W!NextWindow(wNow + 1)
      <4>1. /\ a \in [window : Nat \ {0}, remaining : {12, 9, 4}, ends : Int]
            /\ a.window = wAccount.window + 1 /\ a.ends = wNow + 1 + Length
        BY <1>1 DEF W!NextWindow
      <4>2. wAccount.ends + 1 + Jitter < wNow + 1 + Length
        BY <1>1, <3>3
      <4> HIDE DEF a
      <4> QED
        BY <1>1, <3>1, <3>3, <4>1, <4>2 DEF a
    <3> QED
      BY <2>2, <3>2, <3>3 DEF W!Tick
  <2>3. CASE W!EarlyReset
    <3> DEFINE a == W!NextWindow(wNow)
    <3>1. /\ a \in [window : Nat \ {0}, remaining : {12, 9, 4}, ends : Int]
          /\ a.window = wAccount.window + 1 /\ a.ends = wNow + Length
      BY <1>1 DEF W!NextWindow
    <3>2. wAccount' = a /\ wAccount.ends + 1 + Jitter < wNow + Length /\ UNCHANGED <<wNow, wEnabled>>
      BY <2>3 DEF W!EarlyReset
    <3> HIDE DEF a
    <3> QED
      BY <1>1, <3>1, <3>2
  <2>4. CASE W!Switch
    BY <1>1, <2>4 DEF W!Switch
  <2> QED
    BY <2>1, <2>2, <2>3, <2>4
<1>4. QuotaTypes'
  BY <1>2, <1>3 DEF QuotaInv, QuotaTypes
<1>5. LedgerInv' /\ ChatInv'
  BY <1>2 DEF QuotaInv, LedgerInv, ChatInv
<1>6. TimesInv'
  BY <1>2, <1>3, TimeGoesOn
<1> QED
  BY <1>4, <1>5, <1>6 DEF QuotaInv

\* The monitor reads the quota, or gives up.
LEMMA MonitorKeeps ==
  ASSUME QuotaInv, W!Collect \/ W!GivenUp \/ W!Restart
  PROVE  QuotaInv'
<1>1. /\ wAccount \in [window : Nat \ {0}, remaining : {12, 9, 4}, ends : Int]
      /\ Jitter \in {0, 1} /\ wNow \in Nat /\ wEntry.reset \in Int
  BY QuotaAssumption DEF QuotaInv, QuotaTypes, WEntries
<1>2. UNCHANGED <<wNow, wAccount, wEntry, wLedger, wEnabled, wChat>>
  BY DEF W!Collect, W!GivenUp, W!Restart
<1>3. \/ wMonitor' = wMonitor
      \/ wMonitor' = W!Idle
      \/ \E r \in {-1} \cup wAccount.ends - Jitter .. wAccount.ends :
            wMonitor' = [W!Idle EXCEPT !.step = "reading", !.reset = r,
                                       !.remaining = wAccount.remaining,
                                       !.window = wAccount.window]
  BY DEF W!Collect, W!GivenUp, W!Restart, W!None
<1>4. CASE wMonitor' = wMonitor
  BY <1>2, <1>4, QuotaStands
<1>5. CASE wMonitor' = W!Idle
  <2>1. /\ wMonitor'.step = "waiting"
        /\ wMonitor' \in [step : {"waiting", "reading"} \cup WHandling, remaining : {-1, 12, 9, 4},
                          reset : Int, window : Nat, key : Nat \X Int]
    BY <1>5 DEF W!Idle, W!None
  <2>2. QuotaTypes'
    BY <1>2, <2>1 DEF QuotaInv, QuotaTypes
  <2>3. LedgerInv'
    BY <1>2, <2>1 DEF QuotaInv, LedgerInv, WHandling
  <2>4. ChatInv'
    BY <1>2, <2>1 DEF QuotaInv, ChatInv
  <2>5. TimesInv'
    BY <1>2, <2>1, NothingRead
  <2> QED
    BY <2>2, <2>3, <2>4, <2>5 DEF QuotaInv
<1>6. ASSUME NEW r \in {-1} \cup wAccount.ends - Jitter .. wAccount.ends,
             wMonitor' = [W!Idle EXCEPT !.step = "reading", !.reset = r,
                                        !.remaining = wAccount.remaining,
                                        !.window = wAccount.window]
      PROVE  QuotaInv'
  <2>1. /\ wMonitor'.step = "reading" /\ wMonitor'.reset = r /\ wMonitor'.window = wAccount.window
        /\ wMonitor' \in [step : {"waiting", "reading"} \cup WHandling, remaining : {-1, 12, 9, 4},
                          reset : Int, window : Nat, key : Nat \X Int]
    <3> DEFINE m == [step |-> "reading", remaining |-> wAccount.remaining, reset |-> r,
                     window |-> wAccount.window, key |-> <<0, 0>>]
    <3>1. wMonitor' = m
      BY <1>6 DEF W!Idle, W!None
    <3>2. r \in Int /\ wAccount.remaining \in {-1, 12, 9, 4} /\ wAccount.window \in Nat
      BY <1>1
    <3> QED
      BY <3>1, <3>2
  <2>2. QuotaTypes' /\ LedgerInv' /\ ChatInv'
    BY <1>2, <2>1 DEF QuotaInv, QuotaTypes, LedgerInv, ChatInv, WHandling
  <2>3. TimesInv'
    <3> PICK ends, v : Told(ends, v)
      BY DEF QuotaInv, TimesInv
    <3>0. Ending(ends)' /\ Known(ends, v)' /\ SentIn(ends, v)'
      BY <1>2 DEF Told, Ending, Known, SentIn
    <3>2. /\ r # -1 => ends[wAccount.window] - Jitter <= r /\ r <= ends[wAccount.window]
          /\ wEntry.reset # -1 => v <= wAccount.window
          /\ wAccount.window \in 1..wAccount.window
      BY <1>1 DEF Told, Ending, Known
    <3>3. Read(ends, v)'
      BY <1>2, <2>1, <3>2 DEF Read, WHandling
    <3>1. Told(ends, v)'
      BY <3>0, <3>3 DEF Told
    <3> QED
      BY <3>1 DEF TimesInv
  <2> QED
    BY <2>2, <2>3 DEF QuotaInv
<1> QED
  BY <1>3, <1>4, <1>5, <1>6

WMonitors == [step : {"waiting", "reading"} \cup WHandling, remaining : {-1, 12, 9, 4},
              reset : Int, window : Nat, key : Nat \X Int]

\* The warning in hand goes from one step of its delivery to the next.
LEMMA HandOn ==
  ASSUME QuotaInv, wMonitor.step \in WHandling, NEW s \in WHandling,
         wMonitor' = [wMonitor EXCEPT !.step = s], UNCHANGED <<wNow, wAccount, wEntry, wEnabled>>
  PROVE  /\ wMonitor' \in WMonitors /\ wMonitor'.step = s /\ wMonitor'.key = wMonitor.key
         /\ wMonitor'.window = wMonitor.window /\ wMonitor'.reset = wMonitor.reset
         /\ wMonitor.key \in Nat \X {10, 5, 1} /\ wMonitor.key = <<wEntry.cycle, wEntry.pending>>
         /\ wChat' = wChat => TimesInv'
<1>1. /\ wMonitor' \in WMonitors /\ wMonitor'.step = s /\ wMonitor'.key = wMonitor.key
      /\ wMonitor'.window = wMonitor.window /\ wMonitor'.reset = wMonitor.reset
  BY DEF QuotaInv, QuotaTypes, WMonitors
<1>2. wMonitor.key \in Nat \X {10, 5, 1} /\ wMonitor.key = <<wEntry.cycle, wEntry.pending>>
  BY DEF QuotaInv, QuotaTypes, WEntries, WTiers, LedgerInv
<1>3. ASSUME wChat' = wChat PROVE TimesInv'
  <2> PICK ends, v : Told(ends, v)
    BY DEF QuotaInv, TimesInv
  <2>0. Ending(ends)' /\ Known(ends, v)' /\ Read(ends, v)' /\ SentIn(ends, v)'
    BY <1>1, <1>3 DEF Told, Ending, Known, Read, SentIn, WHandling
  <2>1. Told(ends, v)'
    BY <2>0 DEF Told
  <2> QED
    BY <2>1 DEF TimesInv
<1> QED
  BY <1>1, <1>2, <1>3

\* The record of the warning in hand changes, and is not that of a delivered one unless
\* the warning is the last that the chat shows.
LEMMA RecordChanges ==
  ASSUME QuotaInv, wMonitor.step \in WHandling, NEW s \in WHandling,
         wMonitor' = [wMonitor EXCEPT !.step = s],
         UNCHANGED <<wNow, wAccount, wEntry, wEnabled, wChat>>,
         NEW r \in WRecords, DOMAIN wLedger' = DOMAIN wLedger \cup {wMonitor.key},
         wLedger' \in [DOMAIN wLedger \cup {wMonitor.key} -> WRecords],
         wLedger'[wMonitor.key] = r,
         \A k \in DOMAIN wLedger \ {wMonitor.key} : wLedger'[k] = wLedger[k],
         s # "sent", s = "sending" => r.status = "in_flight",
         r.status = "delivered" => wMonitor.step = "sent",
         \/ \A i \in 1..Len(wChat) : wChat[i].key # wMonitor.key
         \/ s # "sending" /\ r.status # "retryable"
  PROVE  QuotaInv'
<1>1. /\ wMonitor' \in WMonitors /\ wMonitor'.step = s /\ wMonitor'.key = wMonitor.key
      /\ wMonitor.key \in Nat \X {10, 5, 1} /\ wMonitor.key = <<wEntry.cycle, wEntry.pending>>
      /\ wMonitor.key[1] = wEntry.cycle /\ wMonitor.key[2] = wEntry.pending
      /\ TimesInv'
  BY HandOn
<1>2. wLedger' \in [DOMAIN wLedger' -> WRecords] /\ DOMAIN wLedger' \subseteq Nat \X {10, 5, 1}
  BY <1>1 DEF QuotaInv, QuotaTypes
<1>3. QuotaTypes'
  BY <1>1, <1>2 DEF QuotaInv, QuotaTypes, WMonitors
<1>4. LedgerInv'
  <2>1. \A k \in DOMAIN wLedger' : k[1] <= wEntry.cycle
    BY <1>1 DEF QuotaInv, QuotaTypes, LedgerInv, WEntries
  <2>2. \A k \in DOMAIN wLedger' :
          k[1] = wEntry.cycle /\ wLedger'[k].status = "delivered" =>
             k[2] = wEntry.pending \/ (wEntry.notified # -1 /\ wEntry.notified <= k[2])
    BY <1>1 DEF QuotaInv, LedgerInv
  <2> QED
    BY <1>1, <2>1, <2>2 DEF QuotaInv, LedgerInv, WHandling
<1>5. ChatInv'
  <2>1. \A i \in 1..Len(wChat) :
          /\ wChat[i].key \in DOMAIN wLedger'
          /\ wLedger'[wChat[i].key].status \in {"in_flight", "delivered", "terminal"}
          /\ s = "sending" => wChat[i].key # wMonitor.key
    BY DEF QuotaInv, ChatInv, WRecords
  <2>2. \A i, j \in 1..Len(wChat) : i < j =>
          /\ wChat[i].key # wChat[j].key
          /\ wChat[i].key[1] = wChat[j].key[1] /\ wChat[i].key[2] < wChat[j].key[2]
                => wLedger'[wChat[i].key].status # "delivered"
    <3> SUFFICES ASSUME NEW i \in 1..Len(wChat), NEW j \in 1..Len(wChat), i < j
                 PROVE  /\ wChat[i].key # wChat[j].key
                        /\ wChat[i].key[1] = wChat[j].key[1] /\ wChat[i].key[2] < wChat[j].key[2]
                             => wLedger'[wChat[i].key].status # "delivered"
      OBVIOUS
    <3>1. /\ wChat[i].key # wChat[j].key /\ wChat[i].key \in DOMAIN wLedger
          /\ wChat[i].key[1] = wChat[j].key[1] /\ wChat[i].key[2] < wChat[j].key[2]
               => wLedger[wChat[i].key].status # "delivered"
      BY DEF QuotaInv, ChatInv
    <3>2. CASE wChat[i].key # wMonitor.key
      BY <3>1, <3>2
    <3>3. CASE wChat[i].key = wMonitor.key
      <4>1. wMonitor.step # "sent"
        <5> SUFFICES ASSUME wMonitor.step = "sent" PROVE FALSE
          OBVIOUS
        <5>1. Len(wChat) \in Nat /\ i < Len(wChat) /\ Len(wChat) \in 1..Len(wChat)
          BY DEF QuotaInv, QuotaTypes
        <5>2. wChat[Len(wChat)].key = wMonitor.key /\ wChat[i].key # wChat[Len(wChat)].key
          BY <5>1 DEF QuotaInv, ChatInv
        <5> QED
          BY <3>3, <5>2
      <4> QED
        BY <3>1, <3>3, <4>1
    <3> QED
      BY <3>2, <3>3
  <2> QED
    BY <1>1, <2>1, <2>2 DEF QuotaInv, ChatInv
<1> QED
  BY <1>1, <1>3, <1>4, <1>5 DEF QuotaInv

LEMMA DeliverKeeps == ASSUME QuotaInv, W!Deliver PROVE QuotaInv'
<1>1. /\ wMonitor.step = "intent" /\ wMonitor.step \in WHandling
      /\ UNCHANGED <<wNow, wAccount, wEntry, wEnabled, wChat>>
      /\ wLedger \in [DOMAIN wLedger -> WRecords] /\ wEntry.text \in Int
  BY DEF W!Deliver, WHandling, QuotaInv, QuotaTypes, WEntries
<1> DEFINE record == W!Record(wMonitor.key)
           k == wMonitor.key
<1>2. \/ \E s \in {"refused", "delivered", "terminal"} :
            wMonitor' = [wMonitor EXCEPT !.step = s] /\ UNCHANGED wLedger
      \/ /\ record.status = "in_flight"
         /\ wMonitor' = [wMonitor EXCEPT !.step = "terminal"]
         /\ wLedger' = [wLedger EXCEPT ![k].status = "terminal"]
      \/ /\ record.status \notin {"in_flight", "delivered", "terminal"}
         /\ wMonitor' = [wMonitor EXCEPT !.step = "sending"]
         /\ wLedger' = [l \in DOMAIN wLedger \cup {k} |->
                          IF l = k THEN [status |-> "in_flight", text |-> wEntry.text]
                          ELSE wLedger[l]]
  <2>1. CASE record.status # "none" /\ record.text # wEntry.text
    BY <2>1 DEF W!Deliver
  <2>2. CASE record.status \in {"delivered", "terminal"} /\ record.text = wEntry.text
    BY <2>2 DEF W!Deliver
  <2>3. CASE record.status = "in_flight" /\ record.text = wEntry.text
    BY <2>3 DEF W!Deliver
  <2>4. CASE record.status \notin {"in_flight", "delivered", "terminal"}
             /\ ~(record.status # "none" /\ record.text # wEntry.text)
    BY <2>4 DEF W!Deliver
  <2> QED
    BY <2>1, <2>2, <2>3, <2>4
<1>3. ASSUME NEW s \in {"refused", "delivered", "terminal"},
             wMonitor' = [wMonitor EXCEPT !.step = s], UNCHANGED wLedger
      PROVE  QuotaInv'
  <2>1. s \in WHandling
    BY DEF WHandling
  <2>2. /\ wMonitor' \in WMonitors /\ wMonitor'.step = s /\ wMonitor'.key = wMonitor.key
        /\ TimesInv'
    BY <1>1, <1>3, <2>1, HandOn
  <2>3. QuotaTypes'
    BY <1>1, <1>3, <2>2 DEF QuotaInv, QuotaTypes, WMonitors
  <2>4. LedgerInv' /\ ChatInv'
    BY <1>1, <1>3, <2>2 DEF QuotaInv, LedgerInv, ChatInv
  <2> QED
    BY <2>2, <2>3, <2>4 DEF QuotaInv
<1>4. CASE /\ record.status = "in_flight"
           /\ wMonitor' = [wMonitor EXCEPT !.step = "terminal"]
           /\ wLedger' = [wLedger EXCEPT ![k].status = "terminal"]
  <2>1. k \in DOMAIN wLedger
    BY <1>4 DEF W!Record, W!NoRecord
  <2> DEFINE r == [wLedger[k] EXCEPT !.status = "terminal"]
  <2>2. r \in WRecords /\ r.status = "terminal"
    BY <1>1, <2>1 DEF WRecords
  <2>3. wLedger' = [wLedger EXCEPT ![k] = r]
    BY <1>4
  <2> HIDE DEF r
  <2>4. /\ DOMAIN wLedger' = DOMAIN wLedger \cup {k} /\ wLedger' \in [DOMAIN wLedger \cup {k} -> WRecords]
        /\ wLedger'[k] = r /\ \A l \in DOMAIN wLedger \ {k} : wLedger'[l] = wLedger[l]
    BY <1>1, <2>1, <2>2, <2>3
  <2> QED
    BY <1>1, <1>4, <2>2, <2>4, RecordChanges DEF WHandling
<1>5. CASE /\ record.status \notin {"in_flight", "delivered", "terminal"}
           /\ wMonitor' = [wMonitor EXCEPT !.step = "sending"]
           /\ wLedger' = [l \in DOMAIN wLedger \cup {k} |->
                            IF l = k THEN [status |-> "in_flight", text |-> wEntry.text]
                            ELSE wLedger[l]]
  <2> DEFINE r == [status |-> "in_flight", text |-> wEntry.text]
  <2>1. r \in WRecords /\ r.status = "in_flight"
    BY <1>1 DEF WRecords
  <2>2. \A i \in 1..Len(wChat) : wChat[i].key # k
    BY <1>5 DEF W!Record, QuotaInv, ChatInv
  <2> HIDE DEF r
  <2>3. /\ DOMAIN wLedger' = DOMAIN wLedger \cup {k} /\ wLedger' \in [DOMAIN wLedger \cup {k} -> WRecords]
        /\ wLedger'[k] = r /\ \A l \in DOMAIN wLedger \ {k} : wLedger'[l] = wLedger[l]
    BY <1>1, <1>5, <2>1 DEF r
  <2> QED
    BY <1>1, <1>5, <2>1, <2>2, <2>3, RecordChanges DEF WHandling
<1> QED
  BY <1>2, <1>3, <1>4, <1>5

\* The provider failed, or the record of what it took is written.
LEMMA AnswerKeeps == ASSUME QuotaInv, W!SendFails \/ W!Acknowledge PROVE QuotaInv'
<1> DEFINE k == wMonitor.key
<1>1. /\ wMonitor.step \in {"sending", "sent"} /\ wMonitor.step \in WHandling
      /\ UNCHANGED <<wNow, wAccount, wEntry, wEnabled, wChat>>
      /\ wLedger \in [DOMAIN wLedger -> WRecords] /\ k \in DOMAIN wLedger
  BY DEF W!SendFails, W!Acknowledge, WHandling, QuotaInv, QuotaTypes, LedgerInv
<1>2. \E s \in {"retryable", "terminal", "delivered"} :
         /\ wMonitor' = [wMonitor EXCEPT !.step = s]
         /\ wLedger' = [wLedger EXCEPT ![k].status = s]
         /\ s = "delivered" => wMonitor.step = "sent"
         /\ s = "retryable" => wMonitor.step = "sending"
  BY DEF W!SendFails, W!Acknowledge
<1> PICK s \in {"retryable", "terminal", "delivered"} :
         /\ wMonitor' = [wMonitor EXCEPT !.step = s]
         /\ wLedger' = [wLedger EXCEPT ![k].status = s]
         /\ s = "delivered" => wMonitor.step = "sent"
         /\ s = "retryable" => wMonitor.step = "sending"
  BY <1>2
<1> DEFINE r == [wLedger[k] EXCEPT !.status = s]
<1>3. r \in WRecords /\ r.status = s
  BY <1>1 DEF WRecords
<1>4. wLedger' = [wLedger EXCEPT ![k] = r]
  OBVIOUS
<1> HIDE DEF r
<1>5. /\ DOMAIN wLedger' = DOMAIN wLedger \cup {k} /\ wLedger' \in [DOMAIN wLedger \cup {k} -> WRecords]
      /\ wLedger'[k] = r /\ \A l \in DOMAIN wLedger \ {k} : wLedger'[l] = wLedger[l]
  BY <1>1, <1>3, <1>4
<1>6. s = "retryable" => \A i \in 1..Len(wChat) : wChat[i].key # k
  BY DEF QuotaInv, ChatInv
<1> QED
  BY <1>1, <1>3, <1>5, <1>6, RecordChanges DEF WHandling

\* A warning reaches the chat.
LEMMA SendKeeps == ASSUME QuotaInv, W!Send PROVE QuotaInv'
<1> DEFINE k == wMonitor.key
           w == [window |-> wMonitor.window, key |-> wMonitor.key,
                 known |-> wMonitor.reset # -1, late |-> wMonitor.reset <= wNow + Jitter,
                 fresh |-> wEntry.drafted \in {0, wMonitor.window}]
<1>1. /\ wMonitor.step = "sending" /\ wMonitor.step \in WHandling /\ "sent" \in WHandling
      /\ wMonitor' = [wMonitor EXCEPT !.step = "sent"]
      /\ UNCHANGED <<wNow, wAccount, wEntry, wLedger, wEnabled>>
      /\ wChat' = IF wChat # <<>> /\ wChat[Len(wChat)].window = wMonitor.window
                  THEN Append(wChat, w) ELSE <<w>>
  BY DEF W!Send, WHandling, W!None
<1>2. /\ wMonitor' \in WMonitors /\ wMonitor'.step = "sent" /\ wMonitor'.key = k
      /\ wMonitor'.window = wMonitor.window /\ wMonitor'.reset = wMonitor.reset
      /\ k \in Nat \X {10, 5, 1} /\ k = <<wEntry.cycle, wEntry.pending>>
  BY <1>1, HandOn
<1>3. /\ w \in WSent /\ w.window = wMonitor.window /\ w.key = k
      /\ w.known => wMonitor.reset # -1
      /\ wMonitor.reset <= wNow + Jitter => w.late
      /\ wEntry.drafted \in {0, wMonitor.window} => w.fresh
  <2>1. wMonitor.window \in Nat /\ wMonitor.reset \in Int /\ wNow + Jitter \in Int
    BY QuotaAssumption DEF QuotaInv, QuotaTypes
  <2>2. w \in WSent
    BY <1>2, <2>1 DEF WSent
  <2>3. /\ w.window = wMonitor.window /\ w.key = k
        /\ w.known => wMonitor.reset # -1
        /\ wMonitor.reset <= wNow + Jitter => w.late
        /\ wEntry.drafted \in {0, wMonitor.window} => w.fresh
    OBVIOUS
  <2> QED
    BY <2>2, <2>3
<1> HIDE DEF w
<1>4. PICK m \in Nat \ {0} :
        /\ Len(wChat') = m /\ wChat' \in Seq(WSent) /\ wChat' # <<>> /\ wChat'[m] = w
        /\ \A i \in 1..m : i # m => /\ wChat'[i] = wChat[i] /\ i \in 1..Len(wChat)
                                    /\ wChat[i].window = wMonitor.window
  <2>1. wChat \in Seq(WSent) /\ Len(wChat) \in Nat
    BY DEF QuotaInv, QuotaTypes
  <2>2. CASE wChat # <<>> /\ wChat[Len(wChat)].window = wMonitor.window
    <3>1. \A i \in 1..Len(wChat) : wChat[i].window = wMonitor.window
      <4>1. Len(wChat) \in 1..Len(wChat)
        BY <2>1, <2>2
      <4> QED
        BY <2>2, <4>1 DEF QuotaInv, ChatInv
    <3>2. wChat' = Append(wChat, w)
      BY <1>1, <2>2
    <3>3. /\ Len(wChat') = Len(wChat) + 1 /\ wChat' \in Seq(WSent) /\ wChat' # <<>>
          /\ wChat'[Len(wChat) + 1] = w /\ \A i \in 1..Len(wChat) : wChat'[i] = wChat[i]
      BY <1>3, <2>1, <3>2
    <3> QED
      BY <2>1, <3>1, <3>3
  <2>3. CASE ~(wChat # <<>> /\ wChat[Len(wChat)].window = wMonitor.window)
    <3>1. wChat' = <<w>>
      BY <1>1, <2>3
    <3>2. Len(wChat') = 1 /\ wChat' \in Seq(WSent) /\ wChat' # <<>> /\ wChat'[1] = w
      BY <1>3, <3>1
    <3> QED
      BY <3>2
  <2> QED
    BY <2>2, <2>3
<1>5. QuotaTypes'
  BY <1>1, <1>2, <1>4 DEF QuotaInv, QuotaTypes, WMonitors
<1>6. LedgerInv'
  BY <1>1, <1>2 DEF QuotaInv, LedgerInv
<1> PICK ends, v : Told(ends, v)
  BY DEF QuotaInv, TimesInv
<1>7. /\ wMonitor.window \in 1..wAccount.window
      /\ wMonitor.reset # -1 => /\ wEntry.reset # -1 /\ v = wMonitor.window
                                /\ wMonitor.reset <= ends[wMonitor.window]
                                /\ wEntry.drafted \in {0, wMonitor.window}
      /\ ends \in [1..wAccount.window -> Int] /\ wMonitor.reset \in Int /\ wNow \in Nat /\ Jitter \in Nat
  <2>1. wMonitor.reset \in Int /\ wNow \in Nat /\ Jitter \in Nat
    BY QuotaAssumption DEF QuotaInv, QuotaTypes
  <2>2. /\ wMonitor.window \in 1..wAccount.window
        /\ wMonitor.reset # -1 => /\ wEntry.reset # -1 /\ v = wMonitor.window
                                  /\ wMonitor.reset <= ends[wMonitor.window]
    BY <1>1 DEF Told, Read
  <2>3. wEntry.drafted = 0 \/ wEntry.drafted = v
    BY DEF Told, Known
  <2> QED
    BY <2>1, <2>2, <2>3 DEF Told, Ending
<1>8. \A i \in 1..m : i # m =>
        /\ wChat[i].key \in DOMAIN wLedger /\ wChat[i].key \in Nat \X {10, 5, 1}
        /\ wChat[i].key # k
        /\ wChat[i].key[1] = k[1] /\ wChat[i].key[2] < k[2]
             => wLedger[wChat[i].key].status # "delivered"
        /\ wChat[i].known /\ w.known /\ ~w.late => wChat[i].key[1] = k[1]
  <2> SUFFICES ASSUME NEW i \in 1..m, i # m
               PROVE  /\ wChat[i].key \in DOMAIN wLedger /\ wChat[i].key \in Nat \X {10, 5, 1}
                      /\ wChat[i].key # k
                      /\ wChat[i].key[1] = k[1] /\ wChat[i].key[2] < k[2]
                           => wLedger[wChat[i].key].status # "delivered"
                      /\ wChat[i].known /\ w.known /\ ~w.late => wChat[i].key[1] = k[1]
    OBVIOUS
  <2>1. i \in 1..Len(wChat) /\ wChat[i].window = wMonitor.window
    BY <1>4
  <2>2. wChat[i].key \in DOMAIN wLedger /\ wChat[i].key # k
    BY <1>1, <2>1 DEF QuotaInv, ChatInv
  <2>3. wChat[i].key \in Nat \X {10, 5, 1}
    BY <2>2 DEF QuotaInv, QuotaTypes
  <2>4. ASSUME wChat[i].key[1] = k[1], wChat[i].key[2] < k[2], wLedger[wChat[i].key].status = "delivered"
        PROVE  FALSE
    <3>1. k[1] = wEntry.cycle /\ k[2] = wEntry.pending /\ k[2] \in {10, 5, 1} /\ wEntry \in WEntries
      BY <1>2 DEF QuotaInv, QuotaTypes
    <3>2. wChat[i].key[2] = wEntry.pending \/ (wEntry.notified # -1 /\ wEntry.notified <= wChat[i].key[2])
      BY <2>2, <2>4, <3>1 DEF QuotaInv, LedgerInv
    <3>3. wEntry.notified # -1 => wEntry.pending < wEntry.notified
      BY <3>1 DEF QuotaInv, LedgerInv
    <3>4. wChat[i].key[2] \in {10, 5, 1} /\ wEntry.notified \in WTiers
      BY <2>3, <3>1 DEF WEntries
    <3> QED
      BY <2>4, <3>1, <3>2, <3>3, <3>4 DEF WTiers
  <2>5. ASSUME wChat[i].known, w.known, ~w.late PROVE wChat[i].key[1] = k[1]
    <3>1. wMonitor.reset # -1 /\ ~(wMonitor.reset <= wNow + Jitter)
      BY <1>3, <2>5
    <3>2. ~(ends[wMonitor.window] <= wNow + Jitter)
      <4>1. ends[wMonitor.window] \in Int /\ wMonitor.reset <= ends[wMonitor.window]
        BY <1>7, <3>1
      <4> QED
        BY <1>7, <3>1, <4>1
    <3>3. \/ wMonitor.window < v
          \/ wMonitor.window = v /\ wEntry.cycle = wChat[i].key[1]
      BY <2>1, <2>5, <3>2 DEF Told, SentIn
    <3>4. v = wMonitor.window /\ wMonitor.window \in Nat
      BY <1>7, <3>1
    <3> QED
      BY <1>2, <3>3, <3>4
  <2> QED
    BY <2>2, <2>3, <2>4, <2>5
<1>9. ChatInv'
  <2>1. \A i \in 1..m :
          /\ wChat'[i].key \in DOMAIN wLedger
          /\ wLedger[wChat'[i].key].status \in {"in_flight", "delivered", "terminal"}
          /\ wChat'[i].known => wChat'[i].fresh
    <3> SUFFICES ASSUME NEW i \in 1..m
                 PROVE  /\ wChat'[i].key \in DOMAIN wLedger
                        /\ wLedger[wChat'[i].key].status \in {"in_flight", "delivered", "terminal"}
                        /\ wChat'[i].known => wChat'[i].fresh
      OBVIOUS
    <3>1. CASE i # m
      BY <1>4, <3>1 DEF QuotaInv, ChatInv
    <3>2. CASE i = m
      BY <1>1, <1>3, <1>4, <1>7, <3>2 DEF QuotaInv, LedgerInv
    <3> QED
      BY <3>1, <3>2
  <2>2. \A i, j \in 1..m :
          /\ wChat'[i].window = wChat'[j].window
          /\ i < j =>
               /\ wChat'[i].key # wChat'[j].key
               /\ wChat'[i].key[1] = wChat'[j].key[1] /\ wChat'[i].key[2] < wChat'[j].key[2]
                     => wLedger[wChat'[i].key].status # "delivered"
               /\ wChat'[i].known /\ wChat'[j].known /\ ~wChat'[j].late
                     => wChat'[i].key[1] = wChat'[j].key[1]
    <3> SUFFICES ASSUME NEW i \in 1..m, NEW j \in 1..m
                 PROVE  /\ wChat'[i].window = wChat'[j].window
                        /\ i < j =>
                             /\ wChat'[i].key # wChat'[j].key
                             /\ wChat'[i].key[1] = wChat'[j].key[1] /\ wChat'[i].key[2] < wChat'[j].key[2]
                                  => wLedger[wChat'[i].key].status # "delivered"
                             /\ wChat'[i].known /\ wChat'[j].known /\ ~wChat'[j].late
                                  => wChat'[i].key[1] = wChat'[j].key[1]
      OBVIOUS
    <3>1. wChat'[i].window = wChat'[j].window
      BY <1>3, <1>4
    <3>2. CASE i # m /\ j # m
      BY <1>4, <3>2 DEF QuotaInv, ChatInv
    <3>3. CASE i # m /\ j = m
      BY <1>3, <1>4, <1>8, <3>1, <3>3
    <3>4. i = m => ~(i < j)
      OBVIOUS
    <3> QED
      BY <3>1, <3>2, <3>3, <3>4
  <2>3. /\ wLedger' = wLedger /\ Len(wChat') = m /\ wMonitor'.step = "sent"
        /\ wChat' # <<>> /\ wChat'[m].key = wMonitor'.key
    BY <1>1, <1>2, <1>3, <1>4
  <2> QED
    BY <2>1, <2>2, <2>3 DEF ChatInv
<1>10. TimesInv'
  <2>1. \A i \in 1..m :
         /\ wChat'[i].window \in 1..wAccount.window
         /\ wChat'[i].known =>
              \/ ends[wChat'[i].window] <= wNow + Jitter
              \/ /\ wEntry.reset # -1
                 /\ \/ wChat'[i].window < v
                    \/ wChat'[i].window = v /\ wEntry.cycle = wChat'[i].key[1]
    <3> SUFFICES ASSUME NEW i \in 1..m
                 PROVE  /\ wChat'[i].window \in 1..wAccount.window
                        /\ wChat'[i].known =>
                             \/ ends[wChat'[i].window] <= wNow + Jitter
                             \/ /\ wEntry.reset # -1
                                /\ \/ wChat'[i].window < v
                                   \/ wChat'[i].window = v /\ wEntry.cycle = wChat'[i].key[1]
      OBVIOUS
    <3>1. CASE i # m
      BY <1>4, <3>1 DEF Told, SentIn
    <3>2. CASE i = m
      BY <1>2, <1>3, <1>4, <1>7, <3>2
    <3> QED
      BY <3>1, <3>2
  <2>2. Ending(ends)' /\ Known(ends, v)' /\ Read(ends, v)'
    BY <1>1, <1>2 DEF Told, Ending, Known, Read
  <2>3. SentIn(ends, v)'
    BY <1>1, <1>4, <2>1 DEF SentIn
  <2>4. Told(ends, v)'
    BY <2>2, <2>3 DEF Told
  <2> QED
    BY <2>4 DEF TimesInv
<1> QED
  BY <1>5, <1>6, <1>9, <1>10 DEF QuotaInv

\* The outcome is written down in the record that owes the warning.
LEMMA ResultKeeps == ASSUME QuotaInv, W!RecordResult PROVE QuotaInv'
<1>1. /\ wMonitor.step \in {"delivered", "terminal", "refused", "retryable"}
      /\ wMonitor.step \in WHandling /\ wEntry \in WEntries
      /\ wMonitor' = W!Idle /\ UNCHANGED <<wNow, wAccount, wLedger, wEnabled, wChat>>
      /\ wMonitor.key = <<wEntry.cycle, wEntry.pending>> /\ wEntry.pending # -1
  BY DEF W!RecordResult, WHandling, QuotaInv, QuotaTypes, LedgerInv
<1>2. \/ wEntry' = wEntry
      \/ wEntry' = [wEntry EXCEPT !.terminal = TRUE]
      \/ wEntry' = [wEntry EXCEPT !.notified = wEntry.pending, !.pending = -1,
                                  !.text = -1, !.drafted = 0, !.terminal = FALSE]
  BY <1>1 DEF W!RecordResult, W!None
<1>3. \E e \in WEntries :
        /\ wEntry' = e /\ e.cycle = wEntry.cycle /\ e.reset = wEntry.reset
        /\ e.drafted \in {0, wEntry.drafted}
        /\ \/ e.pending = wEntry.pending /\ e.notified = wEntry.notified
           \/ e.pending = -1 /\ e.notified = wEntry.pending
  <2>1. CASE wEntry' = wEntry
    BY <1>1, <2>1
  <2>2. CASE wEntry' = [wEntry EXCEPT !.terminal = TRUE]
    <3> DEFINE e == [wEntry EXCEPT !.terminal = TRUE]
    <3>1. /\ e \in WEntries /\ e.cycle = wEntry.cycle /\ e.reset = wEntry.reset
          /\ e.drafted = wEntry.drafted /\ e.pending = wEntry.pending /\ e.notified = wEntry.notified
      BY <1>1 DEF WEntries
    <3> HIDE DEF e
    <3> QED
      BY <2>2, <3>1 DEF e
  <2>3. CASE wEntry' = [wEntry EXCEPT !.notified = wEntry.pending, !.pending = -1,
                                      !.text = -1, !.drafted = 0, !.terminal = FALSE]
    <3> DEFINE e == [wEntry EXCEPT !.notified = wEntry.pending, !.pending = -1,
                                   !.text = -1, !.drafted = 0, !.terminal = FALSE]
    <3>1. e.cycle = wEntry.cycle /\ e.reset = wEntry.reset
          /\ e.drafted = 0 /\ e.pending = -1 /\ e.notified = wEntry.pending
      BY <1>1 DEF WEntries, WTiers
    <3>2. /\ wEntry.pending \in WTiers /\ -1 \in WTiers /\ -1 \in Int /\ 0 \in Nat
          /\ FALSE \in BOOLEAN
      BY <1>1 DEF WEntries, WTiers
    <3>3. e \in WEntries
      BY <1>1, <3>2, ZenonT(30) DEF WEntries
    <3> HIDE DEF e
    <3> QED
      BY <2>3, <3>1, <3>3 DEF e
  <2> QED
    BY <1>2, <2>1, <2>2, <2>3
<1> PICK e \in WEntries :
        /\ wEntry' = e /\ e.cycle = wEntry.cycle /\ e.reset = wEntry.reset
        /\ e.drafted \in {0, wEntry.drafted}
        /\ \/ e.pending = wEntry.pending /\ e.notified = wEntry.notified
           \/ e.pending = -1 /\ e.notified = wEntry.pending
  BY <1>3
<1>4. wMonitor' \in WMonitors /\ wMonitor'.step = "waiting"
  BY <1>1 DEF W!Idle, W!None, WMonitors
<1>5. QuotaTypes'
  BY <1>1, <1>4 DEF QuotaInv, QuotaTypes, WMonitors
<1>6. LedgerInv'
  <2>1. \A k \in DOMAIN wLedger : k \in Nat \X {10, 5, 1} /\ k[2] \in {10, 5, 1}
    BY DEF QuotaInv, QuotaTypes
  <2>2. \A k \in DOMAIN wLedger :
          k[1] = e.cycle /\ wLedger[k].status = "delivered" =>
             k[2] = e.pending \/ (e.notified # -1 /\ e.notified <= k[2])
    <3> SUFFICES ASSUME NEW k \in DOMAIN wLedger, k[1] = e.cycle, wLedger[k].status = "delivered"
                 PROVE  k[2] = e.pending \/ (e.notified # -1 /\ e.notified <= k[2])
      OBVIOUS
    <3>1. k[2] = wEntry.pending \/ (wEntry.notified # -1 /\ wEntry.notified <= k[2])
      BY DEF QuotaInv, LedgerInv
    <3>2. wEntry.notified # -1 => wEntry.pending < wEntry.notified
      BY <1>1 DEF QuotaInv, LedgerInv
    <3>3. wEntry.pending \in WTiers /\ wEntry.notified \in WTiers
      BY <1>1 DEF WEntries
    <3> QED
      BY <1>1, <2>1, <3>1, <3>2, <3>3 DEF WTiers
  <2> QED
    BY <1>1, <1>4, <2>2 DEF QuotaInv, LedgerInv, WHandling
<1>7. ChatInv'
  BY <1>1, <1>4 DEF QuotaInv, ChatInv
<1>8. TimesInv'
  <2> PICK ends, v : Told(ends, v)
    BY DEF QuotaInv, TimesInv
  <2>0. Ending(ends)' /\ Known(ends, v)' /\ Read(ends, v)' /\ SentIn(ends, v)'
    BY <1>1, <1>4 DEF Told, Ending, Known, Read, SentIn, WHandling
  <2>1. Told(ends, v)'
    BY <2>0 DEF Told
  <2> QED
    BY <2>1 DEF TimesInv
<1> QED
  BY <1>5, <1>6, <1>7, <1>8 DEF QuotaInv

\* What an observation makes of the record, before it owes another warning: a new cycle
\* begins with nothing owed, or the cycle goes on and what was delivered is known.
Renewed(reset, e) ==
    /\ e.cycle = wEntry.cycle + 1 /\ e.notified = -1 /\ e.pending = -1 /\ e.drafted = 0
    /\ e.reset = reset
    /\ \/ wEntry.reset = -1
       \/ wEntry.reset <= wNow
       \/ reset # -1 /\ reset - wEntry.reset > 1
Continued(reset, e) ==
    /\ e.cycle = wEntry.cycle /\ wEntry.cycle # 0 /\ e.drafted \in {0, wEntry.drafted}
    /\ e.reset = IF wEntry.reset = -1 THEN reset ELSE wEntry.reset
    /\ reset # -1 /\ wEntry.reset # -1 => reset - wEntry.reset <= 1
    /\ \/ /\ e.notified = wEntry.notified /\ e.pending \in {-1, wEntry.pending}
          /\ \/ wEntry.pending = -1
             \/ W!Record(<<wEntry.cycle, wEntry.pending>>).status # "delivered"
       \/ e.notified = wEntry.pending /\ e.pending = -1 /\ wEntry.pending # -1

LEMMA ReconciledIs ==
  ASSUME wEntry \in WEntries
  PROVE  LET e == W!Reconciled(wEntry) IN
         /\ e \in WEntries /\ e.cycle = wEntry.cycle /\ e.reset = wEntry.reset
         /\ e.remaining = wEntry.remaining
         /\ e.drafted \in {0, wEntry.drafted}
         /\ \/ /\ e.notified = wEntry.notified /\ e.pending = wEntry.pending
               /\ \/ wEntry.pending = -1
                  \/ W!Record(<<wEntry.cycle, wEntry.pending>>).status # "delivered"
            \/ e.notified = wEntry.pending /\ e.pending = -1 /\ wEntry.pending # -1
<1> DEFINE e == W!Reconciled(wEntry)
           status == IF wEntry.pending = -1 THEN "none"
                     ELSE W!Record(<<wEntry.cycle, wEntry.pending>>).status
<1>1. CASE status = "delivered"
  <2>1. e = [wEntry EXCEPT !.notified = wEntry.pending, !.pending = -1,
                           !.text = -1, !.drafted = 0, !.terminal = FALSE]
    BY <1>1 DEF W!Reconciled, W!None
  <2>2. wEntry.pending # -1
    BY <1>1
  <2> HIDE DEF e
  <2>3. /\ e.cycle = wEntry.cycle /\ e.reset = wEntry.reset /\ e.remaining = wEntry.remaining
        /\ e.drafted = 0 /\ e.pending = -1 /\ e.notified = wEntry.pending
    BY <2>1 DEF WEntries, WTiers
  <2>4. /\ wEntry.pending \in WTiers /\ -1 \in WTiers /\ -1 \in Int /\ 0 \in Nat
        /\ FALSE \in BOOLEAN
    BY DEF WEntries, WTiers
  <2>5. e \in WEntries
    BY <2>1, <2>4, ZenonT(30) DEF WEntries
  <2> QED
    BY <2>2, <2>3, <2>5 DEF e
<1>2. CASE status = "terminal"
  <2>1. e = [wEntry EXCEPT !.terminal = TRUE]
    BY <1>2 DEF W!Reconciled, W!None
  <2>2. wEntry.pending = -1 \/ W!Record(<<wEntry.cycle, wEntry.pending>>).status # "delivered"
    BY <1>2
  <2> HIDE DEF e
  <2> QED
    BY <2>1, <2>2 DEF WEntries, WTiers, e
<1>3. CASE status \notin {"delivered", "terminal"}
  <2>1. e = wEntry
    BY <1>3 DEF W!Reconciled, W!None
  <2>2. wEntry.pending = -1 \/ W!Record(<<wEntry.cycle, wEntry.pending>>).status # "delivered"
    BY <1>3
  <2> HIDE DEF e
  <2> QED
    BY <2>1, <2>2 DEF e
<1> QED
  BY <1>1, <1>2, <1>3

LEMMA ObservedIs ==
  ASSUME QuotaInv, NEW reset \in Int, NEW remaining \in {-1, 12, 9, 4}
  PROVE  LET e == W!Observed(reset, remaining) IN
         e \in WEntries /\ e.remaining = remaining /\ (Renewed(reset, e) \/ Continued(reset, e))
<1>1. wEntry \in WEntries /\ wNow \in Nat
  BY QuotaAssumption DEF QuotaInv, QuotaTypes
<1> DEFINE e1 == W!Reconciled(wEntry)
           clear(f) == [f EXCEPT !.pending = -1, !.text = -1, !.drafted = 0, !.terminal = FALSE]
           last(f) == IF W!Tier(remaining) = -1 THEN clear([f EXCEPT !.remaining = remaining])
                      ELSE [f EXCEPT !.remaining = remaining]
<1>2. ASSUME NEW f \in WEntries
      PROVE  /\ last(f) \in WEntries /\ last(f).remaining = remaining
             /\ last(f).cycle = f.cycle /\ last(f).notified = f.notified /\ last(f).reset = f.reset
             /\ last(f).pending \in {-1, f.pending} /\ last(f).drafted \in {0, f.drafted}
  <2> DEFINE g == [f EXCEPT !.remaining = remaining]
             h == clear(g)
  <2>1. /\ g \in WEntries /\ g.remaining = remaining /\ g.cycle = f.cycle
        /\ g.notified = f.notified /\ g.reset = f.reset /\ g.pending = f.pending
        /\ g.drafted = f.drafted
    BY DEF WEntries
  <2> HIDE DEF g
  <2>2. /\ h.remaining = remaining /\ h.cycle = f.cycle
        /\ h.notified = f.notified /\ h.reset = f.reset /\ h.pending = -1
        /\ h.drafted = 0
    BY <2>1 DEF WEntries, WTiers
  <2>4. -1 \in WTiers /\ -1 \in Int /\ 0 \in Nat /\ FALSE \in BOOLEAN
    BY DEF WTiers
  <2>5. h \in WEntries
    BY <2>1, <2>4, ZenonT(30) DEF WEntries
  <2>3. last(f) = g \/ last(f) = h
    BY DEF g
  <2> HIDE DEF h, last
  <2> QED
    BY <2>1, <2>2, <2>3, <2>5
<1>3. CASE wEntry.cycle = 0
  <2> DEFINE f == [wEntry EXCEPT !.cycle = 1, !.reset = reset]
  <2>1. /\ f \in WEntries /\ f.cycle = 1 /\ f.reset = reset /\ f.notified = -1 /\ f.pending = -1
        /\ f.drafted = 0 /\ wEntry.reset = -1
    <3>0. wEntry.reset = -1 /\ wEntry.notified = -1 /\ wEntry.pending = -1
      BY <1>3 DEF QuotaInv, LedgerInv
    <3>1. wEntry.reset = -1 /\ wEntry.notified = -1 /\ wEntry.pending = -1 /\ wEntry.drafted = 0
      BY <3>0 DEF QuotaInv, TimesInv, Told, Known
    <3> QED
      BY <1>1, <3>1 DEF WEntries
  <2>2. W!Observed(reset, remaining) = last(f) \/ W!Observed(reset, remaining) = last([f EXCEPT !.reset = reset])
    BY <1>3 DEF W!Observed, W!None
  <2>3. [f EXCEPT !.reset = reset] = f
    BY <2>1 DEF WEntries
  <2> HIDE DEF f, last
  <2>4. W!Observed(reset, remaining) = last(f)
    BY <2>2, <2>3
  <2> QED
    BY <1>2, <1>3, <2>1, <2>4 DEF Renewed
<1>4. CASE wEntry.cycle # 0
  <2>1. /\ e1 \in WEntries /\ e1.cycle = wEntry.cycle /\ e1.reset = wEntry.reset
        /\ e1.remaining = wEntry.remaining /\ e1.drafted \in {0, wEntry.drafted}
        /\ \/ /\ e1.notified = wEntry.notified /\ e1.pending = wEntry.pending
              /\ \/ wEntry.pending = -1
                 \/ W!Record(<<wEntry.cycle, wEntry.pending>>).status # "delivered"
           \/ e1.notified = wEntry.pending /\ e1.pending = -1 /\ wEntry.pending # -1
    BY <1>1, ReconciledIs
  <2>2. CASE W!IsNewCycle(e1, reset, remaining)
    <3> DEFINE f == W!NewCycle(e1, reset)
    <3>1. W!Observed(reset, remaining) = last(f)
      BY <1>4, <2>2 DEF W!Observed, W!None
    <3>2. \/ wEntry.reset = -1
          \/ wEntry.reset <= wNow
          \/ reset # -1 /\ reset - wEntry.reset > 1
      BY <2>1, <2>2 DEF W!IsNewCycle, W!None, W!RESET_TOLERANCE_SECONDS
    <3> HIDE DEF e1
    <3>4. /\ f.cycle = wEntry.cycle + 1 /\ f.reset = reset /\ f.notified = -1
          /\ f.pending = -1 /\ f.drafted = 0
      BY <2>1 DEF W!NewCycle, W!None, WEntries, WTiers
    <3>5. /\ -1 \in WTiers /\ -1 \in Int /\ 0 \in Nat /\ FALSE \in BOOLEAN /\ reset \in Int
          /\ e1.cycle + 1 \in Nat
      BY <2>1 DEF WTiers, WEntries
    <3>6. f \in WEntries
      BY <2>1, <3>5, ZenonT(30) DEF W!NewCycle, W!None, WEntries
    <3>3. /\ f \in WEntries /\ f.cycle = wEntry.cycle + 1 /\ f.reset = reset /\ f.notified = -1
          /\ f.pending = -1 /\ f.drafted = 0
      BY <3>4, <3>6
    <3> HIDE DEF f, last
    <3> QED
      BY <1>2, <3>1, <3>2, <3>3 DEF Renewed
  <2>3. CASE ~W!IsNewCycle(e1, reset, remaining)
    <3> DEFINE f == IF e1.reset = -1 THEN [e1 EXCEPT !.reset = reset] ELSE e1
    <3>1. W!Observed(reset, remaining) = last(f)
      BY <1>4, <2>3 DEF W!Observed, W!None
    <3>2. reset # -1 /\ wEntry.reset # -1 => reset - wEntry.reset <= 1
      <4>1. wEntry.reset \in Int
        BY <1>1 DEF WEntries
      <4> QED
        BY <2>1, <2>3, <4>1 DEF W!IsNewCycle, W!None, W!RESET_TOLERANCE_SECONDS
    <3> HIDE DEF e1
    <3>3. /\ f \in WEntries /\ f.cycle = wEntry.cycle /\ f.notified = e1.notified
          /\ f.reset = (IF wEntry.reset = -1 THEN reset ELSE wEntry.reset)
          /\ f.pending = e1.pending /\ f.drafted = e1.drafted
      <4>1. CASE e1.reset = -1
        <5> DEFINE g == [e1 EXCEPT !.reset = reset]
        <5>1. /\ g \in WEntries /\ g.cycle = e1.cycle /\ g.notified = e1.notified
              /\ g.reset = reset /\ g.pending = e1.pending /\ g.drafted = e1.drafted
          BY <2>1 DEF WEntries
        <5> HIDE DEF g
        <5> QED
          BY <2>1, <4>1, <5>1 DEF g
      <4>2. CASE e1.reset # -1
        BY <2>1, <4>2
      <4> QED
        BY <4>1, <4>2
    <3> HIDE DEF f, last
    <3> QED
      BY <1>2, <1>4, <2>1, <3>1, <3>2, <3>3 DEF Continued
  <2> QED
    BY <2>2, <2>3
<1> QED
  BY <1>3, <1>4

LEMMA TierIs == \A r \in {-1, 12, 9, 4} : W!Tier(r) \in WTiers
<1> SUFFICES ASSUME NEW r \in {-1, 12, 9, 4} PROVE W!Tier(r) \in WTiers
  OBVIOUS
<1> DEFINE Low(t) == r <= t /\ \A u \in {10, 5, 1} : r <= u => t <= u
<1>1. (\E t \in {10, 5, 1} : r <= t) => \E t \in {10, 5, 1} : Low(t)
  BY r = -1 => Low(1), r = 9 => Low(10), r = 4 => Low(5)
<1>2. W!Tier(r) = IF \E t \in {10, 5, 1} : r <= t THEN CHOOSE t \in {10, 5, 1} : Low(t) ELSE -1
  BY DEF W!Tier, W!THRESHOLDS, W!None
<1> HIDE DEF Low
<1>3. (\E t \in {10, 5, 1} : Low(t)) => (CHOOSE t \in {10, 5, 1} : Low(t)) \in {10, 5, 1}
  OBVIOUS
<1> QED
  BY <1>1, <1>2, <1>3 DEF WTiers

\* What the record is after an observation, and that a warning in hand is what it owes.
LEMMA PreparedIs ==
  ASSUME QuotaInv, W!Prepare
  PROVE  \/ wMonitor' = W!Idle /\ UNCHANGED wEntry
         \/ \E d \in WEntries :
              /\ wEntry' = d
              /\ \E e \in WEntries :
                   /\ Renewed(wMonitor.reset, e) \/ Continued(wMonitor.reset, e)
                   /\ d.cycle = e.cycle /\ d.notified = e.notified /\ d.reset = e.reset
                   /\ d.pending = e.pending \/ (d.notified # -1 => d.pending < d.notified)
                   /\ \/ d.drafted \in {0, e.drafted}
                      \/ wMonitor.reset # -1 /\ d.drafted = wMonitor.window
              /\ \/ wMonitor' = W!Idle
                 \/ /\ d.pending # -1
                    /\ wMonitor' = [wMonitor EXCEPT !.step = "intent", !.key = <<d.cycle, d.pending>>]
<1>1. /\ wMonitor \in WMonitors /\ wNow \in Nat
  BY QuotaAssumption DEF QuotaInv, QuotaTypes, WMonitors
<1> DEFINE reset == wMonitor.reset
           e == W!Observed(reset, wMonitor.remaining)
           tier == W!Tier(e.remaining)
           quiet == W!Quiet(e, reset)
           d == IF quiet THEN e ELSE W!Drafted(e)
<1>2. /\ e \in WEntries /\ e.remaining = wMonitor.remaining
      /\ Renewed(reset, e) \/ Continued(reset, e)
  BY <1>1, ObservedIs DEF WMonitors
<1>3. \/ wMonitor' = W!Idle /\ UNCHANGED wEntry
      \/ /\ wEntry' = d
         /\ \/ wMonitor' = W!Idle
            \/ ~quiet /\ wMonitor' = [wMonitor EXCEPT !.step = "intent", !.key = <<d.cycle, d.pending>>]
  BY DEF W!Prepare
<1>4. tier \in WTiers
  BY <1>1, <1>2, TierIs DEF WMonitors
<1>5. ~quiet => tier # -1 /\ (e.notified # -1 => tier < e.notified)
  <2> SUFFICES ASSUME ~quiet PROVE tier # -1 /\ (e.notified # -1 => tier < e.notified)
    OBVIOUS
  <2>1. tier # -1 /\ ~(e.notified # -1 /\ tier >= e.notified)
    BY DEF W!Quiet, W!None
  <2>2. e.notified \in WTiers
    BY <1>2 DEF WEntries
  <2> HIDE DEF tier, quiet, e
  <2> QED
    BY <1>4, <2>1, <2>2 DEF WTiers
<1>6. quiet => d = e
  OBVIOUS
<1>7. ~quiet => /\ d \in WEntries /\ d.cycle = e.cycle /\ d.notified = e.notified
                /\ d.reset = e.reset /\ d.pending = tier
                /\ d.drafted \in {0, e.drafted} \/ (reset # -1 /\ d.drafted = wMonitor.window)
  <2> SUFFICES ASSUME ~quiet
               PROVE  /\ d \in WEntries /\ d.cycle = e.cycle /\ d.notified = e.notified
                      /\ d.reset = e.reset /\ d.pending = tier
                      /\ d.drafted \in {0, e.drafted} \/ (reset # -1 /\ d.drafted = wMonitor.window)
    OBVIOUS
  <2>1. CASE e.pending = tier
    <3>1. d = e
      BY <2>1 DEF W!Drafted
    <3> HIDE DEF d, e, tier
    <3> QED
      BY <1>2, <2>1, <3>1
  <2>2. CASE e.pending # tier
    <3> DEFINE w == IF reset = -1 THEN 0 ELSE wMonitor.window
               f == [e EXCEPT !.pending = tier, !.text = wNow, !.drafted = w, !.terminal = FALSE]
    <3>1. d = f
      BY <2>2 DEF W!Drafted, W!None
    <3>2. w \in Nat /\ (w = 0 \/ (reset # -1 /\ w = wMonitor.window))
      BY <1>1 DEF WMonitors
    <3> HIDE DEF d, e, tier, w
    <3>4. /\ f.cycle = e.cycle /\ f.notified = e.notified
          /\ f.reset = e.reset /\ f.pending = tier /\ f.drafted = w
      BY <1>2 DEF WEntries
    <3>5. wNow \in Int /\ FALSE \in BOOLEAN
      BY <1>1
    <3>6. f \in WEntries
      BY <1>2, <1>4, <3>2, <3>5, ZenonT(30) DEF WEntries
    <3>3. /\ f \in WEntries /\ f.cycle = e.cycle /\ f.notified = e.notified
          /\ f.reset = e.reset /\ f.pending = tier /\ f.drafted = w
      BY <3>4, <3>6
    <3> HIDE DEF f
    <3> QED
      BY <3>1, <3>2, <3>3
  <2> QED
    BY <2>1, <2>2
<1> HIDE DEF d, e, quiet, tier
<1>8. CASE quiet
  BY <1>2, <1>3, <1>6, <1>8
<1>9. CASE ~quiet
  <2>1. \E f \in WEntries :
          /\ Renewed(reset, f) \/ Continued(reset, f)
          /\ d.cycle = f.cycle /\ d.notified = f.notified /\ d.reset = f.reset
          /\ d.pending = f.pending \/ (d.notified # -1 => d.pending < d.notified)
          /\ \/ d.drafted \in {0, f.drafted}
             \/ reset # -1 /\ d.drafted = wMonitor.window
    <3>1. d.notified # -1 => d.pending < d.notified
      BY <1>5, <1>7, <1>9
    <3> QED
      BY <1>2, <1>7, <1>9, <3>1
  <2>2. d \in WEntries /\ d.pending # -1
    BY <1>5, <1>7, <1>9
  <2>3. CASE wMonitor' = W!Idle /\ UNCHANGED wEntry
    BY <2>3
  <2>4. CASE wEntry' = d /\ wMonitor' = W!Idle
    BY <2>1, <2>2, <2>4
  <2>5. CASE /\ wEntry' = d
             /\ wMonitor' = [wMonitor EXCEPT !.step = "intent", !.key = <<d.cycle, d.pending>>]
    BY <2>1, <2>2, <2>5
  <2> QED
    BY <1>3, <2>3, <2>4, <2>5
<1> QED
  BY <1>8, <1>9

LEMMA PrepareKeeps == ASSUME QuotaInv, W!Prepare PROVE QuotaInv'
<1>1. /\ wMonitor.step = "reading" /\ UNCHANGED <<wNow, wAccount, wLedger, wEnabled, wChat>>
      /\ wMonitor \in WMonitors /\ wEntry \in WEntries
  BY DEF W!Prepare, QuotaInv, QuotaTypes, WMonitors
<1>2. CASE wMonitor' = W!Idle /\ UNCHANGED wEntry
  <2>1. wMonitor' \in WMonitors /\ wMonitor'.step = "waiting"
    BY <1>2 DEF W!Idle, W!None, WMonitors
  <2>2. QuotaTypes' /\ LedgerInv' /\ ChatInv'
    BY <1>1, <1>2, <2>1 DEF QuotaInv, QuotaTypes, LedgerInv, ChatInv, WMonitors, WHandling
  <2>3. TimesInv'
    BY <1>1, <1>2, <2>1, NothingRead
  <2> QED
    BY <2>2, <2>3 DEF QuotaInv
<1>3. ASSUME NEW d \in WEntries, NEW e \in WEntries, wEntry' = d,
             Renewed(wMonitor.reset, e) \/ Continued(wMonitor.reset, e),
             d.cycle = e.cycle, d.notified = e.notified, d.reset = e.reset,
             d.pending = e.pending \/ (d.notified # -1 => d.pending < d.notified),
             \/ d.drafted \in {0, e.drafted}
             \/ wMonitor.reset # -1 /\ d.drafted = wMonitor.window,
             \/ wMonitor' = W!Idle
             \/ /\ d.pending # -1
                /\ wMonitor' = [wMonitor EXCEPT !.step = "intent", !.key = <<d.cycle, d.pending>>]
      PROVE  QuotaInv'
  <2>1. /\ wMonitor' \in WMonitors
        /\ \/ wMonitor'.step = "waiting"
           \/ /\ wMonitor'.step = "intent" /\ d.pending # -1
              /\ wMonitor'.key = <<d.cycle, d.pending>> /\ wMonitor'.window = wMonitor.window
              /\ wMonitor'.reset = wMonitor.reset
    <3>1. CASE wMonitor' = W!Idle
      BY <3>1 DEF W!Idle, W!None, WMonitors
    <3>2. CASE /\ d.pending # -1
               /\ wMonitor' = [wMonitor EXCEPT !.step = "intent", !.key = <<d.cycle, d.pending>>]
      <4>1. <<d.cycle, d.pending>> \in Nat \X Int
        BY DEF WEntries, WTiers
      <4> QED
        BY <1>1, <3>2, <4>1 DEF WMonitors, WHandling
    <3> QED
      BY <1>3, <3>1, <3>2
  <2>2. QuotaTypes'
    BY <1>1, <1>3, <2>1 DEF QuotaInv, QuotaTypes, WMonitors
  <2>3. LedgerInv'
    <3>1. \A k \in DOMAIN wLedger :
            /\ k \in Nat \X {10, 5, 1} /\ k[1] \in Nat /\ k[2] \in {10, 5, 1}
            /\ k = <<k[1], k[2]>> /\ k[1] <= wEntry.cycle
      BY DEF QuotaInv, QuotaTypes, LedgerInv
    <3>2. /\ wEntry.cycle \in Nat /\ wEntry.pending \in WTiers /\ wEntry.notified \in WTiers
          /\ wEntry.pending # -1 /\ wEntry.notified # -1 => wEntry.pending < wEntry.notified
      BY <1>1 DEF QuotaInv, LedgerInv, WEntries
    <3>3. d.cycle \in Nat \ {0} /\ wEntry.cycle <= d.cycle
      BY <1>3, <3>2 DEF Renewed, Continued
    <3>4. d.pending # -1 /\ d.notified # -1 => d.pending < d.notified
      BY <1>3, <3>2 DEF Renewed, Continued
    <3>5. \A k \in DOMAIN wLedger :
            k[1] = d.cycle /\ wLedger[k].status = "delivered" => d.notified # -1 /\ d.notified <= k[2]
      <4> SUFFICES ASSUME NEW k \in DOMAIN wLedger, k[1] = d.cycle, wLedger[k].status = "delivered"
                   PROVE  d.notified # -1 /\ d.notified <= k[2]
        OBVIOUS
      <4>1. Continued(wMonitor.reset, e)
        BY <1>3, <3>1, <3>2 DEF Renewed
      <4>2. k[1] = wEntry.cycle
        BY <1>3, <4>1 DEF Continued
      <4>3. k[2] = wEntry.pending \/ (wEntry.notified # -1 /\ wEntry.notified <= k[2])
        BY <4>2 DEF QuotaInv, LedgerInv
      <4>4. CASE k[2] = wEntry.pending
        <5>1. k = <<wEntry.cycle, wEntry.pending>> /\ wEntry.pending # -1
          BY <3>1, <4>2, <4>4
        <5>2. W!Record(<<wEntry.cycle, wEntry.pending>>).status = "delivered"
          BY <5>1 DEF W!Record
        <5>3. d.notified = wEntry.pending
          BY <1>3, <4>1, <5>1, <5>2 DEF Continued
        <5> QED
          BY <3>1, <4>4, <5>1, <5>3
      <4>5. CASE k[2] # wEntry.pending /\ wEntry.notified # -1 /\ wEntry.notified <= k[2]
        <5>1. d.notified = wEntry.notified \/ (d.notified = wEntry.pending /\ wEntry.pending # -1)
          BY <1>3, <4>1 DEF Continued
        <5> QED
          BY <3>1, <3>2, <4>5, <5>1 DEF WTiers
      <4> QED
        BY <4>3, <4>4, <4>5
    <3>6. \A k \in DOMAIN wLedger : k[1] <= d.cycle
      BY <3>1, <3>2, <3>3
    <3> QED
      BY <1>1, <1>3, <2>1, <3>3, <3>4, <3>5, <3>6 DEF LedgerInv, WHandling
  <2>4. ChatInv'
    BY <1>1, <2>1 DEF QuotaInv, ChatInv
  <2>5. TimesInv'
    <3> PICK ends, v : Told(ends, v)
      BY DEF QuotaInv, TimesInv
    <3> DEFINE m == wMonitor.window
               r == wMonitor.reset
    <3>1. /\ m \in 1..wAccount.window /\ wAccount.window \in Nat /\ Jitter \in {0, 1} /\ wNow \in Nat
          /\ r \in Int /\ wEntry.reset \in Int
          /\ ends \in [1..wAccount.window -> Int]
          /\ r # -1 => ends[m] - Jitter <= r /\ r <= ends[m]
          /\ wEntry.reset # -1 => /\ v \in 1..wAccount.window /\ v <= m
                                  /\ ends[v] - Jitter <= wEntry.reset /\ wEntry.reset <= ends[v]
          /\ wEntry.drafted # 0 => wEntry.reset # -1 /\ wEntry.drafted = v
          /\ \A x, y \in 1..wAccount.window : x < y => ends[x] + 1 + Jitter < ends[y]
      <4>1. /\ wAccount.window \in Nat /\ Jitter \in {0, 1} /\ wNow \in Nat
            /\ r \in Int /\ wEntry.reset \in Int
        BY <1>1, QuotaAssumption DEF QuotaInv, QuotaTypes, WMonitors, WEntries
      <4>2. /\ m \in 1..wAccount.window
            /\ r # -1 => ends[m] - Jitter <= r /\ r <= ends[m]
            /\ wEntry.reset # -1 => v <= m
        BY <1>1 DEF Told, Read
      <4>3. /\ wEntry.reset # -1 => /\ v \in 1..wAccount.window
                                    /\ ends[v] - Jitter <= wEntry.reset /\ wEntry.reset <= ends[v]
            /\ wEntry.drafted # 0 => wEntry.reset # -1 /\ wEntry.drafted = v
        BY DEF Told, Known
      <4>4. /\ ends \in [1..wAccount.window -> Int]
            /\ \A x, y \in 1..wAccount.window : x < y => ends[x] + 1 + Jitter < ends[y]
        BY DEF Told, Ending
      <4> QED
        BY <4>1, <4>2, <4>3, <4>4
    <3>2. \A i \in 1..Len(wChat) :
            /\ wChat[i].window \in 1..wAccount.window
            /\ wChat[i].known =>
                 \/ ends[wChat[i].window] <= wNow + Jitter
                 \/ /\ wEntry.reset # -1
                    /\ \/ wChat[i].window < v
                       \/ wChat[i].window = v /\ wEntry.cycle = wChat[i].key[1]
      BY DEF Told, SentIn
    <3>3. ASSUME NEW u, d.reset # -1 => u \in 1..wAccount.window
                                        /\ ends[u] - Jitter <= d.reset /\ d.reset <= ends[u] /\ u <= m,
                 d.drafted # 0 => d.reset # -1 /\ d.drafted = u,
                 r # -1 => d.reset # -1 /\ u = m,
                 \A i \in 1..Len(wChat) : wChat[i].known =>
                   \/ ends[wChat[i].window] <= wNow + Jitter
                   \/ /\ d.reset # -1
                      /\ \/ wChat[i].window < u
                         \/ wChat[i].window = u /\ d.cycle = wChat[i].key[1]
          PROVE  TimesInv'
      <4>2. Ending(ends)' /\ Known(ends, u)'
        BY <1>1, <1>3, <3>3 DEF Told, Ending, Known
      <4>3. Read(ends, u)'
        BY <1>1, <1>3, <2>1, <3>1, <3>3 DEF Read, WHandling
      <4>4. SentIn(ends, u)'
        BY <1>1, <1>3, <3>2, <3>3 DEF SentIn
      <4>1. Told(ends, u)'
        BY <4>2, <4>3, <4>4 DEF Told
      <4> QED
        BY <4>1 DEF TimesInv
    <3>4. CASE Continued(r, e) /\ wEntry.reset # -1
      <4>1. r # -1 => v = m
        <5> SUFFICES ASSUME r # -1, v # m PROVE FALSE
          OBVIOUS
        <5>0. v \in 1..wAccount.window /\ m \in 1..wAccount.window /\ v <= m
          BY <3>1, <3>4
        <5>1. v < m
          BY <5>0
        <5>2. PICK a \in Int, b \in Int : a = ends[v] /\ b = ends[m]
          BY <3>1, <5>0
        <5>3. a + 1 + Jitter < b
          BY <3>1, <5>0, <5>1, <5>2
        <5>4. wEntry.reset <= a /\ b - Jitter <= r
          BY <3>1, <3>4, <5>2
        <5>5. r - wEntry.reset <= 1
          BY <3>4 DEF Continued
        <5>6. r \in Int /\ wEntry.reset \in Int /\ Jitter \in {0, 1}
          BY <3>1
        <5> HIDE DEF r
        <5> QED
          BY <5>2, <5>3, <5>4, <5>5, <5>6
      <4>2. d.reset = wEntry.reset /\ d.cycle = wEntry.cycle /\ e.drafted \in {0, wEntry.drafted}
        BY <1>3, <3>4 DEF Continued
      <4>3. d.reset # -1 => /\ v \in 1..wAccount.window /\ v <= m
                            /\ ends[v] - Jitter <= d.reset /\ d.reset <= ends[v]
        BY <3>1, <4>2
      <4>4. d.drafted # 0 => d.reset # -1 /\ d.drafted = v
        BY <1>3, <3>1, <3>4, <4>1, <4>2
      <4>5. r # -1 => d.reset # -1 /\ v = m
        BY <3>4, <4>1, <4>2
      <4>6. \A i \in 1..Len(wChat) : wChat[i].known =>
              \/ ends[wChat[i].window] <= wNow + Jitter
              \/ /\ d.reset # -1
                 /\ \/ wChat[i].window < v
                    \/ wChat[i].window = v /\ d.cycle = wChat[i].key[1]
        BY <3>2, <4>2
      <4> HIDE DEF m, r
      <4> QED
        BY <3>3, <4>3, <4>4, <4>5, <4>6
    <3>5. CASE Continued(r, e) /\ wEntry.reset = -1
      <4>1. d.reset = r /\ e.drafted = 0
        BY <1>3, <3>1, <3>5 DEF Continued
      <4> QED
        BY <1>3, <3>1, <3>2, <3>3, <3>5, <4>1
    <3>6. CASE Renewed(r, e)
      <4>1. /\ d.reset = r /\ e.drafted = 0
            /\ \/ wEntry.reset = -1
               \/ wEntry.reset <= wNow
               \/ r # -1 /\ r - wEntry.reset > 1
        BY <1>3, <3>6 DEF Renewed
      <4>2. ASSUME NEW i \in 1..Len(wChat), wChat[i].known, ~(ends[wChat[i].window] <= wNow + Jitter)
            PROVE  r # -1 /\ wChat[i].window < m
        <5> DEFINE x == wChat[i].window
        <5>1. wEntry.reset # -1 /\ x \in 1..wAccount.window /\ x <= v /\ v \in 1..wAccount.window
          BY <3>1, <3>2, <4>2
        <5>0. ends[x] \in Int /\ ends[v] \in Int /\ ends[m] \in Int
          BY <3>1, <5>1
        <5>7. x = v \/ x < v
          BY <5>1
        <5>8. x < v => ends[x] + 1 + Jitter < ends[v]
          BY <3>1, <5>1
        <5>2. ends[x] \in Int /\ ends[v] \in Int /\ ends[x] <= ends[v] /\ ends[m] \in Int
          BY <3>1, <5>0, <5>7, <5>8
        <5>9. /\ ends[v] - Jitter <= wEntry.reset /\ ~(ends[x] <= wNow + Jitter)
              /\ wEntry.reset \in Int /\ wNow \in Nat /\ Jitter \in {0, 1}
          BY <3>1, <4>2, <5>1
        <5>3. ~(wEntry.reset <= wNow)
          BY <5>2, <5>9
        <5>4. r # -1 /\ r - wEntry.reset > 1
          BY <4>1, <5>1, <5>3
        <5>5. v # m
          BY <3>1, <5>1, <5>2, <5>4
        <5>6. v <= m /\ m \in 1..wAccount.window
          BY <3>1, <5>1
        <5>10. wAccount.window \in Nat
          BY <3>1
        <5> HIDE DEF m, x
        <5>11. x < m
          BY <5>1, <5>5, <5>6, <5>10
        <5> QED
          BY <5>4, <5>11 DEF x
      <4> QED
        BY <1>3, <3>1, <3>3, <4>1, <4>2
    <3> QED
      BY <1>3, <3>4, <3>5, <3>6
  <2> QED
    BY <2>2, <2>3, <2>4, <2>5 DEF QuotaInv
<1> QED
  BY <1>2, <1>3, PreparedIs

LEMMA QuotaKeeps == ASSUME QuotaInv, W!Next PROVE QuotaInv'
  BY AccountKeeps, MonitorKeeps, PrepareKeeps, DeliverKeeps, SendKeeps, AnswerKeeps, ResultKeeps
     DEF W!Next, W!Check

\* Within a quota window no threshold is announced twice, over restarts, failed sends and
\* balances that recover, and a milder warning follows a more urgent one only when the
\* process ended before it learned that the urgent one had arrived; a warning that is sent
\* was written for the window it is sent in (prepare_warnings, record_warning_result).
THEOREM WarningsStayTrue == MCSpec => []WarningsAreTrue
<1>1. MCInit => QuotaInv
  BY QuotaBegins DEF MCInit
<1>2. QuotaInv /\ [MCNext]_allVars => QuotaInv'
  <2>1. CASE W!Next /\ QuotaInv
    BY <2>1, QuotaKeeps
  <2>2. CASE UNCHANGED quota /\ QuotaInv
    BY <2>2, QuotaStands DEF quota
  <2> QED
    BY <2>1, <2>2 DEF MCNext, allVars, messages, InReviews, InLineage, InEvolution, InCuration,
       InLearning, InMemory, InMigration, InPrivateState, InEnvironments, InQuotaWarnings,
       InOutbound, InSlackUpload, InSlackIntake
<1>3. QuotaInv => WarningsAreTrue
  BY QuotaIsSound DEF WarningsAreTrue
<1> QED
  BY <1>1, <1>2, <1>3, PTL DEF MCSpec

=============================================================================

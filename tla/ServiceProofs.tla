--------------------------- MODULE ServiceProofs ---------------------------
(***************************************************************************)
(* Proofs about what the daemon does for those it serves, for every value  *)
(* of the constants: the chat inbox, commands and their permissions,       *)
(* operations, calls of a runtime, the requests of a conversation, the     *)
(* publication of a change, and the events that an extension is given.     *)
(*                                                                         *)
(* Each part has an inductive invariant of its own (InboxInv, CommandsInv, *)
(* OperationsInv, CallsInv, RequestsInv, PublicationInv, EventsInv), which *)
(* says what every point of a handler has already done: the properties     *)
(* look at the handler from the outside, before it begins and after it     *)
(* ends, and a step in its middle is harmless only because of what is on   *)
(* record by then.                                                         *)
(***************************************************************************)
EXTENDS MCService, FiniteSets, FiniteSetTheorems, WellFoundedInduction, TLAPS

-----------------------------------------------------------------------------
(* The inbox.  Where the event in hand is, tells what is on disk about it. *)

\* The poll is in the order of the cursor and ahead of it; only while its event is
\* being acknowledged the cursor is at the event.
PollInv ==
    /\ batch = <<>> => step = "begin"
    /\ batch # <<>> =>
         /\ batch[Len(batch)] <= arrived
         /\ IF step = "acknowledge" THEN offset = Head(batch) /\ saved = Head(batch)
                                    ELSE offset < Head(batch)

\* What the receipt and the reply of the event in hand are at each step.
HandledInv ==
    /\ step \in {"dispatch", "complete"} => receipt[Head(batch)].status = "processing"
    /\ step = "exhausted" => receipt[Head(batch)].status = "failed"
    /\ step = "mark" => reply[Head(batch)] # "none"
    /\ step = "acknowledge" => Completed(Head(batch))
    /\ step \in {"cursor", "acknowledge"} => receipt[Head(batch)].replySent

ReplyInv ==
    \A e \in Events :
       /\ receipt[e].replySent => reply[e] # "none"
       /\ reply[e] = "none" => tries[e] <= MaxDeliveries - 1

InboxInv == TypeOK /\ PollInv /\ HandledInv /\ ReplyInv /\ AcknowledgedLast

\* What is left of a poll is a poll: its first event is the next one.
LEMMA TailOfPoll ==
    ASSUME batch \in Seq(Events), batch # <<>>,
           \A i \in 1..Len(batch) : batch[i] = batch[1] + i - 1
    PROVE  /\ Head(batch) \in Events /\ Head(batch) = batch[1] /\ Len(batch) \in Nat \ {0}
           /\ Tail(batch) \in Seq(Events)
           /\ \A i \in 1..Len(Tail(batch)) : Tail(batch)[i] = Tail(batch)[1] + i - 1
           /\ Tail(batch) # <<>> =>
                /\ Tail(batch)[Len(Tail(batch))] = batch[Len(batch)]
                /\ Head(Tail(batch)) = Head(batch) + 1
<1> DEFINE t == Tail(batch)
<1>1. Len(batch) \in Nat \ {0} /\ Head(batch) = batch[1] /\ batch[1] \in Events
  OBVIOUS
<1>2. t \in Seq(Events) /\ Len(t) = Len(batch) - 1
  OBVIOUS
<1>3. \A i \in 1..Len(t) : t[i] = batch[i + 1]
  OBVIOUS
<1>4. \A i \in 1..Len(t) : t[i] = batch[1] + i
  BY <1>1, <1>2, <1>3, LastAssumption DEF Events
<1>5. t # <<>> => Len(t) \in Nat \ {0} /\ Head(t) = t[1]
  BY <1>2
<1>6. ASSUME t # <<>>
      PROVE  t[Len(t)] = batch[Len(batch)] /\ Head(t) = Head(batch) + 1
  <2>1. Len(t) \in 1..Len(t) /\ 1 \in 1..Len(t) /\ Len(t) + 1 = Len(batch)
    BY <1>1, <1>2, <1>5, <1>6
  <2>2. t[Len(t)] = batch[Len(t) + 1]
    BY <2>1, <1>3
  <2>3. t[1] = batch[1] + 1
    BY <2>1, <1>4
  <2> QED
    BY <2>1, <2>2, <2>3, <1>1, <1>5, <1>6
<1>7. \A i \in 1..Len(t) : t[i] = t[1] + i - 1
  <2> SUFFICES ASSUME NEW i \in 1..Len(t) PROVE t[i] = t[1] + i - 1
    OBVIOUS
  <2>1. 1 \in 1..Len(t) /\ i \in Nat /\ batch[1] \in Int
    BY <1>1, <1>2, LastAssumption DEF Events
  <2>2. t[1] = batch[1] + 1 /\ t[i] = batch[1] + i
    BY <2>1, <1>4
  <2> QED
    BY <2>1, <2>2
<1> QED
  BY <1>1, <1>2, <1>6, <1>7

\* The poll's part of what a step keeps that leaves the event in hand.
LEMMA NextEventKeepsPoll ==
    ASSUME TypeOK, PollInv, batch # <<>>, NextEvent, UNCHANGED arrived,
           offset' = Head(batch) \/ (step # "acknowledge" /\ UNCHANGED offset)
                                \/ (step = "acknowledge" /\ UNCHANGED offset)
    PROVE  PollInv' /\ batch' \in Seq(Events) /\ step' = "begin"
           /\ \A i \in 1..Len(batch') : batch'[i] = batch'[1] + i - 1
<1>1. /\ Head(batch) \in Events
      /\ batch' \in Seq(Events)
      /\ \A i \in 1..Len(batch') : batch'[i] = batch'[1] + i - 1
      /\ batch' # <<>> => batch'[Len(batch')] = batch[Len(batch)] /\ Head(batch') = Head(batch) + 1
  BY TailOfPoll DEF TypeOK, NextEvent
<1>2. offset' \in Nat /\ (offset' = Head(batch) \/ offset' < Head(batch))
  <2>1. Head(batch) \in Nat /\ offset \in Nat
    <3>1. arrived \in 0..Last /\ offset \in 0..arrived
      BY DEF TypeOK
    <3> QED
      BY <1>1, <3>1, LastAssumption DEF Events
  <2>2. IF step = "acknowledge" THEN offset = Head(batch) ELSE offset < Head(batch)
    BY DEF PollInv
  <2> QED
    BY <2>1, <2>2
<1> QED
  BY <1>1, <1>2, LastAssumption, SMTT(30) DEF PollInv, NextEvent, Events

\* The initial state of the inbox satisfies the invariant.
LEMMA InboxInit == Init => InboxInv
<1> SUFFICES ASSUME Init PROVE InboxInv
  OBVIOUS
<1> USE LastAssumption, AttemptsAssumption
<1>1. TypeOK
  BY DEF Init, TypeOK, Events, Statuses, Steps
<1>2. PollInv /\ HandledInv
  BY DEF Init, PollInv, HandledInv
<1>3. ReplyInv /\ AcknowledgedLast
  BY DEF Init, ReplyInv, AcknowledgedLast
<1> QED
  BY <1>1, <1>2, <1>3 DEF InboxInv

\* Events come and a poll begins.
LEMMA PollKeepsInbox == InboxInv /\ (Arrive \/ Receive) => InboxInv'
<1> SUFFICES ASSUME InboxInv, Arrive \/ Receive PROVE InboxInv'
  OBVIOUS
<1> USE LastAssumption, AttemptsAssumption
<1>1. TypeOK /\ PollInv /\ HandledInv /\ ReplyInv /\ AcknowledgedLast
  BY DEF InboxInv
<1>2. arrived \in Nat /\ offset \in Nat /\ arrived <= Last
  BY <1>1 DEF TypeOK
<1>3. ReplyInv' /\ AcknowledgedLast'
  BY <1>1 DEF Arrive, Receive, ReplyInv, AcknowledgedLast, Completed
<1>4. CASE Arrive
  <2>1. TypeOK'
    BY <1>1, <1>2, <1>4 DEF TypeOK, Arrive, Completed
  <2>2. batch # <<>> => batch[Len(batch)] \in Nat
    <3>1. batch \in Seq(Events)
      BY <1>1 DEF TypeOK
    <3>2. batch # <<>> => Len(batch) \in 1..Len(batch)
      BY <3>1
    <3> QED
      BY <3>1, <3>2 DEF Events
  <2>3. PollInv'
    BY <1>1, <1>2, <1>4, <2>2 DEF PollInv, Arrive
  <2>4. HandledInv'
    BY <1>1, <1>4 DEF HandledInv, Arrive, Completed
  <2> QED
    BY <1>3, <2>1, <2>3, <2>4 DEF InboxInv
<1>5. CASE Receive
  <2>1. arrived - offset \in Nat \ {0}
    BY <1>2, <1>5 DEF Receive
  <2>2. \A i \in 1..(arrived - offset) : offset + i \in Events
    BY <1>2, <2>1 DEF Events
  <2>3. /\ batch' \in Seq(Events) /\ Len(batch') = arrived - offset
        /\ \A i \in 1..Len(batch') : batch'[i] = offset + i
    BY <1>5, <2>1, <2>2 DEF Receive
  <2>4. batch' # <<>> /\ Head(batch') = offset + 1 /\ batch'[Len(batch')] = arrived
    BY <2>1, <2>3, <1>2
  <2>5. \A i \in 1..Len(batch') : batch'[i] = batch'[1] + i - 1
    BY <2>1, <2>3, <1>2
  <2>6. TypeOK'
    BY <1>1, <2>3, <2>5, <1>5 DEF TypeOK, Receive, Steps
  <2>7. PollInv' /\ HandledInv'
    BY <1>2, <1>5, <2>4 DEF PollInv, HandledInv, Receive
  <2> QED
    BY <1>3, <2>6, <2>7 DEF InboxInv
<1> QED
  BY <1>4, <1>5

\* Steps that go on with the event in hand, up to the reply.
LEMMA HandlingKeepsInbox ==
    ASSUME NEW e \in Events, InboxInv,
           (BeginEvent(e) \/ Dispatch(e) \/ Complete(e)
              \/ (HandlerFails(e) /\ Exhausted(e)))
    PROVE  InboxInv'
<1> USE LastAssumption, AttemptsAssumption
<1>1. TypeOK /\ PollInv /\ HandledInv /\ ReplyInv /\ AcknowledgedLast
  BY DEF InboxInv
<1>2. /\ batch # <<>> /\ Head(batch) = e /\ UNCHANGED batch
      /\ step \in {"begin", "dispatch", "complete", "exhausted"}
      /\ UNCHANGED <<arrived, offset, saved, reply, tries, mishaps>>
  BY DEF BeginEvent, Dispatch, Complete, HandlerFails, At, GoOn
<1>3. receipt[e] \in [status : Statuses, attempts : Nat, replySent : BOOLEAN]
  BY <1>1 DEF TypeOK
<1> DEFINE Fresh == [status |-> "processing", attempts |-> receipt[e].attempts + 1, replySent |-> FALSE]
<1>4. CASE BeginEvent(e) /\ Completed(e)
  <2>1. UNCHANGED <<receipt, ran>> /\ step' = (IF receipt[e].replySent THEN "cursor" ELSE "reply")
    BY <1>4 DEF BeginEvent, GoOn
  <2>2. TypeOK'
    BY <1>1, <1>2, <1>4, <2>1 DEF TypeOK, Completed, Steps
  <2>3. PollInv'
    BY <1>1, <1>2, <2>1 DEF PollInv
  <2>4. HandledInv' /\ ReplyInv' /\ AcknowledgedLast'
    BY <1>1, <1>2, <2>1 DEF HandledInv, ReplyInv, AcknowledgedLast
  <2> QED
    BY <2>2, <2>3, <2>4 DEF InboxInv
<1>5. CASE BeginEvent(e) /\ ~Completed(e)
  <2>1. UNCHANGED ran /\ step' = "dispatch" /\ receipt' = [receipt EXCEPT ![e] = Fresh]
    BY <1>5 DEF BeginEvent, GoOn
  <2>2. Fresh \in [status : Statuses, attempts : Nat, replySent : BOOLEAN]
    BY <1>3 DEF Statuses
  <2>3. receipt'[e] = Fresh /\ \A f \in Events \ {e} : receipt'[f] = receipt[f]
    BY <1>1, <2>1 DEF TypeOK
  <2>4. receipt' \in [Events -> [status : Statuses, attempts : Nat, replySent : BOOLEAN]]
    BY <1>1, <2>1, <2>2 DEF TypeOK
  <2>5. TypeOK'
    BY <1>1, <1>2, <2>1, <2>4 DEF TypeOK, Steps
  <2>6. PollInv'
    BY <1>1, <1>2, <2>1 DEF PollInv
  <2>7. HandledInv' /\ ReplyInv' /\ AcknowledgedLast'
    BY <1>1, <1>2, <2>1, <2>3 DEF HandledInv, ReplyInv, AcknowledgedLast
  <2> QED
    BY <2>5, <2>6, <2>7 DEF InboxInv
<1>6. CASE Dispatch(e)
  <2>1. UNCHANGED receipt /\ step' = "complete" /\ step = "dispatch" /\ ran' = [ran EXCEPT ![e] = @ + 1]
    BY <1>6 DEF Dispatch, GoOn, At
  <2>2. TypeOK'
    BY <1>1, <1>2, <2>1 DEF TypeOK, Steps
  <2>3. PollInv'
    BY <1>1, <1>2, <2>1 DEF PollInv
  <2>4. HandledInv' /\ ReplyInv' /\ AcknowledgedLast'
    BY <1>1, <1>2, <2>1 DEF HandledInv, ReplyInv, AcknowledgedLast
  <2> QED
    BY <2>2, <2>3, <2>4 DEF InboxInv
<1>7. CASE Complete(e) \/ (HandlerFails(e) /\ Exhausted(e))
  <2> DEFINE s == IF Complete(e) THEN "completed" ELSE "failed"
  <2>1. UNCHANGED ran /\ receipt' = [receipt EXCEPT ![e].status = s]
    BY <1>7 DEF Complete, HandlerFails, SetStatus, At
  <2>2. (step' = "reply" /\ s = "completed") \/ (step' = "exhausted" /\ s = "failed")
    BY <1>7 DEF Complete, HandlerFails, GoOn, At
  <2>3. s \in Statuses \ {"acknowledged"}
    BY DEF Statuses
  <2> HIDE DEF s
  <2>4. /\ receipt'[e].status = s /\ receipt'[e].replySent = receipt[e].replySent
        /\ \A f \in Events \ {e} : receipt'[f] = receipt[f]
    BY <1>1, <1>3, <2>1 DEF TypeOK
  <2>5. receipt' \in [Events -> [status : Statuses, attempts : Nat, replySent : BOOLEAN]]
    BY <1>1, <1>3, <2>1, <2>3 DEF TypeOK
  <2>6. TypeOK'
    BY <1>1, <1>2, <2>1, <2>2, <2>4, <2>5 DEF TypeOK, Completed, Steps
  <2>7. PollInv'
    BY <1>1, <1>2, <2>2 DEF PollInv
  <2>8. HandledInv' /\ ReplyInv'
    BY <1>1, <1>2, <2>2, <2>4 DEF HandledInv, ReplyInv
  <2>9. AcknowledgedLast'
    BY <1>1, <1>2, <2>3, <2>4 DEF AcknowledgedLast
  <2> QED
    BY <2>6, <2>7, <2>8, <2>9 DEF InboxInv
<1> QED
  BY <1>4, <1>5, <1>6, <1>7

\* Steps that settle the reply and the cursor of the event in hand.
LEMMA FinishingKeepsInbox ==
    ASSUME NEW e \in Events, InboxInv,
           ReplySettled(e) \/ MarkReplySent(e) \/ RememberCursor(e)
    PROVE  InboxInv'
<1> USE LastAssumption, AttemptsAssumption
<1>1. TypeOK /\ PollInv /\ HandledInv /\ ReplyInv /\ AcknowledgedLast
  BY DEF InboxInv
<1>2. /\ batch # <<>> /\ Head(batch) = e /\ UNCHANGED batch
      /\ step \in {"reply", "mark", "cursor"}
      /\ UNCHANGED <<arrived, ran, mishaps>>
  BY DEF ReplySettled, MarkReplySent, RememberCursor, At, GoOn
<1>3. receipt[e] \in [status : Statuses, attempts : Nat, replySent : BOOLEAN] /\ Completed(e)
  BY <1>1, <1>2 DEF TypeOK
<1>4. CASE ReplySettled(e)
  <2>1. UNCHANGED <<offset, saved, receipt>> /\ step' = "mark"
    BY <1>4 DEF ReplySettled, GoOn
  <2>2. /\ reply' \in [Events -> {"none", "delivered", "failed"}] /\ tries' \in [Events -> 0..MaxDeliveries]
        /\ \A f \in Events : reply[f] # "none" => reply'[f] # "none"
        /\ reply'[e] # "none"
        /\ \A f \in Events \ {e} : reply'[f] = reply[f] /\ tries'[f] = tries[f]
    <3>1. reply[e] = "none" => tries[e] + 1 \in 0..MaxDeliveries
      BY <1>1 DEF ReplyInv, TypeOK
    <3> QED
      BY <3>1, <1>1, <1>4 DEF ReplySettled, TypeOK
  <2>3. TypeOK'
    BY <1>1, <1>2, <1>3, <2>1, <2>2 DEF TypeOK, Completed, Steps
  <2>4. PollInv'
    BY <1>1, <1>2, <2>1 DEF PollInv
  <2>5. HandledInv' /\ ReplyInv' /\ AcknowledgedLast'
    BY <1>1, <1>2, <2>1, <2>2 DEF HandledInv, ReplyInv, AcknowledgedLast
  <2> QED
    BY <2>3, <2>4, <2>5 DEF InboxInv
<1>5. CASE MarkReplySent(e)
  <2>1. UNCHANGED <<offset, saved, reply, tries>> /\ step = "mark" /\ step' = "cursor"
        /\ receipt' = [receipt EXCEPT ![e].replySent = TRUE]
    BY <1>5 DEF MarkReplySent, GoOn, At
  <2>2. /\ receipt'[e].status = receipt[e].status /\ receipt'[e].replySent = TRUE
        /\ \A f \in Events \ {e} : receipt'[f] = receipt[f]
    BY <1>1, <1>3, <2>1 DEF TypeOK
  <2>3. receipt' \in [Events -> [status : Statuses, attempts : Nat, replySent : BOOLEAN]]
    BY <1>1, <1>3, <2>1 DEF TypeOK
  <2>4. TypeOK'
    BY <1>1, <1>2, <1>3, <2>1, <2>2, <2>3 DEF TypeOK, Completed, Steps
  <2>5. PollInv'
    BY <1>1, <1>2, <2>1 DEF PollInv
  <2>6. HandledInv' /\ ReplyInv' /\ AcknowledgedLast'
    BY <1>1, <1>2, <2>1, <2>2 DEF HandledInv, ReplyInv, AcknowledgedLast
  <2> QED
    BY <2>4, <2>5, <2>6 DEF InboxInv
<1>6. CASE RememberCursor(e)
  <2>1. UNCHANGED <<receipt, reply, tries>> /\ step = "cursor" /\ step' = "acknowledge" /\ offset' = e /\ saved' = e
    BY <1>6 DEF RememberCursor, Remember, GoOn, At
  <2>2. e \in Nat /\ offset \in Nat /\ offset < e /\ saved <= offset /\ saved \in Nat /\ e <= arrived
    <3>1. offset < e
      BY <1>1, <1>2, <2>1 DEF PollInv
    <3>2. arrived \in 0..Last /\ offset \in 0..arrived /\ saved \in 0..offset
      BY <1>1 DEF TypeOK
    <3>3. e <= arrived
      <4>1. batch[Len(batch)] <= arrived
        BY <1>1, <1>2 DEF PollInv
      <4>2. /\ batch \in Seq(Events)
            /\ \A i \in 1..Len(batch) : batch[i] = batch[1] + i - 1
        BY <1>1 DEF TypeOK
      <4>3. Len(batch) \in Nat \ {0} /\ batch[1] = e
        BY <1>2, <4>2, TailOfPoll
      <4>4. batch[Len(batch)] = e + Len(batch) - 1
        BY <4>2, <4>3
      <4> QED
        BY <4>1, <4>3, <4>4, <3>2 DEF Events
    <3> QED
      BY <3>1, <3>2, <3>3 DEF Events
  <2>3. TypeOK'
    BY <1>1, <1>2, <2>1, <2>2 DEF TypeOK, Steps
  <2>4. PollInv'
    BY <1>1, <1>2, <2>1 DEF PollInv
  <2>5. HandledInv' /\ ReplyInv'
    BY <1>1, <1>2, <1>3, <2>1 DEF HandledInv, ReplyInv, Completed
  <2>6. AcknowledgedLast'
    <3>1. \A f \in Events : saved >= f => e >= f
      BY <2>2 DEF Events
    <3> QED
      BY <1>1, <2>1, <3>1 DEF AcknowledgedLast
  <2> QED
    BY <2>3, <2>4, <2>5, <2>6 DEF InboxInv
<1> QED
  BY <1>4, <1>5, <1>6

\* Steps that end with the next event of the poll.
LEMMA LeavingKeepsInbox ==
    ASSUME NEW e \in Events, InboxInv,
           \/ SkipForeign(e) \/ ReplyRetryable(e) \/ Acknowledge(e)
           \/ HandlerFails(e) /\ ~Exhausted(e)
    PROVE  InboxInv'
<1> USE LastAssumption, AttemptsAssumption
<1>1. TypeOK /\ PollInv /\ HandledInv /\ ReplyInv /\ AcknowledgedLast
  BY DEF InboxInv
<1>2. /\ batch # <<>> /\ Head(batch) = e /\ NextEvent
      /\ UNCHANGED <<arrived, reply, ran, mishaps>>
  BY DEF SkipForeign, ReplyRetryable, Acknowledge, HandlerFails, At
<1>3. \/ offset' = e /\ saved' = e /\ step = "begin"
      \/ UNCHANGED <<offset, saved>>
  BY DEF SkipForeign, ReplyRetryable, Acknowledge, HandlerFails, At, Remember
<1>4. /\ PollInv' /\ batch' \in Seq(Events) /\ step' = "begin"
      /\ \A i \in 1..Len(batch') : batch'[i] = batch'[1] + i - 1
  BY <1>1, <1>2, <1>3, NextEventKeepsPoll
<1>5. HandledInv'
  BY <1>4 DEF HandledInv
<1>6. receipt[e] \in [status : Statuses, attempts : Nat, replySent : BOOLEAN]
  BY <1>1 DEF TypeOK
<1>7. /\ arrived' \in 0..Last /\ offset' \in 0..arrived' /\ saved' \in 0..offset'
      /\ \A f \in Events : saved >= f => saved' >= f
  <2>1. arrived \in 0..Last /\ offset \in 0..arrived /\ saved \in 0..offset
    BY <1>1 DEF TypeOK
  <2>2. CASE UNCHANGED <<offset, saved>>
    BY <1>2, <2>1, <2>2
  <2>3. CASE offset' = e /\ saved' = e /\ step = "begin"
    <3>1. offset < e /\ batch[Len(batch)] <= arrived
      BY <1>1, <1>2, <2>3 DEF PollInv
    <3>2. /\ batch \in Seq(Events)
          /\ \A i \in 1..Len(batch) : batch[i] = batch[1] + i - 1
      BY <1>1 DEF TypeOK
    <3>3. Len(batch) \in Nat \ {0} /\ batch[1] = e
      BY <1>2, <3>2, TailOfPoll
    <3>4. batch[Len(batch)] = e + Len(batch) - 1
      BY <3>2, <3>3
    <3>5. e <= arrived
      BY <3>1, <3>3, <3>4, <2>1 DEF Events
    <3> QED
      BY <1>2, <2>1, <2>3, <3>1, <3>5 DEF Events
  <2> QED
    BY <1>3, <2>2, <2>3
<1>8. CASE SkipForeign(e)
  <2>1. UNCHANGED <<receipt, tries>>
    BY <1>8 DEF SkipForeign
  <2>2. TypeOK'
    BY <1>1, <1>2, <1>4, <1>7, <2>1 DEF TypeOK, Steps
  <2>3. ReplyInv' /\ AcknowledgedLast'
    BY <1>1, <1>2, <1>7, <2>1 DEF ReplyInv, AcknowledgedLast
  <2> QED
    BY <1>4, <1>5, <2>2, <2>3 DEF InboxInv
<1>9. CASE ReplyRetryable(e)
  <2>1. UNCHANGED receipt /\ tries[e] < MaxDeliveries - 1 /\ tries' = [tries EXCEPT ![e] = @ + 1]
    BY <1>9 DEF ReplyRetryable
  <2>2. tries \in [Events -> 0..MaxDeliveries]
    BY <1>1 DEF TypeOK
  <2>3. /\ tries' \in [Events -> 0..MaxDeliveries] /\ tries'[e] <= MaxDeliveries - 1
        /\ \A f \in Events \ {e} : tries'[f] = tries[f]
    BY <2>1, <2>2
  <2>4. TypeOK'
    BY <1>1, <1>2, <1>4, <1>7, <2>1, <2>3 DEF TypeOK, Steps
  <2>5. ReplyInv' /\ AcknowledgedLast'
    BY <1>1, <1>2, <1>7, <2>1, <2>3 DEF ReplyInv, AcknowledgedLast
  <2> QED
    BY <1>4, <1>5, <2>4, <2>5 DEF InboxInv
<1>10. CASE Acknowledge(e) \/ HandlerFails(e)
  <2> DEFINE s == IF Acknowledge(e) THEN "acknowledged" ELSE "failed"
  <2>1. UNCHANGED tries /\ receipt' = [receipt EXCEPT ![e].status = s]
    BY <1>10 DEF Acknowledge, HandlerFails, SetStatus, At
  <2>2. s = "acknowledged" => step = "acknowledge"
    BY DEF Acknowledge, At
  <2>3. s \in Statuses
    BY DEF Statuses
  <2> HIDE DEF s
  <2>4. /\ receipt'[e].status = s /\ receipt'[e].replySent = receipt[e].replySent
        /\ \A f \in Events \ {e} : receipt'[f] = receipt[f]
    BY <1>1, <1>6, <2>1 DEF TypeOK
  <2>5. receipt' \in [Events -> [status : Statuses, attempts : Nat, replySent : BOOLEAN]]
    BY <1>1, <1>6, <2>1, <2>3 DEF TypeOK
  <2>6. TypeOK'
    BY <1>1, <1>2, <1>4, <1>7, <2>1, <2>5 DEF TypeOK, Steps
  <2>7. ReplyInv'
    BY <1>1, <1>2, <2>1, <2>4 DEF ReplyInv
  <2>8. AcknowledgedLast'
    <3>1. s = "acknowledged" => receipt[e].replySent /\ reply[e] # "none" /\ saved' >= e
      <4>1. s = "acknowledged" => receipt[e].replySent
        BY <1>1, <1>2, <2>2 DEF HandledInv
      <4>2. s = "acknowledged" => saved = e
        BY <1>1, <1>2, <2>2 DEF PollInv
      <4> QED
        BY <4>1, <4>2, <1>1, <1>7 DEF ReplyInv, Events
    <3> QED
      BY <1>1, <1>2, <1>7, <2>4, <3>1 DEF AcknowledgedLast
  <2> QED
    BY <1>4, <1>5, <2>6, <2>7, <2>8 DEF InboxInv
<1> QED
  BY <1>8, <1>9, <1>10

\* An exception out of the poll, the cursor file that cannot be written, and the
\* end of the process.
LEMMA MishapsKeepInbox ==
    ASSUME InboxInv, PollBreaks \/ Crash \/ \E e \in Events : SaveFails(e)
    PROVE  InboxInv'
<1> USE LastAssumption, AttemptsAssumption
<1>1. TypeOK /\ PollInv /\ HandledInv /\ ReplyInv /\ AcknowledgedLast
  BY DEF InboxInv
<1>2. /\ batch' = <<>> /\ step' = "begin" /\ mishaps' = mishaps + 1
      /\ UNCHANGED <<arrived, receipt, reply, tries, ran, saved>>
  BY DEF PollBreaks, Crash, SaveFails, Mishap, EndPoll
<1>3. arrived' \in 0..Last /\ offset' \in 0..arrived' /\ saved' \in 0..offset'
  <2>1. arrived \in 0..Last /\ offset \in 0..arrived /\ saved \in 0..offset
    BY <1>1 DEF TypeOK
  <2>2. CASE UNCHANGED offset \/ offset' = saved
    BY <1>2, <2>1, <2>2
  <2>3. ASSUME NEW e \in Events, SaveFails(e)
        PROVE  offset' = e /\ offset < e /\ e <= arrived
    <3>1. offset' = e /\ batch # <<>> /\ Head(batch) = e /\ step = "cursor"
      BY <2>3 DEF SaveFails, At
    <3>2. offset < e /\ batch[Len(batch)] <= arrived
      BY <1>1, <3>1 DEF PollInv
    <3>3. /\ batch \in Seq(Events)
          /\ \A i \in 1..Len(batch) : batch[i] = batch[1] + i - 1
      BY <1>1 DEF TypeOK
    <3>4. Len(batch) \in Nat \ {0} /\ batch[1] = e
      BY <3>1, <3>3, TailOfPoll
    <3>5. batch[Len(batch)] = e + Len(batch) - 1
      BY <3>3, <3>4
    <3> QED
      BY <2>1, <3>1, <3>2, <3>4, <3>5 DEF Events
  <2> QED
    BY <1>2, <2>1, <2>2, <2>3 DEF PollBreaks, Crash, Events
<1>4. TypeOK'
  BY <1>1, <1>2, <1>3 DEF TypeOK, Steps
<1>5. PollInv' /\ HandledInv' /\ ReplyInv' /\ AcknowledgedLast'
  BY <1>1, <1>2 DEF PollInv, HandledInv, ReplyInv, AcknowledgedLast
<1> QED
  BY <1>4, <1>5 DEF InboxInv

\* Every step of the inbox keeps its invariant.
LEMMA InboxStep == InboxInv /\ [Next]_vars => InboxInv'
<1> SUFFICES ASSUME InboxInv, [Next]_vars PROVE InboxInv'
  OBVIOUS
<1>1. CASE UNCHANGED vars
  BY <1>1 DEF vars, InboxInv, TypeOK, PollInv, HandledInv, ReplyInv, AcknowledgedLast, Completed
<1>2. ASSUME NEW e \in Events, HandleStep(e)
      PROVE  InboxInv'
  BY <1>2, HandlingKeepsInbox, FinishingKeepsInbox, LeavingKeepsInbox DEF HandleStep
<1> QED
  BY <1>1, <1>2, PollKeepsInbox, MishapsKeepInbox DEF Next, DaemonStep

\* The daemon as a whole runs the inbox: a step of an other component leaves it alone.
LEMMA RunsInbox == [MCNext]_allVars => [Next]_vars
  BY DEF MCNext, InInbox, InTaskRunner, InPublication, InExtensionTasks, InCommands,
         InOperations, InRequests, InRuntimeRuns, InNotifications, allVars

\* The invariant of the inbox holds in every state of the daemon.
LEMMA InboxInvariant == MCSpec => []InboxInv
<1>1. MCInit => InboxInv
  BY InboxInit DEF MCInit
<1>2. InboxInv /\ [MCNext]_allVars => InboxInv'
  BY InboxStep, RunsInbox
<1> QED
  BY <1>1, <1>2, PTL DEF MCSpec

\* inbox.py, _finish_chat_event: an event is acknowledged only when its reply is
\* settled and marked and the cursor on disk is past it, whatever fails and
\* wherever the process ends.
THEOREM AcknowledgementIsLast == MCSpec => []AcknowledgedLast
<1>1. InboxInv => AcknowledgedLast
  BY DEF InboxInv
<1> QED
  BY <1>1, InboxInvariant, PTL

\* begin_event: the command of an event whose receipt was completed is not
\* dispatched again, however often the event is delivered.
THEOREM CommandsRunOnce == MCSpec => CommandNotRepeated
<1> USE LastAssumption
<1>1. ASSUME InboxInv, [MCNext]_allVars, ~UNCHANGED vars, NEW e \in Events, Completed(e)
      PROVE  Completed(e)' /\ ran'[e] = ran[e]
  <2>1. Next
    BY <1>1, RunsInbox
  <2>2. /\ receipt \in [Events -> [status : Statuses, attempts : Nat, replySent : BOOLEAN]]
        /\ ran \in [Events -> Nat] /\ HandledInv
    BY <1>1 DEF InboxInv, TypeOK
  <2>3. CASE Arrive \/ Receive \/ PollBreaks \/ Crash \/ \E f \in Events : SaveFails(f)
    BY <1>1, <2>3 DEF Arrive, Receive, PollBreaks, Crash, SaveFails, Mishap, Completed
  <2>4. ASSUME NEW f \in Events, HandleStep(f)
        PROVE  Completed(e)' /\ ran'[e] = ran[e]
    <3>1. CASE SkipForeign(f) \/ ReplySettled(f) \/ ReplyRetryable(f) \/ RememberCursor(f)
      BY <1>1, <3>1 DEF SkipForeign, ReplySettled, ReplyRetryable, RememberCursor, Completed
    <3>2. CASE BeginEvent(f)
      BY <1>1, <2>2, <3>2 DEF BeginEvent, Completed
    <3>3. CASE Dispatch(f) \/ HandlerFails(f)
      <4>1. f # e /\ \A g \in Events \ {f} : receipt'[g] = receipt[g] /\ ran'[g] = ran[g]
        BY <1>1, <2>2, <3>3 DEF Dispatch, HandlerFails, At, HandledInv, Completed, SetStatus, Exhausted
      <4> QED
        BY <1>1, <4>1 DEF Completed
    <3>4. CASE Complete(f) \/ MarkReplySent(f) \/ Acknowledge(f)
      <4>1. UNCHANGED ran
        BY <3>4 DEF Complete, MarkReplySent, Acknowledge
      <4>2. receipt'[e].status \in {receipt[e].status, "completed", "acknowledged"}
        BY <2>2, <3>4 DEF Complete, MarkReplySent, Acknowledge, SetStatus
      <4> QED
        BY <1>1, <4>1, <4>2 DEF Completed
    <3> QED
      BY <2>4, <3>1, <3>2, <3>3, <3>4 DEF HandleStep
  <2> QED
    BY <2>1, <2>3, <2>4 DEF Next, DaemonStep
<1>2. InboxInv /\ [MCNext]_allVars
        => [\A e \in Events : Completed(e) => Completed(e)' /\ ran'[e] = ran[e]]_vars
  BY <1>1
<1>3. MCSpec => [][MCNext]_allVars
  BY PTL DEF MCSpec
<1> QED
  BY <1>2, <1>3, InboxInvariant, PTL DEF CommandNotRepeated

-----------------------------------------------------------------------------
(* Commands.  Keys make a request one task, and a turn or a worker that has *)
(* authorized what it does belongs to the process that authorized it.       *)

\* The records that the commands keep.
CommandTasks == [key : C!Kinds \X Nat \X Nat, command : Nat, request : Nat,
                 required : SUBSET Capabilities,
                 status : {"pending", "claimed", "running", "completed", "failed"}]
Plans == [kind : C!Kinds, required : SUBSET Capabilities, requests : 0..MaxRequests]
Turns == [at : {"none", "authorize", "handler"}, command : 0..MaxCommands,
          made : 0..MaxRequests, tasks : Seq(Nat)]
Results == [status : {"denied", "succeeded", "failed"}, tasks : Seq(Nat)]

\* The type of their state.
CommandTypes ==
    /\ cGranted \subseteq Capabilities /\ cDenied \subseteq Capabilities
    /\ cQueue \in Seq(CommandTasks) /\ cWorker \in 0..Len(cQueue)
    /\ cCommand \in Seq(Plans) /\ Len(cCommand) <= MaxCommands
    /\ cTurn \in Turns /\ cResults \in Seq(Results)

\* The turn in hand is the last command's, authorized when its handler works, and
\* its tasks have the keys of its requests.
TurnInv ==
    /\ cTurn.at = "none" => Len(cResults) = Len(cCommand)
    /\ cTurn.at # "none" => cTurn.command = Len(cCommand) /\ Len(cResults) + 1 = Len(cCommand)
    /\ cTurn.at = "handler" => C!Authorized(C!Plan.required)
    /\ Len(cTurn.tasks) = cTurn.made
    /\ \A i \in DOMAIN cTurn.tasks :
          /\ cTurn.tasks[i] \in DOMAIN cQueue
          /\ cQueue[cTurn.tasks[i]].key = C!Key(cTurn.command, i)

\* Only the worker's task is in work, and authorized when it runs.
AuthorizedInv ==
    /\ ~cRan
    /\ \A t \in DOMAIN cQueue :
          /\ cQueue[t].status \in {"claimed", "running"} => cWorker = t
          /\ cQueue[t].status = "running" => C!Authorized(cQueue[t].required)

\* A task has the key of its request, and no other one has it.
KeysInv ==
    /\ \A t \in DOMAIN cQueue :
          /\ cQueue[t].command \in DOMAIN cCommand
          /\ cQueue[t].key = C!Key(cQueue[t].command, cQueue[t].request)
    /\ \A s, t \in DOMAIN cQueue : s # t => cQueue[s].key # cQueue[t].key

\* Task t is the one that command c made with its request i.
IsOwn(c, i, t) ==
    /\ t \in DOMAIN cQueue /\ cQueue[t].command = c
    /\ cCommand[c].kind # "extension" => cQueue[t].request = i

\* The tasks of a result are the command's own.
ResultsInv ==
    \A c \in DOMAIN cResults : \A i \in DOMAIN cResults[c].tasks :
       IsOwn(c, i, cResults[c].tasks[i])

CommandsInv == CommandTypes /\ TurnInv /\ AuthorizedInv /\ KeysInv /\ ResultsInv

\* The daemon as a whole runs the commands.
LEMMA RunsCommands ==
    part = "commands" /\ [MCNext]_allVars => part' = "commands" /\ [C!Next]_(C!vars)
  BY DEF MCNext, InInbox, InTaskRunner, InPublication, InExtensionTasks, InCommands,
         InOperations, InRequests, InRuntimeRuns, InNotifications, allVars, commands, C!vars

\* Nothing runs and nothing is queued at first.
LEMMA CommandsInit == C!Init => CommandsInv
<1> SUFFICES ASSUME C!Init PROVE CommandsInv
  OBVIOUS
<1> USE BoundsAssumption DEF C!Init, C!NoTurn
<1>1. CommandTypes
  <2>1. C!NoTurn \in Turns
    BY DEF Turns
  <2>2. /\ cQueue \in Seq(CommandTasks) /\ Len(cQueue) = 0
        /\ cCommand \in Seq(Plans) /\ Len(cCommand) = 0 /\ cResults \in Seq(Results)
    OBVIOUS
  <2> QED
    <3>1. cGranted \subseteq Capabilities /\ cDenied \subseteq Capabilities
      OBVIOUS
    <3>2. cWorker \in 0..Len(cQueue)
      BY <2>2
    <3>3. cTurn \in Turns
      BY <2>1
    <3>4. Len(cCommand) <= MaxCommands
      BY <2>2
    <3> QED
      BY <2>2, <3>1, <3>2, <3>3, <3>4 DEF CommandTypes
<1>2. TurnInv /\ AuthorizedInv /\ KeysInv /\ ResultsInv
  BY DEF TurnInv, AuthorizedInv, KeysInv, ResultsInv
<1> QED
  BY <1>1, <1>2 DEF CommandsInv

\* The key of a request tells its command and, but for an extension's, its number.
LEMMA KeyTells ==
    ASSUME NEW c, NEW d, NEW i, NEW j, C!Key(c, i) = C!Key(d, j)
    PROVE  c = d /\ (cCommand[c].kind # "extension" => i = j)
  BY DEF C!Key

\* The result of a turn has its tasks.
LEMMA ResultKeepsCommands ==
    ASSUME CommandsInv, cTurn.at # "none",
           NEW status \in {"denied", "succeeded", "failed"}, C!Result(status),
           UNCHANGED <<cGranted, cDenied, cQueue, cCommand, cWorker, cRan>>
    PROVE  CommandsInv'
<1> USE BoundsAssumption
<1>1. CommandTypes /\ TurnInv /\ AuthorizedInv /\ KeysInv /\ ResultsInv
  BY DEF CommandsInv
<1> DEFINE result == [status |-> status, tasks |-> cTurn.tasks]
           none == [at |-> "none", command |-> 0, made |-> 0, tasks |-> <<>>]
<1>2. cResults' = Append(cResults, result) /\ cTurn' = none
  BY DEF C!Result, C!NoTurn
<1>3. result \in Results /\ none \in Turns /\ cResults \in Seq(Results)
  BY <1>1 DEF CommandTypes, Turns, Results
<1>4. result.tasks = cTurn.tasks /\ none.at = "none" /\ none.tasks = <<>> /\ none.made = 0
  OBVIOUS
<1> HIDE DEF result, none
<1>5. /\ cResults' \in Seq(Results) /\ Len(cResults') = Len(cResults) + 1
      /\ cResults'[Len(cResults) + 1] = result
      /\ \A c \in DOMAIN cResults : cResults'[c] = cResults[c]
      /\ DOMAIN cResults' = DOMAIN cResults \cup {Len(cResults) + 1}
  BY <1>2, <1>3
<1>6. Len(cResults) + 1 = cTurn.command /\ Len(cCommand) = cTurn.command /\ cTurn.command \in Nat
  BY <1>1 DEF TurnInv, CommandTypes
<1>7. CommandTypes'
  BY <1>1, <1>2, <1>3, <1>5 DEF CommandTypes
<1>8. TurnInv'
  BY <1>1, <1>2, <1>4, <1>5, <1>6 DEF TurnInv
<1>9. AuthorizedInv' /\ KeysInv'
  BY <1>1 DEF AuthorizedInv, KeysInv, C!Key, C!Authorized
<1>10. ResultsInv'
  <2>1. ASSUME NEW i \in DOMAIN result.tasks
        PROVE  IsOwn(cTurn.command, i, result.tasks[i])
    <3> DEFINE t == cTurn.tasks[i]
    <3>1. t \in DOMAIN cQueue /\ cQueue[t].key = C!Key(cTurn.command, i)
      BY <1>1, <1>4, <2>1 DEF TurnInv
    <3>2. cQueue[t].key = C!Key(cQueue[t].command, cQueue[t].request)
      BY <1>1, <3>1 DEF KeysInv
    <3>3. cQueue[t].command = cTurn.command /\ (cCommand[cTurn.command].kind # "extension" => cQueue[t].request = i)
      <4>1. C!Key(cTurn.command, i) = C!Key(cQueue[t].command, cQueue[t].request)
        BY <3>1, <3>2
      <4> QED
        BY <4>1, KeyTells
    <3> QED
      BY <3>1, <3>3, <1>4 DEF IsOwn
  <2> QED
    BY <1>1, <1>5, <1>6, <2>1 DEF ResultsInv, IsOwn
<1> QED
  BY <1>7, <1>8, <1>9, <1>10 DEF CommandsInv

\* A command comes, and its turn is authorized or denied.
LEMMA ComingKeepsCommands ==
    ASSUME CommandsInv,
           \/ C!Authorize
           \/ \E kind \in C!Kinds, required \in SUBSET Capabilities, n \in 0..MaxRequests :
                 C!Come(kind, required, n)
    PROVE  CommandsInv'
<1> USE BoundsAssumption
<1>1. CommandTypes /\ TurnInv /\ AuthorizedInv /\ KeysInv /\ ResultsInv
  BY DEF CommandsInv
<1>2. UNCHANGED <<cGranted, cDenied, cQueue, cWorker, cRan>>
  BY DEF C!Authorize, C!Come, C!Process
<1>3. AuthorizedInv'
  BY <1>1, <1>2 DEF AuthorizedInv, C!Authorized
<1>4. ASSUME NEW kind \in C!Kinds, NEW required \in SUBSET Capabilities, NEW n \in 0..MaxRequests,
             C!Come(kind, required, n)
      PROVE  CommandsInv'
  <2> DEFINE plan == [kind |-> kind, required |-> required, requests |-> n]
             c == Len(cCommand) + 1
             new == [at |-> "authorize", command |-> c, made |-> 0, tasks |-> <<>>]
  <2>1. /\ cTurn.at = "none" /\ Len(cCommand) < MaxCommands
        /\ cCommand' = Append(cCommand, plan) /\ cTurn' = new /\ UNCHANGED cResults
    BY <1>4 DEF C!Come, C!NoTurn
  <2>2. plan \in Plans /\ cCommand \in Seq(Plans)
    BY <1>1 DEF Plans, CommandTypes
  <2>3. new \in Turns
    BY <2>1, <2>2 DEF Turns
  <2> HIDE DEF plan, new
  <2>4. /\ cCommand' \in Seq(Plans) /\ Len(cCommand') = c /\ DOMAIN cCommand \subseteq DOMAIN cCommand'
        /\ \A i \in DOMAIN cCommand : cCommand'[i] = cCommand[i]
    BY <2>1, <2>2
  <2>5. CommandTypes'
    BY <1>1, <1>2, <2>1, <2>2, <2>3, <2>4 DEF CommandTypes
  <2>6. TurnInv'
    BY <1>1, <2>1, <2>2, <2>4 DEF TurnInv, new
  <2>7. KeysInv'
    BY <1>1, <1>2, <2>4 DEF KeysInv, C!Key
  <2>8. ResultsInv'
    <3>1. DOMAIN cResults \subseteq DOMAIN cCommand
      BY <1>1, <2>1 DEF CommandTypes, TurnInv
    <3> QED
      BY <1>1, <1>2, <2>1, <2>4, <3>1 DEF ResultsInv, IsOwn
  <2> QED
    BY <1>3, <2>5, <2>6, <2>7, <2>8 DEF CommandsInv
<1>5. CASE C!Authorize /\ C!Authorized(C!Plan.required)
  <2>1. cTurn.at = "authorize" /\ cTurn' = [cTurn EXCEPT !.at = "handler"] /\ UNCHANGED <<cResults, cCommand>>
    BY <1>5 DEF C!Authorize
  <2>2. cTurn \in Turns
    BY <1>1 DEF CommandTypes
  <2>3. /\ cTurn'.at = "handler" /\ cTurn'.command = cTurn.command /\ cTurn'.made = cTurn.made
        /\ cTurn'.tasks = cTurn.tasks /\ cTurn' \in Turns
    BY <2>1, <2>2 DEF Turns
  <2>4. CommandTypes'
    BY <1>1, <1>2, <2>1, <2>3 DEF CommandTypes
  <2>5. TurnInv'
    BY <1>1, <1>2, <1>5, <2>1, <2>3 DEF TurnInv, C!Authorized, C!Plan, C!Key
  <2>6. KeysInv' /\ ResultsInv'
    BY <1>1, <1>2, <2>1 DEF KeysInv, ResultsInv, IsOwn, C!Key
  <2> QED
    BY <1>3, <2>4, <2>5, <2>6 DEF CommandsInv
<1>6. CASE C!Authorize /\ ~C!Authorized(C!Plan.required)
  BY <1>2, <1>6, ResultKeepsCommands DEF C!Authorize
<1> QED
  BY <1>4, <1>5, <1>6

\* The handler makes a request: its task has the request's key, queued now or before.
LEMMA EnqueueKeepsCommands == CommandsInv /\ C!Enqueue => CommandsInv'
<1> SUFFICES ASSUME CommandsInv, C!Enqueue PROVE CommandsInv'
  OBVIOUS
<1> USE BoundsAssumption
<1>1. CommandTypes /\ TurnInv /\ AuthorizedInv /\ KeysInv /\ ResultsInv
  BY DEF CommandsInv
<1> DEFINE c == cTurn.command
           n == cTurn.made + 1
           known == {t \in DOMAIN cQueue : cQueue[t].key = C!Key(c, n)}
           new == [key |-> C!Key(c, n), command |-> c, request |-> n,
                   required |-> cCommand[c].required, status |-> "pending"]
           named == CHOOSE t \in DOMAIN cQueue' : cQueue'[t].key = C!Key(c, n)
<1>2. /\ cTurn.at = "handler" /\ cTurn.made < cCommand[c].requests
      /\ UNCHANGED <<cGranted, cDenied, cCommand, cResults, cWorker>>
  BY DEF C!Enqueue, C!Plan, C!Process
<1>21. cQueue' = IF known # {} THEN cQueue ELSE Append(cQueue, new)
  BY DEF C!Enqueue, C!Queued, C!Current
<1>22. cTurn' = [cTurn EXCEPT !.made = n, !.tasks = Append(@, named)]
  BY DEF C!Enqueue, C!Current
<1>20. cRan' = (cRan \/ ~C!Authorized(cCommand[c].required))
  BY DEF C!Enqueue, C!Plan
<1>3. /\ c \in DOMAIN cCommand /\ cCommand[c] \in Plans /\ c \in Nat /\ n \in 1..MaxRequests
      /\ cQueue \in Seq(CommandTasks)
  <2>1. cTurn \in Turns /\ cCommand \in Seq(Plans) /\ cQueue \in Seq(CommandTasks)
    BY <1>1 DEF CommandTypes
  <2>2. c = Len(cCommand) /\ Len(cResults) + 1 = Len(cCommand) /\ Len(cResults) \in Nat
    BY <1>1, <1>2 DEF TurnInv, CommandTypes
  <2>3. c \in DOMAIN cCommand /\ cCommand[c] \in Plans /\ c \in Nat
    BY <2>1, <2>2
  <2>4. cCommand[c].requests \in 0..MaxRequests /\ cTurn.made \in 0..MaxRequests
    BY <2>1, <2>3 DEF Turns, Plans
  <2> QED
    BY <1>2, <2>1, <2>3, <2>4
<1>4. new \in CommandTasks
  <2>1. C!Key(c, n) \in C!Kinds \X Nat \X Nat
    BY <1>3 DEF C!Key, C!Kinds, Plans
  <2> QED
    BY <1>3, <2>1 DEF CommandTasks, Plans
<1>5. new.key = C!Key(c, n) /\ new.command = c /\ new.request = n /\ new.status = "pending"
  OBVIOUS
<1> HIDE DEF new
<1>6. /\ cQueue' \in Seq(CommandTasks) /\ Len(cQueue') >= Len(cQueue)
      /\ DOMAIN cQueue \subseteq DOMAIN cQueue'
      /\ \A t \in DOMAIN cQueue : cQueue'[t] = cQueue[t]
      /\ \A t \in DOMAIN cQueue' \ DOMAIN cQueue : cQueue'[t] = new /\ known = {} /\ t = Len(cQueue) + 1
  <2>1. CASE known # {}
    BY <1>21, <1>3, <2>1
  <2>2. CASE known = {}
    <3>1. cQueue' = Append(cQueue, new)
      BY <1>21, <2>2
    <3> QED
      BY <1>3, <1>4, <2>2, <3>1
  <2> QED
    BY <2>1, <2>2
<1>7. named \in DOMAIN cQueue' /\ cQueue'[named].key = C!Key(c, n)
  <2>1. \E t \in DOMAIN cQueue' : cQueue'[t].key = C!Key(c, n)
    <3>1. CASE known # {}
      BY <1>6, <3>1
    <3>2. CASE known = {}
      <4>1. cQueue' = Append(cQueue, new)
        BY <1>21, <3>2
      <4>2. Len(cQueue) + 1 \in DOMAIN cQueue' /\ cQueue'[Len(cQueue) + 1] = new
        BY <1>3, <1>4, <4>1
      <4> QED
        BY <4>2, <1>5
    <3> QED
      BY <3>1, <3>2
  <2> QED
    BY <2>1
<1> HIDE DEF named
<1>8. /\ cTurn'.at = "handler" /\ cTurn'.command = c /\ cTurn'.made = n
      /\ cTurn'.tasks = Append(cTurn.tasks, named) /\ cTurn' \in Turns
  <2>1. named \in Nat
    BY <1>6, <1>7
  <2>2. cTurn \in Turns
    BY <1>1 DEF CommandTypes
  <2>3. Append(cTurn.tasks, named) \in Seq(Nat)
    BY <2>1, <2>2 DEF Turns
  <2> QED
    <3>1. cTurn' = [at |-> cTurn.at, command |-> c, made |-> n, tasks |-> Append(cTurn.tasks, named)]
      BY <1>22, <2>2 DEF Turns
    <3>2. n \in 0..MaxRequests /\ cTurn.at = "handler" /\ c \in 0..MaxCommands
      BY <1>2, <1>3, <2>2 DEF Turns
    <3> QED
      BY <2>3, <3>1, <3>2 DEF Turns
<1>9. CommandTypes'
  BY <1>1, <1>2, <1>6, <1>8 DEF CommandTypes
<1>10. TurnInv'
  <2>1. cTurn.tasks \in Seq(Nat) /\ Len(cTurn.tasks) = cTurn.made
    BY <1>1 DEF CommandTypes, Turns, TurnInv
  <2>2. Len(cTurn'.tasks) = n
    BY <1>8, <2>1
  <2>3. ASSUME NEW i \in DOMAIN cTurn'.tasks
        PROVE  cTurn'.tasks[i] \in DOMAIN cQueue' /\ cQueue'[cTurn'.tasks[i]].key = C!Key(c, i)
    <3>1. CASE i = n
      BY <1>7, <1>8, <2>1, <3>1
    <3>2. CASE i # n
      <4>1. i \in DOMAIN cTurn.tasks /\ cTurn'.tasks[i] = cTurn.tasks[i]
        BY <1>8, <2>1, <2>3, <3>2
      <4> QED
        BY <4>1, <1>1, <1>6 DEF TurnInv
    <3> QED
      BY <3>1, <3>2
  <2> QED
    BY <1>1, <1>2, <1>8, <2>2, <2>3 DEF TurnInv, C!Key, C!Authorized, C!Plan
<1>11. AuthorizedInv'
  <2>1. C!Authorized(cCommand[c].required)
    BY <1>1, <1>2 DEF TurnInv, C!Plan
  <2> QED
    BY <1>1, <1>2, <1>20, <1>5, <1>6, <2>1 DEF AuthorizedInv, C!Authorized
<1>12. KeysInv'
  <2>1. \A t \in DOMAIN cQueue' : /\ cQueue'[t].command \in DOMAIN cCommand
                                 /\ cQueue'[t].key = C!Key(cQueue'[t].command, cQueue'[t].request)
    BY <1>1, <1>3, <1>5, <1>6 DEF KeysInv
  <2>2. \A s, t \in DOMAIN cQueue' : s # t => cQueue'[s].key # cQueue'[t].key
    BY <1>1, <1>5, <1>6 DEF KeysInv
  <2> QED
    BY <1>2, <2>1, <2>2 DEF KeysInv, C!Key
<1>13. ResultsInv'
  BY <1>1, <1>2, <1>6 DEF ResultsInv, IsOwn
<1> QED
  BY <1>9, <1>10, <1>11, <1>12, <1>13 DEF CommandsInv

\* Steps that change the status of tasks, and who works.
LEMMA StatusKeepsCommands ==
    ASSUME CommandsInv,
           cQueue' \in Seq(CommandTasks), DOMAIN cQueue' = DOMAIN cQueue, Len(cQueue') = Len(cQueue),
           \A t \in DOMAIN cQueue : /\ cQueue'[t].key = cQueue[t].key
                                    /\ cQueue'[t].command = cQueue[t].command
                                    /\ cQueue'[t].request = cQueue[t].request,
           AuthorizedInv', cWorker' \in 0..Len(cQueue),
           cGranted' \subseteq Capabilities, cDenied' \subseteq Capabilities,
           UNCHANGED <<cCommand, cResults>>,
           \/ UNCHANGED <<cTurn, cGranted, cDenied>>
           \/ /\ cTurn' \in Turns /\ cTurn'.tasks = <<>> /\ cTurn'.made = 0
              /\ cTurn.at = "none" => cTurn'.at = "none"
              /\ cTurn.at # "none" => cTurn'.at = "authorize" /\ cTurn'.command = cTurn.command
    PROVE  CommandsInv'
<1> USE BoundsAssumption
<1>1. CommandTypes /\ TurnInv /\ KeysInv /\ ResultsInv
  BY DEF CommandsInv
<1>2. CommandTypes'
  BY <1>1 DEF CommandTypes
<1>3. KeysInv' /\ ResultsInv'
  BY <1>1 DEF KeysInv, ResultsInv, IsOwn, C!Key
<1>4. TurnInv'
  <2>1. CASE UNCHANGED <<cTurn, cGranted, cDenied>>
    BY <1>1, <2>1 DEF TurnInv, C!Key, C!Authorized, C!Plan
  <2>2. CASE /\ cTurn' \in Turns /\ cTurn'.tasks = <<>> /\ cTurn'.made = 0
             /\ cTurn.at = "none" => cTurn'.at = "none"
             /\ cTurn.at # "none" => cTurn'.at = "authorize" /\ cTurn'.command = cTurn.command
    BY <1>1, <2>2 DEF TurnInv
  <2> QED
    BY <2>1, <2>2
<1> QED
  BY <1>2, <1>3, <1>4 DEF CommandsInv

\* The worker's steps and the restart.
LEMMA WorkingKeepsCommands ==
    ASSUME CommandsInv,
           \/ C!Restart
           \/ \E t \in DOMAIN cQueue : C!Claim(t) \/ C!AuthorizeTask(t) \/ C!Complete(t)
    PROVE  CommandsInv'
<1> USE BoundsAssumption
<1>1. CommandTypes /\ AuthorizedInv
  BY DEF CommandsInv
<1>2. cQueue \in Seq(CommandTasks)
  BY <1>1 DEF CommandTypes
<1>3. ASSUME NEW t \in DOMAIN cQueue, C!Claim(t) \/ C!AuthorizeTask(t) \/ C!Complete(t)
      PROVE  CommandsInv'
  <2>1. PICK status \in {"claimed", "running", "failed", "completed"} :
             /\ cQueue' = [cQueue EXCEPT ![t].status = status]
             /\ status = "claimed" => cWorker = 0 /\ cWorker' = t
             /\ status = "running" => cWorker = t /\ cWorker' = t /\ C!Authorized(cQueue[t].required)
             /\ status \in {"failed", "completed"} => cWorker = t /\ cWorker' = 0
    BY <1>3 DEF C!Claim, C!AuthorizeTask, C!Complete
  <2>2. UNCHANGED <<cCommand, cResults, cRan, cTurn, cGranted, cDenied>>
    BY <1>3 DEF C!Claim, C!AuthorizeTask, C!Complete, C!Process
  <2>3. cQueue[t] \in CommandTasks
    BY <1>2
  <2> DEFINE changed == [cQueue[t] EXCEPT !.status = status]
  <2>4. /\ changed \in CommandTasks /\ changed.status = status /\ changed.key = cQueue[t].key
        /\ changed.command = cQueue[t].command /\ changed.request = cQueue[t].request
        /\ changed.required = cQueue[t].required
    BY <2>3 DEF CommandTasks
  <2> HIDE DEF changed
  <2>5. cQueue' = [cQueue EXCEPT ![t] = changed]
    BY <2>1 DEF changed
  <2>6. /\ cQueue' \in Seq(CommandTasks) /\ DOMAIN cQueue' = DOMAIN cQueue /\ Len(cQueue') = Len(cQueue)
        /\ cQueue'[t] = changed /\ \A s \in DOMAIN cQueue : s # t => cQueue'[s] = cQueue[s]
    BY <1>2, <2>4, <2>5, SMTT(30)
  <2>7. t \in 1..Len(cQueue) /\ Len(cQueue) \in Nat
    BY <1>2
  <2>8. cWorker' \in 0..Len(cQueue) /\ cGranted' \subseteq Capabilities /\ cDenied' \subseteq Capabilities
    <3>1. cWorker' \in {0, t}
      BY ONLY <2>1
    <3>2. cWorker' \in 0..Len(cQueue)
      BY ONLY <2>7, <3>1
    <3> QED
      BY <1>1, <2>2, <3>2 DEF CommandTypes
  <2>9. AuthorizedInv'
    <3>1. ASSUME NEW s \in DOMAIN cQueue
          PROVE  /\ cQueue'[s].status \in {"claimed", "running"} => cWorker' = s
                 /\ cQueue'[s].status = "running" => C!Authorized(cQueue'[s].required)
      <4>1. CASE s = t
        BY <2>1, <2>4, <2>6, <4>1
      <4>2. CASE s # t
        <5>1. cQueue'[s] = cQueue[s] /\ (cQueue[s].status \in {"claimed", "running"} => cWorker = s)
          BY <1>1, <2>6, <4>2 DEF AuthorizedInv
        <5>2. cQueue[s].status \notin {"claimed", "running"}
          BY <2>1, <2>7, <4>2, <5>1, <1>2, SMTT(30)
        <5> QED
          BY <5>1, <5>2
      <4> QED
        BY <4>1, <4>2
    <3> QED
      BY <1>1, <2>2, <2>6, <3>1 DEF AuthorizedInv, C!Authorized
  <2>10. \A s \in DOMAIN cQueue : /\ cQueue'[s].key = cQueue[s].key
                                   /\ cQueue'[s].command = cQueue[s].command
                                   /\ cQueue'[s].request = cQueue[s].request
    BY <2>4, <2>6
  <2> QED
    BY <2>2, <2>6, <2>8, <2>9, <2>10, StatusKeepsCommands
<1>4. CASE C!Restart
  <2> DEFINE again(s) == [cQueue[s] EXCEPT !.status = "pending"]
             left == [at |-> IF cTurn.at = "none" THEN "none" ELSE "authorize",
                      command |-> IF cTurn.at = "none" THEN 0 ELSE cTurn.command,
                      made |-> 0, tasks |-> <<>>]
  <2>1. /\ cGranted' \subseteq Capabilities /\ cDenied' \subseteq Capabilities
        /\ cQueue' = [s \in DOMAIN cQueue |-> IF s = cWorker THEN again(s) ELSE cQueue[s]]
        /\ cWorker' = 0 /\ UNCHANGED <<cCommand, cResults, cRan>>
    BY <1>4 DEF C!Restart
  <2>2. cTurn' = left
    BY <1>4 DEF C!Restart, C!NoTurn, C!Current
  <2>3. left \in Turns
    BY <1>1 DEF CommandTypes, Turns
  <2>4. /\ cTurn'.tasks = <<>> /\ cTurn'.made = 0
        /\ cTurn.at = "none" => cTurn'.at = "none"
        /\ cTurn.at # "none" => cTurn'.at = "authorize" /\ cTurn'.command = cTurn.command
    BY <2>2
  <2> HIDE DEF left
  <2>5. \A s \in DOMAIN cQueue :
          /\ again(s) \in CommandTasks /\ again(s).status = "pending" /\ again(s).key = cQueue[s].key
          /\ again(s).command = cQueue[s].command /\ again(s).request = cQueue[s].request
          /\ cQueue[s] \in CommandTasks
    <3> SUFFICES ASSUME NEW s \in DOMAIN cQueue
                 PROVE  /\ again(s) \in CommandTasks /\ again(s).status = "pending"
                        /\ again(s).key = cQueue[s].key /\ again(s).command = cQueue[s].command
                        /\ again(s).request = cQueue[s].request /\ cQueue[s] \in CommandTasks
      OBVIOUS
    <3>1. cQueue[s] \in CommandTasks
      BY <1>2
    <3> QED
      BY <3>1 DEF CommandTasks
  <2> HIDE DEF again
  <2>6. /\ DOMAIN cQueue' = DOMAIN cQueue
        /\ \A s \in DOMAIN cQueue : cQueue'[s] = IF s = cWorker THEN again(s) ELSE cQueue[s]
    BY <2>1
  <2>7. cQueue' \in Seq(CommandTasks) /\ Len(cQueue') = Len(cQueue)
    <3>1. DOMAIN cQueue = 1..Len(cQueue) /\ Len(cQueue) \in Nat
      BY <1>2
    <3>2. cQueue' \in [1..Len(cQueue) -> CommandTasks]
      BY <2>1, <2>5, <3>1
    <3> QED
      BY <3>1, <3>2
  <2>8. AuthorizedInv'
    BY <1>1, <2>1, <2>5, <2>6 DEF AuthorizedInv
  <2>9. \A s \in DOMAIN cQueue : /\ cQueue'[s].key = cQueue[s].key
                                  /\ cQueue'[s].command = cQueue[s].command
                                  /\ cQueue'[s].request = cQueue[s].request
    BY <2>5, <2>6
  <2>10. cWorker' \in 0..Len(cQueue) /\ cTurn' \in Turns
    BY <1>2, <2>1, <2>2, <2>3
  <2> QED
    BY <2>1, <2>4, <2>6, <2>7, <2>8, <2>9, <2>10, StatusKeepsCommands
<1> QED
  BY <1>3, <1>4

\* Every step of the commands keeps their invariant.
LEMMA CommandsStep == CommandsInv /\ [C!Next]_(C!vars) => CommandsInv'
<1> SUFFICES ASSUME CommandsInv, [C!Next]_(C!vars) PROVE CommandsInv'
  OBVIOUS
<1>1. CASE UNCHANGED C!vars
  <2>1. UNCHANGED <<cGranted, cDenied, cQueue, cCommand, cTurn, cResults, cWorker>> /\ UNCHANGED cRan
    BY <1>1 DEF C!vars
  <2>2. CommandTypes' /\ TurnInv'
    BY <2>1 DEF CommandsInv, CommandTypes, TurnInv, C!Authorized, C!Plan, C!Key
  <2>3. AuthorizedInv' /\ KeysInv' /\ ResultsInv'
    BY <2>1 DEF CommandsInv, AuthorizedInv, KeysInv, ResultsInv, IsOwn, C!Authorized, C!Key
  <2> QED
    BY <2>2, <2>3 DEF CommandsInv
<1>2. CASE C!Return \/ C!Raise
  BY <1>2, ResultKeepsCommands DEF C!Return, C!Raise, C!Process
<1> QED
  BY <1>1, <1>2, ComingKeepsCommands, EnqueueKeepsCommands, WorkingKeepsCommands DEF C!Next

\* What the run checks of the commands follows.
LEMMA CommandsAreGoverned == CommandsInv => C!NothingRunsUnauthorized /\ C!RequestsAreQueuedOnce
<1> SUFFICES ASSUME CommandsInv PROVE C!NothingRunsUnauthorized /\ C!RequestsAreQueuedOnce
  OBVIOUS
<1>1. C!NothingRunsUnauthorized
  BY DEF CommandsInv, AuthorizedInv, C!NothingRunsUnauthorized
<1>2. ASSUME NEW s \in DOMAIN cQueue, NEW t \in DOMAIN cQueue, s # t,
             <<cQueue[s].command, cQueue[s].request>> = <<cQueue[t].command, cQueue[t].request>>
      PROVE  FALSE
  BY <1>2 DEF CommandsInv, KeysInv
<1> QED
  BY <1>1, <1>2 DEF CommandsInv, ResultsInv, IsOwn, C!RequestsAreQueuedOnce

-----------------------------------------------------------------------------
(* Operations.  The checkout is vetted whenever no update is in progress,  *)
(* and an update is in progress only while the daemon is up.               *)

\* The type of their state.
OperationTypes ==
    /\ O!TypeOK
    /\ oBroken \subseteq O!Revisions /\ oRemote \in O!Revisions /\ oVetted \subseteq O!Revisions
    /\ oProcess \in [at : {"down", "starting", "up", "stopping", "notified"}, revision : 0..O!Local]
    /\ oUpdate \in [at : {"none", "doctor", "rollback"}, previous : 0..O!Local]
    /\ oSilent \in BOOLEAN /\ oUnfinished \in BOOLEAN

\* The checkout is vetted, or being vetted, or an update did not end as it should.
VettingInv ==
    /\ oCheckout.revision \in O!Revisions \ oVetted => oUnfinished \/ oUpdate.at # "none"
    /\ oUpdate.at # "none" =>
         /\ oProcess.at = "up" /\ oCheckout.revision \in O!Revisions
         /\ oUpdate.previous \in 1..O!Local
         /\ oUpdate.previous \in O!Revisions \ oVetted => oUnfinished
    /\ oUpdate.at = "none" => oUpdate = O!NoUpdate
    /\ O!RunningIsVetted

\* The lifecycle record has the code that runs, unless the operator committed on
\* top while the daemon started.
StartedInv ==
    /\ oProcess.at = "starting" => oCheckout.revision \in {oProcess.revision, O!Local}
    /\ oProcess.at \in {"up", "stopping", "notified"} =>
         /\ oLifecycle.status = "running"
         /\ oLifecycle.started_head \in {oProcess.revision, O!Local}

\* The record of a process that ended silently does not say that it said so.
SilentInv ==
    oSilent /\ oProcess.at \in {"down", "starting"} =>
       oLifecycle.status = "running" \/ (oLifecycle.status = "stopped" /\ ~oLifecycle.sent)

OperationsInv == OperationTypes /\ VettingInv /\ StartedInv /\ SilentInv

\* The daemon as a whole runs the operations.
LEMMA RunsOperations ==
    /\ part = "operations" /\ [MCNext]_allVars => part' = "operations" /\ [O!Next]_(O!vars)
    /\ part # "operations" /\ [MCNext]_allVars => part' # "operations" /\ UNCHANGED operations
  BY DEF MCNext, InInbox, InTaskRunner, InPublication, InExtensionTasks, InCommands,
         InOperations, InRequests, InRuntimeRuns, InNotifications, allVars, operations, O!vars

\* At first nothing runs, and no start was vetted.
LEMMA OperationsInit == O!Init => OperationsInv
<1> SUFFICES ASSUME O!Init PROVE OperationsInv
  OBVIOUS
<1> USE BoundsAssumption DEF O!Init, O!Revisions, O!Local, O!NoUpdate, O!NoRestart, O!NoLifecycle
<1>1. O!TypeOK
  BY DEF O!TypeOK
<1>2. OperationTypes
  <2>1. oProcess \in [at : {"down", "starting", "up", "stopping", "notified"}, revision : 0..O!Local]
    OBVIOUS
  <2>2. oUpdate \in [at : {"none", "doctor", "rollback"}, previous : 0..O!Local]
    OBVIOUS
  <2>3. oSilent \in BOOLEAN /\ oUnfinished \in BOOLEAN
    OBVIOUS
  <2>4. oBroken \subseteq O!Revisions /\ oRemote \in O!Revisions /\ oVetted \subseteq O!Revisions
    OBVIOUS
  <2> QED
    BY <1>1, <2>1, <2>2, <2>3, <2>4 DEF OperationTypes
<1>3. VettingInv /\ StartedInv /\ SilentInv
  BY DEF VettingInv, StartedInv, SilentInv, O!RunningIsVetted
<1> QED
  BY <1>2, <1>3 DEF OperationsInv

\* The records of the operations, and what the conjuncts say of them.
LEMMA OperationFacts ==
    ASSUME OperationsInv
    PROVE  /\ MaxRevision \in Nat \ {0} /\ O!Local = MaxRevision + 1 /\ O!Revisions = 1..MaxRevision
           /\ oCheckout \in [revision : 1..O!Local, clean : BOOLEAN]
           /\ oProcess \in [at : {"down", "starting", "up", "stopping", "notified"}, revision : 0..O!Local]
           /\ oLifecycle \in [status : {"none", "running", "stopped"}, started_head : 0..O!Local, sent : BOOLEAN]
           /\ oUpdate \in [at : {"none", "doctor", "rollback"}, previous : 0..O!Local]
           /\ oReply \in {"none", "owed"} /\ oRestart \in [wanted : BOOLEAN, ordered : BOOLEAN]
           /\ oRemote \in O!Revisions /\ oBroken \subseteq O!Revisions /\ oVetted \subseteq O!Revisions
           /\ oSilent \in BOOLEAN /\ oUnfinished \in BOOLEAN
  BY BoundsAssumption DEF OperationsInv, OperationTypes, O!TypeOK, O!Local, O!Revisions

\* Steps outside of an update, and outside of the process's life.
LEMMA RepositoryKeepsOperations ==
    ASSUME OperationsInv,
           O!Publish \/ O!Edit \/ O!UpdateRefused \/ O!UpdateCurrent \/ O!RestartCommand \/ O!ReplySettled
    PROVE  OperationsInv'
<1> USE OperationFacts
<1>1. OperationTypes /\ VettingInv /\ StartedInv /\ SilentInv
  BY DEF OperationsInv
<1>2. UNCHANGED <<oBroken, oProcess, oLifecycle, oUpdate, oVetted>>
  BY DEF O!Publish, O!Edit, O!UpdateRefused, O!UpdateCurrent, O!RestartCommand, O!ReplySettled,
         O!repository, O!ghosts
<1>3. UNCHANGED oSilent /\ UNCHANGED oUnfinished
  BY DEF O!Publish, O!Edit, O!UpdateRefused, O!UpdateCurrent, O!RestartCommand, O!ReplySettled,
         O!repository, O!ghosts
<1>4. \/ UNCHANGED oCheckout
      \/ /\ oUpdate.at = "none" /\ oCheckout'.revision \in {oCheckout.revision, O!Local}
         /\ oCheckout' \in [revision : 1..O!Local, clean : BOOLEAN]
  <2>1. CASE O!Edit
    <3>1. oUpdate = O!NoUpdate
      BY <2>1 DEF O!Edit
    <3>2. CASE oCheckout' = [oCheckout EXCEPT !.clean = ~@]
      <4>1. oCheckout' = [revision |-> oCheckout.revision, clean |-> ~oCheckout.clean]
        BY <3>2
      <4> QED
        BY <3>1, <4>1 DEF O!NoUpdate
    <3>3. CASE oCheckout' = [revision |-> O!Local, clean |-> TRUE]
      BY <3>1, <3>3 DEF O!NoUpdate
    <3> QED
      BY <2>1, <3>2, <3>3 DEF O!Edit
  <2> QED
    BY <2>1 DEF O!Publish, O!UpdateRefused, O!UpdateCurrent, O!RestartCommand, O!ReplySettled
<1>5. oReply' \in {"none", "owed"} /\ oRemote' \in O!Revisions
  <2>1. oReply' \in {"none", "owed"}
    BY DEF O!Publish, O!Edit, O!UpdateRefused, O!UpdateCurrent, O!RestartCommand, O!ReplySettled
  <2>2. UNCHANGED oRemote \/ (oRemote < MaxRevision /\ oRemote' = oRemote + 1)
    BY DEF O!Publish, O!Edit, O!UpdateRefused, O!UpdateCurrent, O!RestartCommand, O!ReplySettled,
           O!repository
  <2> QED
    BY <2>1, <2>2
<1>6. oRestart' \in [wanted : BOOLEAN, ordered : BOOLEAN]
  <2>1. \/ UNCHANGED oRestart
        \/ oRestart' = [oRestart EXCEPT !.wanted = TRUE]
        \/ oRestart' = [wanted |-> FALSE, ordered |-> oRestart.ordered \/ oRestart.wanted]
    BY DEF O!Publish, O!Edit, O!UpdateRefused, O!UpdateCurrent, O!RestartCommand, O!ReplySettled
  <2>2. oRestart \in [wanted : BOOLEAN, ordered : BOOLEAN]
    OBVIOUS
  <2>3. (oRestart.ordered \/ oRestart.wanted) \in BOOLEAN
    OBVIOUS
  <2> QED
    <3>1. CASE UNCHANGED oRestart
      BY ONLY <2>2, <3>1
    <3>2. CASE oRestart' = [oRestart EXCEPT !.wanted = TRUE]
      BY ONLY <2>2, <3>2
    <3>3. CASE oRestart' = [wanted |-> FALSE, ordered |-> oRestart.ordered \/ oRestart.wanted]
      BY ONLY <2>3, <3>3
    <3> QED
      BY ONLY <2>1, <3>1, <3>2, <3>3
<1>7. OperationTypes'
  BY <1>1, <1>2, <1>3, <1>4, <1>5, <1>6 DEF OperationTypes, O!TypeOK
<1>8. VettingInv'
  BY <1>1, <1>2, <1>3, <1>4 DEF VettingInv, O!RunningIsVetted
<1>9. StartedInv' /\ SilentInv'
  BY <1>1, <1>2, <1>3, <1>4 DEF StartedInv, SilentInv
<1> QED
  BY <1>7, <1>8, <1>9 DEF OperationsInv

\* An update restores the checkout, and its doctor passes it or puts it back.
LEMMA UpdatingKeepsOperations == OperationsInv /\ O!Update => OperationsInv'
<1> SUFFICES ASSUME OperationsInv, O!Update PROVE OperationsInv'
  OBVIOUS
<1> USE OperationFacts
<1>1. OperationTypes /\ VettingInv /\ StartedInv /\ SilentInv
  BY DEF OperationsInv
<1>2. UNCHANGED <<oBroken, oRemote, oProcess, oLifecycle>> /\ UNCHANGED oSilent
  BY DEF O!Update, O!UpdateRestores, O!DoctorPasses, O!DoctorFails, O!Rollback, O!repository, O!ghosts
<1>3. oProcess.at = "up"
  BY <1>1 DEF O!Update, O!UpdateRestores, O!DoctorPasses, O!DoctorFails, O!Rollback, O!Command,
              O!Idle, VettingInv
<1>4. CASE O!UpdateRestores
  <2>1. /\ oUpdate = [at |-> "none", previous |-> 0]
        /\ oCheckout' = [oCheckout EXCEPT !.revision = oRemote]
        /\ oUpdate' = [at |-> "doctor", previous |-> oCheckout.revision]
        /\ UNCHANGED <<oReply, oRestart, oVetted>>
    BY <1>4 DEF O!UpdateRestores, O!Command, O!Idle, O!NoUpdate, O!ghosts
  <2>2. UNCHANGED oUnfinished
    BY <1>4 DEF O!UpdateRestores, O!ghosts
  <2>3. oCheckout' \in [revision : 1..O!Local, clean : BOOLEAN] /\ oCheckout'.revision = oRemote
    BY <2>1
  <2>4. oUpdate' \in [at : {"none", "doctor", "rollback"}, previous : 0..O!Local]
    BY <2>1
  <2>5. OperationTypes'
    BY <1>1, <1>2, <2>1, <2>2, <2>3, <2>4 DEF OperationTypes, O!TypeOK
  <2>6. VettingInv'
    BY <1>1, <1>2, <1>3, <2>1, <2>2, <2>3 DEF VettingInv, O!RunningIsVetted
  <2>7. StartedInv' /\ SilentInv'
    BY <1>1, <1>2, <1>3 DEF StartedInv, SilentInv
  <2> QED
    BY <2>5, <2>6, <2>7 DEF OperationsInv
<1>5. CASE O!DoctorPasses
  <2>1. /\ oUpdate.at = "doctor" /\ oVetted' = oVetted \cup {oCheckout.revision}
        /\ oUpdate' = [at |-> "none", previous |-> 0] /\ oReply' = "owed"
        /\ UNCHANGED oCheckout
    BY <1>5 DEF O!DoctorPasses, O!NoUpdate
  <2>2. UNCHANGED oUnfinished /\ oRestart' = [oRestart EXCEPT !.wanted = TRUE]
    BY <1>5 DEF O!DoctorPasses
  <2>3. oCheckout.revision \in O!Revisions
    BY <1>1, <2>1 DEF VettingInv
  <2>4. oRestart' \in [wanted : BOOLEAN, ordered : BOOLEAN]
    BY <2>2
  <2>5. OperationTypes'
    BY <1>1, <1>2, <2>1, <2>2, <2>3, <2>4 DEF OperationTypes, O!TypeOK
  <2>6. VettingInv'
    BY <1>1, <1>2, <1>3, <2>1, <2>2, <2>3 DEF VettingInv, O!RunningIsVetted, O!NoUpdate
  <2>7. StartedInv' /\ SilentInv'
    BY <1>1, <1>2, <1>3 DEF StartedInv, SilentInv
  <2> QED
    BY <2>5, <2>6, <2>7 DEF OperationsInv
<1>6. CASE O!DoctorFails
  <2>1. /\ oUpdate.at = "doctor" /\ oUpdate' = [oUpdate EXCEPT !.at = "rollback"]
        /\ UNCHANGED <<oCheckout, oReply, oRestart, oVetted>>
    BY <1>6 DEF O!DoctorFails, O!ghosts
  <2>2. UNCHANGED oUnfinished
    BY <1>6 DEF O!DoctorFails, O!ghosts
  <2>3. /\ oUpdate' \in [at : {"none", "doctor", "rollback"}, previous : 0..O!Local]
        /\ oUpdate'.at = "rollback" /\ oUpdate'.previous = oUpdate.previous
    BY <2>1
  <2>4. OperationTypes'
    BY <1>1, <1>2, <2>1, <2>2, <2>3 DEF OperationTypes, O!TypeOK
  <2>5. VettingInv'
    BY <1>1, <1>2, <1>3, <2>1, <2>2, <2>3 DEF VettingInv, O!RunningIsVetted
  <2>6. StartedInv' /\ SilentInv'
    BY <1>1, <1>2, <1>3 DEF StartedInv, SilentInv
  <2> QED
    BY <2>4, <2>5, <2>6 DEF OperationsInv
<1>7. CASE O!Rollback
  <2>1. /\ oUpdate.at = "rollback" /\ oUpdate' = [at |-> "none", previous |-> 0]
        /\ oReply' = "owed" /\ UNCHANGED <<oRestart, oVetted>>
    BY <1>7 DEF O!Rollback, O!NoUpdate
  <2>2. \/ oCheckout' = [oCheckout EXCEPT !.revision = oUpdate.previous] /\ UNCHANGED oUnfinished
        \/ oUnfinished' = TRUE /\ UNCHANGED oCheckout
    BY <1>7 DEF O!Rollback
  <2>3. oUpdate.previous \in 1..O!Local
    BY <1>1, <2>1 DEF VettingInv
  <2>4. /\ oCheckout' \in [revision : 1..O!Local, clean : BOOLEAN] /\ oUnfinished' \in BOOLEAN
        /\ oCheckout'.revision = oUpdate.previous \/ oUnfinished'
        /\ oUnfinished => oUnfinished'
    BY <2>2, <2>3
  <2>5. OperationTypes'
    BY <1>1, <1>2, <2>1, <2>4 DEF OperationTypes, O!TypeOK
  <2>6. VettingInv'
    BY <1>1, <1>2, <1>3, <2>1, <2>4 DEF VettingInv, O!RunningIsVetted, O!NoUpdate
  <2>7. StartedInv' /\ SilentInv'
    BY <1>1, <1>2, <1>3 DEF StartedInv, SilentInv
  <2> QED
    BY <2>5, <2>6, <2>7 DEF OperationsInv
<1> QED
  BY <1>4, <1>5, <1>6, <1>7 DEF O!Update

\* The process starts, is told to stop, stops or crashes.
LEMMA ProcessKeepsOperations ==
    ASSUME OperationsInv, O!Start \/ O!BeginLifecycle \/ O!Stop \/ O!Crash
    PROVE  OperationsInv'
<1> USE OperationFacts
<1>1. OperationTypes /\ VettingInv /\ StartedInv /\ SilentInv
  BY DEF OperationsInv
<1>2. UNCHANGED <<oBroken, oRemote, oCheckout, oReply, oVetted>>
  BY DEF O!Start, O!BeginLifecycle, O!Stop, O!Crash, O!Terminate, O!ServiceCommand, O!Signal,
         O!NotifyShutdown, O!RecordShutdown, O!repository, O!ghosts
<1>3. CASE O!Start
  <2>1. /\ oProcess.at = "down" /\ oProcess' = [at |-> "starting", revision |-> oCheckout.revision]
        /\ UNCHANGED <<oLifecycle, oUpdate, oRestart>>
    BY <1>3 DEF O!Start
  <2>2. UNCHANGED oSilent /\ UNCHANGED oUnfinished
    BY <1>3 DEF O!Start, O!ghosts
  <2>3. oProcess' \in [at : {"down", "starting", "up", "stopping", "notified"}, revision : 0..O!Local]
    BY <2>1
  <2>4. OperationTypes'
    BY <1>1, <1>2, <2>1, <2>2, <2>3 DEF OperationTypes, O!TypeOK
  <2>5. VettingInv'
    BY <1>1, <1>2, <2>1, <2>2 DEF VettingInv, O!RunningIsVetted
  <2>6. StartedInv' /\ SilentInv'
    BY <1>1, <1>2, <2>1, <2>2 DEF StartedInv, SilentInv
  <2> QED
    BY <2>4, <2>5, <2>6 DEF OperationsInv
<1>4. CASE O!BeginLifecycle
  <2>1. /\ oProcess.at = "starting" /\ oProcess' = [oProcess EXCEPT !.at = "up"]
        /\ oLifecycle' = [status |-> "running", started_head |-> oCheckout.revision, sent |-> FALSE]
        /\ UNCHANGED <<oUpdate, oRestart>>
    BY <1>4 DEF O!BeginLifecycle
  <2>2. UNCHANGED oSilent /\ UNCHANGED oUnfinished
    BY <1>4 DEF O!BeginLifecycle, O!ghosts
  <2>3. /\ oProcess' \in [at : {"down", "starting", "up", "stopping", "notified"}, revision : 0..O!Local]
        /\ oProcess'.at = "up" /\ oProcess'.revision = oProcess.revision
    BY <2>1
  <2>4. oLifecycle' \in [status : {"none", "running", "stopped"}, started_head : 0..O!Local, sent : BOOLEAN]
    BY <2>1
  <2>5. OperationTypes'
    BY <1>1, <1>2, <2>1, <2>2, <2>3, <2>4 DEF OperationTypes, O!TypeOK
  <2>6. VettingInv'
    BY <1>1, <1>2, <2>1, <2>2, <2>3 DEF VettingInv, O!RunningIsVetted
  <2>7. StartedInv' /\ SilentInv'
    BY <1>1, <1>2, <2>1, <2>3 DEF StartedInv, SilentInv
  <2> QED
    BY <2>5, <2>6, <2>7 DEF OperationsInv
<1>5. CASE O!Signal
  <2>1. /\ oProcess.at = "up" /\ oProcess' = [oProcess EXCEPT !.at = "stopping"]
        /\ oUpdate' = [at |-> "none", previous |-> 0]
        /\ oRestart' = [wanted |-> FALSE, ordered |-> FALSE]
        /\ UNCHANGED oLifecycle
    BY <1>5 DEF O!Signal, O!Forget, O!NoUpdate, O!NoRestart
  <2>2. UNCHANGED oSilent /\ oUnfinished' = (oUnfinished \/ oUpdate # O!NoUpdate)
    BY <1>5 DEF O!Signal, O!Forget
  <2>3. oUnfinished' \in BOOLEAN /\ (oUnfinished => oUnfinished') /\ (oUpdate.at # "none" => oUnfinished')
    <3>1. oUpdate.at # "none" => oUpdate # O!NoUpdate
      BY DEF O!NoUpdate
    <3> QED
      BY ONLY <2>2, <3>1
  <2>4. /\ oProcess' \in [at : {"down", "starting", "up", "stopping", "notified"}, revision : 0..O!Local]
        /\ oProcess'.at = "stopping" /\ oProcess'.revision = oProcess.revision
    BY <2>1
  <2>5. OperationTypes'
    BY <1>1, <1>2, <2>1, <2>2, <2>3, <2>4 DEF OperationTypes, O!TypeOK
  <2>6. VettingInv'
    BY <1>1, <1>2, <2>1, <2>3, <2>4 DEF VettingInv, O!RunningIsVetted, O!NoUpdate
  <2>7. StartedInv' /\ SilentInv'
    BY <1>1, <1>2, <2>1, <2>4 DEF StartedInv, SilentInv
  <2> QED
    BY <2>5, <2>6, <2>7 DEF OperationsInv
<1>6. CASE O!NotifyShutdown
  <2>1. /\ oProcess.at = "stopping" /\ oProcess' = [oProcess EXCEPT !.at = "notified"]
        /\ UNCHANGED <<oLifecycle, oUpdate, oRestart>>
    BY <1>6 DEF O!NotifyShutdown
  <2>2. oSilent' \in BOOLEAN /\ UNCHANGED oUnfinished
    BY <1>6 DEF O!NotifyShutdown
  <2>3. /\ oProcess' \in [at : {"down", "starting", "up", "stopping", "notified"}, revision : 0..O!Local]
        /\ oProcess'.at = "notified" /\ oProcess'.revision = oProcess.revision
    BY <2>1
  <2>4. OperationTypes'
    BY <1>1, <1>2, <2>1, <2>2, <2>3 DEF OperationTypes, O!TypeOK
  <2>5. VettingInv'
    BY <1>1, <1>2, <2>1, <2>2, <2>3 DEF VettingInv, O!RunningIsVetted
  <2>6. StartedInv' /\ SilentInv'
    BY <1>1, <1>2, <2>1, <2>3 DEF StartedInv, SilentInv
  <2> QED
    BY <2>4, <2>5, <2>6 DEF OperationsInv
<1>7. CASE O!RecordShutdown
  <2>1. /\ oProcess.at = "notified" /\ oProcess' = [at |-> "down", revision |-> 0]
        /\ oLifecycle' = [oLifecycle EXCEPT !.status = "stopped", !.sent = ~oSilent]
        /\ UNCHANGED <<oUpdate, oRestart>>
    BY <1>7 DEF O!RecordShutdown
  <2>2. UNCHANGED oSilent /\ UNCHANGED oUnfinished
    BY <1>7 DEF O!RecordShutdown, O!ghosts
  <2>3. /\ oProcess' \in [at : {"down", "starting", "up", "stopping", "notified"}, revision : 0..O!Local]
        /\ oProcess'.at = "down" /\ oProcess'.revision = 0
    BY <2>1
  <2>4. /\ oLifecycle' \in [status : {"none", "running", "stopped"}, started_head : 0..O!Local, sent : BOOLEAN]
        /\ oLifecycle'.status = "stopped" /\ (oSilent => ~oLifecycle'.sent)
    BY <2>1
  <2>5. OperationTypes'
    BY <1>1, <1>2, <2>1, <2>2, <2>3, <2>4 DEF OperationTypes, O!TypeOK
  <2>6. VettingInv'
    BY <1>1, <1>2, <2>1, <2>2, <2>3 DEF VettingInv, O!RunningIsVetted
  <2>7. StartedInv' /\ SilentInv'
    BY <1>1, <1>2, <2>1, <2>2, <2>3, <2>4 DEF StartedInv, SilentInv
  <2> QED
    BY <2>5, <2>6, <2>7 DEF OperationsInv
<1>8. CASE O!Crash
  <2>1. /\ oProcess.at # "down" /\ oProcess' = [at |-> "down", revision |-> 0]
        /\ oUpdate' = [at |-> "none", previous |-> 0]
        /\ oRestart' = [wanted |-> FALSE, ordered |-> FALSE]
        /\ UNCHANGED oLifecycle
    BY <1>8 DEF O!Crash, O!Forget, O!NoUpdate, O!NoRestart
  <2>2. /\ oUnfinished' = (oUnfinished \/ oUpdate # O!NoUpdate)
        /\ oSilent' = (oProcess.at \in {"up", "stopping"} \/ oSilent)
    BY <1>8 DEF O!Crash, O!Forget
  <2>3. oUnfinished' \in BOOLEAN /\ (oUnfinished => oUnfinished') /\ (oUpdate.at # "none" => oUnfinished')
    <3>1. oUpdate.at # "none" => oUpdate # O!NoUpdate
      BY DEF O!NoUpdate
    <3> QED
      BY ONLY <2>2, <3>1
  <2>4. /\ oProcess' \in [at : {"down", "starting", "up", "stopping", "notified"}, revision : 0..O!Local]
        /\ oProcess'.at = "down" /\ oProcess'.revision = 0
    BY <2>1
  <2>5. oSilent' \in BOOLEAN
    BY <2>2
  <2>6. OperationTypes'
    BY <1>1, <1>2, <2>1, <2>3, <2>4, <2>5 DEF OperationTypes, O!TypeOK
  <2>7. VettingInv'
    BY <1>1, <1>2, <2>1, <2>3, <2>4 DEF VettingInv, O!RunningIsVetted, O!NoUpdate
  <2>8. StartedInv' /\ SilentInv'
    BY <1>1, <1>2, <2>1, <2>2, <2>4 DEF StartedInv, SilentInv
  <2> QED
    BY <2>6, <2>7, <2>8 DEF OperationsInv
<1> QED
  BY <1>3, <1>4, <1>5, <1>6, <1>7, <1>8 DEF O!Stop, O!Terminate, O!ServiceCommand

\* Every step of the operations keeps their invariant.
LEMMA OperationsStep == OperationsInv /\ [O!Next]_(O!vars) => OperationsInv'
<1> SUFFICES ASSUME OperationsInv, [O!Next]_(O!vars) PROVE OperationsInv'
  OBVIOUS
<1>1. CASE UNCHANGED O!vars
  <2>1. UNCHANGED operations
    BY <1>1 DEF O!vars, operations
  <2>2. OperationTypes'
    BY <2>1 DEF operations, OperationsInv, OperationTypes, O!TypeOK
  <2>3. VettingInv' /\ StartedInv' /\ SilentInv'
    BY <2>1 DEF operations, OperationsInv, VettingInv, StartedInv, SilentInv, O!RunningIsVetted
  <2> QED
    BY <2>2, <2>3 DEF OperationsInv
<1> QED
  BY <1>1, RepositoryKeepsOperations, UpdatingKeepsOperations, ProcessKeepsOperations DEF O!Next

\* What the run checks of the operations follows.
LEMMA OperationsAreGoverned == OperationsInv => O!RunningIsVetted /\ O!StatusIsTrue
<1> SUFFICES ASSUME OperationsInv, oProcess.at = "up", O!VersionState = "current"
             PROVE  oProcess.revision = oRemote
  BY DEF OperationsInv, VettingInv, O!StatusIsTrue
<1>1. oLifecycle.started_head = oRemote
  <2> DEFINE started == oLifecycle.started_head
  <2>1. CASE started = 0
    BY <2>1 DEF O!VersionState
  <2>2. CASE started # 0 /\ oCheckout.revision = oRemote
    BY <2>2 DEF O!VersionState
  <2>3. CASE started # 0 /\ oCheckout.revision # oRemote
    BY <2>3 DEF O!VersionState
  <2> QED
    BY <2>1, <2>2, <2>3
<1>2. oRemote # O!Local
  BY OperationFacts
<1> QED
  BY <1>1, <1>2 DEF OperationsInv, StartedInv

-----------------------------------------------------------------------------

\* The commands and the operations, each while it runs.
GovernedInv ==
    /\ part = "commands" => CommandsInv
    /\ part = "operations" => OperationsInv

\* Commands and operations keep to their invariants in every behaviour of the daemon.
LEMMA GovernedInvariant == MCSpec => []GovernedInv
<1>1. MCInit => GovernedInv
  BY CommandsInit, OperationsInit DEF MCInit, GovernedInv
<1>2. GovernedInv /\ [MCNext]_allVars => GovernedInv'
  <2> SUFFICES ASSUME GovernedInv, [MCNext]_allVars PROVE GovernedInv'
    OBVIOUS
  <2>1. part' = part
    BY DEF MCNext, InInbox, InTaskRunner, InPublication, InExtensionTasks, InCommands,
           InOperations, InRequests, InRuntimeRuns, InNotifications, allVars
  <2>2. part = "commands" => CommandsInv'
    BY RunsCommands, CommandsStep DEF GovernedInv
  <2>3. part = "operations" => OperationsInv'
    BY RunsOperations, OperationsStep DEF GovernedInv
  <2> QED
    BY <2>1, <2>2, <2>3 DEF GovernedInv
<1> QED
  BY <1>1, <1>2, PTL DEF MCSpec

\* No command queues and no task runs without what its process allows, no request is
\* queued twice; no daemon runs code that no doctor passed unless an update was cut
\* short, and what /status calls current is what runs: authorization.py, _run_command,
\* updater.py, version_status.py.
THEOREM GovernedWork == MCSpec => []WorkIsGoverned
<1>1. GovernedInv => WorkIsGoverned
  BY CommandsAreGoverned, OperationsAreGoverned DEF GovernedInv, WorkIsGoverned
<1> QED
  BY <1>1, GovernedInvariant, PTL

-----------------------------------------------------------------------------
(* Calls of the runtime.  What a session was given is known from the run    *)
(* that has it, and a cancelled control has a cause.                        *)

\* The records of a call.
Runs == [at : {"idle", "checked", "running", "accepting", "ending", "between"}, mode : U!Modes,
         session : 0..MaxSessions, context : BOOLEAN, marks : BOOLEAN,
         error : {"none", "answered", "cancelled", "timed_out", "access", "failed"}]
Controls == [cancelled : BOOLEAN, expired : BOOLEAN, asked : BOOLEAN]

\* The type of their state; a child works only for a run.
CallTypes ==
    /\ U!TypeOK
    /\ uChild # "none" => uRun.at = "running"
    /\ uRun \in Runs /\ uControl \in Controls /\ uContextualized \in BOOLEAN

\* A control is cancelled by the user, with the deadline, or by the epoch monitor,
\* and so is a run; what the last one came to is told before the next one begins, which
\* may have the same control if it belongs to the same task.
CauseInv ==
    /\ uControl.cancelled => uControl.asked \/ uControl.expired \/ ~uCurrent
    /\ uRun.error = "cancelled" => uControl.asked \/ ~uCurrent
    /\ U!CancelledMeansAsked

\* The sessions of the conversation, with Codex: the one that is resumed is the saved
\* one, a new one is started with the context, and an answer is from one that has it.
Knows(s) == uNative[s] \in {"context", "dropped"}

ContextInv ==
    uProvider = "codex" /\ uRun.at # "idle" /\ uRun.mode = "respond" =>
       /\ uRun.at = "checked" \/ (uRun.at = "running" /\ uChild # "answered") =>
            uRun.session \in {0, uSessions["respond"]}
       /\ uRun.at = "running" => uRun.session # 0 \/ uRun.context
       /\ uRun.at = "running" /\ uChild = "answered" => uRun.session # 0 /\ Knows(uRun.session)

CallsInv == CallTypes /\ CauseInv /\ ContextInv /\ U!NoChildIsLeft /\ U!ConversationKnowsItself

\* The daemon as a whole runs the calls, and a step of an other component leaves them.
LEMMA RunsCalls ==
    /\ [MCNext]_allVars => [U!Next]_(U!vars)
    /\ part # "calls" /\ [MCNext]_allVars => UNCHANGED calls
  BY DEF MCNext, InInbox, InTaskRunner, InPublication, InExtensionTasks, InCommands,
         InOperations, InRequests, InRuntimeRuns, InNotifications, allVars, calls, U!vars

\* At first there is no call of a runtime.
LEMMA CallsInit == U!Init => CallsInv
<1> SUFFICES ASSUME U!Init PROVE CallsInv
  OBVIOUS
<1> USE BoundsAssumption DEF U!Init, U!NoRun, U!NoControl
<1>1. uRun \in Runs
  BY DEF Runs, U!Modes
<1>2. uControl \in Controls /\ uContextualized \in BOOLEAN
  BY DEF Controls
<1>3. U!TypeOK
  <2>1. uSessions \in [U!Modes -> 0..MaxSessions]
    OBVIOUS
  <2>2. uNative \in [U!SessionIds -> {"none", "plain", "context", "dropped"}]
    OBVIOUS
  <2> QED
    BY <2>1, <2>2 DEF U!TypeOK, U!Modes, U!Failures
<1>4. CallTypes
  BY <1>1, <1>2, <1>3 DEF CallTypes
<1>5. CauseInv /\ ContextInv /\ U!NoChildIsLeft /\ U!ConversationKnowsItself
  BY DEF CauseInv, U!CancelledMeansAsked, ContextInv, U!NoChildIsLeft, U!ConversationKnowsItself,
         U!Modes
<1> QED
  BY <1>4, <1>5 DEF CallsInv

\* The records of the calls, and what the conjuncts say of them.
LEMMA CallFacts ==
    ASSUME CallsInv
    PROVE  /\ uProvider \in U!Providers /\ uCurrent \in BOOLEAN
           /\ uRun \in Runs /\ uControl \in Controls /\ uContextualized \in BOOLEAN
           /\ uChild \in {"none", "working", "answered"} \cup U!Failures
           /\ uSessions \in [U!Modes -> 0..MaxSessions]
           /\ uNative \in [U!SessionIds -> {"none", "plain", "context", "dropped"}]
           /\ uOutcome \in {"none", "answered", "cancelled", "timed_out", "access", "failed", "stale"}
  BY DEF CallsInv, CallTypes, U!TypeOK

\* A step that changes only what is around the run.
LEMMA AroundKeepsCalls ==
    ASSUME CallsInv, U!Stop \/ U!Deadline \/ U!Replaced \/ U!MonitorNotices \/ U!LeftChildEnds
    PROVE  CallsInv'
<1> USE CallFacts
<1>1. CallTypes /\ CauseInv /\ ContextInv /\ U!NoChildIsLeft /\ U!ConversationKnowsItself
  BY DEF CallsInv
<1>2. UNCHANGED <<uProvider, uRun, uChild, uSessions, uNative, uOutcome>> /\ UNCHANGED uContextualized
  BY DEF U!Stop, U!Deadline, U!Replaced, U!MonitorNotices, U!LeftChildEnds, U!Controls, U!InInvocation
<1>3. \/ UNCHANGED uControl /\ uCurrent' \in {uCurrent, FALSE}
      \/ uControl' = [uControl EXCEPT !.cancelled = TRUE, !.asked = TRUE] /\ UNCHANGED uCurrent
      \/ uControl' = [uControl EXCEPT !.expired = TRUE, !.cancelled = TRUE] /\ UNCHANGED uCurrent
      \/ uControl' = [uControl EXCEPT !.cancelled = TRUE] /\ UNCHANGED uCurrent /\ ~uCurrent
  BY DEF U!Stop, U!Deadline, U!Replaced, U!MonitorNotices, U!LeftChildEnds, U!Controls, U!InInvocation
<1>4. uControl' \in Controls /\ uCurrent' \in BOOLEAN
  BY <1>3 DEF Controls
<1>5. CallTypes'
  BY <1>1, <1>2, <1>4 DEF CallTypes, U!TypeOK
<1>6. CauseInv'
  <2>1. uControl.cancelled => uControl.asked \/ uControl.expired \/ ~uCurrent
    BY <1>1 DEF CauseInv
  <2>2. uControl'.cancelled => uControl'.asked \/ uControl'.expired \/ ~uCurrent'
    <3>1. CASE UNCHANGED uControl /\ uCurrent' \in {uCurrent, FALSE}
      BY <2>1, <3>1
    <3>2. CASE uControl' = [uControl EXCEPT !.cancelled = TRUE, !.asked = TRUE]
      BY <3>2 DEF Controls
    <3>3. CASE uControl' = [uControl EXCEPT !.expired = TRUE, !.cancelled = TRUE]
      BY <3>3 DEF Controls
    <3>4. CASE ~uCurrent'
      BY <3>4
    <3> QED
      BY <1>3, <3>1, <3>2, <3>3, <3>4
  <2>3. uControl.asked => uControl'.asked
    BY <1>3 DEF Controls
  <2>4. ~uCurrent => ~uCurrent'
    BY <1>3
  <2> QED
    BY <1>1, <1>2, <2>2, <2>3, <2>4 DEF CauseInv, U!CancelledMeansAsked
<1>7. ContextInv' /\ U!ConversationKnowsItself'
  BY <1>1, <1>2 DEF ContextInv, U!ConversationKnowsItself, Knows
<1>8. U!NoChildIsLeft'
  BY <1>1, <1>2 DEF U!NoChildIsLeft, U!Stop, U!Deadline, U!Replaced, U!MonitorNotices, U!LeftChildEnds,
                    U!Controls
<1> QED
  BY <1>5, <1>6, <1>7, <1>8 DEF CallsInv

\* An invocation comes to its end: cancelled for a cause, or with an accepted answer.
LEMMA EndingKeepsCalls ==
    ASSUME CallsInv, NEW result \in {"answered", "cancelled", "timed_out", "access", "failed"},
           U!Ends(result),
           uChild' = "none",
           uLeft' = uLeft \/ uProvider = "codex",
           result = "cancelled" => uControl.asked \/ ~uCurrent,
           result = "answered" => uRun.at = "accepting",
           UNCHANGED <<uSessions, uNative>>, U!InInvocation
    PROVE  CallsInv'
<1> USE CallFacts
<1>1. CallTypes /\ CauseInv /\ ContextInv /\ U!NoChildIsLeft /\ U!ConversationKnowsItself
  BY DEF CallsInv
<1>2. UNCHANGED <<uProvider, uCurrent, uControl, uOutcome>> /\ UNCHANGED uContextualized
  BY DEF U!InInvocation
<1>3. /\ uRun' \in Runs /\ uRun'.at = "ending" /\ uRun'.error = result
      /\ uRun'.mode = uRun.mode /\ uRun'.session = uRun.session
  BY DEF Runs, U!Ends
<1>4. CallTypes'
  BY <1>1, <1>2, <1>3 DEF CallTypes, U!TypeOK, Runs
<1>5. CauseInv'
  BY <1>1, <1>2, <1>3 DEF CauseInv, U!CancelledMeansAsked
<1>6. ContextInv' /\ U!ConversationKnowsItself'
  BY <1>1, <1>2, <1>3 DEF ContextInv, U!ConversationKnowsItself, Knows
<1>7. U!NoChildIsLeft'
  BY <1>1, <1>2 DEF U!NoChildIsLeft
<1> QED
  BY <1>4, <1>5, <1>6, <1>7 DEF CallsInv

\* A control that stops the run has a cause.
LEMMA StopHasCause ==
    ASSUME CallsInv, U!Stopped
    PROVE  /\ U!StopReason \in {"timed_out", "cancelled"}
           /\ U!StopReason = "cancelled" => uControl.asked \/ ~uCurrent
  BY DEF U!Stopped, U!StopReason, U!Cancelled, U!TimedOut, CallsInv, CauseInv

\* What ends an invocation, or its attempt.
LEMMA EndsKeepCalls ==
    ASSUME CallsInv,
           \/ U!CodexPolls \/ U!ClaudePolls \/ U!WaitedTooLong
           \/ U!CodexProgressFails \/ U!ClaudeProgressFails \/ U!Accept
    PROVE  CallsInv'
<1>1. CASE U!CodexPolls \/ U!ClaudePolls
  BY <1>1, EndingKeepsCalls, StopHasCause DEF U!CodexPolls, U!ClaudePolls, U!StopChild
<1>2. CASE U!WaitedTooLong
  BY <1>2, EndingKeepsCalls DEF U!WaitedTooLong, U!CodexWaitedTooLong, U!ClaudeWaitedTooLong, U!StopChild
<1>3. CASE U!CodexProgressFails \/ U!ClaudeProgressFails
  BY <1>3, EndingKeepsCalls DEF U!CodexProgressFails, U!ClaudeProgressFails, U!StopChild, U!Waiting
<1>4. CASE U!Accept
  <2>1. PICK result \in {"answered", "timed_out", "cancelled"} :
            U!Ends(result) /\ (result # "answered" => U!Stopped /\ result = U!StopReason)
    BY <1>4, StopHasCause DEF U!Accept, U!FinalCheck
  <2> QED
    BY <1>4, <2>1, EndingKeepsCalls, StopHasCause DEF U!Accept, CallsInv, CallTypes
<1> QED
  BY <1>1, <1>2, <1>3, <1>4

\* An invocation begins with the saved session, in a conversation or of a task.
LEMMA BeginKeepsCalls ==
    ASSUME CallsInv, NEW mode \in U!Modes, NEW adds \in BOOLEAN, U!Begin(mode, adds),
           uRun.at \in {"idle", "between"},
           UNCHANGED uControl \/ uControl' = U!NoControl
    PROVE  CallsInv'
<1> USE CallFacts
<1>1. CallTypes /\ CauseInv /\ ContextInv /\ U!NoChildIsLeft /\ U!ConversationKnowsItself
  BY DEF CallsInv
<1>2. /\ uRun' = [at |-> "checked", mode |-> mode, session |-> uSessions[mode],
                  context |-> adds, marks |-> adds, error |-> "none"]
      /\ UNCHANGED <<uProvider, uCurrent, uChild, uLeft, uSessions, uNative>> /\ uOutcome' = "none"
  BY DEF U!Begin, U!NoRun, U!Loaded
<1>3. UNCHANGED uContextualized
  BY DEF U!Begin
<1>4. /\ uRun' \in Runs /\ uRun'.at = "checked" /\ uRun'.mode = mode /\ uRun'.session = uSessions[mode]
      /\ uRun'.error = "none"
  BY <1>2 DEF Runs
<1>5. /\ uControl' \in Controls
      /\ uControl'.cancelled => uControl'.asked \/ uControl'.expired \/ ~uCurrent
  <2>1. CASE UNCHANGED uControl
    BY <1>1, <2>1 DEF CauseInv
  <2>2. CASE uControl' = U!NoControl
    BY <2>2 DEF U!NoControl, Controls
  <2> QED
    BY <2>1, <2>2
<1>6. uChild' = "none"
  BY <1>1, <1>2 DEF CallTypes
<1>7. CallTypes'
  BY <1>1, <1>2, <1>3, <1>4, <1>5, <1>6 DEF CallTypes, U!TypeOK, Runs
<1>8. CauseInv'
  BY <1>2, <1>4, <1>5 DEF CauseInv, U!CancelledMeansAsked
<1>9. ContextInv' /\ U!NoChildIsLeft' /\ U!ConversationKnowsItself'
  BY <1>1, <1>2, <1>4 DEF ContextInv, U!NoChildIsLeft, U!ConversationKnowsItself
<1> QED
  BY <1>7, <1>8, <1>9 DEF CallsInv

\* The records of no run at all, and of a task that is between two of them.
LEMMA NoRunIsRun ==
    LET between == [U!NoRun EXCEPT !.at = "between", !.mode = "act"] IN
    /\ U!NoRun \in Runs /\ U!NoRun.at = "idle" /\ U!NoRun.error = "none"
    /\ between \in Runs /\ between.at = "between" /\ between.mode = "act" /\ between.error = "none"
<1>1. U!NoRun \in Runs /\ U!NoRun.at = "idle" /\ U!NoRun.error = "none"
  BY BoundsAssumption DEF U!NoRun, Runs, U!Modes
<1>2. ASSUME NEW r \in Runs, r.error = "none", NEW b, b = [r EXCEPT !.at = "between", !.mode = "act"]
      PROVE  b \in Runs /\ b.at = "between" /\ b.mode = "act" /\ b.error = "none"
  BY <1>2 DEF Runs, U!Modes
<1> QED
  BY <1>1, <1>2

\* There is no run any more, or a task is between two of them.
LEMMA RestingKeepsCalls ==
    ASSUME CallsInv, uRun' \in Runs, uRun'.at \in {"idle", "between"}, uRun'.error = "none",
           uRun'.at = "between" => uRun'.mode = "act",
           uChild' = "none", uLeft' \in {0, uLeft},
           uOutcome' \in {"none", "answered", "cancelled", "timed_out", "access", "failed", "stale"},
           uOutcome' = "cancelled" => uControl'.asked,
           uContextualized' \in BOOLEAN, uCurrent' \in BOOLEAN,
           \/ UNCHANGED uControl /\ UNCHANGED uCurrent
           \/ uControl' = U!NoControl,
           UNCHANGED <<uProvider, uSessions, uNative>>
    PROVE  CallsInv'
<1> USE CallFacts
<1>1. CallTypes /\ CauseInv /\ ContextInv /\ U!NoChildIsLeft /\ U!ConversationKnowsItself
  BY DEF CallsInv
<1>2. /\ uControl' \in Controls
      /\ uControl'.cancelled => uControl'.asked \/ uControl'.expired \/ ~uCurrent'
  <2>1. CASE UNCHANGED uControl /\ UNCHANGED uCurrent
    BY <1>1, <2>1 DEF CauseInv
  <2>2. CASE uControl' = U!NoControl
    BY <2>2 DEF U!NoControl, Controls
  <2> QED
    BY <2>1, <2>2
<1>3. CallTypes'
  BY <1>1, <1>2 DEF CallTypes, U!TypeOK, Runs
<1>4. CauseInv'
  BY <1>2 DEF CauseInv, U!CancelledMeansAsked
<1>5. ContextInv' /\ U!NoChildIsLeft' /\ U!ConversationKnowsItself'
  BY <1>1 DEF ContextInv, U!NoChildIsLeft, U!ConversationKnowsItself
<1> QED
  BY <1>3, <1>4, <1>5 DEF CallsInv

\* A turn, a note or a repair begins; a task ends; the process ends.
LEMMA BeginningKeepsCalls ==
    ASSUME CallsInv,
           \/ U!Restart \/ U!Sync \/ U!Repair \/ U!TaskEnds
           \/ \E mode \in U!Modes : U!Invoke(mode)
    PROVE  CallsInv'
<1> USE CallFacts
<1>1. CASE U!Sync \/ U!Repair
  BY <1>1, BeginKeepsCalls DEF U!Sync, U!Repair, U!Modes
<1>2. ASSUME NEW mode \in U!Modes, U!Invoke(mode)
      PROVE  CallsInv'
  <2>1. (mode = "respond" /\ ~uContextualized) \in BOOLEAN
    OBVIOUS
  <2> QED
    BY <1>2, <2>1, BeginKeepsCalls DEF U!Invoke
<1>3. U!NoRun \in Runs /\ U!NoRun.at = "idle" /\ U!NoRun.error = "none"
  BY NoRunIsRun
<1>4. CASE U!Restart
  BY <1>3, <1>4, RestingKeepsCalls DEF U!Restart
<1>5. CASE U!TaskEnds
  <2>1. /\ uRun' = U!NoRun /\ UNCHANGED <<uChild, uLeft, uProvider, uSessions, uNative, uCurrent>>
        /\ UNCHANGED uControl
        /\ uOutcome' = IF ~uCurrent THEN "stale" ELSE IF U!Stopped THEN U!StopReason ELSE uOutcome
    BY <1>5 DEF U!TaskEnds
  <2>2. UNCHANGED uContextualized
    BY <1>5 DEF U!TaskEnds
  <2>3. /\ uOutcome' \in {"none", "answered", "cancelled", "timed_out", "access", "failed", "stale"}
        /\ uOutcome' = "cancelled" => uControl'.asked
    BY <2>1, StopHasCause DEF CallsInv, CauseInv, U!CancelledMeansAsked
  <2>4. uChild = "none"
    BY <1>5 DEF U!TaskEnds, CallsInv, CallTypes
  <2> QED
    BY <1>3, <2>1, <2>2, <2>3, <2>4, RestingKeepsCalls
<1> QED
  BY <1>1, <1>2, <1>4, <1>5

\* The components count as FiniteSets does.
LEMMA SameCount == \A S : U!Cardinality(S) = Cardinality(S) /\ Q!Cardinality(S) = Cardinality(S)
<1>1. \A S : U!Cardinality(S) = Cardinality(S)
  BY DEF U!Cardinality, Cardinality
<1>2. \A S : Q!Cardinality(S) = Cardinality(S)
  BY DEF Q!Cardinality, Cardinality
<1> QED
  BY <1>1, <1>2

\* The CLI is started, and it answers or fails.
LEMMA RunningKeepsCalls ==
    ASSUME CallsInv,
           \/ U!CodexStarts \/ U!ClaudeStarts
           \/ U!ChildAnswers \/ U!CodexChildFails \/ U!ClaudeChildFails
    PROVE  CallsInv'
<1> USE CallFacts
<1>1. CallTypes /\ CauseInv /\ ContextInv /\ U!NoChildIsLeft /\ U!ConversationKnowsItself
  BY DEF CallsInv
<1>2. U!InInvocation /\ UNCHANGED <<uLeft, uSessions>>
  BY DEF U!CodexStarts, U!ClaudeStarts, U!Launch, U!ChildAnswers, U!CodexChildFails, U!ClaudeChildFails, U!Fails
<1>3. UNCHANGED <<uProvider, uCurrent, uControl, uOutcome>> /\ UNCHANGED uContextualized
  BY <1>2 DEF U!InInvocation
<1>4. U!NoChildIsLeft'
  BY <1>1, <1>2, <1>3 DEF U!NoChildIsLeft
<1>5. ASSUME NEW context, U!Launch(context), context \in BOOLEAN,
             uProvider = "codex" /\ uRun.session = 0 => context
      PROVE  CallsInv'
  <2>1. CASE U!Stopped
    BY <1>1, <1>2, <1>5, <2>1, EndingKeepsCalls, StopHasCause DEF U!Launch, CallTypes
  <2>2. CASE ~U!Stopped
    <3>1. /\ uRun.at = "checked" /\ uChild' \in {"working", "other"} /\ UNCHANGED uNative
          /\ uRun' = [uRun EXCEPT !.at = "running", !.context = context]
      BY <1>5, <2>2 DEF U!Launch
    <3>2. /\ uRun' \in Runs /\ uRun'.at = "running" /\ uRun'.mode = uRun.mode
          /\ uRun'.session = uRun.session /\ uRun'.error = uRun.error
      BY <3>1, <1>5 DEF Runs
    <3>3. uRun'.context = context
      BY <3>1 DEF Runs
    <3>4. CallTypes'
      BY <1>1, <1>2, <1>3, <3>1, <3>2 DEF CallTypes, U!TypeOK, Runs, U!Failures
    <3>5. CauseInv'
      BY <1>1, <1>3, <3>2 DEF CauseInv, U!CancelledMeansAsked
    <3>6. ContextInv'
      BY <1>1, <1>2, <1>3, <1>5, <3>1, <3>2, <3>3 DEF ContextInv, Knows
    <3>7. U!ConversationKnowsItself'
      BY <1>1, <1>2, <1>3, <3>1 DEF U!ConversationKnowsItself
    <3> QED
      BY <1>4, <3>4, <3>5, <3>6, <3>7 DEF CallsInv
  <2> QED
    BY <2>1, <2>2
<1>6. CASE U!CodexStarts \/ U!ClaudeStarts
  <2>1. uRun.context \in BOOLEAN /\ (uRun.context \/ uRun.session = 0) \in BOOLEAN
    BY DEF Runs
  <2>2. CASE U!CodexStarts
    BY <1>5, <2>1, <2>2 DEF U!CodexStarts, U!FirstPrompt
  <2>3. CASE U!ClaudeStarts
    BY <1>5, <2>1, <2>3 DEF U!ClaudeStarts
  <2> QED
    BY <1>6, <2>2, <2>3
<1>7. CASE U!CodexChildFails \/ U!ClaudeChildFails
  <2>1. uChild' \in U!Failures /\ UNCHANGED <<uRun, uNative>> /\ uChild = "working"
    BY <1>7 DEF U!CodexChildFails, U!ClaudeChildFails, U!Fails, U!Failures
  <2>2. CallTypes'
    BY <1>1, <1>2, <1>3, <2>1 DEF CallTypes, U!TypeOK
  <2>3. CauseInv' /\ ContextInv' /\ U!ConversationKnowsItself'
    BY <1>1, <1>2, <1>3, <2>1 DEF CauseInv, U!CancelledMeansAsked, ContextInv, Knows,
                                  U!ConversationKnowsItself, U!Failures
  <2> QED
    BY <1>4, <2>2, <2>3 DEF CallsInv
<1>8. CASE U!ChildAnswers /\ uRun.session # 0
  <2>1. /\ uNative[uRun.session] # "dropped" /\ uChild = "working" /\ uChild' = "answered"
        /\ uNative' = [uNative EXCEPT ![uRun.session] = IF uRun.context THEN "context" ELSE @]
        /\ UNCHANGED uRun
    BY <1>8 DEF U!ChildAnswers
  <2>2. uRun.session \in U!SessionIds
    BY <1>8, BoundsAssumption DEF Runs, U!SessionIds
  <2>3. /\ uNative' \in [U!SessionIds -> {"none", "plain", "context", "dropped"}]
        /\ \A s \in U!SessionIds : Knows(s) => Knows(s)'
        /\ uRun.context \/ Knows(uRun.session) => Knows(uRun.session)'
    BY <2>1, <2>2 DEF Knows
  <2>4. CallTypes'
    BY <1>1, <1>2, <1>3, <2>1, <2>3 DEF CallTypes, U!TypeOK
  <2>5. CauseInv'
    BY <1>1, <1>3, <2>1 DEF CauseInv, U!CancelledMeansAsked
  <2>6. uSessions["respond"] # 0 => uSessions["respond"] \in U!SessionIds
    BY BoundsAssumption DEF U!Modes, U!SessionIds
  <2>7. U!ConversationKnowsItself'
    BY <1>1, <1>2, <1>3, <2>3, <2>6 DEF U!ConversationKnowsItself, Knows
  <2>8. ContextInv'
    <3>1. uProvider = "codex" /\ uRun.mode = "respond" /\ uRun.at = "running"
            => uRun.session = uSessions["respond"] /\ Knows(uRun.session)
      BY <1>1, <1>8, <2>1 DEF ContextInv, U!ConversationKnowsItself, Knows
    <3>2. uProvider = "codex" /\ uRun.mode = "respond" /\ uRun.at = "running" => Knows(uRun.session)'
      BY <2>3, <3>1
    <3> QED
      BY <1>1, <1>2, <1>3, <1>8, <2>1, <2>3, <2>6, <3>2 DEF ContextInv, Knows
  <2> QED
    BY <1>4, <2>4, <2>5, <2>7, <2>8 DEF CallsInv
<1>9. CASE U!ChildAnswers /\ uRun.session = 0
  <2> DEFINE new == CHOOSE s \in U!SessionIds \ U!Created : TRUE
  <2>1. /\ Cardinality(U!Created) < MaxSessions /\ uChild = "working" /\ uChild' = "answered"
        /\ uNative' = [uNative EXCEPT ![new] = IF uRun.context THEN "context" ELSE "plain"]
        /\ uRun' = [uRun EXCEPT !.session = new]
    BY <1>9, SameCount DEF U!ChildAnswers
  <2>2. new \in U!SessionIds \ U!Created
    <3>1. Cardinality(1..MaxSessions) = MaxSessions
      BY FS_Interval, BoundsAssumption
    <3>2. U!Created # U!SessionIds
      BY <2>1, <3>1, BoundsAssumption DEF U!SessionIds
    <3> QED
      BY <3>2 DEF U!Created
  <2> HIDE DEF new
  <2>3. /\ uNative' \in [U!SessionIds -> {"none", "plain", "context", "dropped"}]
        /\ \A r \in U!SessionIds : Knows(r) => Knows(r)'
        /\ uRun.context => uNative'[new] \in {"context", "dropped"}
    <3> DEFINE given == IF uRun.context THEN "context" ELSE "plain"
    <3>1. given \in {"context", "plain"} /\ (uRun.context => given = "context")
      OBVIOUS
    <3>2. uNative' = [uNative EXCEPT ![new] = given]
      BY <2>1
    <3> HIDE DEF given
    <3> QED
      BY <2>2, <3>1, <3>2 DEF Knows, U!Created
  <2>4. new # 0 /\ new \in 0..MaxSessions
    BY <2>2, BoundsAssumption DEF U!SessionIds
  <2>5. /\ uRun' \in Runs /\ uRun'.session = new /\ uRun'.at = uRun.at /\ uRun'.mode = uRun.mode
        /\ uRun'.error = uRun.error
    BY <2>1, <2>4 DEF Runs
  <2>6. uRun'.context = uRun.context
    BY <2>1 DEF Runs
  <2>7. CallTypes'
    BY <1>1, <1>2, <1>3, <2>1, <2>3, <2>5 DEF CallTypes, U!TypeOK, Runs
  <2>8. CauseInv'
    BY <1>1, <1>3, <2>5 DEF CauseInv, U!CancelledMeansAsked
  <2>9. uSessions["respond"] # 0 => uSessions["respond"] \in U!SessionIds
    BY BoundsAssumption DEF U!Modes, U!SessionIds
  <2>10. U!ConversationKnowsItself'
    BY <1>1, <1>2, <1>3, <2>3, <2>9 DEF U!ConversationKnowsItself, Knows
  <2>11. ContextInv'
    <3>1. uProvider = "codex" /\ uRun.mode = "respond" /\ uRun.at = "running" => uRun.context
      BY <1>1, <1>9 DEF ContextInv
    <3>2. uProvider = "codex" /\ uRun.mode = "respond" /\ uRun.at = "running" => uNative'[new] \in {"context", "dropped"}
      BY <2>3, <3>1
    <3> QED
      <4> SUFFICES ASSUME uProvider = "codex", uRun.mode = "respond"
                   PROVE  ContextInv'
        BY <1>3, <2>5 DEF ContextInv
      <4>1. uRun.at = "running"
        BY <1>1, <2>1 DEF CallTypes
      <4>2. uRun'.context /\ uNative'[new] \in {"context", "dropped"}
        BY <3>1, <3>2, <4>1, <2>6
      <4> QED
        BY <1>2, <2>1, <2>4, <2>5, <4>1, <4>2 DEF ContextInv, Knows
  <2> QED
    BY <1>4, <2>7, <2>8, <2>10, <2>11 DEF CallsInv
<1> QED
  BY <1>6, <1>7, <1>8, <1>9

\* The answer is taken and its session recorded; a failed run is tried again without
\* the session, or given up.
LEMMA AnsweringKeepsCalls ==
    ASSUME CallsInv, U!CodexAnswers \/ U!ClaudeAnswers \/ U!CodexRecovers \/ U!ClaudeRecovers
    PROVE  CallsInv'
<1> USE CallFacts
<1>1. CallTypes /\ CauseInv /\ ContextInv /\ U!NoChildIsLeft /\ U!ConversationKnowsItself
  BY DEF CallsInv
<1>2. U!InInvocation /\ UNCHANGED <<uLeft, uNative>> /\ uChild' = "none" /\ uRun.at = "running"
  BY DEF U!CodexAnswers, U!ClaudeAnswers, U!CodexRecovers, U!ClaudeRecovers, U!Failed, U!HasAnswer
<1>3. UNCHANGED <<uProvider, uCurrent, uControl, uOutcome>> /\ UNCHANGED uContextualized
  BY <1>2 DEF U!InInvocation
<1>4. U!NoChildIsLeft'
  BY <1>1, <1>2, <1>3 DEF U!NoChildIsLeft
<1>5. uRun.session \in 0..MaxSessions /\ uRun.mode \in U!Modes /\ 0 \in 0..MaxSessions
  BY BoundsAssumption DEF Runs
<1>6. CASE U!Answer /\ uChild = "answered"
  <2>1. uSessions' = [uSessions EXCEPT ![uRun.mode] = uRun.session] /\ uRun' = [uRun EXCEPT !.at = "accepting"]
    BY <1>6 DEF U!Answer, U!Recorded
  <2>2. /\ uRun' \in Runs /\ uRun'.at = "accepting" /\ uRun'.mode = uRun.mode
        /\ uRun'.session = uRun.session /\ uRun'.error = uRun.error
    BY <2>1 DEF Runs
  <2>3. /\ uSessions' \in [U!Modes -> 0..MaxSessions]
        /\ uRun.mode = "respond" => uSessions'["respond"] = uRun.session
        /\ uRun.mode # "respond" => uSessions'["respond"] = uSessions["respond"]
    BY <2>1, <1>5 DEF U!Modes
  <2>4. CallTypes'
    BY <1>1, <1>2, <1>3, <2>2, <2>3 DEF CallTypes, U!TypeOK, Runs
  <2>5. CauseInv'
    BY <1>1, <1>3, <2>2 DEF CauseInv, U!CancelledMeansAsked
  <2>6. uProvider = "codex" /\ uRun.mode = "respond" => Knows(uRun.session)
    BY <1>1, <1>2, <1>6 DEF ContextInv
  <2>7. ContextInv' /\ U!ConversationKnowsItself'
    BY <1>1, <1>2, <1>3, <2>2, <2>3, <2>6 DEF ContextInv, U!ConversationKnowsItself, Knows
  <2> QED
    BY <1>4, <2>4, <2>5, <2>7 DEF CallsInv
<1>7. CASE U!RunAgain
  <2>1. uSessions' = [uSessions EXCEPT ![uRun.mode] = 0] /\ uRun' = [uRun EXCEPT !.at = "checked", !.session = 0]
    BY <1>7 DEF U!RunAgain, U!Forgotten
  <2>2. /\ uRun' \in Runs /\ uRun'.at = "checked" /\ uRun'.mode = uRun.mode
        /\ uRun'.session = 0 /\ uRun'.error = uRun.error
    BY <2>1, <1>5 DEF Runs
  <2>4. /\ uSessions' \in [U!Modes -> 0..MaxSessions]
        /\ uRun.mode = "respond" => uSessions'["respond"] = 0
        /\ uRun.mode # "respond" => uSessions'["respond"] = uSessions["respond"]
    BY <2>1, <1>5 DEF U!Modes
  <2>5. CallTypes'
    BY <1>1, <1>2, <1>3, <2>2, <2>4 DEF CallTypes, U!TypeOK, Runs
  <2>6. CauseInv'
    BY <1>1, <1>3, <2>2 DEF CauseInv, U!CancelledMeansAsked
  <2>8. ContextInv' /\ U!ConversationKnowsItself'
    BY <1>1, <1>2, <1>3, <2>2, <2>4 DEF ContextInv, U!ConversationKnowsItself, Knows
  <2> QED
    BY <1>4, <2>5, <2>6, <2>8 DEF CallsInv
<1>8. CASE U!GiveUp
  BY <1>2, <1>8, EndingKeepsCalls DEF U!GiveUp
<1>9. CASE U!ClaudeAnswers /\ U!Stopped /\ U!Ends(U!StopReason) /\ UNCHANGED uSessions
  BY <1>2, <1>9, EndingKeepsCalls, StopHasCause
<1> QED
  BY <1>6, <1>7, <1>8, <1>9 DEF U!CodexAnswers, U!ClaudeAnswers, U!CodexRecovers, U!ClaudeRecovers,
                                U!Failed, U!HasAnswer

\* The result counts for a daemon that is current; the CLI drops a session.
LEMMA ReturningKeepsCalls ==
    ASSUME CallsInv, U!Return \/ U!SessionDropped
    PROVE  CallsInv'
<1> USE CallFacts
<1>1. CallTypes /\ CauseInv /\ ContextInv /\ U!NoChildIsLeft /\ U!ConversationKnowsItself
  BY DEF CallsInv
<1>2. UNCHANGED <<uProvider, uCurrent, uControl, uChild, uSessions, uLeft>>
  BY DEF U!Return, U!SessionDropped
<1>3. CASE U!Return
  <2>1. /\ uRun.at = "ending" /\ uOutcome' = (IF uCurrent THEN uRun.error ELSE "stale")
        /\ UNCHANGED uNative
        /\ \/ uRun' = U!NoRun
           \/ uRun' = [U!NoRun EXCEPT !.at = "between", !.mode = "act"]
    BY <1>3 DEF U!Return
  <2>2. uContextualized' \in BOOLEAN
    BY <1>3 DEF U!Return, U!Counts
  <2>3. /\ uRun' \in Runs /\ uRun'.at \in {"idle", "between"} /\ uRun'.error = "none"
        /\ uRun'.at = "between" => uRun'.mode = "act"
    BY <2>1, NoRunIsRun
  <2>4. /\ uOutcome' \in {"none", "answered", "cancelled", "timed_out", "access", "failed", "stale"}
        /\ uOutcome' = "cancelled" => uControl.asked
    BY <1>1, <2>1 DEF Runs, CauseInv
  <2>5. uChild = "none"
    BY <1>1, <2>1 DEF CallTypes
  <2> QED
    BY <1>2, <2>1, <2>2, <2>3, <2>4, <2>5, RestingKeepsCalls
<1>4. CASE U!SessionDropped
  <2>1. UNCHANGED <<uRun, uOutcome>> /\ UNCHANGED uContextualized
    BY <1>4 DEF U!SessionDropped
  <2>2. /\ uNative' \in [U!SessionIds -> {"none", "plain", "context", "dropped"}]
        /\ \A s \in U!SessionIds : Knows(s) => Knows(s)'
    BY <1>4 DEF U!SessionDropped, U!Created, Knows
  <2>3. /\ uSessions["respond"] # 0 => uSessions["respond"] \in U!SessionIds
        /\ uRun.session # 0 => uRun.session \in U!SessionIds
    BY BoundsAssumption DEF Runs, U!Modes, U!SessionIds
  <2>4. CallTypes'
    BY <1>1, <1>2, <2>1, <2>2 DEF CallTypes, U!TypeOK
  <2>5. CauseInv' /\ U!NoChildIsLeft'
    BY <1>1, <1>2, <2>1 DEF CauseInv, U!CancelledMeansAsked, U!NoChildIsLeft
  <2>6. ContextInv' /\ U!ConversationKnowsItself'
    BY <1>1, <1>2, <2>1, <2>2, <2>3 DEF ContextInv, U!ConversationKnowsItself, Knows
  <2> QED
    BY <2>4, <2>5, <2>6 DEF CallsInv
<1> QED
  BY <1>3, <1>4

\* Every step of the calls keeps their invariant.
LEMMA CallsStep == CallsInv /\ [U!Next]_(U!vars) => CallsInv'
<1> SUFFICES ASSUME CallsInv, [U!Next]_(U!vars) PROVE CallsInv'
  OBVIOUS
<1>1. CASE UNCHANGED U!vars
  <2>1. UNCHANGED calls
    BY <1>1 DEF U!vars, calls
  <2> QED
    BY <2>1 DEF calls, CallsInv, CallTypes, U!TypeOK, CauseInv, U!CancelledMeansAsked, ContextInv, Knows,
                U!NoChildIsLeft, U!ConversationKnowsItself
<1> QED
  BY <1>1, AroundKeepsCalls, EndsKeepCalls, BeginningKeepsCalls, RunningKeepsCalls, AnsweringKeepsCalls,
     ReturningKeepsCalls DEF U!Next, U!Step

\* The invariant of the calls holds in every state of the daemon.
LEMMA CallsInvariant == MCSpec => []CallsInv
<1>1. MCInit => CallsInv
  BY CallsInit DEF MCInit
<1>2. CallsInv /\ [MCNext]_allVars => CallsInv'
  BY CallsStep, RunsCalls
<1> QED
  BY <1>1, <1>2, PTL DEF MCSpec

\* Only the accepting step makes an answer the result, and it looks at the control.
LEMMA AnswersAreChecked ==
    ASSUME CallsInv, U!Next, uRun.at # "ending", uRun'.at = "ending", uRun'.error = "answered"
    PROVE  ~U!Stopped
<1> USE CallFacts
<1>1. /\ uRun \in Runs
      /\ U!Stopped => U!StopReason \in {"timed_out", "cancelled"}
  BY StopHasCause
<1>2. CASE U!Accept
  BY <1>1, <1>2 DEF U!Accept, U!FinalCheck, U!Ends, Runs
<1>3. CASE \/ U!CodexPolls \/ U!ClaudePolls \/ U!WaitedTooLong
           \/ U!CodexProgressFails \/ U!ClaudeProgressFails
  BY <1>1, <1>3 DEF U!CodexPolls, U!ClaudePolls, U!WaitedTooLong, U!CodexWaitedTooLong, U!ClaudeWaitedTooLong,
     U!CodexProgressFails, U!ClaudeProgressFails, U!StopChild, U!Ends, U!Waiting, Runs
<1>4. CASE U!CodexStarts \/ U!ClaudeStarts
  BY <1>1, <1>4 DEF U!CodexStarts, U!ClaudeStarts, U!Launch, U!Ends, Runs
<1>5. CASE U!CodexAnswers \/ U!ClaudeAnswers
  BY <1>1, <1>5 DEF U!CodexAnswers, U!ClaudeAnswers, U!Answer, U!Ends, Runs
<1>6. CASE U!CodexRecovers \/ U!ClaudeRecovers
  BY <1>1, <1>6 DEF U!CodexRecovers, U!ClaudeRecovers, U!Failed, U!RunAgain, U!GiveUp, U!Ends, Runs
<1>7. CASE U!ChildAnswers \/ U!CodexChildFails \/ U!ClaudeChildFails
  BY <1>1, <1>7 DEF U!ChildAnswers, U!CodexChildFails, U!ClaudeChildFails, U!Fails, Runs
<1>8. CASE \/ U!Return \/ U!SessionDropped \/ U!Restart \/ U!TaskEnds \/ U!Sync \/ U!Repair
           \/ \E mode \in U!Modes : U!Invoke(mode)
  <2>1. CASE U!Return \/ U!Restart \/ U!TaskEnds
    <3>1. \/ uRun' = U!NoRun
          \/ uRun' = [U!NoRun EXCEPT !.at = "between", !.mode = "act"]
      BY <2>1 DEF U!Return, U!Restart, U!TaskEnds
    <3> QED
      BY <3>1, NoRunIsRun
  <2>2. CASE U!SessionDropped
    BY <2>2 DEF U!SessionDropped
  <2>3. ASSUME NEW mode \in U!Modes, NEW adds, U!Begin(mode, adds)
        PROVE  FALSE
    <3>1. uRun'.at = "checked"
      BY <2>3, ZenonT(30) DEF U!Begin, U!NoRun
    <3> QED
      BY <3>1
  <2> QED
    BY <1>8, <2>1, <2>2, <2>3 DEF U!Invoke, U!Sync, U!Repair, U!Modes
<1>9. CASE U!Stop \/ U!Deadline \/ U!Replaced \/ U!MonitorNotices \/ U!LeftChildEnds
  BY <1>9 DEF U!Stop, U!Deadline, U!Replaced, U!MonitorNotices, U!LeftChildEnds, U!Controls
<1> QED
  BY <1>2, <1>3, <1>4, <1>5, <1>6, <1>7, <1>8, <1>9 DEF U!Next, U!Step

\* The daemon whose operations are not looked at does not start.
AsleepInv == part # "operations" => oProcess.at = "down"

\* No process starts where no operations run.
LEMMA AsleepInvariant == MCSpec => []AsleepInv
<1>1. MCInit => AsleepInv
  BY DEF MCInit, AsleepInv, O!Init
<1>2. AsleepInv /\ [MCNext]_allVars => AsleepInv'
  BY RunsOperations DEF AsleepInv, operations
<1> QED
  BY <1>1, <1>2, PTL DEF MCSpec

\* begin_channel_lifecycle, invoke_runtime_respond, invoke_runtime_action: a process that
\* ended without a word is reported by the next one, and an answer of the runtime that
\* comes after the control stopped its run is not the run's result.
THEOREM EndsTold == MCSpec => EndsAreReported
<1> HIDE DEF U!Stopped
<1>1. GovernedInv /\ AsleepInv /\ [MCNext]_allVars
        => [O!BeginLifecycle /\ oSilent => oWarning' # "none"]_(O!vars)
  <2> SUFFICES ASSUME GovernedInv, AsleepInv, [MCNext]_allVars, O!BeginLifecycle, oSilent
               PROVE  oWarning' # "none"
    OBVIOUS
  <2>1. oProcess.at = "starting"
    BY DEF O!BeginLifecycle
  <2>2. SilentInv
    BY <2>1 DEF AsleepInv, GovernedInv, OperationsInv
  <2>3. oLifecycle.status = "running" \/ (oLifecycle.status = "stopped" /\ ~oLifecycle.sent)
    BY <2>1, <2>2 DEF SilentInv
  <2> QED
    BY <2>3 DEF O!BeginLifecycle
<1>2. CallsInv /\ [MCNext]_allVars
        => [uRun.at # "ending" /\ uRun'.at = "ending" /\ uRun'.error = "answered" => ~U!Stopped]_(U!vars)
  BY RunsCalls, AnswersAreChecked
<1>3. MCSpec => [][MCNext]_allVars
  BY PTL DEF MCSpec
<1>4. MCSpec => O!SilentEndIsReported
  BY <1>1, <1>3, GovernedInvariant, AsleepInvariant, PTL DEF O!SilentEndIsReported
<1>5. MCSpec => U!LateAnswersAreRefused
  BY <1>2, <1>3, CallsInvariant, PTL DEF U!LateAnswersAreRefused
<1> QED
  BY <1>4, <1>5 DEF EndsAreReported

-----------------------------------------------------------------------------
(* Requests.  The journal of a message tells what was performed for it, and *)
(* only its last entry may be unfinished or stop the conversation.          *)

\* The records of a conversation and of its tasks.
Entries == [operation : Q!Operations \cup {"invalid", "final"},
            state : {"planned", "running", "done"}, stop : BOOLEAN]
Jobs == [request : Nat \X Nat, purpose : Q!Purposes \cup {"none"}, status : Q!Statuses \cup {"none"}]
ActionSteps == {"other", "record", "look", "snapshot", "enqueue", "pause"}
Mains == [step : ActionSteps \cup {"idle", "turn"}, index : 0..(MaxActions + 1),
          operation : Q!Operations \cup {"none"}, seen : Q!Purposes \cup {"none"}, stop : BOOLEAN]

\* The type of their state; messages are answered one after the other.
RequestTypes ==
    /\ qKind \in [1..Messages -> {"do", "task", "talk"}]
    /\ Q!Message \in 1..(Messages + 1) /\ qAnswered = 1..(Q!Message - 1)
    /\ qJournal \in [1..Messages -> Seq(Entries)]
    /\ qJob \in [Q!Tasks -> Jobs] /\ qMain \in Mains
    /\ qPerformed \in [1..Messages -> Seq(1..MaxActions)]
    /\ DOMAIN qAnswer = 1..Messages

\* A conversation goes on only past an entry that is finished and does not stop it.
Passed(entry) ==
    /\ entry.operation # "final"
    /\ entry.operation \in Q!Operations => entry.state = "done" /\ ~entry.stop
JournalInv ==
    \A m \in 1..Messages :
       /\ Len(qJournal[m]) <= MaxActions + 1
       /\ \A i \in 1..(Len(qJournal[m]) - 1) : Passed(qJournal[m][i])
       /\ \A i \in DOMAIN qJournal[m] :
             qJournal[m][i].state # "planned" => qJournal[m][i].operation \in Q!Operations

\* What was performed has an entry that says so, and was performed in order.
PerformedInv ==
    \A m \in 1..Messages :
       /\ qKind[m] # "talk" => qPerformed[m] = <<>>
       /\ \A i \in DOMAIN qPerformed[m] :
             /\ qPerformed[m][i] \in DOMAIN qJournal[m]
             /\ qJournal[m][qPerformed[m][i]].state # "planned"
       /\ \A i, j \in DOMAIN qPerformed[m] : i < j => qPerformed[m][i] < qPerformed[m][j]

\* An action in hand is the last one of its journal and runs; until it is performed,
\* only others were.
MainInv ==
    /\ qMain.step # "idle" => Q!Message \in 1..Messages
    /\ qMain.step = "turn" =>
         /\ Q!Talking /\ qMain.index \in 1..(Len(qJournal[Q!Message]) + 1)
         /\ \A i \in 1..(qMain.index - 1) : Passed(qJournal[Q!Message][i])
    /\ qMain.step \in ActionSteps /\ Q!Talking =>
         /\ qMain.index \in 1..MaxActions /\ qMain.index = Len(qJournal[Q!Message])
         /\ qJournal[Q!Message][qMain.index].state = "running"
    /\ qMain.step \in ActionSteps \ {"record", "pause"} /\ Q!Talking =>
         \A i \in DOMAIN qPerformed[Q!Message] : qPerformed[Q!Message][i] # qMain.index
    /\ qMain.step \in {"other", "record"} => Q!Talking

\* The entry of an action that started work stops its conversation.
WorkOf(t, m) == qKind[m] = "talk" /\ qJob[t].request[1] = m
WorkInv ==
    \A m \in 1..Messages : \A t \in Q!Tasks : WorkOf(t, m) =>
       /\ qPerformed[m] # <<>> /\ qPerformed[m][Len(qPerformed[m])] = qJob[t].request[2]
       /\ qJournal[m][qJob[t].request[2]].state = "done" => qJournal[m][qJob[t].request[2]].stop
       /\ qMain.step = "record" /\ m = Q!Message => qMain.stop

RequestsInv ==
    RequestTypes /\ JournalInv /\ PerformedInv /\ MainInv /\ WorkInv /\ Q!NothingIsHidden

\* The daemon as a whole runs the requests.
LEMMA RunsRequests ==
    part = "requests" /\ [MCNext]_allVars => part' = "requests" /\ [Q!Next]_(Q!vars)
  BY DEF MCNext, InInbox, InTaskRunner, InPublication, InExtensionTasks, InCommands,
         InOperations, InRequests, InRuntimeRuns, InNotifications, allVars, requests, Q!vars

\* The records of the requests.
LEMMA RequestFacts ==
    ASSUME RequestsInv
    PROVE  /\ qKind \in [1..Messages -> {"do", "task", "talk"}]
           /\ Q!Message \in 1..(Messages + 1) /\ Q!Message \in Nat /\ qAnswered = 1..(Q!Message - 1)
           /\ qJournal \in [1..Messages -> Seq(Entries)]
           /\ qJob \in [Q!Tasks -> Jobs] /\ qMain \in Mains
           /\ qPerformed \in [1..Messages -> Seq(1..MaxActions)]
           /\ DOMAIN qAnswer = 1..Messages
           /\ Messages \in Nat /\ MaxActions \in Nat /\ MaxRequested \in Nat
  BY BoundsAssumption DEF RequestsInv, RequestTypes

\* At first nobody asked for anything.
LEMMA RequestsInit == Q!Init => RequestsInv
<1> SUFFICES ASSUME Q!Init PROVE RequestsInv
  OBVIOUS
<1> USE BoundsAssumption DEF Q!Init
<1>1. Q!Message = 1
  <2>1. Q!Cardinality({}) = 0
    BY SameCount, FS_EmptySet
  <2> QED
    BY <2>1 DEF Q!Message
<1>2. \A m \in 1..Messages : qJournal[m] = <<>> /\ qPerformed[m] = <<>>
  OBVIOUS
<1>3. Q!NoTask \in Jobs /\ Q!NoTask.request[1] = 0
  BY DEF Q!NoTask, Jobs
<1>4. Q!At("idle") \in Mains /\ Q!At("idle").step = "idle"
  BY DEF Q!At, Mains
<1>5. RequestTypes
  <2>1. qJob \in [Q!Tasks -> Jobs] /\ qMain \in Mains
    BY <1>3, <1>4
  <2>2. qJournal \in [1..Messages -> Seq(Entries)] /\ qPerformed \in [1..Messages -> Seq(1..MaxActions)]
    OBVIOUS
  <2> QED
    BY <1>1, <2>1, <2>2 DEF RequestTypes
<1>6. JournalInv /\ PerformedInv
  BY <1>2 DEF JournalInv, PerformedInv
<1>7. MainInv
  BY <1>4 DEF MainInv, ActionSteps
<1>8. WorkInv
  <2>1. \A t \in Q!Tasks : qJob[t].request[1] = 0
    BY <1>3
  <2> QED
    BY <2>1 DEF WorkInv, WorkOf
<1>9. Q!NothingIsHidden
  BY DEF Q!NothingIsHidden
<1> QED
  BY <1>5, <1>6, <1>7, <1>8, <1>9 DEF RequestsInv

\* Tasks keep their requests, but for one that a command which is no conversation made.
KeepsWork ==
    /\ qJob' \in [Q!Tasks -> Jobs]
    /\ \A t \in Q!Tasks : \/ qJob'[t].request = qJob[t].request
                          \/ ~Q!Talking /\ qJob'[t].request[1] = Q!Message

\* Then no conversation has work that it had not.
LEMMA KeptWork ==
    ASSUME KeepsWork, UNCHANGED qKind, NEW m \in 1..Messages, NEW t \in Q!Tasks, WorkOf(t, m)'
    PROVE  WorkOf(t, m) /\ qJob'[t].request = qJob[t].request
  BY DEF KeepsWork, WorkOf, Q!Talking

\* A step that leaves the journals and what was performed.
LEMMA MovingKeepsRequests ==
    ASSUME RequestsInv, UNCHANGED <<qKind, qAnswered, qAnswer, qJournal, qPerformed>>,
           KeepsWork, qMain' \in Mains, MainInv',
           qMain'.step = "record" => qMain'.stop \/ UNCHANGED qMain
    PROVE  RequestsInv'
<1> USE RequestFacts
<1>1. JournalInv /\ PerformedInv /\ WorkInv /\ Q!NothingIsHidden
  BY DEF RequestsInv
<1>2. Q!Message' = Q!Message
  BY DEF Q!Message
<1>3. RequestTypes'
  BY <1>2 DEF RequestTypes, KeepsWork
<1>4. JournalInv' /\ PerformedInv' /\ Q!NothingIsHidden'
  BY <1>1 DEF JournalInv, PerformedInv, Q!NothingIsHidden
<1>5. WorkInv'
  <2> SUFFICES ASSUME NEW m \in 1..Messages, NEW t \in Q!Tasks, WorkOf(t, m)'
               PROVE  /\ qPerformed[m] # <<>> /\ qPerformed[m][Len(qPerformed[m])] = qJob'[t].request[2]
                      /\ qJournal[m][qJob'[t].request[2]].state = "done" => qJournal[m][qJob'[t].request[2]].stop
                      /\ qMain'.step = "record" /\ m = Q!Message => qMain'.stop
    BY <1>2 DEF WorkInv
  <2>1. WorkOf(t, m) /\ qJob'[t].request = qJob[t].request
    BY KeptWork
  <2> QED
    BY <1>1, <2>1 DEF WorkInv
<1> QED
  BY <1>3, <1>4, <1>5 DEF RequestsInv

\* The answer to a message that hides nothing.
LEMMA AnswerKeepsRequests ==
    ASSUME RequestsInv, NEW receipts, NEW uncertain, Q!Answer(receipts, uncertain),
           qMain.step # "idle", UNCHANGED <<qJournal, qPerformed>>, KeepsWork,
           \A i \in DOMAIN qPerformed[Q!Message] : qPerformed[Q!Message][i] \in receipts \/ uncertain
    PROVE  RequestsInv'
<1> USE RequestFacts
<1>1. JournalInv /\ PerformedInv /\ WorkInv /\ Q!NothingIsHidden /\ MainInv
  BY DEF RequestsInv
<1>2. Q!Message \in 1..Messages
  BY <1>1 DEF MainInv
<1>3. /\ qAnswered' = qAnswered \cup {Q!Message} /\ UNCHANGED qKind
      /\ qAnswer' = [qAnswer EXCEPT ![Q!Message] = [receipts |-> receipts, uncertain |-> uncertain]]
      /\ qMain' = Q!At("idle")
  BY DEF Q!Answer
<1>4. qAnswered' = 1..Q!Message
  BY <1>3
<1>5. Q!Message' = Q!Message + 1
  <2>1. Q!Cardinality(qAnswered') = Q!Message
    BY <1>4, SameCount, FS_Interval
  <2> QED
    BY <2>1 DEF Q!Message
<1>6. qMain' \in Mains /\ qMain'.step = "idle"
  BY <1>3 DEF Q!At, Mains
<1>7. RequestTypes'
  BY <1>2, <1>3, <1>4, <1>5, <1>6 DEF RequestTypes, KeepsWork
<1>8. JournalInv' /\ PerformedInv'
  BY <1>1, <1>3 DEF JournalInv, PerformedInv
<1>9. MainInv'
  BY <1>6 DEF MainInv, ActionSteps
<1>10. WorkInv'
  <2> SUFFICES ASSUME NEW m \in 1..Messages, NEW t \in Q!Tasks, WorkOf(t, m)'
               PROVE  /\ qPerformed[m] # <<>> /\ qPerformed[m][Len(qPerformed[m])] = qJob'[t].request[2]
                      /\ qJournal[m][qJob'[t].request[2]].state = "done" => qJournal[m][qJob'[t].request[2]].stop
    BY <1>6 DEF WorkInv
  <2>1. WorkOf(t, m) /\ qJob'[t].request = qJob[t].request
    BY <1>3, KeptWork
  <2> QED
    BY <1>1, <2>1 DEF WorkInv
<1>11. Q!NothingIsHidden'
  <2>1. ASSUME NEW m \in qAnswered', NEW i \in DOMAIN qPerformed[m]
        PROVE  qPerformed[m][i] \in qAnswer'[m].receipts \/ qAnswer'[m].uncertain
    <3>1. CASE m = Q!Message
      BY <1>2, <1>3, <2>1, <3>1
    <3>2. CASE m # Q!Message
      <4>1. m \in qAnswered /\ qAnswer'[m] = qAnswer[m]
        BY <1>3, <2>1, <3>2
      <4> QED
        BY <1>1, <2>1, <4>1 DEF Q!NothingIsHidden
    <3> QED
      BY <3>1, <3>2
  <2> QED
    BY <2>1 DEF Q!NothingIsHidden
<1> QED
  BY <1>7, <1>8, <1>9, <1>10, <1>11 DEF RequestsInv


\* An action that is not performed yet has started nothing: what did, ended the turns.
LEMMA NoWorkYet ==
    ASSUME RequestsInv, Q!Talking, qMain.step \in ActionSteps \ {"record", "pause"},
           NEW t \in Q!Tasks
    PROVE  ~WorkOf(t, Q!Message)
<1> USE RequestFacts
<1>1. JournalInv /\ PerformedInv /\ WorkInv /\ MainInv
  BY DEF RequestsInv
<1> DEFINE m == Q!Message
           list == qPerformed[m]
           r == list[Len(list)]
<1>2. m \in 1..Messages
  BY <1>1 DEF MainInv, ActionSteps
<1>3. /\ qMain.index = Len(qJournal[m])
      /\ \A i \in DOMAIN list : list[i] # qMain.index
  BY <1>1 DEF MainInv
<1> SUFFICES ASSUME WorkOf(t, m) PROVE FALSE
  OBVIOUS
<1>4. /\ list # <<>> /\ r = qJob[t].request[2]
      /\ qJournal[m][r].state = "done" => qJournal[m][r].stop
  BY <1>1, <1>2 DEF WorkInv
<1>5. Len(list) \in DOMAIN list
  <2>1. list \in Seq(1..MaxActions)
    BY <1>2
  <2> QED
    BY <1>4, <2>1
<1>6. r \in DOMAIN qJournal[m] /\ qJournal[m][r].state # "planned"
  BY <1>1, <1>2, <1>5 DEF PerformedInv
<1>7. r \in 1..(Len(qJournal[m]) - 1)
  <2>1. qJournal[m] \in Seq(Entries) /\ r # Len(qJournal[m])
    BY <1>2, <1>3, <1>5
  <2> QED
    BY <1>6, <2>1, SMTT(30)
<1>8. Passed(qJournal[m][r]) /\ qJournal[m][r].operation \in Q!Operations
  BY <1>1, <1>2, <1>6, <1>7 DEF JournalInv
<1> QED
  BY <1>4, <1>8 DEF Passed

\* A list with one more element.
LEMMA LongerByOne ==
    ASSUME NEW S, NEW s \in Seq(S), NEW x \in S, NEW t, t = Append(s, x)
    PROVE  /\ Len(t) = Len(s) + 1 /\ t[Len(s) + 1] = x
           /\ \A i \in DOMAIN s : t[i] = s[i]
           /\ DOMAIN t = DOMAIN s \cup {Len(s) + 1}
  OBVIOUS

\* An action is performed: at most, work of its own is in the queue.
LEMMA PerformingKeepsRequests ==
    ASSUME RequestsInv, Q!Talking, qMain.step \in ActionSteps \ {"record", "pause"},
           qPerformed' = [qPerformed EXCEPT ![Q!Message] = Append(@, qMain.index)],
           UNCHANGED <<qKind, qAnswered, qAnswer, qJournal>>, qJob' \in [Q!Tasks -> Jobs],
           \A t \in Q!Tasks : \/ qJob'[t].request = qJob[t].request
                              \/ qJob'[t].request = Q!Request /\ qMain.step = "enqueue",
           qMain' \in Mains, qMain'.index = qMain.index, qMain'.step \in {"record", "pause"},
           qMain.step = "enqueue" /\ qMain'.step = "record" => qMain'.stop
    PROVE  RequestsInv'
<1> USE RequestFacts
<1>1. JournalInv /\ PerformedInv /\ WorkInv /\ MainInv /\ Q!NothingIsHidden
  BY DEF RequestsInv
<1> DEFINE m == Q!Message
           list == qPerformed[m]
<1>2. m \in 1..Messages /\ Q!Message' = m
  BY <1>1 DEF MainInv, ActionSteps, Q!Message
<1>3. /\ qMain.index \in 1..MaxActions /\ qMain.index = Len(qJournal[m])
      /\ qJournal[m][qMain.index].state = "running"
      /\ \A i \in DOMAIN list : list[i] # qMain.index
  BY <1>1 DEF MainInv
<1>4. list \in Seq(1..MaxActions) /\ qJournal[m] \in Seq(Entries)
  BY <1>2
<1>5. /\ qPerformed'[m] = Append(list, qMain.index)
      /\ \A n \in 1..Messages \ {m} : qPerformed'[n] = qPerformed[n]
      /\ qPerformed' \in [1..Messages -> Seq(1..MaxActions)]
  BY <1>2, <1>3, <1>4
<1>6. /\ Len(qPerformed'[m]) = Len(list) + 1 /\ qPerformed'[m][Len(list) + 1] = qMain.index
      /\ \A i \in DOMAIN list : qPerformed'[m][i] = list[i]
      /\ DOMAIN qPerformed'[m] = DOMAIN list \cup {Len(list) + 1}
  <2>1. /\ list \in Seq(1..MaxActions) /\ qMain.index \in 1..MaxActions
        /\ qPerformed'[m] = Append(list, qMain.index)
    BY <1>3, <1>4, <1>5
  <2> QED
    BY ONLY <2>1, LongerByOne
<1>7. RequestTypes'
  <2>1. /\ qKind \in [1..Messages -> {"do", "task", "talk"}]
        /\ m \in 1..(Messages + 1) /\ qAnswered = 1..(m - 1)
        /\ qJournal \in [1..Messages -> Seq(Entries)] /\ DOMAIN qAnswer = 1..Messages
    OBVIOUS
  <2>2. /\ UNCHANGED <<qKind, qAnswered, qJournal, qAnswer>> /\ Q!Message' = m
        /\ qJob' \in [Q!Tasks -> Jobs] /\ qMain' \in Mains
    BY <1>2
  <2> QED
    BY ONLY <1>5, <2>1, <2>2 DEF RequestTypes
<1>8. JournalInv'
  BY <1>1 DEF JournalInv
<1>9. PerformedInv'
  <2>1. ASSUME NEW n \in 1..Messages
        PROVE  /\ qKind[n] # "talk" => qPerformed'[n] = <<>>
               /\ \A i \in DOMAIN qPerformed'[n] :
                     /\ qPerformed'[n][i] \in DOMAIN qJournal[n]
                     /\ qJournal[n][qPerformed'[n][i]].state # "planned"
               /\ \A i, j \in DOMAIN qPerformed'[n] : i < j => qPerformed'[n][i] < qPerformed'[n][j]
    <3>1. CASE n # m
      BY <1>1, <1>5, <3>1 DEF PerformedInv
    <3>2. CASE n = m
      <4>1. qKind[n] = "talk"
        BY <3>2 DEF Q!Talking
      <4>2. ASSUME NEW i \in DOMAIN list
            PROVE  /\ list[i] \in DOMAIN qJournal[m] /\ list[i] < qMain.index
                   /\ qJournal[m][list[i]].state # "planned"
        <5>1. list[i] \in DOMAIN qJournal[m] /\ qJournal[m][list[i]].state # "planned"
          BY <1>1, <1>2 DEF PerformedInv
        <5>2. list[i] # qMain.index
          BY <1>3
        <5> QED
          BY <1>3, <1>4, <5>1, <5>2
      <4>3. qMain.index \in DOMAIN qJournal[m]
        BY <1>3, <1>4
      <4>4. ASSUME NEW i \in DOMAIN qPerformed'[m], NEW j \in DOMAIN qPerformed'[m], i < j
            PROVE  qPerformed'[m][i] < qPerformed'[m][j]
        <5>1. i \in DOMAIN list
          BY <1>4, <1>6, <4>4
        <5>2. CASE j \in DOMAIN list
          BY <1>1, <1>2, <1>6, <4>4, <5>1, <5>2 DEF PerformedInv
        <5>3. CASE j = Len(list) + 1
          BY <1>6, <4>2, <5>1, <5>3
        <5> QED
          BY <1>6, <5>2, <5>3
      <4>5. ASSUME NEW i \in DOMAIN qPerformed'[m]
            PROVE  /\ qPerformed'[m][i] \in DOMAIN qJournal[m]
                   /\ qJournal[m][qPerformed'[m][i]].state # "planned"
        <5>1. CASE i \in DOMAIN list
          BY <1>6, <4>2, <5>1
        <5>2. CASE i = Len(list) + 1
          BY <1>3, <1>6, <4>3, <5>2
        <5> QED
          BY <1>6, <5>1, <5>2
      <4> QED
        BY <3>2, <4>1, <4>4, <4>5
    <3> QED
      BY <3>1, <3>2
  <2> QED
    BY <2>1 DEF PerformedInv
<1>10. MainInv'
  <2>1. Q!Talking'
    BY <1>2 DEF Q!Talking
  <2> QED
    BY <1>2, <1>3, <2>1 DEF MainInv, ActionSteps
<1>11. WorkInv'
  <2>1. ASSUME NEW n \in 1..Messages, NEW t \in Q!Tasks, WorkOf(t, n)'
        PROVE  /\ qPerformed'[n] # <<>> /\ qPerformed'[n][Len(qPerformed'[n])] = qJob'[t].request[2]
               /\ qJournal[n][qJob'[t].request[2]].state = "done" => qJournal[n][qJob'[t].request[2]].stop
               /\ qMain'.step = "record" /\ n = m => qMain'.stop
    <3>1. CASE n # m
      <4>1. qJob'[t].request = qJob[t].request
        <5>1. Q!Request[1] = m
          BY DEF Q!Request
        <5> QED
          BY <2>1, <3>1, <5>1 DEF WorkOf
      <4>2. WorkOf(t, n)
        BY <2>1, <4>1 DEF WorkOf
      <4> QED
        BY <1>1, <1>5, <3>1, <4>1, <4>2 DEF WorkInv
    <3>2. CASE n = m
      <4>1. qJob'[t].request # qJob[t].request
        BY <2>1, <3>2, NoWorkYet DEF WorkOf
      <4>2. qJob'[t].request[2] = qMain.index /\ qMain.step = "enqueue"
        BY <4>1 DEF Q!Request
      <4>3. qPerformed'[m] # <<>>
        BY <1>4, <1>6
      <4> QED
        BY <1>3, <1>6, <3>2, <4>2, <4>3
    <3> QED
      BY <3>1, <3>2
  <2> QED
    BY <1>2, <2>1 DEF WorkInv
<1>12. Q!NothingIsHidden'
  <2>1. m \notin qAnswered /\ \A n \in qAnswered : n \in 1..Messages
    BY <1>2
  <2>2. \A n \in qAnswered : qPerformed'[n] = qPerformed[n]
    BY <1>5, <2>1
  <2> QED
    BY <1>1, <2>2 DEF Q!NothingIsHidden
<1> QED
  BY <1>7, <1>8, <1>9, <1>10, <1>11, <1>12 DEF RequestsInv

\* The handler of /do or /task returns: an action stops the turns, a message is answered.
LEMMA ReturnKeepsRequests ==
    ASSUME RequestsInv, Q!Return, qMain.step \in {"look", "snapshot", "enqueue", "pause"},
           UNCHANGED <<qJournal, qPerformed>>, KeepsWork
    PROVE  RequestsInv'
<1> USE RequestFacts
<1>1. JournalInv /\ PerformedInv /\ WorkInv /\ MainInv
  BY DEF RequestsInv
<1>2. Q!Message \in 1..Messages
  BY <1>1 DEF MainInv
<1>3. CASE Q!Talking
  <2>1. qMain' = [qMain EXCEPT !.step = "record", !.stop = TRUE] /\ UNCHANGED <<qKind, qAnswered, qAnswer>>
    BY <1>3 DEF Q!Return, Q!chat
  <2>2. /\ qMain' \in Mains /\ qMain'.step = "record" /\ qMain'.stop
        /\ qMain'.index = qMain.index
    BY <2>1 DEF Mains, ActionSteps
  <2>3. MainInv'
    <3>1. Q!Message' = Q!Message /\ Q!Talking'
      BY <1>3, <2>1 DEF Q!Message, Q!Talking
    <3> QED
      BY <1>1, <1>2, <1>3, <2>2, <3>1 DEF MainInv, ActionSteps
  <2> QED
    BY <2>1, <2>2, <2>3, MovingKeepsRequests
<1>4. CASE ~Q!Talking
  <2>1. Q!Answer({}, FALSE)
    BY <1>4 DEF Q!Return
  <2>2. qPerformed[Q!Message] = <<>>
    BY <1>1, <1>2, <1>4 DEF PerformedInv, Q!Talking
  <2>3. \A i \in DOMAIN qPerformed[Q!Message] : qPerformed[Q!Message][i] \in {} \/ FALSE
    BY <2>2
  <2>4. qMain.step # "idle"
    OBVIOUS
  <2> QED
    BY ONLY RequestsInv, KeepsWork, UNCHANGED <<qJournal, qPerformed>>, <2>1, <2>3, <2>4, AnswerKeepsRequests
<1> QED
  BY <1>3, <1>4

\* The journal of the message in hand goes on: what ran runs or is done, and stops the
\* turns if its handler asked for it.
LEMMA JournalKeepsRequests ==
    ASSUME RequestsInv, Q!Message \in 1..Messages, NEW list \in Seq(Entries),
           qJournal' = [qJournal EXCEPT ![Q!Message] = list],
           UNCHANGED <<qKind, qAnswered, qAnswer, qJob, qPerformed>>,
           Len(qJournal[Q!Message]) <= Len(list), Len(list) <= MaxActions + 1,
           \A i \in 1..(Len(list) - 1) : Passed(list[i]),
           \A i \in DOMAIN list : list[i].state # "planned" => list[i].operation \in Q!Operations,
           \A i \in DOMAIN qJournal[Q!Message] : qJournal[Q!Message][i].state # "planned" =>
              \/ list[i] = qJournal[Q!Message][i]
              \/ list[i].state = "done" /\ qMain.step = "record" /\ list[i].stop = qMain.stop,
           qMain' \in Mains, MainInv', qMain'.step # "record"
    PROVE  RequestsInv'
<1> USE RequestFacts
<1>1. JournalInv /\ PerformedInv /\ WorkInv /\ Q!NothingIsHidden
  BY DEF RequestsInv
<1> DEFINE m == Q!Message
<1>2. Q!Message' = m
  BY DEF Q!Message
<1>3. /\ qJournal'[m] = list /\ qJournal[m] \in Seq(Entries)
      /\ \A n \in 1..Messages \ {m} : qJournal'[n] = qJournal[n]
      /\ qJournal' \in [1..Messages -> Seq(Entries)]
  OBVIOUS
<1>4. DOMAIN qJournal[m] \subseteq DOMAIN list
  BY <1>3
<1>5. RequestTypes'
  BY <1>2, <1>3 DEF RequestTypes
<1>6. JournalInv'
  <2>1. ASSUME NEW n \in 1..Messages
        PROVE  /\ Len(qJournal'[n]) <= MaxActions + 1
               /\ \A i \in 1..(Len(qJournal'[n]) - 1) : Passed(qJournal'[n][i])
               /\ \A i \in DOMAIN qJournal'[n] :
                     qJournal'[n][i].state # "planned" => qJournal'[n][i].operation \in Q!Operations
    BY <1>1, <1>3 DEF JournalInv
  <2> QED
    BY <2>1 DEF JournalInv, Passed
<1>7. PerformedInv'
  <2>1. ASSUME NEW n \in 1..Messages, NEW i \in DOMAIN qPerformed[n]
        PROVE  /\ qPerformed[n][i] \in DOMAIN qJournal'[n]
               /\ qJournal'[n][qPerformed[n][i]].state # "planned"
    <3>1. qPerformed[n][i] \in DOMAIN qJournal[n] /\ qJournal[n][qPerformed[n][i]].state # "planned"
      BY <1>1 DEF PerformedInv
    <3>2. CASE n # m
      BY <1>3, <3>1, <3>2
    <3>3. CASE n = m
      <4>1. /\ qPerformed[n][i] \in DOMAIN list
            /\ \/ list[qPerformed[n][i]] = qJournal[m][qPerformed[n][i]]
               \/ list[qPerformed[n][i]].state = "done"
        BY <1>4, <3>1, <3>3
      <4> QED
        BY <1>3, <3>1, <3>3, <4>1
    <3> QED
      BY <3>2, <3>3
  <2> QED
    BY <1>1, <2>1 DEF PerformedInv
<1>8. WorkInv'
  <2>1. ASSUME NEW n \in 1..Messages, NEW t \in Q!Tasks, WorkOf(t, n)
        PROVE  /\ qPerformed[n] # <<>> /\ qPerformed[n][Len(qPerformed[n])] = qJob[t].request[2]
               /\ qJournal'[n][qJob[t].request[2]].state = "done" => qJournal'[n][qJob[t].request[2]].stop
    <3> DEFINE r == qJob[t].request[2]
    <3>1. /\ qPerformed[n] # <<>> /\ qPerformed[n][Len(qPerformed[n])] = r
          /\ qJournal[n][r].state = "done" => qJournal[n][r].stop
          /\ qMain.step = "record" /\ n = m => qMain.stop
      BY <1>1, <2>1 DEF WorkInv
    <3>2. r \in DOMAIN qJournal[n] /\ qJournal[n][r].state # "planned"
      <4>1. Len(qPerformed[n]) \in DOMAIN qPerformed[n]
        BY <3>1
      <4> QED
        BY <1>1, <3>1, <4>1 DEF PerformedInv
    <3>3. qJournal'[n][r].state = "done" => qJournal'[n][r].stop
      BY <1>3, <3>1, <3>2
    <3> QED
      BY <3>1, <3>3
  <2>2. \A n \in 1..Messages, t \in Q!Tasks : WorkOf(t, n)' <=> WorkOf(t, n)
    BY DEF WorkOf
  <2> QED
    BY <2>1, <2>2 DEF WorkInv
<1>9. Q!NothingIsHidden'
  BY <1>1 DEF Q!NothingIsHidden
<1> QED
  BY <1>5, <1>6, <1>7, <1>8, <1>9 DEF RequestsInv

\* At a turn that is the last one of the journal all that was performed has its receipt,
\* but for the entry of the turn.
LEMMA ReceiptsAreAll ==
    ASSUME RequestsInv, qMain.step = "turn", Q!Planned,
           ~Passed(Q!Turn) \/ qMain.index > MaxActions, NEW i \in DOMAIN qPerformed[Q!Message]
    PROVE  \/ qPerformed[Q!Message][i] \in Q!Receipts
           \/ /\ qPerformed[Q!Message][i] = qMain.index /\ qMain.index \in 1..MaxActions
              /\ Q!Turn.operation \in Q!Operations /\ Q!Turn.state # "planned"
<1> USE RequestFacts
<1>1. JournalInv /\ PerformedInv /\ MainInv
  BY DEF RequestsInv
<1> DEFINE m == Q!Message
           r == qPerformed[m][i]
<1>2. /\ m \in 1..Messages /\ qMain.index \in 1..Len(qJournal[m])
      /\ \A j \in 1..(qMain.index - 1) : Passed(qJournal[m][j])
  BY <1>1 DEF MainInv, Q!Planned
<1>3. qJournal[m] \in Seq(Entries) /\ r \in 1..MaxActions
  BY <1>2
<1>4. /\ r \in 1..Len(qJournal[m]) /\ qJournal[m][r].state # "planned"
      /\ qJournal[m][r].operation \in Q!Operations
  BY <1>1, <1>2, <1>3 DEF PerformedInv, JournalInv
<1>5. qMain.index = Len(qJournal[m])
  <2>1. Len(qJournal[m]) <= MaxActions + 1
    BY <1>1, <1>2 DEF JournalInv
  <2>2. CASE ~Passed(Q!Turn)
    <3>1. qMain.index \notin 1..(Len(qJournal[m]) - 1)
      BY <1>1, <1>2, <2>2 DEF JournalInv, Q!Turn
    <3> QED
      BY <1>2, <1>3, <3>1
  <2>3. CASE qMain.index > MaxActions
    BY <1>2, <1>3, <2>1, <2>3
  <2> QED
    BY <2>2, <2>3
<1>6. CASE r = qMain.index
  BY <1>3, <1>4, <1>6 DEF Q!Turn
<1>7. CASE r # qMain.index
  <2>1. r \in 1..(qMain.index - 1)
    BY <1>3, <1>4, <1>5, <1>7
  <2>2. qJournal[m][r].state = "done"
    BY <1>2, <1>4, <2>1 DEF Passed
  <2> QED
    BY <2>1, <2>2 DEF Q!Receipts
<1> QED
  BY <1>6, <1>7

\* The model replies, the action runs, and its result is recorded.
LEMMA RecordingKeepsRequests ==
    RequestsInv /\ (Q!Respond \/ Q!Execute \/ Q!Record) => RequestsInv'
<1> SUFFICES ASSUME RequestsInv, Q!Respond \/ Q!Execute \/ Q!Record PROVE RequestsInv'
  OBVIOUS
<1> USE RequestFacts
<1>1. JournalInv /\ PerformedInv /\ WorkInv /\ MainInv
  BY DEF RequestsInv
<1> DEFINE m == Q!Message
           index == qMain.index
<1>2. m \in 1..Messages
  BY <1>1 DEF MainInv, Q!Respond, Q!Execute, Q!Record
<1>3. qJournal[m] \in Seq(Entries) /\ index \in 0..(MaxActions + 1)
  BY <1>2 DEF Mains
<1>4. CASE Q!Respond
  <2>1. qMain.step = "turn" /\ ~Q!Planned /\ UNCHANGED <<qKind, qAnswered, qAnswer, qJob, qPerformed, qMain>>
    BY <1>4 DEF Q!Respond, Q!chat, Q!queue
  <2>2. PICK text \in Q!Operations \cup {"invalid", "final"} :
          qJournal' = [qJournal EXCEPT ![m] =
                         Append(@, [operation |-> text, state |-> "planned", stop |-> FALSE])]
    BY <1>4 DEF Q!Respond
  <2> DEFINE entry == [operation |-> text, state |-> "planned", stop |-> FALSE]
             list == Append(qJournal[m], entry)
  <2>3. entry \in Entries /\ entry.state = "planned"
    BY DEF Entries
  <2> HIDE DEF entry
  <2>4. list \in Seq(Entries) /\ Len(list) = Len(qJournal[m]) + 1 /\ list[Len(list)] = entry
        /\ DOMAIN list = DOMAIN qJournal[m] \cup {Len(list)}
        /\ \A i \in DOMAIN qJournal[m] : list[i] = qJournal[m][i]
    <3>1. list \in Seq(Entries) /\ Len(list) = Len(qJournal[m]) + 1
      BY <1>3, <2>3
    <3>2. list[Len(list)] = entry
      BY <1>3, <3>1
    <3>3. \A i \in DOMAIN qJournal[m] : list[i] = qJournal[m][i]
      BY <1>3
    <3>4. DOMAIN list = DOMAIN qJournal[m] \cup {Len(list)}
      BY <1>3, <3>1, SMTT(30)
    <3> QED
      BY <3>1, <3>2, <3>3, <3>4
  <2>5. qJournal' = [qJournal EXCEPT ![m] = list]
    BY <2>2 DEF entry
  <2>6. /\ index = Len(qJournal[m]) + 1 /\ Q!Talking
        /\ \A i \in 1..(index - 1) : Passed(qJournal[m][i])
    BY <1>1, <1>3, <2>1 DEF MainInv, Q!Planned
  <2> HIDE DEF list
  <2>7. Len(list) <= MaxActions + 1
    BY <1>3, <2>4, <2>6
  <2>8. \A i \in 1..(Len(list) - 1) : Passed(list[i])
    BY <1>3, <2>4, <2>6
  <2>9. \A i \in DOMAIN list : list[i].state # "planned" => list[i].operation \in Q!Operations
    BY <1>1, <1>2, <2>3, <2>4 DEF JournalInv
  <2>10. MainInv'
    <3>1. Q!Message' = m /\ Q!Talking' /\ qJournal'[m] = list /\ qMain' = qMain
      BY <1>2, <2>1, <2>5, <2>6 DEF Q!Message, Q!Talking
    <3>2. index \in 1..(Len(list) + 1) /\ \A i \in 1..(index - 1) : Passed(list[i])
      BY <1>3, <2>4, <2>6, <2>8
    <3> QED
      BY <1>2, <2>1, <3>1, <3>2 DEF MainInv, ActionSteps, Passed
  <2>11. Len(qJournal[m]) <= Len(list)
    BY <1>3, <2>4
  <2>12. \A i \in DOMAIN qJournal[m] : list[i] = qJournal[m][i]
    BY <2>4
  <2> QED
    BY <1>2, <2>1, <2>4, <2>5, <2>7, <2>8, <2>9, <2>10, <2>11, <2>12, JournalKeepsRequests
<1>5. CASE Q!Execute
  <2>1. /\ qMain.step = "turn" /\ Q!Planned /\ Q!Turn.operation \in Q!Operations
        /\ Q!Turn.state = "planned" /\ index <= MaxActions
        /\ qJournal' = [qJournal EXCEPT ![m][index].state = "running"]
        /\ qMain' = [qMain EXCEPT !.operation = Q!Turn.operation,
                       !.step = IF Q!Turn.operation = "other" THEN "other" ELSE "look"]
        /\ UNCHANGED <<qKind, qAnswered, qAnswer, qJob, qPerformed>>
    BY <1>5 DEF Q!Execute, Q!MarkRunning, Q!chat, Q!queue
  <2> DEFINE entry == [qJournal[m][index] EXCEPT !.state = "running"]
             list == [qJournal[m] EXCEPT ![index] = entry]
             next == IF Q!Turn.operation = "other" THEN "other" ELSE "look"
  <2>2. index \in 1..Len(qJournal[m]) /\ Q!Talking
    BY <1>1, <1>3, <2>1 DEF MainInv, Q!Planned
  <2>3. index = Len(qJournal[m])
    <3>1. index \notin 1..(Len(qJournal[m]) - 1)
      BY <1>1, <1>2, <2>1 DEF JournalInv, Passed, Q!Turn
    <3> QED
      BY <1>3, <2>2, <3>1
  <2>4. qJournal[m][index] \in Entries
    BY <1>3, <2>2
  <2>5. /\ entry \in Entries /\ entry.state = "running"
        /\ entry.operation \in Q!Operations
    BY <2>1, <2>4 DEF Entries, Q!Turn
  <2>6. qJournal' = [qJournal EXCEPT ![m] = list]
    BY <1>2, <2>1, <2>5
  <2> HIDE DEF entry
  <2>7. /\ list \in Seq(Entries) /\ Len(list) = Len(qJournal[m]) /\ list[index] = entry
        /\ \A i \in DOMAIN list \ {index} : list[i] = qJournal[m][i]
        /\ DOMAIN list = DOMAIN qJournal[m]
    BY <1>3, <2>2, <2>5
  <2> HIDE DEF list
  <2>8. \A i \in 1..(Len(list) - 1) : Passed(list[i])
    <3>1. \A i \in 1..(Len(list) - 1) : i \in DOMAIN list \ {index}
      BY <1>3, <2>3, <2>7
    <3> QED
      BY <1>1, <1>2, <2>7, <3>1 DEF JournalInv
  <2>9. \A i \in DOMAIN list : list[i].state # "planned" => list[i].operation \in Q!Operations
    BY <1>1, <1>2, <2>5, <2>7 DEF JournalInv
  <2>10. \A i \in DOMAIN qJournal[m] : qJournal[m][i].state # "planned" => list[i] = qJournal[m][i]
    BY <2>1, <2>7 DEF Q!Turn
  <2>11. Len(list) <= MaxActions + 1
    BY <1>1, <1>2, <2>7 DEF JournalInv
  <2>12. next \in {"other", "look"} /\ qMain' = [qMain EXCEPT !.operation = Q!Turn.operation, !.step = next]
    BY <2>1
  <2> HIDE DEF next
  <2>13. qMain' \in Mains /\ qMain'.step = next /\ qMain'.index = index
    BY <2>1, <2>12 DEF Mains, ActionSteps
  <2>14. MainInv'
    <3>1. Q!Message' = m /\ Q!Talking' /\ qJournal'[m] = list
      BY <1>2, <2>1, <2>2, <2>6 DEF Q!Message, Q!Talking
    <3>2. index \in 1..MaxActions /\ index = Len(list) /\ list[index].state = "running"
      BY <1>3, <2>1, <2>2, <2>3, <2>5, <2>7
    <3>3. \A i \in DOMAIN qPerformed[m] : qPerformed[m][i] # index
      BY <1>1, <1>2, <2>1 DEF PerformedInv, Q!Turn
    <3> QED
      BY <1>2, <2>1, <2>12, <2>13, <3>1, <3>2, <3>3 DEF MainInv, ActionSteps
  <2>15. Len(qJournal[m]) <= Len(list) /\ qMain'.step # "record"
    BY <1>3, <2>7, <2>12, <2>13
  <2> QED
    BY <1>2, <2>1, <2>6, <2>7, <2>8, <2>9, <2>10, <2>11, <2>13, <2>14, <2>15, JournalKeepsRequests
<1>6. CASE Q!Record
  <2>1. /\ qMain.step = "record"
        /\ qJournal' = [qJournal EXCEPT ![m][index] = [@ EXCEPT !.state = "done", !.stop = qMain.stop]]
        /\ qMain' = [Q!At("turn") EXCEPT !.index = index]
        /\ UNCHANGED <<qKind, qAnswered, qAnswer, qJob, qPerformed>>
    BY <1>6 DEF Q!Record, Q!chat, Q!queue
  <2>2. Q!Talking
    BY <1>1, <2>1 DEF MainInv
  <2>3. /\ index \in 1..MaxActions /\ index = Len(qJournal[m])
        /\ qJournal[m][index].state = "running"
    BY <1>1, <2>1, <2>2 DEF MainInv, ActionSteps
  <2> DEFINE entry == [qJournal[m][index] EXCEPT !.state = "done", !.stop = qMain.stop]
             list == [qJournal[m] EXCEPT ![index] = entry]
  <2>4. index \in DOMAIN qJournal[m] /\ qJournal[m][index] \in Entries
    BY <1>3, <2>3
  <2>5. qMain.stop \in BOOLEAN
    BY DEF Mains
  <2>6. /\ entry \in Entries /\ entry.state = "done" /\ entry.stop = qMain.stop
        /\ entry.operation = qJournal[m][index].operation
    BY <2>4, <2>5 DEF Entries
  <2>7. entry.operation \in Q!Operations
    BY <1>1, <1>2, <2>3, <2>4, <2>6 DEF JournalInv
  <2>8. qJournal' = [qJournal EXCEPT ![m] = list]
    BY <1>2, <2>1, <2>6
  <2> HIDE DEF entry
  <2>9. /\ list \in Seq(Entries) /\ Len(list) = Len(qJournal[m]) /\ list[index] = entry
        /\ \A i \in DOMAIN list \ {index} : list[i] = qJournal[m][i]
        /\ DOMAIN list = DOMAIN qJournal[m]
    BY <1>3, <2>4, <2>6
  <2> HIDE DEF list
  <2>10. \A i \in 1..(Len(list) - 1) : Passed(list[i])
    <3>1. \A i \in 1..(Len(list) - 1) : i \in DOMAIN list \ {index}
      <4>1. list \in Seq(Entries) /\ index = Len(list)
        BY <2>3, <2>9
      <4> QED
        BY ONLY <4>1
    <3> QED
      BY <1>1, <1>2, <2>9, <3>1 DEF JournalInv
  <2>11. \A i \in DOMAIN list : list[i].state # "planned" => list[i].operation \in Q!Operations
    BY <1>1, <1>2, <2>7, <2>9 DEF JournalInv
  <2>12. \A i \in DOMAIN qJournal[m] :
            \/ list[i] = qJournal[m][i]
            \/ list[i].state = "done" /\ qMain.step = "record" /\ list[i].stop = qMain.stop
    BY <2>1, <2>6, <2>9
  <2>13. Len(list) <= MaxActions + 1
    BY <1>1, <1>2, <2>9 DEF JournalInv
  <2>14. qMain' \in Mains /\ qMain'.step = "turn" /\ qMain'.index = index
    BY <1>3, <2>1 DEF Mains, Q!At
  <2>15. MainInv'
    <3>1. Q!Message' = m /\ Q!Talking' /\ qJournal'[m] = list
      BY <1>2, <2>1, <2>2, <2>8 DEF Q!Message, Q!Talking
    <3>2. index \in 1..(Len(list) + 1) /\ \A i \in 1..(index - 1) : Passed(list[i])
      BY <1>3, <2>3, <2>9, <2>10
    <3> QED
      BY <1>2, <2>14, <3>1, <3>2 DEF MainInv, ActionSteps, Passed
  <2>16. Len(qJournal[m]) <= Len(list) /\ qMain'.step # "record"
    BY <1>3, <2>9, <2>14
  <2> QED
    BY <1>2, <2>1, <2>8, <2>9, <2>10, <2>11, <2>12, <2>13, <2>14, <2>15, <2>16, JournalKeepsRequests
<1> QED
  BY <1>4, <1>5, <1>6

\* A turn of the journal is read: it is passed, or ends the conversation.
LEMMA TurnsKeepRequests ==
    RequestsInv /\ (Q!Interrupted \/ Q!Invalid \/ Q!Final \/ Q!ActionLimit \/ Q!Done) => RequestsInv'
<1> SUFFICES ASSUME RequestsInv,
                    Q!Interrupted \/ Q!Invalid \/ Q!Final \/ Q!ActionLimit \/ Q!Done
             PROVE  RequestsInv'
  OBVIOUS
<1> USE RequestFacts
<1>1. JournalInv /\ PerformedInv /\ MainInv
  BY DEF RequestsInv
<1>2. qMain.step = "turn" /\ Q!Planned /\ UNCHANGED <<qJournal, qJob, qPerformed>>
  BY DEF Q!Interrupted, Q!Invalid, Q!Final, Q!ActionLimit, Q!Done, Q!queue
<1> DEFINE m == Q!Message
           index == qMain.index
<1>3. /\ m \in 1..Messages /\ Q!Talking /\ index \in 1..Len(qJournal[m])
      /\ \A i \in 1..(index - 1) : Passed(qJournal[m][i])
  BY <1>1, <1>2 DEF MainInv, Q!Planned
<1>4. qJournal[m] \in Seq(Entries) /\ index \in 1..(MaxActions + 1)
  BY <1>3, SMTT(30) DEF Mains
<1>5. KeepsWork
  BY <1>2 DEF KeepsWork
<1>6. ASSUME Passed(Q!Turn), index <= MaxActions, qMain' = [qMain EXCEPT !.index = @ + 1],
             UNCHANGED <<qKind, qAnswered, qAnswer>>
      PROVE  RequestsInv'
  <2>1. qMain' \in Mains /\ qMain'.step = "turn" /\ qMain'.index = index + 1
    <3> DEFINE next == index + 1
    <3>1. next \in 0..(MaxActions + 1)
      BY <1>4, <1>6
    <3> HIDE DEF next
    <3>2. qMain' = [qMain EXCEPT !.index = next]
      BY <1>6 DEF next
    <3>3. qMain' \in Mains /\ qMain'.step = "turn" /\ qMain'.index = next
      BY ONLY <1>2, qMain \in Mains, <3>1, <3>2 DEF Mains
    <3> QED
      BY <3>3 DEF next
  <2>2. \A i \in 1..index : Passed(qJournal[m][i])
    <3>1. \A i \in 1..index : i = index \/ i \in 1..(index - 1)
      BY <1>4
    <3> QED
      BY <1>3, <1>6, <3>1 DEF Q!Turn
  <2>3. index + 1 \in 1..(Len(qJournal[m]) + 1) /\ (index + 1) - 1 = index
    BY <1>3, <1>4
  <2>4. MainInv'
    <3>1. Q!Message' = m /\ Q!Talking' /\ qJournal' = qJournal
      BY <1>2, <1>3, <1>6 DEF Q!Message, Q!Talking
    <3> QED
      BY <1>3, <2>1, <2>2, <2>3, <3>1 DEF MainInv, ActionSteps, Passed
  <2> QED
    BY <1>2, <1>5, <1>6, <2>1, <2>4, MovingKeepsRequests
<1>7. ASSUME NEW receipts, NEW uncertain, Q!Answer(receipts, uncertain),
             \A i \in DOMAIN qPerformed[m] : qPerformed[m][i] \in receipts \/ uncertain
      PROVE  RequestsInv'
  BY <1>2, <1>5, <1>7, AnswerKeepsRequests
<1>8. CASE Q!Interrupted
  BY <1>7, <1>8 DEF Q!Interrupted
<1>9. CASE Q!Invalid
  <2>1. Q!Turn.operation = "invalid"
    BY <1>9 DEF Q!Invalid
  <2>2. CASE index <= MaxActions
    <3>1. Passed(Q!Turn)
      BY <2>1 DEF Passed, Q!Operations
    <3>2. qMain' = [qMain EXCEPT !.index = @ + 1] /\ UNCHANGED <<qKind, qAnswered, qAnswer>>
      <4>1. ~(index > MaxActions)
        BY <1>4, <2>2
      <4> QED
        BY <1>9, <4>1 DEF Q!Invalid, Q!chat
    <3> QED
      BY <1>6, <2>2, <3>1, <3>2
  <2>3. CASE index > MaxActions
    <3>1. Q!Answer(Q!Receipts, FALSE)
      <4>1. ~(index <= MaxActions)
        BY <1>4, <2>3
      <4> QED
        BY <1>9, <4>1 DEF Q!Invalid
    <3>2. \A i \in DOMAIN qPerformed[m] : qPerformed[m][i] \in Q!Receipts
      BY <1>2, <1>4, <2>3, ReceiptsAreAll
    <3> QED
      BY <1>7, <3>1, <3>2
  <2> QED
    BY <1>4, <2>2, <2>3
<1>10. CASE Q!Final
  <2>1. Q!Turn.operation = "final" /\ Q!Answer(Q!Receipts, FALSE)
    BY <1>10 DEF Q!Final
  <2>2. \A i \in DOMAIN qPerformed[m] : qPerformed[m][i] \in Q!Receipts
    BY <1>2, <2>1, ReceiptsAreAll DEF Passed, Q!Operations
  <2> QED
    BY <1>7, <2>1, <2>2
<1>11. CASE Q!ActionLimit
  <2>1. index > MaxActions /\ Q!Answer(Q!Receipts, FALSE)
    BY <1>11 DEF Q!ActionLimit
  <2>2. \A i \in DOMAIN qPerformed[m] : qPerformed[m][i] \in Q!Receipts
    BY <1>2, <1>4, <2>1, ReceiptsAreAll
  <2> QED
    BY <1>7, <2>1, <2>2
<1>12. CASE Q!Done
  <2>1. Q!Turn.state = "done" /\ Q!Turn.operation \in Q!Operations /\ index <= MaxActions
    BY <1>1, <1>3, <1>4, <1>12 DEF Q!Done, Q!Turn, JournalInv
  <2>2. CASE Q!Stops(Q!Turn)
    <3>1. Q!Answer(Q!Receipts \cup {index}, FALSE)
      BY <1>12, <2>2 DEF Q!Done
    <3>2. \A i \in DOMAIN qPerformed[m] : qPerformed[m][i] \in Q!Receipts \cup {index}
      BY <1>2, <2>1, <2>2, ReceiptsAreAll DEF Passed, Q!Stops
    <3> QED
      BY <1>7, <3>1, <3>2
  <2>3. CASE ~Q!Stops(Q!Turn)
    <3>1. qMain' = [qMain EXCEPT !.index = @ + 1] /\ UNCHANGED <<qKind, qAnswered, qAnswer>>
      BY <1>12, <2>3 DEF Q!Done, Q!chat
    <3>2. Passed(Q!Turn)
      BY <2>1, <2>3 DEF Passed, Q!Stops, Q!Operations
    <3> QED
      BY <1>6, <2>1, <3>1, <3>2
  <2> QED
    BY <2>2, <2>3
<1> QED
  BY <1>8, <1>9, <1>10, <1>11, <1>12

\* A message comes, tasks start and end, access goes and returns, the process restarts.
LEMMA AroundKeepsRequests ==
    ASSUME RequestsInv,
           \/ Q!Begin \/ Q!Claim \/ Q!Finish \/ Q!AccessLost \/ Q!AccessRestored \/ Q!Resume
           \/ Q!Crash \/ UNCHANGED Q!vars
    PROVE  RequestsInv'
<1> USE RequestFacts
<1>1. JournalInv /\ PerformedInv /\ MainInv
  BY DEF RequestsInv
<1>2. UNCHANGED <<qKind, qAnswered, qAnswer, qJournal, qPerformed>>
  BY DEF Q!Begin, Q!Claim, Q!Finish, Q!AccessLost, Q!AccessRestored, Q!Resume, Q!Crash, Q!vars, Q!chat
<1>3. \A t \in Q!Tasks, s \in Q!Statuses : [qJob[t] EXCEPT !.status = s] \in Jobs
      /\ [qJob[t] EXCEPT !.status = s].request = qJob[t].request
  BY SMTT(30) DEF Jobs
<1>4. Q!Message' = Q!Message /\ (Q!Talking' <=> Q!Talking)
  BY <1>2 DEF Q!Message, Q!Talking
<1>5. KeepsWork
  <2>1. CASE UNCHANGED qJob
    BY <2>1 DEF KeepsWork
  <2>2. ASSUME NEW t \in Q!Tasks, NEW s \in Q!Statuses, qJob' = [qJob EXCEPT ![t].status = s]
        PROVE  KeepsWork
    BY <1>3, <2>2 DEF KeepsWork
  <2>3. CASE Q!Claim \/ Q!Finish
    BY <2>2, <2>3 DEF Q!Claim, Q!Finish, Q!With, Q!Statuses
  <2>4. CASE Q!Resume \/ Q!Crash
    <3> DEFINE from == IF Q!Resume THEN "paused" ELSE "running"
               next(t) == IF qJob[t].status = from THEN [qJob[t] EXCEPT !.status = "pending"] ELSE qJob[t]
    <3>1. qJob' = [t \in Q!Tasks |-> next(t)]
      BY <2>4 DEF Q!Resume, Q!Crash
    <3>2. \A t \in Q!Tasks : next(t) \in Jobs /\ next(t).request = qJob[t].request
      BY <1>3 DEF Q!Statuses
    <3> HIDE DEF next
    <3> QED
      BY <3>1, <3>2 DEF KeepsWork
  <2> QED
    BY <2>1, <2>3, <2>4 DEF Q!Begin, Q!AccessLost, Q!AccessRestored, Q!vars, Q!queue
<1>6. CASE UNCHANGED qMain
  <2>1. MainInv'
    BY <1>1, <1>2, <1>4, <1>6 DEF MainInv
  <2> QED
    BY <1>2, <1>5, <1>6, <2>1, MovingKeepsRequests
<1>7. CASE Q!Crash
  <2>1. qMain' \in Mains /\ qMain'.step = "idle"
    BY <1>7 DEF Q!Crash, Q!At, Mains
  <2>2. MainInv'
    BY <2>1 DEF MainInv, ActionSteps
  <2> QED
    BY <1>2, <1>5, <2>1, <2>2, MovingKeepsRequests
<1>8. CASE Q!Begin
  <2>1. Q!Message \in 1..Messages
    BY <1>8 DEF Q!Begin
  <2>2. CASE Q!Talking
    <3>1. qMain' \in Mains /\ qMain'.step = "turn" /\ qMain'.index = 1
      <4>1. qMain' = [Q!At("turn") EXCEPT !.index = 1]
        BY <1>8, <2>2 DEF Q!Begin
      <4>2. 1 \in 0..(MaxActions + 1)
        OBVIOUS
      <4> QED
        BY ONLY <4>1, <4>2 DEF Q!At, Mains
    <3>2. 1 \in 1..(Len(qJournal[Q!Message]) + 1) /\ 1..(1 - 1) = {}
      BY <2>1
    <3>3. MainInv'
      BY <1>2, <1>4, <2>1, <2>2, <3>1, <3>2 DEF MainInv, ActionSteps
    <3> QED
      BY <1>2, <1>5, <3>1, <3>3, MovingKeepsRequests
  <2>3. CASE ~Q!Talking
    <3>1. qKind[Q!Message] \in {"do", "task"}
      BY <2>1, <2>3 DEF Q!Talking
    <3>2. qMain' \in Mains /\ qMain'.step = "look"
      <4>1. qMain' = [Q!At("look") EXCEPT !.operation = qKind[Q!Message]]
        BY <1>8, <2>3 DEF Q!Begin
      <4>2. 0 \in 0..(MaxActions + 1)
        OBVIOUS
      <4> QED
        BY ONLY <3>1, <4>1, <4>2 DEF Q!At, Mains, ActionSteps, Q!Operations
    <3>3. MainInv'
      BY <1>2, <1>4, <2>1, <2>3, <3>2 DEF MainInv, ActionSteps
    <3> QED
      BY <1>2, <1>5, <3>2, <3>3, MovingKeepsRequests
  <2> QED
    BY <2>2, <2>3
<1> QED
  BY <1>6, <1>7, <1>8 DEF Q!Claim, Q!Finish, Q!AccessLost, Q!AccessRestored, Q!Resume, Q!vars

\* The task of a new request.
LEMMA NewRequest ==
    ASSUME RequestsInv, NEW s \in Q!Statuses, Q!New(s)
    PROVE  /\ qJob' \in [Q!Tasks -> Jobs]
           /\ \A t \in Q!Tasks : qJob'[t].request = qJob[t].request \/ qJob'[t].request = Q!Request
<1> USE RequestFacts
<1> DEFINE new == [request |-> Q!Request, purpose |-> qMain.seen, status |-> s]
<1>1. new \in Jobs /\ new.request = Q!Request
  <2>1. qMain.index \in Nat /\ qMain.seen \in Q!Purposes \cup {"none"}
    BY DEF Mains
  <2> QED
    BY <2>1 DEF Jobs, Q!Request
<1> HIDE DEF new
<1>2. PICK t : qJob' = [qJob EXCEPT ![t] = new]
  BY DEF Q!New, new
<1> QED
  BY <1>1, <1>2

\* /do and /task, and any other command.
LEMMA WorkingKeepsRequests ==
    ASSUME RequestsInv,
           \/ Q!Other \/ Q!LookPaused \/ Q!Look \/ Q!Snapshot \/ Q!Repeated \/ Q!Direct
           \/ Q!Enqueue \/ Q!Pause
    PROVE  RequestsInv'
<1> USE RequestFacts
<1>1. JournalInv /\ PerformedInv /\ MainInv
  BY DEF RequestsInv
<1>2. UNCHANGED qJob => KeepsWork
  BY DEF KeepsWork
<1>3. ASSUME UNCHANGED <<qKind, qAnswered, qAnswer, qJournal, qPerformed, qJob>>,
             qMain' \in Mains, qMain'.step \in {"snapshot", "enqueue", "pause"},
             qMain.step \in {"look", "snapshot", "enqueue"}, qMain'.index = qMain.index
      PROVE  RequestsInv'
  <2>1. Q!Message' = Q!Message /\ (Q!Talking' <=> Q!Talking)
    BY <1>3 DEF Q!Message, Q!Talking
  <2>2. MainInv'
    BY <1>1, <1>3, <2>1 DEF MainInv, ActionSteps
  <2>3. qMain'.step # "record"
    BY <1>3
  <2> QED
    BY <1>2, <1>3, <2>2, <2>3, MovingKeepsRequests
<1>4. ASSUME NEW s \in Q!Statuses, Q!New(s), Q!Return \/ (Q!Go("pause") /\ UNCHANGED Q!chat),
             qMain.step = "enqueue", UNCHANGED qJournal
      PROVE  RequestsInv'
  <2>1. /\ qJob' \in [Q!Tasks -> Jobs]
        /\ \A t \in Q!Tasks : qJob'[t].request = qJob[t].request \/ qJob'[t].request = Q!Request
    BY <1>4, NewRequest
  <2>2. CASE Q!Talking
    <3>1. qPerformed' = [qPerformed EXCEPT ![Q!Message] = Append(@, qMain.index)]
      BY <1>4, <2>2 DEF Q!New
    <3>2. /\ UNCHANGED <<qKind, qAnswered, qAnswer>>
          /\ \/ qMain' = [qMain EXCEPT !.step = "record", !.stop = TRUE]
             \/ qMain' = [qMain EXCEPT !.step = "pause"]
      BY <1>4, <2>2 DEF Q!Return, Q!Go, Q!chat
    <3>3. /\ qMain' \in Mains /\ qMain'.index = qMain.index /\ qMain'.step \in {"record", "pause"}
          /\ qMain'.step = "record" => qMain'.stop
      <4>1. CASE qMain' = [qMain EXCEPT !.step = "record", !.stop = TRUE]
        BY <4>1 DEF Mains, ActionSteps
      <4>2. CASE qMain' = [qMain EXCEPT !.step = "pause"]
        BY <4>2 DEF Mains, ActionSteps
      <4> QED
        BY <3>2, <4>1, <4>2
    <3>4. qMain.step \in ActionSteps \ {"record", "pause"}
      BY <1>4 DEF ActionSteps
    <3> QED
      BY <1>4, <2>1, <2>2, <3>1, <3>2, <3>3, <3>4, PerformingKeepsRequests
  <2>3. CASE ~Q!Talking
    <3>1. UNCHANGED qPerformed
      BY <1>4, <2>3 DEF Q!New
    <3>2. KeepsWork
      <4>1. Q!Request[1] = Q!Message
        BY DEF Q!Request
      <4> QED
        BY <2>1, <2>3, <4>1 DEF KeepsWork
    <3>3. CASE Q!Return
      BY <1>4, <3>1, <3>2, <3>3, ReturnKeepsRequests
    <3>4. CASE Q!Go("pause") /\ UNCHANGED Q!chat
      <4>1. qMain' \in Mains /\ qMain'.step = "pause"
        BY <3>4 DEF Q!Go, Mains, ActionSteps
      <4>2. UNCHANGED <<qKind, qAnswered, qAnswer>>
        BY <3>4 DEF Q!chat
      <4>3. Q!Message' = Q!Message /\ ~Q!Talking'
        BY <2>3, <4>2 DEF Q!Message, Q!Talking
      <4>4. MainInv'
        BY <1>1, <1>4, <4>1, <4>3 DEF MainInv, ActionSteps
      <4> QED
        BY <1>4, <3>1, <3>2, <4>1, <4>2, <4>4, MovingKeepsRequests
    <3> QED
      BY <1>4, <3>3, <3>4
  <2> QED
    BY <2>2, <2>3
<1>5. CASE Q!Other
  <2>1. /\ qMain.step = "other" /\ UNCHANGED <<qKind, qAnswered, qAnswer, qJournal, qJob>>
        /\ qPerformed' = [qPerformed EXCEPT ![Q!Message] = Append(@, qMain.index)]
    BY <1>5 DEF Q!Other, Q!chat, Q!queue
  <2>2. PICK stop \in BOOLEAN : qMain' = [qMain EXCEPT !.step = "record", !.stop = stop]
    BY <1>5 DEF Q!Other
  <2>3. qMain' \in Mains /\ qMain'.index = qMain.index /\ qMain'.step = "record"
    BY <2>2 DEF Mains, ActionSteps
  <2>4. Q!Talking /\ qMain.step \in ActionSteps \ {"record", "pause"}
    BY <1>1, <2>1 DEF MainInv, ActionSteps
  <2> QED
    BY <2>1, <2>3, <2>4, PerformingKeepsRequests
<1>6. CASE Q!LookPaused
  BY <1>2, <1>6, ReturnKeepsRequests DEF Q!LookPaused, Q!queue
<1>7. CASE Q!Look
  <2>1. PICK seen \in {"task", "direct", "direct-next"} :
          qMain' = [qMain EXCEPT !.step = "snapshot", !.seen = seen]
    BY <1>7 DEF Q!Look
  <2>2. qMain' \in Mains /\ qMain'.step = "snapshot" /\ qMain'.index = qMain.index
    BY <2>1 DEF Mains, ActionSteps, Q!Purposes
  <2> QED
    BY <1>3, <1>7, <2>2 DEF Q!Look, Q!chat, Q!queue
<1>8. CASE Q!Snapshot
  <2>1. CASE Q!Return
    BY <1>2, <1>8, <2>1, ReturnKeepsRequests DEF Q!Snapshot, Q!queue
  <2>2. CASE ~Q!Return
    <3>1. PICK seen \in Q!Purposes \cup {"none"} :
            qMain' = [qMain EXCEPT !.step = "enqueue", !.seen = seen]
      <4>1. CASE Q!Go("enqueue")
        <5>1. qMain' = [qMain EXCEPT !.step = "enqueue", !.seen = qMain.seen]
          BY <4>1 DEF Q!Go, Mains
        <5> QED
          BY <5>1 DEF Mains
      <4>2. CASE ~Q!Go("enqueue")
        <5>1. qMain' = [qMain EXCEPT !.step = "enqueue",
                                     !.seen = IF qMain.seen = "task" THEN "paused:/task" ELSE "paused:/do"]
          BY <1>8, <2>2, <4>2 DEF Q!Snapshot
        <5> QED
          BY <5>1 DEF Q!Purposes
      <4> QED
        BY <4>1, <4>2
    <3>2. qMain' \in Mains /\ qMain'.step = "enqueue" /\ qMain'.index = qMain.index
      BY <3>1 DEF Mains, ActionSteps
    <3>3. UNCHANGED <<qKind, qAnswered, qAnswer>>
      BY <1>8, <2>2 DEF Q!Snapshot, Q!chat
    <3> QED
      BY <1>3, <1>8, <3>2, <3>3 DEF Q!Snapshot, Q!queue
  <2> QED
    BY <2>1, <2>2
<1>9. CASE Q!Repeated
  <2>1. CASE Q!Return
    BY <1>2, <1>9, <2>1, ReturnKeepsRequests DEF Q!Repeated, Q!queue
  <2>2. CASE ~Q!Return
    <3>1. Q!Go("pause") /\ UNCHANGED <<qKind, qAnswered, qAnswer>>
      BY <1>9, <2>2 DEF Q!Repeated, Q!chat
    <3>2. qMain' \in Mains /\ qMain'.step = "pause" /\ qMain'.index = qMain.index
      BY <3>1 DEF Q!Go, Mains, ActionSteps
    <3> QED
      BY <1>3, <1>9, <3>1, <3>2 DEF Q!Repeated, Q!queue
  <2> QED
    BY <2>1, <2>2
<1>10. CASE Q!Direct
  <2>1. CASE Q!With("running") # {}
    BY <1>2, <1>10, <2>1, ReturnKeepsRequests DEF Q!Direct
  <2>2. CASE Q!With("running") = {}
    BY <1>4, <1>10, <2>2 DEF Q!Direct, Q!Statuses
  <2> QED
    BY <2>1, <2>2
<1>11. CASE Q!Enqueue
  BY <1>4, <1>11 DEF Q!Enqueue, Q!Statuses
<1>12. CASE Q!Pause
  <2> DEFINE next(t) == IF t \in Q!Same /\ qJob[t].status \in {"pending", "running"}
                        THEN [qJob[t] EXCEPT !.status = "paused"] ELSE qJob[t]
  <2>1. qJob' = [t \in Q!Tasks |-> next(t)]
    BY <1>12 DEF Q!Pause
  <2>2. \A t \in Q!Tasks : next(t) \in Jobs /\ next(t).request = qJob[t].request
    BY DEF Jobs, Q!Statuses
  <2> HIDE DEF next
  <2>3. KeepsWork
    BY <2>1, <2>2 DEF KeepsWork
  <2> QED
    BY <1>12, <2>3, ReturnKeepsRequests DEF Q!Pause
<1> QED
  BY <1>5, <1>6, <1>7, <1>8, <1>9, <1>10, <1>11, <1>12

\* Every step of a conversation, of its worker and of the daemon keeps the invariant.
LEMMA RequestsStep == RequestsInv /\ [Q!Next]_(Q!vars) => RequestsInv'
<1> SUFFICES ASSUME RequestsInv, [Q!Next]_(Q!vars) PROVE RequestsInv'
  OBVIOUS
<1> QED
  BY RecordingKeepsRequests, TurnsKeepRequests, AroundKeepsRequests, WorkingKeepsRequests
     DEF Q!Next, Q!Handler

\* The invariant of the requests, while they run.
AskedInv == part = "requests" => RequestsInv

\* The requests keep to their invariant in every behaviour of the daemon.
LEMMA AskedInvariant == MCSpec => []AskedInv
<1>1. MCInit => AskedInv
  BY RequestsInit DEF MCInit, AskedInv
<1>2. AskedInv /\ [MCNext]_allVars => AskedInv'
  <2> SUFFICES ASSUME AskedInv, [MCNext]_allVars PROVE AskedInv'
    OBVIOUS
  <2>1. part' = part
    BY DEF MCNext, InInbox, InTaskRunner, InPublication, InExtensionTasks, InCommands,
           InOperations, InRequests, InRuntimeRuns, InNotifications, allVars
  <2>2. part = "requests" => RequestsInv'
    BY RunsRequests, RequestsStep DEF AskedInv
  <2> QED
    BY <2>1, <2>2 DEF AskedInv
<1> QED
  BY <1>1, <1>2, PTL DEF MCSpec

\* conversation.py, _execute_conversation_action, invoke_runtime_respond: across crashes and
\* redeliveries a conversation performs an action at most once and in order, its answer
\* hides nothing that was performed and the work it starts is the last thing it does; a call
\* is cancelled only by the user, leaves no child, and its session has the startup context.
THEOREM FaithfulConversations == MCSpec => []ConversationsAreFaithful
<1>1. RequestsInv => Q!ActionsHappenOnce /\ Q!NothingIsHidden /\ Q!WorkEndsTheTurn
  BY DEF RequestsInv, PerformedInv, WorkInv, WorkOf, Q!ActionsHappenOnce, Q!WorkEndsTheTurn
<1>2. CallsInv => U!CancelledMeansAsked /\ U!NoChildIsLeft /\ U!ConversationKnowsItself
  BY DEF CallsInv, CauseInv
<1>3. AskedInv /\ CallsInv => ConversationsAreFaithful
  BY <1>1, <1>2 DEF AskedInv, ConversationsAreFaithful
<1> QED
  BY <1>3, AskedInvariant, CallsInvariant, PTL

-----------------------------------------------------------------------------
(* Publication of a change.                                                 *)

\* A recorded revision, and where a run is before it records one and after.
Recorded == pJob.stage \in {"captured", "review_published"}
Working ==
    \/ pRun.at \in {"prepare", "branch", "turn", "repair", "discard", "doctor", "validated",
                    "capture", "record"}
    \/ pRun.at = "workspace" /\ pRun.next \in {"turn", "record"}
Publishing ==
    \/ pRun.at \in {"push", "create", "review"}
    \/ pRun.at = "workspace" /\ pRun.next = "push"
Settling == pRun.at = "remove" \/ (pRun.at = "workspace" /\ pRun.next = "remove")

\* No review is asked for.
Local == pProvider = "local" /\ pKind = "edit"

\* The job: a revision is recorded with its stage, and the stage of a review comes with
\* its confirmation, of the revision that the forge has.
StageInv ==
    /\ pJob.revision # 0 => Recorded
    /\ pJob.published => pJob.stage = "review_published"
    /\ pJob.url => pJob.stage = "review_published"
    /\ pJob.stage = "review_published" =>
         pJob.published /\ pJob.url /\ pForge.pushed = pJob.revision

\* A task that waits for a run has an attempt left.
WaitsInv == pJob.status = "pending" => pJob.attempt < TaskAttempts

\* The run: which stage it works on.
StepInv ==
    /\ pRun.at = "workspace" => pRun.next \in {"turn", "record", "push", "remove"}
    /\ pRun.at = "branch" => pKind = "branch"
    /\ Working => ~Recorded
    /\ pRun.at = "resume" => Recorded
    /\ Publishing => pJob.stage = "captured" /\ pRun.revision = pJob.revision
    /\ pRun.at \in {"create", "review"} /\ pProvider = "remote" => pForge.pushed = pRun.revision
    /\ pRun.at = "review" => pProvider = "remote" \/ Local
    /\ pRun.at = "result" => pJob.stage = "review_published"
    /\ Settling => pJob.stage = "review_published" \/ Local
    /\ pRun.at = "finish" /\ pRun.outcome = "completed" =>
         pJob.revision = 0 \/ pJob.stage = "review_published" \/ (Local /\ ~pCopy.registered)

\* What is captured, recorded and pushed passed the doctor.
ValidInv ==
    pKind = "edit" =>
       /\ pForge.pushed \in pPassed \cup {0} /\ pJob.revision \in pPassed \cup {0}
       /\ pRun.revision \in pPassed \cup {0}
       /\ pRun.at \in {"validated", "capture"} => pCopy.tree \in pPassed

PublicationInv == P!TypeOK /\ WaitsInv /\ StageInv /\ StepInv /\ ValidInv

\* The records of a publication.
JobType == [status : P!Status, attempt : 0..TaskAttempts, stage : P!Stages, revision : P!Contents,
            id : BOOLEAN, url : BOOLEAN, published : BOOLEAN, result : BOOLEAN]
RunType == [at : P!Points, revision : P!Contents, repairs : 0..RepairLimit, next : P!Points,
            stopped : {"no", "cancelled", "expired"}, outcome : P!Outcomes]
CopyType == [registered : BOOLEAN, branch : BOOLEAN, head : P!Contents, tree : P!Contents]

\* The types of the records, one by one.
LEMMA PublicationFacts ==
    ASSUME P!TypeOK
    PROVE  /\ pJob \in JobType /\ pRun \in RunType /\ pCopy \in CopyType
           /\ pForge \in [pushed : P!Contents, review : {"none", "open", "closed"}]
           /\ pKind \in {"edit", "branch"} /\ pProvider \in P!Providers
           /\ pPassed \subseteq P!Contents /\ pWritten \in P!Contents
  BY DEF P!TypeOK, JobType, RunType, CopyType

\* The daemon as a whole runs the publication.
LEMMA RunsPublication == [MCNext]_allVars => [P!Next]_(P!vars)
  BY DEF MCNext, InInbox, InTaskRunner, InPublication, InExtensionTasks, InCommands,
         InOperations, InRequests, InRuntimeRuns, InNotifications, allVars, publication, P!vars

\* At first nothing is published.
LEMMA PublicationInit == P!Init => PublicationInv
<1> SUFFICES ASSUME P!Init PROVE PublicationInv
  OBVIOUS
<1> USE BoundsAssumption
<1>1. P!TypeOK
  <2>1. 0 \in P!Contents /\ 1 \in P!Contents /\ 0 \in 0..TaskAttempts /\ 0 \in 0..RepairLimit
    BY DEF P!Contents
  <2>2. pWritten \in P!Contents
    BY <2>1 DEF P!Init
  <2>3. pJob \in JobType /\ pRun \in RunType
    BY <2>1 DEF P!Init, P!NoRun, JobType, RunType, P!Status, P!Stages, P!Points, P!Outcomes
  <2>4. pCopy \in CopyType
    <3>1. (pKind = "branch") \in BOOLEAN
      OBVIOUS
    <3> QED
      BY <2>2, <3>1 DEF P!Init, CopyType
  <2>5. pForge \in [pushed : P!Contents, review : {"none", "open", "closed"}]
    BY <2>1 DEF P!Init
  <2>6. pBudget \in [faults : 0..MaxFaults, crashes : 0..MaxCrashes, retries : 0..MaxRetries]
    BY DEF P!Init
  <2>7. pKind \in {"edit", "branch"} /\ pProvider \in P!Providers /\ pPassed \subseteq P!Contents
    BY DEF P!Init
  <2> QED
    BY <2>2, <2>3, <2>4, <2>5, <2>6, <2>7 DEF P!TypeOK, JobType, RunType, CopyType
<1>2. StageInv /\ WaitsInv
  BY DEF P!Init, StageInv, WaitsInv
<1>3. StepInv
  BY DEF P!Init, P!NoRun, StepInv, Working, Publishing, Settling
<1>4. ValidInv
  BY DEF P!Init, P!NoRun, ValidInv
<1> QED
  BY <1>1, <1>2, <1>3, <1>4 DEF PublicationInv

\* Where a run goes and how it ends.
LEMMA GoTyped ==
    ASSUME pRun \in RunType, NEW point \in P!Points, P!Go(point)
    PROVE  pRun' \in RunType /\ pRun' = [pRun EXCEPT !.at = point]
  BY DEF P!Go, RunType

\* A run comes to its end.
LEMMA EndsTyped ==
    ASSUME pRun \in RunType, NEW outcome \in P!Outcomes, P!Ends(outcome)
    PROVE  pRun' \in RunType /\ pRun' = [pRun EXCEPT !.at = "finish", !.outcome = outcome]
  BY DEF P!Ends, RunType, P!Points

\* A working copy that is checked out, or removed.
LEMMA CopyTyped ==
    ASSUME pCopy \in CopyType
    PROVE  /\ \A start \in P!Contents : P!CheckedOut(start) \in CopyType
           /\ \A with \in BOOLEAN : P!Removed(with) \in CopyType
<1>1. \A start \in P!Contents : P!CheckedOut(start) \in CopyType
  BY DEF P!CheckedOut, CopyType
<1>2. ASSUME NEW with \in BOOLEAN PROVE P!Removed(with) \in CopyType
  <2>1. (pCopy.branch /\ ~with) \in BOOLEAN
    OBVIOUS
  <2> DEFINE b == pCopy.branch /\ ~with
  <2>2. b \in BOOLEAN
    BY <2>1
  <2> HIDE DEF b
  <2>3. P!Removed(with) = [pCopy EXCEPT !.registered = FALSE, !.branch = b]
    BY DEF P!Removed, b, CopyType
  <2> QED
    BY <2>2, <2>3 DEF CopyType
<1> QED
  BY <1>1, <1>2

\* A failure takes one of those that are left.
LEMMA FaultTyped ==
    ASSUME pBudget \in [faults : 0..MaxFaults, crashes : 0..MaxCrashes, retries : 0..MaxRetries],
           P!Fault
    PROVE  pBudget' \in [faults : 0..MaxFaults, crashes : 0..MaxCrashes, retries : 0..MaxRetries]
  BY BoundsAssumption DEF P!Fault

\* A run stays well formed in every step.
LEMMA RunTyped ==
    PublicationInv /\ P!Next => pRun' \in RunType
<1> SUFFICES ASSUME PublicationInv, P!Next PROVE pRun' \in RunType
  OBVIOUS
<1>1. pRun \in RunType /\ pJob \in JobType /\ pCopy \in CopyType
  BY PublicationFacts DEF PublicationInv
<1>2. UNCHANGED pRun => pRun' \in RunType
  BY <1>1
<1>3. \A point \in P!Points : P!Go(point) => pRun' \in RunType
  BY <1>1, GoTyped
<1>4. \A outcome \in P!Outcomes : P!Ends(outcome) => pRun' \in RunType
  BY <1>1, EndsTyped
<1>5. P!NoRun \in RunType
  BY BoundsAssumption DEF P!NoRun, RunType, P!Contents, P!Points, P!Outcomes
<1> USE DEF P!Points, P!Outcomes
<1>6. CASE P!Begin
  <2> DEFINE point == IF pJob.result /\ pJob.url /\ pJob.published THEN "finish"
                      ELSE IF pJob.stage \in {"captured", "review_published"} THEN "resume"
                      ELSE IF pKind = "branch" THEN "branch" ELSE "prepare"
  <2>1. point \in P!Points
    OBVIOUS
  <2>2. pRun' = [P!NoRun EXCEPT !.at = point]
    BY <1>6 DEF P!Begin
  <2> HIDE DEF point
  <2> QED
    BY <1>5, <2>1, <2>2 DEF RunType
<1>7. CASE P!PrepareTaskWorktree \/ P!RecordWorkspace \/ P!RunWorkTurn \/ P!DiscardUnchanged \/ P!DoctorPasses
  <2>1. CASE P!PrepareTaskWorktree
    BY <1>1, <1>4, <2>1, Zenon DEF P!PrepareTaskWorktree, RunType
  <2>2. CASE P!RecordWorkspace
    <3>1. pRun.next \in P!Points
      BY <1>1 DEF RunType
    <3> QED
      BY <1>3, <1>4, <2>2, <3>1 DEF P!RecordWorkspace
  <2> QED
    BY <1>3, <1>4, <1>7, <2>1, <2>2 DEF P!RunWorkTurn, P!DiscardUnchanged, P!DoctorPasses
<1>8. CASE P!DoctorFails
  <2>1. CASE pRun.repairs < RepairLimit /\ pRun' = [pRun EXCEPT !.at = "repair", !.repairs = @ + 1]
    <3> DEFINE next == pRun.repairs + 1
    <3>1. next \in 0..RepairLimit
      BY <1>1, <2>1, BoundsAssumption DEF RunType
    <3> HIDE DEF next
    <3>2. pRun' = [pRun EXCEPT !.at = "repair", !.repairs = next]
      BY <2>1 DEF next
    <3> QED
      BY <1>1, <3>1, <3>2 DEF RunType
  <2> QED
    BY <1>4, <1>8, <2>1 DEF P!DoctorFails
<1>9. CASE P!Repair \/ P!RecordValidated \/ P!Interrupted \/ P!RuntimeFails
  BY <1>3, <1>4, <1>9 DEF P!Repair, P!RecordValidated, P!IfOwned, P!Interrupted, P!RuntimeFails
<1>10. CASE P!CaptureChange
  BY <1>1, <1>10 DEF P!CaptureChange, RunType, CopyType
<1>11. CASE P!CaptureFails \/ P!RecordCaptured \/ P!Push \/ P!CreateReview \/ P!CreateLocally \/ P!PublishFails
  BY <1>3, <1>4, <1>11 DEF P!CaptureFails, P!RecordCaptured, P!IfOwned, P!Push, P!CreateReview,
                           P!CreateLocally, P!PublishFails, P!PublicationFails
<1>12. ASSUME NEW revision \in P!Contents, NEW next \in P!Points, P!AtRevision(revision, next)
       PROVE  pRun' \in RunType
  BY <1>1, <1>4, <1>12, Zenon DEF P!AtRevision, RunType
<1>13. CASE P!PublishExistingBranch
  BY <1>1, <1>4, <1>12, <1>13 DEF P!PublishExistingBranch, CopyType
<1>14. CASE P!ResumeTaskPublish
  <2>1. pJob.revision \in P!Contents
    BY <1>1 DEF JobType
  <2> QED
    BY <1>4, <1>12, <1>14, <2>1 DEF P!ResumeTaskPublish
<1>15. CASE P!RecordReview \/ P!RecordResult
  BY <1>3, <1>4, <1>15 DEF P!RecordReview, P!IfOwned, P!RecordResult
<1>16. CASE P!RemoveWorkspace
  <2> DEFINE outcome == IF pRun.stopped = "no" THEN "completed" ELSE "cancelled"
  <2>1. outcome \in P!Outcomes /\ P!Ends(outcome)
    BY <1>16 DEF P!RemoveWorkspace
  <2> HIDE DEF outcome
  <2> QED
    BY <1>4, <2>1
<1>17. CASE P!Finish \/ P!Crash
  BY <1>5, <1>17 DEF P!Finish, P!Crash
<1>18. CASE P!Stop \/ P!Expire
  <2>1. pRun' \in {pRun, [pRun EXCEPT !.stopped = "cancelled"], [pRun EXCEPT !.stopped = "expired"]}
    BY <1>18 DEF P!Stop, P!Expire
  <2> QED
    BY <1>1, <2>1 DEF RunType
<1>19. CASE \/ P!Resume \/ P!RetryFailedTask \/ P!ConfigureRemote \/ P!CloseReview
            \/ \E discard \in BOOLEAN : P!RemoveManagedTaskWorktree(discard)
  BY <1>2, <1>19 DEF P!Resume, P!RetryFailedTask, P!ConfigureRemote, P!CloseReview,
                     P!RemoveManagedTaskWorktree
<1> QED
  BY <1>6, <1>7, <1>8, <1>9, <1>10, <1>11, <1>13, <1>14, <1>15, <1>16, <1>17, <1>18, <1>19
     DEF P!Next, P!Worker, P!Owner

\* What a run does to the working copy.
LEMMA CopyStepTyped == PublicationInv /\ P!Next => pCopy' \in CopyType
<1> SUFFICES ASSUME PublicationInv, P!Next PROVE pCopy' \in CopyType
  OBVIOUS
<1>1. pRun \in RunType /\ pJob \in JobType /\ pCopy \in CopyType
  BY PublicationFacts DEF PublicationInv
<1>2. \A start \in P!Contents : P!CheckedOut(start) \in CopyType
  BY <1>1, CopyTyped
<1>3. \A with \in BOOLEAN : P!Removed(with) \in CopyType
  BY <1>1, CopyTyped
<1>4. 0 \in P!Contents
  BY BoundsAssumption DEF P!Contents
<1>5. CASE UNCHANGED pCopy
  BY <1>1, <1>5
<1>6. CASE P!PrepareTaskWorktree
  BY <1>1, <1>2, <1>4, <1>6 DEF P!PrepareTaskWorktree
<1>7. CASE P!RunWorkTurn \/ P!Repair
  <2>1. PICK content \in P!Contents : pCopy' = [pCopy EXCEPT !.tree = content]
    BY <1>1, <1>7 DEF P!RunWorkTurn, P!Repair, CopyType
  <2> QED
    BY <1>1, <2>1 DEF CopyType
<1>8. CASE P!DiscardUnchanged
  BY <1>1, <1>3, <1>8 DEF P!DiscardUnchanged
<1>9. CASE P!CaptureChange
  BY <1>1, <1>9 DEF P!CaptureChange, CopyType
<1>10. CASE P!PublishExistingBranch
  <2>1. pCopy.head \in P!Contents
    BY <1>1 DEF CopyType
  <2> QED
    BY <1>1, <1>2, <1>10, <2>1 DEF P!PublishExistingBranch, P!AtRevision
<1>11. CASE P!ResumeTaskPublish
  <2>1. pJob.revision \in P!Contents
    BY <1>1 DEF JobType
  <2> QED
    BY <1>1, <1>2, <1>11, <2>1 DEF P!ResumeTaskPublish, P!AtRevision
<1>12. CASE P!RemoveWorkspace
  <2>1. pJob.url \in BOOLEAN
    BY <1>1 DEF JobType
  <2> QED
    BY <1>3, <1>12, <2>1 DEF P!RemoveWorkspace
<1>13. CASE P!Finish
  BY <1>1, <1>3, <1>13 DEF P!Finish
<1>14. ASSUME NEW discard \in BOOLEAN, P!RemoveManagedTaskWorktree(discard) PROVE pCopy' \in CopyType
  <2>1. (discard \/ pCopy.head = 0) \in BOOLEAN
    OBVIOUS
  <2>2. pCopy' = P!Removed(discard \/ pCopy.head = 0)
    BY <1>14 DEF P!RemoveManagedTaskWorktree
  <2> QED
    BY <1>3, <2>1, <2>2
<1> QED
  BY <1>5, <1>6, <1>7, <1>8, <1>9, <1>10, <1>11, <1>12, <1>13, <1>14
     DEF P!Next, P!Worker, P!Owner, P!Begin, P!RecordWorkspace, P!DoctorPasses, P!DoctorFails,
         P!RecordValidated, P!Interrupted, P!RuntimeFails, P!CaptureFails, P!RecordCaptured,
         P!Push, P!CreateReview, P!CreateLocally, P!PublishFails, P!RecordReview, P!RecordResult,
         P!Crash, P!Stop, P!Expire, P!Resume, P!RetryFailedTask, P!ConfigureRemote, P!CloseReview

\* What a run does to its job; one that waits for a run has an attempt left.
LEMMA JobTyped ==
    PublicationInv /\ P!Next
      => pJob' \in JobType /\ (pJob'.status = "pending" => pJob'.attempt < TaskAttempts)
<1> DEFINE Waits(job) == job.status = "pending" => job.attempt < TaskAttempts
<1> SUFFICES ASSUME PublicationInv, P!Next PROVE pJob' \in JobType /\ Waits(pJob')
  OBVIOUS
<1>1. pRun \in RunType /\ pJob \in JobType
  BY PublicationFacts DEF PublicationInv
<1>2. Waits(pJob)
  BY DEF PublicationInv, WaitsInv
<1>3. CASE UNCHANGED pJob
  BY <1>1, <1>2, <1>3
<1>4. CASE P!Begin
  <2> DEFINE next == pJob.attempt + 1
  <2>1. next \in 0..TaskAttempts
    BY <1>1, <1>2, <1>4, BoundsAssumption DEF P!Begin, JobType
  <2> HIDE DEF next
  <2>2. pJob' = [pJob EXCEPT !.status = "running", !.attempt = next]
    BY <1>4 DEF P!Begin, next
  <2> QED
    BY <1>1, <2>1, <2>2 DEF JobType, P!Status
<1>5. ASSUME NEW b \in BOOLEAN, pJob' = [pJob EXCEPT !.result = b] PROVE pJob' \in JobType /\ Waits(pJob')
  BY <1>1, <1>2, <1>5 DEF JobType
<1>6. CASE P!DoctorFails \/ P!RecordResult
  <2>1. (pJob.result \/ P!Owned) \in BOOLEAN
    BY DEF P!Owned
  <2> QED
    BY <1>5, <1>6, <2>1 DEF P!DoctorFails, P!RecordResult
<1>7. CASE P!RecordValidated
  <2>1. pJob' = pJob \/ pJob' = [pJob EXCEPT !.stage = "validated"]
    BY <1>7 DEF P!RecordValidated, P!IfOwned
  <2> QED
    BY <1>1, <1>2, <2>1 DEF JobType, P!Stages
<1>8. CASE P!RecordCaptured
  <2> DEFINE b == pJob.published /\ pKind # "branch"
  <2>1. b \in BOOLEAN
    OBVIOUS
  <2> HIDE DEF b
  <2>2. pJob' = pJob \/ pJob' = [pJob EXCEPT !.stage = "captured", !.revision = pRun.revision,
                                             !.published = b]
    BY <1>1, <1>8 DEF P!RecordCaptured, P!IfOwned, b, JobType
  <2>3. pRun.revision \in P!Contents
    BY <1>1 DEF RunType
  <2> QED
    BY <1>1, <1>2, <2>1, <2>2, <2>3 DEF JobType, P!Stages
<1>9. CASE P!RecordReview
  <2>1. pJob' \in {pJob, [pJob EXCEPT !.stage = "review_published", !.id = TRUE, !.url = TRUE,
                                       !.published = TRUE],
                   [pJob EXCEPT !.stage = "captured", !.id = TRUE, !.published = FALSE]}
    BY <1>9 DEF P!RecordReview, P!IfOwned
  <2> QED
    BY <1>1, <1>2, <2>1 DEF JobType, P!Stages
<1>10. ASSUME NEW status \in P!Status, pJob' = [pJob EXCEPT !.status = status],
              status = "pending" => pJob.attempt < TaskAttempts
       PROVE  pJob' \in JobType /\ Waits(pJob')
  BY <1>1, <1>10 DEF JobType
<1>11. CASE P!Finish
  <2>1. CASE P!Owned
    <3>1. P!Final \in P!Status /\ (P!Final = "pending" => pJob.attempt < TaskAttempts)
      BY <1>1 DEF P!Final, P!Status, P!Outcomes, RunType
    <3> DEFINE status == P!Final
    <3>2. pJob' = [pJob EXCEPT !.status = status, !.result = TRUE]
      BY <1>11, <2>1 DEF P!Finish
    <3> HIDE DEF status
    <3>3. status \in P!Status /\ (status = "pending" => pJob.attempt < TaskAttempts)
      BY <3>1 DEF status
    <3> QED
      BY <1>1, <3>2, <3>3 DEF JobType
  <2> QED
    BY <1>3, <1>11, <2>1 DEF P!Finish
<1>12. CASE P!Stop
  BY <1>10, <1>12 DEF P!Stop, P!Status
<1>13. CASE P!Crash
  <2>1. CASE P!Owned
    <3> DEFINE status == IF P!ConfirmedReview THEN "completed"
                         ELSE IF pJob.stage = "review_published" \/ pJob.id THEN "unproven"
                         ELSE IF pJob.attempt < TaskAttempts THEN "pending" ELSE "failed"
    <3>1. status \in P!Status /\ (status = "pending" => pJob.attempt < TaskAttempts)
      BY DEF P!Status
    <3>2. pJob' = [pJob EXCEPT !.status = status]
      BY <1>13, <2>1 DEF P!Crash
    <3> HIDE DEF status
    <3> QED
      BY <1>10, <3>1, <3>2
  <2> QED
    BY <1>3, <1>13, <2>1 DEF P!Crash
<1>14. CASE P!Resume
  BY <1>10, <1>14 DEF P!Resume, P!Status
<1>15. CASE P!RetryFailedTask
  <2> DEFINE stage == IF P!UnpublishedRevision THEN "captured" ELSE pJob.stage
             id == pJob.id /\ ~P!UnpublishedRevision
             published == pJob.published /\ ~P!UnpublishedRevision
  <2>1. stage \in P!Stages
    BY <1>1 DEF JobType, P!Stages
  <2>2. id \in BOOLEAN /\ published \in BOOLEAN
    OBVIOUS
  <2>3. pJob' = [pJob EXCEPT !.status = "pending", !.attempt = 0, !.stage = stage, !.id = id,
                             !.published = published]
    BY <1>1, <1>15 DEF P!RetryFailedTask, JobType
  <2>4. 0 \in 0..TaskAttempts /\ 0 < TaskAttempts
    BY BoundsAssumption
  <2> HIDE DEF stage, id, published
  <2> QED
    BY <1>1, <2>1, <2>2, <2>3, <2>4 DEF JobType, P!Status
<1> QED
  BY <1>3, <1>4, <1>6, <1>7, <1>8, <1>9, <1>11, <1>12, <1>13, <1>14, <1>15
     DEF P!Next, P!Worker, P!Owner, P!PrepareTaskWorktree, P!RecordWorkspace, P!RunWorkTurn,
         P!DiscardUnchanged, P!DoctorPasses, P!Repair, P!Interrupted, P!RuntimeFails,
         P!CaptureChange, P!CaptureFails, P!PublishExistingBranch, P!ResumeTaskPublish, P!Push,
         P!CreateReview, P!CreateLocally, P!PublishFails, P!RemoveWorkspace, P!Expire,
         P!ConfigureRemote, P!CloseReview, P!RemoveManagedTaskWorktree

\* All of the state stays well formed in every step.
LEMMA PublicationTyped == PublicationInv /\ P!Next => P!TypeOK'
<1> SUFFICES ASSUME PublicationInv, P!Next PROVE P!TypeOK'
  OBVIOUS
<1>1. /\ pRun \in RunType /\ pJob \in JobType /\ pCopy \in CopyType
      /\ pForge \in [pushed : P!Contents, review : {"none", "open", "closed"}]
      /\ pKind \in {"edit", "branch"} /\ pProvider \in P!Providers
      /\ pPassed \subseteq P!Contents /\ pWritten \in P!Contents
  BY PublicationFacts DEF PublicationInv
<1> DEFINE Budgets == [faults : 0..MaxFaults, crashes : 0..MaxCrashes, retries : 0..MaxRetries]
           Forges == [pushed : P!Contents, review : {"none", "open", "closed"}]
<1>2. pBudget \in Budgets
  BY DEF PublicationInv, P!TypeOK
<1> HIDE DEF Forges, Budgets
<1> USE DEF P!Next, P!Worker, P!Owner, P!PrepareTaskWorktree, P!RecordWorkspace, P!RunWorkTurn,
         P!DiscardUnchanged, P!DoctorPasses, P!DoctorFails, P!Repair, P!RecordValidated,
         P!Interrupted, P!RuntimeFails, P!CaptureChange, P!CaptureFails, P!RecordCaptured,
         P!PublishExistingBranch, P!ResumeTaskPublish, P!Push, P!CreateReview, P!CreateLocally,
         P!PublishFails, P!RecordReview, P!RecordResult, P!RemoveWorkspace, P!Begin, P!Finish,
         P!Stop, P!Resume, P!RetryFailedTask, P!ConfigureRemote, P!CloseReview,
         P!RemoveManagedTaskWorktree, P!Expire, P!Crash
<1>3. UNCHANGED pBudget \/ P!Fault \/ P!Crash \/ P!RetryFailedTask
  OBVIOUS
<1>4. UNCHANGED pForge \/ P!Push \/ P!CreateReview \/ P!CloseReview
  OBVIOUS
<1>5. UNCHANGED pWritten \/ P!RunWorkTurn \/ P!Repair
  OBVIOUS
<1>6. UNCHANGED pPassed \/ P!DoctorPasses
  OBVIOUS
<1>7. UNCHANGED pKind /\ pProvider' \in P!Providers
  BY <1>1 DEF P!Providers
<1> USE DEF Forges, Budgets
<1>8. pBudget' \in Budgets
  <2>1. CASE P!Crash
    <3> DEFINE next == pBudget.crashes - 1
    <3>1. next \in 0..MaxCrashes
      BY <1>2, <2>1, BoundsAssumption
    <3> HIDE DEF next
    <3>2. pBudget' = [pBudget EXCEPT !.crashes = next]
      BY <2>1 DEF next
    <3> QED
      BY ONLY <1>2, <3>1, <3>2
  <2>2. CASE P!RetryFailedTask
    <3> DEFINE next == pBudget.retries - 1
    <3>1. next \in 0..MaxRetries
      BY <1>2, <2>2, BoundsAssumption
    <3> HIDE DEF next
    <3>2. pBudget' = [pBudget EXCEPT !.retries = next]
      BY <2>2 DEF next
    <3> QED
      BY ONLY <1>2, <3>1, <3>2
  <2>3. CASE P!Fault
    BY ONLY <1>2, <2>3, FaultTyped
  <2> QED
    BY ONLY <1>2, <1>3, <2>1, <2>2, <2>3
<1>9. pForge' \in Forges
  <2>1. CASE P!Push
    <3>1. pRun.revision \in P!Contents
      BY <1>1 DEF RunType
    <3>2. pForge' = pForge \/ pForge' = [pForge EXCEPT !.pushed = pRun.revision]
      BY <2>1
    <3> QED
      BY ONLY <1>1, <3>1, <3>2
  <2>2. CASE P!CreateReview \/ P!CloseReview
    BY <1>1, <2>2
  <2> QED
    BY ONLY <1>1, <1>4, <2>1, <2>2
<1>10. pWritten' \in P!Contents
  BY <1>1, <1>5
<1>11. pPassed' \subseteq P!Contents
  <2>1. pCopy.tree \in P!Contents
    BY ONLY <1>1 DEF CopyType
  <2>2. CASE P!DoctorPasses
    BY ONLY <1>1, <2>1, <2>2 DEF P!DoctorPasses
  <2> QED
    BY ONLY <1>1, <1>6, <2>2
<1>12. pJob' \in JobType /\ pRun' \in RunType /\ pCopy' \in CopyType
  BY JobTyped, RunTyped, CopyStepTyped
<1> QED
  BY ONLY <1>1, <1>7, <1>8, <1>9, <1>10, <1>11, <1>12 DEF P!TypeOK, JobType, RunType, CopyType

\* A run that fails records nothing more.
LEMMA FailingKeepsPublication ==
    ASSUME pRun \in RunType, StageInv, StepInv, ValidInv,
           UNCHANGED <<pKind, pProvider, pJob, pForge, pPassed>>,
           NEW outcome \in P!Outcomes \ {"completed"}, P!Ends(outcome)
    PROVE  StageInv' /\ StepInv' /\ ValidInv'
<1>1. pRun'.at = "finish" /\ pRun'.outcome # "completed" /\ pRun'.revision = pRun.revision
  <2>1. outcome \in P!Outcomes /\ outcome # "completed"
    OBVIOUS
  <2>2. pRun' = [pRun EXCEPT !.at = "finish", !.outcome = outcome]
    BY <2>1, EndsTyped, Zenon
  <2> QED
    BY <2>1, <2>2 DEF RunType
<1> QED
  BY <1>1 DEF StageInv, StepInv, ValidInv, Recorded, Working, Publishing, Settling, Local

\* Every step of a run and of the owner keeps what the stages, points and checks tell.
LEMMA RunsKeepPublication == PublicationInv /\ P!Next => StageInv' /\ StepInv' /\ ValidInv'
<1> SUFFICES ASSUME PublicationInv, P!Next PROVE StageInv' /\ StepInv' /\ ValidInv'
  OBVIOUS
<1>1. /\ pRun \in RunType /\ pJob \in JobType /\ pCopy \in CopyType
      /\ pForge \in [pushed : P!Contents, review : {"none", "open", "closed"}]
      /\ pKind \in {"edit", "branch"} /\ pProvider \in P!Providers
  BY PublicationFacts DEF PublicationInv
<1>2. StageInv /\ StepInv /\ ValidInv
  BY DEF PublicationInv
<1> USE <1>1, <1>2 DEF StageInv, StepInv, ValidInv, Recorded, Working, Publishing, Settling, Local,
         JobType, RunType, CopyType, P!At, P!Go, P!Ends, P!Owned
<1> DEFINE Kept == StageInv' /\ StepInv' /\ ValidInv'
<1>F. ASSUME NEW outcome \in P!Outcomes \ {"completed"}, P!Ends(outcome),
             UNCHANGED <<pKind, pProvider, pJob, pForge, pPassed>>
      PROVE  Kept
  BY ONLY <1>1, <1>2, <1>F, FailingKeepsPublication
<1>3. CASE P!Begin
  BY <1>3 DEF P!Begin, P!NoRun
<1>4. CASE P!PrepareTaskWorktree
  <2>1. CASE P!Owned
    <3>1. UNCHANGED <<pKind, pProvider, pJob, pForge, pPassed>> /\ pRun.at = "prepare"
      BY <1>4 DEF P!PrepareTaskWorktree
    <3>2. pRun'.at = "workspace" /\ pRun'.next = "turn" /\ pRun'.revision = pRun.revision
      BY <1>4, <2>1, Zenon DEF P!PrepareTaskWorktree
    <3> QED
      BY ONLY <1>2, <3>1, <3>2 DEF StageInv, StepInv, ValidInv, Recorded, Working, Publishing,
         Settling, Local
  <2>2. CASE ~P!Owned
    BY <1>F, <1>4, <2>2 DEF P!PrepareTaskWorktree, P!Outcomes
  <2> QED
    BY ONLY <2>1, <2>2
<1>5. CASE P!RecordWorkspace
  <2>1. CASE P!Owned
    BY <1>5, <2>1 DEF P!RecordWorkspace
  <2>2. CASE ~P!Owned
    <3>1. P!Ends("permanent") /\ UNCHANGED <<pKind, pProvider, pJob, pForge, pPassed>>
      BY <1>5, <2>2 DEF P!RecordWorkspace
    <3>2. "permanent" \in P!Outcomes \ {"completed"}
      BY DEF P!Outcomes
    <3> QED
      BY ONLY <1>F, <3>1, <3>2
  <2> QED
    BY ONLY <2>1, <2>2
<1>6. CASE P!RunWorkTurn
  BY <1>6 DEF P!RunWorkTurn
<1>7. CASE P!DiscardUnchanged
  BY <1>7 DEF P!DiscardUnchanged, P!Removed
<1>8. CASE P!DoctorPasses
  BY <1>8 DEF P!DoctorPasses
<1>9. CASE P!DoctorFails
  <2>1. UNCHANGED <<pKind, pProvider, pCopy, pForge, pPassed, pWritten, pBudget>> /\ pRun.at = "doctor"
    BY <1>9 DEF P!DoctorFails
  <2>2. pJob'.stage = pJob.stage /\ pJob'.revision = pJob.revision /\ pJob'.published = pJob.published
        /\ pJob'.url = pJob.url
    BY <1>9 DEF P!DoctorFails
  <2>3. pRun'.at = "repair" \/ (pRun'.at = "finish" /\ pRun'.outcome = "permanent")
    BY <1>9 DEF P!DoctorFails
  <2>4. pRun'.revision = pRun.revision
    BY <1>9 DEF P!DoctorFails
  <2> QED
    BY ONLY <1>2, <2>1, <2>2, <2>3, <2>4 DEF StageInv, StepInv, ValidInv, Recorded, Working, Publishing,
       Settling, Local
<1>10. CASE P!Repair
  BY <1>10 DEF P!Repair
<1>11. CASE P!RecordValidated
  <2>1. CASE P!Dirty /\ P!Owned
    BY <1>11, <2>1, SMTT(30) DEF P!RecordValidated, P!IfOwned
  <2>2. CASE ~(P!Dirty /\ P!Owned)
    BY <1>F, <1>11, <2>2 DEF P!RecordValidated, P!IfOwned, P!Outcomes
  <2> QED
    BY ONLY <2>1, <2>2
<1>12. CASE P!Interrupted
  BY <1>12 DEF P!Interrupted
<1>13. CASE P!RuntimeFails
  BY <1>13, Zenon DEF P!RuntimeFails
<1>14. CASE P!CaptureChange
  BY <1>14 DEF P!CaptureChange
<1>15. CASE P!CaptureFails
  BY <1>15, Zenon DEF P!CaptureFails
<1>16. CASE P!RecordCaptured
  <2>1. CASE P!Owned
    <3>1. UNCHANGED <<pKind, pProvider, pForge, pPassed>> /\ pRun.at = "record"
      BY <1>16 DEF P!RecordCaptured
    <3>2. pRun'.at = "push" /\ pRun'.revision = pRun.revision
      BY <1>16, <2>1 DEF P!RecordCaptured, P!IfOwned
    <3>3. /\ pJob'.stage = "captured" /\ pJob'.revision = pRun.revision /\ pJob'.url = pJob.url
          /\ pJob'.published => pJob.published
      BY <1>16, <2>1, Zenon DEF P!RecordCaptured, P!IfOwned
    <3> QED
      BY ONLY <1>2, <3>1, <3>2, <3>3 DEF StageInv, StepInv, ValidInv, Recorded, Working, Publishing,
         Settling, Local
  <2>2. CASE ~P!Owned
    BY <1>F, <1>16, <2>2 DEF P!RecordCaptured, P!IfOwned, P!Outcomes
  <2> QED
    BY ONLY <2>1, <2>2
<1>17. CASE P!PublishExistingBranch
  <2>1. UNCHANGED <<pKind, pProvider, pJob, pForge, pPassed, pWritten>> /\ pRun.at = "branch"
    BY <1>17 DEF P!PublishExistingBranch
  <2>2. \/ pRun'.at = "workspace" /\ pRun'.next = "record"
        \/ pRun'.at = "finish" /\ pRun'.outcome = "permanent"
    BY <1>17, Zenon DEF P!PublishExistingBranch, P!AtRevision
  <2> QED
    BY ONLY <1>2, <2>1, <2>2 DEF StageInv, StepInv, ValidInv, Recorded, Working, Publishing,
       Settling, Local
<1>18. CASE P!ResumeTaskPublish
  <2>1. UNCHANGED <<pKind, pProvider, pJob, pForge, pPassed, pWritten>> /\ pRun.at = "resume"
    BY <1>18 DEF P!ResumeTaskPublish
  <2>2. \/ /\ pRun'.at = "workspace" /\ pRun'.revision = pJob.revision
           /\ pRun'.next = IF pJob.stage = "review_published" /\ pJob.url THEN "remove" ELSE "push"
        \/ pRun'.at = "finish" /\ pRun'.outcome = "permanent" /\ pRun'.revision = pRun.revision
    <3>1. CASE P!AtRevision(pJob.revision, IF pJob.stage = "review_published" /\ pJob.url
                                           THEN "remove" ELSE "push")
      <4>1. CASE P!Ends("permanent")
        BY <4>1
      <4>2. CASE ~P!Ends("permanent")
        BY <3>1, <4>2, Zenon DEF P!AtRevision
      <4> QED
        BY ONLY <4>1, <4>2
    <3>2. CASE P!Ends("permanent")
      BY <3>2
    <3> QED
      BY ONLY <1>18, <3>1, <3>2 DEF P!ResumeTaskPublish
  <2> QED
    BY ONLY <1>2, <2>1, <2>2 DEF StageInv, StepInv, ValidInv, Recorded, Working, Publishing,
       Settling, Local
<1>19. CASE P!Push
  <2>1. UNCHANGED <<pKind, pProvider, pJob, pCopy, pPassed, pWritten>> /\ pRun.at = "push"
    BY <1>19 DEF P!Push
  <2>2. pRun'.revision = pRun.revision /\ pForge'.pushed \in {pForge.pushed, pRun.revision}
    BY <1>19 DEF P!Push, P!PublicationFails
  <2>3. \/ pRun'.at = "finish" /\ pRun'.outcome = "transient"
        \/ pRun'.at = "create" /\ (pProvider = "remote" => pForge'.pushed = pRun.revision)
    BY <1>19 DEF P!Push, P!PublicationFails
  <2> QED
    BY ONLY <1>2, <2>1, <2>2, <2>3 DEF StageInv, StepInv, ValidInv, Recorded, Working, Publishing,
       Settling, Local
<1>20. CASE P!CreateReview
  BY <1>20 DEF P!CreateReview
<1>21. CASE P!CreateLocally
  <2>1. CASE P!RequiresRemoteReview
    <3>1. P!Ends("permanent") /\ UNCHANGED <<pKind, pProvider, pJob, pForge, pPassed>>
      BY <1>21, <2>1 DEF P!CreateLocally
    <3>2. "permanent" \in P!Outcomes \ {"completed"}
      BY DEF P!Outcomes
    <3> QED
      BY ONLY <1>F, <3>1, <3>2
  <2>2. CASE ~P!RequiresRemoteReview
    <3>1. Local /\ pRun.at = "create"
      BY <1>21, <2>2 DEF P!CreateLocally, P!RequiresRemoteReview
    <3> QED
      BY <1>21, <2>2, <3>1 DEF P!CreateLocally
  <2> QED
    BY ONLY <2>1, <2>2
<1>22. CASE P!PublishFails
  BY <1>22 DEF P!PublishFails, P!PublicationFails
<1>23. CASE P!RecordReview
  <2>1. CASE P!Owned /\ pProvider = "remote"
    <3>1. UNCHANGED <<pKind, pProvider, pForge, pPassed>> /\ pRun.at = "review"
      BY <1>23 DEF P!RecordReview
    <3>2. pRun'.at = "result" /\ pRun'.revision = pRun.revision
      BY <1>23, <2>1 DEF P!RecordReview, P!IfOwned
    <3>3. /\ pJob'.stage = "review_published" /\ pJob'.revision = pJob.revision
          /\ pJob'.url /\ pJob'.published
      BY <1>23, <2>1 DEF P!RecordReview, P!IfOwned
    <3> QED
      BY ONLY <1>2, <2>1, <3>1, <3>2, <3>3 DEF StageInv, StepInv, ValidInv, Recorded, Working, Publishing,
         Settling, Local
  <2>2. CASE P!Owned /\ pProvider # "remote"
    <3>1. UNCHANGED <<pKind, pProvider, pForge, pPassed>> /\ pRun.at = "review"
      BY <1>23 DEF P!RecordReview
    <3>2. pRun'.at = "remove" /\ pRun'.revision = pRun.revision
      BY <1>23, <2>2 DEF P!RecordReview, P!IfOwned
    <3>3. /\ pJob'.stage = "captured" /\ pJob'.revision = pJob.revision
          /\ pJob'.url = pJob.url /\ ~pJob'.published
      BY <1>23, <2>2 DEF P!RecordReview, P!IfOwned
    <3> QED
      BY ONLY <1>2, <2>2, <3>1, <3>2, <3>3 DEF StageInv, StepInv, ValidInv, Recorded, Working, Publishing,
         Settling, Local
  <2>3. CASE ~P!Owned
    <3>1. P!Ends("transient") /\ UNCHANGED <<pKind, pProvider, pJob, pForge, pPassed>>
      BY <1>23, <2>3 DEF P!RecordReview, P!IfOwned
    <3>2. "transient" \in P!Outcomes \ {"completed"}
      BY DEF P!Outcomes
    <3> QED
      BY ONLY <1>F, <3>1, <3>2
  <2> QED
    BY ONLY <2>1, <2>2, <2>3
<1>24. CASE P!RecordResult
  BY <1>24 DEF P!RecordResult
<1>25. CASE P!RemoveWorkspace
  BY <1>25 DEF P!RemoveWorkspace, P!Removed
<1>26. CASE P!Finish
  BY <1>26 DEF P!Finish, P!NoRun, P!Removed
<1>27. CASE P!Stop
  BY <1>27 DEF P!Stop
<1>28. CASE P!Expire
  BY <1>28 DEF P!Expire
<1>29. CASE P!Crash
  BY <1>29 DEF P!Crash, P!NoRun
<1>30. CASE P!Resume
  BY <1>30 DEF P!Resume
<1>31. CASE P!RetryFailedTask
  BY <1>31 DEF P!RetryFailedTask, P!UnpublishedRevision, P!ConfirmedReview
<1>32. CASE P!ConfigureRemote
  BY <1>32 DEF P!ConfigureRemote
<1>33. CASE P!CloseReview
  BY <1>33 DEF P!CloseReview
<1>34. ASSUME NEW discard \in BOOLEAN, P!RemoveManagedTaskWorktree(discard)
       PROVE  StageInv' /\ StepInv' /\ ValidInv'
  BY <1>34 DEF P!RemoveManagedTaskWorktree, P!Removed
<1> QED
  BY ONLY P!Next, <1>3, <1>4, <1>5, <1>6, <1>7, <1>8, <1>9, <1>10, <1>11, <1>12, <1>13, <1>14, <1>15, <1>16,
     <1>17, <1>18, <1>19, <1>20, <1>21, <1>22, <1>23, <1>24, <1>25, <1>26, <1>27, <1>28, <1>29, <1>30,
     <1>31, <1>32, <1>33, <1>34 DEF P!Next, P!Worker, P!Owner

\* The invariant of the publication is inductive.
LEMMA PublicationStep == PublicationInv /\ [P!Next]_(P!vars) => PublicationInv'
<1>1. PublicationInv /\ P!Next => PublicationInv'
  BY PublicationTyped, JobTyped, RunsKeepPublication DEF PublicationInv, WaitsInv
<1>2. PublicationInv /\ UNCHANGED P!vars => PublicationInv'
  BY DEF P!vars, PublicationInv, P!TypeOK, WaitsInv, StageInv, StepInv, ValidInv, Recorded, Working,
         Publishing, Settling, Local
<1> QED
  BY <1>1, <1>2

\* The invariant of publication holds in every state of the daemon.
LEMMA PublicationInvariant == MCSpec => []PublicationInv
<1>1. MCInit => PublicationInv
  BY PublicationInit DEF MCInit
<1>2. PublicationInv /\ [MCNext]_allVars => PublicationInv'
  BY PublicationStep, RunsPublication
<1> QED
  BY <1>1, <1>2, PTL DEF MCSpec

\* The steps that change what a job has recorded, what was written, and the forge.
LEMMA RecordedStays ==
    PublicationInv /\ P!Next =>
       /\ (pJob.revision # 0 /\ pJob.stage \in {"captured", "review_published"})
            => (pJob'.revision = pJob.revision /\ pWritten' = pWritten)
       /\ pForge'.pushed # pForge.pushed => pJob.revision = pForge'.pushed
<1> SUFFICES ASSUME PublicationInv, P!Next
             PROVE  /\ Recorded => pJob'.revision = pJob.revision /\ pWritten' = pWritten
                    /\ pForge'.pushed # pForge.pushed => pJob.revision = pForge'.pushed
  BY DEF Recorded
<1>1. /\ pJob \in JobType /\ pForge \in [pushed : P!Contents, review : {"none", "open", "closed"}]
  BY PublicationFacts DEF PublicationInv
<1>2. StepInv
  BY DEF PublicationInv
<1>3. pJob'.revision = pJob.revision \/ (P!RecordCaptured /\ pRun.at = "record")
  BY <1>1 DEF P!Next, P!Worker, P!Owner, P!PrepareTaskWorktree, P!RecordWorkspace, P!RunWorkTurn,
         P!DiscardUnchanged, P!DoctorPasses, P!DoctorFails, P!Repair, P!RecordValidated,
         P!Interrupted, P!RuntimeFails, P!CaptureChange, P!CaptureFails, P!RecordCaptured,
         P!PublishExistingBranch, P!ResumeTaskPublish, P!Push, P!CreateReview, P!CreateLocally,
         P!PublishFails, P!RecordReview, P!RecordResult, P!RemoveWorkspace, P!Begin, P!Finish,
         P!Stop, P!Resume, P!RetryFailedTask, P!ConfigureRemote, P!CloseReview,
         P!RemoveManagedTaskWorktree, P!Expire, P!Crash, P!IfOwned, P!Ends, P!At, JobType
<1>4. pWritten' = pWritten \/ pRun.at \in {"turn", "repair"}
  BY DEF P!Next, P!Worker, P!Owner, P!PrepareTaskWorktree, P!RecordWorkspace, P!RunWorkTurn,
         P!DiscardUnchanged, P!DoctorPasses, P!DoctorFails, P!Repair, P!RecordValidated,
         P!Interrupted, P!RuntimeFails, P!CaptureChange, P!CaptureFails, P!RecordCaptured,
         P!PublishExistingBranch, P!ResumeTaskPublish, P!Push, P!CreateReview, P!CreateLocally,
         P!PublishFails, P!RecordReview, P!RecordResult, P!RemoveWorkspace, P!Begin, P!Finish,
         P!Stop, P!Resume, P!RetryFailedTask, P!ConfigureRemote, P!CloseReview,
         P!RemoveManagedTaskWorktree, P!Expire, P!Crash, P!At
<1>5. pForge'.pushed = pForge.pushed \/ (pRun.at = "push" /\ pForge'.pushed = pRun.revision)
  BY <1>1 DEF P!Next, P!Worker, P!Owner, P!PrepareTaskWorktree, P!RecordWorkspace, P!RunWorkTurn,
         P!DiscardUnchanged, P!DoctorPasses, P!DoctorFails, P!Repair, P!RecordValidated,
         P!Interrupted, P!RuntimeFails, P!CaptureChange, P!CaptureFails, P!RecordCaptured,
         P!PublishExistingBranch, P!ResumeTaskPublish, P!Push, P!CreateReview, P!CreateLocally,
         P!PublishFails, P!RecordReview, P!RecordResult, P!RemoveWorkspace, P!Begin, P!Finish,
         P!Stop, P!Resume, P!RetryFailedTask, P!ConfigureRemote, P!CloseReview,
         P!RemoveManagedTaskWorktree, P!Expire, P!Crash, P!At
<1> QED
  BY <1>2, <1>3, <1>4, <1>5 DEF StepInv, Working, Publishing

\* A branch that has the recorded revision goes when the forge has it, or by the owner.
LEMMA CaptureStays ==
    PublicationInv /\ P!Next =>
       (pJob.revision # 0 /\ P!OnBranch(pJob.revision) /\ ~P!OnBranch(pJob.revision)'
          => (pForge.pushed = pJob.revision \/ P!GivenUp))
<1> SUFFICES ASSUME PublicationInv, P!Next, pJob.revision # 0, P!OnBranch(pJob.revision),
                    pForge.pushed # pJob.revision, ~P!GivenUp
             PROVE  P!OnBranch(pJob.revision)'
  OBVIOUS
<1>1. pRun \in RunType /\ pJob \in JobType /\ pCopy \in CopyType
  BY PublicationFacts DEF PublicationInv
<1>2. StageInv /\ StepInv /\ Recorded
  BY DEF PublicationInv, StageInv
<1>3. pJob'.revision = pJob.revision
  BY <1>2, RecordedStays DEF Recorded
<1>4. pCopy.branch /\ pCopy.head = pJob.revision
  BY DEF P!OnBranch
<1>5. pJob.stage # "review_published" /\ ~pJob.url
  BY <1>2 DEF StageInv
<1>6. ~Working
  BY <1>2 DEF StepInv
<1>7. \A start : P!CheckedOut(start).branch /\ P!CheckedOut(start).head = pCopy.head
  BY <1>1, <1>4 DEF P!CheckedOut, CopyType
<1> SUFFICES pCopy'.branch /\ pCopy'.head = pCopy.head
  BY <1>3, <1>4 DEF P!OnBranch
<1>8. CASE UNCHANGED pCopy
  BY <1>4, <1>8
<1>9. CASE P!ResumeTaskPublish
  BY <1>4, <1>7, <1>9 DEF P!ResumeTaskPublish, P!AtRevision
<1>10. CASE P!RemoveWorkspace
  <2>1. pCopy' = P!Removed(pJob.url)
    BY <1>10 DEF P!RemoveWorkspace
  <2> QED
    BY <1>1, <1>4, <1>5, <2>1 DEF P!Removed, CopyType
<1>11. CASE P!Finish
  <2>1. CASE P!Owned /\ P!Final = "completed" /\ pCopy.registered
    <3>1. pRun.at = "finish" /\ pRun.outcome = "completed"
      BY <1>1, <1>11, <2>1 DEF P!Finish, P!Final, P!At, RunType, P!Outcomes
    <3> QED
      BY <1>2, <1>5, <2>1, <3>1 DEF StepInv
  <2> QED
    BY <1>8, <1>11, <2>1 DEF P!Finish
<1> QED
  BY <1>6, <1>8, <1>9, <1>10, <1>11
     DEF Working, P!Next, P!Worker, P!Owner, P!PrepareTaskWorktree, P!RecordWorkspace, P!RunWorkTurn,
         P!DiscardUnchanged, P!DoctorPasses, P!DoctorFails, P!Repair, P!RecordValidated,
         P!Interrupted, P!RuntimeFails, P!CaptureChange, P!CaptureFails, P!RecordCaptured,
         P!PublishExistingBranch, P!Push, P!CreateReview, P!CreateLocally,
         P!PublishFails, P!RecordReview, P!RecordResult, P!Begin,
         P!Stop, P!Resume, P!RetryFailedTask, P!ConfigureRemote, P!CloseReview,
         P!GivenUp, P!Expire, P!Crash, P!At

\* A task completes at the end of a run, or when the next process finds its review.
LEMMA CompletesReviewed ==
    PublicationInv /\ P!Next =>
       ((pJob'.status = "completed" /\ pJob.status # "completed"
         /\ pJob.revision # 0 /\ P!RequiresRemoteReview) => P!ConfirmedReview /\ pJob.url)
<1> SUFFICES ASSUME PublicationInv, P!Next, pJob'.status = "completed", pJob.status # "completed",
                    pJob.revision # 0, P!RequiresRemoteReview
             PROVE  P!ConfirmedReview /\ pJob.url
  OBVIOUS
<1>1. pRun \in RunType /\ pJob \in JobType
  BY PublicationFacts DEF PublicationInv
<1>2. StageInv /\ StepInv /\ ~Local
  BY DEF PublicationInv, P!RequiresRemoteReview, Local
<1>3. P!Finish \/ P!Crash
  BY <1>1 DEF P!Next, P!Worker, P!Owner, P!PrepareTaskWorktree, P!RecordWorkspace, P!RunWorkTurn,
         P!DiscardUnchanged, P!DoctorPasses, P!DoctorFails, P!Repair, P!RecordValidated,
         P!Interrupted, P!RuntimeFails, P!CaptureChange, P!CaptureFails, P!RecordCaptured,
         P!PublishExistingBranch, P!ResumeTaskPublish, P!Push, P!CreateReview, P!CreateLocally,
         P!PublishFails, P!RecordReview, P!RecordResult, P!RemoveWorkspace, P!Begin,
         P!Stop, P!Resume, P!RetryFailedTask, P!ConfigureRemote, P!CloseReview,
         P!RemoveManagedTaskWorktree, P!Expire, P!IfOwned, P!Ends, JobType
<1>4. CASE P!Finish
  <2>1. P!Final = "completed"
    BY <1>1, <1>4 DEF P!Finish, JobType
  <2>2. pRun.at = "finish" /\ pRun.outcome = "completed"
    BY <1>1, <1>4, <2>1 DEF P!Finish, P!Final, P!At, RunType, P!Outcomes
  <2> QED
    BY <1>2, <2>2 DEF StageInv, StepInv, P!ConfirmedReview
<1>5. CASE P!Crash
  <2>1. P!ConfirmedReview
    BY <1>1, <1>5 DEF P!Crash, JobType
  <2> QED
    BY <1>2, <2>1 DEF StageInv, P!ConfirmedReview
<1> QED
  BY <1>3, <1>4, <1>5

\* run_direct_work, publish_feature_pr, resume_task_publish, review_publication_problem: only
\* what the doctor passed reaches the forge; once its revision is recorded a task publishes
\* that one and no other; a recorded revision leaves the branch only when the forge has it or
\* the owner throws it away; a task that needs a review completes with one.
THEOREM PublishedCaptures == MCSpec => CapturesArePublished
<1>1. MCSpec => [][MCNext]_allVars
  BY PTL DEF MCSpec
<1>2. PublicationInv => (part = "publication" => P!ReviewedIsValidated)
  BY DEF PublicationInv, ValidInv, P!ReviewedIsValidated
<1>3. PublicationInv /\ [MCNext]_allVars =>
        [/\ (pJob.revision # 0 /\ pJob.stage \in {"captured", "review_published"})
               => (pJob'.revision = pJob.revision /\ pWritten' = pWritten)
         /\ pForge'.pushed # pForge.pushed => pJob.revision = pForge'.pushed]_(P!vars)
  BY RunsPublication, RecordedStays
<1>4. PublicationInv /\ [MCNext]_allVars =>
        [(pJob.revision # 0 /\ P!OnBranch(pJob.revision) /\ ~P!OnBranch(pJob.revision)')
           => (pForge.pushed = pJob.revision \/ P!GivenUp)]_(P!vars)
  BY RunsPublication, CaptureStays
<1>5. PublicationInv /\ [MCNext]_allVars =>
        [(pJob'.status = "completed" /\ pJob.status # "completed"
          /\ pJob.revision # 0 /\ P!RequiresRemoteReview) => P!ConfirmedReview /\ pJob.url]_(P!vars)
  BY RunsPublication, CompletesReviewed
<1>6. MCSpec => [](part = "publication" => P!ReviewedIsValidated)
  BY <1>2, PublicationInvariant, PTL
<1>7. MCSpec => P!PublishesWhatWasRecorded
  BY <1>1, <1>3, PublicationInvariant, PTL DEF P!PublishesWhatWasRecorded
<1>8. MCSpec => P!RecordedCaptureSurvives
  BY <1>1, <1>4, PublicationInvariant, PTL DEF P!RecordedCaptureSurvives
<1>9. MCSpec => P!CompletedIsReviewed
  BY <1>1, <1>5, PublicationInvariant, PTL DEF P!CompletedIsReviewed
<1> QED
  BY <1>6, <1>7, <1>8, <1>9 DEF CapturesArePublished

-----------------------------------------------------------------------------
(* Events of extensions.                                                    *)

\* A set of numbers has a least one.
LEMMA LeastNumber ==
    ASSUME NEW S \in SUBSET Nat, S # {}
    PROVE  \E n \in S : \A m \in S : n <= m
<1> DEFINE less == OpToRel(<, Nat)
<1>1. IsWellFoundedOn(less, Nat)
  BY NatLessThanWellFounded
<1>2. \A x, y \in Nat : x < y => <<x, y>> \in less
  BY DEF OpToRel
<1> HIDE DEF less
<1>3. PICK x \in S : \A y \in S : ~ (<<y, x>> \in less)
  BY <1>1, WFMin
<1>4. ASSUME NEW m \in S PROVE x <= m
  <2>1. x \in Nat /\ m \in Nat /\ ~(m < x)
    BY <1>2, <1>3
  <2> QED
    BY <2>1
<1> QED
  BY <1>4

\* Their records.
TaskType == [status : {"none", "pending", "running"} \cup X!Terminal, key : Nat, parent : Nat]
LineType == [task : X!Tasks, event : X!Delivered, readable : BOOLEAN]
OwedType == [task : X!Tasks, event : X!Delivered]
DrainType == [at : {"idle", "check", "hook", "acknowledge"}, todo : SUBSET Nat]

EventTypes ==
    /\ xJob \in [X!Tasks -> TaskType] /\ xLog \in Seq(LineType)
    /\ xOwed \in Seq(OwedType) /\ Len(xOwed) <= 1 /\ xTorn \in BOOLEAN
    /\ xReceipts \subseteq DOMAIN xLog /\ xApplied \in Seq(Nat)
    /\ xDrain \in [X!Processes -> DrainType]

\* What a drain has to do: an event that can be read and is older than one of these was
\* given to the extension, or is one of these.
Given(e) == \E i \in DOMAIN xApplied : xApplied[i] = e
DrainInv ==
    /\ \A i \in DOMAIN xApplied : xApplied[i] \in DOMAIN xLog
    /\ \A e \in xReceipts : Given(e)
    /\ \A p \in X!Processes : xDrain[p].at # "idle" =>
         /\ xDrain[p].todo # {} /\ xDrain[p].todo \subseteq DOMAIN xLog
         /\ \A f \in xDrain[p].todo : \A e \in X!Readable :
               e < f => Given(e) \/ e \in xDrain[p].todo
         /\ xDrain[p].at = "acknowledge" => Given(X!Event(p))

\* A task fails once, is rerun with its failure as the key, and no key is used twice.
FailureOf(e, t) == xLog[e].event = "failed" /\ xLog[e].task = t
RerunInv ==
    /\ \A e \in DOMAIN xLog : xLog[e].event = "failed" => xJob[xLog[e].task].status = "failed"
    /\ \A e, f \in DOMAIN xLog : \A t \in X!Tasks : FailureOf(e, t) /\ FailureOf(f, t) => e = f
    /\ xOwed # <<>> /\ xOwed[1].event = "failed" =>
         /\ xJob[xOwed[1].task].status = "failed"
         /\ \A e \in DOMAIN xLog : ~FailureOf(e, xOwed[1].task)
    /\ \A t \in X!Tasks : xJob[t].parent # 0 =>
         /\ xJob[t].status # "none" /\ xJob[t].parent \in X!Tasks
         /\ xJob[t].key \in DOMAIN xLog /\ FailureOf(xJob[t].key, xJob[t].parent)
    /\ \A t, u \in X!Tasks : xJob[t].status # "none" /\ xJob[u].status # "none"
         /\ xJob[t].key = xJob[u].key => t = u

EventsInv == EventTypes /\ DrainInv /\ RerunInv /\ X!GivenInOrder

\* The daemon as a whole runs the extension.
LEMMA RunsExtension ==
    /\ part = "extension" /\ [MCNext]_allVars => [X!Next]_(X!vars)
    /\ [MCNext]_allVars => part' = part
  BY DEF MCNext, InInbox, InTaskRunner, InPublication, InExtensionTasks, InCommands,
         InOperations, InRequests, InRuntimeRuns, InNotifications, allVars, extension, X!vars

\* At first there is no task and no event.
LEMMA ExtensionInit == X!Init => EventsInv
<1> SUFFICES ASSUME X!Init PROVE EventsInv
  OBVIOUS
<1> USE DEF X!Init
<1>1. X!NoTask \in TaskType /\ X!NoTask.parent = 0 /\ X!NoTask.status = "none"
  BY DEF X!NoTask, TaskType
<1>2. X!Idle \in DrainType /\ X!Idle.at = "idle"
  BY DEF X!Idle, DrainType
<1>3. EventTypes
  <2>1. xJob \in [X!Tasks -> TaskType] /\ xDrain \in [X!Processes -> DrainType]
    BY <1>1, <1>2
  <2>2. xLog \in Seq(LineType) /\ xOwed \in Seq(OwedType) /\ Len(xOwed) <= 1 /\ xApplied \in Seq(Nat)
    OBVIOUS
  <2> QED
    BY <2>1, <2>2 DEF EventTypes
<1>4. DrainInv
  BY <1>2 DEF DrainInv
<1>5. RerunInv
  BY <1>1 DEF RerunInv
<1>6. X!GivenInOrder
  BY DEF X!GivenInOrder
<1> QED
  BY <1>3, <1>4, <1>5, <1>6 DEF EventsInv

\* The event in hand is the oldest one that a drain has left.
LEMMA EventInHand ==
    ASSUME EventTypes, NEW p \in X!Processes, xDrain[p].todo # {}
    PROVE  /\ X!Event(p) \in xDrain[p].todo /\ xDrain[p].todo \in SUBSET Nat
           /\ \A f \in xDrain[p].todo : X!Event(p) <= f
<1>1. xDrain[p].todo \in SUBSET Nat
  BY DEF EventTypes, DrainType
<1>2. \E e \in xDrain[p].todo : \A f \in xDrain[p].todo : e <= f
  BY <1>1, LeastNumber
<1> QED
  BY <1>1, <1>2 DEF X!Event

\* The lines of the log.
LEMMA LinesAreTyped ==
    ASSUME EventTypes
    PROVE  \A e \in DOMAIN xLog : xLog[e] \in LineType /\ xLog[e].task \in X!Tasks
<1>1. xLog \in Seq(LineType)
  BY DEF EventTypes
<1>2. \A e \in DOMAIN xLog : xLog[e] \in LineType
  BY <1>1
<1> QED
  BY <1>2 DEF LineType

\* An event that the queue owes the log.
LEMMA OwedIsOne ==
    ASSUME NEW t \in X!Tasks, NEW event \in X!Delivered, X!Record(t, event)
    PROVE  /\ xOwed' \in Seq(OwedType) /\ Len(xOwed') <= 1 /\ xOwed' # <<>>
           /\ xOwed'[1].task = t /\ xOwed'[1].event = event
<1>1. [task |-> t, event |-> event] \in OwedType
  BY DEF OwedType
<1> QED
  BY <1>1 DEF X!Record

\* A task is requested: one that has the key is there, or it is the first with its key.
LEMMA EnqueueKeepsReruns ==
    ASSUME EventTypes, RerunInv, X!Transaction, UNCHANGED xLog, NEW key \in Nat, NEW parent \in Nat,
           X!Enqueue(key, parent),
           parent = 0 \/ (parent \in X!Tasks /\ key \in DOMAIN xLog /\ FailureOf(key, parent))
    PROVE  /\ xJob' \in [X!Tasks -> TaskType] /\ xOwed' \in Seq(OwedType) /\ Len(xOwed') <= 1
           /\ RerunInv'
<1>1. xJob \in [X!Tasks -> TaskType] /\ xOwed = <<>>
  BY DEF EventTypes, X!Transaction
<1>2. CASE UNCHANGED <<xJob, xOwed>>
  BY <1>1, <1>2 DEF RerunInv, FailureOf
<1>3. CASE ~UNCHANGED <<xJob, xOwed>>
  <2> DEFINE new == [status |-> "pending", key |-> key, parent |-> parent]
  <2>1. new \in TaskType /\ new.status = "pending" /\ new.key = key /\ new.parent = parent
    BY DEF TaskType
  <2> HIDE DEF new
  <2>2. ~ \E t \in X!Tasks : xJob[t].status # "none" /\ xJob[t].key = key
    BY <1>3 DEF X!Enqueue, X!tasks
  <2>3. PICK t \in X!Tasks : /\ xJob[t].status = "none" /\ xJob' = [xJob EXCEPT ![t] = new]
                             /\ X!Record(t, "queued")
    BY <1>3, <2>2 DEF X!Enqueue, X!tasks, new
  <2>4. xOwed' \in Seq(OwedType) /\ Len(xOwed') <= 1 /\ xOwed'[1].event = "queued"
    BY <2>3, OwedIsOne DEF X!Delivered
  <2>5. /\ xJob' \in [X!Tasks -> TaskType] /\ xJob'[t] = new
        /\ \A u \in X!Tasks \ {t} : xJob'[u] = xJob[u]
    BY <1>1, <2>1, <2>3
  <2>6. RerunInv'
    <3>1. \A e \in DOMAIN xLog : xLog[e].event = "failed" => xJob'[xLog[e].task].status = "failed"
      <4>1. \A e \in DOMAIN xLog : xLog[e].task \in X!Tasks
        BY LinesAreTyped
      <4> QED
        BY <2>3, <2>5, <4>1 DEF RerunInv
    <3>2. \A u \in X!Tasks : xJob'[u].parent # 0 =>
            /\ xJob'[u].status # "none" /\ xJob'[u].parent \in X!Tasks
            /\ xJob'[u].key \in DOMAIN xLog /\ FailureOf(xJob'[u].key, xJob'[u].parent)
      BY <2>1, <2>5 DEF RerunInv
    <3>3. \A u, v \in X!Tasks : xJob'[u].status # "none" /\ xJob'[v].status # "none"
            /\ xJob'[u].key = xJob'[v].key => u = v
      BY <2>1, <2>2, <2>5 DEF RerunInv
    <3> QED
      BY <2>4, <3>1, <3>2, <3>3 DEF RerunInv, FailureOf
  <2> QED
    BY <2>4, <2>5, <2>6
<1> QED
  BY <1>2, <1>3

\* A task goes on, and an event says so; it may fail only now.
LEMMA BecomeKeepsReruns ==
    ASSUME EventTypes, RerunInv, UNCHANGED xLog, NEW t \in X!Tasks, NEW event \in X!Delivered,
           NEW to \in {"running"} \cup X!Terminal, X!Become(t, {"pending", "running"}, to),
           X!Record(t, event), event = "failed" => to = "failed"
    PROVE  /\ xJob' \in [X!Tasks -> TaskType] /\ xOwed' \in Seq(OwedType) /\ Len(xOwed') <= 1
           /\ RerunInv'
<1>1. xJob \in [X!Tasks -> TaskType] /\ xJob[t] \in TaskType
  BY DEF EventTypes
<1>2. xJob[t].status \in {"pending", "running"} /\ xJob' = [xJob EXCEPT ![t].status = to]
  BY DEF X!Become
<1> DEFINE new == [xJob[t] EXCEPT !.status = to]
<1>3. /\ new \in TaskType /\ new.status = to /\ new.key = xJob[t].key
      /\ new.parent = xJob[t].parent
  BY <1>1 DEF TaskType
<1> HIDE DEF new
<1>4. /\ xJob' \in [X!Tasks -> TaskType] /\ xJob'[t] = new
      /\ \A u \in X!Tasks \ {t} : xJob'[u] = xJob[u]
  BY <1>1, <1>2, <1>3 DEF new
<1>5. /\ xOwed' \in Seq(OwedType) /\ Len(xOwed') <= 1 /\ xOwed'[1].event = event
      /\ xOwed'[1].task = t
  BY OwedIsOne
<1>6. \A e \in DOMAIN xLog : xLog[e].task \in X!Tasks
  BY LinesAreTyped
<1>7. \A e \in DOMAIN xLog : xLog[e].event = "failed" => xLog[e].task # t
  BY <1>2 DEF RerunInv
<1>8. RerunInv'
  <2>1. \A e \in DOMAIN xLog : xLog[e].event = "failed" => xJob'[xLog[e].task].status = "failed"
    BY <1>4, <1>6, <1>7 DEF RerunInv
  <2>2. \A u \in X!Tasks : /\ xJob'[u].parent = xJob[u].parent /\ xJob'[u].key = xJob[u].key
                           /\ (xJob'[u].status # "none") <=> (xJob[u].status # "none")
    BY <1>2, <1>3, <1>4 DEF X!Terminal
  <2>3. event = "failed" => /\ xJob'[t].status = "failed"
                            /\ \A e \in DOMAIN xLog : ~FailureOf(e, t)
    BY <1>3, <1>4, <1>7 DEF FailureOf
  <2> QED
    BY <1>5, <2>1, <2>2, <2>3 DEF RerunInv, FailureOf
<1> QED
  BY <1>4, <1>5, <1>8

\* Steps of the queue leave the log and what its drains have to do.
LEMMA QueueKeepsEvents ==
    ASSUME EventsInv, UNCHANGED <<xLog, xTorn, xReceipts, xApplied, xDrain>>,
           xJob' \in [X!Tasks -> TaskType], xOwed' \in Seq(OwedType), Len(xOwed') <= 1, RerunInv'
    PROVE  EventsInv'
<1>1. EventTypes'
  BY DEF EventsInv, EventTypes
<1>2. DrainInv' /\ X!GivenInOrder'
  BY DEF EventsInv, DrainInv, X!GivenInOrder, X!Readable, X!Event, Given
<1> QED
  BY <1>1, <1>2 DEF EventsInv

\* A step of the queue leaves what was given in order, and every failure is new.
LEMMA TasksKeepEvents ==
    ASSUME EventsInv, X!Command \/ X!Start \/ X!Finish \/ X!Cancel
    PROVE  EventsInv'
<1>1. EventTypes /\ RerunInv
  BY DEF EventsInv
<1>2. CASE X!Command
  BY <1>1, <1>2, EnqueueKeepsReruns, QueueKeepsEvents DEF X!Command, X!records
<1>3. ASSUME NEW t \in X!Tasks, NEW event \in X!Delivered, NEW to \in {"running"} \cup X!Terminal,
             X!Become(t, {"pending", "running"}, to), X!Record(t, event),
             event = "failed" => to = "failed", UNCHANGED <<xLog, xTorn, xReceipts, xApplied, xDrain>>
      PROVE  EventsInv'
  BY <1>1, <1>3, BecomeKeepsReruns, QueueKeepsEvents
<1>4. CASE X!Start
  <2>1. PICK t \in X!Tasks : X!Become(t, {"pending"}, "running") /\ X!Record(t, "started")
    BY <1>4 DEF X!Start
  <2>2. X!Become(t, {"pending", "running"}, "running")
    BY <2>1 DEF X!Become
  <2> QED
    BY <1>3, <1>4, <2>1, <2>2 DEF X!Start, X!records, X!Delivered
<1>5. CASE X!Finish
  <2>1. PICK t \in X!Tasks, status \in {"completed", "failed"} :
          X!Become(t, {"running"}, status) /\ X!Record(t, status)
    BY <1>5 DEF X!Finish
  <2>2. X!Become(t, {"pending", "running"}, status)
    BY <2>1 DEF X!Become
  <2> QED
    BY <1>3, <1>5, <2>1, <2>2 DEF X!Finish, X!records, X!Delivered, X!Terminal
<1>6. CASE X!Cancel
  <2>1. PICK t \in X!Tasks :
          X!Become(t, {"pending", "running"}, "cancelled") /\ X!Record(t, "cancelled")
    BY <1>6 DEF X!Cancel
  <2> QED
    BY <1>3, <1>6, <2>1 DEF X!Cancel, X!records, X!Delivered, X!Terminal
<1> QED
  BY <1>2, <1>4, <1>5, <1>6

\* A new line is the last one: no drain and nothing that was given is past it.
LEMMA AppendKeepsEvents ==
    ASSUME EventsInv, X!AppendEvent PROVE EventsInv'
<1>1. EventTypes /\ DrainInv /\ RerunInv /\ X!GivenInOrder
  BY DEF EventsInv
<1>2. xLog \in Seq(LineType) /\ xOwed \in Seq(OwedType) /\ xOwed # <<>> /\ Len(xOwed) <= 1
  BY <1>1 DEF EventTypes, X!AppendEvent
<1> DEFINE line == [task |-> Head(xOwed).task, event |-> Head(xOwed).event, readable |-> ~xTorn]
<1>3. Head(xOwed) \in OwedType /\ Head(xOwed) = xOwed[1]
  BY <1>2
<1>4. line \in LineType /\ line.task = xOwed[1].task /\ line.event = xOwed[1].event
  <2>1. (~xTorn) \in BOOLEAN
    OBVIOUS
  <2> QED
    BY <1>3, <2>1 DEF LineType, OwedType
<1>5. /\ xLog' = Append(xLog, line) /\ xOwed' = Tail(xOwed)
      /\ xTorn' = FALSE /\ UNCHANGED <<xJob, xReceipts, xDrain, xApplied>>
  BY DEF X!AppendEvent
<1> HIDE DEF line
<1> DEFINE new == Len(xLog) + 1
<1>6. xLog' \in Seq(LineType) /\ DOMAIN xLog = 1..Len(xLog) /\ DOMAIN xLog' = DOMAIN xLog \cup {new}
  BY <1>2, <1>4, <1>5
<1>7. xLog'[new] = line /\ \A e \in DOMAIN xLog : xLog'[e] = xLog[e]
  BY <1>2, <1>4, <1>5
<1>8. new \in Nat /\ \A e \in DOMAIN xLog : e < new
  BY <1>2
<1> HIDE DEF new
<1>9. xOwed' = <<>>
  BY <1>2, <1>5
<1>10. EventTypes'
  <2>1. xOwed' \in Seq(OwedType) /\ Len(xOwed') <= 1
    BY <1>9
  <2>2. xTorn' \in BOOLEAN /\ xReceipts' \subseteq DOMAIN xLog'
    <3>1. xReceipts \subseteq DOMAIN xLog
      BY <1>1 DEF EventTypes
    <3>2. DOMAIN xLog \subseteq DOMAIN xLog'
      BY <1>6
    <3> QED
      BY ONLY <1>5, <3>1, <3>2
  <2>3. xJob' \in [X!Tasks -> TaskType] /\ xApplied' \in Seq(Nat) /\ xDrain' \in [X!Processes -> DrainType]
    BY <1>1, <1>5 DEF EventTypes
  <2> QED
    BY <1>6, <2>1, <2>2, <2>3 DEF EventTypes
<1>11. X!Readable' \subseteq X!Readable \cup {new}
  BY <1>5, <1>6, <1>7 DEF X!Readable
<1>12. DrainInv'
  <2>1. ASSUME NEW p \in X!Processes, xDrain[p].at # "idle"
        PROVE  /\ xDrain[p].todo # {} /\ xDrain[p].todo \subseteq DOMAIN xLog'
               /\ \A f \in xDrain[p].todo : \A e \in X!Readable' :
                     e < f => Given(e) \/ e \in xDrain[p].todo
               /\ xDrain[p].at = "acknowledge" => Given(X!Event(p))
    <3>1. /\ xDrain[p].todo # {} /\ xDrain[p].todo \subseteq DOMAIN xLog
          /\ \A f \in xDrain[p].todo : \A e \in X!Readable :
                     e < f => Given(e) \/ e \in xDrain[p].todo
          /\ xDrain[p].at = "acknowledge" => Given(X!Event(p))
      BY <1>1, <2>1 DEF DrainInv
    <3>2. \A f \in xDrain[p].todo : f \in Nat /\ f < new /\ ~(new < f)
      BY <1>6, <1>8, <3>1
    <3> QED
      BY <1>6, <1>11, <3>1, <3>2
  <2>2. \A i \in DOMAIN xApplied : xApplied[i] \in DOMAIN xLog'
    BY <1>1, <1>6 DEF DrainInv
  <2>3. \A e \in xReceipts : Given(e)
    BY <1>1 DEF DrainInv
  <2>4. UNCHANGED <<xApplied, xReceipts, xDrain>>
    BY <1>5
  <2> QED
    BY <2>1, <2>2, <2>3, <2>4 DEF DrainInv, Given, X!Event
<1>13. X!GivenInOrder'
  <2>1. \A i \in DOMAIN xApplied : xApplied[i] \in Nat /\ xApplied[i] < new /\ ~(new < xApplied[i])
    BY <1>1, <1>6, <1>8 DEF DrainInv
  <2> QED
    BY <1>1, <1>5, <1>11, <2>1 DEF X!GivenInOrder
<1>14. RerunInv'
  <2>1. line.event = "failed" => /\ xJob[line.task].status = "failed"
                                 /\ \A e \in DOMAIN xLog : ~FailureOf(e, line.task)
    BY <1>1, <1>2, <1>4 DEF RerunInv
  <2>2. \A e \in DOMAIN xLog' :
          (e = new /\ xLog'[e] = line) \/ (e \in DOMAIN xLog /\ xLog'[e] = xLog[e])
    BY <1>6, <1>7
  <2>3. \A e \in DOMAIN xLog' : xLog'[e].event = "failed" => xJob[xLog'[e].task].status = "failed"
    BY <1>1, <2>1, <2>2 DEF RerunInv
  <2>4. \A e, f \in DOMAIN xLog' : \A t \in X!Tasks : FailureOf(e, t)' /\ FailureOf(f, t)' => e = f
    BY ONLY <1>1, <2>1, <2>2 DEF RerunInv, FailureOf
  <2>5. \A e \in DOMAIN xLog : e \in DOMAIN xLog' /\ \A t \in X!Tasks : FailureOf(e, t) => FailureOf(e, t)'
    BY ONLY <1>6, <1>7 DEF FailureOf
  <2>6. \A t \in X!Tasks : xJob[t].parent # 0 =>
         /\ xJob[t].status # "none" /\ xJob[t].parent \in X!Tasks
         /\ xJob[t].key \in DOMAIN xLog
         /\ FailureOf(xJob[t].key, xJob[t].parent)
    BY <1>1 DEF RerunInv
  <2>7. \A t \in X!Tasks : xJob'[t].parent # 0 =>
         /\ xJob'[t].status # "none" /\ xJob'[t].parent \in X!Tasks
         /\ xJob'[t].key \in DOMAIN xLog' /\ FailureOf(xJob[t].key, xJob[t].parent)'
    BY ONLY <1>5, <1>6, <1>7, <2>6 DEF FailureOf
  <2>8. \A t, u \in X!Tasks : xJob[t].status # "none" /\ xJob[u].status # "none"
         /\ xJob[t].key = xJob[u].key => t = u
    BY <1>1 DEF RerunInv
  <2> QED
    BY ONLY <1>5, <1>9, <2>3, <2>4, <2>7, <2>8 DEF RerunInv, FailureOf
<1> QED
  BY <1>10, <1>12, <1>13, <1>14 DEF EventsInv

\* An event is left out, or a crash loses it: what was on its way is not missed.
LEMMA LossKeepsEvents ==
    ASSUME EventsInv, X!AppendFails \/ X!Crash PROVE EventsInv'
<1>1. EventTypes /\ DrainInv /\ RerunInv /\ X!GivenInOrder
  BY DEF EventsInv
<1>2. xOwed' = <<>>
  <2>1. xOwed \in Seq(OwedType) /\ Len(xOwed) <= 1
    BY <1>1 DEF EventTypes
  <2>2. xOwed # <<>> => Tail(xOwed) = <<>>
    BY <2>1
  <2> QED
    BY <2>2 DEF X!AppendFails, X!Crash
<1>3. UNCHANGED <<xLog, xReceipts, xApplied>> /\ xTorn' \in BOOLEAN
  <2>1. xTorn \in BOOLEAN
    BY <1>1 DEF EventTypes
  <2> QED
    BY <2>1 DEF X!AppendFails, X!Crash, X!records
<1>4. xDrain' \in [X!Processes -> DrainType]
      /\ \A p \in X!Processes : xDrain'[p] = xDrain[p] \/ xDrain'[p] = X!Idle
  <2>1. xDrain \in [X!Processes -> DrainType] /\ X!Idle \in DrainType
    BY <1>1 DEF EventTypes, X!Idle, DrainType
  <2> QED
    BY <2>1 DEF X!AppendFails, X!Crash
<1>5. xJob' \in [X!Tasks -> TaskType]
      /\ \A t \in X!Tasks : /\ xJob'[t].key = xJob[t].key /\ xJob'[t].parent = xJob[t].parent
                           /\ \/ xJob'[t].status = xJob[t].status
                              \/ xJob[t].status = "running" /\ xJob'[t].status = "pending"
  <2>1. xJob \in [X!Tasks -> TaskType]
    BY <1>1 DEF EventTypes
  <2>2. CASE X!AppendFails
    BY <2>1, <2>2 DEF X!AppendFails
  <2>3. CASE X!Crash
    <3> DEFINE again(t) == [xJob[t] EXCEPT !.status = "pending"]
    <3>1. \A t \in X!Tasks : /\ again(t) \in TaskType /\ again(t).key = xJob[t].key
                            /\ again(t).parent = xJob[t].parent /\ again(t).status = "pending"
      BY <2>1 DEF TaskType
    <3>2. xJob' = [t \in X!Tasks |-> IF xJob[t].status = "running" THEN again(t) ELSE xJob[t]]
      BY <2>3 DEF X!Crash
    <3> HIDE DEF again
    <3> QED
      BY <2>1, <3>1, <3>2
  <2> QED
    BY <2>2, <2>3
<1>6. EventTypes'
  BY <1>1, <1>2, <1>3, <1>4, <1>5 DEF EventTypes
<1>7. DrainInv'
  <2>1. ASSUME NEW p \in X!Processes, xDrain'[p].at # "idle" PROVE xDrain'[p] = xDrain[p]
    BY <1>4, <2>1 DEF X!Idle
  <2> QED
    BY <1>1, <1>3, <2>1 DEF DrainInv, Given, X!Readable, X!Event
<1>8. X!GivenInOrder'
  BY <1>1, <1>3 DEF X!GivenInOrder, X!Readable
<1>9. RerunInv'
  <2>1. \A e \in DOMAIN xLog : xLog[e].task \in X!Tasks
    BY <1>1, LinesAreTyped
  <2>2. \A e \in DOMAIN xLog : xLog[e].event = "failed" => xJob'[xLog[e].task].status = "failed"
    BY <1>1, <1>5, <2>1 DEF RerunInv
  <2>3. \A t \in X!Tasks : (xJob[t].status # "none") <=> (xJob'[t].status # "none")
    BY <1>5
  <2>4. \A t \in X!Tasks : xJob[t].parent # 0 =>
         /\ xJob[t].status # "none" /\ xJob[t].parent \in X!Tasks
         /\ xJob[t].key \in DOMAIN xLog /\ FailureOf(xJob[t].key, xJob[t].parent)
    BY <1>1 DEF RerunInv
  <2>5. \A t \in X!Tasks : xJob'[t].key = xJob[t].key /\ xJob'[t].parent = xJob[t].parent
    BY ONLY <1>5
  <2>6. \A t \in X!Tasks : xJob'[t].parent # 0 =>
         /\ xJob'[t].status # "none" /\ xJob'[t].parent \in X!Tasks
         /\ xJob'[t].key \in DOMAIN xLog /\ FailureOf(xJob'[t].key, xJob'[t].parent)
    BY ONLY <2>3, <2>4, <2>5
  <2>7. \A t, u \in X!Tasks : xJob[t].status # "none" /\ xJob[u].status # "none"
         /\ xJob[t].key = xJob[u].key => t = u
    BY <1>1 DEF RerunInv
  <2>8. \A t, u \in X!Tasks : xJob'[t].status # "none" /\ xJob'[u].status # "none"
         /\ xJob'[t].key = xJob'[u].key => t = u
    BY ONLY <2>3, <2>5, <2>7
  <2> QED
    BY <1>1, <1>2, <1>3, <2>2, <2>6, <2>8 DEF RerunInv, FailureOf
<1> QED
  BY <1>6, <1>7, <1>8, <1>9 DEF EventsInv

\* What a drain that starts or goes on with the rest has to do.
Owes(todo) == /\ todo \in SUBSET Nat /\ todo # {} /\ todo \subseteq DOMAIN xLog
              /\ \A f \in todo : \A e \in X!Readable : e < f => Given(e) \/ e \in todo

\* One drain changes, and no event is given.
LEMMA DrainKeepsEvents ==
    ASSUME EventsInv, NEW p \in X!Processes, NEW next \in DrainType,
           UNCHANGED <<xJob, xOwed, xLog, xTorn, xApplied>>, xDrain' = [xDrain EXCEPT ![p] = next],
           xReceipts' \subseteq DOMAIN xLog, \A e \in xReceipts' : Given(e),
           next.at # "idle" => /\ Owes(next.todo)
                               /\ next.at # "acknowledge"
    PROVE  EventsInv'
<1>1. EventTypes /\ DrainInv /\ RerunInv /\ X!GivenInOrder
  BY DEF EventsInv
<1>2. xDrain \in [X!Processes -> DrainType]
  BY <1>1 DEF EventTypes
<1>3. /\ xDrain' \in [X!Processes -> DrainType] /\ xDrain'[p] = next
      /\ \A q \in X!Processes \ {p} : xDrain'[q] = xDrain[q]
  BY <1>2
<1>4. EventTypes'
  BY <1>1, <1>3 DEF EventTypes
<1>5. DrainInv'
  BY <1>1, <1>3 DEF DrainInv, Given, X!Readable, X!Event, Owes
<1>6. RerunInv'
  BY <1>1 DEF RerunInv, FailureOf
<1>7. X!GivenInOrder'
  BY <1>1 DEF X!GivenInOrder, X!Readable
<1> QED
  BY <1>4, <1>5, <1>6, <1>7 DEF EventsInv

\* Every step of a drain but that of the hook.
LEMMA DrainsKeepEvents ==
    ASSUME EventsInv, NEW p \in X!Processes,
           X!DrainStarts(p) \/ X!Stale(p) \/ X!CallHook(p) \/ X!HookFails(p) \/ X!Acknowledge(p)
    PROVE  EventsInv'
<1>1. EventTypes /\ DrainInv
  BY DEF EventsInv
<1>2. xDrain \in [X!Processes -> DrainType] /\ xDrain[p] \in DrainType /\ xLog \in Seq(LineType)
  BY <1>1 DEF EventTypes
<1>3. DOMAIN xLog \subseteq Nat
  BY <1>2
<1>4. xReceipts \subseteq DOMAIN xLog /\ \A e \in xReceipts : Given(e)
  BY <1>1 DEF EventTypes, DrainInv
<1>5. X!Idle \in DrainType /\ X!Idle.at = "idle"
  BY DEF X!Idle, DrainType
<1>6. xDrain[p].at # "idle" => Owes(xDrain[p].todo)
  BY <1>1, <1>2 DEF DrainInv, Owes, DrainType
<1>7. CASE X!DrainStarts(p)
  <2> DEFINE next == [at |-> "check", todo |-> X!Readable \ xReceipts]
  <2>1. X!Readable \ xReceipts # {} /\ xDrain' = [xDrain EXCEPT ![p] = next]
    BY <1>7 DEF X!DrainStarts
  <2>2. X!Readable \subseteq DOMAIN xLog
    BY DEF X!Readable
  <2>3. next \in DrainType /\ next.at = "check" /\ next.todo = X!Readable \ xReceipts
    BY <1>3, <2>2 DEF DrainType
  <2>4. Owes(X!Readable \ xReceipts)
    BY <1>3, <1>4, <2>1, <2>2 DEF Owes
  <2>5. UNCHANGED <<xJob, xOwed, xLog, xTorn, xApplied, xReceipts>>
    BY <1>7 DEF X!DrainStarts, X!tasks, X!records
  <2> HIDE DEF next
  <2> QED
    BY <1>4, <2>1, <2>3, <2>4, <2>5, DrainKeepsEvents
<1>8. CASE X!Stale(p)
  BY <1>4, <1>5, <1>8, DrainKeepsEvents DEF X!Stale, X!tasks, X!records
<1>9. CASE X!CallHook(p)
  <2> DEFINE next == [xDrain[p] EXCEPT !.at = "hook"]
  <2>1. next \in DrainType /\ next.at = "hook" /\ next.todo = xDrain[p].todo
    BY <1>2 DEF DrainType
  <2>2. xDrain' = [xDrain EXCEPT ![p] = next] /\ xDrain[p].at = "check"
    BY <1>2, <1>9 DEF X!CallHook, X!At
  <2>3. UNCHANGED <<xJob, xOwed, xLog, xTorn, xApplied, xReceipts>>
    BY <1>9 DEF X!CallHook, X!tasks, X!records
  <2> HIDE DEF next
  <2> QED
    BY <1>4, <1>6, <2>1, <2>2, <2>3, DrainKeepsEvents
<1>10. CASE X!HookFails(p)
  BY <1>4, <1>5, <1>10, DrainKeepsEvents DEF X!HookFails, X!AfterFailure, X!tasks, X!records
<1>11. CASE X!Acknowledge(p)
  <2>1. xDrain[p].at = "acknowledge" /\ xDrain' = [xDrain EXCEPT ![p] = X!Onward(p)]
        /\ xReceipts' = xReceipts \cup {X!Event(p)}
        /\ UNCHANGED <<xJob, xOwed, xLog, xTorn, xApplied>>
    BY <1>11 DEF X!Acknowledge, X!At, X!tasks, X!records
  <2>2. Owes(xDrain[p].todo) /\ Given(X!Event(p))
    BY <1>1, <1>6, <2>1 DEF DrainInv
  <2>3. X!Event(p) \in DOMAIN xLog
    BY <1>1, <2>2, EventInHand DEF Owes
  <2>4. /\ X!Onward(p) \in DrainType
        /\ X!Onward(p).at # "idle" => Owes(X!Onward(p).todo) /\ X!Onward(p).at # "acknowledge"
    <3>1. CASE X!Rest(p) = {}
      BY <1>5, <3>1 DEF X!Onward
    <3>2. CASE X!Rest(p) # {}
      <4>1. X!Onward(p) = [at |-> "check", todo |-> X!Rest(p)]
        BY <3>2 DEF X!Onward
      <4>2. X!Rest(p) \subseteq Nat
        BY <2>2 DEF Owes, X!Rest
      <4>3. X!Onward(p) \in DrainType
        BY <4>1, <4>2 DEF DrainType
      <4>4. Owes(X!Rest(p))
        BY <2>2, <3>2 DEF Owes, X!Rest
      <4> QED
        BY <4>1, <4>3, <4>4
    <3> QED
      BY <3>1, <3>2
  <2>5. xReceipts' \subseteq DOMAIN xLog /\ \A e \in xReceipts' : Given(e)
    BY <1>4, <2>1, <2>2, <2>3
  <2> DEFINE next == X!Onward(p)
  <2>6. /\ next \in DrainType /\ xDrain' = [xDrain EXCEPT ![p] = next]
        /\ next.at # "idle" => Owes(next.todo) /\ next.at # "acknowledge"
    <3>1. xDrain' = [xDrain EXCEPT ![p] = next]
      BY <2>1
    <3>2. next \in DrainType /\ (next.at # "idle" => Owes(next.todo) /\ next.at # "acknowledge")
      BY <2>4
    <3> QED
      BY <3>1, <3>2
  <2> HIDE DEF next
  <2> QED
    BY <2>1, <2>5, <2>6, DrainKeepsEvents
<1> QED
  BY <1>7, <1>8, <1>9, <1>10, <1>11

\* The hook is given the oldest event that is left, and reruns the task that failed.
LEMMA HookKeepsEvents ==
    ASSUME EventsInv, NEW p \in X!Processes, X!HookActs(p) PROVE EventsInv'
<1> DEFINE event == X!Event(p)
           next == [xDrain[p] EXCEPT !.at = "acknowledge"]
<1>1. EventTypes /\ DrainInv /\ RerunInv /\ X!GivenInOrder
  BY DEF EventsInv
<1>2. /\ xDrain \in [X!Processes -> DrainType] /\ xDrain[p] \in DrainType
      /\ xLog \in Seq(LineType) /\ xApplied \in Seq(Nat)
  BY <1>1 DEF EventTypes
<1>3. /\ xDrain[p].at = "hook" /\ xApplied' = Append(xApplied, event)
      /\ xDrain' = [xDrain EXCEPT ![p] = next] /\ UNCHANGED <<xLog, xTorn, xReceipts>>
  BY <1>2 DEF X!HookActs, X!At, X!records
<1>4. next \in DrainType /\ next.at = "acknowledge" /\ next.todo = xDrain[p].todo
  BY <1>2 DEF DrainType
<1>5. /\ xDrain[p].todo # {} /\ xDrain[p].todo \subseteq DOMAIN xLog
      /\ \A f \in xDrain[p].todo : \A e \in X!Readable : e < f => Given(e) \/ e \in xDrain[p].todo
  BY <1>1, <1>3 DEF DrainInv
<1>6. /\ event \in xDrain[p].todo /\ event \in DOMAIN xLog /\ event \in Nat
      /\ \A f \in xDrain[p].todo : event <= f
  BY <1>1, <1>2, <1>5, EventInHand
<1>7. /\ xDrain' \in [X!Processes -> DrainType] /\ xDrain'[p] = next
      /\ \A q \in X!Processes \ {p} : xDrain'[q] = xDrain[q]
  BY <1>2, <1>3, <1>4
<1>8. X!Event(p)' = event /\ \A q \in X!Processes : xDrain'[q].todo = xDrain[q].todo
  BY <1>4, <1>7 DEF X!Event
<1> HIDE DEF event, next
<1>9. xJob' \in [X!Tasks -> TaskType] /\ xOwed' \in Seq(OwedType) /\ Len(xOwed') <= 1 /\ RerunInv'
  <2>1. CASE xLog[event].event = "failed" /\ xJob[xLog[event].task].parent = 0
    <3>1. X!Transaction /\ X!Enqueue(event, xLog[event].task)
      BY <2>1 DEF X!HookActs, X!RerunKey, event
    <3>2. xLog[event].task \in X!Tasks /\ xLog[event].task \in Nat
      BY <1>1, <1>6, LinesAreTyped DEF X!Tasks
    <3>3. FailureOf(event, xLog[event].task)
      BY <2>1 DEF FailureOf
    <3> QED
      BY <1>1, <1>3, <1>6, <3>1, <3>2, <3>3, EnqueueKeepsReruns
  <2>2. CASE ~(xLog[event].event = "failed" /\ xJob[xLog[event].task].parent = 0)
    <3>1. UNCHANGED <<xJob, xOwed>>
      BY <2>2 DEF X!HookActs, X!tasks, event
    <3> QED
      BY <1>1, <1>3, <3>1 DEF EventTypes, RerunInv, FailureOf
  <2> QED
    BY <2>1, <2>2
<1> DEFINE last == Len(xApplied) + 1
<1>10. /\ xApplied' \in Seq(Nat) /\ xApplied'[last] = event
       /\ DOMAIN xApplied' = DOMAIN xApplied \cup {last}
       /\ \A i \in DOMAIN xApplied : xApplied'[i] = xApplied[i] /\ i < last /\ i \in 1..(last - 1)
       /\ last \in DOMAIN xApplied'
  BY <1>2, <1>3, <1>6
<1> HIDE DEF last
<1>11. EventTypes'
  BY <1>1, <1>3, <1>7, <1>9, <1>10 DEF EventTypes
<1>12. \A e : Given(e) => Given(e)'
  BY <1>10 DEF Given
<1>13. \E i \in DOMAIN xApplied' : xApplied'[i] = event
  BY <1>10
<1>14. X!Readable' = X!Readable
  BY <1>3 DEF X!Readable
<1>15. DrainInv'
  <2>1. \A i \in DOMAIN xApplied' : xApplied'[i] \in DOMAIN xLog'
    BY <1>1, <1>3, <1>6, <1>10 DEF DrainInv
  <2>2. \A e \in xReceipts' : Given(e)'
    BY <1>1, <1>3, <1>12 DEF DrainInv
  <2>3. ASSUME NEW q \in X!Processes, xDrain'[q].at # "idle"
        PROVE  /\ xDrain'[q].todo # {} /\ xDrain'[q].todo \subseteq DOMAIN xLog'
               /\ \A f \in xDrain'[q].todo : \A e \in X!Readable' :
                     e < f => Given(e)' \/ e \in xDrain'[q].todo
               /\ xDrain'[q].at = "acknowledge" => Given(X!Event(q))'
    <3>1. xDrain[q].at # "idle"
      BY <1>3, <1>7, <2>3
    <3>2. /\ xDrain[q].todo # {} /\ xDrain[q].todo \subseteq DOMAIN xLog
          /\ \A f \in xDrain[q].todo : \A e \in X!Readable :
                     e < f => Given(e) \/ e \in xDrain[q].todo
          /\ xDrain[q].at = "acknowledge" => Given(X!Event(q))
      BY <1>1, <3>1 DEF DrainInv
    <3>3. xDrain'[q].at = "acknowledge" => Given(X!Event(q))'
      <4>1. CASE q = p
        BY <1>8, <1>13, <4>1 DEF Given
      <4>2. CASE q # p
        <5>1. xDrain'[q] = xDrain[q]
          BY <1>7, <4>2
        <5>2. X!Event(q)' = X!Event(q)
          BY <5>1 DEF X!Event
        <5> QED
          BY <1>12, <3>2, <5>1, <5>2
      <4> QED
        BY <4>1, <4>2
    <3> QED
      BY <1>3, <1>8, <1>12, <1>14, <3>2, <3>3
  <2> QED
    BY <2>1, <2>2, <2>3 DEF DrainInv
<1>16. X!GivenInOrder'
  <2>1. \A e \in X!Readable : e \in Nat
    BY <1>2 DEF X!Readable
  <2>2. \A e \in X!Readable : e < event => Given(e)
    BY <1>2, <1>5, <1>6, <2>1 DEF DrainType
  <2>3. \A i \in DOMAIN xApplied : \A e \in X!Readable :
          e < xApplied[i] => \E j \in 1..(i - 1) : xApplied[j] = e
    BY <1>1 DEF X!GivenInOrder
  <2> QED
    BY <1>10, <1>14, <2>2, <2>3 DEF X!GivenInOrder, Given
<1> QED
  BY <1>9, <1>11, <1>15, <1>16 DEF EventsInv

\* The invariant of the events is inductive.
LEMMA EventsStep == EventsInv /\ [X!Next]_(X!vars) => EventsInv'
<1> SUFFICES ASSUME EventsInv, [X!Next]_(X!vars) PROVE EventsInv'
  OBVIOUS
<1>1. CASE UNCHANGED X!vars \/ X!Replaced
  <2>1. UNCHANGED <<xJob, xOwed, xLog, xTorn, xReceipts, xDrain, xApplied>>
    BY <1>1 DEF X!vars, X!Replaced, X!tasks, X!records
  <2>2. RerunInv' /\ EventTypes'
    BY <2>1 DEF EventsInv, EventTypes, RerunInv, FailureOf
  <2> QED
    BY <2>1, <2>2, QueueKeepsEvents DEF EventTypes
<1>2. CASE X!Command \/ X!Start \/ X!Finish \/ X!Cancel
  BY <1>2, TasksKeepEvents
<1>3. CASE X!AppendEvent
  BY <1>3, AppendKeepsEvents
<1>4. CASE X!AppendFails \/ X!Crash
  BY <1>4, LossKeepsEvents
<1>5. CASE \E p \in X!Processes : X!Draining(p)
  BY <1>5, DrainsKeepEvents, HookKeepsEvents DEF X!Draining
<1> QED
  BY <1>1, <1>2, <1>3, <1>4, <1>5 DEF X!Next

\* The events keep to it in every behaviour of the daemon.
LEMMA EventsHold == MCSpec => [](part = "extension" => EventsInv)
<1>1. MCInit => (part = "extension" => EventsInv)
  BY ExtensionInit DEF MCInit
<1>2. (part = "extension" => EventsInv) /\ [MCNext]_allVars => (part = "extension" => EventsInv)'
  BY EventsStep, RunsExtension
<1> QED
  BY <1>1, <1>2, PTL DEF MCSpec

\* Every extension is given the events of its tasks in their order, through failed hooks,
\* crashes and processes that are replaced, and a failure is rerun once.
THEOREM ExtensionsHear == MCSpec => []ExtensionsHearInOrder
<1>1. EventsInv => X!GivenInOrder
  BY DEF EventsInv
<1>2. EventsInv => X!RerunOnce
  <2> SUFFICES ASSUME EventsInv, NEW t \in X!Tasks, NEW u \in X!Tasks,
                      xJob[t].parent # 0, xJob[t].parent = xJob[u].parent
               PROVE  t = u
    BY DEF X!RerunOnce
  <2> QED
    BY DEF EventsInv, RerunInv
<1>3. (part = "extension" => EventsInv) => ExtensionsHearInOrder
  BY <1>1, <1>2 DEF ExtensionsHearInOrder
<1> QED
  BY <1>3, EventsHold, PTL
=============================================================================

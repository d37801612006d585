-------------------------------- MODULE Memory --------------------------------
(***************************************************************************)
(* Long-term memory (memory/store.py).  The main thread and the task       *)
(* threads save what the final reply of the runtime asks for, one memory   *)
(* in each transaction on long_term.json; a reply that did not get through *)
(* is made again.  Memories are forgotten by id or by what they mention,   *)
(* and the prompt of a session shows those that fit (memory/prompt.py).    *)
(***************************************************************************)
EXTENDS Naturals, Sequences, FiniteSets

CONSTANTS Words,      \* words that a text can have
          Threads,    \* the threads that save memories
          Length,     \* memories that a prompt has room for
          MaxDays,    \* bound: days
          MaxReplies, \* bound: replies
          MaxForgets, \* bound: memories forgotten
          MaxFaults   \* bound: failed writes and restarts

VARIABLES memories, \* durable: long_term.json
          requests, \* what is left to save of a thread's reply
          day, clock, replies, forgets, faults

vars == <<memories, requests, day, clock, replies, forgets, faults>>

\* An id is a day and a number, day 0 for the words; a text is the words and ids that
\* it has.  A text is remembered once, so a day needs no more numbers than there are texts.
Ids == (1..MaxDays) \X (1..Cardinality(Words) + 1)
Queries == Ids \cup {<<0, w>> : w \in Words}
Texts == {{<<0, w>>} : w \in Words} \cup {{<<1, 1>>, <<0, CHOOSE w \in Words : TRUE>>}}

Init ==
    /\ memories = <<>> /\ requests = [t \in Threads |-> <<>>]
    /\ day = 1 /\ clock = 1 /\ replies = MaxReplies /\ forgets = MaxForgets /\ faults = MaxFaults

Existing == {memories[i].id : i \in DOMAIN memories}
Matches(query) == {i \in DOMAIN memories : query = memories[i].id \/ query \in memories[i].text}

\* _new_memory_id: the first number of the day that is free.
NewId == <<day, CHOOSE n \in 1..(Len(memories) + 1) :
                  <<day, n>> \notin Existing /\ \A m \in 1..(n - 1) : <<day, m>> \in Existing>>

\* _matching_memory.
Matching(text) == {i \in DOMAIN memories : memories[i].text = text}

\* apply_memory_candidates, for one request: known text is refreshed.
Applied(text) ==
    IF Matching(text) # {}
    THEN LET i == CHOOSE i \in Matching(text) : TRUE IN
         [memories EXCEPT ![i].updated = clock]
    ELSE Append(memories, [id |-> NewId, text |-> text, updated |-> clock])

\* The final reply of a turn or of a task asks for memories (extract_memory_requests).
Reply(t, texts) ==
    /\ requests[t] = <<>> /\ replies > 0 /\ replies' = replies - 1
    /\ requests' = [requests EXCEPT ![t] = texts]
    /\ UNCHANGED <<memories, day, clock, forgets, faults>>

\* One transaction.  All that is asked for has the same confidence.
Save(t) ==
    /\ requests[t] # <<>> /\ requests' = [requests EXCEPT ![t] = Tail(@)]
    /\ memories' = Applied(requests[t][1])
    /\ clock' = clock + 1
    /\ UNCHANGED <<day, replies, forgets, faults>>

\* _save_memory_requests counts a failure and goes on.
SaveFails(t) ==
    /\ requests[t] # <<>> /\ faults > 0 /\ faults' = faults - 1
    /\ requests' = [requests EXCEPT ![t] = Tail(@)]
    /\ UNCHANGED <<memories, day, clock, replies, forgets>>

\* The process ends: the replies are made again.
Restart ==
    /\ faults > 0 /\ faults' = faults - 1
    /\ replies' = replies + Cardinality({t \in Threads : requests[t] # <<>>})
    /\ requests' = [t \in Threads |-> <<>>]
    /\ UNCHANGED <<memories, day, clock, forgets>>

\* forget_memory: the first match, if it is the only one or the query is the id of one.
Forget(query) ==
    /\ forgets > 0 /\ forgets' = forgets - 1
    /\ Matches(query) # {}
    /\ Cardinality(Matches(query)) = 1 \/ query \in Existing
    /\ LET i == CHOOSE i \in Matches(query) : \A j \in Matches(query) : i <= j
       IN  memories' = SubSeq(memories, 1, i - 1) \o SubSeq(memories, i + 1, Len(memories))
    /\ UNCHANGED <<requests, day, clock, replies, faults>>

NextDay ==
    /\ day < MaxDays /\ day' = day + 1
    /\ UNCHANGED <<memories, requests, clock, replies, forgets, faults>>

Next ==
    \/ Restart \/ NextDay
    \/ \E t \in Threads :
        \/ \E a, b \in Texts : Reply(t, IF a = b THEN <<a>> ELSE <<a, b>>)
        \/ Save(t) \/ SaveFails(t)
    \/ \E query \in Queries : Forget(query)

Spec == Init /\ [][Next]_vars

-----------------------------------------------------------------------------
(* The prompt.                                                             *)

\* long_term_for_prompt: the oldest of them, up to the budget.
Shown == {i \in DOMAIN memories : Cardinality({j \in DOMAIN memories : memories[j].updated < memories[i].updated}) < Length}

TypeOK ==
    /\ Existing \subseteq Ids /\ clock \in Nat /\ Cardinality(Shown) <= Length
    /\ \A i \in DOMAIN memories : memories[i].text \in Texts

\* A fact is remembered once and an id names one memory, over two threads that save,
\* replies made again and ids that are free again (apply_memory_candidates).
MemoriesAreDistinct ==
    \A i, j \in DOMAIN memories :
        i # j => memories[i].id # memories[j].id /\ memories[i].text # memories[j].text
=============================================================================

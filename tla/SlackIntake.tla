---------------------------- MODULE SlackIntake ----------------------------
(***************************************************************************)
(* What arrives from Slack: the Socket Mode listener of                    *)
(* libraries/slack/src/our_ark_slack/core.py (_handle_request,             *)
(* _store_request, _allocate_sequence), its spool of event files, and      *)
(* receive, which the daemon polls with the cursor of its inbox            *)
(* (channel_cursor; Inbox.tla).                                            *)
(*                                                                         *)
(* A process has two listener threads.  Storing an event and listing the   *)
(* spool exclude each other by the condition of the provider, which is     *)
(* one process's: with Processes > 1 the threads of a replaced runtime     *)
(* store events beside those of its successor.  The daemon that polls is   *)
(* the newest.                                                             *)
(***************************************************************************)
EXTENDS Naturals, FiniteSets, SequencesExt

CONSTANTS Events,         \* events, numbered
          Ignored,        \* of bots, of other users or conversations, or without content
          Processes,      \* processes with a connection
          Keep,           \* acknowledged records that are kept: 100
          MaxRedeliveries,\* bound: envelopes that Slack sends again
          MaxFaults       \* bound: failed writes, lost answers and crashes

VARIABLES spool,       \* the event files: their sequence; 0: no file
          next,        \* next_sequence of sequence.json
          cursor,      \* the last sequence that the inbox acknowledged
          storing,     \* of each process: the event in _store_request, and its number
          envelopes,   \* of each event: copies on their way from Slack
          redelivered, \* of each event: how often it was sent again
          answered,    \* the events that Slack need not send again
          handed,      \* ghost: events handed to the inbox, in order
          stored,      \* ghost: events in the order in which they were accepted
          faults

vars == <<spool, next, cursor, storing, envelopes, redelivered, answered, handed, stored, faults>>
slack == <<envelopes, redelivered>>

Nothing == [event |-> 0, number |-> 0]

Init ==
    /\ spool = [e \in Events |-> 0] /\ next = 1 /\ cursor = 0
    /\ storing = [p \in Processes |-> Nothing]
    /\ envelopes = [e \in Events |-> 1] /\ redelivered = [e \in Events |-> 0]
    /\ answered = {} /\ handed = <<>> /\ stored = <<>>
    /\ faults = MaxFaults

-----------------------------------------------------------------------------
(* The listener.                                                           *)

\* slack_event yields nothing for what is not meant for the agent.
Accepted(e) == e \notin Ignored

Ignore(e) ==
    /\ envelopes[e] > 0 /\ ~Accepted(e)
    /\ envelopes' = [envelopes EXCEPT ![e] = @ - 1]
    /\ answered' = answered \cup {e}
    /\ UNCHANGED <<spool, next, cursor, storing, redelivered, handed, stored, faults>>

\* The event file exists: only the answer is repeated.
Known(e) == spool[e] # 0

AlreadyStored(p, e) ==
    /\ storing[p] = Nothing /\ envelopes[e] > 0 /\ Known(e)
    /\ envelopes' = [envelopes EXCEPT ![e] = @ - 1]
    /\ answered' = answered \cup {e}
    /\ UNCHANGED <<spool, next, cursor, storing, redelivered, handed, stored, faults>>

\* _allocate_sequence: the next number is written before the file that uses it.
Allocate(p, e) ==
    /\ storing[p] = Nothing /\ envelopes[e] > 0 /\ Accepted(e) /\ ~Known(e)
    /\ storing' = [storing EXCEPT ![p] = [event |-> e, number |-> next]]
    /\ next' = next + 1
    /\ UNCHANGED <<spool, cursor, slack, answered, handed, stored, faults>>

\* The event file, and then the answer to Slack, which may get lost.
Store(p) ==
    LET e == storing[p].event IN
    /\ storing[p] # Nothing
    /\ spool' = [spool EXCEPT ![e] = storing[p].number]
    /\ stored' = Append(stored, e)
    /\ storing' = [storing EXCEPT ![p] = Nothing]
    /\ envelopes' = [envelopes EXCEPT ![e] = IF @ > 0 THEN @ - 1 ELSE 0]
    /\ \/ answered' = answered \cup {e} /\ UNCHANGED faults
       \/ faults > 0 /\ faults' = faults - 1 /\ UNCHANGED answered
    /\ UNCHANGED <<next, cursor, redelivered, handed>>

\* A write fails, or the process ends, after the number was allocated.
StoreFails(p) ==
    /\ storing[p] # Nothing
    /\ faults > 0 /\ faults' = faults - 1
    /\ storing' = [storing EXCEPT ![p] = Nothing]
    /\ envelopes' = [envelopes EXCEPT ![storing[p].event] = IF @ > 0 THEN @ - 1 ELSE 0]
    /\ UNCHANGED <<spool, next, cursor, redelivered, answered, handed, stored>>

\* Slack sends again what was not answered (or what it thinks was not).
Redeliver(e) ==
    /\ envelopes[e] = 0
    /\ IF e \in answered
       THEN redelivered[e] < MaxRedeliveries /\ redelivered' = [redelivered EXCEPT ![e] = @ + 1]
       ELSE UNCHANGED redelivered
    /\ envelopes' = [envelopes EXCEPT ![e] = 1]
    /\ UNCHANGED <<spool, next, cursor, storing, answered, handed, stored, faults>>

-----------------------------------------------------------------------------
(* The daemon.                                                             *)

Acknowledged == {e \in Events : spool[e] # 0 /\ spool[e] <= cursor}
Pending == {e \in Events : spool[e] > cursor}

\* _prune: all but the last Keep acknowledged records.
Pruned ==
    {e \in Acknowledged : Cardinality({f \in Acknowledged : spool[f] > spool[e]}) >= Keep}

\* The first n pending events, in the order of their numbers.
Batch(n) ==
    {events \in [1..n -> Pending] :
        /\ \A i, j \in 1..n : i < j => spool[events[i]] < spool[events[j]]
        /\ \A e \in Pending \ {events[i] : i \in 1..n} : \A i \in 1..n : spool[events[i]] < spool[e]}

\* receive, under the condition: the events after the cursor, in the order of their
\* numbers.  The inbox takes each and moves its cursor past it.
Receive(p) ==
    /\ storing[p] = Nothing
    /\ Pending # {} \/ Pruned # {}
    /\ spool' = [e \in Events |-> IF e \in Pruned THEN 0 ELSE spool[e]]
    /\ \E n \in 0..Cardinality(Pending) : \E events \in Batch(n) :
         /\ handed' = handed \o events
         /\ cursor' = IF n = 0 THEN cursor ELSE spool[events[n]]
    /\ UNCHANGED <<next, storing, slack, answered, stored, faults>>

Newest == CHOOSE p \in Processes : \A q \in Processes : q <= p

Next ==
    \/ \E p \in Processes :
         \/ Store(p) \/ StoreFails(p)
         \/ \E e \in Events : AlreadyStored(p, e) \/ Allocate(p, e)
    \/ \E e \in Events : Ignore(e) \/ Redeliver(e)
    \/ Receive(Newest)

Spec == Init /\ [][Next]_vars

-----------------------------------------------------------------------------
(* Properties.                                                             *)

TypeOK ==
    /\ spool \in [Events -> 0..next - 1] /\ cursor \in 0..next - 1
    /\ answered \subseteq Events
    /\ \A p \in Processes : storing[p].event \in Events \cup {0}

\* What Slack was told is safe is in the spool or was handed on, and none is behind
\* the cursor without having been handed on (libraries/slack/README.md: persists each
\* envelope before acknowledging it).
NothingAnsweredIsLost ==
    \A e \in Events :
        /\ e \in answered /\ Accepted(e) => Known(e) \/ Contains(handed, e)
        /\ e \in Acknowledged => Contains(handed, e)

\* Events are handed on in the order in which they were accepted, and one that is
\* sent again is recognised unless Keep later ones were acknowledged meanwhile.
HandedInOrder ==
    \A i, j \in DOMAIN handed :
        i < j =>
            \/ \E a, b \in DOMAIN stored : a < b /\ stored[a] = handed[i] /\ stored[b] = handed[j]
               /\ (handed[i] = handed[j] => Cardinality({handed[k] : k \in i + 1..j - 1}) >= Keep)
=============================================================================

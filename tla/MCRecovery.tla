----------------------------- MODULE MCRecovery -----------------------------
(***************************************************************************)
(* What a daemon that starts again finds on disk and goes on with: the     *)
(* queue of tasks and the journal of notifications, for every kind of      *)
(* provider.  A behaviour runs one of them (part), the other keeps its     *)
(* first state.                                                            *)
(***************************************************************************)
EXTENDS TaskQueue

CONSTANTS Parts,     \* what is checked: "queue", "journal"
          Messages, Edits, Tracked, Terminal, Deferred, NoMessage, Providers,
          MaxDeliveries, MaxGenerations, AttemptBound           \* of Notifications

\* The edits are those of the worker's own status and the one by which /stop says
\* that the task is cancelled.
ASSUME MessagesAssumption ==
    /\ NoMessage \notin Messages
    /\ Edits \subseteq Messages
    /\ Terminal \subseteq Edits /\ Tracked \subseteq Edits
    /\ Edits \ Tracked \subseteq Terminal

VARIABLES part,
          provider, record, generation, phase, todo, call, closed, applied, hidden, shown

journalVars == <<provider, record, generation, phase, todo, call, closed, applied, hidden, shown>>

N == INSTANCE Notifications WITH
        Keys <- Messages, NoKey <- NoMessage, MaxAttempts <- MaxDeliveries

AllProviders == [durable : BOOLEAN, idempotent : BOOLEAN, reconcilable : BOOLEAN]

\* A revision that is captured with its reference, and one published for review:
\* what recovery takes for unproven, and what it takes for proof.
CapturedOrPublished == {p \in PublicationStates : p.ref}

MCInit ==
    /\ part \in Parts
    /\ Init /\ N!Init
    /\ part # "journal" => provider = [durable |-> FALSE, idempotent |-> FALSE, reconcilable |-> FALSE]

MCNext ==
    \/ part = "queue" /\ Next /\ UNCHANGED <<part, journalVars>>
    \/ part = "journal" /\ N!Next /\ UNCHANGED <<part, vars>>

MCSpec == MCInit /\ [][MCNext]_<<part, vars, journalVars>>

-----------------------------------------------------------------------------

\* A claimed delivery is in the journal before the provider is called, and a message is
\* doubled only when its provider hid an effect: see Notifications.
JournalIsHonest == part = "journal" => N!TypeOK /\ N!IntentFirst /\ N!NoUnexplainedDuplicate

\* An ambiguous delivery is not repeated blindly, a settled one never, and late progress
\* does not replace a terminal status: see Notifications.
DeliveriesStaySettled == N!AmbiguityFailsClosed /\ N!SettledForGood /\ N!LateProgressIsDropped
=============================================================================

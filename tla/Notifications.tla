--------------------------- MODULE Notifications ---------------------------
(***************************************************************************)
(* The intent-first notification journal of src/src/enoch/app/             *)
(* notifications.py and the chat that shows its effects.                   *)
(*                                                                         *)
(* A delivery runs under the daemon-epoch guard from its first journal     *)
(* write to its last, so one delivery at a time is in progress and a new   *)
(* daemon starts only between deliveries or after a crash; calls of an     *)
(* obsolete daemon fail at the guard and are not steps.  Each journal      *)
(* write and the provider call are separate steps, because the process can *)
(* end between any two of them.                                            *)
(*                                                                         *)
(* A key stands for one logical notification with its content.  The edits  *)
(* are those of one task-status message.                                   *)
(***************************************************************************)
EXTENDS Integers

CONSTANTS Keys,            \* logical notifications
          Edits,           \* those of Keys that edit the task-status message
          Tracked,         \* ... through the worker's own status; /stop edits directly
          Deferred,        \* quota warnings, which recovery leaves to their owner
          Terminal,        \* those of Edits to completed, failed or cancelled
          NoKey,
          Providers,       \* what the chat provider may be: [durable, idempotent, reconcilable : BOOLEAN]
          MaxAttempts,     \* MAX_DELIVERY_ATTEMPTS
          MaxGenerations,  \* bound: daemon starts
          AttemptBound     \* bound: no repeated call once a key was claimed so often

VARIABLES provider,    \* the daemon's chat provider, the same for good
          record,      \* the journal: status, attempts and owner of each key
          generation,  \* current daemon epoch
          phase,       \* of its process: "down", "starting", "recovering", "serving"
          todo,        \* keys that recovery still has to look at
          call,        \* the delivery in progress under the guard
          closed,      \* the worker has set its status to a terminal one
          applied,     \* ghost: how often the chat shows the effect of a key
          hidden,      \* ghost: failures the provider returned despite an effect
          shown        \* ghost: the edit that the task-status message shows

vars == <<provider, record, generation, phase, todo, call, closed, applied, hidden, shown>>

Statuses == {"absent", "pending", "in_flight", "delivered",
             "retryable_failure", "terminal_failure"}
Unsettled == {"pending", "in_flight", "retryable_failure"}
Results == {"delivered", "retryable_failure", "terminal_failure"}

NoCall == [key |-> NoKey, step |-> "none", result |-> "delivered", again |-> FALSE]
CallAt(k, step, again) == [key |-> k, step |-> step, result |-> "delivered", again |-> again]

Idle == call = NoCall

Durable == provider.durable            \* implements DurableNotificationProvider
Idempotent == provider.idempotent      \* ... with idempotent delivery
Reconcilable == provider.reconcilable  \* ... with reconciliation

Init ==
    /\ provider \in {p \in Providers : p.idempotent \/ p.reconcilable => p.durable}
    /\ record = [k \in Keys |-> [status |-> "absent", attempts |-> 0, owner |-> 0]]
    /\ generation = 0
    /\ phase = "down"
    /\ todo = {}
    /\ call = NoCall
    /\ closed = FALSE
    /\ applied = [k \in Keys |-> 0]
    /\ hidden = [k \in Keys |-> 0]
    /\ shown = NoKey

chat == <<applied, hidden, shown>>

SetStatus(k, status) == record' = [record EXCEPT ![k].status = status]

-----------------------------------------------------------------------------
(* The daemon process.                                                     *)

\* begin_daemon_epoch waits for the guard.
Start ==
    /\ phase = "down"
    /\ generation < MaxGenerations
    /\ generation' = generation + 1
    /\ phase' = "starting"
    /\ UNCHANGED <<record, todo, call, closed, chat>>

\* recover lists the unsettled notifications once, under the guard, except those
\* whose owner must first check that they still apply.
BeginRecovery ==
    /\ phase = "starting"
    /\ phase' = "recovering"
    /\ todo' = {k \in Keys \ Deferred : record[k].status \in Unsettled}
    /\ UNCHANGED <<record, generation, call, closed, chat>>

EndRecovery ==
    /\ phase = "recovering" /\ Idle
    /\ todo = {}
    /\ phase' = "serving"
    /\ UNCHANGED <<record, generation, todo, call, closed, chat>>

\* The process ends, or another daemon takes over between two deliveries; an
\* unexpected error during recovery also ends the process.
Crash ==
    /\ phase # "down"
    /\ generation < MaxGenerations
    /\ phase' = "down"
    /\ todo' = {}
    /\ call' = NoCall
    /\ UNCHANGED <<record, generation, closed, chat>>

-----------------------------------------------------------------------------
(* A delivery.                                                             *)

\* _update_work_status drops every update once the worker has finished.
Suppressed(k) == k \in Tracked /\ closed

\* An in-flight notification of an earlier daemon: ambiguous until the provider
\* tells, or replayed only if that is safe.
Settled(k, status) ==
    /\ SetStatus(k, status)
    /\ UNCHANGED <<generation, phase, call, closed, chat>>

Replay(k, again) ==
    /\ call' = CallAt(k, "claim", again)
    /\ UNCHANGED <<record, generation, phase, closed, chat>>

ReplayOrExhaust(k, again) ==
    IF record[k].attempts >= MaxAttempts
    THEN Settled(k, "terminal_failure")
    ELSE Replay(k, again)

\* Fault: an ambiguous delivery is sent again.
FailClosed_Resend(k, again) == ReplayOrExhaust(k, again)

FailClosed(k, again) == Settled(k, "terminal_failure")

ReconcileFound(k) == Reconcilable /\ applied[k] > 0 /\ Settled(k, "delivered")

ReconcileAbsent(k, again) == Reconcilable /\ applied[k] = 0 /\ ReplayOrExhaust(k, again)

\* The lookup itself fails; _deliver goes on to claim a retryable one at once.
ReconcileFails(k, again) ==
    /\ Reconcilable
    /\ \/ ~Idempotent /\ FailClosed(k, again)
       \/ Idempotent /\ ~again /\ Settled(k, "retryable_failure")
       \/ /\ Idempotent /\ again
          /\ SetStatus(k, "retryable_failure")
          /\ call' = CallAt(k, "claim", FALSE)
          /\ UNCHANGED <<generation, phase, closed, chat>>

\* The lookup says unknown, or there is none.
ReconcileUnknown(k, again) ==
    IF Idempotent THEN ReplayOrExhaust(k, again) ELSE FailClosed(k, again)

RecoverInFlight(k, again) ==
    \/ ReconcileFound(k)
    \/ ReconcileAbsent(k, again)
    \/ ReconcileFails(k, again)
    \/ ReconcileUnknown(k, again)

\* recover: the next listed notification; the journal is sorted by key, not by
\* time, so any order of two notifications can occur.
Recover(k) ==
    /\ phase = "recovering" /\ Idle
    /\ k \in todo
    /\ todo' = todo \ {k}
    /\ IF record[k].status = "in_flight"
       THEN RecoverInFlight(k, FALSE)
       ELSE Replay(k, FALSE)

\* send or edit with a new key: the intent is journaled first.
PersistIntent(k) ==
    /\ phase = "serving" /\ Idle
    /\ ~Suppressed(k)
    /\ record[k].status = "absent"
    /\ SetStatus(k, "pending")
    /\ call' = CallAt(k, "claim", FALSE)
    /\ closed' = (closed \/ k \in Terminal \cap Tracked)
    /\ UNCHANGED <<generation, phase, todo, chat>>

\* Fault: a notification that failed for good is sent again.
DeliverAgain_Failed(k) ==
    /\ phase = "serving" /\ Idle
    /\ ~Suppressed(k)
    /\ record[k].attempts < AttemptBound
    /\ \/ record[k].status \in Unsettled \cup {"terminal_failure"} /\ Replay(k, FALSE)
       \/ /\ record[k].status = "in_flight" /\ record[k].owner # generation
          /\ RecoverInFlight(k, TRUE)
    /\ UNCHANGED todo

\* The same key again: settled ones and one of this daemon return as they are.
DeliverAgain(k) ==
    /\ phase = "serving" /\ Idle
    /\ ~Suppressed(k)
    /\ record[k].attempts < AttemptBound
    /\ \/ record[k].status \in {"pending", "retryable_failure"} /\ Replay(k, FALSE)
       \/ /\ record[k].status = "in_flight" /\ record[k].owner # generation
          /\ RecoverInFlight(k, TRUE)
    /\ UNCHANGED todo

\* reclaim_notification
Claim ==
    LET k == call.key IN
    /\ call.step = "claim"
    /\ record' = [record EXCEPT ![k] = [status |-> "in_flight",
                                        attempts |-> @.attempts + 1,
                                        owner |-> generation]]
    /\ call' = [call EXCEPT !.step = "invoke"]
    /\ UNCHANGED <<generation, phase, todo, closed, chat>>

-----------------------------------------------------------------------------
(* The provider call and what the service makes of its answer.             *)

TakesEffect(k) ==
    /\ applied' = [applied EXCEPT ![k] = IF Idempotent /\ @ > 0 THEN @ ELSE @ + 1]
    /\ shown' = IF k \in Edits THEN k ELSE shown

NoEffect == UNCHANGED <<applied, shown>>

Answer(result) == call' = [call EXCEPT !.step = "settle", !.result = result]

Invoked(k) ==
    /\ call.step = "invoke" /\ call.key = k
    /\ UNCHANGED <<record, generation, phase, todo, closed>>

LastAttempt(k) == record[k].attempts >= MaxAttempts

FailureIf(terminal) == Answer(IF terminal THEN "terminal_failure" ELSE "retryable_failure")

ProviderDelivers(k) ==
    /\ Invoked(k)
    /\ TakesEffect(k)
    /\ Answer("delivered")
    /\ UNCHANGED hidden

\* NotificationDeliveryError tells what is known of the outcome.
ProviderRefuses(k, retryable, ambiguous) ==
    /\ Invoked(k)
    /\ \/ NoEffect
       \/ ambiguous /\ TakesEffect(k)
    /\ FailureIf((ambiguous /\ ~Idempotent) \/ ~retryable \/ LastAttempt(k))
    /\ UNCHANGED hidden

\* Any other transport error is retried, though it may hide an effect.
ProviderErrs(k) ==
    /\ Invoked(k)
    /\ \/ NoEffect /\ UNCHANGED hidden
       \/ TakesEffect(k) /\ hidden' = [hidden EXCEPT ![k] = @ + 1]
    /\ FailureIf(LastAttempt(k))

\* A durable provider returns a receipt that says unknown, or one that is for
\* another notification; the limit of attempts plays no part here.
ProviderUnsure(k) ==
    /\ Durable
    /\ Invoked(k)
    /\ NoEffect \/ TakesEffect(k)
    /\ FailureIf(~Idempotent) \/ Answer("terminal_failure")
    /\ UNCHANGED hidden

\* ... or one that says not_found.
ProviderFindsNothing(k) ==
    /\ Durable
    /\ Invoked(k)
    /\ NoEffect
    /\ Answer("retryable_failure")
    /\ UNCHANGED hidden

\* An error the service does not expect leaves the notification in flight.
ProviderBreaks(k) ==
    /\ phase = "serving"
    /\ call.step = "invoke" /\ call.key = k
    /\ NoEffect \/ TakesEffect(k)
    /\ call' = NoCall
    /\ UNCHANGED <<record, generation, phase, todo, closed, hidden>>

\* complete_notification and fail_notification; a retryable outcome of the
\* recovery inside _deliver is claimed once more.
Settle ==
    /\ call.step = "settle"
    /\ SetStatus(call.key, call.result)
    /\ call' = IF call.again /\ call.result = "retryable_failure"
               THEN CallAt(call.key, "claim", FALSE)
               ELSE NoCall
    /\ UNCHANGED <<generation, phase, todo, closed, chat>>

-----------------------------------------------------------------------------
DaemonStep ==
    \/ BeginRecovery
    \/ EndRecovery
    \/ \E k \in Keys : Recover(k)
    \/ Claim
    \/ Settle
    \/ \E k \in Keys :
          \/ ProviderDelivers(k)
          \/ \E retryable, ambiguous \in BOOLEAN : ProviderRefuses(k, retryable, ambiguous)
          \/ ProviderErrs(k)
          \/ ProviderUnsure(k)
          \/ ProviderFindsNothing(k)
          \/ ProviderBreaks(k)

CallerStep == \E k \in Keys : PersistIntent(k) \/ DeliverAgain(k)

Next ==
    /\ Start \/ Crash \/ DaemonStep \/ CallerStep
    /\ UNCHANGED provider

Spec == Init /\ [][Next]_vars

\* The service manager restarts the daemon, the daemon runs, and a provider
\* call returns (every transport has a timeout); callers owe nothing.
FairSpec == Spec /\ WF_vars(Start /\ UNCHANGED provider)
                 /\ WF_vars(DaemonStep /\ UNCHANGED provider)

-----------------------------------------------------------------------------
(* Properties.                                                             *)

\* The journal, the delivery in progress and the chat are well formed.
TypeOK ==
    /\ provider \in Providers
    /\ record \in [Keys -> [status : Statuses, attempts : Nat, owner : Nat]]
    /\ generation \in Nat
    /\ phase \in {"down", "starting", "recovering", "serving"}
    /\ todo \subseteq Keys
    /\ call \in [key : Keys \cup {NoKey}, step : {"none", "claim", "invoke", "settle"},
                 result : Results, again : BOOLEAN]
    /\ call.step = "none" <=> call.key = NoKey
    /\ closed \in BOOLEAN
    /\ applied \in [Keys -> Nat]
    /\ hidden \in [Keys -> Nat]
    /\ shown \in Edits \cup {NoKey}

\* A delivery that is claimed is in flight under the current daemon, so that a
\* crash at any later point leaves a record which the next daemon treats as
\* ambiguous; nothing reaches the chat without such a record, and no record
\* says delivered of what did not reach it.
IntentFirst ==
    /\ call.step \in {"invoke", "settle"} =>
          /\ record[call.key].status = "in_flight"
          /\ record[call.key].owner = generation
    /\ call.step = "claim" => record[call.key].status \in Unsettled
    /\ \A k \in Keys :
          /\ applied[k] > 0 => record[k].attempts > 0
          /\ record[k].status = "delivered" => applied[k] > 0

\* Every duplicate is explained by a failure that the provider returned although
\* the message went out: no crash, restart or repeated call adds a copy.
NoUnexplainedDuplicate ==
    \A k \in Keys \ Edits : applied[k] <= 1 + hidden[k]

\* A provider that cannot replay is never called again for a delivery which an
\* earlier daemon left in flight and which did take effect, or may have done so
\* as far as the provider can tell.
AmbiguityFailsClosed ==
    [][\A k \in Keys :
         (/\ record[k].status = "in_flight"
          /\ record[k].owner < generation
          /\ ~Idempotent
          /\ applied[k] > 0 \/ ~Reconcilable) =>
             record'[k].attempts = record[k].attempts]_vars

\* Once delivered, or failed for good, a notification is settled for ever:
\* repeating it returns the receipt.
SettledForGood ==
    [][\A k \in Keys :
         record[k].status \in {"delivered", "terminal_failure"} =>
             /\ record'[k] = record[k]
             /\ applied'[k] = applied[k]]_vars

\* While a daemon serves, no progress edit replaces the terminal status that the
\* worker gave its task.
LateProgressIsDropped ==
    [][(shown \in Terminal \cap Tracked /\ phase = "serving") => shown' \in Terminal]_vars

\* The same for every terminal status, and over restarts: the terminal status
\* of a task is what its message shows from then on.
TerminalStatusStays == [][(shown \in Terminal) => shown' \in Terminal]_vars

\* Deliveries that a dead daemon left in flight: none stays so for ever, but for those
\* that recovery defers.
Abandoned ==
    {k \in Keys \ Deferred : record[k].status = "in_flight" /\ record[k].owner < generation}
=============================================================================

----------------------------- MODULE Operations ----------------------------
(***************************************************************************)
(* Updating, restarting and stopping the daemon: operations/updater.py,    *)
(* operations/update_doctor.py, operations/daemon.py, version_status.py,   *)
(* the lifecycle record of channel.py, _update, _restart_from_chat,        *)
(* _finish_chat_event, main and notify_shutdown of app/core.py, and the    *)
(* service manager as libraries/systemd and libraries/launchd use it.      *)
(*                                                                         *)
(* /update runs in the thread that answers chat, under the epoch guard, so *)
(* one update runs at a time and no daemon starts during it; but the       *)
(* process can be stopped or die in the middle.  Revisions of the          *)
(* authoritative branch are numbered; Local is a commit that is not one.   *)
(***************************************************************************)
EXTENDS Naturals

CONSTANTS MaxRevision,  \* bound: revisions of the authoritative branch
          MaxEdits,     \* bound: changes of the checkout and service commands by the operator
          MaxCommands,  \* bound: /update and /restart
          MaxFaults     \* bound: crashes, failed rollbacks and lost messages

VARIABLES broken,     \* the revisions that do not pass the doctor
          remote,     \* the authoritative revision
          checkout,   \* its revision, and whether it is clean
          process,    \* the daemon: where it is, and the revision it loaded
          lifecycle,  \* lifecycle.json
          update,     \* the update in progress
          reply,      \* the reply of the last command; "owed": not delivered
          restart,    \* _restart_after_reply; then the service manager's order
          warning,    \* what the startup message says of the previous shutdown
          silent,     \* ghost: the last process ended without a shutdown message
          vetted,     \* ghost: the revisions that a doctor passed
          unfinished, \* ghost: an update was cut short, or could not be rolled back
          edits, commands, faults

vars == <<broken, remote, checkout, process, lifecycle, update, reply, restart, warning,
          silent, vetted, unfinished, edits, commands, faults>>
repository == <<broken, remote>>
bounds == <<edits, commands, faults>>
ghosts == <<silent, vetted, unfinished>>

Revisions == 1..MaxRevision
Local == MaxRevision + 1

NoUpdate == [at |-> "none", previous |-> 0]
NoRestart == [wanted |-> FALSE, ordered |-> FALSE]
NoLifecycle == [status |-> "none", started_head |-> 0, sent |-> FALSE]

Init ==
    /\ broken \in SUBSET (Revisions \ {1}) /\ remote = 1
    /\ checkout = [revision |-> 1, clean |-> TRUE]
    /\ process = [at |-> "down", revision |-> 0]
    /\ lifecycle = NoLifecycle /\ update = NoUpdate
    /\ reply = "none" /\ restart = NoRestart /\ warning = "none"
    /\ silent = FALSE /\ vetted = {1} /\ unfinished = FALSE
    /\ edits = 0 /\ commands = 0 /\ faults = MaxFaults

Fault == faults > 0 /\ faults' = faults - 1 /\ UNCHANGED <<edits, commands>>

-----------------------------------------------------------------------------
(* The repository.                                                         *)

\* is_ancestor: on the authoritative branch.
Ancestor(a, b) == a = b \/ (a < b /\ b # Local)

Publish ==
    /\ remote < MaxRevision /\ remote' = remote + 1
    /\ UNCHANGED <<broken, checkout, process, lifecycle, update, reply, restart, warning, ghosts, bounds>>

\* The operator edits files, puts them back, or commits on top.
Edit ==
    /\ edits < MaxEdits /\ edits' = edits + 1 /\ update = NoUpdate
    /\ \/ checkout' = [checkout EXCEPT !.clean = ~@]
       \/ checkout' = [revision |-> Local, clean |-> TRUE]
    /\ UNCHANGED <<repository, process, lifecycle, update, reply, restart, warning, ghosts, commands, faults>>

\* _version_state: what /status says of the code.
VersionState ==
    LET running == lifecycle.started_head
        local == checkout.revision IN
    CASE running = 0 -> "comparison unavailable"
      [] running # 0 /\ local = remote -> IF running = local THEN "current" ELSE "restart needed"
      [] running # 0 /\ local # remote ->
            IF Ancestor(local, remote) THEN "update available" ELSE "local changes not published"

-----------------------------------------------------------------------------
(* Commands in the chat.                                                   *)

Idle == process.at = "up" /\ update = NoUpdate /\ reply = "none"

Command == Idle /\ commands < MaxCommands /\ commands' = commands + 1 /\ UNCHANGED <<edits, faults>>

\* update_from_authoritative: local work is never thrown away.
UpdateRefused ==
    /\ Command
    /\ ~checkout.clean \/ ~Ancestor(checkout.revision, remote)
    /\ reply' = "owed"
    /\ UNCHANGED <<repository, checkout, process, lifecycle, update, restart, warning, ghosts>>

\* Already current; _running_commit_restart_note tells a daemon that started on
\* other code to restart.
UpdateCurrent ==
    /\ Command
    /\ checkout = [revision |-> remote, clean |-> TRUE]
    /\ reply' = "owed"
    /\ UNCHANGED <<repository, checkout, process, lifecycle, update, restart, warning, ghosts>>

\* The working copy is moved to the authoritative revision, for the doctor to see.
UpdateRestores ==
    /\ Command
    /\ checkout.clean /\ checkout.revision # remote /\ Ancestor(checkout.revision, remote)
    /\ checkout' = [checkout EXCEPT !.revision = remote]
    /\ update' = [at |-> "doctor", previous |-> checkout.revision]
    /\ UNCHANGED <<repository, process, lifecycle, reply, restart, warning, ghosts>>

\* run_update_doctor, a process of its own on the new code, passes.
DoctorPasses ==
    /\ update.at = "doctor" /\ checkout.revision \notin broken
    /\ vetted' = vetted \cup {checkout.revision}
    /\ update' = NoUpdate /\ reply' = "owed" /\ restart' = [restart EXCEPT !.wanted = TRUE]
    /\ UNCHANGED <<repository, checkout, process, lifecycle, warning, silent, unfinished, bounds>>

\* It fails, or it times out or cannot be run: back to the previous revision.
DoctorFails ==
    /\ update.at = "doctor"
    /\ \/ checkout.revision \in broken /\ UNCHANGED bounds
       \/ checkout.revision \notin broken /\ Fault
    /\ update' = [update EXCEPT !.at = "rollback"]
    /\ UNCHANGED <<repository, checkout, process, lifecycle, reply, restart, warning, ghosts>>

Rollback ==
    /\ update.at = "rollback"
    /\ \/ checkout' = [checkout EXCEPT !.revision = update.previous] /\ UNCHANGED <<unfinished, bounds>>
       \/ Fault /\ unfinished' = TRUE /\ UNCHANGED checkout
    /\ update' = NoUpdate /\ reply' = "owed"
    /\ UNCHANGED <<repository, process, lifecycle, restart, warning, silent, vetted>>

\* _restart_from_chat.
RestartCommand ==
    /\ Command
    /\ restart' = [restart EXCEPT !.wanted = TRUE] /\ reply' = "owed"
    /\ UNCHANGED <<repository, checkout, process, lifecycle, update, warning, ghosts>>

\* Fault: a restart is forgotten when the reply cannot be delivered.
ReplySettled_Forgets ==
    /\ process.at = "up" /\ reply = "owed"
    /\ \/ UNCHANGED bounds /\ restart' = [wanted |-> FALSE, ordered |-> restart.ordered \/ restart.wanted]
       \/ Fault /\ restart' = [restart EXCEPT !.wanted = FALSE]
    /\ reply' = "none"
    /\ UNCHANGED <<repository, checkout, process, lifecycle, update, warning, ghosts>>

\* _finish_chat_event: once the reply is delivered or given up, the restart is
\* scheduled.  A reply that can be sent again keeps both waiting.
ReplySettled ==
    /\ process.at = "up" /\ reply = "owed"
    /\ reply' = "none"
    /\ restart' = [wanted |-> FALSE, ordered |-> restart.ordered \/ restart.wanted]
    /\ UNCHANGED <<repository, checkout, process, lifecycle, update, warning, ghosts, bounds>>

-----------------------------------------------------------------------------
(* The process and the service manager.                                    *)

\* The service starts: Restart=always, or start of operations/daemon.py.
Start ==
    /\ process.at = "down"
    /\ process' = [at |-> "starting", revision |-> checkout.revision]
    /\ UNCHANGED <<repository, checkout, lifecycle, update, reply, restart, warning, ghosts, bounds>>

\* begin_channel_lifecycle, before anything is sent.
BeginLifecycle ==
    /\ process.at = "starting"
    /\ warning' = CASE lifecycle.status = "running" -> "unexpected"
                    [] lifecycle.status = "stopped" /\ ~lifecycle.sent -> "unsent"
                    [] OTHER -> "none"
    /\ lifecycle' = [status |-> "running", started_head |-> checkout.revision, sent |-> FALSE]
    /\ process' = [process EXCEPT !.at = "up"]
    /\ UNCHANGED <<repository, checkout, update, reply, restart, ghosts, bounds>>

\* The memory of the process is lost; a reply that was not delivered stays in the
\* inbox, but the restart it announced is not scheduled any more.
Forget ==
    /\ update' = NoUpdate /\ restart' = NoRestart
    /\ unfinished' = (unfinished \/ update # NoUpdate)

\* SIGTERM raises ShutdownRequested wherever the thread is, in an update too.
Signal ==
    /\ process.at = "up"
    /\ process' = [process EXCEPT !.at = "stopping"]
    /\ Forget
    /\ UNCHANGED <<repository, checkout, lifecycle, reply, warning, silent, vetted>>

\* schedule_restart: the service manager restarts the unit.
Terminate == restart.ordered /\ Signal /\ UNCHANGED bounds

\* restart or stop of operations/daemon.py.
ServiceCommand == Signal /\ edits < MaxEdits /\ edits' = edits + 1 /\ UNCHANGED <<commands, faults>>

\* _notify_shutdown: the message, if it can be sent, then the record of it.
NotifyShutdown ==
    /\ process.at = "stopping"
    /\ process' = [process EXCEPT !.at = "notified"]
    /\ \/ UNCHANGED bounds /\ silent' = FALSE
       \/ Fault /\ silent' = TRUE
    /\ UNCHANGED <<repository, checkout, lifecycle, update, reply, restart, warning, vetted, unfinished>>

RecordShutdown ==
    /\ process.at = "notified"
    /\ lifecycle' = [lifecycle EXCEPT !.status = "stopped", !.sent = ~silent]
    /\ process' = [at |-> "down", revision |-> 0]
    /\ UNCHANGED <<repository, checkout, update, reply, restart, warning, ghosts, bounds>>

Crash ==
    /\ process.at # "down" /\ Fault
    /\ process' = [at |-> "down", revision |-> 0]
    /\ silent' = (process.at \in {"up", "stopping"} \/ silent)
    /\ Forget
    /\ UNCHANGED <<repository, checkout, lifecycle, reply, warning, vetted>>

Update == UpdateRestores \/ DoctorPasses \/ DoctorFails \/ Rollback
Stop == Terminate \/ ServiceCommand \/ NotifyShutdown \/ RecordShutdown

Next ==
    \/ Publish \/ Edit
    \/ UpdateRefused \/ UpdateCurrent \/ Update \/ RestartCommand \/ ReplySettled
    \/ Start \/ BeginLifecycle \/ Stop \/ Crash

Spec == Init /\ [][Next]_vars

\* The doctor has a timeout, deliveries are limited, the service manager restarts what
\* ended and delivers the signals it was asked to.
Progress == Start \/ BeginLifecycle \/ DoctorPasses \/ DoctorFails \/ Rollback
            \/ ReplySettled \/ NotifyShutdown \/ RecordShutdown \/ Terminate
FairSpec == Spec /\ WF_vars(Progress)

-----------------------------------------------------------------------------
(* Properties.                                                             *)

TypeOK ==
    /\ checkout \in [revision : 1..Local, clean : BOOLEAN]
    /\ process.at \in {"down", "starting", "up", "stopping", "notified"} /\ process.revision \in 0..Local
    /\ lifecycle \in [status : {"none", "running", "stopped"}, started_head : 0..Local, sent : BOOLEAN]
    /\ update.at \in {"none", "doctor", "rollback"} /\ reply \in {"none", "owed"}
    /\ restart \in [wanted : BOOLEAN, ordered : BOOLEAN]

\* The daemon runs code that a doctor has passed, or the operator's own commit: a
\* revision that fails is started only after an update was cut short or could not be
\* rolled back.
RunningIsVetted ==
    process.revision \in Revisions \ vetted => unfinished

\* What /status calls current is the code that runs.
StatusIsTrue ==
    process.at = "up" /\ VersionState = "current" => process.revision = remote

\* A process that ended without a word is reported by the next one.
SilentEndIsReported ==
    [][BeginLifecycle /\ silent => warning' # "none"]_vars
=============================================================================

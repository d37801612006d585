----------------------------- MODULE PrivateState -----------------------------
(***************************************************************************)
(* The upgrade of the private state's schemas: migrate_private_state of    *)
(* private_state.py, with its backup and rollback, between runs of the     *)
(* daemon, which reads state of any older version and writes the current   *)
(* one.  The upgrade may fail, fail to roll back, or be killed.            *)
(***************************************************************************)
EXTENDS Naturals, FiniteSets

CONSTANTS Files,      \* the state files
          MaxWrites,  \* bound: writes of the daemon
          MaxFaults   \* bound: errors and kills

VARIABLES file,      \* each file: its content, and whether its schema is current
          manifest,  \* whether the manifest is current
          daemon,    \* it runs
          upgrade,   \* the command: step, files to do, backup and manifest before
          newest,    \* ghost: the newest content of each file
          faults

vars == <<file, manifest, daemon, upgrade, newest, faults>>

NoUpgrade == [at |-> "none", todo |-> {}, backup |-> <<>>, manifest |-> FALSE]

Init ==
    /\ file = [f \in Files |-> [content |-> 0, current |-> FALSE]]
    /\ manifest = FALSE /\ daemon = FALSE /\ upgrade = NoUpgrade
    /\ newest = [f \in Files |-> 0] /\ faults = MaxFaults

\* plan_private_state.
Outdated == {f \in Files : ~file[f].current}
Required == ~manifest \/ Outdated # {}

Fault == faults > 0 /\ faults' = faults - 1

\* The upgrade requires that no daemon runs; the operator starts none before it ends.
DaemonStarts ==
    /\ ~daemon /\ upgrade.at = "none"
    /\ daemon' = TRUE
    /\ UNCHANGED <<file, manifest, upgrade, newest, faults>>

DaemonStops ==
    /\ daemon /\ daemon' = FALSE
    /\ UNCHANGED <<file, manifest, upgrade, newest, faults>>

DaemonWrites(f) ==
    /\ daemon /\ newest[f] < MaxWrites
    /\ newest' = [newest EXCEPT ![f] = @ + 1]
    /\ file' = [file EXCEPT ![f] = [content |-> newest[f] + 1, current |-> TRUE]]
    /\ UNCHANGED <<manifest, daemon, upgrade, faults>>

\* The plan, and a backup of the files in it.
Begin ==
    /\ upgrade.at = "none" /\ ~daemon /\ Required
    /\ upgrade' = [at |-> "files", todo |-> Outdated, manifest |-> manifest, backup |-> file]
    /\ UNCHANGED <<file, manifest, daemon, newest, faults>>

\* _normalized_payload: the content in the current schema, file by file.
Normalize(f) ==
    /\ upgrade.at = "files" /\ f \in upgrade.todo
    /\ file' = [file EXCEPT ![f].current = TRUE]
    /\ upgrade' = [upgrade EXCEPT !.todo = @ \ {f}]
    /\ UNCHANGED <<manifest, daemon, newest, faults>>

\* The manifest is last; then the state is validated again.
WriteManifest ==
    /\ upgrade.at = "files" /\ upgrade.todo = {}
    /\ manifest' = TRUE
    /\ upgrade' = [upgrade EXCEPT !.at = "validate"]
    /\ UNCHANGED <<file, daemon, newest, faults>>

Ends == upgrade' = [upgrade EXCEPT !.at = "none", !.todo = {}]

Validate ==
    /\ upgrade.at = "validate"
    /\ Ends
    /\ UNCHANGED <<file, manifest, daemon, newest, faults>>

Fails ==
    /\ upgrade.at \in {"files", "validate"} /\ Fault
    /\ upgrade' = [upgrade EXCEPT !.at = "restore",
                                  !.todo = {f \in Files : ~upgrade.backup[f].current}]
    /\ UNCHANGED <<file, manifest, daemon, newest>>

\* _restore_backup: the files, then the manifest or its absence.
Restore(f) ==
    /\ upgrade.at = "restore" /\ f \in upgrade.todo
    /\ file' = [file EXCEPT ![f] = upgrade.backup[f]]
    /\ upgrade' = [upgrade EXCEPT !.todo = @ \ {f}]
    /\ UNCHANGED <<manifest, daemon, newest, faults>>

RestoreManifest ==
    /\ upgrade.at = "restore" /\ upgrade.todo = {}
    /\ manifest' = upgrade.manifest
    /\ Ends
    /\ UNCHANGED <<file, daemon, newest, faults>>

\* Killed, or an error of the rollback.
Killed ==
    /\ upgrade.at # "none" /\ Fault /\ Ends
    /\ UNCHANGED <<file, manifest, daemon, newest>>

Next ==
    \/ DaemonStarts \/ DaemonStops \/ Begin \/ WriteManifest \/ Validate \/ Fails \/ RestoreManifest \/ Killed
    \/ (\E f \in Files : DaemonWrites(f) \/ Normalize(f) \/ Restore(f))

Spec == Init /\ [][Next]_vars

-----------------------------------------------------------------------------

TypeOK ==
    /\ file \in [Files -> [content : 0..MaxWrites, current : BOOLEAN]]
    /\ upgrade.at \in {"none", "files", "validate", "restore"} /\ upgrade.todo \subseteq Files
    /\ manifest \in BOOLEAN /\ daemon \in BOOLEAN

\* An upgrade loses nothing that the daemon wrote, and the manifest that it leaves
\* tells the truth, except while a failed one is rolled back or where its rollback
\* failed as well (migrate_private_state, _restore_backup).
UpgradeIsSafe ==
    /\ \A f \in Files : file[f].content = newest[f]
    /\ manifest /\ faults >= MaxFaults - 1 /\ upgrade.at # "restore" => Outdated = {}
=============================================================================

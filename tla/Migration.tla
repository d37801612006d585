------------------------------ MODULE Migration ------------------------------
(***************************************************************************)
(* Host migration: migration.py (export, import, activate, verify,         *)
(* cancel) and begin_daemon_epoch of app/epoch.py, on hosts that share     *)
(* nothing but the bundles an operator carries.  Every durable write is a  *)
(* step; a command or a daemon may fail or die between any two of them.    *)
(*                                                                         *)
(* The operator does what the tool can only ask for: a bundle is imported  *)
(* on one host, after its export ended, and an export is cancelled only    *)
(* while no import of it can be activated (docs/host-migration.md, 3).     *)
(* Whether daemons are started while a command runs on the host is the     *)
(* constant Overlap; whether a bundle is used that a failed export left    *)
(* behind, the constant Leftovers.                                         *)
(***************************************************************************)
EXTENDS Naturals, FiniteSets

CONSTANTS Hosts, First,    \* the checkouts, and the one where the agent is
          Overlap,         \* daemons are started during commands as well
          Leftovers,       \* a bundle is imported though its export reported an error
          MaxVersion,      \* bound: changes of the private state
          MaxStarts,       \* bound: starts of daemons
          MaxBundles,      \* bound: exports
          MaxFaults        \* bound: failures and interruptions

VARIABLES state,    \* of each host: the version of its portable files; 0: none
          epoch,    \* daemon_epoch.json: generation, and whether its pid is alive
          source,   \* migration_source.json
          target,   \* migration_target.json
          bundles,  \* the bundles: source generation and files of each export, whether it was
                    \* dropped, and whether the export failed
          command,  \* the migration command that runs on each host
          start,    \* the daemon that starts on each host
          newest,   \* ghost: the newest version of the agent's state
          granted,  \* ghost: the highest generation ever granted
          starts, faults

vars == <<state, epoch, source, target, bundles, command, start, newest, granted, starts, faults>>

Partial == MaxVersion + 1     \* some of the files of a bundle

NoMarker == [status |-> "none", id |-> 0, floor |-> 0]
Marker == [status : {"none", "preparing", "exported", "importing", "imported", "activated", "verified"},
           id : 0..MaxBundles, floor : 0..MaxStarts + MaxBundles + MaxFaults]
NoCommand == [at |-> "none", id |-> 0, generation |-> 0, files |-> 0]

Init ==
    /\ state = [h \in Hosts |-> IF h = First THEN 1 ELSE 0]
    /\ epoch = [h \in Hosts |-> [generation |-> 0, alive |-> FALSE]]
    /\ source = [h \in Hosts |-> NoMarker] /\ target = source
    /\ bundles = <<>> /\ newest = 1 /\ granted = 0
    /\ command = [h \in Hosts |-> NoCommand] /\ start = [h \in Hosts |-> "none"]
    /\ starts = 0 /\ faults = MaxFaults

-----------------------------------------------------------------------------
(* Helpers.                                                                *)

Fenced(h) == source[h].status # "none"

\* Fault: only an export that ended fences the host.
StartAllowed_Exported(h) ==
    source[h].status # "exported" /\ target[h].status \in {"none", "activated", "verified"}

\* assert_runtime_start_allowed.
StartAllowed(h) == ~Fenced(h) /\ target[h].status \in {"none", "activated", "verified"}

\* begin_daemon_epoch: beyond the last generation here and that of the source.
NextGeneration(h) ==
    1 + (IF epoch[h].generation > target[h].floor THEN epoch[h].generation ELSE target[h].floor)

Grant(h, alive) ==
    /\ epoch' = [epoch EXCEPT ![h] = [generation |-> NextGeneration(h), alive |-> alive]]
    /\ granted' = IF NextGeneration(h) > granted THEN NextGeneration(h) ELSE granted

\* record_target_activation.
Activated(marker) ==
    IF marker.status = "none" THEN marker
    ELSE [marker EXCEPT !.status = IF @ = "verified" THEN @ ELSE "activated"]

NewId == Cardinality({h \in Hosts : command[h].at \in {"fence", "archive", "bundle"}}) + Cardinality(DOMAIN bundles) + 1

Run(h, at) == command' = [command EXCEPT ![h].at = at]
EndCommand(h) == command' = [command EXCEPT ![h] = NoCommand]

Free(h) == command[h].at = "none" /\ (Overlap \/ start[h] = "none")

Fault == faults > 0 /\ faults' = faults - 1

-----------------------------------------------------------------------------
(* The daemon.                                                             *)

\* The checks, under the lock of the epoch, which no migration command takes.
StartChecks(h) ==
    /\ state[h] # 0 /\ ~epoch[h].alive /\ start[h] = "none" /\ starts < MaxStarts
    /\ Overlap \/ command[h].at = "none"
    /\ StartAllowed(h)
    /\ start' = [start EXCEPT ![h] = "checked"] /\ starts' = starts + 1
    /\ UNCHANGED <<state, epoch, source, target, bundles, command, newest, granted, faults>>

StartWrites(h) ==
    /\ start[h] = "checked"
    /\ Grant(h, TRUE)
    /\ start' = [start EXCEPT ![h] = "written"]
    /\ UNCHANGED <<state, source, target, bundles, command, newest, starts, faults>>

StartRecords(h) ==
    /\ start[h] = "written"
    /\ target' = [target EXCEPT ![h] = Activated(@)]
    /\ start' = [start EXCEPT ![h] = "none"]
    /\ UNCHANGED <<state, epoch, source, bundles, command, newest, granted, starts, faults>>

\* The daemon writes its state.
Work(h) ==
    /\ epoch[h].alive /\ start[h] = "none" /\ newest < MaxVersion
    /\ newest' = newest + 1
    /\ state' = [state EXCEPT ![h] = newest + 1]
    /\ UNCHANGED <<epoch, source, target, bundles, command, start, granted, starts, faults>>

\* It is stopped, or dies while it starts.
DaemonEnds(h) ==
    /\ epoch[h].alive \/ start[h] # "none"
    /\ IF start[h] = "none" THEN UNCHANGED faults ELSE Fault
    /\ epoch' = [epoch EXCEPT ![h].alive = FALSE]
    /\ start' = [start EXCEPT ![h] = "none"]
    /\ UNCHANGED <<state, source, target, bundles, command, newest, granted, starts>>

-----------------------------------------------------------------------------
(* export_migration_bundle.                                                *)

\* Nothing is fenced, and a target is verified; the generation is read.
ExportBegins(h) ==
    /\ Free(h) /\ state[h] \notin {0, Partial} /\ NewId <= MaxBundles
    /\ ~Fenced(h) /\ target[h].status \in {"none", "verified"}
    /\ command' = [command EXCEPT ![h] = [at |-> "fence", id |-> NewId,
                                          generation |-> epoch[h].generation, files |-> 0]]
    /\ UNCHANGED <<state, epoch, source, target, bundles, start, newest, granted, starts, faults>>

ExportFences(h) ==
    /\ command[h].at = "fence"
    /\ source' = [source EXCEPT ![h] = [status |-> "preparing", id |-> command[h].id, floor |-> 0]]
    /\ Run(h, "archive")
    /\ UNCHANGED <<state, epoch, target, bundles, start, newest, granted, starts, faults>>

\* The daemon must have stopped; the files are read.
ExportArchives(h) ==
    /\ command[h].at = "archive"
    /\ IF epoch[h].alive
       THEN EndCommand(h) /\ source' = [source EXCEPT ![h] = NoMarker]
       ELSE command' = [command EXCEPT ![h].at = "bundle", ![h].files = state[h]] /\ UNCHANGED source
    /\ UNCHANGED <<state, epoch, target, bundles, start, newest, granted, starts, faults>>

\* The bundle is put in its place, then the fence says so.
ExportBundles(h) ==
    /\ command[h].at = "bundle"
    /\ bundles' = [b \in DOMAIN bundles \cup {command[h].id} |->
                     IF b = command[h].id
                     THEN [floor |-> command[h].generation, files |-> command[h].files,
                           cancelled |-> FALSE, failed |-> FALSE]
                     ELSE bundles[b]]
    /\ Run(h, "exported")
    /\ UNCHANGED <<state, epoch, source, target, start, newest, granted, starts, faults>>

ExportEnds(h) ==
    /\ command[h].at = "exported"
    /\ source' = [source EXCEPT ![h].status = "exported"]
    /\ EndCommand(h)
    /\ UNCHANGED <<state, epoch, target, bundles, start, newest, granted, starts, faults>>

Gone(b) == [bundles EXCEPT ![b].cancelled = TRUE]

Failed(b) == [bundles EXCEPT ![b].failed = TRUE]

\* An error removes the fence.  Of a bundle that is in its place only an error in the
\* write of the marker disposes; after one before that it stays.
ExportFails(h) ==
    /\ command[h].at \in {"fence", "archive", "bundle", "exported"} /\ Fault
    /\ source' = [source EXCEPT ![h] = NoMarker]
    /\ \/ command[h].at # "exported" /\ UNCHANGED bundles
       \/ command[h].at = "exported" /\ bundles' = Failed(command[h].id)
       \/ command[h].at = "exported" /\ bundles' = Gone(command[h].id)
    /\ EndCommand(h)
    /\ UNCHANGED <<state, epoch, target, start, newest, granted, starts>>

\* cancel_exported_migration, when no import of the bundle has been activated; the
\* operator drops the bundle.
Cancel(h) ==
    LET b == source[h].id IN
    /\ Free(h) /\ Fenced(h)
    /\ \A t \in Hosts : target[t].id = b => target[t].status = "none" \/ state[t] = Partial
    /\ \A t \in Hosts : command[t].at \in {"import", "files"} => command[t].id # b
    /\ source' = [source EXCEPT ![h] = NoMarker]
    /\ bundles' = IF b \in DOMAIN bundles THEN Gone(b) ELSE bundles
    /\ UNCHANGED <<state, epoch, target, command, start, newest, granted, starts, faults>>

-----------------------------------------------------------------------------
(* import_migration_bundle, activate and verify.                           *)

\* A target that holds nothing, is no source, and where no daemon runs.
ImportBegins(h, b) ==
    /\ Free(h) /\ ~bundles[b].cancelled /\ (bundles[b].failed => Leftovers)
    /\ \A t \in Hosts : command[t].at = "exported" => command[t].id # b
    /\ \A t \in Hosts : target[t].id # b /\ (command[t].at = "import" => command[t].id # b)
    /\ ~epoch[h].alive /\ ~Fenced(h) /\ target[h].status = "none" /\ state[h] = 0
    /\ command' = [command EXCEPT ![h] = [at |-> "import", id |-> b, generation |-> 0, files |-> 0]]
    /\ UNCHANGED <<state, epoch, source, target, bundles, start, newest, granted, starts, faults>>

ImportMarks(h) ==
    /\ command[h].at = "import"
    /\ target' = [target EXCEPT ![h] = [status |-> "importing", id |-> command[h].id,
                                        floor |-> bundles[command[h].id].floor]]
    /\ Run(h, "files")
    /\ UNCHANGED <<state, epoch, source, bundles, start, newest, granted, starts, faults>>

\* Some of the files, then the others, the manifest last.
ImportWrites(h) ==
    /\ command[h].at = "files"
    /\ \/ state[h] = 0 /\ state' = [state EXCEPT ![h] = Partial] /\ UNCHANGED command
       \/ state[h] = Partial /\ state' = [state EXCEPT ![h] = bundles[command[h].id].files] /\ Run(h, "imported")
    /\ UNCHANGED <<epoch, source, target, bundles, start, newest, granted, starts, faults>>

ImportEnds(h) ==
    /\ command[h].at = "imported"
    /\ target' = [target EXCEPT ![h].status = "imported"]
    /\ EndCommand(h)
    /\ UNCHANGED <<state, epoch, source, bundles, start, newest, granted, starts, faults>>

\* An error removes what was written, the marker last.
ImportFails(h) ==
    /\ command[h].at \in {"files", "imported"} /\ Fault
    /\ state' = [state EXCEPT ![h] = 0]
    /\ target' = [target EXCEPT ![h] = NoMarker]
    /\ EndCommand(h)
    /\ UNCHANGED <<epoch, source, bundles, start, newest, granted, starts>>

\* activate_imported_migration: the files are those of the bundle; the generation is
\* granted, then recorded.
Activate(h) ==
    /\ Free(h) /\ target[h].status = "imported"
    /\ state[h] = bundles[target[h].id].files
    /\ ~Fenced(h) /\ ~bundles[target[h].id].cancelled
    /\ Grant(h, FALSE)
    /\ Run(h, "activated")
    /\ UNCHANGED <<state, source, target, bundles, start, newest, starts, faults>>

ActivationRecorded(h) ==
    /\ command[h].at = "activated"
    /\ target' = [target EXCEPT ![h] = Activated(@)]
    /\ EndCommand(h)
    /\ UNCHANGED <<state, epoch, source, bundles, start, newest, granted, starts, faults>>

\* verify_imported_migration: the files still match, and the generation is beyond the
\* source's, whatever the marker's status.
Verify(h) ==
    /\ Free(h) /\ target[h].status # "none" /\ target[h].status # "verified"
    /\ state[h] = bundles[target[h].id].files
    /\ epoch[h].generation > target[h].floor
    /\ target' = [target EXCEPT ![h].status = "verified"]
    /\ UNCHANGED <<state, epoch, source, bundles, command, start, newest, granted, starts, faults>>

\* The host goes down in the middle of a command.
Interrupted(h) ==
    /\ command[h].at # "none" /\ Fault
    /\ EndCommand(h)
    /\ UNCHANGED <<state, epoch, source, target, bundles, start, newest, granted, starts>>

-----------------------------------------------------------------------------

Daemon(h) == StartChecks(h) \/ StartWrites(h) \/ StartRecords(h) \/ Work(h) \/ DaemonEnds(h)

Export(h) ==
    \/ ExportBegins(h) \/ ExportFences(h) \/ ExportArchives(h) \/ ExportBundles(h) \/ ExportEnds(h)
    \/ ExportFails(h) \/ Cancel(h)

Import(h) ==
    \/ (\E b \in DOMAIN bundles : ImportBegins(h, b))
    \/ ImportMarks(h) \/ ImportWrites(h) \/ ImportEnds(h) \/ ImportFails(h)
    \/ Activate(h) \/ ActivationRecorded(h) \/ Verify(h)

Next == \E h \in Hosts : Daemon(h) \/ Export(h) \/ Import(h) \/ Interrupted(h)

Spec == Init /\ [][Next]_vars

-----------------------------------------------------------------------------
(* Properties.                                                             *)

TypeOK ==
    /\ state \in [Hosts -> 0..Partial]
    /\ source \in [Hosts -> Marker] /\ target \in [Hosts -> Marker]
    /\ start \in [Hosts -> {"none", "checked", "written"}]
    /\ newest \in 1..MaxVersion /\ faults \in 0..MaxFaults /\ starts \in 0..MaxStarts

\* A host where the agent can run.
MayRun(h) == epoch[h].alive \/ (state[h] # 0 /\ StartAllowed(h))

\* The agent can run on at most one host, and has its newest state there, whatever
\* command was interrupted or failed on the way (export_migration_bundle,
\* import_migration_bundle, assert_runtime_start_allowed), as long as the bundle of an
\* export that failed is not imported.
OneContinuation == \A h \in Hosts : MayRun(h) => state[h] = newest /\ \A g \in Hosts : MayRun(g) => g = h

\* Wherever the agent goes on, it goes on with an authority that no daemon had before
\* (migration_authority_floor).
AuthorityAdvances == [][granted' # granted \/ \A h \in Hosts : epoch'[h].generation = epoch[h].generation]_vars

\* After a successful export no daemon epoch is acquired while the fence exists
\* (docs/host-migration.md, lines 41 to 43).
FenceExcludesEpochs ==
    [][\A h \in Hosts : source[h].status = "exported" => epoch'[h].generation = epoch[h].generation]_vars
=============================================================================

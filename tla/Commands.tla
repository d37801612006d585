------------------------------- MODULE Commands -------------------------------
(***************************************************************************)
(* Commands of profiles and agent extensions, which queue tasks, and the   *)
(* authorization of commands and tasks (providers/authorization.py): the   *)
(* selected providers grant capabilities and a policy may deny them.       *)
(* Providers and policy are those of a process; a command whose turn did   *)
(* not end comes again in the next one.  A handler makes the requests of   *)
(* its plan, the same ones when the command comes again.                   *)
(***************************************************************************)
EXTENDS Naturals, Sequences, FiniteSets

CONSTANTS Capabilities, \* capabilities
          MaxCommands,  \* bound: commands
          MaxRequests,  \* bound: requests that a command makes
          MaxFaults     \* bound: failed steps and restarts

VARIABLES granted,  \* what the providers of this process declare
          denied,   \* what the policies of this process deny
          queue,    \* durable: tasks, with the key, the request and what it requires
          command,  \* the plan of each command, drawn when it comes
          turn,     \* the command in hand
          results,  \* the result of each command
          worker,   \* the task that runs; 0: none
          ran,      \* ghost: a task or a command ran without what it requires
          faults

vars == <<granted, denied, queue, command, turn, results, worker, ran, faults>>
Process == <<granted, denied>>

\* A command of a profile keys its requests by their number; one of an extension
\* keys them all by its message, unless it gives each a key of its own.
Kinds == {"profile", "extension", "keyed"}
Commands == 1..MaxCommands
NoTurn == [at |-> "none", command |-> 0, made |-> 0, tasks |-> <<>>]

Init ==
    /\ granted \in SUBSET Capabilities /\ denied \in SUBSET Capabilities
    /\ queue = <<>> /\ command = <<>> /\ turn = NoTurn /\ results = <<>> /\ worker = 0
    /\ ran = FALSE /\ faults = MaxFaults

Fault == faults > 0 /\ faults' = faults - 1

\* CapabilityAuthorizer.require: granted, and not denied by any policy.
Authorized(required) == required \subseteq granted /\ required \cap denied = {}

\* A message with a command: the dispatcher finds its owner.
Come(kind, required, requests) ==
    /\ turn.at = "none" /\ Len(command) < MaxCommands
    /\ command' = Append(command, [kind |-> kind, required |-> required, requests |-> requests])
    /\ turn' = [NoTurn EXCEPT !.at = "authorize", !.command = Len(command) + 1]
    /\ UNCHANGED <<Process, queue, results, worker, ran, faults>>

Plan == command[turn.command]
Current == turn.command

\* The result is recorded for audit and answered.
Result(status) ==
    /\ results' = Append(results, [status |-> status, tasks |-> turn.tasks])
    /\ turn' = NoTurn

Authorize ==
    /\ turn.at = "authorize"
    /\ IF Authorized(Plan.required)
       THEN turn' = [turn EXCEPT !.at = "handler"] /\ UNCHANGED results
       ELSE Result("denied")
    /\ UNCHANGED <<Process, queue, command, worker, ran, faults>>

\* The idempotency key of request n of command c.
Key(c, n) == IF command[c].kind = "extension" THEN <<"extension", c, 0>> ELSE <<command[c].kind, c, n>>

\* enqueue: a key that is known gives the task that has it.
Queued(c, n) ==
    LET known == {t \in DOMAIN queue : queue[t].key = Key(c, n)} IN
    IF known # {} THEN queue
    ELSE Append(queue, [key |-> Key(c, n), command |-> c, request |-> n,
                        required |-> command[c].required, status |-> "pending"])

Enqueue ==
    /\ turn.at = "handler" /\ turn.made < Plan.requests
    /\ LET n == turn.made + 1 IN
       /\ queue' = Queued(Current, n)
       /\ turn' = [turn EXCEPT !.made = n,
                     !.tasks = Append(@, CHOOSE t \in DOMAIN queue' : queue'[t].key = Key(Current, n))]
    /\ ran' = (ran \/ ~Authorized(Plan.required))
    /\ UNCHANGED <<Process, command, results, worker, faults>>

\* Task ids of a result are unique; otherwise the result is invalid.
Unique(tasks) == \A i, j \in DOMAIN tasks : tasks[i] = tasks[j] => i = j

Return ==
    /\ turn.at = "handler" /\ turn.made = Plan.requests
    /\ Result(IF Plan.kind = "profile" \/ Unique(turn.tasks) THEN "succeeded" ELSE "failed")
    /\ UNCHANGED <<Process, queue, command, worker, ran, faults>>

\* The handler raises; what it queued stays queued.
Raise ==
    /\ turn.at = "handler" /\ Fault /\ Result("failed")
    /\ UNCHANGED <<Process, queue, command, worker, ran>>

-----------------------------------------------------------------------------

Claim(t) ==
    /\ worker = 0 /\ queue[t].status = "pending" /\ \A s \in 1..(t - 1) : queue[s].status # "pending"
    /\ worker' = t /\ queue' = [queue EXCEPT ![t].status = "claimed"]
    /\ UNCHANGED <<Process, command, turn, results, ran, faults>>

\* Fault: a task is authorized when it is queued, and not again.
AuthorizeTask_Queued(t) ==
    /\ worker = t /\ queue[t].status = "claimed"
    /\ queue' = [queue EXCEPT ![t].status = "running"]
    /\ ran' = (ran \/ ~Authorized(queue[t].required))
    /\ UNCHANGED <<Process, command, turn, results, worker, faults>>

\* _authorize_task, in the process that runs the task; a task that is denied fails.
AuthorizeTask(t) ==
    /\ worker = t /\ queue[t].status = "claimed"
    /\ IF Authorized(queue[t].required)
       THEN queue' = [queue EXCEPT ![t].status = "running"] /\ UNCHANGED worker
       ELSE queue' = [queue EXCEPT ![t].status = "failed"] /\ worker' = 0
    /\ UNCHANGED <<Process, command, turn, results, ran, faults>>

Complete(t) ==
    /\ worker = t /\ queue[t].status = "running"
    /\ queue' = [queue EXCEPT ![t].status = "completed"] /\ worker' = 0
    /\ UNCHANGED <<Process, command, turn, results, ran, faults>>

\* The process ends; the next one may have other providers and policies.
Restart ==
    /\ Fault
    /\ granted' \in SUBSET Capabilities /\ denied' \in SUBSET Capabilities
    /\ turn' = IF turn.at = "none" THEN NoTurn ELSE [NoTurn EXCEPT !.at = "authorize", !.command = Current]
    /\ worker' = 0
    /\ queue' = [t \in DOMAIN queue |-> IF t = worker THEN [queue[t] EXCEPT !.status = "pending"] ELSE queue[t]]
    /\ UNCHANGED <<command, results, ran>>

Next ==
    \/ Authorize \/ Enqueue \/ Return \/ Raise \/ Restart
    \/ \E kind \in Kinds, required \in SUBSET Capabilities, n \in 0..MaxRequests : Come(kind, required, n)
    \/ \E t \in DOMAIN queue : Claim(t) \/ AuthorizeTask(t) \/ Complete(t)

Spec == Init /\ [][Next]_vars

TypeOK ==
    /\ granted \subseteq Capabilities /\ denied \subseteq Capabilities
    /\ turn.command \in 0..MaxCommands /\ worker \in 0..Len(queue)
    /\ \A c \in DOMAIN results : results[c].status \in {"denied", "succeeded", "failed"}

\* No task is queued by a command and none runs unless the process that does it is
\* authorized, whatever was allowed when the command first came or the task was queued.
NothingRunsUnauthorized == ~ran /\ \A t \in DOMAIN queue : queue[t].status = "running" => Authorized(queue[t].required)

\* The tasks that a command reports are its own, one for each request that it keyed,
\* and no request is queued twice, over restarts between the requests (_run_profile_command).
RequestsAreQueuedOnce ==
    /\ \A s, t \in DOMAIN queue :
         s # t => <<queue[s].command, queue[s].request>> # <<queue[t].command, queue[t].request>>
    /\ \A c \in DOMAIN results : \A i \in DOMAIN results[c].tasks :
         LET task == queue[results[c].tasks[i]] IN
         task.command = c /\ (command[c].kind # "extension" => task.request = i)
=============================================================================

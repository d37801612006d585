------------------------------ MODULE MCService ------------------------------
(***************************************************************************)
(* What the daemon does for those it serves: events of the chat, requests, *)
(* the threads that work on tasks, calls of the runtime, publication of a  *)
(* change, events of extensions, commands, restarts, updates and delivery  *)
(* of replies.  The components share no state; a behaviour runs one (part) *)
(* and the others keep their first state.                                  *)
(***************************************************************************)
EXTENDS Inbox

CONSTANTS Parts,                                            \* the components that are checked
          MaxFaults, TaskAttempts,                          \* of several components
          MaxWork, MaxBegins, MaxLeases, Threads, NoTaskThread, \* TaskRunner
          MaxContents, RepairLimit, MaxCrashes, MaxRetries, \* Publication
          MaxEventful, MaxProcesses,                        \* ExtensionTasks
          Capabilities, MaxCommands, MaxRequests,           \* Commands
          MaxRevision, MaxEdits,                            \* Operations
          Messages, MaxActions, MaxRequested,               \* Requests
          MaxRuns, MaxSessions,                             \* RuntimeRuns
          Sends, FinalEdits, NoNotice, MaxGenerations, ClaimBound  \* Notifications

\* The bounds are numbers.
ASSUME BoundsAssumption ==
    /\ MaxFaults \in Nat /\ MaxCommands \in Nat /\ MaxRequests \in Nat
    /\ MaxRevision \in Nat \ {0} /\ Messages \in Nat /\ MaxActions \in Nat
    /\ MaxRequested \in Nat /\ MaxRuns \in Nat /\ MaxSessions \in Nat
    /\ TaskAttempts \in Nat \ {0} /\ MaxContents \in Nat \ {0} /\ RepairLimit \in Nat
    /\ MaxCrashes \in Nat /\ MaxRetries \in Nat

VARIABLES part, faults,
          rJob, rPending, rRunning, rPaused, rHistory, rReconciliation, rLeases, rAlive,
          rThread, rRegistered, rSignalled, rMain, rFaults,
          pKind, pProvider, pJob, pCopy, pForge, pRun, pPassed, pWritten, pBudget,
          xJob, xOwed, xLog, xTorn, xReceipts, xCurrent, xDrain, xApplied,
          cGranted, cDenied, cQueue, cCommand, cTurn, cResults, cWorker, cRan,
          oBroken, oRemote, oCheckout, oProcess, oLifecycle, oUpdate, oReply, oRestart,
          oWarning, oSilent, oVetted, oUnfinished, oEdits, oCommands,
          qKind, qAnswered, qJournal, qJob, qAvailable, qMain, qPerformed, qAnswer,
          uProvider, uCurrent, uRun, uChild, uLeft, uControl, uSessions, uNative,
          uContextualized, uOutcome, uRuns,
          jProvider, jRecord, jGeneration, jPhase, jTodo, jCall, jClosed, jApplied, jHidden,
          jShown

threads == <<rJob, rPending, rRunning, rPaused, rHistory, rReconciliation, rLeases, rAlive,
             rThread, rRegistered, rSignalled, rMain, rFaults>>
publication == <<pKind, pProvider, pJob, pCopy, pForge, pRun, pPassed, pWritten, pBudget>>
extension == <<xJob, xOwed, xLog, xTorn, xReceipts, xCurrent, xDrain, xApplied>>
commands == <<cGranted, cDenied, cQueue, cCommand, cTurn, cResults, cWorker, cRan>>
operations == <<oBroken, oRemote, oCheckout, oProcess, oLifecycle, oUpdate, oReply, oRestart,
                oWarning, oSilent, oVetted, oUnfinished, oEdits, oCommands>>
requests == <<qKind, qAnswered, qJournal, qJob, qAvailable, qMain, qPerformed, qAnswer>>
calls == <<uProvider, uCurrent, uRun, uChild, uLeft, uControl, uSessions, uNative,
           uContextualized, uOutcome, uRuns>>
notices == <<jProvider, jRecord, jGeneration, jPhase, jTodo, jCall, jClosed, jApplied, jHidden,
             jShown>>
allVars == <<part, faults, vars, threads, publication, extension, commands, operations, requests, calls, notices>>

R == INSTANCE TaskRunner WITH
        MaxTasks <- MaxWork, MaxAttempts <- TaskAttempts, Workers <- Threads,
        NoWorker <- NoTaskThread, job <- rJob, pending <- rPending, running <- rRunning,
        paused <- rPaused, history <- rHistory, reconciliation <- rReconciliation,
        leases <- rLeases, alive <- rAlive, thread <- rThread, registered <- rRegistered,
        signalled <- rSignalled, main <- rMain, faults <- rFaults
P == INSTANCE Publication WITH
        MaxAttempts <- TaskAttempts, kind <- pKind, provider <- pProvider, job <- pJob,
        copy <- pCopy, forge <- pForge, run <- pRun, passed <- pPassed, written <- pWritten,
        budget <- pBudget
X == INSTANCE ExtensionTasks WITH
        MaxTasks <- MaxEventful, job <- xJob, owed <- xOwed, log <- xLog, torn <- xTorn,
        receipts <- xReceipts, current <- xCurrent, drain <- xDrain, applied <- xApplied
C == INSTANCE Commands WITH
        granted <- cGranted, denied <- cDenied, queue <- cQueue, command <- cCommand,
        turn <- cTurn, results <- cResults, worker <- cWorker, ran <- cRan
O == INSTANCE Operations WITH
        broken <- oBroken, remote <- oRemote, checkout <- oCheckout, process <- oProcess,
        lifecycle <- oLifecycle, update <- oUpdate, reply <- oReply, restart <- oRestart,
        warning <- oWarning, silent <- oSilent, vetted <- oVetted, unfinished <- oUnfinished,
        edits <- oEdits, commands <- oCommands
Q == INSTANCE Requests WITH
        MaxTasks <- MaxRequested, kind <- qKind, answered <- qAnswered, journal <- qJournal,
        job <- qJob, available <- qAvailable, main <- qMain, performed <- qPerformed,
        answer <- qAnswer
U == INSTANCE RuntimeRuns WITH
        provider <- uProvider, current <- uCurrent, run <- uRun, child <- uChild, left <- uLeft,
        control <- uControl, sessions <- uSessions, native <- uNative,
        contextualized <- uContextualized, outcome <- uOutcome, runs <- uRuns
J == INSTANCE Notifications WITH
        Keys <- Sends \cup FinalEdits, Edits <- FinalEdits, Tracked <- FinalEdits,
        Terminal <- FinalEdits, Deferred <- {}, NoKey <- NoNotice,
        Providers <- [durable : BOOLEAN, idempotent : BOOLEAN, reconcilable : BOOLEAN],
        MaxAttempts <- TaskAttempts, AttemptBound <- ClaimBound, provider <- jProvider,
        record <- jRecord, generation <- jGeneration, phase <- jPhase, todo <- jTodo,
        call <- jCall, closed <- jClosed, applied <- jApplied, hidden <- jHidden,
        shown <- jShown

\* The components that do not run have one first state.
Fixed(x, S) == x = CHOOSE y \in S : TRUE

MCInit ==
    /\ part \in Parts
    /\ Init /\ R!Init /\ X!Init /\ C!Init /\ O!Init
    /\ P!Init /\ (part # "publication" => pKind = "edit" /\ Fixed(pProvider, P!Providers))
    /\ Q!Init /\ (part # "requests" => Fixed(qKind, [1..Messages -> {"do", "task", "talk"}]))
    /\ U!Init /\ (part # "calls" => Fixed(uProvider, U!Providers))
    /\ J!Init /\ (part # "notices" =>
                     jProvider = [durable |-> FALSE, idempotent |-> FALSE, reconcilable |-> FALSE])
    /\ (part # "commands" => cGranted = {} /\ cDenied = {})
    /\ (part # "operations" => oBroken = {})

InInbox(A) ==
    part = "inbox" /\ A /\ UNCHANGED <<part, faults, threads, publication, extension, commands, operations, requests, calls, notices>>
InTaskRunner(A) ==
    part = "threads" /\ A /\ UNCHANGED <<part, vars, faults, publication, extension, commands, operations, requests, calls, notices>>
InPublication(A) ==
    part = "publication" /\ A /\ UNCHANGED <<part, vars, faults, threads, extension, commands, operations, requests, calls, notices>>
InExtensionTasks(A) ==
    part = "extension" /\ A /\ UNCHANGED <<part, vars, threads, publication, commands, operations, requests, calls, notices>>
InCommands(A) ==
    part = "commands" /\ A /\ UNCHANGED <<part, vars, threads, publication, extension, operations, requests, calls, notices>>
InOperations(A) ==
    part = "operations" /\ A /\ UNCHANGED <<part, vars, threads, publication, extension, commands, requests, calls, notices>>
InRequests(A) ==
    part = "requests" /\ A /\ UNCHANGED <<part, vars, threads, publication, extension, commands, operations, calls, notices>>
InRuntimeRuns(A) ==
    part = "calls" /\ A /\ UNCHANGED <<part, vars, faults, threads, publication, extension, commands, operations, requests, notices>>
InNotifications(A) ==
    part = "notices" /\ A /\ UNCHANGED <<part, vars, faults, threads, publication, extension, commands, operations, requests, calls>>

MCNext ==
    \/ InInbox(Next) \/ InTaskRunner(R!Next) \/ InPublication(P!Next)
    \/ InExtensionTasks(X!Next) \/ InCommands(C!Next) \/ InOperations(O!Next)
    \/ InRequests(Q!Next) \/ InRuntimeRuns(U!Next) \/ InNotifications(J!Next)

\* The fairness of each component.
MCSpec ==
    /\ MCInit /\ [][MCNext]_allVars
    /\ WF_vars(part = "inbox" /\ DaemonStep)
    /\ WF_threads(part = "threads" /\ R!MainStep)
    /\ WF_threads(part = "threads" /\ R!SchedulerStep)
    /\ WF_threads(part = "threads" /\ R!DelayElapses)
    /\ \A w \in Threads : WF_threads(part = "threads" /\ R!ThreadStep(w))
    /\ WF_publication(part = "publication" /\ P!Worker)
    /\ WF_extension(part = "extension" /\ (X!AppendEvent \/ X!AppendFails))
    /\ \A p \in X!Processes : WF_extension(part = "extension" /\ X!Draining(p))
    /\ WF_operations(part = "operations" /\ O!Progress)
    /\ WF_requests(part = "requests" /\ Q!Handler)
    /\ WF_requests(part = "requests" /\ Q!Claim)
    /\ WF_requests(part = "requests" /\ Q!Finish)
    /\ WF_requests(part = "requests" /\ Q!AccessRestored)
    /\ WF_calls(part = "calls" /\ U!Step)
    /\ WF_calls(part = "calls" /\ (U!WaitedTooLong \/ U!Deadline))
    /\ WF_notices(part = "notices" /\ J!Start /\ UNCHANGED jProvider)
    /\ WF_notices(part = "notices" /\ J!DaemonStep /\ UNCHANGED jProvider)

-----------------------------------------------------------------------------

\* The state of each component is well formed.
StatesAreTyped ==
    /\ part = "inbox" => TypeOK
    /\ part = "threads" => R!TypeOK
    /\ part = "publication" => P!TypeOK
    /\ part = "extension" => X!TypeOK
    /\ part = "commands" => C!TypeOK
    /\ part = "operations" => O!TypeOK
    /\ part = "requests" => Q!TypeOK
    /\ part = "calls" => U!TypeOK

\* Publication: the forge has what was validated, a recorded capture is published or
\* kept, and a task that needs a review completes with one.
CapturesArePublished ==
    /\ [](part = "publication" => P!ReviewedIsValidated)
    /\ P!PublishesWhatWasRecorded /\ P!RecordedCaptureSurvives /\ P!CompletedIsReviewed

\* Extensions: their events come in order, and a failure is answered once.
ExtensionsHearInOrder == part = "extension" => X!GivenInOrder /\ X!RerunOnce

\* Commands and operations: nothing runs unauthorized, is queued twice, or runs unvetted.
WorkIsGoverned ==
    /\ part = "commands" => C!NothingRunsUnauthorized /\ C!RequestsAreQueuedOnce
    /\ part = "operations" => O!RunningIsVetted /\ O!StatusIsTrue

\* Requests and calls: a conversation repeats nothing, hides nothing, ends with the work
\* it starts, is cancelled only by the user and keeps its startup context.
ConversationsAreFaithful ==
    /\ part = "requests" => Q!ActionsHappenOnce /\ Q!NothingIsHidden /\ Q!WorkEndsTheTurn
    /\ part = "calls" => U!CancelledMeansAsked /\ U!NoChildIsLeft /\ U!ConversationKnowsItself

\* Operations and calls: a daemon that ended silently is reported, and a late answer
\* of the runtime is refused.
EndsAreReported == O!SilentEndIsReported /\ U!LateAnswersAreRefused

\* Tasks settle and calls of the runtime end: see TaskRunner, Publication, RuntimeRuns.
TasksSettle ==
    (\/ part = "threads" /\ R!Unsettled
     \/ part = "publication" /\ P!Unsettled
     \/ part = "calls" /\ U!Active)
    ~> (/\ part = "threads" => ~R!Unsettled
        /\ part = "publication" => ~P!Unsettled
        /\ part = "calls" => ~U!Active)

\* The channel advances, messages are answered, events are delivered, a restart that is
\* wanted happens and what a daemon that ended left in flight is resolved: see Inbox,
\* Requests, ExtensionTasks, Operations, Notifications.
NobodyWaits ==
    (\/ part = "inbox" /\ Behind
     \/ part = "requests" /\ Q!Unanswered # {}
     \/ part = "extension" /\ X!Undelivered
     \/ part = "operations" /\ oRestart.wanted
     \/ part = "notices" /\ J!Abandoned # {})
    ~> (/\ part = "inbox" => ~Behind
        /\ part = "requests" => Q!Unanswered = {}
        /\ part = "extension" => ~X!Undelivered
        /\ part = "operations" => oProcess.at = "starting"
        /\ part = "notices" => J!Abandoned = {})
=============================================================================

----------------------------- MODULE RuntimeRuns -----------------------------
(***************************************************************************)
(* Invocations of the agent runtime: the execution control and its epoch   *)
(* monitor (app/effects.py, provider-kit contracts.py), the two providers  *)
(* that start a CLI as a child process and keep resumable sessions         *)
(* (brain.py with codex_sessions.py, and our_ark_claude/core.py), and the  *)
(* startup context that app/core.py adds to a conversation.                *)
(*                                                                         *)
(* Conversation turns ("respond") and task work ("act") use different      *)
(* session keys; one invocation is followed at a time, since every field   *)
(* here belongs to one session key.  A task whose validation failed runs   *)
(* again with the control it has (between: while it is validated).  A      *)
(* deadline, a stop by the user and a new daemon may come at any time.     *)
(***************************************************************************)
EXTENDS Naturals, FiniteSets

CONSTANTS MaxRuns,    \* bound on invocations
          MaxSessions \* bound on the sessions the CLI creates

Providers == {"codex", "claude"}
Modes     == {"respond", "act"}

VARIABLES
    provider,  \* the configured runtime
    current,   \* this daemon's epoch is the latest
    run,       \* the invocation in progress
    child,     \* the CLI process: none, working, answered, or how it failed
    left,      \* child processes still working for an invocation that is over
    control,   \* the events of the execution control
    sessions,  \* saved session id of each mode's key; 0: none
    native,    \* the CLI's sessions: not created, with or without context, dropped
    contextualized, \* the conversation has had its startup context (in memory)
    outcome,   \* how the last invocation ended
    runs

vars == <<provider, current, run, child, left, control, sessions, native,
          contextualized, outcome, runs>>

SessionIds == 1 .. MaxSessions
Failures   == {"access", "session", "other"}
NoRun      == [at |-> "idle", mode |-> "respond", session |-> 0, context |-> FALSE,
               marks |-> FALSE, error |-> "none"]
NoControl  == [cancelled |-> FALSE, expired |-> FALSE, asked |-> FALSE]

Init == /\ provider \in Providers
        /\ current = TRUE
        /\ run = NoRun /\ child = "none" /\ left = 0
        /\ control = NoControl
        /\ sessions = [m \in Modes |-> 0]
        /\ native = [s \in SessionIds |-> "none"]
        /\ contextualized = FALSE /\ outcome = "none" /\ runs = 0

-----------------------------------------------------------------------------
(* The execution control: a deadline that expired wins over a cancellation. *)
TimedOut  == control.expired
Cancelled == control.cancelled /\ ~TimedOut
Stopped   == TimedOut \/ Cancelled
StopReason == IF TimedOut THEN "timed_out" ELSE "cancelled"

Loaded(mode) == sessions[mode]
Recorded(id) == sessions' = [sessions EXCEPT ![run.mode] = id]
Forgotten    == sessions' = [sessions EXCEPT ![run.mode] = 0]

(* An invocation that was authorized under the current epoch: with the saved *)
(* session, and the startup context in front of the request if it is added.  *)
Begin(mode, adds) ==
    /\ runs < MaxRuns /\ current
    /\ runs' = runs + 1
    /\ run' = [NoRun EXCEPT !.at = "checked", !.mode = mode, !.session = Loaded(mode),
                            !.context = adds, !.marks = adds]
    /\ outcome' = "none"
    /\ UNCHANGED <<provider, current, child, left, sessions, native, contextualized>>

(* A turn of a conversation, which gets the context once, or a new task.     *)
Invoke(mode) ==
    /\ run.at = "idle"
    /\ Begin(mode, mode = "respond" /\ ~contextualized)
    /\ control' = NoControl

(* A note on what a command did is given to the session of the conversation, *)
(* by a turn that neither adds the context nor marks it as added.            *)
Sync == run.at = "idle" /\ Begin("respond", FALSE) /\ control' = NoControl

(* Validation failed: the task runs again under the same control, as often   *)
(* as the configuration lets it (bound: MaxRuns) ...                         *)
Repair == run.at = "between" /\ ~Stopped /\ Begin("act", FALSE) /\ UNCHANGED control

(* ... or it ends: validated, given up, or stopped meanwhile.                *)
TaskEnds ==
    /\ run.at = "between"
    /\ run' = NoRun
    /\ outcome' = IF ~current THEN "stale" ELSE IF Stopped THEN StopReason ELSE outcome
    /\ UNCHANGED <<provider, current, child, left, control, sessions, native, contextualized, runs>>

InInvocation == UNCHANGED <<provider, current, control, contextualized, outcome, runs>>
Ends(result) == run' = [run EXCEPT !.at = "ending", !.error = result]

(* The control is looked at, then the CLI started, with a session to resume *)
(* or without; an executable that is missing counts as a failed run.        *)
Launch(context) ==
    /\ run.at = "checked"
    /\ \/ Stopped /\ Ends(StopReason) /\ UNCHANGED child
       \/ /\ ~Stopped
          /\ child' \in {"working", "other"}
          /\ run' = [run EXCEPT !.at = "running", !.context = context]
    /\ UNCHANGED <<left, sessions, native>> /\ InInvocation

(* Codex puts the startup context into every first prompt of a session.     *)
FirstPrompt  == run.session = 0
CodexStarts  == provider = "codex" /\ Launch(run.context \/ FirstPrompt)
ClaudeStarts == provider = "claude" /\ Launch(run.context)

(* The CLI: it answers, or fails; a dropped session cannot be resumed.      *)
Created == {s \in SessionIds : native[s] # "none"}
ChildAnswers ==
    /\ child = "working"
    /\ \/ /\ run.session # 0 /\ native[run.session] # "dropped"
          /\ native' = [native EXCEPT ![run.session] = IF run.context THEN "context" ELSE @]
          /\ UNCHANGED run
       \/ /\ run.session = 0 /\ Cardinality(Created) < MaxSessions
          /\ LET s == CHOOSE s \in SessionIds \ Created : TRUE IN
               /\ native' = [native EXCEPT ![s] = IF run.context THEN "context" ELSE "plain"]
               /\ run' = [run EXCEPT !.session = s]
    /\ child' = "answered"
    /\ UNCHANGED <<left, sessions>> /\ InInvocation

(* How a run failed: Codex tells missing access from the rest, Claude also   *)
(* a session that cannot be resumed.                                        *)
Fails(failure) ==
    /\ child = "working"
    /\ child' = failure
    /\ UNCHANGED <<run, left, sessions, native>> /\ InInvocation

CodexChildFails == provider = "codex" /\ (Fails("access") \/ Fails("other"))
ClaudeChildFails ==
    /\ provider = "claude"
    /\ \/ Fails("access") \/ Fails("other")
       \/ run.session # 0 /\ Fails("session")

Waiting(p) == provider = p /\ run.at = "running" /\ child = "working"

StopChild(result) ==
    /\ child' = "none"
    /\ Ends(result)
    /\ UNCHANGED <<left, sessions, native>> /\ InInvocation

(* Fault: only a cancellation is looked at while the child works. *)
CodexPolls_NoDeadline == Waiting("codex") /\ Cancelled /\ StopChild("cancelled")

(* The waiting loops: a run whose deadline passed or that was cancelled has *)
(* its child stopped.                                                       *)
CodexPolls  == Waiting("codex") /\ Stopped /\ StopChild(StopReason)
ClaudePolls == Waiting("claude") /\ Stopped /\ StopChild(StopReason)

(* A conversation has no deadline of its own: Codex is given the time that  *)
(* a task may take, Claude a time that it knows itself.                     *)
CodexWaitedTooLong  == Waiting("codex") /\ run.mode = "respond" /\ StopChild("timed_out")
ClaudeWaitedTooLong == Waiting("claude") /\ run.mode = "respond" /\ StopChild("timed_out")

(* A progress report of task work, sent after the loop has looked at the    *)
(* control, raises when the task lost its claim to /stop meanwhile or the   *)
(* daemon its epoch.                                                        *)
ProgressRaises == run.mode = "act" /\ (~current \/ control.asked)

(* Codex has no handler for it and leaves the child working ...             *)
CodexProgressFails ==
    /\ Waiting("codex") /\ ProgressRaises
    /\ child' = "none"
    /\ left' = left + 1
    /\ Ends("failed")
    /\ UNCHANGED <<sessions, native>> /\ InInvocation

(* ... Claude stops the child whatever is raised.                           *)
ClaudeProgressFails == Waiting("claude") /\ ProgressRaises /\ StopChild("failed")

LeftChildEnds == /\ left > 0 /\ left' = left - 1
                 /\ UNCHANGED <<run, child, sessions, native>> /\ InInvocation

(* The answer: Codex records the session and returns it ...                 *)
Answer ==
    /\ Recorded(run.session)
    /\ run' = [run EXCEPT !.at = "accepting"]

HasAnswer(p) == provider = p /\ run.at = "running" /\ child = "answered"

CodexAnswers ==
    /\ HasAnswer("codex")
    /\ Answer
    /\ child' = "none"
    /\ UNCHANGED <<left, native>> /\ InInvocation

(* ... Claude looks at the control first.                                   *)
ClaudeAnswers ==
    /\ HasAnswer("claude")
    /\ \/ Stopped /\ Ends(StopReason) /\ UNCHANGED sessions
       \/ ~Stopped /\ Answer
    /\ child' = "none"
    /\ UNCHANGED <<left, native>> /\ InInvocation

(* A failed run.  A resumed session that failed is forgotten and the        *)
(* request is run once more without one, by Codex for every failure but     *)
(* missing access, by Claude when the session could not be resumed.         *)
RunAgain ==
    /\ Forgotten
    /\ run' = [run EXCEPT !.at = "checked", !.session = 0]

GiveUp == Ends(IF child = "access" THEN "access" ELSE "failed") /\ UNCHANGED sessions

Failed(p, recoverable) ==
    /\ provider = p /\ run.at = "running" /\ child \in Failures
    /\ IF run.session # 0 /\ child \in recoverable THEN RunAgain ELSE GiveUp
    /\ child' = "none"
    /\ UNCHANGED <<left, native>> /\ InInvocation

CodexRecovers  == Failed("codex", {"session", "other"})
ClaudeRecovers == Failed("claude", {"session"})

(* Fault: the result is accepted as it comes. *)
FinalCheck_None == Ends("answered")

(* invoke_runtime_respond / _action: the control is looked at once more.    *)
FinalCheck == Ends(IF Stopped THEN StopReason ELSE "answered")

Accept == /\ run.at = "accepting"
          /\ FinalCheck
          /\ UNCHANGED <<child, left, sessions, native>> /\ InInvocation

(* runtime_control: whatever the run came to, it counts only for a daemon   *)
(* that is still current.                                                   *)
Counts == current /\ run.error = "answered"

Return ==
    /\ run.at = "ending"
    /\ outcome' = IF current THEN run.error ELSE "stale"
    /\ contextualized' = (contextualized \/ (Counts /\ run.marks))
    /\ run' = IF Counts /\ run.mode = "act"
              THEN [NoRun EXCEPT !.at = "between", !.mode = "act"]
              ELSE NoRun
    /\ UNCHANGED <<provider, current, child, left, control, sessions, native, runs>>

-----------------------------------------------------------------------------
(* Around the run: the user stops a task, the deadline expires (it sets     *)
(* both events), a new daemon starts and the monitor notices, the CLI drops *)
(* a session, the daemon ends and starts again.                             *)

(* Every invocation ends, even if the CLI hangs and nobody stops it: this    *)
(* does not last.                                                           *)
Active == run.at # "idle"

Controls == UNCHANGED <<provider, current, run, child, left, sessions, native,
                        contextualized, outcome, runs>>

Stop == /\ Active /\ run.mode = "act" /\ ~control.asked
        /\ control' = [control EXCEPT !.cancelled = TRUE, !.asked = TRUE]
        /\ Controls

Deadline == /\ Active /\ run.mode = "act" /\ ~control.expired
            /\ control' = [control EXCEPT !.expired = TRUE, !.cancelled = TRUE]
            /\ Controls

Replaced == /\ current /\ current' = FALSE
            /\ UNCHANGED <<provider, run, child, left, control, sessions, native,
                           contextualized, outcome, runs>>

MonitorNotices == /\ Active /\ run.at # "between" /\ ~current /\ ~control.cancelled
                  /\ control' = [control EXCEPT !.cancelled = TRUE]
                  /\ Controls

SessionDropped == /\ \E s \in Created : native[s] # "dropped" /\ s # run.session
                       /\ native' = [native EXCEPT ![s] = "dropped"]
                  /\ UNCHANGED <<provider, current, run, child, left, control, sessions,
                                 contextualized, outcome, runs>>

(* The process ends at any step and starts again, with what is on disk: the *)
(* service manager ends the children with it.                               *)
Restart == /\ Active \/ contextualized \/ ~current
           /\ current' = TRUE /\ contextualized' = FALSE
           /\ run' = NoRun /\ child' = "none" /\ left' = 0 /\ control' = NoControl
           /\ outcome' = "none"
           /\ UNCHANGED <<provider, sessions, native, runs>>

Step == \/ CodexStarts \/ CodexPolls \/ CodexAnswers \/ CodexRecovers
        \/ ClaudeStarts \/ ClaudePolls \/ ClaudeAnswers \/ ClaudeRecovers
        \/ Accept \/ Return \/ TaskEnds
WaitedTooLong == CodexWaitedTooLong \/ ClaudeWaitedTooLong

Next == \/ \E mode \in Modes : Invoke(mode)
        \/ Sync \/ Repair
        \/ Step \/ WaitedTooLong
        \/ ChildAnswers \/ CodexChildFails \/ ClaudeChildFails
        \/ CodexProgressFails \/ ClaudeProgressFails \/ LeftChildEnds
        \/ Stop \/ Deadline \/ Replaced \/ MonitorNotices \/ SessionDropped \/ Restart

Spec == Init /\ [][Next]_vars
FairSpec == Spec /\ WF_vars(Step) /\ WF_vars(WaitedTooLong \/ Deadline)

-----------------------------------------------------------------------------
TypeOK ==
    /\ provider \in Providers /\ current \in BOOLEAN
    /\ run.at \in {"idle", "checked", "running", "accepting", "ending", "between"}
    /\ run.mode \in Modes /\ run.session \in 0 .. MaxSessions
    /\ child \in {"none", "working", "answered"} \cup Failures
    /\ sessions \in [Modes -> 0 .. MaxSessions]
    /\ native \in [SessionIds -> {"none", "plain", "context", "dropped"}]
    /\ outcome \in {"none", "answered", "cancelled", "timed_out", "access", "failed", "stale"}

(* A run is reported as cancelled only when the user stopped it: the same   *)
(* event is set by the deadline and by the epoch monitor, and those runs    *)
(* end as timed out and as stale, so a task is never finalized as cancelled *)
(* because another daemon took over.                                        *)
CancelledMeansAsked == outcome = "cancelled" => control.asked

(* "Enoch checks the control before invocation and again before accepting   *)
(* the result, so a result that arrives after cancellation or timeout is    *)
(* not treated as successful" (docs/providers.md), whichever provider       *)
(* produced it and although Codex does not look at the control again.       *)
LateAnswersAreRefused ==
    [][run.at # "ending" /\ run'.at = "ending" /\ run'.error = "answered" => ~Stopped]_vars

(* The Claude provider leaves no child process working when its invocation  *)
(* is over, whatever ended it.                                              *)
NoChildIsLeft == provider = "claude" => left = 0

(* With Codex, the session a conversation resumes has been given the        *)
(* startup context, whichever turn began it, and also when an earlier       *)
(* session was dropped or replaced or the daemon has restarted since.       *)
ConversationKnowsItself ==
    provider = "codex" /\ sessions["respond"] # 0
      => native[sessions["respond"]] \in {"context", "dropped"}
=============================================================================

------------------------------ MODULE Outbound ------------------------------
(***************************************************************************)
(* The files that runs of the agent runtime name, and the chat replies     *)
(* that carry them: outbound.py, _capture_runtime_output, handle_event and *)
(* _finish_chat_event of app/core.py, the receipts of app/inbox.py and     *)
(* _verified_artifact of the Slack library.                                *)
(*                                                                         *)
(* The main thread handles the messages and the worker thread the tasks of *)
(* one process; each carries what it captured in context variables of its  *)
(* own, and both import files into one content-addressed store, where the  *)
(* name of the temporary file is that of the content and the process.  A   *)
(* file stands for its content.                                            *)
(***************************************************************************)
EXTENDS Naturals, FiniteSets

CONSTANTS Files,     \* contents that the runs name
          Limit,     \* MAX_OUTBOUND_ATTACHMENTS, and the limit of a notification; 16 in the code
          Replies,   \* bound: messages, and tasks, by thread
          MaxRuns,   \* bound: runs of the runtime for one of them; MAX_ACTIONS + 1 in the code
          MaxFaults  \* bound: refused files, errors and ends of the process

VARIABLES stored,    \* the artifact of each content
          temp,      \* its temporary file
          thread,    \* what each thread is at
          sent,      \* how many replies each thread is done with
          planned,   \* runs of the reply whose text is journaled (messages only)
          receipt,   \* what is recorded to be sent with the reply
          named,     \* ghost: the files that runs for the reply named
          faults

vars == <<stored, temp, thread, sent, planned, receipt, named, faults>>
disk == <<stored, temp>>
chat == <<sent, planned, receipt, named>>

Threads == {"main", "worker"}
None == 0
NoReply == [status |-> "none", files |-> {}]
At(step) == [step |-> step, runs |-> 0, todo |-> {}, got |-> {}, file |-> None, into |-> "none",
             files |-> {}, refused |-> {}, asked |-> {}]

Init ==
    /\ stored = [f \in Files |-> "absent"] /\ temp = [f \in Files |-> "absent"]
    /\ thread = [p \in Threads |-> At("idle")]
    /\ sent = [p \in Threads |-> 0] /\ planned = [p \in Threads |-> 0]
    /\ receipt = [p \in Threads |-> NoReply]
    /\ named = [p \in Threads |-> {}]
    /\ faults = MaxFaults

Fault == faults > 0 /\ faults' = faults - 1

-----------------------------------------------------------------------------
(* The reply.                                                              *)

\* _load_inbox parses every receipt, and refuses the file for one of them.
Readable(p) == Cardinality(receipt[p].files) <= Limit

\* The replies of a thread are made one after the other.
Done(p) ==
    /\ sent' = [sent EXCEPT ![p] = @ + 1] /\ planned' = [planned EXCEPT ![p] = 0]
    /\ receipt' = [receipt EXCEPT ![p] = NoReply] /\ named' = [named EXCEPT ![p] = {}]

\* The context variables are empty when the event, or the task, begins.
Reset(p) == [thread EXCEPT ![p] = At("run")]

Begin(p) ==
    /\ thread[p].step = "idle" /\ sent[p] < Replies[p] /\ receipt[p].status = "none"
    /\ p = "main" => Readable(p)
    /\ thread' = Reset(p)
    /\ UNCHANGED <<disk, chat, faults>>

\* A turn of a conversation, or a run of the task's work: the runtime names files.
Run(p) ==
    /\ thread[p].step = "run" /\ thread[p].runs < MaxRuns /\ thread[p].runs >= planned[p]
    /\ \E candidates \in SUBSET Files :
          /\ thread' = [thread EXCEPT ![p].step = "candidate", ![p].runs = @ + 1,
                                      ![p].todo = candidates, ![p].got = {},
                                      ![p].asked = @ \cup candidates]
          /\ named' = [named EXCEPT ![p] = @ \cup candidates]
    /\ UNCHANGED <<disk, sent, planned, receipt, faults>>

\* A turn that is journaled is not asked of the runtime again.
Replayed(p) ==
    /\ thread[p].step = "run" /\ thread[p].runs < planned[p]
    /\ thread' = [thread EXCEPT ![p].runs = @ + 1]
    /\ UNCHANGED <<disk, chat, faults>>

\* The dictionary by id that _capture_runtime_output merges into.
Merged(t) == [t EXCEPT !.files = @ \cup t.got, !.got = {}, !.step = "plan"]

Capture(p) ==
    /\ thread[p].step = "candidate" /\ thread[p].todo = {}
    /\ thread' = [thread EXCEPT ![p] = Merged(@)]
    /\ UNCHANGED <<disk, chat, faults>>

\* journal.plan records the text of the turn, without its files.
Plan(p) ==
    /\ thread[p].step = "plan"
    /\ planned' = IF p = "main" THEN [planned EXCEPT ![p] = thread[p].runs] ELSE planned
    /\ thread' = [thread EXCEPT ![p].step = "run"]
    /\ UNCHANGED <<disk, sent, receipt, named, faults>>

\* complete_event, or the final message of the task.
Complete(p) ==
    /\ thread[p].step = "run" /\ thread[p].runs > 0
    /\ receipt' = [receipt EXCEPT ![p] = [status |-> "completed", files |-> thread[p].files]]
    /\ thread' = [thread EXCEPT ![p].step = "send"]
    /\ UNCHANGED <<disk, sent, planned, named, faults>>

\* With its files, when _verified_artifact finds each of them as it was imported, and else
\* as text that says so: nothing is recorded of which it was.
Send(p) ==
    /\ thread[p].step = "send" /\ Cardinality(receipt[p].files) <= Limit
    /\ Done(p)
    /\ thread' = [thread EXCEPT ![p].step = "idle"]
    /\ UNCHANGED <<disk, faults>>

\* NotificationIntent refuses the files.  The message stays completed and is
\* delivered again; the report of a task is given up.
NotSent(p) ==
    /\ thread[p].step = "send" /\ Cardinality(receipt[p].files) > Limit
    /\ IF p = "main" THEN UNCHANGED <<sent, planned, receipt, named>> ELSE Done(p)
    /\ thread' = [thread EXCEPT ![p] = At("idle")]
    /\ UNCHANGED <<disk, faults>>

\* A message that is completed is only sent.
Redeliver ==
    /\ thread["main"].step = "idle" /\ Readable("main") /\ receipt["main"].status = "completed"
    /\ thread' = [thread EXCEPT !["main"] = At("send")]
    /\ UNCHANGED <<disk, chat, faults>>

-----------------------------------------------------------------------------
(* import_outbound_artifact, for one candidate after the other.            *)

Refused(t) == [t EXCEPT !.step = "candidate", !.refused = @ \cup {t.file}, !.file = None, !.into = "none"]
Attached(t) == [t EXCEPT !.step = "candidate", !.got = @ \cup {t.file}, !.file = None, !.into = "none"]

OverLimit(t, f) == [t EXCEPT !.todo = @ \ {f}, !.refused = @ \cup {f}]

\* The file is read, and its content has a destination, or not.
Look(p) ==
    /\ thread[p].step = "candidate"
    /\ \E f \in thread[p].todo :
          LET t == [thread[p] EXCEPT !.todo = @ \ {f}, !.file = f] IN
          thread' = [thread EXCEPT ![p] =
                        IF Cardinality(@.got) >= Limit THEN OverLimit(@, f)
                        ELSE IF stored[f] # "absent" THEN Attached(t) ELSE [t EXCEPT !.step = "open"]]
    /\ UNCHANGED <<disk, chat, faults>>

\* The file is not of the kind that may be sent, too large, or gone.
Refuse(p) ==
    /\ thread[p].step = "candidate" /\ Fault
    /\ \E f \in thread[p].todo :
          LET t == [thread[p] EXCEPT !.todo = @ \ {f}, !.file = f] IN
          thread' = [thread EXCEPT ![p] = Refused(t)]
    /\ UNCHANGED <<disk, chat>>

\* write_bytes opens the temporary file, of whichever thread, and empties it.
OpenTemp(p) ==
    /\ thread[p].step = "open"
    /\ temp' = [temp EXCEPT ![thread[p].file] = "partial"]
    /\ thread' = [thread EXCEPT ![p].step = "write", ![p].into = "temp"]
    /\ UNCHANGED <<stored, chat, faults>>

\* The content goes to the file that was opened, which may have moved since.
Write(p) ==
    /\ thread[p].step = "write"
    /\ temp' = IF thread[p].into = "temp" THEN [temp EXCEPT ![thread[p].file] = "whole"] ELSE temp
    /\ stored' = IF thread[p].into = "stored" THEN [stored EXCEPT ![thread[p].file] = "whole"] ELSE stored
    /\ thread' = [thread EXCEPT ![p].step = "replace"]
    /\ UNCHANGED <<chat, faults>>

\* What the other thread has open in the place of the temporary file.
Moved(p, to) ==
    [q \in Threads |-> IF q # p /\ thread[q].file = thread[p].file /\ thread[q].into = "temp"
                       THEN [thread[q] EXCEPT !.into = to] ELSE thread[q]]

\* chmod and os.replace; both fail when the temporary file is no longer there.
Replace(p) ==
    /\ thread[p].step = "replace"
    /\ LET f == thread[p].file IN
       IF temp[f] = "absent"
       THEN thread' = [thread EXCEPT ![p] = Refused(@)] /\ UNCHANGED disk
       ELSE /\ stored' = [stored EXCEPT ![f] = temp[f]] /\ temp' = [temp EXCEPT ![f] = "absent"]
            /\ thread' = [Moved(p, "stored") EXCEPT ![p].step = "unlink"]
    /\ UNCHANGED <<chat, faults>>

\* The finally clause removes what has the name of the temporary file by now.
Unlink(p) ==
    /\ thread[p].step = "unlink"
    /\ temp' = [temp EXCEPT ![thread[p].file] = "absent"]
    /\ thread' = [Moved(p, "gone") EXCEPT ![p] = Attached(@)]
    /\ UNCHANGED <<stored, chat, faults>>

-----------------------------------------------------------------------------
(* The process ends; another has another name for its temporary files, so  *)
(* what is left of them is of no use to it.  A message is delivered again  *)
(* and handled from its journal; a task is run again.                      *)

Crash ==
    /\ Fault
    /\ temp' = [f \in Files |-> "absent"]
    /\ thread' = [p \in Threads |-> At("idle")]
    /\ IF receipt["worker"].status = "completed" THEN Done("worker")
       ELSE UNCHANGED <<sent, planned, receipt, named>>
    /\ UNCHANGED stored

\* Handling the message fails: it is handled again, from its journal.
Failed ==
    /\ thread["main"].step = "run" /\ thread["main"].runs > 0 /\ Fault
    /\ thread' = [thread EXCEPT !["main"] = At("idle")]
    /\ UNCHANGED <<disk, chat>>

Next ==
    \/ \E p \in Threads :
          \/ Begin(p) \/ Run(p) \/ Replayed(p) \/ Capture(p) \/ Plan(p) \/ Complete(p) \/ Send(p)
          \/ NotSent(p) \/ Look(p) \/ Refuse(p) \/ OpenTemp(p) \/ Write(p) \/ Replace(p) \/ Unlink(p)
    \/ Redeliver \/ Crash \/ Failed

Spec == Init /\ [][Next]_vars

-----------------------------------------------------------------------------
(* Properties.                                                             *)

TypeOK ==
    /\ \A f \in Files : {stored[f], temp[f]} \subseteq {"absent", "partial", "whole"}
    /\ \A p \in Threads : thread[p].runs \in 0..MaxRuns /\ thread[p].file \in Files \cup {None}
    /\ \A p \in Threads : thread[p].got \cup thread[p].files \cup thread[p].refused \subseteq Files
    /\ \A p \in Threads : sent[p] \in 0..Replies[p] /\ planned[p] \in 0..MaxRuns
    /\ faults \in 0..MaxFaults

\* A reply carries files that runs for it named and no others, whatever the
\* thread handled before it, and each of them has an artifact in the store,
\* whatever the threads do to one another's temporary files
\* (_capture_runtime_output, import_outbound_artifact).
RepliesCarryTheirFiles ==
    \A p \in Threads :
        receipt[p].files \subseteq named[p] /\ \A f \in receipt[p].files : stored[f] # "absent"

\* While a reply is handled, every file that a run named is attached to it,
\* still to be looked at, or counted in the note about files that were not sent.
FilesAreAccountedFor ==
    \A p \in Threads :
        LET t == thread[p] IN
        t.step \notin {"idle", "send"}
        => t.asked = t.files \cup t.got \cup t.todo \cup t.refused \cup ({t.file} \ {None})

\* provider-kit contracts.py:349: attachments of a notification are verified
\* and bounded; so is what a reply is recorded with.
RepliesAreBounded ==
    \A p \in Threads : Cardinality(receipt[p].files) <= Limit
=============================================================================

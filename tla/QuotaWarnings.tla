---------------------------- MODULE QuotaWarnings ----------------------------
(***************************************************************************)
(* The warnings about low account quota (quota_warnings.py, quota.py and   *)
(* their wiring in app/core.py): a background thread reads the active      *)
(* runtime's quota once per interval, writes the warning it owes to        *)
(* quota_warnings.json, hands it to the durable notification service, and  *)
(* writes down the outcome.  One account window is modelled, with one      *)
(* owner conversation; Notifications.tla models the service itself, which  *)
(* is represented here by the ledger record of each notification key.      *)
(*                                                                         *)
(* One unit of time is the polling interval, which is also the tolerance   *)
(* for a reset time that moves (60 s both).  The text of a warning is      *)
(* represented by the time of observation printed in it.                   *)
(***************************************************************************)
EXTENDS Integers, Sequences

CONSTANTS MaxTime,    \* bound on the clock
          Length,     \* length of a quota window
          Jitter,     \* by how much a reported reset time may be early (0 or 1)
          MaxMoves,   \* bound on the changes of the remaining quota
          MaxFaults   \* bound on failed sends, failed reads and process ends

VARIABLES
    now,      \* wall clock
    account,  \* the provider's truth: window number, remaining percentage, end
    entry,    \* quota_warnings.json: the record of this window, None before the first
    ledger,   \* notification records, by key <<cycle, tier>>, of those that were sent
    monitor,  \* the check in progress: step, snapshot, time of the check, intent
    enabled,  \* warnings on and an owner conversation configured
    chat,     \* the warnings of one window that reached the conversation, in order
    moves, faults

vars == <<now, account, entry, ledger, monitor, enabled, chat, moves, faults>>

None == -1

THRESHOLDS == {10, 5, 1}
Balances   == {12, 9, 4}
RESET_TOLERANCE_SECONDS == 1

Keys == Nat \X THRESHOLDS
NoRecord == [status |-> "none", text |-> None]
Idle == [step |-> "waiting", remaining |-> None, reset |-> None, window |-> 0,
         key |-> <<0, 0>>]

Init == /\ now = 0
        /\ account = [window |-> 1, remaining |-> 12, ends |-> Length]
        /\ entry = [cycle |-> 0, notified |-> None, pending |-> None, text |-> None,
                    drafted |-> 0, terminal |-> FALSE, reset |-> None, remaining |-> None]
        /\ ledger = [k \in {} |-> NoRecord]
        /\ monitor = Idle
        /\ enabled = TRUE /\ chat = <<>> /\ moves = 0 /\ faults = 0

-----------------------------------------------------------------------------
(* The account: its balance moves either way while a window lasts (other    *)
(* clients of the account, rolling usage), and a window ends at its time or *)
(* is reset early by the provider.                                          *)

Spend == /\ moves < MaxMoves
         /\ \E r \in Balances \ {account.remaining} :
              account' = [account EXCEPT !.remaining = r]
         /\ moves' = moves + 1
         /\ UNCHANGED <<now, entry, ledger, monitor, enabled, chat, faults>>

NextWindow(time) == [window |-> account.window + 1, remaining |-> 12, ends |-> time + Length]

Tick == /\ now < MaxTime
        /\ monitor.step \in {"waiting", "reading"}
        /\ now' = now + 1
        /\ account' = IF now + 1 >= account.ends THEN NextWindow(now + 1) ELSE account
        /\ UNCHANGED <<entry, ledger, monitor, enabled, chat, moves, faults>>

EarlyReset == /\ moves < MaxMoves /\ now > 0 /\ account.ends + 1 + Jitter < now + Length
              /\ moves' = moves + 1
              /\ account' = NextWindow(now)
              /\ UNCHANGED <<now, entry, ledger, monitor, enabled, chat, faults>>

Switch == /\ moves < MaxMoves
          /\ moves' = moves + 1
          /\ enabled' = ~enabled
          /\ UNCHANGED <<now, account, entry, ledger, monitor, chat, faults>>

-----------------------------------------------------------------------------
(* quota_snapshots: the runtime answers with the balance and a reset time   *)
(* that may be missing or slightly early, or the query fails.               *)

Collect == /\ monitor.step = "waiting" /\ enabled
           /\ \/ \E reset \in {None} \cup account.ends - Jitter .. account.ends :
                   /\ monitor' = [Idle EXCEPT !.step = "reading", !.reset = reset,
                                       !.remaining = account.remaining,
                                       !.window = account.window]
                   /\ UNCHANGED faults
              \/ faults < MaxFaults /\ faults' = faults + 1 /\ UNCHANGED monitor
           /\ UNCHANGED <<now, account, entry, ledger, enabled, chat, moves>>

(* min((threshold for threshold in THRESHOLDS if remaining <= threshold)) *)
Tier(remaining) ==
    IF \E t \in THRESHOLDS : remaining <= t
    THEN CHOOSE t \in THRESHOLDS :
           remaining <= t /\ \A u \in THRESHOLDS : remaining <= u => t <= u
    ELSE None

Record(key) == IF key \in DOMAIN ledger THEN ledger[key] ELSE NoRecord

(* A pending warning whose delivery was recorded by the notification        *)
(* service, and not here before the process ended, is settled first.        *)
Reconciled(e) ==
    LET status == IF e.pending = None THEN "none" ELSE Record(<<e.cycle, e.pending>>).status
    IN  CASE status = "delivered" -> [e EXCEPT !.notified = e.pending, !.pending = None,
                                               !.text = None, !.drafted = 0, !.terminal = FALSE]
          [] status = "terminal"  -> [e EXCEPT !.terminal = TRUE]
          [] OTHER -> e

IsNewCycle(e, reset, remaining) ==
    \/ /\ reset # None /\ e.reset # None
       /\ \/ reset - e.reset > RESET_TOLERANCE_SECONDS
          \/ reset # e.reset /\ e.reset <= now
    \/ /\ reset = None /\ e.reset = None
       /\ e.remaining # None /\ e.remaining <= 10 /\ 10 < remaining
    \/ reset = None /\ e.reset # None /\ e.reset <= now /\ remaining > 10

(* Fault: the warning that was owed in the window before is kept. *)
NewCycle_KeepsPending(e, reset) ==
    [e EXCEPT !.cycle = e.cycle + 1, !.notified = None, !.reset = reset]

NewCycle(e, reset) ==
    [e EXCEPT !.cycle = e.cycle + 1, !.notified = None, !.pending = None, !.text = None,
              !.drafted = 0, !.terminal = FALSE, !.reset = reset]

(* The record after this observation, before the warning it may ask for. *)
Observed(reset, remaining) ==
    LET first == entry.cycle = 0
        e == IF first THEN [entry EXCEPT !.cycle = 1, !.reset = reset] ELSE Reconciled(entry)
        f == IF ~first /\ IsNewCycle(e, reset, remaining) THEN NewCycle(e, reset)
             ELSE IF e.reset = None THEN [e EXCEPT !.reset = reset] ELSE e
        g == [f EXCEPT !.remaining = remaining]
    IN  IF Tier(remaining) = None
        THEN [g EXCEPT !.pending = None, !.text = None, !.drafted = 0, !.terminal = FALSE]
        ELSE g

(* The record that was read before this observation had a reset time, it    *)
(* has passed, and the provider no longer names one.                        *)
ProvesNothing(reset) == reset = None /\ entry.reset # None /\ entry.reset <= now

(* No warning: the balance is above every threshold, or the window has had  *)
(* this one or a more urgent one, or a more urgent one is still owed.       *)
Quiet(e, reset) ==
    LET tier == Tier(e.remaining) IN
    \/ tier = None
    \/ ProvesNothing(reset)
    \/ e.notified # None /\ tier >= e.notified
    \/ e.pending # None /\ tier > e.pending

Drafted(e) ==
    IF e.pending = Tier(e.remaining) THEN e
    ELSE [e EXCEPT !.pending = Tier(e.remaining), !.text = now,
                   !.drafted = IF monitor.reset = None THEN 0 ELSE monitor.window,
                   !.terminal = FALSE]

(* prepare_warnings, in one transaction on quota_warnings.json: a window    *)
(* that has ended by now is ignored; otherwise the record is brought up to  *)
(* date and the warning it owes, if any, is handed on.                      *)
Prepare ==
    /\ monitor.step = "reading" /\ enabled
    /\ LET reset == monitor.reset
           e == Observed(reset, monitor.remaining)
           d == IF Quiet(e, reset) THEN e ELSE Drafted(e)
       IN  IF reset # None /\ reset <= now
           THEN monitor' = Idle /\ UNCHANGED entry
           ELSE /\ entry' = d
                /\ monitor' = IF Quiet(e, reset) \/ d.terminal THEN Idle
                              ELSE [monitor EXCEPT !.step = "intent",
                                         !.key = <<d.cycle, d.pending>>]
    /\ UNCHANGED <<now, account, ledger, enabled, chat, moves, faults>>

(* Warnings were turned off, or the owner was removed, while the runtime    *)
(* answered or before the intent was sent.                                  *)
GivenUp == /\ monitor.step \in {"reading", "intent"} /\ ~enabled
           /\ monitor' = Idle
           /\ UNCHANGED <<now, account, entry, ledger, enabled, chat, moves, faults>>

(* NotificationDeliveryService._deliver: a key that is known with another   *)
(* text is refused for good; a settled one answers with its outcome; one    *)
(* left in flight by a process that ended is ambiguous, and is not resent.  *)
Deliver ==
    /\ monitor.step = "intent" /\ enabled
    /\ LET record == Record(monitor.key)
           answer(step) == monitor' = [monitor EXCEPT !.step = step]
       IN  CASE record.status # "none" /\ record.text # entry.text ->
                  answer("refused") /\ UNCHANGED ledger
             [] record.status \in {"delivered", "terminal"} /\ record.text = entry.text ->
                  answer(record.status) /\ UNCHANGED ledger
             [] record.status = "in_flight" /\ record.text = entry.text ->
                  /\ answer("terminal")
                  /\ ledger' = [ledger EXCEPT ![monitor.key].status = "terminal"]
             [] OTHER ->
                  /\ answer("sending")
                  /\ ledger' = [k \in DOMAIN ledger \cup {monitor.key} |->
                                  IF k = monitor.key
                                  THEN [status |-> "in_flight", text |-> entry.text]
                                  ELSE ledger[k]]
    /\ UNCHANGED <<now, account, entry, enabled, chat, moves, faults>>

(* The provider takes the message and the record of it is written, or it    *)
(* fails: to be retried, or for good.                                       *)
Send == /\ monitor.step = "sending"
        /\ monitor' = [monitor EXCEPT !.step = "sent"]
        /\ LET warning == [window |-> monitor.window, key |-> monitor.key,
                           known |-> monitor.reset # None,
                           late |-> monitor.reset <= now + Jitter,
                           fresh |-> entry.drafted \in {0, monitor.window}]
           IN  chat' = IF chat # <<>> /\ chat[Len(chat)].window = monitor.window
                       THEN Append(chat, warning) ELSE <<warning>>
        /\ UNCHANGED <<now, account, entry, ledger, enabled, moves, faults>>

SendFails == /\ monitor.step = "sending" /\ faults < MaxFaults
             /\ faults' = faults + 1
             /\ \E status \in {"retryable", "terminal"} :
                  /\ monitor' = [monitor EXCEPT !.step = status]
                  /\ ledger' = [ledger EXCEPT ![monitor.key].status = status]
             /\ UNCHANGED <<now, account, entry, enabled, chat, moves>>

Acknowledge == /\ monitor.step = "sent"
               /\ monitor' = [monitor EXCEPT !.step = "delivered"]
               /\ ledger' = [ledger EXCEPT ![monitor.key].status = "delivered"]
               /\ UNCHANGED <<now, account, entry, enabled, chat, moves, faults>>

(* record_warning_result: only the pending warning with this key is settled. *)
RecordResult ==
    /\ monitor.step \in {"delivered", "terminal", "refused", "retryable"}
    /\ monitor' = Idle
    /\ entry' = IF <<entry.cycle, entry.pending>> # monitor.key THEN entry
                ELSE CASE monitor.step = "delivered" ->
                            [entry EXCEPT !.notified = entry.pending, !.pending = None,
                                          !.text = None, !.drafted = 0, !.terminal = FALSE]
                       [] monitor.step \in {"terminal", "refused"} ->
                            [entry EXCEPT !.terminal = TRUE]
                       [] OTHER -> entry
    /\ UNCHANGED <<now, account, ledger, enabled, chat, moves, faults>>

(* The process ends (or is replaced) at any point of a check and starts     *)
(* again; its start recovers other notifications, never these.              *)
Restart == /\ faults < MaxFaults /\ monitor.step # "waiting"
           /\ faults' = faults + 1
           /\ monitor' = Idle
           /\ UNCHANGED <<now, account, entry, ledger, enabled, chat, moves>>

Check == Collect \/ Prepare \/ GivenUp \/ Deliver \/ Send \/ Acknowledge \/ RecordResult
Next == \/ Spend \/ Tick \/ EarlyReset \/ Switch
        \/ Check \/ SendFails \/ Restart

Spec == Init /\ [][Next]_vars

-----------------------------------------------------------------------------
TypeOK ==
    /\ now \in 0 .. MaxTime
    /\ account.remaining \in Balances
    /\ entry.cycle \in Nat /\ DOMAIN ledger \subseteq Keys
    /\ {entry.notified, entry.pending} \subseteq THRESHOLDS \cup {None}
    /\ \A k \in DOMAIN ledger :
         ledger[k].status \in {"in_flight", "retryable", "delivered", "terminal"}
    /\ enabled \in BOOLEAN

(* Within one quota window whose reset time the provider named, no          *)
(* threshold is announced twice, across restarts, failed sends and balances *)
(* that recover for a while; and a milder warning follows a more urgent one *)
(* only when the process ended before it learned that the urgent one had    *)
(* arrived.  (In the last moment, when an early reset time has passed and   *)
(* the window has not, the code takes the window for a new one.)            *)
WarningsEscalate ==
    \A i, j \in DOMAIN chat :
      (/\ i < j /\ chat[i].window = chat[j].window
       /\ \A k \in i .. j : chat[k].known
       /\ ~chat[j].late)
        => \/ chat[j].key[2] < chat[i].key[2]
           \/ /\ chat[j].key[2] > chat[i].key[2]
              /\ Record(chat[i].key).status # "delivered"

(* A warning that is sent was written for the window it is sent in, when    *)
(* the provider named its reset time both times: one that was still owed    *)
(* when the window ended is dropped, never delivered late (docs/providers.md: "startup recovery does not blindly replay old   *)
(* warnings after a reset").                                                *)
WarningsAreCurrent ==
    \A i \in DOMAIN chat : chat[i].known => chat[i].fresh
=============================================================================

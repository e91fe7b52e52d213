---------------------------- MODULE ServiceLoop ----------------------------
(***************************************************************************)
(* The tasks of one account, one for each chain: when they process rows,   *)
(* gather transfers and sleep, how the time of the next gathering and the  *)
(* wake-up of the runtime are shared by all of them, and the events that   *)
(* they send to the status tracker.  What processing and gathering do is   *)
(* in PaymentSender and Gathering; here a transfer or mint is a job that   *)
(* waits, has a row and is done.                                           *)
(*                                                                         *)
(* Time is counted in ticks.  What a task does between two sleeps takes    *)
(* none, and so does the delivery of events, but processing takes as long  *)
(* as it likes: also as long as events may have to wait for the user.      *)
(***************************************************************************)
EXTENDS Integers, StatusTracker, SequencesExt, FiniteSetsExt

CONSTANTS
    Transfers,      \* transfers that the user asks for
    Mints,          \* calls of mint_golem_token
    ChainOf,        \* the chain of each of them
    Deadlines,      \* ticks to the deadline of a transfer
    GatherInterval,
    ReportAlive,    \* report_alive_interval
    Pause,          \* process_interval and process_interval_after_error
    Issues,         \* events of RPC calls and of rows that make no progress
    Scenarios       \* settings, what is in the tables at first, and bounds

\* No external_gather_time, or a transfer without deadline: later than any.
NoTime == Max(Deadlines \cup {GatherInterval}) + 1

Jobs == Transfers \cup Mints
Settings == [finishWhenDone : BOOLEAN, gatherAtStart : BOOLEAN, ignoreDeadlines : BOOLEAN]

\* queued are rows that an earlier run has left, asked the jobs that may be
\* asked for, notApproved the chains where the allowance is missing, budget
\* says how often what may happen.
Chances == [{"issue", "ask", "fault"} -> Nat]
Scenario == [mode : Settings, queued : SUBSET Jobs, asked : SUBSET Jobs,
             notApproved : SUBSET Chains, budget : Chances]

ASSUME LoopAssumption ==
    /\ Transfers \cap Mints = {} /\ ChainOf \in [Jobs -> Chains]
    /\ IsFiniteSet(Deadlines) /\ Deadlines \subseteq Nat
    /\ ReportAlive \in Nat \ {0} /\ Pause \in Nat \ {0}
    /\ GatherInterval \in Nat /\ GatherInterval >= ReportAlive
    /\ Issues \subseteq DriverEvent /\ Scenarios \subseteq Scenario

VARIABLES
    mode,       \* the settings
    job,        \* what became of each job
    calling,    \* transfers that are inserted but have not set their deadline
    age,        \* ticks that a transfer has been waiting
    loop,       \* the task of each chain
    gatherTime, \* ticks to external_gather_time of the account
    permit,     \* Notify: a notification that nobody has received
    waiters,    \* Notify: tasks that wait, in their order
    allowance,  \* allowance for the multi transfer contract on each chain
    budget,     \* what may still happen
    failed      \* chains where a gathering has failed

notifyVars == <<permit, waiters>>
boundVars == <<budget, failed>>
loopVars == <<mode, job, calling, age, loop, gatherTime, notifyVars, allowance, boundVars>>
vars == <<loopVars, statusVars>>

----------------------------------------------------------------------------
(* Jobs and time.                                                          *)

Waiting(c) == {t \in Transfers : ChainOf[t] = c /\ job[t] = "waiting"}
Rows(c) == {j \in Jobs : ChainOf[j] = c /\ job[j] = "queued"}

\* The approval of an allowance is a row, too.
HasRows(c) == Rows(c) # {} \/ allowance[c] = "queued"

\* Mutant of Due: only deadlines are looked at.
DueByDeadline(c) == gatherTime <= 0

\* Mutant of Due: deadlines are not looked at.
DueByInterval(c) == loop[c].last >= GatherInterval

\* current_time >= next_gather_time.
Due(c) == loop[c].last >= GatherInterval \/ gatherTime <= 0

Spends(kind) == budget[kind] > 0 /\ budget' = [budget EXCEPT ![kind] = @ - 1]

\* Ticks that are counted no further.
Longest == GatherInterval + 1
Older(n, longest) == IF n < longest THEN n + 1 ELSE n
Passed == -1

\* Mutant of Again: the loop forgets when it has gathered.
AgainFromNow(k) ==
    [k EXCEPT !.at = "process", !.since = 0, !.left = 0, !.slept = 0, !.found = {}, !.last = 0]

\* The loop starts again: current_time is read.
Again(k) == [k EXCEPT !.at = "process", !.since = 0, !.left = 0, !.slept = 0, !.found = {}]
Paused(k) == [k EXCEPT !.at = "pause", !.left = Pause, !.found = {}]

----------------------------------------------------------------------------
(* sleep_for_gather_time_or_report_alive.                                  *)

\* Until the next gathering, or until it is time to report being alive.
SleepTime(c) ==
    Min({ReportAlive - loop[c].slept, GatherInterval - loop[c].last, gatherTime})

\* A pass of the loop in which it sleeps reads the times.
ReadsTimes(c) ==
    /\ loop[c].at = "woken"
    /\ loop' = [loop EXCEPT ![c] =
                    IF Due(c) \/ loop[c].slept >= ReportAlive THEN Again(@)
                    ELSE [@ EXCEPT !.at = "drowsy", !.left = SleepTime(c)]]
    /\ UNCHANGED <<mode, job, calling, age, gatherTime, notifyVars, allowance, boundVars,
                   statusVars>>

\* Then it waits for that time or a notification, which may be there already.
FallsAsleep(c) ==
    /\ loop[c].at = "drowsy"
    /\ loop' = [loop EXCEPT ![c].at = IF permit THEN "woken" ELSE "asleep"]
    /\ permit' = FALSE /\ waiters' = IF permit THEN waiters ELSE Append(waiters, c)
    /\ UNCHANGED <<mode, job, calling, age, gatherTime, allowance, boundVars, statusVars>>

\* Mutant of NotifyOne: only a task that waits already is notified.
NotifyWaiter ==
    IF waiters = <<>> THEN UNCHANGED <<notifyVars, loop>>
    ELSE /\ loop' = [loop EXCEPT ![Head(waiters)].at = "woken"]
         /\ waiters' = Tail(waiters) /\ UNCHANGED permit

\* notify_one: the first one that waits, or whoever waits next.
NotifyOne ==
    IF waiters = <<>> THEN permit' = TRUE /\ UNCHANGED <<waiters, loop>>
    ELSE /\ loop' = [loop EXCEPT ![Head(waiters)].at = "woken"]
         /\ waiters' = Tail(waiters) /\ UNCHANGED permit

TimeIsUp(c) ==
    /\ loop[c].at = "asleep" /\ loop[c].left = 0
    /\ loop' = [loop EXCEPT ![c] = Again(@)]
    /\ waiters' = RemoveFirst(waiters, c)
    /\ UNCHANGED <<mode, job, calling, age, gatherTime, permit, allowance, boundVars, statusVars>>

PauseEnds(c) ==
    /\ loop[c].at = "pause" /\ loop[c].left = 0
    /\ loop' = [loop EXCEPT ![c] = Again(@)]
    /\ UNCHANGED <<mode, job, calling, age, gatherTime, notifyVars, allowance, boundVars,
                   statusVars>>

----------------------------------------------------------------------------
(* process_transactions.                                                   *)

\* The events that a task has to send before it goes on.
Reports(c, events, left) ==
    loop' = [loop EXCEPT ![c].at = "report", ![c].events = events, ![c].left = left]

\* A row is confirmed.  The events follow when that is committed.
Confirmed(c) ==
    /\ loop[c].at = "process"
    /\ \/ \E j \in Rows(c) :
            /\ job' = [job EXCEPT ![j] = "done"]
            /\ Reports(c, IF j \in Transfers THEN <<Finished(c), Other(c)>> ELSE <<Other(c)>>, 0)
            /\ UNCHANGED allowance
       \/ /\ allowance[c] = "queued" /\ allowance' = [allowance EXCEPT ![c] = "met"]
          /\ Reports(c, <<Other(c)>>, 0)
          /\ UNCHANGED job
    /\ UNCHANGED <<mode, calling, age, gatherTime, notifyVars, boundVars, statusVars>>

\* A row cannot be signed or sent now, or an RPC call fails or succeeds:
\* that is told, and the row is tried again, perhaps after an error.
MeetsIssue(c) ==
    /\ loop[c].at = "process" /\ HasRows(c)
    /\ Spends("issue")
    /\ \E e \in {i \in Issues : i.chain = c} : \E left \in {0, Pause} : Reports(c, <<e>>, left)
    /\ UNCHANGED <<mode, job, calling, age, gatherTime, notifyVars, allowance, failed, statusVars>>

Report(c) ==
    /\ loop[c].at = "report"
    /\ SendEvent(Head(loop[c].events))
    /\ LET rest == Tail(loop[c].events) IN
       loop' = [loop EXCEPT ![c].events = rest,
                            ![c].at = IF rest # <<>> THEN "report"
                                      ELSE IF loop[c].left > 0 THEN "pause" ELSE "process"]
    /\ UNCHANGED <<mode, job, calling, age, gatherTime, notifyVars, allowance, boundVars>>

\* No row is left: get_next_gather_time_and_clear_if_success, and to gather
\* or to sleep.  A task that finishes when it is done does not sleep.
AllProcessed(c) ==
    /\ loop[c].at = "process" /\ ~HasRows(c)
    /\ gatherTime' = IF Due(c) THEN NoTime ELSE gatherTime
    /\ loop' = [loop EXCEPT ![c].at = IF Due(c) \/ mode.finishWhenDone THEN "gather" ELSE "woken"]
    /\ UNCHANGED <<mode, job, calling, age, notifyVars, allowance, boundVars, statusVars>>

----------------------------------------------------------------------------
(* Gathering.                                                              *)

\* last_gather_time = current_time, which was read before processing.
GatheredNow(k) == [Again(k) EXCEPT !.last = k.since]

\* Mutant of Exits: what was gathered is not looked at.
ExitsAfterGathering(c) == mode.finishWhenDone

\* Mutant of Exits: transfers that are done count, too.
ExitsWithoutTransfers(c) ==
    mode.finishWhenDone /\ {t \in Transfers : ChainOf[t] = c /\ job[t] # "new"} = {}

\* finish_when_done && !process_tx_needed.
Exits(c) == mode.finishWhenDone /\ loop[c].found = {}

\* gather_transactions_pre reads the transfers that wait.
FindsTransfers(c) ==
    /\ loop[c].at = "gather"
    /\ loop' = [loop EXCEPT ![c].at = "post", ![c].found = Waiting(c)]
    /\ UNCHANGED <<mode, job, calling, age, gatherTime, notifyVars, allowance, boundVars,
                   statusVars>>

\* gather_transactions_post: those that were found get rows.  A task that
\* finishes when it is done exits when none was, whatever came since.
Gathered(c) ==
    /\ loop[c].at = "post" /\ (loop[c].found = {} \/ allowance[c] = "met")
    /\ job' = [j \in Jobs |-> IF j \in loop[c].found THEN "queued" ELSE job[j]]
    /\ age' = [t \in Transfers |-> IF t \in loop[c].found THEN 0 ELSE age[t]]
    /\ loop' = [loop EXCEPT ![c] = IF Exits(c) THEN [GatheredNow(@) EXCEPT !.at = "exited"]
                                   ELSE GatheredNow(@)]
    /\ UNCHANGED <<mode, calling, gatherTime, notifyVars, allowance, boundVars, statusVars>>

\* The query fails: last_gather_time stays, a deadline that was due is gone.
PreFails(c) ==
    /\ loop[c].at = "gather"
    /\ Spends("fault") /\ failed' = failed \cup {c}
    /\ loop' = [loop EXCEPT ![c] = Paused(@)]
    /\ UNCHANGED <<mode, job, calling, age, gatherTime, notifyVars, allowance, statusVars>>

\* An error of the orders, or of the allowance they miss: the gathering
\* counts, and the transfers wait for the next one.
PostFails(c) ==
    /\ loop[c].at = "post" /\ loop[c].found # {}
    /\ Spends("fault") /\ failed' = failed \cup {c}
    /\ loop' = [loop EXCEPT ![c] = IF allowance[c] = "missing" THEN Paused(GatheredNow(@))
                                   ELSE GatheredNow(@)]
    /\ UNCHANGED <<mode, job, calling, age, gatherTime, notifyVars, allowance, statusVars>>

\* NoAllowanceFound: the approval gets a row and the loop starts again.
AllowanceMissing(c) ==
    /\ loop[c].at = "post" /\ loop[c].found # {} /\ allowance[c] = "missing"
    /\ allowance' = [allowance EXCEPT ![c] = "queued"]
    /\ loop' = [loop EXCEPT ![c] = Again(@)]
    /\ UNCHANGED <<mode, job, calling, age, gatherTime, notifyVars, boundVars, statusVars>>

Loop(c) ==
    \/ Confirmed(c) \/ Report(c) \/ AllProcessed(c)
    \/ FindsTransfers(c) \/ Gathered(c) \/ AllowanceMissing(c)
    \/ ReadsTimes(c) \/ FallsAsleep(c) \/ TimeIsUp(c) \/ PauseEnds(c)

----------------------------------------------------------------------------
(* Calls of the user, and time.                                            *)

\* transfer inserts the transfer.
Insert(t) ==
    /\ job[t] = "new" /\ job' = [job EXCEPT ![t] = "waiting"]
    /\ calling' = calling \cup {t}
    /\ UNCHANGED <<mode, age, loop, gatherTime, notifyVars, allowance, boundVars, statusVars>>

\* Then it sets the time of the next gathering, if its deadline is earlier.
SetDeadline(t) ==
    /\ t \in calling /\ calling' = calling \ {t}
    /\ \E d \in Deadlines \cup {NoTime} :
        IF ~mode.ignoreDeadlines /\ d < gatherTime
        THEN gatherTime' = d /\ NotifyOne
        ELSE UNCHANGED <<gatherTime, loop, notifyVars>>
    /\ UNCHANGED <<mode, job, age, allowance, boundVars, statusVars>>

\* mint_golem_token: refused while another mint of the chain is pending, and
\* a task is notified in any case.
Mint(m) ==
    /\ job[m] = "new"
    /\ job' = [job EXCEPT ![m] = IF Rows(ChainOf[m]) \cap Mints = {} THEN "queued" ELSE "done"]
    /\ NotifyOne
    /\ UNCHANGED <<mode, calling, age, gatherTime, allowance, boundVars, statusVars>>

\* Nothing is left to do in this tick but what may take longer.
MayLast(c) ==
    \/ loop[c].at = "exited"
    \/ loop[c].at = "process" /\ HasRows(c)
    \/ loop[c].at \in {"asleep", "pause"} /\ loop[c].left > 0

Tick ==
    /\ \A c \in Chains : MayLast(c)
    /\ Delivered
    /\ age' = [t \in Transfers |-> IF job[t] = "waiting" THEN Older(age[t], Longest) ELSE age[t]]
    /\ gatherTime' = IF gatherTime \in {NoTime, Passed} THEN gatherTime ELSE gatherTime - 1
    /\ loop' = [c \in Chains |->
                [loop[c] EXCEPT !.last = Older(@, GatherInterval),
                                !.since = Older(@, GatherInterval),
                                !.left = IF loop[c].at \in {"asleep", "pause"} THEN @ - 1 ELSE @,
                                !.slept = IF loop[c].at = "asleep" THEN @ + 1 ELSE @]]
    /\ UNCHANGED <<mode, job, calling, notifyVars, allowance, boundVars, statusVars>>

\* The tracker and the user of StatusTracker.
Status == (Tracker \/ User) /\ UNCHANGED loopVars

AsksStatus ==
    /\ Spends("ask") /\ Ask
    /\ UNCHANGED <<mode, job, calling, age, loop, gatherTime, notifyVars, allowance, failed>>

----------------------------------------------------------------------------
\* add_account starts a task on each chain.
NewLoop ==
    [at |-> "process", left |-> 0, slept |-> 0, since |-> 0, events |-> <<>>, found |-> {},
     last |-> IF mode.gatherAtStart THEN GatherInterval ELSE 0]

\* PaymentRuntime::new: the tracker of the status, the notifier and the
\* tasks, over what the database and the chain hold.
Init ==
    /\ \E s \in Scenarios :
        /\ mode = s.mode /\ budget = s.budget
        /\ job = [j \in Jobs |-> IF j \in s.queued THEN "queued"
                                ELSE IF j \in s.asked THEN "new" ELSE "done"]
        /\ allowance = [c \in Chains |-> IF c \in s.notApproved THEN "missing" ELSE "met"]
    /\ calling = {} /\ age = [t \in Transfers |-> 0]
    /\ loop = [c \in Chains |-> NewLoop]
    /\ gatherTime = NoTime
    /\ permit = FALSE /\ waiters = <<>>
    /\ failed = {}
    /\ StatusInit

Next ==
    \/ \E c \in Chains : Loop(c) \/ MeetsIssue(c) \/ PreFails(c) \/ PostFails(c)
    \/ \E t \in Transfers : Insert(t) \/ SetDeadline(t)
    \/ \E m \in Mints : Mint(m)
    \/ Tick
    \/ Status \/ AsksStatus

Spec == Init /\ [][Next]_vars

\* Tasks run when they can, what is sent is confirmed some time, time
\* passes, and the user empties the channel.
Fairness ==
    /\ \A c \in Chains : WF_vars(Loop(c))
    /\ WF_vars(\E t \in Transfers : SetDeadline(t))
    /\ WF_vars(Tick)
    /\ WF_vars(Tracker /\ UNCHANGED loopVars)
    /\ WF_vars(Receive /\ UNCHANGED loopVars)
    /\ WF_vars(GetStatus /\ UNCHANGED loopVars)

FairSpec == Spec /\ Fairness

----------------------------------------------------------------------------
(* Properties.                                                             *)

Step == {"process", "report", "gather", "post", "woken", "drowsy", "asleep", "pause", "exited"}
Task == [at : Step, left : 0..GatherInterval \cup 0..Pause, slept : 0..ReportAlive,
         since : 0..GatherInterval, last : 0..GatherInterval,
         events : Seq(DriverEvent), found : SUBSET Transfers]

TypeOK ==
    /\ mode \in Settings
    /\ job \in [Jobs -> {"new", "waiting", "queued", "done"}] /\ calling \subseteq Transfers
    /\ age \in [Transfers -> 0..Longest]
    /\ loop \in [Chains -> Task]
    /\ gatherTime \in Passed..NoTime
    /\ permit \in BOOLEAN
    /\ IsInjective(waiters) /\ Range(waiters) = {c \in Chains : loop[c].at = "asleep"}
    /\ permit => waiters = <<>>
    /\ allowance \in [Chains -> {"missing", "queued", "met"}]
    /\ budget \in Chances /\ failed \subseteq Chains
    /\ StatusTypeOK

\* A task does not sleep while a transfer of its chain has been waiting for
\* longer than the interval, unless a gathering has failed: whatever other
\* chains, deadlines, notifications and approvals do to the times.
IntervalIsKept ==
    \A t \in Transfers : LET c == ChainOf[t] IN
        job[t] = "waiting" /\ loop[c].at = "asleep" /\ c \notin failed
            => age[t] <= GatherInterval

\* The account does not sleep through the time of its next gathering: from
\* then on some task is awake, although a notification wakes only one, who
\* may have read the times before or be at work, and any task of any chain.
AccountIsWoken ==
    gatherTime < 0 => \E c \in Chains : loop[c].at # "asleep"

\* A task exits only when the transfers that have rows are done.
ExitsWhenDone ==
    [][\A c \in Chains : loop'[c].at = "exited" => Rows(c)' \cap Transfers = {}]_vars

\* Whatever is asked for is done in the end, though events wait for a user
\* who is slow and one task's sleep depends on the times of the others;
\* unless the task has exited before.
EveryJobEnds ==
    <>[](\A j \in Jobs :
            job[j] \in {"waiting", "queued"} => loop[ChainOf[j]].at = "exited")

\* A task that finishes when it is done does.
Finishes == mode.finishWhenDone => <>(\A c \in Chains : loop[c].at = "exited")

\* get_status answers although the tracker holds its lock while it waits for
\* the user's channel, as long as somebody else empties that.
AskIsAnswered == asking ~> ~asking

\* An issue goes only with a transfer of its chain that is finished, or
\* when a newer one of its kind and chain takes its place.
IssuesStay ==
    [][\A p \in status : p \notin status' =>
            /\ raw # <<>> /\ Head(raw).chain = p.chain
            /\ Head(raw).kind \in {p.kind, "TransferFinished"}]_vars

=============================================================================

------------------------- MODULE ServiceLoopProofs -------------------------
(***************************************************************************)
(* For any chains, transfers, intervals and scenarios: the tasks of        *)
(* ServiceLoop use the tracker as StatusTracker says, so that the user     *)
(* knows the status and issues stay, a task exits only when no transfer of *)
(* its chain is left in the queue, no transfer waits for longer than the   *)
(* interval beside a task that sleeps, and from the time of the next       *)
(* gathering on some task of the account is awake.                         *)
(***************************************************************************)
EXTENDS ServiceLoop, StatusTrackerProofs, FiniteTotals, SequenceTheorems

\* What a task has to report are events of the driver, and what it has found
\* are transfers of its chain.
Holds(c, k) ==
    /\ {"at", "events", "found"} \subseteq DOMAIN k
    /\ k.events \in Seq(DriverEvent) /\ (k.at = "report" => k.events # <<>>)
    /\ k.found \subseteq {t \in Transfers : ChainOf[t] = c}

LoopInv ==
    /\ DOMAIN loop = Chains
    /\ \A c \in Chains : Holds(c, loop[c])

\* No transfer gets a row while its task gathers or when it has exited,
\* but by this gathering.
Gathers == {"gather", "post", "exited"}
NoneQueued(c) == \A t \in Transfers : ChainOf[t] = c => job[t] # "queued"

QueueInv ==
    /\ DOMAIN job = Jobs
    /\ \A c \in Chains : loop[c].at \in Gathers => NoneQueued(c)

----------------------------------------------------------------------------
(* Types and times.                                                        *)

TablesInv ==
    /\ mode \in Settings
    /\ job \in [Jobs -> {"new", "waiting", "queued", "done"}] /\ calling \subseteq Transfers
    /\ age \in [Transfers -> 0..Longest]
    /\ allowance \in [Chains -> {"missing", "queued", "met"}]
    /\ budget \in Chances /\ failed \subseteq Chains

\* A task that sleeps, or is about to, wakes up in time for its report and for
\* its gathering.
Dozes(k) == k.at \in {"drowsy", "asleep"}
InTime(k) ==
    Dozes(k) => k.left + k.slept <= ReportAlive /\ k.left + k.last <= GatherInterval

ClockInv ==
    /\ loop \in [Chains -> Task]
    /\ gatherTime \in Passed..NoTime
    /\ \A c \in Chains : InTime(loop[c])

\* Some task is awake or wakes up in time for the deadline, or else whoever
\* falls asleep next is notified at once.
WakeInv ==
    gatherTime # NoTime =>
        \E c \in Chains : permit \/ ~Dozes(loop[c]) \/ loop[c].left <= gatherTime

\* The tasks that wait for a notification are those that sleep.
WaitersInv ==
    /\ permit \in BOOLEAN
    /\ waiters \in Seq(Chains)
    /\ IsInjective(waiters) /\ Range(waiters) = {c \in Chains : loop[c].at = "asleep"}
    /\ permit => waiters = <<>>

\* A transfer waits since the last gathering of its task, or for less time,
\* unless that has failed; the ticks are counted up to the interval.
SinceGathering(t) ==
    LET k == loop[ChainOf[t]] IN
    job[t] = "waiting" /\ ChainOf[t] \notin failed =>
        age[t] <= k.last \/ (k.last = GatherInterval /\ ~Dozes(k))

\* A transfer that has come since the gathering looked is new.
SinceQuery(t) ==
    LET k == loop[ChainOf[t]] IN
    k.at = "post" /\ job[t] = "waiting" /\ t \notin k.found => age[t] = 0

AgeInv ==
    \A t \in Transfers : /\ job[t] = "new" => age[t] = 0
                         /\ SinceGathering(t) /\ SinceQuery(t)

TimeInv == TablesInv /\ ClockInv /\ WaitersInv /\ WakeInv /\ AgeInv

----------------------------------------------------------------------------
(* Changes of the record of a task.                                        *)

LEMMA AgainHolds ==
    ASSUME NEW c, NEW k, Holds(c, k)
    PROVE  /\ Holds(c, Again(k)) /\ Again(k).at = "process"
           /\ Holds(c, GatheredNow(k)) /\ GatheredNow(k).at = "process"
BY DEF Holds, Again, GatheredNow

LEMMA PausedHolds ==
    ASSUME NEW c, NEW k, Holds(c, k)
    PROVE  Holds(c, Paused(k)) /\ Paused(k).at = "pause"
BY DEF Holds, Paused

\* No task begins to gather or exits in this step.
Calm == \A d \in Chains : loop'[d].at \in Gathers => loop[d].at \in Gathers

\* One task goes on, the others stay where they are.
LEMMA OneTaskMoves ==
    ASSUME LoopInv, NEW c \in Chains, NEW k, Holds(c, k), loop' = [loop EXCEPT ![c] = k]
    PROVE  /\ LoopInv'
           /\ k.at \notin Gathers \/ loop[c].at \in Gathers => Calm
<1>1. /\ DOMAIN loop' = Chains /\ loop'[c] = k
      /\ \A d \in Chains : d # c => loop'[d] = loop[d]
  BY DEF LoopInv
<1>2. \A d \in Chains : Holds(d, loop'[d])
  BY <1>1 DEF LoopInv
<1>3. (k.at \notin Gathers \/ loop[c].at \in Gathers) => Calm
  BY <1>1 DEF Calm
<1> QED BY <1>1, <1>2, <1>3 DEF LoopInv, Holds

LEMMA NotifyMoves ==
    ASSUME LoopInv, NotifyOne
    PROVE  LoopInv' /\ Calm
<1>1. CASE loop' = loop
  BY <1>1 DEF LoopInv, Calm, Holds
<1>2. CASE loop' = [loop EXCEPT ![Head(waiters)].at = "woken"]
  <2>1. ASSUME NEW d \in Chains
        PROVE  Holds(d, loop'[d]) /\ (loop'[d].at = loop[d].at \/ loop'[d].at = "woken")
    BY <1>2 DEF LoopInv, Holds
  <2>2. DOMAIN loop' = Chains
    BY <1>2 DEF LoopInv
  <2> QED BY <2>1, <2>2 DEF LoopInv, Calm, Holds, Gathers
<1> QED BY <1>1, <1>2 DEF NotifyOne

LEMMA ReportsMoves ==
    ASSUME LoopInv, NEW c \in Chains, NEW left,
           NEW events \in Seq(DriverEvent), events # <<>>, Reports(c, events, left)
    PROVE  LoopInv' /\ Calm
<1> DEFINE k == [loop[c] EXCEPT !.at = "report", !.events = events, !.left = left]
<1>1. loop' = [loop EXCEPT ![c] = k]
  BY DEF Reports
<1>2. Holds(c, k) /\ k.at = "report"
  BY DEF Holds, LoopInv
<1> QED
  <2> HIDE DEF k
  <2> QED BY <1>1, <1>2, OneTaskMoves DEF Gathers

----------------------------------------------------------------------------
(* The steps after which no task begins to gather and none exits.          *)

\* The sleep and the pause.
LEMMA SleepSteps ==
    ASSUME LoopInv, NEW c \in Chains,
           ReadsTimes(c) \/ FallsAsleep(c) \/ TimeIsUp(c) \/ PauseEnds(c)
    PROVE  LoopInv' /\ Calm
<1>1. Holds(c, loop[c])
  BY DEF LoopInv
<1>2. CASE loop' = [loop EXCEPT ![c] = Again(loop[c])]
  BY <1>1, <1>2, AgainHolds, OneTaskMoves DEF Gathers
<1>3. CASE loop' = [loop EXCEPT ![c] = [loop[c] EXCEPT !.at = "drowsy", !.left = SleepTime(c)]]
  <2> DEFINE k == [loop[c] EXCEPT !.at = "drowsy", !.left = SleepTime(c)]
  <2>1. Holds(c, k) /\ k.at \notin Gathers
    BY <1>1 DEF Holds, Gathers
  <2> HIDE DEF k
  <2>2. loop' = [loop EXCEPT ![c] = k]
    BY <1>3 DEF k
  <2> QED BY <2>1, <2>2, OneTaskMoves
<1>4. ASSUME NEW at \in {"woken", "asleep"}, loop' = [loop EXCEPT ![c].at = at]
      PROVE  LoopInv' /\ Calm
  <2> DEFINE k == [loop[c] EXCEPT !.at = at]
  <2>1. Holds(c, k) /\ k.at \notin Gathers
    BY <1>1 DEF Holds, Gathers
  <2>2. loop' = [loop EXCEPT ![c] = k]
    BY <1>4 DEF LoopInv
  <2> HIDE DEF k
  <2> QED BY <2>1, <2>2, OneTaskMoves
<1> QED BY <1>2, <1>3, <1>4 DEF ReadsTimes, FallsAsleep, TimeIsUp, PauseEnds, LoopInv

LEMMA ReportStep ==
    ASSUME LoopInv, NEW c \in Chains, Report(c)
    PROVE  LoopInv' /\ Calm
<1> DEFINE rest == Tail(loop[c].events)
           at == IF rest # <<>> THEN "report" ELSE IF loop[c].left > 0 THEN "pause" ELSE "process"
           k == [loop[c] EXCEPT !.events = rest, !.at = at]
<1>1. loop' = [loop EXCEPT ![c] = k]
  BY DEF Report
<1>2. rest \in Seq(DriverEvent) /\ Holds(c, loop[c])
  BY DEF LoopInv, Holds, Report
<1>3. Holds(c, k) /\ k.at \notin Gathers
  BY <1>2 DEF Holds, Gathers
<1> QED
  <2> HIDE DEF k
  <2> QED BY <1>1, <1>3, OneTaskMoves

LEMMA IssueStep ==
    ASSUME LoopInv, NEW c \in Chains, MeetsIssue(c)
    PROVE  LoopInv' /\ Calm
<1>1. PICK e \in Issues, left \in {0, Pause} : Reports(c, <<e>>, left)
  BY DEF MeetsIssue
<1>2. <<e>> \in Seq(DriverEvent) /\ <<e>> # <<>>
  BY <1>1, LoopAssumption
<1> QED BY <1>1, <1>2, ReportsMoves

LEMMA FailSteps ==
    ASSUME LoopInv, NEW c \in Chains, PreFails(c) \/ PostFails(c) \/ AllowanceMissing(c)
    PROVE  LoopInv' /\ Calm
<1>1. Holds(c, loop[c])
  BY DEF LoopInv
<1>2. PICK k \in {Paused(loop[c]), Paused(GatheredNow(loop[c])), GatheredNow(loop[c]),
                  Again(loop[c])} : loop' = [loop EXCEPT ![c] = k]
  BY DEF PreFails, PostFails, AllowanceMissing, LoopInv
<1>3. Holds(c, k) /\ k.at \notin Gathers
  BY <1>1, <1>2, AgainHolds, PausedHolds DEF Gathers
<1> QED BY <1>2, <1>3, OneTaskMoves

LEMMA TickStep ==
    ASSUME LoopInv, Tick
    PROVE  LoopInv' /\ Calm
<1>1. ASSUME NEW c \in Chains
      PROVE  Holds(c, loop'[c]) /\ loop'[c].at = loop[c].at
  BY DEF Tick, LoopInv, Holds
<1>2. DOMAIN loop' = Chains
  BY DEF Tick
<1> QED BY <1>1, <1>2 DEF LoopInv, Calm

\* The calls of the user, and what leaves the tasks alone.
LEMMA CallSteps ==
    ASSUME LoopInv,
           \/ \E t \in Transfers : Insert(t) \/ SetDeadline(t)
           \/ \E m \in Mints : Mint(m)
           \/ Status \/ AsksStatus \/ UNCHANGED vars
    PROVE  LoopInv' /\ Calm
<1>1. loop' = loop \/ NotifyOne
  BY DEF Insert, SetDeadline, Mint, Status, AsksStatus, loopVars, vars
<1>2. CASE loop' = loop
  BY <1>2 DEF LoopInv, Calm, Holds
<1> QED BY <1>1, <1>2, NotifyMoves

----------------------------------------------------------------------------
(* The steps of a pass of the loop.                                        *)

LEMMA ConfirmedStep ==
    ASSUME LoopInv, NEW c \in Chains, Confirmed(c)
    PROVE  LoopInv' /\ Calm
<1>1. Finished(c) \in DriverEvent /\ Other(c) \in DriverEvent
  BY DEF DriverEvent
<1>2. PICK events \in {<<Finished(c), Other(c)>>, <<Other(c)>>} : Reports(c, events, 0)
  BY DEF Confirmed
<1>3. events \in Seq(DriverEvent) /\ events # <<>>
  <2>1. \A a, b \in DriverEvent :
            /\ <<a>> \in Seq(DriverEvent) /\ <<a>> # <<>>
            /\ <<a, b>> \in Seq(DriverEvent) /\ <<a, b>> # <<>>
    OBVIOUS
  <2> QED BY <1>1, <1>2, <2>1
<1> QED BY <1>2, <1>3, ReportsMoves

\* A task that begins to gather has no row left.
LEMMA AllProcessedStep ==
    ASSUME LoopInv, NEW c \in Chains, AllProcessed(c)
    PROVE  /\ LoopInv'
           /\ \A d \in Chains \ {c} : loop'[d] = loop[d]
           /\ Rows(c) = {}
<1>1. PICK at \in {"gather", "woken"} : loop' = [loop EXCEPT ![c].at = at]
  BY DEF AllProcessed
<1> DEFINE k == [loop[c] EXCEPT !.at = at]
<1>2. loop' = [loop EXCEPT ![c] = k] /\ Holds(c, k)
  BY <1>1 DEF LoopInv, Holds
<1> HIDE DEF k
<1> QED BY <1>2, OneTaskMoves DEF AllProcessed, HasRows, LoopInv

\* What a gathering finds are transfers of its chain.
LEMMA FindsStep ==
    ASSUME LoopInv, NEW c \in Chains, FindsTransfers(c)
    PROVE  LoopInv' /\ Calm
<1> DEFINE k == [loop[c] EXCEPT !.at = "post", !.found = Waiting(c)]
<1>1. loop' = [loop EXCEPT ![c] = k] /\ loop[c].at \in Gathers
  BY DEF FindsTransfers, LoopInv, Gathers
<1>2. Holds(c, k)
  BY DEF LoopInv, Holds, Waiting
<1> HIDE DEF k
<1> QED BY <1>1, <1>2, OneTaskMoves

\* A task that exits has gathered nothing.
LEMMA GatheredStep ==
    ASSUME LoopInv, NEW c \in Chains, Gathered(c)
    PROVE  /\ LoopInv'
           /\ \A d \in Chains \ {c} : loop'[d] = loop[d]
           /\ loop'[c].at = "process" \/ (loop'[c].at = "exited" /\ loop[c].found = {})
<1>1. Holds(c, GatheredNow(loop[c])) /\ GatheredNow(loop[c]).at = "process"
  BY AgainHolds DEF LoopInv
<1>2. PICK k \in {GatheredNow(loop[c]), [GatheredNow(loop[c]) EXCEPT !.at = "exited"]} :
        /\ loop' = [loop EXCEPT ![c] = k]
        /\ k = GatheredNow(loop[c]) \/ Exits(c)
  BY DEF Gathered, LoopInv
<1>3. Holds(c, k) /\ (k.at = "process" \/ (k.at = "exited" /\ Exits(c)))
  BY <1>1, <1>2 DEF Holds
<1> QED BY <1>2, <1>3, OneTaskMoves DEF Exits, LoopInv

----------------------------------------------------------------------------
(* The invariants.                                                         *)

LEMMA LoopInitially == Init => LoopInv /\ QueueInv /\ StatusInit
<1> SUFFICES ASSUME Init PROVE LoopInv /\ QueueInv
  BY DEF Init
<1>1. \A c \in Chains : Holds(c, loop[c]) /\ loop[c].at = "process"
  <2>1. <<>> \in Seq(DriverEvent)
    OBVIOUS
  <2> QED BY <2>1 DEF Init, NewLoop, Holds
<1>2. DOMAIN loop = Chains /\ DOMAIN job = Jobs
  BY DEF Init
<1> QED BY <1>1, <1>2 DEF LoopInv, QueueInv, Gathers

LEMMA LoopStep == LoopInv /\ [Next]_vars => LoopInv'
BY SleepSteps, ReportStep, IssueStep, FailSteps, TickStep, CallSteps, ConfirmedStep,
   AllProcessedStep, FindsStep, GatheredStep DEF Next, Loop

\* In a step in which no task begins to gather or exits no transfer is put
\* into the queue.
LEMMA QueueKeeps ==
    ASSUME QueueInv, Calm, DOMAIN job' = Jobs,
           \A t \in Transfers : job'[t] = "queued" => job[t] = "queued"
    PROVE  QueueInv'
BY DEF QueueInv, Calm, NoneQueued

LEMMA QueueStep == LoopInv /\ QueueInv /\ [Next]_vars => QueueInv'
<1> SUFFICES ASSUME LoopInv, QueueInv, [Next]_vars PROVE QueueInv'
  OBVIOUS
<1>1. ASSUME NEW c \in Chains, Report(c) \/ MeetsIssue(c) \/ PreFails(c) \/ PostFails(c)
                \/ AllowanceMissing(c) \/ FindsTransfers(c)
                \/ ReadsTimes(c) \/ FallsAsleep(c) \/ TimeIsUp(c) \/ PauseEnds(c)
      PROVE  QueueInv'
  <2>1. job' = job
    BY <1>1 DEF Report, MeetsIssue, PreFails, PostFails, AllowanceMissing, FindsTransfers,
           ReadsTimes, FallsAsleep, TimeIsUp, PauseEnds
  <2>2. Calm
    BY <1>1, SleepSteps, FindsStep, ReportStep, IssueStep, FailSteps
  <2> QED BY <2>1, <2>2, QueueKeeps DEF QueueInv
<1>2. ASSUME NEW c \in Chains, Confirmed(c)
      PROVE  QueueInv'
  <2>1. DOMAIN job' = DOMAIN job /\ \A t \in DOMAIN job : job'[t] = "queued" => job[t] = "queued"
    BY <1>2 DEF Confirmed
  <2> QED BY <1>2, <2>1, ConfirmedStep, QueueKeeps DEF QueueInv, Jobs
<1>3. ASSUME NEW c \in Chains, AllProcessed(c)
      PROVE  QueueInv'
  <2>1. job' = job /\ NoneQueued(c)
    BY <1>3, AllProcessedStep DEF AllProcessed, Rows, NoneQueued, Jobs
  <2> QED BY <1>3, <2>1, AllProcessedStep DEF QueueInv, NoneQueued
<1>4. ASSUME NEW c \in Chains, Gathered(c)
      PROVE  QueueInv'
  <2>1. /\ job' = [j \in Jobs |-> IF j \in loop[c].found THEN "queued" ELSE job[j]]
        /\ loop[c].found \subseteq {t \in Transfers : ChainOf[t] = c}
    BY <1>4 DEF Gathered, LoopInv, Holds
  <2>2. ASSUME NEW d \in Chains \ {c}, loop'[d].at \in Gathers
        PROVE  NoneQueued(d)'
    BY <1>4, <2>1, <2>2, GatheredStep DEF QueueInv, NoneQueued, Jobs
  <2>3. ASSUME loop'[c].at \in Gathers
        PROVE  NoneQueued(c)'
    BY <1>4, <2>1, <2>3, GatheredStep DEF QueueInv, NoneQueued, Gathered, Gathers, Jobs
  <2> QED BY <2>1, <2>2, <2>3 DEF QueueInv
<1>5. ASSUME \/ \E t \in Transfers : Insert(t) \/ SetDeadline(t)
             \/ \E m \in Mints : Mint(m)
             \/ Status \/ AsksStatus \/ UNCHANGED vars
      PROVE  QueueInv'
  <2>1. DOMAIN job' = DOMAIN job /\ \A t \in Transfers : job'[t] = "queued" => job[t] = "queued"
    BY <1>5, LoopAssumption DEF Insert, SetDeadline, Mint, Status, AsksStatus, loopVars, vars,
           QueueInv, Jobs
  <2> QED BY <1>5, <2>1, CallSteps, QueueKeeps DEF QueueInv
<1>6. CASE Tick
  BY <1>6, TickStep, QueueKeeps DEF Tick, QueueInv
<1> QED BY <1>1, <1>2, <1>3, <1>4, <1>5, <1>6 DEF Next, Loop

\* Each step is one of the tracker, of its user or a task that sends, or
\* leaves the tracker alone.
LEMMA TrackerStep == LoopInv /\ [Next]_vars => [StatusNext]_statusVars
<1> SUFFICES ASSUME LoopInv, [Next]_vars PROVE [StatusNext]_statusVars
  OBVIOUS
<1>1. ASSUME NEW c \in Chains, Report(c)
      PROVE  StatusNext
  <2>1. Head(loop[c].events) \in DriverEvent /\ SendEvent(Head(loop[c].events))
    BY <1>1 DEF Report, LoopInv, Holds
  <2> QED BY <2>1 DEF StatusNext
<1>2. CASE Status \/ AsksStatus
  BY <1>2 DEF Status, AsksStatus, StatusNext
<1>3. ASSUME NEW c \in Chains,
             \/ MeetsIssue(c) \/ PreFails(c) \/ PostFails(c) \/ AllowanceMissing(c)
             \/ FindsTransfers(c)
                \/ ReadsTimes(c) \/ FallsAsleep(c) \/ TimeIsUp(c) \/ PauseEnds(c)
             \/ Confirmed(c) \/ AllProcessed(c) \/ Gathered(c)
      PROVE  UNCHANGED statusVars
  BY <1>3 DEF MeetsIssue, PreFails, PostFails, AllowanceMissing, FindsTransfers, ReadsTimes,
         FallsAsleep, TimeIsUp, PauseEnds, Confirmed, AllProcessed, Gathered
<1>4. ASSUME \/ \E t \in Transfers : Insert(t) \/ SetDeadline(t)
             \/ \E m \in Mints : Mint(m)
             \/ Tick \/ UNCHANGED vars
      PROVE  UNCHANGED statusVars
  BY <1>4 DEF Insert, SetDeadline, Mint, Tick, vars
<1> QED BY <1>1, <1>2, <1>3, <1>4 DEF Next, Loop

\* A property of the driver goes only with a newer one of its kind and chain,
\* or a transfer of its chain.
LEMMA IssuesStep ==
    ASSUME StatusInv, [StatusNext]_statusVars, NEW p \in status, p \notin status'
    PROVE  /\ raw # <<>> /\ Head(raw).chain = p.chain
           /\ Head(raw).kind \in {p.kind, "TransferFinished"}
<1>1. Track
  BY DEF StatusNext, SendEvent, Tracker, PassEvent, PassStatus, User, Receive, GetStatus, Ask,
         statusVars, trackerVars, userVars
<1> QED BY <1>1 DEF Track, After, Updated, Cleared

----------------------------------------------------------------------------
\* The tasks, their timing and their calls use the tracker as StatusTracker
\* says.
THEOREM UsesTracker == Spec => StatusSpec
BY LoopInitially, LoopStep, TrackerStep, PTL DEF Spec, StatusSpec

\* However tasks are scheduled: when all events have arrived the user knows
\* the status of the driver.
THEOREM UserKnowsAll == Spec => []UserKnowsStatus
BY UsesTracker, UserKnows, PTL

\* An issue disappears only by a later issue of its own kind and chain or a
\* transfer of its chain that is finished: not by an RPC call that succeeds,
\* an issue of another kind or whatever happens on another chain.
THEOREM IssuesRemain == Spec => IssuesStay
<1>1. Spec => []StatusInv
  BY UsesTracker, TrackerInvariant, PTL
<1>2. StatusInv /\ [StatusNext]_statusVars
        => [\A p \in status : p \notin status' =>
                /\ raw # <<>> /\ Head(raw).chain = p.chain
                /\ Head(raw).kind \in {p.kind, "TransferFinished"}]_vars
  BY IssuesStep
<1> QED BY <1>1, <1>2, LoopInitially, LoopStep, TrackerStep, PTL DEF Spec, IssuesStay

\* A task that finishes when it is done leaves no transfer in the queue.
THEOREM ExitsOnlyWhenDone == Spec => ExitsWhenDone
<1>1. Spec => []QueueInv
  BY LoopInitially, LoopStep, QueueStep, PTL DEF Spec
<1>2. QueueInv' => [\A c \in Chains : loop'[c].at = "exited" => Rows(c)' \cap Transfers = {}]_vars
  BY DEF QueueInv, NoneQueued, Rows, Gathers
<1> QED BY <1>1, <1>2, PTL DEF Spec, ExitsWhenDone

----------------------------------------------------------------------------
(* The constants of the clock.                                             *)

\* No time is later than every deadline.
LEMMA NoTimeIsLast ==
    NoTime \in Nat /\ NoTime > GatherInterval /\ \A d \in Deadlines : d < NoTime
<1>1. IsFiniteSet(Deadlines \cup {GatherInterval})
  BY LoopAssumption, FS_AddElement
<1>2. Deadlines \cup {GatherInterval} \in SUBSET Nat
  BY LoopAssumption
<1>3. /\ Max(Deadlines \cup {GatherInterval}) \in Nat
      /\ \A d \in Deadlines \cup {GatherInterval} : d <= Max(Deadlines \cup {GatherInterval})
  BY <1>1, <1>2, LargestNumber
<1> QED BY <1>2, <1>3 DEF NoTime

\* The time to sleep is the shortest of three.
LEMMA SleepTimeIsShortest ==
    ASSUME NEW c \in Chains, loop[c].slept \in Int, loop[c].last \in Int, gatherTime \in Int
    PROVE  /\ SleepTime(c) \in
                {ReportAlive - loop[c].slept, GatherInterval - loop[c].last, gatherTime}
           /\ SleepTime(c) <= ReportAlive - loop[c].slept
           /\ SleepTime(c) <= GatherInterval - loop[c].last
           /\ SleepTime(c) <= gatherTime
<1>1. ASSUME NEW x \in Int, NEW y \in Int, NEW z \in Int
      PROVE  Min({x, y, z}) \in {x, y, z} /\ \A n \in {x, y, z} : Min({x, y, z}) <= n
  <2>1. \E m \in {x, y, z} : \A n \in {x, y, z} : m <= n
    BY <1>1
  <2> QED BY <2>1 DEF Min
<1>2. ReportAlive - loop[c].slept \in Int /\ GatherInterval - loop[c].last \in Int
  BY LoopAssumption
<1> QED BY <1>1, <1>2 DEF SleepTime

----------------------------------------------------------------------------
(* The clock.                                                              *)

\* The lists of tasks that wait.
LEMMA WaitersGrow ==
    ASSUME WaitersInv, NEW c \in Chains, c \notin Range(waiters)
    PROVE  LET w == Append(waiters, c) IN
           w \in Seq(Chains) /\ IsInjective(w) /\ Range(w) = Range(waiters) \cup {c}
<1> DEFINE w == Append(waiters, c)
<1>1. /\ w \in Seq(Chains) /\ DOMAIN w = 1..(Len(waiters) + 1)
      /\ \A i \in DOMAIN w : w[i] = IF i = Len(waiters) + 1 THEN c ELSE waiters[i]
  BY DEF WaitersInv
<1>2. DOMAIN waiters = 1..Len(waiters) /\ Len(waiters) \in Nat
  BY DEF WaitersInv
<1>3. \A i \in DOMAIN waiters : waiters[i] # c
  BY DEF Range
<1> HIDE DEF w
<1>4. IsInjective(w)
  BY <1>1, <1>2, <1>3 DEF IsInjective, WaitersInv
<1>5. Range(w) = Range(waiters) \cup {c}
  BY <1>1, <1>2 DEF Range
<1> QED BY <1>1, <1>4, <1>5 DEF w

LEMMA WaitersHead ==
    ASSUME WaitersInv, waiters # <<>>
    PROVE  /\ Head(waiters) \in Range(waiters) /\ Tail(waiters) \in Seq(Chains)
           /\ IsInjective(Tail(waiters))
           /\ Range(Tail(waiters)) = Range(waiters) \ {Head(waiters)}
<1> DEFINE w == Tail(waiters)
           h == Head(waiters)
<1>1. /\ w \in Seq(Chains) /\ DOMAIN w = 1..(Len(waiters) - 1)
      /\ \A i \in DOMAIN w : w[i] = waiters[i + 1]
      /\ h = waiters[1]
  BY DEF WaitersInv
<1>2. DOMAIN waiters = 1..Len(waiters) /\ Len(waiters) \in Nat \ {0}
  BY DEF WaitersInv
<1> HIDE DEF w, h
<1>3. h \in Range(waiters)
  BY <1>1, <1>2 DEF Range
<1>4. IsInjective(w)
  BY <1>1, <1>2 DEF IsInjective, WaitersInv
<1>5. ASSUME NEW x \in Range(w)
      PROVE  x \in Range(waiters) \ {h}
  BY <1>1, <1>2 DEF Range, IsInjective, WaitersInv
<1>6. ASSUME NEW x \in Range(waiters) \ {h}
      PROVE  x \in Range(w)
  <2>1. PICK i \in DOMAIN waiters : waiters[i] = x
    BY DEF Range
  <2>2. i - 1 \in DOMAIN w /\ w[i - 1] = x
    BY <1>1, <1>2, <2>1
  <2> QED BY <2>2 DEF Range
<1> QED BY <1>1, <1>3, <1>4, <1>5, <1>6 DEF w, h

LEMMA WaitersShrink ==
    ASSUME WaitersInv, NEW c \in Range(waiters)
    PROVE  LET w == RemoveFirst(waiters, c) IN
           w \in Seq(Chains) /\ IsInjective(w) /\ Range(w) = Range(waiters) \ {c}
<1>1. /\ DOMAIN waiters = 1..Len(waiters) /\ Len(waiters) \in Nat
      /\ waiters \in Seq(Chains) /\ IsInjective(waiters)
  BY DEF WaitersInv
<1>2. PICK i \in 1..Len(waiters) : waiters[i] = c
  BY <1>1 DEF Range
<1>3. SelectInSeq(waiters, LAMBDA v : v = c) = i
  <2>1. {j \in 1..Len(waiters) : waiters[j] = c} = {i}
    BY <1>1, <1>2 DEF IsInjective
  <2>2. Min({i}) = i
    BY DEF Min
  <2> QED BY <2>1, <2>2 DEF SelectInSeq
<1> DEFINE w == SubSeq(waiters, 1, i - 1) \o SubSeq(waiters, i + 1, Len(waiters))
<1>4. RemoveFirst(waiters, c) = w
  BY <1>2, <1>3 DEF RemoveFirst, RemoveAt
<1>5. /\ w \in Seq(Chains) /\ DOMAIN w = 1..(Len(waiters) - 1)
      /\ \A j \in DOMAIN w : w[j] = IF j < i THEN waiters[j] ELSE waiters[j + 1]
  <2> DEFINE a == SubSeq(waiters, 1, i - 1)
             b == SubSeq(waiters, i + 1, Len(waiters))
  <2>1. \A j \in 1..Len(waiters) : waiters[j] \in Chains
    BY <1>1
  <2>2. a \in Seq(Chains) /\ Len(a) = i - 1 /\ \A j \in 1..(i - 1) : a[j] = waiters[j]
    BY <1>1, <1>2, <2>1, SubSeqProperties
  <2>3. /\ b \in Seq(Chains) /\ Len(b) = Len(waiters) - i
        /\ \A j \in 1..(Len(waiters) - i) : b[j] = waiters[i + j]
    <3>1. /\ i + 1 \in Int /\ Len(waiters) \in Int
          /\ \A j \in (i + 1)..Len(waiters) : waiters[j] \in Chains
      BY <1>1, <1>2, <2>1
    <3>2. /\ b \in Seq(Chains)
          /\ Len(b) = IF i + 1 <= Len(waiters) THEN Len(waiters) - (i + 1) + 1 ELSE 0
          /\ \A j \in 1..(Len(waiters) - (i + 1) + 1) : b[j] = waiters[i + 1 + j - 1]
      BY <3>1, SubSeqProperties
    <3>3. Len(waiters) - (i + 1) + 1 = Len(waiters) - i
      BY <1>1, <1>2
    <3>4. \A j \in 1..(Len(waiters) - i) : i + 1 + j - 1 = i + j
      BY <1>1, <1>2
    <3> HIDE DEF b
    <3>5. Len(b) = Len(waiters) - i
      <4>1. \A n \in Nat : \A k \in 1..n :
                (IF k + 1 <= n THEN n - (k + 1) + 1 ELSE 0) = n - k
        OBVIOUS
      <4> QED BY <1>1, <1>2, <3>2, <4>1
    <3>6. ASSUME NEW j \in 1..(Len(waiters) - i)
          PROVE  b[j] = waiters[i + j]
      BY <3>2, <3>3, <3>4
    <3> QED BY <3>2, <3>5, <3>6
  <2> HIDE DEF a, b
  <2>4. /\ a \o b \in Seq(Chains) /\ Len(a \o b) = Len(waiters) - 1
        /\ \A j \in 1..(Len(waiters) - 1) :
                (a \o b)[j] = IF j <= i - 1 THEN a[j] ELSE b[j - (i - 1)]
    <3>1. /\ a \o b \in Seq(Chains) /\ Len(a \o b) = Len(a) + Len(b)
          /\ \A j \in 1..(Len(a) + Len(b)) :
                (a \o b)[j] = IF j <= Len(a) THEN a[j] ELSE b[j - Len(a)]
      BY <2>2, <2>3, ConcatProperties
    <3>2. Len(a) + Len(b) = Len(waiters) - 1
      BY <1>1, <1>2, <2>2, <2>3
    <3> QED BY <2>2, <3>1, <3>2
  <2>5. ASSUME NEW j \in 1..(Len(waiters) - 1)
        PROVE  (a \o b)[j] = IF j < i THEN waiters[j] ELSE waiters[j + 1]
    <3>1. CASE j < i
      BY <1>1, <1>2, <2>2, <2>4, <3>1
    <3>2. CASE ~(j < i)
      <4>1. j - (i - 1) \in 1..(Len(waiters) - i) /\ i + (j - (i - 1)) = j + 1
        BY <1>1, <1>2, <3>2
      <4> QED BY <1>1, <1>2, <2>3, <2>4, <3>2, <4>1
    <3> QED BY <3>1, <3>2
  <2>6. DOMAIN (a \o b) = 1..(Len(waiters) - 1)
    BY <2>4
  <2> QED BY <2>4, <2>5, <2>6 DEF a, b
<1> HIDE DEF w
<1>6. IsInjective(w)
  BY <1>1, <1>2, <1>5 DEF IsInjective
<1>7. ASSUME NEW x \in Range(w)
      PROVE  x \in Range(waiters) \ {c}
  BY <1>1, <1>2, <1>5 DEF Range, IsInjective
<1>8. ASSUME NEW x \in Range(waiters) \ {c}
      PROVE  x \in Range(w)
  <2>1. PICK j \in DOMAIN waiters : waiters[j] = x
    BY DEF Range
  <2>2. CASE j < i
    BY <1>1, <1>2, <1>5, <2>1, <2>2 DEF Range
  <2>3. CASE j > i
    <3>1. j - 1 \in DOMAIN w /\ w[j - 1] = x
      BY <1>1, <1>2, <1>5, <2>1, <2>3
    <3> QED BY <3>1 DEF Range
  <2> QED BY <1>1, <1>2, <2>1, <2>2, <2>3
<1> QED BY <1>4, <1>5, <1>6, <1>7, <1>8

\* The time that the tasks share is put off, brought forward or stays.
LEMMA OneClockMoves ==
    ASSUME ClockInv, NEW c \in Chains, NEW k \in Task, loop' = [loop EXCEPT ![c] = k],
           gatherTime' \in Passed..NoTime, InTime(k)
    PROVE  ClockInv'
<1>1. loop' \in [Chains -> Task]
  BY DEF ClockInv
<1>2. \A d \in Chains : loop'[d] = IF d = c THEN k ELSE loop[d]
  BY DEF ClockInv
<1>3. \A d \in Chains : InTime(loop'[d])
  BY <1>2 DEF ClockInv
<1> QED BY <1>1, <1>3 DEF ClockInv, InTime, Dozes

LEMMA ClockStays ==
    ASSUME ClockInv, loop' = loop, gatherTime' \in Passed..NoTime
    PROVE  ClockInv'
BY DEF ClockInv, InTime, Dozes

\* No task begins to doze, and none for longer.
LEMMA WakeStays ==
    ASSUME WakeInv, gatherTime' \in {gatherTime, NoTime}, permit => permit',
           \A d \in Chains : Dozes(loop'[d]) => Dozes(loop[d]) /\ loop'[d].left = loop[d].left
    PROVE  WakeInv'
<1> SUFFICES ASSUME gatherTime' # NoTime
             PROVE  \E c \in Chains : permit' \/ ~Dozes(loop'[c]) \/ loop'[c].left <= gatherTime'
  BY DEF WakeInv, Dozes
<1>1. gatherTime' = gatherTime
  OBVIOUS
<1>2. PICK c \in Chains : permit \/ ~Dozes(loop[c]) \/ loop[c].left <= gatherTime
  BY <1>1 DEF WakeInv
<1>3. permit' \/ ~Dozes(loop'[c]) \/ loop'[c].left <= gatherTime'
  BY <1>1, <1>2
<1> QED BY <1>3

\* No task falls asleep or wakes up.
LEMMA WaitersStay ==
    ASSUME WaitersInv, UNCHANGED notifyVars,
           \A d \in Chains : loop'[d].at = "asleep" <=> loop[d].at = "asleep"
    PROVE  WaitersInv'
BY DEF WaitersInv, notifyVars

\* No transfer gets older, and no task begins to doze when it has to gather or
\* overlooks a transfer.
LEMMA AgesStay ==
    ASSUME AgeInv, TablesInv, ClockInv, failed \subseteq failed',
           \A t \in Transfers : /\ job'[t] = "new" => job[t] = "new" /\ age'[t] = age[t]
                                /\ job'[t] = "waiting" => /\ job[t] \in {"new", "waiting"}
                                                          /\ age'[t] = age[t],
           \A d \in Chains :
                /\ loop'[d].last = loop[d].last
                /\ Dozes(loop'[d]) => Dozes(loop[d]) \/ loop[d].last < GatherInterval
                /\ loop'[d].at = "post" => \/ loop[d].at = "post" /\ loop'[d].found = loop[d].found
                                           \/ Waiting(d)' \subseteq loop'[d].found
    PROVE  AgeInv'
<1> SUFFICES ASSUME NEW t \in Transfers
             PROVE  (job'[t] = "new" => age'[t] = 0) /\ SinceGathering(t)' /\ SinceQuery(t)'
  BY DEF AgeInv
<1>1. job'[t] = "new" => age'[t] = 0
  BY DEF AgeInv
<1> DEFINE d == ChainOf[t]
<1>2. d \in Chains /\ loop[d] \in Task /\ age[t] \in Nat
  BY LoopAssumption DEF ClockInv, TablesInv, Jobs, Longest
<1>3. loop[d].last \in 0..GatherInterval
  BY <1>2 DEF Task
<1>4. ASSUME job'[t] = "waiting", d \notin failed'
      PROVE  age'[t] <= loop'[d].last \/ (loop'[d].last = GatherInterval /\ ~Dozes(loop'[d]))
  <2>1. age'[t] = age[t] /\ loop'[d].last = loop[d].last
    BY <1>2, <1>4
  <2>2. CASE job[t] = "new"
    BY <1>3, <2>1, <2>2 DEF AgeInv
  <2>3. CASE job[t] = "waiting"
    <3>1. age[t] <= loop[d].last \/ (loop[d].last = GatherInterval /\ ~Dozes(loop[d]))
      BY <1>4, <2>3 DEF AgeInv, SinceGathering
    <3>2. Dozes(loop'[d]) => Dozes(loop[d]) \/ loop[d].last < GatherInterval
      BY <1>2
    <3> QED BY <1>2, <1>3, <2>1, <3>1, <3>2, LoopAssumption
  <2> QED BY <1>4, <2>2, <2>3
<1>5. ASSUME loop'[d].at = "post", job'[t] = "waiting", t \notin loop'[d].found
      PROVE  age'[t] = 0
  <2>1. t \in Waiting(d)'
    BY <1>5 DEF Waiting
  <2>2. loop[d].at = "post" /\ t \notin loop[d].found
    BY <1>2, <1>5, <2>1
  <2> QED BY <1>5, <2>2 DEF AgeInv, SinceQuery
<1> QED BY <1>1, <1>4, <1>5 DEF SinceGathering, SinceQuery, Dozes

\* A task is notified.
LEMMA IsNotified ==
    ASSUME ClockInv, WaitersInv, NotifyOne, gatherTime' \in Passed..NoTime, Chains # {}
    PROVE  /\ ClockInv' /\ WaitersInv' /\ WakeInv'
           /\ \A d \in Chains :
                /\ loop'[d].last = loop[d].last /\ loop'[d].found = loop[d].found
                /\ loop'[d].at = loop[d].at \/ loop'[d].at = "woken"
<1>1. CASE waiters = <<>>
  <2>1. permit' = TRUE /\ waiters' = waiters /\ loop' = loop
    BY <1>1 DEF NotifyOne
  <2> QED BY <1>1, <2>1, ClockStays DEF WaitersInv, WakeInv
<1>2. CASE waiters # <<>>
  <2> DEFINE c == Head(waiters)
             k == [loop[c] EXCEPT !.at = "woken"]
  <2>1. c \in Chains
    BY <1>2, WaitersHead DEF WaitersInv
  <2>2. loop' = [loop EXCEPT ![c] = k] /\ waiters' = Tail(waiters) /\ permit' = permit
    BY <1>2 DEF NotifyOne
  <2>3. /\ k \in Task /\ k.at = "woken" /\ k.last = loop[c].last /\ k.found = loop[c].found
        /\ ~Dozes(k)
    BY <2>1 DEF ClockInv, Task, Step, Dozes
  <2>4. loop'[c] = k /\ \A d \in Chains \ {c} : loop'[d] = loop[d]
    BY <2>1, <2>2 DEF ClockInv
  <2> HIDE DEF k
  <2>5. ClockInv'
    BY <2>1, <2>2, <2>3, OneClockMoves DEF InTime
  <2>6. WaitersInv'
    BY <1>2, <2>2, <2>3, <2>4, WaitersHead DEF WaitersInv
  <2>7. WakeInv'
    BY <2>1, <2>3, <2>4 DEF WakeInv, Dozes
  <2> QED BY <2>3, <2>4, <2>5, <2>6, <2>7
<1> QED BY <1>1, <1>2

----------------------------------------------------------------------------
(* The steps and the clock.                                                *)

LEMMA TaskTimes ==
    /\ \A left \in {0, Pause} : left \in 0..GatherInterval \cup 0..Pause
    /\ 0 \in 0..GatherInterval /\ 0 \in 0..ReportAlive
BY LoopAssumption

LEMMA AgainMoves ==
    ASSUME NEW k \in Task
    PROVE  /\ Again(k) \in Task /\ Again(k).at = "process" /\ Again(k).last = k.last
           /\ GatheredNow(k) \in Task /\ GatheredNow(k).at = "process"
           /\ GatheredNow(k).last = k.since
           /\ [GatheredNow(k) EXCEPT !.at = "exited"] \in Task
           /\ Paused(k) \in Task /\ Paused(k).at = "pause" /\ Paused(k).last = k.last
<1>1. Again(k) \in Task /\ Again(k).at = "process" /\ Again(k).last = k.last
  BY TaskTimes DEF Again, Task, Step
<1>2. k.since \in 0..GatherInterval
  BY DEF Task
<1>3. /\ GatheredNow(k) \in Task /\ GatheredNow(k).at = "process"
      /\ GatheredNow(k).last = k.since
  BY <1>1, <1>2 DEF GatheredNow, Task
<1>4. [GatheredNow(k) EXCEPT !.at = "exited"] \in Task
  BY <1>3 DEF Task, Step
<1>5. Paused(k) \in Task /\ Paused(k).at = "pause" /\ Paused(k).last = k.last
  BY TaskTimes DEF Paused, Task, Step
<1> QED BY <1>1, <1>3, <1>4, <1>5

LEMMA SpendsKeeps ==
    ASSUME budget \in Chances, NEW kind \in {"issue", "ask", "fault"}, Spends(kind)
    PROVE  budget' \in Chances
<1>1. budget[kind] \in Nat /\ budget[kind] - 1 \in Nat
  BY DEF Chances, Spends
<1> QED BY <1>1 DEF Chances, Spends

\* One task goes on and does not begin to doze; the clock and the tables of
\* transfers stay.
LEMMA TaskGoesOn ==
    ASSUME TimeInv, NEW c \in Chains, NEW k \in Task, loop' = [loop EXCEPT ![c] = k],
           ~Dozes(k), k.at # "post", k.last = loop[c].last, loop[c].at # "asleep",
           UNCHANGED <<job, age, gatherTime, notifyVars>>, failed \subseteq failed'
    PROVE  ClockInv' /\ WaitersInv' /\ WakeInv' /\ AgeInv'
<1>1. loop'[c] = k /\ \A d \in Chains \ {c} : loop'[d] = loop[d]
  BY DEF TimeInv, ClockInv
<1>2. gatherTime' \in Passed..NoTime
  BY DEF TimeInv, ClockInv
<1>3. ClockInv'
  BY <1>2, OneClockMoves DEF TimeInv, InTime
<1>4. WaitersInv'
  BY <1>1, WaitersStay DEF TimeInv, Dozes
<1>5. WakeInv'
  BY <1>1, WakeStays DEF TimeInv, notifyVars
<1>6. \A t \in Transfers : job'[t] = "waiting" => job[t] \in {"new", "waiting"}
  OBVIOUS
<1>7. AgeInv'
  BY <1>1, <1>6, AgesStay DEF TimeInv
<1> QED BY <1>3, <1>4, <1>5, <1>7

LEMMA TimeIsUpKeeps ==
    ASSUME TimeInv, NEW c \in Chains, TimeIsUp(c)
    PROVE  TimeInv'
<1> DEFINE k == Again(loop[c])
<1>1. k \in Task /\ k.at = "process" /\ k.last = loop[c].last /\ ~Dozes(k)
  BY AgainMoves DEF TimeInv, ClockInv, Dozes
<1>2. loop' = [loop EXCEPT ![c] = k] /\ waiters' = RemoveFirst(waiters, c)
  BY DEF TimeIsUp, TimeInv, ClockInv
<1>3. loop'[c] = k /\ \A d \in Chains \ {c} : loop'[d] = loop[d]
  BY <1>2 DEF TimeInv, ClockInv
<1> HIDE DEF k
<1>4. TablesInv' /\ job' = job /\ age' = age /\ failed' = failed
  BY DEF TimeIsUp, boundVars, TimeInv, TablesInv
<1>5. gatherTime' = gatherTime /\ gatherTime' \in Passed..NoTime
  BY DEF TimeIsUp, TimeInv, ClockInv
<1>6. ClockInv'
  BY <1>1, <1>2, <1>5, OneClockMoves DEF TimeInv, InTime
<1>7. WaitersInv'
  <2>1. c \in Range(waiters) /\ waiters # <<>>
    BY DEF TimeInv, WaitersInv, TimeIsUp, Range
  <2>2. permit' = permit /\ ~permit
    BY <2>1 DEF TimeInv, WaitersInv, TimeIsUp
  <2> QED BY <1>1, <1>2, <1>3, <2>1, <2>2, WaitersShrink DEF WaitersInv, TimeInv
<1>8. AgeInv'
  BY <1>1, <1>3, <1>4, AgesStay DEF TimeInv
<1>9. WakeInv'
  BY <1>1, <1>3, <1>5, WakeStays DEF TimeInv, TimeIsUp
<1> QED BY <1>4, <1>6, <1>7, <1>8, <1>9 DEF TimeInv

LEMMA ReadsTimesKeeps ==
    ASSUME TimeInv, NEW c \in Chains, ReadsTimes(c)
    PROVE  TimeInv'
<1>1. TablesInv' /\ UNCHANGED <<job, age, failed, gatherTime, notifyVars>>
  BY DEF ReadsTimes, boundVars, TimeInv, TablesInv
<1>2. loop[c] \in Task /\ loop[c].at = "woken" /\ gatherTime \in Passed..NoTime
  BY DEF TimeInv, ClockInv, ReadsTimes
<1>3. CASE Due(c) \/ loop[c].slept >= ReportAlive
  <2>1. loop' = [loop EXCEPT ![c] = Again(loop[c])]
    BY <1>3 DEF ReadsTimes, TimeInv, ClockInv
  <2> QED BY <1>1, <1>2, <2>1, AgainMoves, TaskGoesOn DEF TimeInv, Dozes
<1>4. CASE ~(Due(c) \/ loop[c].slept >= ReportAlive)
  <2> DEFINE left == SleepTime(c)
             k == [loop[c] EXCEPT !.at = "drowsy", !.left = left]
  <2>1. /\ loop[c].last \in 0..GatherInterval /\ loop[c].last < GatherInterval
        /\ loop[c].slept \in 0..ReportAlive /\ loop[c].slept < ReportAlive
        /\ gatherTime \in Int /\ gatherTime > 0
        /\ GatherInterval \in Nat /\ ReportAlive \in Nat
    BY <1>2, <1>4, LoopAssumption, NoTimeIsLast DEF Task, Due, Passed
  <2>2. /\ left \in Int /\ left >= 0 /\ left <= ReportAlive - loop[c].slept
        /\ left <= GatherInterval - loop[c].last /\ left <= gatherTime
    BY <2>1, SleepTimeIsShortest
  <2>3. loop' = [loop EXCEPT ![c] = k]
    BY <1>4 DEF ReadsTimes, TimeInv, ClockInv
  <2> HIDE DEF left
  <2>4. left \in 0..GatherInterval \cup 0..Pause
    BY <2>1, <2>2
  <2>5. /\ k \in Task /\ k.at = "drowsy" /\ k.left = left /\ k.slept = loop[c].slept
        /\ k.last = loop[c].last
    BY <1>2, <2>4 DEF Task, Step
  <2> HIDE DEF k
  <2>6. InTime(k)
    BY <2>1, <2>2, <2>5 DEF InTime
  <2>7. ClockInv'
    BY <1>1, <1>2, <2>3, <2>5, <2>6, OneClockMoves DEF TimeInv
  <2>8. loop'[c] = k /\ \A d \in Chains \ {c} : loop'[d] = loop[d]
    BY <2>3 DEF TimeInv, ClockInv
  <2>9. WaitersInv'
    BY <1>1, <1>2, <2>5, <2>8, WaitersStay DEF TimeInv
  <2>10. WakeInv'
    BY <1>1, <2>2, <2>5, <2>8 DEF WakeInv
  <2>11. AgeInv'
    BY <1>1, <2>1, <2>5, <2>8, AgesStay DEF TimeInv
  <2> QED BY <1>1, <2>7, <2>9, <2>10, <2>11 DEF TimeInv
<1> QED BY <1>3, <1>4

LEMMA FallsAsleepKeeps ==
    ASSUME TimeInv, NEW c \in Chains, FallsAsleep(c)
    PROVE  TimeInv'
<1>1. TablesInv' /\ UNCHANGED <<job, age, failed, gatherTime>> /\ permit' = FALSE
  BY DEF FallsAsleep, boundVars, TimeInv, TablesInv
<1>2. /\ loop[c] \in Task /\ loop[c].at = "drowsy" /\ InTime(loop[c])
      /\ gatherTime' \in Passed..NoTime
  BY <1>1 DEF TimeInv, ClockInv, FallsAsleep
<1> DEFINE k == [loop[c] EXCEPT !.at = IF permit THEN "woken" ELSE "asleep"]
<1>3. loop' = [loop EXCEPT ![c] = k]
  BY DEF FallsAsleep
<1>4. /\ k \in Task /\ k.at = IF permit THEN "woken" ELSE "asleep"
      /\ k.left = loop[c].left /\ k.slept = loop[c].slept /\ k.last = loop[c].last
  BY <1>2 DEF Task, Step
<1> HIDE DEF k
<1>5. InTime(k) /\ Dozes(loop[c])
  BY <1>2, <1>4 DEF InTime, Dozes
<1>6. ClockInv'
  BY <1>2, <1>3, <1>4, <1>5, OneClockMoves DEF TimeInv
<1>7. loop'[c] = k /\ \A d \in Chains \ {c} : loop'[d] = loop[d]
  BY <1>3 DEF TimeInv, ClockInv
<1>8. AgeInv'
  <2>1. \A t \in Transfers : job'[t] = "waiting" => job[t] \in {"new", "waiting"}
    BY <1>1
  <2> QED BY <1>1, <1>4, <1>5, <1>7, <2>1, AgesStay DEF TimeInv
<1>9. CASE permit
  <2>1. k.at = "woken" /\ waiters' = waiters /\ waiters = <<>>
    BY <1>4, <1>9 DEF FallsAsleep, TimeInv, WaitersInv
  <2>2. \A d \in Chains : loop'[d].at = "asleep" <=> loop[d].at = "asleep"
    BY <1>2, <1>7, <2>1
  <2>3. WaitersInv'
    BY <1>1, <2>1, <2>2 DEF TimeInv, WaitersInv
  <2>4. WakeInv'
    BY <1>7, <2>1 DEF WakeInv, Dozes
  <2> QED BY <1>1, <1>6, <1>8, <2>3, <2>4 DEF TimeInv
<1>10. CASE ~permit
  <2>1. k.at = "asleep" /\ waiters' = Append(waiters, c)
    BY <1>4, <1>10 DEF FallsAsleep
  <2>2. c \notin Range(waiters)
    BY <1>2 DEF TimeInv, WaitersInv
  <2>3. WaitersInv'
    BY <1>1, <1>7, <2>1, <2>2, WaitersGrow DEF TimeInv, WaitersInv
  <2>4. WakeInv'
    BY <1>1, <1>4, <1>5, <1>7, <1>10, WakeStays DEF TimeInv
  <2> QED BY <1>1, <1>6, <1>8, <2>3, <2>4 DEF TimeInv
<1> QED BY <1>9, <1>10

\* A row is confirmed, something is reported or goes wrong, a pause ends.
LEMMA ConfirmedKeeps ==
    ASSUME TimeInv, NEW c \in Chains, Confirmed(c)
    PROVE  TimeInv'
<1> SUFFICES ASSUME NEW events \in Seq(DriverEvent), Reports(c, events, 0)
             PROVE  TimeInv'
  <2>1. Finished(c) \in DriverEvent /\ Other(c) \in DriverEvent
    BY DEF DriverEvent
  <2>2. \A a, b \in DriverEvent : <<a>> \in Seq(DriverEvent) /\ <<a, b>> \in Seq(DriverEvent)
    OBVIOUS
  <2> QED BY <2>1, <2>2 DEF Confirmed
<1> DEFINE k == [loop[c] EXCEPT !.at = "report", !.events = events, !.left = 0]
<1>1. loop[c] \in Task /\ loop[c].at = "process"
  BY DEF TimeInv, ClockInv, Confirmed
<1>2. k \in Task /\ k.at = "report" /\ k.last = loop[c].last /\ ~Dozes(k)
  BY <1>1, TaskTimes DEF Task, Step, Dozes
<1>3. loop' = [loop EXCEPT ![c] = k]
  BY DEF Reports
<1>4. loop'[c] = k /\ \A d \in Chains \ {c} : loop'[d] = loop[d]
  BY <1>3 DEF TimeInv, ClockInv
<1> HIDE DEF k
<1>5. UNCHANGED <<age, gatherTime, notifyVars, failed>>
  BY DEF Confirmed, boundVars
<1>6. /\ job' \in [Jobs -> {"new", "waiting", "queued", "done"}]
      /\ \A j \in Jobs : job'[j] \in {"new", "waiting"} => job[j] = job'[j]
  BY DEF Confirmed, TimeInv, TablesInv, Rows
<1>7. TablesInv'
  <2>1. allowance' \in [Chains -> {"missing", "queued", "met"}]
    BY DEF Confirmed, TimeInv, TablesInv
  <2> QED BY <1>5, <1>6, <2>1 DEF Confirmed, boundVars, TimeInv, TablesInv
<1>8. ClockInv'
  BY <1>2, <1>3, <1>5, OneClockMoves DEF TimeInv, ClockInv, InTime
<1>9. WaitersInv'
  BY <1>1, <1>2, <1>4, <1>5, WaitersStay DEF TimeInv
<1>10. AgeInv'
  <2>1. \A t \in Transfers : /\ job'[t] = "new" => job[t] = "new" /\ age'[t] = age[t]
                             /\ job'[t] = "waiting" => /\ job[t] \in {"new", "waiting"}
                                                       /\ age'[t] = age[t]
    BY <1>5, <1>6 DEF Jobs
  <2> QED BY <1>2, <1>4, <1>5, <2>1, AgesStay DEF TimeInv
<1>11. WakeInv'
  BY <1>2, <1>4, <1>5, WakeStays DEF TimeInv, notifyVars
<1> QED BY <1>7, <1>8, <1>9, <1>10, <1>11 DEF TimeInv

LEMMA ReportKeeps ==
    ASSUME TimeInv, LoopInv, NEW c \in Chains, Report(c)
    PROVE  TimeInv'
<1> DEFINE rest == Tail(loop[c].events)
           at == IF rest # <<>> THEN "report" ELSE IF loop[c].left > 0 THEN "pause" ELSE "process"
           k == [loop[c] EXCEPT !.events = rest, !.at = at]
<1>1. loop[c] \in Task /\ loop[c].at = "report" /\ loop[c].events # <<>>
  BY DEF TimeInv, ClockInv, Report, LoopInv, Holds
<1>2. rest \in Seq(DriverEvent)
  BY <1>1 DEF Task
<1>3. k \in Task /\ ~Dozes(k) /\ k.at # "post" /\ k.last = loop[c].last
  BY <1>1, <1>2 DEF Task, Step, Dozes
<1>4. loop' = [loop EXCEPT ![c] = k]
  BY DEF Report
<1> HIDE DEF k
<1>5. TablesInv' /\ UNCHANGED <<job, age, gatherTime, notifyVars, failed>>
  BY DEF Report, boundVars, TimeInv, TablesInv
<1> QED BY <1>1, <1>3, <1>4, <1>5, TaskGoesOn DEF TimeInv

LEMMA IssueKeeps ==
    ASSUME TimeInv, NEW c \in Chains, MeetsIssue(c)
    PROVE  TimeInv'
<1>1. PICK e \in Issues, left \in {0, Pause} : Reports(c, <<e>>, left)
  BY DEF MeetsIssue
<1>2. e \in DriverEvent
  BY <1>1, LoopAssumption
<1> DEFINE k == [loop[c] EXCEPT !.at = "report", !.events = <<e>>, !.left = left]
<1>3. loop[c] \in Task /\ loop[c].at = "process"
  BY DEF TimeInv, ClockInv, MeetsIssue
<1>4. k \in Task /\ ~Dozes(k) /\ k.at # "post" /\ k.last = loop[c].last
  <2>1. <<e>> \in Seq(DriverEvent)
    BY <1>2
  <2> QED BY <1>1, <1>3, <2>1, TaskTimes DEF Task, Step, Dozes
<1>5. loop' = [loop EXCEPT ![c] = k]
  BY <1>1 DEF Reports
<1> HIDE DEF k
<1>6. budget' \in Chances
  BY SpendsKeeps DEF MeetsIssue, TimeInv, TablesInv
<1>7. TablesInv' /\ UNCHANGED <<job, age, gatherTime, notifyVars, failed>>
  BY <1>6 DEF MeetsIssue, TimeInv, TablesInv
<1> QED BY <1>3, <1>4, <1>5, <1>7, TaskGoesOn DEF TimeInv

LEMMA PauseEndsKeeps ==
    ASSUME TimeInv, NEW c \in Chains, PauseEnds(c)
    PROVE  TimeInv'
<1>1. loop[c] \in Task /\ loop[c].at = "pause"
  BY DEF TimeInv, ClockInv, PauseEnds
<1>2. loop' = [loop EXCEPT ![c] = Again(loop[c])]
  BY DEF PauseEnds, TimeInv, ClockInv
<1>3. TablesInv' /\ UNCHANGED <<job, age, gatherTime, notifyVars, failed>>
  BY DEF PauseEnds, boundVars, TimeInv, TablesInv
<1> QED BY <1>1, <1>2, <1>3, AgainMoves, TaskGoesOn DEF TimeInv, Dozes

\* The time of the next gathering is over for all tasks when one gathers.
LEMMA AllProcessedKeeps ==
    ASSUME TimeInv, NEW c \in Chains, AllProcessed(c)
    PROVE  TimeInv'
<1>1. TablesInv' /\ UNCHANGED <<job, age, failed>>
  BY DEF AllProcessed, boundVars, TimeInv, TablesInv
<1>2. loop[c] \in Task /\ loop[c].at = "process" /\ gatherTime \in Passed..NoTime
  BY DEF TimeInv, ClockInv, AllProcessed
<1>3. gatherTime' \in Passed..NoTime /\ gatherTime' \in {gatherTime, NoTime}
  <2>1. NoTime \in Passed..NoTime
    BY NoTimeIsLast, LoopAssumption DEF Passed
  <2> QED BY <1>2, <2>1 DEF AllProcessed
<1>4. \A t \in Transfers : job'[t] = "waiting" => job[t] \in {"new", "waiting"}
  BY <1>1
<1>5. PICK at \in {"gather", "woken"} : loop' = [loop EXCEPT ![c].at = at]
  BY DEF AllProcessed
<1> DEFINE k == [loop[c] EXCEPT !.at = at]
<1>6. k \in Task /\ k.at # "post" /\ ~Dozes(k) /\ k.at # "asleep" /\ k.last = loop[c].last
  BY <1>2 DEF Task, Step, Dozes
<1>7. loop' = [loop EXCEPT ![c] = k] /\ UNCHANGED notifyVars
  BY <1>5 DEF AllProcessed, TimeInv, ClockInv
<1>8. loop'[c] = k /\ \A d \in Chains \ {c} : loop'[d] = loop[d]
  BY <1>7 DEF TimeInv, ClockInv
<1> HIDE DEF k
<1>9. ClockInv'
  BY <1>3, <1>6, <1>7, OneClockMoves DEF TimeInv, InTime
<1>10. WaitersInv'
  BY <1>2, <1>6, <1>7, <1>8, WaitersStay DEF TimeInv
<1>11. WakeInv'
  BY <1>3, <1>6, <1>7, <1>8, WakeStays DEF TimeInv, notifyVars
<1>12. AgeInv'
  BY <1>1, <1>4, <1>6, <1>8, AgesStay DEF TimeInv
<1> QED BY <1>1, <1>9, <1>10, <1>11, <1>12 DEF TimeInv

\* A gathering overlooks no transfer.
LEMMA FindsKeeps ==
    ASSUME TimeInv, NEW c \in Chains, FindsTransfers(c)
    PROVE  TimeInv'
<1>1. TablesInv' /\ UNCHANGED <<job, age, failed, gatherTime, notifyVars>>
  BY DEF FindsTransfers, boundVars, TimeInv, TablesInv
<1>2. loop[c] \in Task /\ loop[c].at = "gather" /\ gatherTime' \in Passed..NoTime
  BY <1>1 DEF TimeInv, ClockInv, FindsTransfers
<1> DEFINE k == [loop[c] EXCEPT !.at = "post", !.found = Waiting(c)]
<1>3. loop' = [loop EXCEPT ![c] = k]
  BY DEF FindsTransfers, TimeInv, ClockInv
<1>4. k \in Task /\ k.at = "post" /\ ~Dozes(k) /\ k.last = loop[c].last /\ k.found = Waiting(c)
  <2>1. Waiting(c) \in SUBSET Transfers
    BY DEF Waiting
  <2> QED BY <1>2, <2>1 DEF Task, Step, Dozes
<1>5. loop'[c] = k /\ \A d \in Chains \ {c} : loop'[d] = loop[d]
  BY <1>3 DEF TimeInv, ClockInv
<1> HIDE DEF k
<1>6. ClockInv'
  BY <1>2, <1>3, <1>4, OneClockMoves DEF TimeInv, InTime
<1>7. WaitersInv'
  BY <1>1, <1>2, <1>4, <1>5, WaitersStay DEF TimeInv
<1>8. WakeInv'
  BY <1>1, <1>4, <1>5, WakeStays DEF TimeInv, notifyVars
<1>9. AgeInv'
  <2>1. \A t \in Transfers : job'[t] = "waiting" => job[t] \in {"new", "waiting"}
    BY <1>1
  <2>2. Waiting(c)' = Waiting(c)
    BY <1>1 DEF Waiting
  <2> QED BY <1>1, <1>4, <1>5, <2>1, <2>2, AgesStay DEF TimeInv
<1> QED BY <1>1, <1>6, <1>7, <1>8, <1>9 DEF TimeInv

\* After a gathering only transfers wait that have come meanwhile.
LEMMA GatheredKeeps ==
    ASSUME TimeInv, NEW c \in Chains, Gathered(c)
    PROVE  TimeInv'
<1>1. loop[c] \in Task /\ loop[c].at = "post"
  BY DEF TimeInv, ClockInv, Gathered
<1>2. PICK k \in {GatheredNow(loop[c]), [GatheredNow(loop[c]) EXCEPT !.at = "exited"]} :
        loop' = [loop EXCEPT ![c] = k]
  BY DEF Gathered, TimeInv, ClockInv
<1>3. /\ k \in Task /\ k.at \in {"process", "exited"} /\ ~Dozes(k)
      /\ k.last \in 0..GatherInterval
  <2>1. k \in Task /\ k.at \in {"process", "exited"}
    BY <1>1, <1>2, AgainMoves DEF Task
  <2> QED BY <2>1 DEF Task, Dozes
<1>4. loop'[c] = k /\ \A d \in Chains \ {c} : loop'[d] = loop[d]
  BY <1>2 DEF TimeInv, ClockInv
<1>5. UNCHANGED <<gatherTime, notifyVars, failed>>
  BY DEF Gathered, boundVars
<1>6. /\ job' = [j \in Jobs |-> IF j \in loop[c].found THEN "queued" ELSE job[j]]
      /\ age' = [t \in Transfers |-> IF t \in loop[c].found THEN 0 ELSE age[t]]
  BY DEF Gathered
<1>7. TablesInv'
  <2>1. job' \in [Jobs -> {"new", "waiting", "queued", "done"}]
    BY <1>6 DEF TimeInv, TablesInv
  <2>2. 0 \in 0..Longest
    BY LoopAssumption DEF Longest
  <2>3. age' \in [Transfers -> 0..Longest]
    BY <1>6, <2>2 DEF TimeInv, TablesInv
  <2> QED BY <2>1, <2>3 DEF Gathered, boundVars, TimeInv, TablesInv
<1>8. ClockInv'
  BY <1>2, <1>3, <1>5, OneClockMoves DEF TimeInv, ClockInv, InTime
<1>9. WaitersInv'
  BY <1>1, <1>3, <1>4, <1>5, WaitersStay DEF TimeInv
<1>10. WakeInv'
  BY <1>3, <1>4, <1>5, WakeStays DEF TimeInv, notifyVars
<1>11. AgeInv'
  <2> SUFFICES ASSUME NEW t \in Transfers
               PROVE  (job'[t] = "new" => age'[t] = 0) /\ SinceGathering(t)' /\ SinceQuery(t)'
    BY DEF AgeInv
  <2>1. (job[t] = "new" => age[t] = 0) /\ SinceGathering(t) /\ SinceQuery(t)
    BY DEF TimeInv, AgeInv
  <2>2. CASE t \in loop[c].found
    BY <1>6, <2>2 DEF SinceGathering, SinceQuery, Jobs
  <2>3. CASE t \notin loop[c].found
    <3>1. job'[t] = job[t] /\ age'[t] = age[t]
      BY <1>6, <2>3 DEF Jobs
    <3>2. CASE ChainOf[t] = c
      <4>1. job[t] = "waiting" => age[t] = 0
        BY <1>1, <2>1, <2>3, <3>2 DEF SinceQuery
      <4>2. loop'[c].last >= 0 /\ loop'[c].at # "post"
        BY <1>3, <1>4
      <4> QED BY <2>1, <3>1, <3>2, <4>1, <4>2 DEF SinceGathering, SinceQuery
    <3>3. CASE ChainOf[t] # c
      <4>1. loop'[ChainOf[t]] = loop[ChainOf[t]]
        BY <1>4, <3>3, LoopAssumption DEF Jobs
      <4> QED BY <1>5, <2>1, <3>1, <4>1 DEF SinceGathering, SinceQuery, Dozes
    <3> QED BY <3>2, <3>3
  <2> QED BY <2>2, <2>3
<1> QED BY <1>7, <1>8, <1>9, <1>10, <1>11 DEF TimeInv

\* When a gathering fails, the transfers of the chain may wait for longer.
LEMMA FailsKeeps ==
    ASSUME TimeInv, NEW c \in Chains, PreFails(c) \/ PostFails(c)
    PROVE  TimeInv'
<1>1. loop[c] \in Task /\ loop[c].at \in {"gather", "post"}
  BY DEF TimeInv, ClockInv, PreFails, PostFails
<1>2. PICK k \in {Paused(loop[c]), Paused(GatheredNow(loop[c])), GatheredNow(loop[c])} :
        loop' = [loop EXCEPT ![c] = k]
  BY DEF PreFails, PostFails, TimeInv, ClockInv
<1>3. k \in Task /\ k.at \in {"process", "pause"} /\ ~Dozes(k)
  <2>1. GatheredNow(loop[c]) \in Task /\ GatheredNow(loop[c]).at = "process"
    BY <1>1, AgainMoves
  <2>2. Paused(GatheredNow(loop[c])) \in Task /\ Paused(GatheredNow(loop[c])).at = "pause"
    BY <2>1, AgainMoves
  <2>3. Paused(loop[c]) \in Task /\ Paused(loop[c]).at = "pause"
    BY <1>1, AgainMoves
  <2> QED BY <1>2, <2>1, <2>2, <2>3 DEF Dozes
<1>4. loop'[c] = k /\ \A d \in Chains \ {c} : loop'[d] = loop[d]
  BY <1>2 DEF TimeInv, ClockInv
<1>5. UNCHANGED <<mode, job, calling, age, gatherTime, notifyVars, allowance>>
  BY DEF PreFails, PostFails
<1>6. failed' = failed \cup {c} /\ Spends("fault")
  BY DEF PreFails, PostFails
<1>7. TablesInv'
  <2>1. budget' \in Chances
    BY <1>6, SpendsKeeps DEF TimeInv, TablesInv
  <2> QED BY <1>5, <1>6, <2>1 DEF TimeInv, TablesInv
<1>8. ClockInv'
  BY <1>2, <1>3, <1>5, OneClockMoves DEF TimeInv, ClockInv, InTime
<1>9. WaitersInv'
  BY <1>1, <1>3, <1>4, <1>5, WaitersStay DEF TimeInv
<1>10. WakeInv'
  BY <1>3, <1>4, <1>5, WakeStays DEF TimeInv, notifyVars
<1>11. AgeInv'
  <2> SUFFICES ASSUME NEW t \in Transfers
               PROVE  (job'[t] = "new" => age'[t] = 0) /\ SinceGathering(t)' /\ SinceQuery(t)'
    BY DEF AgeInv
  <2>1. (job[t] = "new" => age[t] = 0) /\ SinceGathering(t) /\ SinceQuery(t)
    BY DEF TimeInv, AgeInv
  <2>2. CASE ChainOf[t] = c
    BY <1>3, <1>4, <1>5, <1>6, <2>1, <2>2 DEF SinceGathering, SinceQuery
  <2>3. CASE ChainOf[t] # c
    <3>1. loop'[ChainOf[t]] = loop[ChainOf[t]]
      BY <1>4, <2>3, LoopAssumption DEF Jobs
    <3> QED BY <1>5, <1>6, <2>1, <3>1 DEF SinceGathering, SinceQuery, Dozes
  <2> QED BY <2>2, <2>3
<1> QED BY <1>7, <1>8, <1>9, <1>10, <1>11 DEF TimeInv

LEMMA AllowanceMissingKeeps ==
    ASSUME TimeInv, NEW c \in Chains, AllowanceMissing(c)
    PROVE  TimeInv'
<1>1. loop[c] \in Task /\ loop[c].at = "post"
  BY DEF TimeInv, ClockInv, AllowanceMissing
<1>2. loop' = [loop EXCEPT ![c] = Again(loop[c])]
  BY DEF AllowanceMissing, TimeInv, ClockInv
<1>3. UNCHANGED <<job, age, gatherTime, notifyVars, failed>>
  BY DEF AllowanceMissing, boundVars
<1>4. TablesInv'
  <2>1. allowance' \in [Chains -> {"missing", "queued", "met"}]
    BY DEF AllowanceMissing, TimeInv, TablesInv
  <2> QED BY <2>1 DEF AllowanceMissing, boundVars, TimeInv, TablesInv
<1> QED BY <1>1, <1>2, <1>3, <1>4, AgainMoves, TaskGoesOn DEF TimeInv, Dozes

\* The calls of the user.
LEMMA InsertKeeps ==
    ASSUME TimeInv, NEW t \in Transfers, Insert(t)
    PROVE  TimeInv'
<1>1. /\ job' = [job EXCEPT ![t] = "waiting"] /\ job[t] = "new" /\ calling' = calling \cup {t}
      /\ UNCHANGED <<mode, age, loop, gatherTime, notifyVars, allowance, boundVars>>
  BY DEF Insert
<1>2. TablesInv'
  BY <1>1 DEF TimeInv, TablesInv, boundVars
<1>3. ClockInv'
  BY <1>1, ClockStays DEF TimeInv, ClockInv
<1>4. WaitersInv'
  BY <1>1, WaitersStay DEF TimeInv
<1>5. AgeInv'
  <2>1. \A u \in Transfers : job'[u] = IF u = t THEN "waiting" ELSE job[u]
    BY <1>1 DEF TimeInv, TablesInv, Jobs
  <2>2. \A u \in Transfers : /\ job'[u] = "new" => job[u] = "new" /\ age'[u] = age[u]
                             /\ job'[u] = "waiting" => /\ job[u] \in {"new", "waiting"}
                                                       /\ age'[u] = age[u]
    BY <1>1, <2>1
  <2> QED BY <1>1, <2>2, AgesStay DEF TimeInv, boundVars
<1>6. WakeInv'
  BY <1>1, WakeStays DEF TimeInv, notifyVars
<1> QED BY <1>2, <1>3, <1>4, <1>5, <1>6 DEF TimeInv

LEMMA SetDeadlineKeeps ==
    ASSUME TimeInv, NEW t \in Transfers, SetDeadline(t)
    PROVE  TimeInv'
<1>1. PICK d \in Deadlines \cup {NoTime} :
        IF ~mode.ignoreDeadlines /\ d < gatherTime
        THEN gatherTime' = d /\ NotifyOne
        ELSE UNCHANGED <<gatherTime, loop, notifyVars>>
  BY DEF SetDeadline
<1>2. TablesInv' /\ UNCHANGED <<job, age, failed>>
  BY DEF SetDeadline, boundVars, TimeInv, TablesInv
<1>3. \A u \in Transfers : job'[u] = "waiting" => job[u] \in {"new", "waiting"}
  BY <1>2
<1>4. gatherTime \in Passed..NoTime
  BY DEF TimeInv, ClockInv
<1>5. CASE gatherTime' = d /\ NotifyOne
  <2>1. d \in Passed..NoTime /\ Chains # {}
    BY NoTimeIsLast, LoopAssumption DEF Passed, Jobs
  <2>2. /\ ClockInv' /\ WaitersInv' /\ WakeInv'
        /\ \A c \in Chains :
                /\ loop'[c].last = loop[c].last /\ loop'[c].found = loop[c].found
                /\ loop'[c].at = loop[c].at \/ loop'[c].at = "woken"
    BY <1>5, <2>1, IsNotified DEF TimeInv
  <2>3. AgeInv'
    BY <1>2, <1>3, <2>2, AgesStay DEF TimeInv, Dozes
  <2> QED BY <1>2, <2>2, <2>3 DEF TimeInv
<1>6. CASE UNCHANGED <<gatherTime, loop, notifyVars>>
  <2>1. ClockInv' /\ WaitersInv' /\ WakeInv'
    BY <1>4, <1>6, ClockStays, WaitersStay, WakeStays DEF TimeInv, notifyVars
  <2>2. AgeInv'
    BY <1>2, <1>3, <1>6, AgesStay DEF TimeInv
  <2> QED BY <1>2, <2>1, <2>2 DEF TimeInv
<1> QED BY <1>1, <1>5, <1>6

LEMMA MintKeeps ==
    ASSUME TimeInv, NEW m \in Mints, Mint(m)
    PROVE  TimeInv'
<1>1. job' \in [Jobs -> {"new", "waiting", "queued", "done"}]
  BY DEF Mint, TimeInv, TablesInv
<1>2. TablesInv' /\ UNCHANGED <<age, failed, gatherTime>>
  BY <1>1 DEF Mint, boundVars, TimeInv, TablesInv
<1>3. \A u \in Transfers : job'[u] = job[u]
  BY LoopAssumption DEF Mint, TimeInv, TablesInv, Jobs
<1>4. gatherTime' \in Passed..NoTime /\ Chains # {}
  BY <1>2, LoopAssumption DEF TimeInv, ClockInv, Jobs
<1>5. /\ ClockInv' /\ WaitersInv' /\ WakeInv'
      /\ \A c \in Chains :
                /\ loop'[c].last = loop[c].last /\ loop'[c].found = loop[c].found
                /\ loop'[c].at = loop[c].at \/ loop'[c].at = "woken"
  BY <1>2, <1>4, IsNotified DEF TimeInv, Mint
<1>6. AgeInv'
  BY <1>2, <1>3, <1>5, AgesStay DEF TimeInv, Dozes
<1> QED BY <1>2, <1>5, <1>6 DEF TimeInv

\* Time passes only when every task that sleeps has time left.
LEMMA TickKeeps ==
    ASSUME TimeInv, Tick
    PROVE  TimeInv'
<1>1. GatherInterval \in Nat /\ ReportAlive \in Nat /\ Pause \in Nat
  BY LoopAssumption
<1>2. /\ loop \in [Chains -> Task] /\ gatherTime \in Passed..NoTime
      /\ age \in [Transfers -> 0..Longest]
  BY DEF TimeInv, ClockInv, TablesInv
<1>3. UNCHANGED <<mode, job, calling, notifyVars, allowance, boundVars>>
  BY DEF Tick
<1>4. ASSUME NEW t \in Transfers
      PROVE  /\ age'[t] \in 0..Longest
             /\ age'[t] = IF job[t] = "waiting" THEN Older(age[t], Longest) ELSE age[t]
  <2>1. age'[t] = IF job[t] = "waiting" THEN Older(age[t], Longest) ELSE age[t]
    BY DEF Tick
  <2>2. age[t] \in 0..Longest /\ Longest \in Nat
    BY <1>1, <1>2 DEF Longest
  <2> QED BY <2>1, <2>2 DEF Older
<1>5. TablesInv'
  <2>1. age' \in [Transfers -> 0..Longest]
    BY <1>4 DEF Tick
  <2> QED BY <1>3, <2>1 DEF TimeInv, TablesInv, boundVars
<1>6. gatherTime' \in Passed..NoTime
  <2>1. Passed \in Int /\ NoTime \in Int
    BY <1>1, NoTimeIsLast DEF Passed
  <2>2. gatherTime' = gatherTime \/ (gatherTime # Passed /\ gatherTime' = gatherTime - 1)
    BY DEF Tick
  <2> QED BY <1>2, <2>1, <2>2
<1>7. ASSUME NEW c \in Chains
      PROVE  /\ loop'[c] \in Task /\ InTime(loop'[c])
             /\ loop[c].at # "drowsy" /\ loop[c].at # "post" /\ loop'[c].at = loop[c].at
             /\ loop'[c].last = Older(loop[c].last, GatherInterval)
             /\ Dozes(loop[c]) => /\ loop[c].last < GatherInterval
                                  /\ loop[c].left \in Nat \ {0} /\ loop'[c].left = loop[c].left - 1
  <2> DEFINE k == loop[c]
             left == IF k.at \in {"asleep", "pause"} THEN k.left - 1 ELSE k.left
             slept == IF k.at = "asleep" THEN k.slept + 1 ELSE k.slept
  <2>1. k \in Task /\ InTime(k) /\ MayLast(c)
    BY DEF TimeInv, ClockInv, Tick
  <2>2. /\ k.left \in 0..GatherInterval \cup 0..Pause /\ k.slept \in 0..ReportAlive
        /\ k.last \in 0..GatherInterval /\ k.since \in 0..GatherInterval
    BY <2>1 DEF Task
  <2>3. loop'[c] = [k EXCEPT !.last = Older(@, GatherInterval),
                             !.since = Older(@, GatherInterval),
                             !.left = left, !.slept = slept]
    BY <2>1 DEF Tick, Task
  <2>4. /\ k.at \in {"asleep", "pause"} => k.left > 0
        /\ k.at # "drowsy" /\ k.at # "post" /\ (Dozes(k) => k.at = "asleep")
    BY <2>1 DEF MayLast, Dozes
  <2>5. Dozes(k) => k.left + k.slept <= ReportAlive /\ k.left + k.last <= GatherInterval
    BY <2>1 DEF InTime
  <2>6. k.at = "asleep" => Dozes(k)
    BY DEF Dozes
  <2> HIDE DEF k
  <2>7. left \in 0..GatherInterval \cup 0..Pause
    BY <1>1, <2>2, <2>4
  <2>8. slept \in 0..ReportAlive
    BY <1>1, <2>2, <2>4, <2>5, <2>6
  <2>9. /\ Older(k.last, GatherInterval) \in 0..GatherInterval
        /\ Older(k.since, GatherInterval) \in 0..GatherInterval
    BY <1>1, <2>2 DEF Older
  <2>10. Dozes(k) => /\ left + slept <= ReportAlive
                     /\ k.last < GatherInterval
                     /\ left + Older(k.last, GatherInterval) <= GatherInterval
                     /\ k.left \in Nat \ {0} /\ left = k.left - 1
    BY <1>1, <2>2, <2>4, <2>5 DEF Older
  <2> HIDE DEF left, slept
  <2>11. /\ loop'[c] \in Task /\ loop'[c].at = k.at
         /\ loop'[c].left = left /\ loop'[c].slept = slept
         /\ loop'[c].last = Older(k.last, GatherInterval)
    BY <2>1, <2>3, <2>7, <2>8, <2>9 DEF Task
  <2> QED BY <2>4, <2>10, <2>11 DEF InTime, Dozes, k
<1>8. ClockInv'
  <2>1. loop' \in [Chains -> Task]
    BY <1>7 DEF Tick
  <2> QED BY <1>6, <1>7, <2>1 DEF ClockInv, InTime, Dozes
<1>9. WaitersInv'
  BY <1>3, <1>7, WaitersStay DEF TimeInv
<1>10. WakeInv'
  <2> SUFFICES ASSUME gatherTime' # NoTime
               PROVE  \E c \in Chains :
                        permit' \/ ~Dozes(loop'[c]) \/ loop'[c].left <= gatherTime'
    BY DEF WakeInv, Dozes
  <2>1. gatherTime # NoTime
    BY DEF Tick
  <2>2. PICK c \in Chains : permit \/ ~Dozes(loop[c]) \/ loop[c].left <= gatherTime
    BY <2>1 DEF TimeInv, WakeInv
  <2>3. ASSUME Dozes(loop[c]), ~permit
        PROVE  loop'[c].left <= gatherTime'
    <3>1. /\ loop[c].left \in Nat \ {0} /\ loop[c].left <= gatherTime
          /\ loop'[c].left = loop[c].left - 1
      BY <1>7, <2>2, <2>3
    <3>2. gatherTime # Passed /\ gatherTime \in Int
      BY <1>2, <3>1, NoTimeIsLast DEF Passed
    <3>3. gatherTime' = gatherTime - 1
      BY <2>1, <3>2 DEF Tick
    <3> QED BY <3>1, <3>2, <3>3
  <2>4. Dozes(loop'[c]) => Dozes(loop[c])
    BY <1>7 DEF Dozes
  <2> QED BY <1>3, <2>2, <2>3, <2>4 DEF notifyVars
<1>11. AgeInv'
  <2> SUFFICES ASSUME NEW t \in Transfers
               PROVE  (job'[t] = "new" => age'[t] = 0) /\ SinceGathering(t)' /\ SinceQuery(t)'
    BY DEF AgeInv
  <2>1. (job[t] = "new" => age[t] = 0) /\ SinceGathering(t)
    BY DEF TimeInv, AgeInv
  <2> DEFINE k == loop[ChainOf[t]]
  <2>2. ChainOf[t] \in Chains
    BY LoopAssumption DEF Jobs
  <2>3. /\ k.last \in 0..GatherInterval /\ age[t] \in 0..Longest
        /\ k.at # "post" /\ loop'[ChainOf[t]].at = k.at
        /\ loop'[ChainOf[t]].last = Older(k.last, GatherInterval)
        /\ Dozes(k) => k.last < GatherInterval
        /\ Dozes(loop'[ChainOf[t]]) <=> Dozes(k)
    BY <1>2, <1>7, <2>2 DEF Task, Dozes
  <2>4. ASSUME job[t] = "waiting", ChainOf[t] \notin failed
        PROVE  \/ age'[t] <= Older(k.last, GatherInterval)
               \/ Older(k.last, GatherInterval) = GatherInterval /\ ~Dozes(k)
    <3>1. age'[t] = Older(age[t], Longest)
      BY <1>4, <2>4
    <3>2. age[t] <= k.last \/ (k.last = GatherInterval /\ ~Dozes(k))
      BY <2>1, <2>4 DEF SinceGathering
    <3> HIDE DEF k
    <3> QED BY <1>1, <2>3, <3>1, <3>2 DEF Older, Longest
  <2>5. job'[t] = job[t] /\ failed' = failed
    BY <1>3 DEF boundVars
  <2>6. SinceGathering(t)'
    BY <2>3, <2>4, <2>5 DEF SinceGathering, Dozes
  <2>7. SinceQuery(t)'
    BY <2>3 DEF SinceQuery
  <2> QED BY <1>4, <2>1, <2>5, <2>6, <2>7
<1> QED BY <1>5, <1>8, <1>9, <1>10, <1>11 DEF TimeInv

LEMMA OthersKeep ==
    ASSUME TimeInv, Status \/ AsksStatus \/ UNCHANGED vars
    PROVE  TimeInv'
<1>1. UNCHANGED <<mode, job, calling, age, loop, gatherTime, notifyVars, allowance, failed>>
  BY DEF Status, AsksStatus, vars, loopVars, boundVars
<1>2. TablesInv'
  <2>1. budget' \in Chances
    BY SpendsKeeps DEF Status, AsksStatus, vars, loopVars, boundVars, TimeInv, TablesInv
  <2> QED BY <1>1, <2>1 DEF TimeInv, TablesInv
<1>3. ClockInv'
  BY <1>1, ClockStays DEF TimeInv, ClockInv
<1>4. WaitersInv'
  BY <1>1, WaitersStay DEF TimeInv
<1>5. AgeInv'
  <2>1. \A u \in Transfers : job'[u] = "waiting" => job[u] \in {"new", "waiting"}
    BY <1>1
  <2> QED BY <1>1, <2>1, AgesStay DEF TimeInv
<1>6. WakeInv'
  BY <1>1, WakeStays DEF TimeInv, notifyVars
<1> QED BY <1>2, <1>3, <1>4, <1>5, <1>6 DEF TimeInv

LEMMA TimeInitially == Init => TimeInv
<1> SUFFICES ASSUME Init PROVE TimeInv
  OBVIOUS
<1>1. PICK s \in Scenarios :
        /\ mode = s.mode /\ budget = s.budget
        /\ job = [j \in Jobs |-> IF j \in s.queued THEN "queued"
                                ELSE IF j \in s.asked THEN "new" ELSE "done"]
        /\ allowance = [c \in Chains |-> IF c \in s.notApproved THEN "missing" ELSE "met"]
  BY DEF Init
<1>2. s \in Scenario
  BY LoopAssumption
<1>3. TablesInv
  <2>1. mode \in Settings /\ budget \in Chances
    BY <1>1, <1>2 DEF Scenario
  <2>2. age = [t \in Transfers |-> 0] /\ 0 \in 0..Longest
    BY LoopAssumption DEF Init, Longest
  <2> QED BY <1>1, <2>1, <2>2 DEF TablesInv, Init
<1>4. /\ loop \in [Chains -> Task]
      /\ \A c \in Chains : loop[c].at = "process"
  <2>1. loop = [c \in Chains |->
                [at |-> "process", left |-> 0, slept |-> 0, since |-> 0, events |-> <<>>,
                 found |-> {}, last |-> IF mode.gatherAtStart THEN GatherInterval ELSE 0]]
    BY DEF Init, NewLoop
  <2>2. <<>> \in Seq(DriverEvent) /\ GatherInterval \in 0..GatherInterval
    BY LoopAssumption
  <2> QED BY <2>1, <2>2, TaskTimes DEF Task, Step
<1>5. ClockInv
  <2>1. NoTime \in Passed..NoTime
    BY NoTimeIsLast, LoopAssumption DEF Passed
  <2>2. gatherTime = NoTime
    BY DEF Init
  <2> QED BY <1>4, <2>1, <2>2 DEF ClockInv, InTime, Dozes
<1>6. WaitersInv
  <2>1. waiters = <<>> /\ permit = FALSE
    BY DEF Init
  <2>2. waiters \in Seq(Chains) /\ DOMAIN waiters = {}
    BY <2>1
  <2> QED BY <1>4, <2>1, <2>2 DEF WaitersInv, Range, IsInjective
<1>7. AgeInv
  <2>1. \A t \in Transfers : job[t] # "waiting" /\ age[t] = 0
    BY <1>1 DEF Init, Jobs
  <2> QED BY <1>4, <2>1 DEF AgeInv, SinceGathering, SinceQuery
<1>8. WakeInv
  BY DEF Init, WakeInv
<1> QED BY <1>3, <1>5, <1>6, <1>7, <1>8 DEF TimeInv

LEMMA TimeStep == TimeInv /\ LoopInv /\ [Next]_vars => TimeInv'
BY ReadsTimesKeeps, FallsAsleepKeeps, TimeIsUpKeeps, PauseEndsKeeps, ConfirmedKeeps,
   ReportKeeps, IssueKeeps, AllProcessedKeeps, FindsKeeps, GatheredKeeps, FailsKeeps,
   AllowanceMissingKeeps, InsertKeeps,
   SetDeadlineKeeps, MintKeeps, TickKeeps, OthersKeep DEF Next, Loop

LEMMA TimeInvariant == Spec => []TimeInv
BY TimeInitially, TimeStep, LoopInitially, LoopStep, PTL DEF Spec

\* The state of the loop has its type; the tasks that wait for a notification
\* are those that sleep, each once, and none is kept for later beside them.
THEOREM LoopTypeCorrect == Spec => []TypeOK
<1>1. TimeInv /\ StatusInv => TypeOK
  BY DEF TimeInv, TablesInv, ClockInv, WaitersInv, StatusInv, TypeOK
<1>2. Spec => []StatusInv
  BY UsesTracker, TrackerInvariant, PTL
<1> QED BY <1>1, <1>2, TimeInvariant, PTL

\* While its task sleeps no transfer has been waiting for longer than the
\* interval, whatever the other tasks do to the time and the notifications.
THEOREM NoTransferIsLate == Spec => []IntervalIsKept
<1>1. TimeInv => IntervalIsKept
  <2> SUFFICES ASSUME TimeInv, NEW t \in Transfers, job[t] = "waiting",
                      loop[ChainOf[t]].at = "asleep", ChainOf[t] \notin failed
               PROVE  age[t] <= GatherInterval
    BY DEF IntervalIsKept
  <2>1. age[t] <= loop[ChainOf[t]].last
    BY DEF TimeInv, AgeInv, SinceGathering, Dozes
  <2>2. loop[ChainOf[t]].last \in 0..GatherInterval /\ age[t] \in 0..Longest
    BY LoopAssumption DEF TimeInv, ClockInv, TablesInv, Task, Jobs
  <2> QED BY <2>1, <2>2, LoopAssumption DEF Longest
<1> QED BY <1>1, TimeInvariant, PTL

\* However the notifications fall, on tasks of whatever chains and between
\* whatever steps: from the time of the next gathering on some task is awake.
THEOREM AccountWakesInTime == Spec => []AccountIsWoken
<1>1. TimeInv => AccountIsWoken
  <2> SUFFICES ASSUME TimeInv, gatherTime < 0,
                      \A c \in Chains : loop[c].at = "asleep"
               PROVE  FALSE
    BY DEF AccountIsWoken
  <2>1. gatherTime # NoTime /\ gatherTime \in Int
    BY NoTimeIsLast DEF TimeInv, ClockInv, Passed
  <2>2. PICK c \in Chains : permit \/ ~Dozes(loop[c]) \/ loop[c].left <= gatherTime
    BY <2>1 DEF TimeInv, WakeInv
  <2>3. ~permit
    <3>1. c \in Range(waiters)
      BY DEF TimeInv, WaitersInv
    <3>2. waiters # <<>>
      BY <3>1 DEF Range
    <3> QED BY <3>2 DEF TimeInv, WaitersInv
  <2>4. loop[c].left \in Nat
    BY LoopAssumption DEF TimeInv, ClockInv, Task
  <2> QED BY <2>1, <2>2, <2>3, <2>4 DEF Dozes
<1> QED BY <1>1, TimeInvariant, PTL

=============================================================================

--------------------------- MODULE GroupScheduler ---------------------------
(***************************************************************************)
(* The scheduler of one group, src/src/message-scheduling/backend.js: jobs *)
(* recorded once per source event, each delivered at its time by alarm(),  *)
(* repeated, retried, cancelled or dead-lettered.                          *)
(*                                                                         *)
(* alarm() waits only in the handler's prepareOccurrence and deliver;      *)
(* requests and cancellations are served meanwhile.  wait is what remains  *)
(* until next_attempt_at_ms.  A job's timestamp, which names its           *)
(* occurrence, is the number occ.  An eviction loses the alarm() in        *)
(* progress and keeps the tables.                                          *)
(***************************************************************************)
EXTENDS Integers, FiniteSets, SequencesExt

CONSTANTS
  Sources,                \* source event ids of schedule requests
  Ids,                    \* the job ids crypto.randomUUID() can draw
  PlannedIds,             \* the jobs of kinds whose handler prepares a plan
  Plans,                  \* occurrence plans prepareOccurrence may return
  Delays,                 \* what calcScheduleTime may put a run off by
  DELIVERED_TTL,          \* retention of a delivery marker, in ticks
  MAX_DELIVERY_ATTEMPTS, MAX_JOBS_PER_ALARM, MAX_DEAD_LETTERS,
  MAX_SCHEDULE_SOURCES, SOURCE_PRUNE_INTERVAL, SOURCE_PRUNE_BATCH_SIZE,
  Backoff,                \* retryDelayMs by attempt
  MaxOccurrences,         \* bound: occurrences of a repeating job
  Loads,                  \* bound: the requests a behaviour meets, one of these
  MaxCrashes,             \* bound: evictions
  MaxCalcFailures         \* bound: calcScheduleTime throwing on completion

ASSUME NamesAssumption == "none" \notin Ids \cup Plans \cup Sources /\ PlannedIds \subseteq Ids
\* backend.js:77 to :90; a pruning batch is larger than the pruning interval.
ASSUME LimitsAssumption ==
  /\ {MAX_DELIVERY_ATTEMPTS, MAX_JOBS_PER_ALARM, MAX_DEAD_LETTERS, MAX_SCHEDULE_SOURCES,
      SOURCE_PRUNE_INTERVAL, SOURCE_PRUNE_BATCH_SIZE, DELIVERED_TTL, MaxOccurrences} \subseteq Nat \ {0}
  /\ SOURCE_PRUNE_INTERVAL <= SOURCE_PRUNE_BATCH_SIZE
  /\ Delays \in SUBSET Nat
  /\ Backoff \in [1 .. MAX_DELIVERY_ATTEMPTS - 1 -> Nat]
  /\ MaxCrashes \in Nat
  /\ MaxCalcFailures \in Nat
ASSUME LoadsAssumption ==
  Loads \subseteq [sources : SUBSET Sources, ids : SUBSET Ids, plans : SUBSET Plans,
                   occurrences : 1 .. MaxOccurrences, calcFailures : 0 .. MaxCalcFailures]

VARIABLES
  jobs,         \* scheduler_jobs, by id
  sources,      \* scheduler_sources, oldest first
  inserted,     \* last_insert_rowid of scheduler_sources
  deliveries,   \* scheduler_deliveries: by <<id, occ>>, what remains of the
                \* retention of its marker, or NoMarker
  deadLetters,  \* scheduler_dead_letters, oldest first
  alarm,        \* ticks until the storage alarm, or NoAlarm
  worker,       \* the alarm() invocation, if one is running
  crashes, calcFailures,
  load,         \* chosen at the start, see Loads
  history       \* what the code does not keep: see NoHistory

vars == <<jobs, sources, inserted, deliveries, deadLetters, alarm, worker,
          crashes, calcFailures, load, history>>

NoAlarm == -1
NoMarker == -1
NoJob == [state |-> "absent", occ |-> 0, attempts |-> 0, wait |-> 0,
          repeats |-> FALSE, plan |-> "none"]
Idle == [pc |-> "idle", processed |-> 0, job |-> "none", occ |-> 0,
         plan |-> "none", accepted |-> FALSE]
Occurrences == Ids \X (1 .. MaxOccurrences)
Occ(id) == <<id, jobs[id].occ>>
Mine == <<worker.job, worker.occ>>

\* made: <<source, id>> of the jobs created, oldest first; died: the ids that
\* failed, oldest first.  sent, lost, recorded: calls the
\* platform accepted for an occurrence, those whose marker was not written,
\* and the markers written.  forgotten: markers pruned while their occurrence
\* was still scheduled.  plans: <<occurrence, plan>> the platform received.
\* fate: how a job left the table.
NoHistory ==
  [made |-> <<>>, died |-> <<>>, sent |-> [o \in Occurrences |-> 0], lost |-> [o \in Occurrences |-> 0],
   recorded |-> [o \in Occurrences |-> 0], forgotten |-> [o \in Occurrences |-> 0],
   plans |-> {}, fate |-> [id \in Ids |-> "none"]]

Scheduled(js) == {id \in Ids : js[id].state # "absent"}

-----------------------------------------------------------------------------
\* setNextAlarm: the earliest next_attempt_at_ms, or deleteAlarm
setNextAlarm(js) ==
  IF Scheduled(js) = {} THEN alarm' = NoAlarm
  ELSE \E first \in Scheduled(js) :
         /\ \A id \in Scheduled(js) : js[first].wait <= js[id].wait
         /\ alarm' = js[first].wait

\* Variants named X_Fault are faults a change to X could introduce; nothing
\* uses them, and with X replaced by one a property of this module fails.

\* maybePruneScheduleSources, after the n-th insertion: at most a batch of the
\* oldest, and never one of the newest MAX_SCHEDULE_SOURCES
Excess_FaultOneMore(log) == Len(log) - MAX_SCHEDULE_SOURCES + 1
Excess(log) == Len(log) - MAX_SCHEDULE_SOURCES
maybePruneScheduleSources(log, n) ==
  IF n % SOURCE_PRUNE_INTERVAL # 0 \/ Excess(log) <= 0 THEN log
  ELSE SubSeq(log, 1 + (IF Excess(log) < SOURCE_PRUNE_BATCH_SIZE
                        THEN Excess(log) ELSE SOURCE_PRUNE_BATCH_SIZE), Len(log))

Known(src) == src \in ToSet(sources)
Unused == {id \in load.ids : \A k \in DOMAIN history.made : history.made[k][2] # id}

\* POST /schedule
ScheduleNew(src, id, repeats, delay) ==
  /\ ~Known(src)
  /\ id \in Unused
  /\ jobs' = [jobs EXCEPT ![id] = [NoJob EXCEPT !.state = "pending", !.occ = 1,
                                                !.wait = delay, !.repeats = repeats]]
  /\ inserted' = inserted + 1
  /\ sources' = maybePruneScheduleSources(Append(sources, src), inserted')
  /\ history' = [history EXCEPT !.made = Append(history.made, <<src, id>>)]
  /\ setNextAlarm(jobs')
  /\ UNCHANGED <<deliveries, deadLetters, worker, crashes, calcFailures>>

ScheduleReplay(src) ==
  /\ Known(src)
  /\ setNextAlarm(jobs)
  /\ UNCHANGED <<jobs, sources, inserted, deliveries, deadLetters, worker, crashes,
                 calcFailures, history>>

\* POST /cancel
cancel(id) ==
  /\ jobs[id].state # "absent"
  /\ jobs' = [jobs EXCEPT ![id] = NoJob]
  /\ history' = [history EXCEPT !.fate[id] = "cancelled"]
  /\ setNextAlarm(jobs')
  /\ UNCHANGED <<sources, inserted, deliveries, deadLetters, worker, crashes, calcFailures>>

-----------------------------------------------------------------------------
Current_FaultUnchecked(o) == TRUE
Current(o) == jobs[o[1]].state # "absent" /\ jobs[o[1]].occ = o[2]
Delivered(o) == deliveries[o] # NoMarker

\* pruneDeliveredOccurrences: markers past their retention are deleted
pruneDeliveredOccurrences ==
  /\ deliveries' = [o \in Occurrences |-> IF deliveries[o] = 0 THEN NoMarker
                                         ELSE deliveries[o]]
  /\ history' = [history EXCEPT !.forgotten =
       [o \in Occurrences |-> history.forgotten[o]
                             + (IF deliveries[o] = 0 /\ Current(o) THEN 1 ELSE 0)]]

\* alarm(): the platform clears the alarm and starts the handler, which first
\* prunes the markers.
AlarmFires ==
  /\ alarm = 0
  /\ worker.pc = "idle"
  /\ alarm' = NoAlarm
  /\ worker' = [Idle EXCEPT !.pc = "loop"]
  /\ pruneDeliveredOccurrences
  /\ UNCHANGED <<jobs, sources, inserted, deadLetters, crashes, calcFailures>>

\* firstJob, when it is due
Due(id) == /\ jobs[id].state # "absent"
           /\ jobs[id].wait = 0

NextJob == [worker EXCEPT !.pc = "loop", !.job = "none", !.occ = 0, !.plan = "none",
                          !.accepted = FALSE, !.processed = worker.processed + 1]

Begins_FaultOneMore(id) == worker.pc = "loop" /\ worker.processed <= MAX_JOBS_PER_ALARM /\ Due(id)
Begins(id) ==
  /\ worker.pc = "loop"
  /\ worker.processed < MAX_JOBS_PER_ALARM
  /\ Due(id)

\* completeOccurrence for the occurrence o, if it is still the one scheduled:
\* delete the job, or put its next occurrence in its place.
Again(id) == jobs[id].repeats /\ jobs[id].occ < load.occurrences
NextOccurrence(id, delay) == [NoJob EXCEPT !.state = "pending", !.occ = jobs[id].occ + 1,
                                           !.wait = delay, !.repeats = TRUE]

completeOccurrence(o, delay, past) ==
  LET id == o[1] IN
  IF ~Current(o) THEN UNCHANGED jobs /\ history' = past
  ELSE IF Again(id)
       THEN /\ jobs' = [jobs EXCEPT ![id] = NextOccurrence(id, delay)]
            /\ history' = past
       ELSE /\ jobs' = [jobs EXCEPT ![id] = NoJob]
            /\ history' = [past EXCEPT !.fate[id] = "finished"]

\* The same when calcScheduleTime throws: the transaction is rolled back, the
\* alarm fails, and its finally block sets the next alarm.
completeThrows(o, past) ==
  /\ Current(o) /\ jobs[o[1]].repeats
  /\ calcFailures < load.calcFailures
  /\ calcFailures' = calcFailures + 1
  /\ UNCHANGED jobs
  /\ history' = past
  /\ worker' = Idle
  /\ setNextAlarm(jobs)

\* failOccurrence for the occurrence o: retry later, or drop the job and keep
\* it among the newest MAX_DEAD_LETTERS.
Trimmed(dead) == IF Len(dead) <= MAX_DEAD_LETTERS THEN dead
                 ELSE SubSeq(dead, Len(dead) - MAX_DEAD_LETTERS + 1, Len(dead))

RetryDelay(n) == Backoff[IF n < MAX_DELIVERY_ATTEMPTS THEN n ELSE MAX_DELIVERY_ATTEMPTS - 1]
Retries(id, retryable) == retryable /\ jobs[id].attempts < MAX_DELIVERY_ATTEMPTS

DeadLetter(id, past) ==
  /\ jobs' = [jobs EXCEPT ![id] = NoJob]
  /\ deadLetters' = Trimmed(Append(deadLetters, id))
  /\ history' = [past EXCEPT !.fate[id] = "dead", !.died = Append(past.died, id)]

failOccurrence(o, retryable, past) ==
  LET id == o[1] IN
  IF ~Current(o) THEN UNCHANGED <<jobs, deadLetters>> /\ history' = past
  ELSE IF Retries(id, retryable)
       THEN /\ jobs' = [jobs EXCEPT ![id].state = "retry_wait",
                                    ![id].wait = RetryDelay(jobs[id].attempts)]
            /\ history' = past
            /\ UNCHANGED deadLetters
       ELSE DeadLetter(id, past)

\* A marker is found: the occurrence was delivered, only its completion is due
\* (or, when its handler is gone, its dead letter).
FinishDelivered(id, delay) ==
  /\ Begins(id)
  /\ Delivered(Occ(id))
  /\ \/ completeOccurrence(Occ(id), delay, history) /\ UNCHANGED deadLetters
     \/ failOccurrence(Occ(id), FALSE, history)
  /\ worker' = NextJob
  /\ UNCHANGED <<sources, inserted, deliveries, alarm, crashes, calcFailures>>

FinishThrows(id) ==
  /\ Begins(id)
  /\ Delivered(Occ(id))
  /\ completeThrows(Occ(id), history)
  /\ UNCHANGED <<sources, inserted, deliveries, deadLetters, crashes>>

\* claimOccurrence; then prepareOccurrence is called, unless the handler has
\* none or the occurrence has its plan, and deliver otherwise.
claimOccurrence(id) ==
  /\ Begins(id)
  /\ ~Delivered(Occ(id))
  /\ jobs' = [jobs EXCEPT ![id].state = "attempting", ![id].wait = 0,
                          ![id].attempts = jobs[id].attempts + 1]
  /\ worker' = [worker EXCEPT
       !.pc = IF id \in PlannedIds /\ jobs[id].plan = "none" THEN "preparing" ELSE "delivering",
       !.job = id, !.occ = jobs[id].occ, !.plan = jobs[id].plan]
  /\ UNCHANGED <<sources, inserted, deliveries, deadLetters, alarm, crashes,
                 calcFailures, history>>

\* prepareOccurrence returned: persistOccurrencePlan, then deliver is called;
\* the occurrence is left alone if it is no longer the one scheduled.
persistOccurrencePlan(plan) ==
  /\ worker.pc = "preparing"
  /\ IF Current(Mine)
     THEN /\ jobs' = IF jobs[worker.job].plan = "none"
                     THEN [jobs EXCEPT ![worker.job].plan = plan] ELSE jobs
          /\ worker' = [worker EXCEPT !.pc = "delivering", !.plan = jobs'[worker.job].plan]
     ELSE UNCHANGED jobs /\ worker' = NextJob
  /\ UNCHANGED <<sources, inserted, deliveries, deadLetters, alarm, crashes,
                 calcFailures, history>>

PlatformAccepts ==
  /\ worker.pc = "delivering"
  /\ ~worker.accepted
  /\ worker' = [worker EXCEPT !.accepted = TRUE]
  /\ history' = [history EXCEPT !.sent[Mine] = history.sent[Mine] + 1,
                                !.plans = history.plans \cup {<<Mine, worker.plan>>}]
  /\ UNCHANGED <<jobs, sources, inserted, deliveries, deadLetters, alarm, crashes,
                 calcFailures>>

\* deliver() returned: the marker first, then completeOccurrence
Recorded == IF Delivered(Mine) THEN history
            ELSE [history EXCEPT !.recorded[Mine] = history.recorded[Mine] + 1]

DeliverReturns_FaultMarkerLast(delay) ==
  /\ worker.pc = "delivering"
  /\ worker.accepted
  /\ \/ /\ completeOccurrence(Mine, delay, Recorded)
        /\ deliveries' = [deliveries EXCEPT ![Mine] = DELIVERED_TTL]
        /\ worker' = NextJob
        /\ UNCHANGED <<alarm, calcFailures>>
     \/ completeThrows(Mine, history) /\ UNCHANGED deliveries
  /\ UNCHANGED <<sources, inserted, deadLetters, crashes>>

DeliverReturns(delay) ==
  /\ worker.pc = "delivering"
  /\ worker.accepted
  /\ deliveries' = [deliveries EXCEPT ![Mine] = IF Delivered(Mine) THEN deliveries[Mine]
                                                  ELSE DELIVERED_TTL]
  /\ \/ /\ completeOccurrence(Mine, delay, Recorded)
        /\ worker' = NextJob
        /\ UNCHANGED <<alarm, calcFailures>>
     \/ completeThrows(Mine, Recorded)
  /\ UNCHANGED <<sources, inserted, deadLetters, crashes>>

\* prepareOccurrence or deliver threw, maybe after the platform accepted
Lost == IF worker.accepted
        THEN [history EXCEPT !.lost[Mine] = history.lost[Mine] + 1] ELSE history

AttemptThrows(retryable) ==
  /\ worker.pc \in {"preparing", "delivering"}
  /\ failOccurrence(Mine, retryable, Lost)
  /\ worker' = NextJob
  /\ UNCHANGED <<sources, inserted, deliveries, alarm, crashes, calcFailures>>

AlarmEnds_FaultNotRearmed ==
  /\ worker.pc = "loop"
  /\ worker.processed > 0 \/ \A id \in Ids : ~Due(id)
  /\ worker' = Idle
  /\ UNCHANGED <<jobs, sources, inserted, deliveries, deadLetters, alarm, crashes,
                 calcFailures, history>>

\* The loop ends: nothing due, twenty jobs, or five seconds after a first one.
AlarmEnds ==
  /\ worker.pc = "loop"
  /\ worker.processed > 0 \/ \A id \in Ids : ~Due(id)
  /\ worker' = Idle
  /\ setNextAlarm(jobs)
  /\ UNCHANGED <<jobs, sources, inserted, deliveries, deadLetters, crashes,
                 calcFailures, history>>

-----------------------------------------------------------------------------
\* Eviction; an interrupted alarm() is started again unless an alarm is set.
Crash ==
  /\ crashes < MaxCrashes
  /\ worker.pc # "idle"
  /\ crashes' = crashes + 1
  /\ worker' = Idle
  /\ history' = Lost
  /\ alarm' = IF alarm = NoAlarm THEN 0 ELSE alarm
  /\ UNCHANGED <<jobs, sources, inserted, deliveries, deadLetters, calcFailures>>

Down(n) == IF n > 0 THEN n - 1 ELSE n
Tick ==
  /\ \/ alarm > 0
     \/ \E id \in Ids : jobs[id].wait > 0
     \/ \E o \in Occurrences : deliveries[o] > 0
  /\ alarm' = Down(alarm)
  /\ deliveries' = [o \in Occurrences |-> Down(deliveries[o])]
  /\ jobs' = [id \in Ids |-> [jobs[id] EXCEPT !.wait = Down(jobs[id].wait)]]
  /\ UNCHANGED <<sources, inserted, deadLetters, worker, crashes, calcFailures, history>>

Init ==
  /\ jobs = [id \in Ids |-> NoJob]
  /\ sources = <<>>
  /\ inserted = 0
  /\ deliveries = [o \in Occurrences |-> NoMarker]
  /\ deadLetters = <<>>
  /\ alarm = NoAlarm
  /\ worker = Idle
  /\ crashes = 0
  /\ calcFailures = 0
  /\ load \in Loads
  /\ history = NoHistory

AttemptEnds == \/ \E delay \in Delays : DeliverReturns(delay)
               \/ \E retryable \in BOOLEAN : AttemptThrows(retryable)
               \/ \E plan \in load.plans : persistOccurrencePlan(plan)
LoopStep == \/ \E id \in Ids : claimOccurrence(id)
            \/ \E id \in Ids, delay \in Delays : FinishDelivered(id, delay)
            \/ \E id \in Ids : FinishThrows(id)
            \/ AlarmEnds

Step ==
  \/ \E src \in load.sources, id \in Ids, repeats \in BOOLEAN, delay \in Delays :
       ScheduleNew(src, id, repeats, delay)
  \/ \E src \in load.sources : ScheduleReplay(src)
  \/ \E id \in Ids : cancel(id)
  \/ AlarmFires \/ LoopStep \/ PlatformAccepts \/ AttemptEnds
  \/ Crash \/ Tick

Next == Step /\ UNCHANGED load

Spec == Init /\ [][Next]_vars

\* Fairness: time passes, a due alarm runs, a handler call ends, and the code
\* after it goes on.
Fairness == /\ WF_vars(Tick /\ UNCHANGED load)
            /\ WF_vars(AlarmFires /\ UNCHANGED load)
            /\ WF_vars(LoopStep /\ UNCHANGED load)
            /\ WF_vars(AttemptEnds /\ UNCHANGED load)
FairSpec == Spec /\ Fairness

-----------------------------------------------------------------------------
Job == [state : {"absent", "pending", "attempting", "retry_wait"},
        occ : 0 .. MaxOccurrences, attempts : Nat, wait : Nat, repeats : BOOLEAN,
        plan : Plans \cup {"none"}]
Worker == [pc : {"idle", "loop", "preparing", "delivering"},
           processed : 0 .. MAX_JOBS_PER_ALARM, job : Ids \cup {"none"},
           occ : 0 .. MaxOccurrences, plan : Plans \cup {"none"}, accepted : BOOLEAN]

\* The rows have the types of their columns.
TypeOK ==
  /\ jobs \in [Ids -> Job]
  /\ sources \in Seq(Sources)
  /\ inserted \in Nat
  /\ deliveries \in [Occurrences -> Nat \cup {NoMarker}]
  /\ deadLetters \in Seq(Ids)
  /\ alarm \in Nat \cup {NoAlarm}
  /\ worker \in Worker
  /\ load \in Loads

\* A scheduled job never depends on alarm() being in memory: when none runs,
\* the alarm is set no later than its next attempt.
NoStrandedJob ==
  worker.pc = "idle" =>
    \A id \in Scheduled(jobs) : alarm # NoAlarm /\ alarm <= jobs[id].wait

\* An occurrence reaches the platform again only for a cause: a call whose
\* outcome was lost (a throw after acceptance, an eviction), or a marker that
\* fell out of its retention while the occurrence could not be completed.
DeliveredOncePerCause ==
  \A o \in Occurrences :
    history.sent[o] <= 1 + history.lost[o] + history.forgotten[o]

\* A failure while the delivered occurrence is completed never sends it again:
\* whatever was sent and not lost has its marker, or is the call in progress.
EveryCallAccounted ==
  \A o \in Occurrences :
    history.sent[o] = history.lost[o] + history.recorded[o]
                      + (IF worker.accepted /\ Mine = o THEN 1 ELSE 0)

\* docs/command-feature-framework-contract.md:940: the plan of an occurrence
\* is fixed before it is delivered, and its retries replay that plan.
OnePlanPerOccurrence ==
  \A p, q \in history.plans : p[1] = q[1] => p = q

\* A repeating job moves to its next occurrence only over a delivered one.
AdvancesOverDelivered ==
  \A id \in Scheduled(jobs) :
    \A n \in 1 .. jobs[id].occ - 1 : history.recorded[<<id, n>>] > 0

\* A retried request does not schedule twice: the newest MAX_SCHEDULE_SOURCES
\* source events are always remembered, each once, and the table never grows
\* past that number by a whole pruning interval.
SourcesRemembered ==
  /\ IsInjective(sources)
  /\ \A k \in DOMAIN history.made :
       k > Len(history.made) - MAX_SCHEDULE_SOURCES => history.made[k][1] \in ToSet(sources)
  /\ Len(sources) < MAX_SCHEDULE_SOURCES + SOURCE_PRUNE_INTERVAL

\* Every job a request created is scheduled, or left in one of the three ways
\* a job may leave; a failed one is kept for the operator until
\* MAX_DEAD_LETTERS newer failures have pushed it out.
EveryJobAccounted ==
  /\ \A k \in DOMAIN history.made :
       history.made[k][2] \in Scheduled(jobs) <=> history.fate[history.made[k][2]] = "none"
  /\ \A k \in DOMAIN history.died :
       history.died[k] \in ToSet(deadLetters) \/ k <= Len(history.died) - MAX_DEAD_LETTERS

\* What reached the platform is explained by the rows, for every occurrence.
DeliveriesExplained ==
  DeliveredOncePerCause /\ EveryCallAccounted /\ OnePlanPerOccurrence /\ AdvancesOverDelivered

\* No request is taken twice, and no job is lost or left without an alarm.
RequestsAccounted == SourcesRemembered /\ EveryJobAccounted /\ NoStrandedJob

\* Every occurrence is accounted for from the request that made it to the call it caused.
OccurrencesAccounted == DeliveriesExplained /\ RequestsAccounted

\* A job that was cancelled, finished or failed never comes back, whatever
\* alarm() was doing with it, and no new call of its handler begins.
GoneForGood ==
  \A id \in Ids : history.fate[id] # "none" =>
    /\ jobs'[id] = NoJob
    /\ history'.fate[id] = history.fate[id]
    /\ worker'.pc = "delivering" /\ worker'.job = id => worker.pc = "delivering"

\* Every step leaves each job accounted for while it is scheduled, and gone afterwards.
JobsAccounted == [][OccurrencesAccounted' /\ GoneForGood]_vars

\* Every scheduled occurrence is delivered and left behind, or its job is
\* cancelled or dead-lettered.
EveryOccurrenceSettles ==
  \A id \in Ids, n \in 1 .. MaxOccurrences :
    jobs[id].occ = n ~> jobs[id].occ # n
=============================================================================

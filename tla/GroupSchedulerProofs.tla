------------------------- MODULE GroupSchedulerProofs -------------------------
(***************************************************************************)
(* Proofs about the scheduler of one group: its tables keep their types,   *)
(* every job is accounted for from the request that made it, every call of *)
(* the platform by the rows, and what is over stays over.                  *)
(*                                                                         *)
(* The inductive invariant has one part for each of these, action by       *)
(* action; a part is carried over a step by the lemma about what it reads. *)
(***************************************************************************)
EXTENDS GroupScheduler, SequenceTheorems, TLAPS

-----------------------------------------------------------------------------
(* The inductive invariant                                                   *)

Fates == {"none", "cancelled", "finished", "dead"}
Histories ==
  [made : Seq(Sources \X Ids), died : Seq(Ids), sent : [Occurrences -> Nat], lost : [Occurrences -> Nat],
   recorded : [Occurrences -> Nat], forgotten : [Occurrences -> Nat],
   plans : SUBSET (Occurrences \X (Plans \cup {"none"})), fate : [Ids -> Fates]]

MadeIds == {history.made[k][2] : k \in DOMAIN history.made}

\* The occurrences a job has come to; those it left behind never come again.
Reached(o) == o[1] \in MadeIds /\ (jobs[o[1]].state = "absent" \/ o[2] <= jobs[o[1]].occ)

\* The occurrence alarm() is preparing or delivering.
Holding == worker.pc \in {"preparing", "delivering"}
Holds(o) == Holding /\ Mine = o

TypesInv == TypeOK /\ history \in Histories

\* A row that is gone left nothing; only a planned job has a plan.
RowsInv ==
  \A id \in Ids :
    /\ jobs[id].state = "absent" => jobs[id] = NoJob
    /\ jobs[id].state # "absent" => jobs[id].occ > 0
    /\ jobs[id].plan # "none" => id \in PlannedIds

\* A job is scheduled from the request that made it until its fate is known.
FatesInv ==
  \A id \in Ids :
    /\ jobs[id].state # "absent" <=> id \in MadeIds /\ history.fate[id] = "none"
    /\ history.fate[id] # "none" => id \in MadeIds

\* What alarm() holds in memory, against the row it was read from.
WorkerInv ==
  /\ worker.accepted => worker.pc = "delivering"
  /\ Holding => /\ Mine \in Occurrences /\ Reached(Mine) /\ ~Delivered(Mine)
                /\ worker.processed < MAX_JOBS_PER_ALARM
                /\ Current(Mine) => jobs[worker.job].wait = 0 /\ jobs[worker.job].attempts > 0
                /\ worker.pc = "preparing" => /\ worker.job \in PlannedIds
                                              /\ Current(Mine) => jobs[worker.job].plan = "none"
                /\ worker.pc = "delivering" => /\ worker.plan = "none" <=> worker.job \notin PlannedIds
                                               /\ Current(Mine) => worker.plan = jobs[worker.job].plan

\* A marker is written once, until it is forgotten, and only for an occurrence
\* its job has come to; a job moves on over a marker.
MarkersInv ==
  \A o \in Occurrences :
    /\ Delivered(o) => history.recorded[o] > 0
    /\ ~Reached(o) => history.recorded[o] = 0
    /\ history.recorded[o] <= history.forgotten[o] + 1
    /\ ~Delivered(o) /\ (Current(o) \/ Holds(o)) => history.recorded[o] <= history.forgotten[o]
    /\ jobs[o[1]].state # "absent" /\ o[2] < jobs[o[1]].occ => history.recorded[o] > 0

\* A plan the platform received is the plan of its occurrence.
PlansInv ==
  \A p \in history.plans :
    /\ Reached(p[1]) /\ (p[2] = "none" <=> p[1][1] \notin PlannedIds)
    /\ Current(p[1]) => p[2] = jobs[p[1][1]].plan
    /\ worker.pc = "delivering" /\ Mine = p[1] => worker.plan = p[2]

\* The sources are those of the latest jobs made, and enough of them.
SourcesInv ==
  LET made == Len(history.made)  kept == Len(sources) IN
  /\ inserted = made /\ kept <= made /\ IsInjective(sources)
  /\ \A k \in 1 .. kept : sources[k] = history.made[made - kept + k][1]
  /\ kept >= MAX_SCHEDULE_SOURCES \/ kept = made
  /\ kept <= MAX_SCHEDULE_SOURCES + (made % SOURCE_PRUNE_INTERVAL)

\* The dead letters are the latest jobs that failed.
DeadInv ==
  LET died == Len(history.died)  kept == Len(deadLetters) IN
  /\ kept <= died
  /\ \A k \in 1 .. kept : deadLetters[k] = history.died[died - kept + k]
  /\ kept >= MAX_DEAD_LETTERS \/ kept = died

\* An alarm that is set is never late, and one is set unless alarm() runs.
AlarmInv ==
  /\ alarm # NoAlarm => \A id \in Scheduled(jobs) : alarm <= jobs[id].wait
  /\ worker.pc = "idle" /\ Scheduled(jobs) # {} => alarm # NoAlarm

IInv == /\ TypesInv /\ RowsInv /\ FatesInv /\ WorkerInv /\ MarkersInv /\ PlansInv /\ EveryCallAccounted
        /\ OnePlanPerOccurrence /\ SourcesInv /\ DeadInv /\ AlarmInv

-----------------------------------------------------------------------------
(* Numbers and sequences                                                     *)

LEMMA Limits ==
  /\ MAX_DELIVERY_ATTEMPTS \in Nat \ {0} /\ MAX_JOBS_PER_ALARM \in Nat \ {0} /\ MAX_DEAD_LETTERS \in Nat \ {0}
  /\ MAX_SCHEDULE_SOURCES \in Nat \ {0} /\ SOURCE_PRUNE_INTERVAL \in Nat \ {0}
  /\ SOURCE_PRUNE_BATCH_SIZE \in Nat \ {0} /\ DELIVERED_TTL \in Nat \ {0} /\ MaxOccurrences \in Nat \ {0}
  /\ SOURCE_PRUNE_INTERVAL <= SOURCE_PRUNE_BATCH_SIZE
BY LimitsAssumption

LEMMA Names == "none" \notin Ids /\ "none" \notin Plans /\ PlannedIds \subseteq Ids
BY NamesAssumption

LEMMA LoadParts ==
  ASSUME load \in Loads
  PROVE  /\ load.sources \subseteq Sources /\ load.ids \subseteq Ids /\ load.plans \subseteq Plans
         /\ load.occurrences \in 1 .. MaxOccurrences
BY LoadsAssumption

LEMMA Appended ==
  ASSUME NEW S, NEW s \in Seq(S), NEW e \in S
  PROVE  /\ Append(s, e) \in Seq(S) /\ Len(Append(s, e)) = Len(s) + 1 /\ Len(s) \in Nat
         /\ DOMAIN s = 1 .. Len(s) /\ DOMAIN Append(s, e) = 1 .. Len(s) + 1
         /\ \A k \in 1 .. Len(s) : Append(s, e)[k] = s[k]
         /\ Append(s, e)[Len(s) + 1] = e
BY AppendProperties, LenProperties

\* A sequence without its first d elements.
LEMMA Dropped ==
  ASSUME NEW S, NEW s \in Seq(S), NEW d \in 0 .. Len(s)
  PROVE  LET rest == SubSeq(s, 1 + d, Len(s)) IN
         /\ rest \in Seq(S) /\ Len(rest) = Len(s) - d /\ Len(s) \in Nat
         /\ \A k \in 1 .. Len(s) - d : rest[k] = s[d + k]
<1>1. Len(s) \in Nat /\ \A i \in 1 .. Len(s) : s[i] \in S BY LenProperties, ElementOfSeq
<1>2. 1 + d \in Int /\ Len(s) \in Int /\ \A i \in 1 + d .. Len(s) : s[i] \in S BY <1>1
<1> DEFINE rest == SubSeq(s, 1 + d, Len(s))
<1>3. /\ rest \in Seq(S) /\ Len(rest) = IF 1 + d <= Len(s) THEN Len(s) - (1 + d) + 1 ELSE 0
      /\ \A i \in 1 .. Len(s) - (1 + d) + 1 : rest[i] = s[1 + d + i - 1] BY <1>2, SubSeqProperties
<1> HIDE DEF rest
<1>4. Len(rest) = Len(s) - d BY <1>1,<1>3
<1>5. ASSUME NEW k \in 1 .. Len(s) - d PROVE rest[k] = s[d + k]
 <2>1. k \in 1 .. Len(s) - (1 + d) + 1 /\ 1 + d + k - 1 = d + k BY <1>1
 <2> QED BY <1>3,<2>1
<1> QED BY <1>1,<1>3,<1>4,<1>5 DEF rest

\* Counting on, modulo the pruning interval.
LEMMA Quotient ==
  ASSUME NEW n \in Nat, NEW d \in Nat \ {0}
  PROVE  n = d * (n \div d) + (n % d) /\ n \div d \in Int /\ n % d \in 0 .. d - 1
OBVIOUS

LEMMA SameRest ==
  ASSUME NEW d \in Nat \ {0}, NEW q \in Int, NEW p \in Int, NEW r \in 0 .. d - 1, NEW s \in 0 .. d - 1,
         d * q + r = d * p + s
  PROVE  r = s
<1>1. CASE q = p BY <1>1
<1>2. CASE q < p
 <2>1. d * p >= d * (q + 1) BY <1>2
 <2> QED BY <2>1
<1>3. CASE q > p
 <2>1. d * q >= d * (p + 1) BY <1>3
 <2> QED BY <2>1
<1> QED BY <1>1,<1>2,<1>3

LEMMA NextRest ==
  ASSUME NEW n \in Nat, NEW d \in Nat \ {0}, (n + 1) % d # 0
  PROVE  (n + 1) % d = (n % d) + 1
<1> DEFINE q == n \div d  r == n % d  p == (n + 1) \div d  s == (n + 1) % d
<1>1. n = d * q + r /\ q \in Int /\ r \in 0 .. d - 1 BY Quotient
<1>2. n + 1 \in Nat OBVIOUS
<1>3. n + 1 = d * p + s /\ p \in Int /\ s \in 0 .. d - 1 BY <1>2, Quotient
<1> HIDE DEF q, r, p, s
<1>4. s \in 1 .. d - 1 BY <1>3 DEF s
<1>5. d * p \in Int /\ d * q \in Int BY <1>1,<1>3
<1>6. d * q + r = d * p + (s - 1) BY <1>1,<1>3,<1>4,<1>5
<1>7. s - 1 \in 0 .. d - 1 BY <1>4
<1>8. r = s - 1 BY <1>1,<1>3,<1>6,<1>7, SameRest
<1> QED BY <1>4,<1>8 DEF r, s

-----------------------------------------------------------------------------
(* Rows and histories                                                        *)

RowFine(id, r) ==
  /\ r.state = "absent" => r = NoJob
  /\ r.state # "absent" => r.occ > 0
  /\ r.plan # "none" => id \in PlannedIds

LEMMA RowsFine == RowsInv <=> \A id \in Ids : RowFine(id, jobs[id])
BY DEF RowsInv, RowFine

LEMMA TypeParts ==
  ASSUME TypesInv
  PROVE  /\ jobs \in [Ids -> Job] /\ history \in Histories /\ worker \in Worker /\ load \in Loads
         /\ deliveries \in [Occurrences -> Nat \cup {NoMarker}] /\ alarm \in Nat \cup {NoAlarm}
         /\ sources \in Seq(Sources) /\ deadLetters \in Seq(Ids) /\ inserted \in Nat
         /\ \A id \in Ids : jobs[id] \in Job /\ jobs[id].occ \in Nat /\ jobs[id].wait \in Nat
                            /\ jobs[id].attempts \in Nat /\ jobs[id].occ \in 0 .. MaxOccurrences
BY DEF TypesInv, TypeOK, Job

LEMMA NoJobRow == NoJob \in Job /\ \A id : RowFine(id, NoJob)
BY Limits DEF NoJob, Job, RowFine

\* One row changes.
LEMMA RowChanges ==
  ASSUME jobs \in [Ids -> Job], RowsInv, NEW id \in Ids, NEW r \in Job, RowFine(id, r),
         jobs' = [jobs EXCEPT ![id] = r]
  PROVE  /\ jobs' \in [Ids -> Job] /\ RowsInv' /\ jobs'[id] = r
         /\ \A x \in Ids \ {id} : jobs'[x] = jobs[x]
<1>1. jobs' \in [Ids -> Job] /\ jobs'[id] = r /\ \A x \in Ids \ {id} : jobs'[x] = jobs[x] OBVIOUS
<1>2. RowsInv' BY <1>1 DEF RowsInv, RowFine
<1> QED BY <1>1,<1>2

LEMMA HistoryParts ==
  ASSUME NEW h \in Histories
  PROVE  /\ h.made \in Seq(Sources \X Ids) /\ h.died \in Seq(Ids)
         /\ h.sent \in [Occurrences -> Nat] /\ h.lost \in [Occurrences -> Nat]
         /\ h.recorded \in [Occurrences -> Nat] /\ h.forgotten \in [Occurrences -> Nat]
         /\ h.plans \in SUBSET (Occurrences \X (Plans \cup {"none"})) /\ h.fate \in [Ids -> Fates]
BY DEF Histories

\* Histories that agree but for the fates, or but for the fates and the dead.
Agree(h, past) ==
  /\ h.made = past.made /\ h.sent = past.sent /\ h.lost = past.lost /\ h.recorded = past.recorded
  /\ h.forgotten = past.forgotten /\ h.plans = past.plans

Fated(past, id, fate) == [past EXCEPT !.fate[id] = fate]
Buried(past, id, died) == [past EXCEPT !.fate[id] = "dead", !.died = died]

LEMMA FateParts ==
  ASSUME NEW past \in Histories, NEW id \in Ids, NEW fate \in Fates
  PROVE  LET h == Fated(past, id, fate) IN
         /\ h \in Histories /\ Agree(h, past) /\ h.died = past.died
         /\ h.fate = [past.fate EXCEPT ![id] = fate]
BY DEF Histories, Agree, Fated

LEMMA DeadParts ==
  ASSUME NEW past \in Histories, NEW id \in Ids, NEW died \in Seq(Ids)
  PROVE  LET h == Buried(past, id, died) IN
         /\ h \in Histories /\ Agree(h, past) /\ h.died = died
         /\ h.fate = [past.fate EXCEPT ![id] = "dead"]
BY DEF Histories, Agree, Fates, Buried

\* One of the counters of a history grows by one.
LEMMA Counted ==
  ASSUME NEW f \in [Occurrences -> Nat], NEW o \in Occurrences, NEW g, g = [f EXCEPT ![o] = f[o] + 1]
  PROVE  /\ g \in [Occurrences -> Nat]
         /\ \A p \in Occurrences : g[p] = f[p] + (IF o = p THEN 1 ELSE 0)
<1>1. f[o] + 1 \in Nat OBVIOUS
<1>2. g \in [Occurrences -> Nat] BY <1>1
<1>3. ASSUME NEW p \in Occurrences PROVE g[p] = f[p] + (IF o = p THEN 1 ELSE 0)
 <2>1. f[p] \in Nat OBVIOUS
 <2>2. CASE p = o BY <2>1,<2>2
 <2>3. CASE p # o
  <3>1. g[p] = f[p] BY <2>3
  <3> QED BY <2>1,<2>3,<3>1
 <2> QED BY <2>2,<2>3
<1> QED BY <1>2,<1>3

LEMMA LostField ==
  ASSUME NEW past \in Histories, NEW g \in [Occurrences -> Nat], NEW h, h = [past EXCEPT !.lost = g]
  PROVE  /\ h \in Histories /\ h.made = past.made /\ h.died = past.died /\ h.sent = past.sent /\ h.lost = g
         /\ h.recorded = past.recorded /\ h.forgotten = past.forgotten
         /\ h.plans = past.plans /\ h.fate = past.fate
BY DEF Histories

LEMMA RecordedField ==
  ASSUME NEW past \in Histories, NEW g \in [Occurrences -> Nat], NEW h, h = [past EXCEPT !.recorded = g]
  PROVE  /\ h \in Histories /\ h.made = past.made /\ h.died = past.died /\ h.sent = past.sent /\ h.recorded = g
         /\ h.lost = past.lost /\ h.forgotten = past.forgotten
         /\ h.plans = past.plans /\ h.fate = past.fate
BY DEF Histories

\* A call whose outcome is lost, and one whose marker is written.
LEMMA LostParts ==
  ASSUME TypesInv, WorkerInv
  PROVE  /\ Lost \in Histories /\ Lost.made = history.made /\ Lost.died = history.died /\ Lost.sent = history.sent
         /\ Lost.recorded = history.recorded /\ Lost.forgotten = history.forgotten
         /\ Lost.plans = history.plans /\ Lost.fate = history.fate
         /\ \A o \in Occurrences :
              Lost.lost[o] = history.lost[o] + (IF worker.accepted /\ Mine = o THEN 1 ELSE 0)
<1>1. history \in Histories /\ history.lost \in [Occurrences -> Nat] BY TypeParts, HistoryParts
<1>2. CASE worker.accepted
 <2>1. Mine \in Occurrences BY <1>2 DEF WorkerInv, Holding
 <2> DEFINE o == Mine  g == [history.lost EXCEPT ![o] = history.lost[o] + 1]
 <2>2. g \in [Occurrences -> Nat] /\ \A p \in Occurrences : g[p] = history.lost[p] + (IF o = p THEN 1 ELSE 0)
  <3> HIDE DEF o
  <3>1. o \in Occurrences BY <2>1 DEF o
  <3> QED BY <1>1,<3>1, Counted
 <2>3. Lost = [history EXCEPT !.lost = g]
  <3>1. Lost = [history EXCEPT !.lost[o] = history.lost[o] + 1] BY <1>2 DEF Lost
  <3> HIDE DEF o
  <3> QED BY <1>1,<3>1
 <2>4. \A p \in Occurrences : (worker.accepted /\ Mine = p) <=> o = p BY <1>2
 <2> HIDE DEF o, g
 <2> QED BY <1>1,<2>2,<2>3,<2>4, LostField
<1>3. CASE ~worker.accepted BY <1>1,<1>3, HistoryParts DEF Lost
<1> QED BY <1>2,<1>3

LEMMA RecordedParts ==
  ASSUME TypesInv, WorkerInv, Holding
  PROVE  /\ Recorded \in Histories /\ Recorded.made = history.made /\ Recorded.died = history.died
         /\ Recorded.sent = history.sent /\ Recorded.lost = history.lost /\ Recorded.forgotten = history.forgotten
         /\ Recorded.plans = history.plans /\ Recorded.fate = history.fate
         /\ \A o \in Occurrences : Recorded.recorded[o] = history.recorded[o] + (IF Mine = o THEN 1 ELSE 0)
<1>1. history \in Histories /\ history.recorded \in [Occurrences -> Nat] /\ Mine \in Occurrences /\ ~Delivered(Mine)
 BY TypeParts, HistoryParts DEF WorkerInv
<1> DEFINE o == Mine  g == [history.recorded EXCEPT ![o] = history.recorded[o] + 1]
<1>2. g \in [Occurrences -> Nat] /\ \A p \in Occurrences : g[p] = history.recorded[p] + (IF o = p THEN 1 ELSE 0)
 <2> HIDE DEF o
 <2>1. o \in Occurrences BY <1>1 DEF o
 <2> QED BY <1>1,<2>1, Counted
<1>3. Recorded = [history EXCEPT !.recorded = g]
 <2>1. Recorded = [history EXCEPT !.recorded[o] = history.recorded[o] + 1] BY <1>1 DEF Recorded
 <2> HIDE DEF o
 <2> QED BY <1>1,<2>1
<1>4. \A p \in Occurrences : Mine = p <=> o = p OBVIOUS
<1> HIDE DEF o, g
<1> QED BY <1>1,<1>2,<1>3,<1>4, RecordedField

LEMMA MadeKept == ASSUME history'.made = history.made PROVE MadeIds' = MadeIds
BY DEF MadeIds

-----------------------------------------------------------------------------
(* What a step does to the rows                                              *)

\* A row is created for a new job, keeps its occurrence or moves to the next.
Goes(x) ==
  jobs'[x].state # "absent" =>
    \/ x \notin MadeIds /\ jobs'[x].occ = 1
    \/ jobs[x].state # "absent" /\ jobs'[x].occ \in {jobs[x].occ, jobs[x].occ + 1}
Going == MadeIds \subseteq MadeIds' /\ \A x \in Ids : Goes(x)

Same(x) == jobs'[x].state # "absent" => jobs[x].state # "absent" /\ jobs'[x].occ = jobs[x].occ

LEMMA SameGoes == ASSUME MadeIds \subseteq MadeIds', \A x \in Ids : Same(x) PROVE Going
BY DEF Same, Goes, Going

LEMMA OccParts ==
  ASSUME NEW o \in Occurrences
  PROVE  o = <<o[1], o[2]>> /\ o[1] \in Ids /\ o[2] \in 1 .. MaxOccurrences /\ o[2] \in Nat \ {0}
BY Limits DEF Occurrences

\* What an occurrence was before the step.
LEMMA Before ==
  ASSUME TypesInv, FatesInv, Going, NEW o \in Occurrences
  PROVE  /\ Reached(o) => Reached(o)'
         /\ Current(o) => Reached(o)
         /\ Current(o)' => (Current(o) /\ jobs'[o[1]].occ = jobs[o[1]].occ) \/ ~Reached(o)
         /\ jobs'[o[1]].state # "absent" /\ o[2] < jobs'[o[1]].occ =>
              /\ jobs[o[1]].state # "absent"
              /\ o[2] < jobs[o[1]].occ \/ (Current(o) /\ jobs'[o[1]].occ = jobs[o[1]].occ + 1)
<1> DEFINE id == o[1]  n == o[2]
<1>1. id \in Ids /\ n \in Nat \ {0} BY OccParts
<1>2. jobs[id].occ \in Nat BY <1>1, TypeParts
<1>3. jobs[id].state # "absent" => id \in MadeIds BY <1>1 DEF FatesInv
<1>4. Goes(id) /\ (id \in MadeIds => id \in MadeIds') BY <1>1 DEF Going
<1>5. Reached(o) => Reached(o)'
 <2> HIDE DEF id, n
 <2>1. (id \in MadeIds /\ (jobs[id].state = "absent" \/ n <= jobs[id].occ))
       => (id \in MadeIds' /\ (jobs'[id].state = "absent" \/ n <= jobs'[id].occ)) BY <1>1,<1>2,<1>4 DEF Goes
 <2> QED BY <2>1 DEF Reached, id, n
<1>6. Current(o) => Reached(o) BY <1>1,<1>2,<1>3 DEF Current, Reached
<1>7. Current(o)' => (Current(o) /\ jobs'[id].occ = jobs[id].occ) \/ ~Reached(o)
 <2> HIDE DEF id, n
 <2>1. jobs'[id].state # "absent" /\ jobs'[id].occ = n =>
         \/ jobs[id].state # "absent" /\ jobs[id].occ = n /\ jobs'[id].occ = jobs[id].occ
         \/ ~(id \in MadeIds /\ (jobs[id].state = "absent" \/ n <= jobs[id].occ)) BY <1>1,<1>2,<1>4 DEF Goes
 <2> QED BY <2>1 DEF Current, Reached, id, n
<1>8. jobs'[id].state # "absent" /\ n < jobs'[id].occ =>
        /\ jobs[id].state # "absent"
        /\ n < jobs[id].occ \/ (Current(o) /\ jobs'[id].occ = jobs[id].occ + 1)
 <2> HIDE DEF id, n
 <2>1. jobs'[id].state # "absent" /\ n < jobs'[id].occ =>
       /\ jobs[id].state # "absent"
       /\ n < jobs[id].occ \/ (jobs[id].state # "absent" /\ jobs[id].occ = n /\ jobs'[id].occ = jobs[id].occ + 1)
  BY <1>1,<1>2,<1>4 DEF Goes
 <2> QED BY <2>1 DEF Current, id, n
<1> QED BY <1>5,<1>6,<1>7,<1>8

-----------------------------------------------------------------------------
(* The parts of the invariant over a step                                    *)

MarkerFine(o) ==
  /\ Delivered(o) => history.recorded[o] > 0
  /\ ~Reached(o) => history.recorded[o] = 0
  /\ history.recorded[o] <= history.forgotten[o] + 1
  /\ ~Delivered(o) /\ (Current(o) \/ Holds(o)) => history.recorded[o] <= history.forgotten[o]
  /\ jobs[o[1]].state # "absent" /\ o[2] < jobs[o[1]].occ => history.recorded[o] > 0

LEMMA MarkersFine == MarkersInv <=> \A o \in Occurrences : MarkerFine(o)
BY DEF MarkersInv, MarkerFine

LEMMA MarkersFineNext == MarkersInv' <=> \A o \in Occurrences : MarkerFine(o)'
BY DEF MarkersInv, MarkerFine

\* An occurrence whose marker no step touches: a job leaves it behind delivered.
LEMMA MarkerStays ==
  ASSUME TypesInv, FatesInv, Going, NEW o \in Occurrences, MarkerFine(o),
         Delivered(o)' <=> Delivered(o),
         history'.recorded[o] = history.recorded[o], history'.forgotten[o] = history.forgotten[o],
         Holds(o)' => Holds(o) \/ Current(o),
         Current(o) /\ jobs'[o[1]].state # "absent" /\ jobs'[o[1]].occ # jobs[o[1]].occ => history.recorded[o] > 0
  PROVE  MarkerFine(o)'
<1>1. history.recorded[o] \in Nat /\ history.forgotten[o] \in Nat BY TypeParts, HistoryParts
<1>2. jobs[o[1]].occ \in Nat BY TypeParts, OccParts
<1>3. jobs'[o[1]].occ = jobs[o[1]].occ + 1 => jobs'[o[1]].occ # jobs[o[1]].occ BY <1>2
<1>4. (Delivered(o) => history.recorded[o] > 0)' BY DEF MarkerFine
<1>5. (~Reached(o) => history.recorded[o] = 0)' BY Before DEF MarkerFine
<1>6. (history.recorded[o] <= history.forgotten[o] + 1)' BY DEF MarkerFine
<1>7. (~Delivered(o) /\ (Current(o) \/ Holds(o)) => history.recorded[o] <= history.forgotten[o])'
 <2>1. CASE Current(o)' /\ ~Reached(o)
  <3>1. history.recorded[o] = 0 BY <2>1 DEF MarkerFine
  <3> QED BY <1>1,<3>1
 <2>2. CASE Current(o)' /\ Current(o) BY <2>2 DEF MarkerFine
 <2>3. CASE Holds(o)' BY <2>3 DEF MarkerFine
 <2> QED BY <2>1,<2>2,<2>3, Before
<1>8. (jobs[o[1]].state # "absent" /\ o[2] < jobs[o[1]].occ => history.recorded[o] > 0)'
 <2> SUFFICES ASSUME jobs'[o[1]].state # "absent", o[2] < jobs'[o[1]].occ PROVE history.recorded[o] > 0 OBVIOUS
 <2> QED BY <1>3, Before DEF MarkerFine
<1> QED BY <1>4,<1>5,<1>6,<1>7,<1>8 DEF MarkerFine

LEMMA MarkersStay ==
  ASSUME TypesInv, FatesInv, MarkersInv, Going, deliveries' = deliveries,
         history'.recorded = history.recorded, history'.forgotten = history.forgotten,
         \A o \in Occurrences : Holds(o)' => Holds(o) \/ Current(o),
         \A o \in Occurrences : Current(o) /\ jobs'[o[1]].state # "absent" /\ jobs'[o[1]].occ # jobs[o[1]].occ
                                  => history.recorded[o] > 0
  PROVE  MarkersInv'
<1>1. ASSUME NEW o \in Occurrences PROVE MarkerFine(o)'
 <2>1. Delivered(o)' <=> Delivered(o) BY DEF Delivered
 <2>2. MarkerFine(o) BY MarkersFine
 <2>3. history'.recorded[o] = history.recorded[o] /\ history'.forgotten[o] = history.forgotten[o] OBVIOUS
 <2> QED BY <2>1,<2>2,<2>3, MarkerStays
<1> QED BY <1>1, MarkersFineNext

LEMMA PlanParts ==
  ASSUME TypesInv, NEW p \in history.plans
  PROVE  p[1] \in Occurrences /\ p[2] \in Plans \cup {"none"} /\ p = <<p[1], p[2]>>
BY TypeParts, HistoryParts

\* No call is accepted, no plan is stored.
LEMMA PlansStay ==
  ASSUME TypesInv, FatesInv, PlansInv, OnePlanPerOccurrence, Going, history'.plans = history.plans,
         \A x \in Ids : jobs'[x].state # "absent" /\ jobs[x].state # "absent" /\ jobs'[x].occ = jobs[x].occ
                          => jobs'[x].plan = jobs[x].plan,
         worker'.pc = "delivering" =>
           \/ worker.pc = "delivering" /\ Mine' = Mine /\ worker'.plan = worker.plan
           \/ Current(Mine') /\ worker'.plan = jobs[Mine'[1]].plan
  PROVE  PlansInv' /\ OnePlanPerOccurrence'
<1>1. OnePlanPerOccurrence' BY DEF OnePlanPerOccurrence
<1>2. ASSUME NEW p \in history.plans
      PROVE  /\ Reached(p[1])' /\ (p[2] = "none" <=> p[1][1] \notin PlannedIds)
             /\ Current(p[1])' => p[2] = jobs'[p[1][1]].plan
             /\ worker'.pc = "delivering" /\ Mine' = p[1] => worker'.plan = p[2]
 <2> DEFINE o == p[1]
 <2>1. o \in Occurrences BY PlanParts
 <2>2. /\ Reached(o) /\ (p[2] = "none" <=> p[1][1] \notin PlannedIds)
       /\ Current(o) => p[2] = jobs[o[1]].plan
       /\ worker.pc = "delivering" /\ Mine = o => worker.plan = p[2] BY DEF PlansInv
 <2> HIDE DEF o
 <2>3. Reached(o)' BY <2>1,<2>2, Before
 <2>4. o[1] \in Ids BY <2>1, OccParts
 <2>5. Current(o)' => p[2] = jobs'[o[1]].plan
  <3> SUFFICES ASSUME Current(o)' PROVE p[2] = jobs'[o[1]].plan OBVIOUS
  <3>1. Current(o) /\ jobs'[o[1]].occ = jobs[o[1]].occ BY <2>1,<2>2, Before
  <3> QED BY <2>2,<2>4,<3>1 DEF Current
 <2>6. worker'.pc = "delivering" /\ Mine' = o => worker'.plan = p[2] BY <2>2
 <2> QED BY <2>2,<2>3,<2>5,<2>6 DEF o
<1>3. PlansInv' BY <1>2 DEF PlansInv
<1> QED BY <1>1,<1>3

\* The call in progress neither ends nor is accepted.
LEMMA CallsStay ==
  ASSUME EveryCallAccounted, history'.sent = history.sent, history'.lost = history.lost,
         history'.recorded = history.recorded,
         \/ worker'.accepted = FALSE /\ worker.accepted = FALSE
         \/ worker'.accepted = worker.accepted /\ Mine' = Mine
  PROVE  EveryCallAccounted'
BY DEF EveryCallAccounted

LEMMA FatesStay ==
  ASSUME FatesInv, \A x \in Ids : jobs'[x].state = "absent" <=> jobs[x].state = "absent",
         history'.made = history.made, history'.fate = history.fate
  PROVE  FatesInv'
BY MadeKept DEF FatesInv

\* A job leaves the table.
LEMMA FatesGone ==
  ASSUME TypesInv, FatesInv, NEW id \in Ids, jobs[id].state # "absent", jobs'[id].state = "absent",
         \A x \in Ids \ {id} : jobs'[x] = jobs[x], NEW fate \in Fates \ {"none"},
         history'.made = history.made, history'.fate = [history.fate EXCEPT ![id] = fate]
  PROVE  FatesInv'
<1>1. history.fate \in [Ids -> Fates] BY TypeParts, HistoryParts
<1>2. history'.fate[id] = fate /\ \A x \in Ids \ {id} : history'.fate[x] = history.fate[x] BY <1>1
<1>3. MadeIds' = MadeIds BY MadeKept
<1>4. id \in MadeIds BY DEF FatesInv
<1> QED BY <1>2,<1>3,<1>4 DEF FatesInv

LEMMA SourcesStay ==
  ASSUME SourcesInv, history'.made = history.made, sources' = sources, inserted' = inserted
  PROVE  SourcesInv'
BY DEF SourcesInv

LEMMA DeadStay ==
  ASSUME DeadInv, history'.died = history.died, deadLetters' = deadLetters
  PROVE  DeadInv'
BY DEF DeadInv

\* The alarm is set for the earliest attempt.
LEMMA Rearmed ==
  ASSUME NEW js, js \in [Ids -> Job], jobs' = js, setNextAlarm(js)
  PROVE  AlarmInv' /\ alarm' \in Nat \cup {NoAlarm}
<1>1. \A x \in Ids : js[x].wait \in Nat BY DEF Job
<1>2. Scheduled(js) = Scheduled(jobs)' /\ Scheduled(js) \subseteq Ids BY DEF Scheduled
<1>3. CASE Scheduled(js) = {} BY <1>2,<1>3 DEF setNextAlarm, AlarmInv
<1>4. CASE Scheduled(js) # {}
 <2>1. PICK first \in Scheduled(js) : /\ \A id \in Scheduled(js) : js[first].wait <= js[id].wait
                                      /\ alarm' = js[first].wait BY <1>4 DEF setNextAlarm
 <2>2. js[first].wait \in Nat BY <1>1,<1>2
 <2>3. alarm' # NoAlarm BY <2>1,<2>2 DEF NoAlarm
 <2> QED BY <1>2,<2>1,<2>2,<2>3 DEF AlarmInv
<1> QED BY <1>3,<1>4

\* An alarm that is set stays: no row is created, or due earlier.
LEMMA AlarmStays ==
  ASSUME TypesInv, AlarmInv, alarm' = alarm, worker'.pc # "idle",
         \A x \in Ids : jobs'[x].state # "absent" => jobs[x].state # "absent",
         \A x \in Ids : jobs'[x].state # "absent" => jobs'[x].wait \in Nat /\ (jobs'[x].wait = jobs[x].wait \/ jobs[x].wait = 0)
  PROVE  AlarmInv'
<1> SUFFICES ASSUME alarm # NoAlarm, NEW x \in Ids, jobs'[x].state # "absent" PROVE alarm <= jobs'[x].wait
 BY DEF AlarmInv, Scheduled
<1>1. alarm <= jobs[x].wait BY DEF AlarmInv, Scheduled
<1>2. alarm \in Nat /\ jobs[x].wait \in Nat BY TypeParts
<1> QED BY <1>1,<1>2

-----------------------------------------------------------------------------
(* The end of an occurrence: completed or failed                             *)

\* What completeOccurrence(o) and failOccurrence(o) may do.
Moves(o, past) ==
  /\ jobs' \in [Ids -> Job] /\ RowsInv' /\ FatesInv' /\ Going
  /\ history' \in Histories /\ Agree(history', past)
  /\ \A x \in Ids : jobs'[x] = jobs[x] \/ (x = o[1] /\ Current(o))
  /\ \A x \in Ids : jobs'[x].state # "absent" => jobs[x].state # "absent"
  /\ \A x \in Ids : jobs'[x].state # "absent" /\ jobs'[x].occ = jobs[x].occ => jobs'[x].plan = jobs[x].plan
  /\ \A x \in Ids : history.fate[x] # "none" => history'.fate[x] = history.fate[x]

\* The history the end of an occurrence starts from: the call is over.
Starts(past) ==
  /\ past \in Histories /\ past.made = history.made /\ past.died = history.died /\ past.fate = history.fate

LEMMA MovesNot ==
  ASSUME TypesInv, RowsInv, FatesInv, NEW o \in Occurrences, NEW past, Starts(past), jobs' = jobs, history' = past
  PROVE  Moves(o, past)
<1>1. MadeIds' = MadeIds BY MadeKept DEF Starts
<1>2. Going BY <1>1, SameGoes DEF Same
<1>3. FatesInv' BY FatesStay DEF Starts
<1>4. RowsInv' BY DEF RowsInv
<1>5. history' \in Histories /\ Agree(history', past) /\ history'.fate = history.fate BY DEF Starts, Agree
<1> QED BY <1>2,<1>3,<1>4,<1>5, TypeParts DEF Moves

\* The job leaves the table.
LEMMA MovesGone ==
  ASSUME TypesInv, RowsInv, FatesInv, NEW o \in Occurrences, NEW past, Starts(past), Current(o),
         jobs' = [jobs EXCEPT ![o[1]] = NoJob], NEW fate \in Fates \ {"none"},
         history' \in Histories, Agree(history', past), history'.fate = [history.fate EXCEPT ![o[1]] = fate]
  PROVE  Moves(o, past)
<1> DEFINE id == o[1]
<1>1. id \in Ids /\ jobs[id].state # "absent" BY OccParts DEF Current
<1>2. jobs \in [Ids -> Job] /\ NoJob \in Job /\ RowFine(id, NoJob) /\ jobs' = [jobs EXCEPT ![id] = NoJob]
 BY TypeParts, NoJobRow
<1>3. history'.made = history.made /\ history'.fate = [history.fate EXCEPT ![id] = fate] BY DEF Starts, Agree
<1>4. history.fate \in [Ids -> Fates] BY TypeParts, HistoryParts
<1>5. Current(o) /\ o[1] = id OBVIOUS
<1> HIDE DEF id
<1>6. jobs' \in [Ids -> Job] /\ RowsInv' /\ jobs'[id] = NoJob /\ \A x \in Ids \ {id} : jobs'[x] = jobs[x]
 BY <1>1,<1>2, RowChanges
<1>7. jobs'[id].state = "absent" BY <1>6 DEF NoJob
<1>8. FatesInv' BY <1>1,<1>3,<1>6,<1>7, FatesGone
<1>9. MadeIds' = MadeIds BY <1>3, MadeKept
<1>10. Going BY <1>6,<1>7,<1>9, SameGoes DEF Same
<1>11. \A x \in Ids : history.fate[x] # "none" => history'.fate[x] = history.fate[x]
 BY <1>1,<1>3,<1>4 DEF FatesInv
<1>12. /\ \A x \in Ids : jobs'[x] = jobs[x] \/ (x = o[1] /\ Current(o))
       /\ \A x \in Ids : jobs'[x].state # "absent" => jobs[x].state # "absent"
       /\ \A x \in Ids : jobs'[x].state # "absent" /\ jobs'[x].occ = jobs[x].occ => jobs'[x].plan = jobs[x].plan
 BY <1>5,<1>6,<1>7
<1> QED BY <1>6,<1>8,<1>10,<1>11,<1>12 DEF Moves

\* The job keeps a row: that of its next occurrence, or of a later attempt.
LEMMA MovesOn ==
  ASSUME TypesInv, RowsInv, FatesInv, NEW o \in Occurrences, NEW past, Starts(past), Current(o), history' = past,
         NEW r \in Job, RowFine(o[1], r), r.state # "absent", jobs' = [jobs EXCEPT ![o[1]] = r],
         r.occ \in {jobs[o[1]].occ, jobs[o[1]].occ + 1}, r.occ = jobs[o[1]].occ => r.plan = jobs[o[1]].plan
  PROVE  Moves(o, past)
<1> DEFINE id == o[1]
<1>1. id \in Ids /\ jobs[id].state # "absent" BY OccParts DEF Current
<1>2. jobs \in [Ids -> Job] /\ RowFine(id, r) /\ jobs' = [jobs EXCEPT ![id] = r] BY TypeParts
<1>3. r.occ \in {jobs[id].occ, jobs[id].occ + 1} /\ (r.occ = jobs[id].occ => r.plan = jobs[id].plan) OBVIOUS
<1>4. Current(o) /\ o[1] = id OBVIOUS
<1> HIDE DEF id
<1>5. jobs' \in [Ids -> Job] /\ RowsInv' /\ jobs'[id] = r /\ \A x \in Ids \ {id} : jobs'[x] = jobs[x]
 BY <1>1,<1>2, RowChanges
<1>6. FatesInv'
 <2>1. \A x \in Ids : jobs'[x].state = "absent" <=> jobs[x].state = "absent" BY <1>1,<1>5
 <2> QED BY <2>1, FatesStay DEF Starts
<1>7. MadeIds' = MadeIds BY MadeKept DEF Starts
<1>8. Going BY <1>1,<1>3,<1>5,<1>7 DEF Going, Goes
<1>9. /\ \A x \in Ids : jobs'[x] = jobs[x] \/ (x = o[1] /\ Current(o))
      /\ \A x \in Ids : jobs'[x].state # "absent" => jobs[x].state # "absent"
      /\ \A x \in Ids : jobs'[x].state # "absent" /\ jobs'[x].occ = jobs[x].occ => jobs'[x].plan = jobs[x].plan
 BY <1>1,<1>3,<1>4,<1>5
<1> QED BY <1>5,<1>6,<1>8,<1>9 DEF Moves, Starts, Agree

\* The row of an occurrence that was not attempted yet.
Fresh(j, n, delay, repeats) ==
  [j EXCEPT !.state = "pending", !.occ = n, !.wait = delay, !.repeats = repeats]
NewRow(n, delay, repeats) == Fresh(NoJob, n, delay, repeats)

LEMMA FreshParts ==
  ASSUME NEW n \in 0 .. MaxOccurrences, NEW delay \in Nat, NEW repeats \in BOOLEAN, NEW j \in Job
  PROVE  LET r == Fresh(j, n, delay, repeats) IN r \in Job /\ r.state = "pending" /\ r.occ = n /\ r.plan = j.plan
BY DEF Job, Fresh

LEMMA NewRowParts ==
  ASSUME NEW n \in 1 .. MaxOccurrences, NEW delay \in Nat, NEW repeats \in BOOLEAN, NEW id
  PROVE  LET r == NewRow(n, delay, repeats) IN
         r \in Job /\ RowFine(id, r) /\ r.state # "absent" /\ r.occ = n
<1> DEFINE r == NewRow(n, delay, repeats)
<1>1. NoJob \in Job /\ NoJob.plan = "none" BY NoJobRow DEF NoJob
<1>2. n \in 0 .. MaxOccurrences /\ n > 0 BY Limits
<1>3. r \in Job /\ r.state = "pending" /\ r.occ = n /\ r.plan = "none" BY <1>1,<1>2, FreshParts DEF NewRow
<1> HIDE DEF r
<1>4. RowFine(id, r) BY <1>2,<1>3 DEF RowFine
<1> QED BY <1>3,<1>4 DEF r

\* completeOccurrence
LEMMA Completes ==
  ASSUME TypesInv, RowsInv, FatesInv, NEW o \in Occurrences, NEW delay \in Nat, NEW past, Starts(past),
         completeOccurrence(o, delay, past)
  PROVE  Moves(o, past) /\ history'.died = history.died
<1>1. CASE ~Current(o) BY <1>1, MovesNot DEF completeOccurrence, Starts
<1>2. CASE Current(o) /\ Again(o[1])
 <2> DEFINE r == NextOccurrence(o[1], delay)
 <2>1. jobs' = [jobs EXCEPT ![o[1]] = r] /\ history' = past BY <1>2 DEF completeOccurrence
 <2>2. jobs[o[1]].occ \in 0 .. MaxOccurrences /\ MaxOccurrences \in Nat /\ load.occurrences \in 1 .. MaxOccurrences
  BY OccParts, TypeParts, LoadParts, Limits
 <2>3. jobs[o[1]].occ + 1 \in 1 .. MaxOccurrences BY <1>2,<2>2 DEF Again
 <2>4. r = NewRow(jobs[o[1]].occ + 1, delay, TRUE) BY DEF NextOccurrence, NewRow, Fresh
 <2> HIDE DEF r
 <2>5. r \in Job /\ RowFine(o[1], r) /\ r.state # "absent" /\ r.occ = jobs[o[1]].occ + 1 BY <2>3,<2>4, NewRowParts
 <2>6. r.occ # jobs[o[1]].occ BY <2>2,<2>5
 <2> QED BY <1>2,<2>1,<2>5,<2>6, MovesOn DEF Starts
<1>3. CASE Current(o) /\ ~Again(o[1])
 <2>1. jobs' = [jobs EXCEPT ![o[1]] = NoJob] /\ history' = [past EXCEPT !.fate[o[1]] = "finished"]
  BY <1>3 DEF completeOccurrence
 <2>2. "finished" \in Fates \ {"none"} BY DEF Fates
 <2>3. /\ history' \in Histories /\ Agree(history', past) /\ history'.died = past.died
       /\ history'.fate = [past.fate EXCEPT ![o[1]] = "finished"]
  <3>1. PICK fate \in Fates : fate = "finished" BY <2>2
  <3>2. history' = Fated(past, o[1], fate) BY <2>1,<3>1 DEF Fated
  <3> QED BY <3>1,<3>2, OccParts, FateParts DEF Starts
 <2> QED BY <1>3,<2>1,<2>2,<2>3, MovesGone DEF Starts
<1> QED BY <1>1,<1>2,<1>3

LEMMA Delayed ==
  ASSUME NEW n \in Nat \ {0}, n < MAX_DELIVERY_ATTEMPTS PROVE RetryDelay(n) \in Nat
<1>1. n \in 1 .. MAX_DELIVERY_ATTEMPTS - 1 BY Limits
<1> QED BY <1>1, LimitsAssumption DEF RetryDelay

\* The dead letters kept: the latest.
LEMMA Buries ==
  ASSUME TypesInv, DeadInv, NEW id \in Ids, history'.died = Append(history.died, id),
         deadLetters' = Trimmed(Append(deadLetters, id))
  PROVE  deadLetters' \in Seq(Ids) /\ DeadInv'
<1> DEFINE dead == Append(deadLetters, id)  died == Append(history.died, id)
           kept == Len(deadLetters)  all == Len(history.died)
<1>1. /\ dead \in Seq(Ids) /\ Len(dead) = kept + 1 /\ kept \in Nat
      /\ \A k \in 1 .. kept : dead[k] = deadLetters[k]
      /\ dead[kept + 1] = id BY TypeParts, Appended
<1>2. /\ died \in Seq(Ids) /\ Len(died) = all + 1 /\ all \in Nat
      /\ \A k \in 1 .. all : died[k] = history.died[k]
      /\ died[all + 1] = id BY TypeParts, HistoryParts, Appended
<1>3. /\ kept <= all /\ \A k \in 1 .. kept : deadLetters[k] = history.died[all - kept + k]
      /\ kept >= MAX_DEAD_LETTERS \/ kept = all BY DEF DeadInv
<1>4. history'.died = died /\ deadLetters' = Trimmed(dead) OBVIOUS
<1>5. MAX_DEAD_LETTERS \in Nat \ {0} BY Limits
<1> HIDE DEF dead, died, kept, all
<1>6. \A k \in 1 .. kept + 1 : dead[k] = died[all - kept + k]
 <2>1. ASSUME NEW k \in 1 .. kept PROVE dead[k] = died[all - kept + k]
  <3>1. all - kept + k \in 1 .. all BY <1>1,<1>2,<1>3
  <3> QED BY <1>1,<1>2,<1>3,<2>1,<3>1 DEF kept, all
 <2>2. all - kept + (kept + 1) = all + 1 BY <1>1,<1>2
 <2>3. dead[kept + 1] = died[all - kept + (kept + 1)] BY <1>1,<1>2,<2>2
 <2>4. \A k \in 1 .. kept + 1 : k \in 1 .. kept \/ k = kept + 1 BY <1>1
 <2> QED BY <2>1,<2>3,<2>4
<1>7. CASE kept + 1 <= MAX_DEAD_LETTERS
 <2>1. deadLetters' = dead BY <1>1,<1>4,<1>7 DEF Trimmed
 <2>2. kept = all BY <1>1,<1>3,<1>5,<1>7
 <2>3. Len(dead) = Len(died) BY <1>1,<1>2,<2>2
 <2>4. \A k \in 1 .. kept + 1 : dead[k] = died[(all + 1) - (kept + 1) + k]
  <3>1. \A k \in 1 .. kept + 1 : (all + 1) - (kept + 1) + k = all - kept + k BY <1>1,<1>2
  <3> QED BY <1>6,<3>1
 <2>5. kept + 1 <= all + 1 BY <1>1,<1>2,<2>2
 <2> QED BY <1>1,<1>2,<1>4,<2>1,<2>3,<2>4,<2>5 DEF DeadInv
<1>8. CASE kept + 1 > MAX_DEAD_LETTERS
 <2> DEFINE d == kept + 1 - MAX_DEAD_LETTERS  rest == SubSeq(dead, 1 + d, Len(dead))
 <2>1. d \in 0 .. kept + 1 /\ d \in Nat BY <1>1,<1>5,<1>8
 <2>2. deadLetters' = rest
  <3>1. Len(dead) - MAX_DEAD_LETTERS + 1 = 1 + d /\ ~(Len(dead) <= MAX_DEAD_LETTERS) BY <1>1,<1>5,<1>8
  <3> QED BY <1>4,<3>1 DEF Trimmed
 <2>3. dead \in Seq(Ids) /\ d \in 0 .. Len(dead) BY <1>1,<2>1
 <2>4. kept + 1 - d = MAX_DEAD_LETTERS /\ Len(dead) - d = MAX_DEAD_LETTERS BY <1>1,<1>5
 <2> HIDE DEF d
 <2>8. /\ rest \in Seq(Ids) /\ Len(rest) = Len(dead) - d
       /\ \A k \in 1 .. Len(dead) - d : rest[k] = dead[d + k] BY <2>3, Dropped
 <2> HIDE DEF rest
 <2>5. ASSUME NEW k \in 1 .. MAX_DEAD_LETTERS PROVE rest[k] = died[(all + 1) - MAX_DEAD_LETTERS + k]
  <3>1. d + k \in 1 .. kept + 1 /\ all - kept + (d + k) = (all + 1) - MAX_DEAD_LETTERS + k
   BY <1>1,<1>2,<1>5,<2>1,<2>4
  <3> QED BY <1>6,<2>8,<2>4,<3>1
 <2>6. MAX_DEAD_LETTERS <= all + 1 BY <1>1,<1>2,<1>3,<1>5,<1>8
 <2>7. Len(rest) = MAX_DEAD_LETTERS /\ MAX_DEAD_LETTERS >= MAX_DEAD_LETTERS BY <2>8,<2>4,<1>5
 <2> QED BY <1>2,<1>4,<2>2,<2>8,<2>5,<2>6,<2>7 DEF DeadInv
<1> QED BY <1>1,<1>5,<1>7,<1>8

\* failOccurrence, of an occurrence that was attempted if it may be retried
LEMMA Fails ==
  ASSUME TypesInv, RowsInv, FatesInv, DeadInv, NEW o \in Occurrences, NEW retryable \in BOOLEAN, NEW past, Starts(past),
         retryable /\ Current(o) => jobs[o[1]].attempts > 0,
         failOccurrence(o, retryable, past)
  PROVE  /\ Moves(o, past) /\ DeadInv' /\ deadLetters' \in Seq(Ids)
         /\ \A x \in Ids : jobs'[x].state # "absent" => jobs'[x].occ = jobs[x].occ
<1>1. CASE ~Current(o)
 <2>1. jobs' = jobs /\ deadLetters' = deadLetters /\ history' = past BY <1>1 DEF failOccurrence
 <2> QED BY <2>1, MovesNot, DeadStay, TypeParts DEF Starts
<1>2. CASE Current(o) /\ Retries(o[1], retryable)
 <2> DEFINE r == [jobs[o[1]] EXCEPT !.state = "retry_wait", !.wait = RetryDelay(jobs[o[1]].attempts)]
 <2>1. o[1] \in Ids /\ jobs \in [Ids -> Job] /\ jobs[o[1]] \in Job /\ jobs[o[1]].attempts \in Nat
  BY OccParts, TypeParts
 <2>2. deadLetters' = deadLetters /\ history' = past
       /\ jobs' = [jobs EXCEPT ![o[1]].state = "retry_wait", ![o[1]].wait = RetryDelay(jobs[o[1]].attempts)]
  BY <1>2 DEF failOccurrence
 <2>3. RetryDelay(jobs[o[1]].attempts) \in Nat BY <1>2,<2>1, Delayed DEF Retries
 <2>4. jobs' = [jobs EXCEPT ![o[1]] = r] BY <2>1,<2>2
 <2>5. r \in Job /\ r.state = "retry_wait" /\ r.occ = jobs[o[1]].occ /\ r.plan = jobs[o[1]].plan
  BY <2>1,<2>3 DEF Job
 <2>6. RowFine(o[1], jobs[o[1]]) /\ jobs[o[1]].state # "absent" BY <1>2,<2>1, RowsFine DEF Current
 <2> HIDE DEF r
 <2>7. RowFine(o[1], r) BY <2>5,<2>6 DEF RowFine
 <2>8. Moves(o, past) BY <1>2,<2>2,<2>4,<2>5,<2>7, MovesOn
 <2>9. \A x \in Ids : jobs'[x].occ = jobs[x].occ BY <2>1,<2>4,<2>5
 <2> QED BY <2>2,<2>8,<2>9, DeadStay, TypeParts DEF Starts
<1>3. CASE Current(o) /\ ~Retries(o[1], retryable)
 <2>1. /\ jobs' = [jobs EXCEPT ![o[1]] = NoJob]
       /\ deadLetters' = Trimmed(Append(deadLetters, o[1]))
       /\ history' = [past EXCEPT !.fate[o[1]] = "dead", !.died = Append(past.died, o[1])]
  BY <1>3 DEF failOccurrence, DeadLetter
 <2>2. "dead" \in Fates \ {"none"} /\ o[1] \in Ids BY OccParts DEF Fates
 <2>4. /\ history' \in Histories /\ Agree(history', past) /\ history'.died = Append(history.died, o[1])
       /\ history'.fate = [history.fate EXCEPT ![o[1]] = "dead"]
  <3> DEFINE died == Append(past.died, o[1])
  <3>1. died \in Seq(Ids) BY <2>2, HistoryParts, Appended DEF Starts
  <3>2. history' = Buried(past, o[1], died) BY <2>1 DEF Buried
  <3> HIDE DEF died
  <3>3. /\ history' \in Histories /\ Agree(history', past) /\ history'.died = died
        /\ history'.fate = [past.fate EXCEPT ![o[1]] = "dead"] BY <2>2,<3>1,<3>2, DeadParts DEF Starts
  <3> QED BY <3>3 DEF died, Starts
 <2>5. Moves(o, past) BY <1>3,<2>1,<2>2,<2>4, MovesGone
 <2>6. deadLetters' \in Seq(Ids) /\ DeadInv' BY <2>1,<2>2,<2>4, Buries
 <2>7. \A x \in Ids : jobs'[x].state # "absent" => jobs'[x].occ = jobs[x].occ BY <2>1,<2>2, TypeParts DEF NoJob
 <2> QED BY <2>5,<2>6,<2>7
<1> QED BY <1>1,<1>2,<1>3

-----------------------------------------------------------------------------
(* The worker, and what a step leaves alone                                  *)

LEMMA IdleWorker == Idle \in Worker /\ Idle.pc = "idle" /\ Idle.accepted = FALSE /\ Idle.processed = 0
BY Limits DEF Idle, Worker

LEMMA NextJobWorker ==
  ASSUME TypesInv, worker.processed < MAX_JOBS_PER_ALARM
  PROVE  NextJob \in Worker /\ NextJob.pc = "loop" /\ NextJob.accepted = FALSE
<1>1. worker \in Worker /\ MAX_JOBS_PER_ALARM \in Nat /\ MaxOccurrences \in Nat BY TypeParts, Limits
<1>2. worker.processed + 1 \in 0 .. MAX_JOBS_PER_ALARM /\ 0 \in 0 .. MaxOccurrences BY <1>1 DEF Worker
<1> DEFINE n == worker.processed + 1
<1>3. NextJob = [worker EXCEPT !.pc = "loop", !.job = "none", !.occ = 0, !.plan = "none", !.accepted = FALSE,
                               !.processed = n] BY DEF NextJob
<1>4. n \in 0 .. MAX_JOBS_PER_ALARM BY <1>2
<1> HIDE DEF n
<1> QED BY <1>1,<1>2,<1>3,<1>4 DEF Worker

\* Between two attempts alarm() holds nothing.
Free == worker.pc \in {"idle", "loop"} /\ worker.accepted = FALSE

LEMMA WorkerFree == ASSUME Free' PROVE WorkerInv' /\ ~Holding'
BY DEF Free, WorkerInv, Holding

LEMMA LoopFree == ASSUME WorkerInv, worker.pc \in {"idle", "loop"}, TypesInv PROVE Free
BY TypeParts DEF WorkerInv, Free, Worker

LEMMA TypesNext ==
  ASSUME jobs' \in [Ids -> Job], sources' \in Seq(Sources), inserted' \in Nat,
         deliveries' \in [Occurrences -> Nat \cup {NoMarker}], deadLetters' \in Seq(Ids),
         alarm' \in Nat \cup {NoAlarm}, worker' \in Worker, load \in Loads, load' = load, history' \in Histories
  PROVE  TypesInv'
BY DEF TypesInv, TypeOK

\* What is over stays over.
LEMMA StaysGone ==
  ASSUME RowsInv', FatesInv, jobs' \in [Ids -> Job],
         \A x \in Ids : jobs'[x].state # "absent" => jobs[x].state # "absent" \/ x \notin MadeIds,
         \A x \in Ids : history.fate[x] # "none" => history'.fate[x] = history.fate[x],
         worker'.pc = "delivering" => worker.pc = "delivering" \/ jobs[worker'.job].state # "absent"
  PROVE  GoneForGood
<1> SUFFICES ASSUME NEW id \in Ids, history.fate[id] # "none"
             PROVE  /\ jobs'[id] = NoJob
                    /\ history'.fate[id] = history.fate[id]
                    /\ worker'.pc = "delivering" /\ worker'.job = id => worker.pc = "delivering"
 BY DEF GoneForGood
<1>1. jobs[id].state = "absent" /\ id \in MadeIds BY DEF FatesInv
<1>2. jobs'[id].state = "absent" BY <1>1
<1>3. jobs'[id] = NoJob BY <1>2 DEF RowsInv
<1> QED BY <1>1,<1>3

\* The rows of the requests, and the sources, as a step of alarm() leaves them.
Apart == /\ sources' = sources /\ inserted' = inserted /\ load' = load

\* The end of an attempt, or of an occurrence, whatever became of it.
LEMMA Ended ==
  ASSUME IInv, Apart, NEW o \in Occurrences, NEW past, Starts(past), past.plans = history.plans, Moves(o, past),
         worker' \in Worker, Free', alarm' \in Nat \cup {NoAlarm}, AlarmInv', deadLetters' \in Seq(Ids), DeadInv',
         deliveries' \in [Occurrences -> Nat \cup {NoMarker}], MarkersInv', EveryCallAccounted'
  PROVE  IInv' /\ GoneForGood
<1>1. TypesInv /\ FatesInv /\ PlansInv /\ OnePlanPerOccurrence /\ SourcesInv BY DEF IInv
<1>2. /\ jobs' \in [Ids -> Job] /\ RowsInv' /\ FatesInv' /\ Going
      /\ history' \in Histories /\ history'.made = history.made /\ history'.plans = history.plans
 BY DEF Moves, Agree, Starts
<1>3. TypesInv' BY <1>1,<1>2, TypeParts, TypesNext DEF Apart
<1>4. worker'.pc # "delivering" /\ WorkerInv' BY WorkerFree DEF Free
<1>5. \A x \in Ids : jobs'[x].state # "absent" /\ jobs[x].state # "absent" /\ jobs'[x].occ = jobs[x].occ
                       => jobs'[x].plan = jobs[x].plan BY DEF Moves
<1>6. PlansInv' /\ OnePlanPerOccurrence' BY <1>1,<1>2,<1>4,<1>5, PlansStay
<1>7. SourcesInv' BY <1>1,<1>2, SourcesStay DEF Apart
<1>8. GoneForGood BY <1>1,<1>2,<1>4, StaysGone DEF Moves
<1> QED BY <1>2,<1>3,<1>4,<1>6,<1>7,<1>8 DEF IInv

\* A job that was due is moved, and the alarm is still where it was.
LEMMA MovedAlarm ==
  ASSUME TypesInv, AlarmInv, NEW o \in Occurrences, NEW past, Moves(o, past), Current(o) => jobs[o[1]].wait = 0,
         alarm' = alarm, worker'.pc # "idle"
  PROVE  AlarmInv' /\ alarm' \in Nat \cup {NoAlarm}
<1>1. \A x \in Ids : jobs'[x].state # "absent" => jobs[x].state # "absent" BY DEF Moves
<1>2. \A x \in Ids : jobs'[x].wait \in Nat /\ (jobs'[x].wait = jobs[x].wait \/ jobs[x].wait = 0) BY DEF Moves, Job
<1> QED BY <1>1,<1>2, AlarmStays, TypeParts

\* An occurrence that is left for the next one was the one that ended.
LEMMA OnlyItself ==
  ASSUME NEW o \in Occurrences, NEW past, Moves(o, past), NEW p \in Occurrences, Current(p), jobs'[p[1]] # jobs[p[1]]
  PROVE  p = o
<1>1. p[1] \in Ids /\ p = <<p[1], p[2]>> /\ o = <<o[1], o[2]>> BY OccParts
<1>2. p[1] = o[1] /\ Current(o) BY <1>1 DEF Moves
<1> QED BY <1>1,<1>2 DEF Current

-----------------------------------------------------------------------------
(* The steps of alarm()                                                      *)

\* The occurrence of a job that is due.
LEMMA DueOcc ==
  ASSUME IInv, NEW id \in Ids, Begins(id)
  PROVE  /\ Occ(id) \in Occurrences /\ Occ(id)[1] = id /\ Current(Occ(id)) /\ jobs[id].wait = 0
         /\ worker.pc = "loop" /\ worker.processed < MAX_JOBS_PER_ALARM /\ Free /\ Starts(history)
<1>1. TypesInv /\ RowsInv /\ WorkerInv BY DEF IInv
<1>2. jobs[id].state # "absent" /\ jobs[id].wait = 0 /\ worker.pc = "loop" /\ worker.processed < MAX_JOBS_PER_ALARM
 BY DEF Begins, Due
<1>3. jobs[id].occ \in 0 .. MaxOccurrences /\ jobs[id].occ > 0 /\ MaxOccurrences \in Nat
 BY <1>1,<1>2, TypeParts, Limits DEF RowsInv
<1>4. jobs[id].occ \in 1 .. MaxOccurrences BY <1>3
<1> QED BY <1>1,<1>2,<1>4, LoopFree, TypeParts DEF Occ, Occurrences, Current, Starts

LEMMA FinishDeliveredStep ==
  ASSUME IInv, NEW id \in Ids, NEW delay \in Delays, FinishDelivered(id, delay), load' = load
  PROVE  IInv' /\ GoneForGood
<1>1. TypesInv /\ RowsInv /\ FatesInv /\ WorkerInv /\ MarkersInv /\ DeadInv /\ AlarmInv /\ EveryCallAccounted
 BY DEF IInv
<1>2. /\ Begins(id) /\ Delivered(Occ(id)) /\ worker' = NextJob /\ Apart /\ deliveries' = deliveries /\ alarm' = alarm
      /\ \/ completeOccurrence(Occ(id), delay, history) /\ deadLetters' = deadLetters
         \/ failOccurrence(Occ(id), FALSE, history) BY DEF FinishDelivered, Apart
<1> DEFINE o == Occ(id)
<1>3. /\ o \in Occurrences /\ o[1] = id /\ Current(o) /\ jobs[id].wait = 0
      /\ worker.pc = "loop" /\ worker.processed < MAX_JOBS_PER_ALARM /\ Free /\ Starts(history) BY <1>2, DueOcc
<1>4. history.recorded[o] > 0 BY <1>2,<1>3,<1>1 DEF MarkersInv
<1>5. worker' \in Worker /\ Free' /\ worker'.pc # "idle" /\ worker'.accepted = FALSE /\ ~Holding'
 BY <1>1,<1>2,<1>3, NextJobWorker, WorkerFree DEF Free
<1>6. delay \in Nat BY LimitsAssumption
<1> HIDE DEF o
<1>7. Moves(o, history) /\ DeadInv' /\ deadLetters' \in Seq(Ids)
 <2>1. CASE completeOccurrence(o, delay, history) /\ deadLetters' = deadLetters
  <3>1. Moves(o, history) /\ history'.died = history.died BY <1>1,<1>3,<1>6,<2>1, Completes
  <3> QED BY <1>1,<2>1,<3>1, DeadStay, TypeParts
 <2>2. CASE failOccurrence(o, FALSE, history)
  <3>1. PICK retryable \in BOOLEAN : retryable = FALSE OBVIOUS
  <3>2. failOccurrence(o, retryable, history) BY <2>2,<3>1
  <3> QED BY <1>1,<1>3,<3>1,<3>2, Fails
 <2> QED BY <1>2,<2>1,<2>2 DEF o
<1>8. /\ history'.recorded = history.recorded /\ history'.forgotten = history.forgotten
      /\ history'.sent = history.sent /\ history'.lost = history.lost BY <1>7 DEF Moves, Agree
<1>9. MarkersInv'
 <2>1. ASSUME NEW p \in Occurrences, Current(p), jobs'[p[1]].occ # jobs[p[1]].occ PROVE history.recorded[p] > 0
  BY <1>3,<1>4,<1>7,<2>1, OnlyItself
 <2>2. \A p \in Occurrences : ~Holds(p)' BY <1>5 DEF Holds
 <2>3. Going BY <1>7 DEF Moves
 <2> QED BY <1>1,<1>2,<1>8,<2>1,<2>2,<2>3, MarkersStay
<1>10. EveryCallAccounted' BY <1>1,<1>3,<1>5,<1>8, CallsStay DEF Free
<1>11. AlarmInv' /\ alarm' \in Nat \cup {NoAlarm} BY <1>1,<1>2,<1>3,<1>5,<1>7, MovedAlarm
<1>12. deliveries' \in [Occurrences -> Nat \cup {NoMarker}] BY <1>1,<1>2, TypeParts
<1> QED BY <1>2,<1>3,<1>5,<1>7,<1>9,<1>10,<1>11,<1>12, Ended

\* calcScheduleTime throws: the rows and the alarm afterwards.
LEMMA ThrowParts ==
  ASSUME TypesInv, NEW o, NEW past, completeThrows(o, past)
  PROVE  /\ jobs' = jobs /\ history' = past /\ worker' = Idle
         /\ AlarmInv' /\ alarm' \in Nat \cup {NoAlarm}
BY Rearmed, TypeParts DEF completeThrows

LEMMA FinishThrowsStep ==
  ASSUME IInv, NEW id \in Ids, FinishThrows(id), load' = load
  PROVE  IInv' /\ GoneForGood
<1>1. TypesInv /\ RowsInv /\ FatesInv /\ MarkersInv /\ DeadInv /\ EveryCallAccounted BY DEF IInv
<1>2. /\ Begins(id) /\ completeThrows(Occ(id), history) /\ Apart
      /\ deliveries' = deliveries /\ deadLetters' = deadLetters BY DEF FinishThrows, Apart
<1>3. Occ(id) \in Occurrences /\ Free /\ Starts(history) BY <1>2, DueOcc
<1>4. /\ jobs' = jobs /\ history' = history /\ worker' = Idle
      /\ AlarmInv' /\ alarm' \in Nat \cup {NoAlarm} BY <1>1,<1>2, ThrowParts
<1>5. worker' \in Worker /\ Free' /\ worker'.accepted = FALSE /\ ~Holding'
 BY <1>4, IdleWorker, WorkerFree DEF Free
<1>6. Moves(Occ(id), history) BY <1>1,<1>3,<1>4, MovesNot
<1>7. MarkersInv'
 <2>1. \A p \in Occurrences : ~Holds(p)' BY <1>5 DEF Holds
 <2>2. Going BY <1>6 DEF Moves
 <2> QED BY <1>1,<1>2,<1>4,<2>1,<2>2, MarkersStay
<1>8. EveryCallAccounted' /\ DeadInv' BY <1>1,<1>2,<1>3,<1>4,<1>5, CallsStay, DeadStay DEF Free
<1> QED BY <1>1,<1>2,<1>3,<1>4,<1>5,<1>6,<1>7,<1>8, TypeParts, Ended

\* The occurrence alarm() holds.
LEMMA HeldOcc ==
  ASSUME IInv, Holding
  PROVE  /\ Mine \in Occurrences /\ Mine[1] = worker.job /\ Reached(Mine) /\ ~Delivered(Mine)
         /\ worker.processed < MAX_JOBS_PER_ALARM
         /\ Current(Mine) => jobs[Mine[1]].wait = 0 /\ jobs[Mine[1]].attempts > 0
         /\ TypesInv /\ WorkerInv
BY DEF IInv, WorkerInv, Mine

LEMMA AttemptThrowsStep ==
  ASSUME IInv, NEW retryable \in BOOLEAN, AttemptThrows(retryable), load' = load
  PROVE  IInv' /\ GoneForGood
<1>1. TypesInv /\ RowsInv /\ FatesInv /\ WorkerInv /\ MarkersInv /\ DeadInv /\ AlarmInv /\ EveryCallAccounted
 BY DEF IInv
<1>2. /\ Holding /\ failOccurrence(Mine, retryable, Lost) /\ worker' = NextJob /\ Apart
      /\ deliveries' = deliveries /\ alarm' = alarm BY DEF AttemptThrows, Holding, Apart
<1> DEFINE o == Mine  past == Lost
<1>3. /\ o \in Occurrences /\ worker.processed < MAX_JOBS_PER_ALARM
      /\ Current(o) => jobs[o[1]].wait = 0 /\ jobs[o[1]].attempts > 0 BY <1>2, HeldOcc
<1>4. /\ Starts(past) /\ past.sent = history.sent /\ past.recorded = history.recorded
      /\ past.forgotten = history.forgotten /\ past.plans = history.plans
      /\ \A p \in Occurrences : past.lost[p] = history.lost[p] + (IF worker.accepted /\ o = p THEN 1 ELSE 0)
 BY <1>1, LostParts DEF Starts
<1>5. failOccurrence(o, retryable, past) BY <1>2
<1>6. worker' \in Worker /\ Free' /\ worker'.pc # "idle" /\ worker'.accepted = FALSE /\ ~Holding'
 BY <1>1,<1>2,<1>3, NextJobWorker, WorkerFree DEF Free
<1>7. EveryCallAccounted => \A p \in Occurrences :
         history.sent[p] = history.lost[p] + history.recorded[p] + (IF worker.accepted /\ o = p THEN 1 ELSE 0)
 BY DEF EveryCallAccounted
<1> HIDE DEF o, past
<1>8. /\ Moves(o, past) /\ DeadInv' /\ deadLetters' \in Seq(Ids)
      /\ \A x \in Ids : jobs'[x].state # "absent" => jobs'[x].occ = jobs[x].occ BY <1>1,<1>3,<1>4,<1>5, Fails
<1>9. /\ history'.recorded = past.recorded /\ history'.forgotten = past.forgotten
      /\ history'.sent = past.sent /\ history'.lost = past.lost /\ Going BY <1>8 DEF Moves, Agree
<1>10. MarkersInv'
 <2>1. \A p \in Occurrences : ~Holds(p)' BY <1>6 DEF Holds
 <2>2. \A p \in Occurrences : ~(jobs'[p[1]].state # "absent" /\ jobs'[p[1]].occ # jobs[p[1]].occ)
  BY <1>8, OccParts
 <2> QED BY <1>1,<1>2,<1>4,<1>9,<2>1,<2>2, MarkersStay
<1>11. EveryCallAccounted'
 <2>1. ASSUME NEW p \in Occurrences PROVE history'.sent[p] = history'.lost[p] + history'.recorded[p] + 0
  <3>1. history.lost[p] \in Nat /\ history.recorded[p] \in Nat /\ history.sent[p] \in Nat
   BY <1>1, TypeParts, HistoryParts
  <3> QED BY <1>1,<1>4,<1>7,<1>9,<3>1
 <2> QED BY <1>6,<2>1 DEF EveryCallAccounted
<1>12. AlarmInv' /\ alarm' \in Nat \cup {NoAlarm} BY <1>1,<1>2,<1>3,<1>6,<1>8, MovedAlarm
<1> QED BY <1>1,<1>2,<1>3,<1>4,<1>6,<1>8,<1>10,<1>11,<1>12, TypeParts, Ended

LEMMA DeliverReturnsStep ==
  ASSUME IInv, NEW delay \in Delays, DeliverReturns(delay), load' = load
  PROVE  IInv' /\ GoneForGood
<1>1. TypesInv /\ RowsInv /\ FatesInv /\ WorkerInv /\ MarkersInv /\ DeadInv /\ AlarmInv /\ EveryCallAccounted
 BY DEF IInv
<1>2. Holding /\ Apart /\ worker.accepted /\ worker.pc = "delivering" /\ deadLetters' = deadLetters
 BY DEF DeliverReturns, Holding, Apart
<1> DEFINE past == Recorded
<1>21. PICK o \in Occurrences : o = Mine BY <1>2, HeldOcc
<1>3. /\ o \in Occurrences /\ worker.processed < MAX_JOBS_PER_ALARM /\ ~Delivered(o) /\ Reached(o)
      /\ Current(o) => jobs[o[1]].wait = 0 BY <1>2,<1>21, HeldOcc
<1>4. /\ Starts(past) /\ past.sent = history.sent /\ past.lost = history.lost
      /\ past.forgotten = history.forgotten /\ past.plans = history.plans
      /\ \A p \in Occurrences : past.recorded[p] = history.recorded[p] + (IF o = p THEN 1 ELSE 0)
 BY <1>1,<1>2,<1>21, RecordedParts DEF Starts
<1>5. deliveries' = [deliveries EXCEPT ![o] = DELIVERED_TTL] BY <1>3,<1>21 DEF DeliverReturns
<1>6. \/ completeOccurrence(o, delay, past) /\ worker' = NextJob /\ alarm' = alarm
      \/ completeThrows(o, past) BY <1>21 DEF DeliverReturns
<1>7. \A p \in Occurrences :
         history.sent[p] = history.lost[p] + history.recorded[p] + (IF o = p THEN 1 ELSE 0)
 BY <1>1,<1>2,<1>21 DEF EveryCallAccounted
<1>8. delay \in Nat /\ DELIVERED_TTL \in Nat \ {0} BY LimitsAssumption
<1>9. \A p \in Occurrences : Holds(p) <=> o = p BY <1>2,<1>21 DEF Holds
<1> HIDE DEF past
<1>10. deliveries' \in [Occurrences -> Nat \cup {NoMarker}] /\ deliveries'[o] # NoMarker
       /\ \A p \in Occurrences : p # o => deliveries'[p] = deliveries[p]
 BY <1>1,<1>3,<1>5,<1>8, TypeParts DEF NoMarker
<1>11. Moves(o, past) /\ history'.died = history.died
 <2>1. CASE completeOccurrence(o, delay, past) BY <1>1,<1>3,<1>4,<1>8,<2>1, Completes
 <2>2. CASE completeThrows(o, past)
  <3>1. jobs' = jobs /\ history' = past BY <1>1,<2>2, ThrowParts
  <3>2. Moves(o, past) BY <1>1,<1>3,<1>4,<3>1, MovesNot
  <3> QED BY <1>4,<3>1,<3>2 DEF Starts
 <2> QED BY <1>6,<2>1,<2>2
<1>12. worker' \in Worker /\ Free' /\ worker'.accepted = FALSE /\ ~Holding'
 <2>1. CASE worker' = NextJob BY <1>1,<1>3,<2>1, NextJobWorker, WorkerFree DEF Free
 <2>2. CASE completeThrows(o, past) BY <1>1,<2>2, ThrowParts, IdleWorker, WorkerFree DEF Free
 <2> QED BY <1>6,<2>1,<2>2
<1>13. AlarmInv' /\ alarm' \in Nat \cup {NoAlarm}
 <2>1. CASE worker' = NextJob /\ alarm' = alarm BY <1>1,<1>3,<1>11,<2>1, MovedAlarm, NextJobWorker
 <2>2. CASE completeThrows(o, past) BY <1>1,<2>2, ThrowParts
 <2> QED BY <1>6,<2>1,<2>2
<1>14. DeadInv' /\ deadLetters' \in Seq(Ids) BY <1>1,<1>2,<1>11, DeadStay, TypeParts
<1>15. /\ history'.recorded = past.recorded /\ history'.forgotten = history.forgotten
       /\ history'.sent = history.sent /\ history'.lost = history.lost /\ Going BY <1>4,<1>11 DEF Moves, Agree
<1>16. \A p \in Occurrences : history.lost[p] \in Nat /\ history.recorded[p] \in Nat /\ history.sent[p] \in Nat
                              /\ history.forgotten[p] \in Nat BY <1>1, TypeParts, HistoryParts
<1>17. MarkersInv'
 <2>1. ASSUME NEW p \in Occurrences, p # o PROVE MarkerFine(p)'
  <3>1. MarkerFine(p) /\ (Delivered(p)' <=> Delivered(p)) /\ ~Holds(p)'
   BY <1>1,<1>10,<1>12,<2>1, MarkersFine DEF Delivered, Holds
  <3>2. history'.recorded[p] = history.recorded[p] /\ history'.forgotten[p] = history.forgotten[p]
   BY <1>4,<1>15,<1>16,<2>1
  <3>3. ~(Current(p) /\ jobs'[p[1]].occ # jobs[p[1]].occ) BY <1>3,<1>11,<2>1, OnlyItself
  <3> QED BY <1>1,<1>15,<3>1,<3>2,<3>3, MarkerStays
 <2>2. MarkerFine(o)'
  <3>1. history'.recorded[o] = history.recorded[o] + 1 /\ history'.forgotten[o] = history.forgotten[o]
   BY <1>3,<1>4,<1>15
  <3>2. history.recorded[o] <= history.forgotten[o] BY <1>1,<1>3,<1>9 DEF MarkersInv
  <3>3. Reached(o)' /\ Delivered(o)' BY <1>1,<1>3,<1>10,<1>15, Before DEF Delivered
  <3>4. history'.recorded[o] > 0 /\ history'.recorded[o] <= history'.forgotten[o] + 1 BY <1>3,<1>16,<3>1,<3>2
  <3> QED BY <3>3,<3>4 DEF MarkerFine
 <2> QED BY <2>1,<2>2, MarkersFineNext
<1>18. EveryCallAccounted'
 <2>1. ASSUME NEW p \in Occurrences PROVE history'.sent[p] = history'.lost[p] + history'.recorded[p] + 0
  BY <1>4,<1>7,<1>15,<1>16
 <2> QED BY <1>12,<2>1 DEF EveryCallAccounted
<1> QED BY <1>2,<1>3,<1>4,<1>10,<1>11,<1>12,<1>13,<1>14,<1>17,<1>18, Ended

LEMMA AlarmEndsStep ==
  ASSUME IInv, AlarmEnds, load' = load
  PROVE  IInv' /\ GoneForGood
<1>1. TypesInv /\ RowsInv /\ FatesInv /\ WorkerInv /\ MarkersInv /\ DeadInv /\ EveryCallAccounted BY DEF IInv
<1>2. /\ worker.pc = "loop" /\ worker' = Idle /\ setNextAlarm(jobs) /\ Apart /\ jobs' = jobs /\ history' = history
      /\ deliveries' = deliveries /\ deadLetters' = deadLetters BY DEF AlarmEnds, Apart
<1>3. AlarmInv' /\ alarm' \in Nat \cup {NoAlarm} BY <1>1,<1>2, Rearmed, TypeParts
<1>4. worker' \in Worker /\ Free' /\ worker'.accepted = FALSE /\ ~Holding' /\ Free
 BY <1>1,<1>2, IdleWorker, WorkerFree, LoopFree DEF Free
<1>5. MadeIds' = MadeIds BY <1>2, MadeKept
<1>6. Going BY <1>2,<1>5, SameGoes DEF Same
<1>7. MarkersInv'
 <2>1. \A p \in Occurrences : ~Holds(p)' BY <1>4 DEF Holds
 <2> QED BY <1>1,<1>2,<1>6,<2>1, MarkersStay
<1>8. RowsInv' /\ FatesInv' /\ SourcesInv' /\ DeadInv' /\ EveryCallAccounted'
 <2>1. SourcesInv BY DEF IInv
 <2> QED BY <1>1,<1>2,<1>4,<2>1, FatesStay, SourcesStay, DeadStay, CallsStay DEF RowsInv, Apart, Free
<1>9. PlansInv' /\ OnePlanPerOccurrence'
 <2>1. PlansInv /\ OnePlanPerOccurrence BY DEF IInv
 <2> QED BY <1>1,<1>2,<1>4,<1>6,<2>1, PlansStay DEF Free
<1>10. TypesInv' BY <1>1,<1>2,<1>3,<1>4, TypeParts, TypesNext DEF Apart
<1>11. WorkerInv' BY <1>4, WorkerFree
<1>12. GoneForGood BY <1>1,<1>2,<1>4,<1>8, TypeParts, StaysGone DEF Free
<1> QED BY <1>3,<1>7,<1>8,<1>9,<1>10,<1>11,<1>12 DEF IInv

LEMMA ForgottenField ==
  ASSUME NEW past \in Histories, NEW g \in [Occurrences -> Nat], NEW h, h = [past EXCEPT !.forgotten = g]
  PROVE  /\ h \in Histories /\ h.made = past.made /\ h.died = past.died /\ h.sent = past.sent /\ h.forgotten = g
         /\ h.lost = past.lost /\ h.recorded = past.recorded
         /\ h.plans = past.plans /\ h.fate = past.fate
BY DEF Histories

\* A step that leaves the rows and the record of the jobs alone.
LEMMA RowsStay ==
  ASSUME IInv, jobs' = jobs, history'.made = history.made, history'.fate = history.fate
  PROVE  RowsInv' /\ FatesInv' /\ Going
<1>1. RowsInv /\ FatesInv BY DEF IInv
<1>2. MadeIds' = MadeIds BY MadeKept
<1> QED BY <1>1,<1>2, FatesStay, SameGoes DEF RowsInv, Same

LEMMA AlarmFiresStep ==
  ASSUME IInv, AlarmFires, load' = load
  PROVE  IInv' /\ GoneForGood
<1>1. TypesInv /\ RowsInv /\ FatesInv /\ WorkerInv /\ MarkersInv /\ PlansInv /\ OnePlanPerOccurrence /\ DeadInv
      /\ EveryCallAccounted /\ SourcesInv BY DEF IInv
<1>2. /\ worker.pc = "idle" /\ alarm' = NoAlarm /\ worker' = [Idle EXCEPT !.pc = "loop"] /\ Apart /\ jobs' = jobs
      /\ deadLetters' = deadLetters
      /\ deliveries' = [o \in Occurrences |-> IF deliveries[o] = 0 THEN NoMarker ELSE deliveries[o]]
 BY DEF AlarmFires, Apart, pruneDeliveredOccurrences
<1> DEFINE g == [o \in Occurrences |-> history.forgotten[o]
                                      + (IF deliveries[o] = 0 /\ Current(o) THEN 1 ELSE 0)]
<1>3. history' = [history EXCEPT !.forgotten = g] BY DEF AlarmFires, pruneDeliveredOccurrences
<1>4. /\ deliveries \in [Occurrences -> Nat \cup {NoMarker}] /\ history \in Histories
      /\ \A o \in Occurrences : history.forgotten[o] \in Nat /\ history.recorded[o] \in Nat
 BY <1>1, TypeParts, HistoryParts
<1>5. g \in [Occurrences -> Nat] BY <1>4
<1>6. \A o \in Occurrences : g[o] = history.forgotten[o] + (IF deliveries[o] = 0 /\ Current(o) THEN 1 ELSE 0)
 OBVIOUS
<1> HIDE DEF g
<1>7. /\ history' \in Histories /\ history'.made = history.made /\ history'.died = history.died
      /\ history'.sent = history.sent /\ history'.forgotten = g /\ history'.lost = history.lost
      /\ history'.recorded = history.recorded /\ history'.plans = history.plans /\ history'.fate = history.fate
 BY <1>3,<1>4,<1>5, ForgottenField
<1>8. worker' \in Worker /\ worker'.pc = "loop" /\ worker'.accepted = FALSE BY <1>2, IdleWorker DEF Worker
<1>9. Free' /\ WorkerInv' /\ ~Holding' /\ Free BY <1>1,<1>2,<1>8, WorkerFree, LoopFree DEF Free
<1>10. RowsInv' /\ FatesInv' /\ Going BY <1>2,<1>7, RowsStay
<1>11. MarkersInv'
 <2>1. ASSUME NEW o \in Occurrences PROVE MarkerFine(o)'
  <3>1. MarkerFine(o) /\ ~Holds(o)' /\ (Current(o)' <=> Current(o))
   BY <1>1,<1>2,<1>9, MarkersFine DEF Holds, Current
  <3>2. CASE deliveries[o] = 0
   <4>1. Delivered(o) /\ ~Delivered(o)' BY <1>2,<3>2 DEF Delivered, NoMarker
   <4>2. history.recorded[o] <= history'.forgotten[o] + 1 BY <1>4,<1>6,<1>7,<3>1 DEF MarkerFine
   <4>3. Current(o) => history.recorded[o] <= history'.forgotten[o] BY <1>4,<1>6,<1>7,<3>1,<3>2 DEF MarkerFine
   <4>4. (Reached(o) => Reached(o)') BY <1>1,<1>10, Before
   <4> QED BY <1>2,<1>7,<3>1,<4>1,<4>2,<4>3,<4>4 DEF MarkerFine
  <3>3. CASE deliveries[o] # 0
   <4>1. Delivered(o)' <=> Delivered(o) BY <1>2,<3>3 DEF Delivered
   <4>2. history'.forgotten[o] = history.forgotten[o] BY <1>4,<1>6,<1>7,<3>3
   <4> QED BY <1>1,<1>2,<1>7,<1>10,<3>1,<4>1,<4>2, MarkerStays
  <3> QED BY <3>2,<3>3
 <2> QED BY <2>1, MarkersFineNext
<1>12. PlansInv' /\ OnePlanPerOccurrence' BY <1>1,<1>2,<1>7,<1>8,<1>10, PlansStay
<1>13. EveryCallAccounted' /\ SourcesInv' /\ DeadInv'
 BY <1>1,<1>2,<1>7,<1>8,<1>9, CallsStay, SourcesStay, DeadStay DEF Apart, Free
<1>14. AlarmInv' /\ alarm' \in Nat \cup {NoAlarm} BY <1>2,<1>8 DEF AlarmInv
<1>15. deliveries' \in [Occurrences -> Nat \cup {NoMarker}] BY <1>2,<1>4
<1>16. TypesInv' BY <1>1,<1>2,<1>7,<1>8,<1>14,<1>15, TypeParts, TypesNext DEF Apart
<1>17. GoneForGood BY <1>1,<1>2,<1>7,<1>8,<1>10, TypeParts, StaysGone
<1> QED BY <1>9,<1>10,<1>11,<1>12,<1>13,<1>14,<1>16,<1>17 DEF IInv

\* The row of an attempt.
Attempted(j, n) == [j EXCEPT !.state = "attempting", !.wait = 0, !.attempts = n]

LEMMA AttemptedParts ==
  ASSUME NEW j \in Job, NEW n \in Nat
  PROVE  LET r == Attempted(j, n) IN
         /\ r \in Job /\ r.state = "attempting" /\ r.wait = 0 /\ r.attempts = n /\ r.occ = j.occ /\ r.plan = j.plan
BY DEF Job, Attempted

\* The worker of an attempt.
Attempting(w, pc, id, n, plan) == [w EXCEPT !.pc = pc, !.job = id, !.occ = n, !.plan = plan]

LEMMA AttemptingParts ==
  ASSUME NEW w \in Worker, NEW pc \in {"preparing", "delivering"}, NEW id \in Ids, NEW n \in 0 .. MaxOccurrences,
         NEW plan \in Plans \cup {"none"}
  PROVE  LET v == Attempting(w, pc, id, n, plan) IN
         /\ v \in Worker /\ v.pc = pc /\ v.job = id /\ v.occ = n /\ v.plan = plan
         /\ v.accepted = w.accepted /\ v.processed = w.processed
BY DEF Worker, Attempting

LEMMA ClaimStep ==
  ASSUME IInv, NEW id \in Ids, claimOccurrence(id), load' = load
  PROVE  IInv' /\ GoneForGood
<1>1. TypesInv /\ RowsInv /\ FatesInv /\ WorkerInv /\ MarkersInv /\ PlansInv /\ OnePlanPerOccurrence /\ DeadInv
      /\ EveryCallAccounted /\ SourcesInv /\ AlarmInv BY DEF IInv
<1>2. /\ Begins(id) /\ ~Delivered(Occ(id)) /\ Apart /\ deliveries' = deliveries /\ deadLetters' = deadLetters
      /\ alarm' = alarm /\ history' = history BY DEF claimOccurrence, Apart
<1> DEFINE n == jobs[id].occ  plan == jobs[id].plan  r == Attempted(jobs[id], jobs[id].attempts + 1)
<1>3. PICK pc \in {"preparing", "delivering"} :
        pc = IF id \in PlannedIds /\ plan = "none" THEN "preparing" ELSE "delivering" OBVIOUS
<1>4. /\ Occ(id) \in Occurrences /\ Occ(id) = <<id, n>> /\ Current(Occ(id)) /\ jobs[id].wait = 0
      /\ worker.pc = "loop" /\ worker.processed < MAX_JOBS_PER_ALARM /\ Free BY <1>2, DueOcc DEF Occ
<1>5. /\ jobs[id] \in Job /\ jobs \in [Ids -> Job] /\ worker \in Worker /\ n \in 0 .. MaxOccurrences
      /\ plan \in Plans \cup {"none"} /\ jobs[id].attempts \in Nat BY <1>1, TypeParts DEF Job
<1>6. jobs' = [jobs EXCEPT ![id] = r] BY <1>5 DEF claimOccurrence, Attempted
<1>7. worker' = Attempting(worker, pc, id, n, plan) BY <1>3 DEF claimOccurrence, Attempting
<1>8. /\ r \in Job /\ r.state # "absent" /\ r.wait = 0 /\ r.attempts > 0 /\ r.occ = n /\ r.plan = plan
 <2>1. jobs[id].attempts + 1 \in Nat /\ jobs[id].attempts + 1 > 0 BY <1>5
 <2> QED BY <1>5,<2>1, AttemptedParts
<1>9. RowFine(id, jobs[id]) /\ jobs[id].state # "absent" BY <1>1,<1>4, RowsFine DEF Current
<1>10. /\ worker' \in Worker /\ worker'.pc = pc /\ worker'.job = id /\ worker'.occ = n /\ worker'.plan = plan
       /\ worker'.accepted = worker.accepted /\ worker'.processed = worker.processed BY <1>5,<1>7, AttemptingParts
<1>11. RowFine(id, r) BY <1>8,<1>9 DEF RowFine
<1>12. Mine' = Occ(id) BY <1>4,<1>10 DEF Mine
<1>13. plan = "none" /\ id \in PlannedIds => pc = "preparing" BY <1>3
<1>14. pc = "preparing" => id \in PlannedIds /\ plan = "none" BY <1>3
<1>15. plan # "none" => id \in PlannedIds BY <1>9 DEF RowFine
<1>16. jobs[id].plan = plan /\ jobs[id].occ = n OBVIOUS
<1> HIDE DEF r, n, plan
<1>17. jobs' \in [Ids -> Job] /\ RowsInv' /\ jobs'[id] = r /\ \A x \in Ids \ {id} : jobs'[x] = jobs[x]
 BY <1>1,<1>5,<1>6,<1>8,<1>11, RowChanges
<1>18. FatesInv'
 <2>1. \A x \in Ids : jobs'[x].state = "absent" <=> jobs[x].state = "absent" BY <1>8,<1>9,<1>17
 <2> QED BY <1>1,<1>2,<2>1, FatesStay
<1>19. Going
 <2>1. \A x \in Ids : Same(x) BY <1>8,<1>9,<1>16,<1>17 DEF Same
 <2> QED BY <1>2,<2>1, MadeKept, SameGoes
<1>20. WorkerInv'
 <2>1. worker'.accepted = FALSE BY <1>4,<1>10 DEF Free
 <2>2. Occ(id) \in Occurrences /\ Reached(Occ(id))' /\ ~Delivered(Occ(id))'
  <3>1. PICK o \in Occurrences : o = Occ(id) BY <1>4
  <3>2. Reached(o)' /\ ~Delivered(o)' BY <1>1,<1>2,<1>4,<1>19,<3>1, Before DEF Delivered
  <3>3. Occ(id)' = Occ(id) BY <1>8,<1>16,<1>17 DEF Occ
  <3> QED BY <1>4,<3>1,<3>2,<3>3
 <2>3. Mine' = Occ(id) /\ Mine' = Occ(id)' BY <1>8,<1>12,<1>16,<1>17 DEF Occ
 <2>4. Mine' \in Occurrences /\ Reached(Mine)' /\ ~Delivered(Mine)' BY <2>2,<2>3
 <2>5. worker'.processed < MAX_JOBS_PER_ALARM BY <1>4,<1>10
 <2>6. jobs'[worker'.job].wait = 0 /\ jobs'[worker'.job].attempts > 0 /\ jobs'[worker'.job].plan = plan
  BY <1>8,<1>10,<1>17
 <2>7. worker'.pc = "preparing" => worker'.job \in PlannedIds /\ jobs'[worker'.job].plan = "none"
  BY <1>10,<1>14,<2>6
 <2>8. worker'.pc = "delivering" => /\ worker'.plan = "none" <=> worker'.job \notin PlannedIds
                                    /\ worker'.plan = jobs'[worker'.job].plan BY <1>10,<1>13,<1>15,<2>6
 <2> QED BY <2>1,<2>4,<2>5,<2>6,<2>7,<2>8 DEF WorkerInv
<1>21. MarkersInv'
 <2>1. \A p \in Occurrences : Holds(p)' => Current(p) BY <1>4,<1>12 DEF Holds
 <2>2. \A p \in Occurrences : ~(jobs'[p[1]].state # "absent" /\ jobs'[p[1]].occ # jobs[p[1]].occ)
  BY <1>8,<1>16,<1>17, OccParts
 <2> QED BY <1>1,<1>2,<1>19,<2>1,<2>2, MarkersStay
<1>22. PlansInv' /\ OnePlanPerOccurrence'
 <2>1. Current(Mine') /\ worker'.plan = jobs[Mine'[1]].plan BY <1>4,<1>10,<1>12,<1>16
 <2>2. \A x \in Ids : jobs'[x].plan = jobs[x].plan BY <1>8,<1>16,<1>17
 <2> QED BY <1>1,<1>2,<1>19,<2>1,<2>2, PlansStay
<1>23. EveryCallAccounted' /\ SourcesInv' /\ DeadInv'
 BY <1>1,<1>2,<1>4,<1>10, CallsStay, SourcesStay, DeadStay DEF Apart, Free
<1>24. AlarmInv' /\ alarm' \in Nat \cup {NoAlarm}
 <2>1. worker'.pc # "idle" BY <1>10
 <2>2. \A x \in Ids : jobs'[x].wait \in Nat /\ (jobs'[x].wait = jobs[x].wait \/ jobs[x].wait = 0)
  BY <1>4,<1>17 DEF Job
 <2>3. \A x \in Ids : jobs'[x].state # "absent" => jobs[x].state # "absent" BY <1>9,<1>17
 <2> QED BY <1>1,<1>2,<2>1,<2>2,<2>3, AlarmStays, TypeParts
<1>25. TypesInv' BY <1>1,<1>2,<1>10,<1>17,<1>24, TypeParts, TypesNext DEF Apart
<1>26. GoneForGood BY <1>1,<1>2,<1>9,<1>10,<1>17, StaysGone
<1> QED BY <1>17,<1>18,<1>20,<1>21,<1>22,<1>23,<1>24,<1>25,<1>26 DEF IInv

\* The row and the worker of an attempt whose plan is settled.
Planned(j, plan) == [j EXCEPT !.plan = plan]
Delivering(w, plan) == [w EXCEPT !.pc = "delivering", !.plan = plan]

LEMMA PlannedParts ==
  ASSUME NEW j \in Job, NEW plan \in Plans
  PROVE  LET r == Planned(j, plan) IN
         r \in Job /\ r.state = j.state /\ r.occ = j.occ /\ r.wait = j.wait /\ r.attempts = j.attempts /\ r.plan = plan
BY DEF Job, Planned

LEMMA DeliveringParts ==
  ASSUME NEW w \in Worker, NEW plan \in Plans
  PROVE  LET v == Delivering(w, plan) IN
         /\ v \in Worker /\ v.pc = "delivering" /\ v.plan = plan
         /\ v.job = w.job /\ v.occ = w.occ /\ v.accepted = w.accepted /\ v.processed = w.processed
BY DEF Worker, Delivering

\* The plan is stored, and becomes that of the occurrence.
LEMMA PlanStored ==
  ASSUME IInv, NEW plan \in load.plans, persistOccurrencePlan(plan), Current(Mine), load' = load
  PROVE  IInv' /\ GoneForGood
<1>1. TypesInv /\ RowsInv /\ FatesInv /\ WorkerInv /\ MarkersInv /\ PlansInv /\ OnePlanPerOccurrence /\ DeadInv
      /\ EveryCallAccounted /\ SourcesInv /\ AlarmInv BY DEF IInv
<1>2. /\ worker.pc = "preparing" /\ Holding /\ Apart /\ deliveries' = deliveries /\ deadLetters' = deadLetters
      /\ alarm' = alarm /\ history' = history BY DEF persistOccurrencePlan, Apart, Holding
<1> DEFINE id == worker.job  r == Planned(jobs[id], plan)
<1>3. PICK o \in Occurrences : o = Mine /\ o[1] = id BY <1>2, HeldOcc
<1>4. /\ id \in Ids /\ Current(o) /\ Reached(o) /\ ~Delivered(o) /\ worker.processed < MAX_JOBS_PER_ALARM
      /\ jobs[id].wait = 0 /\ jobs[id].attempts > 0 /\ o[2] = worker.occ BY <1>2,<1>3, HeldOcc, OccParts DEF Mine
<1>5. id \in PlannedIds /\ jobs[id].plan = "none" BY <1>1,<1>2 DEF WorkerInv
<1>6. plan \in Plans /\ plan # "none" /\ jobs \in [Ids -> Job] /\ jobs[id] \in Job /\ worker \in Worker
 BY <1>1,<1>4, TypeParts, LoadParts, Names
<1>7. jobs' = [jobs EXCEPT ![id] = r] BY <1>3,<1>5,<1>6 DEF persistOccurrencePlan, Planned
<1>8. r \in Job /\ r.state = jobs[id].state /\ r.occ = jobs[id].occ /\ r.wait = jobs[id].wait
      /\ r.attempts = jobs[id].attempts /\ r.plan = plan BY <1>6, PlannedParts
<1>9. RowFine(id, jobs[id]) /\ jobs[id].state # "absent" BY <1>1,<1>3,<1>4, RowsFine DEF Current
<1>10. worker' = [worker EXCEPT !.pc = "delivering", !.plan = jobs'[id].plan] BY <1>2 DEF persistOccurrencePlan
<1> HIDE DEF r
<1>11. RowFine(id, r) BY <1>5,<1>8,<1>9 DEF RowFine
<1>12. worker.accepted = FALSE BY <1>1,<1>2, TypeParts DEF WorkerInv, Worker
<1>13. PICK x0 \in Ids : x0 = id BY <1>4
<1>14. jobs' \in [Ids -> Job] /\ RowsInv' /\ jobs'[x0] = r /\ \A x \in Ids \ {x0} : jobs'[x] = jobs[x]
 BY <1>1,<1>6,<1>7,<1>8,<1>11,<1>13, RowChanges
<1>15. worker' = Delivering(worker, plan) BY <1>8,<1>10,<1>13,<1>14 DEF Delivering
<1>16. /\ worker' \in Worker /\ worker'.pc = "delivering" /\ worker'.job = x0 /\ worker'.occ = worker.occ
       /\ worker'.plan = plan /\ worker'.accepted = FALSE /\ worker'.processed = worker.processed
 BY <1>6,<1>12,<1>13,<1>15, DeliveringParts
<1>17. Mine' = o BY <1>3,<1>13,<1>16 DEF Mine
<1>18. FatesInv'
 <2>1. \A x \in Ids : jobs'[x].state = "absent" <=> jobs[x].state = "absent" BY <1>8,<1>13,<1>14
 <2> QED BY <1>1,<1>2,<2>1, FatesStay
<1>19. Going
 <2>1. \A x \in Ids : Same(x) BY <1>8,<1>13,<1>14 DEF Same
 <2> QED BY <1>2,<2>1, MadeKept, SameGoes
<1>20. WorkerInv'
 <2>1. Reached(o)' /\ ~Delivered(o)' BY <1>1,<1>2,<1>4,<1>19, Before DEF Delivered
 <2>2. Mine' \in Occurrences /\ Reached(Mine)' /\ ~Delivered(Mine)' BY <1>17,<2>1
 <2>3. /\ jobs'[worker'.job].wait = 0 /\ jobs'[worker'.job].attempts > 0 /\ jobs'[worker'.job].plan = plan
       /\ worker'.job \in PlannedIds BY <1>4,<1>5,<1>8,<1>13,<1>14,<1>16
 <2> QED BY <1>4,<1>6,<1>16,<2>2,<2>3 DEF WorkerInv
<1>21. MarkersInv'
 <2>1. \A p \in Occurrences : Holds(p)' => Current(p) BY <1>4,<1>17 DEF Holds
 <2>2. \A p \in Occurrences : ~(jobs'[p[1]].state # "absent" /\ jobs'[p[1]].occ # jobs[p[1]].occ)
  BY <1>8,<1>13,<1>14, OccParts
 <2> QED BY <1>1,<1>2,<1>19,<2>1,<2>2, MarkersStay
<1>22. PlansInv'
 <2>1. ASSUME NEW p \in history.plans
       PROVE  /\ Reached(p[1])' /\ (p[2] = "none" <=> p[1][1] \notin PlannedIds)
              /\ Current(p[1])' => p[2] = jobs'[p[1][1]].plan
              /\ worker'.pc = "delivering" /\ Mine' = p[1] => worker'.plan = p[2]
  <3> DEFINE q == p[1]
  <3>1. q \in Occurrences /\ q[1] \in Ids /\ q = <<q[1], q[2]>> BY <1>1, PlanParts, OccParts
  <3>2. /\ Reached(q) /\ (p[2] = "none" <=> q[1] \notin PlannedIds)
        /\ Current(q) => p[2] = jobs[q[1]].plan BY <1>1 DEF PlansInv
  <3> HIDE DEF q
  <3>3. q # o BY <1>3,<1>4,<1>5,<3>2
  <3>4. Reached(q)' /\ (Current(q)' => Current(q)) BY <1>1,<1>19,<3>1,<3>2, Before
  <3>5. Current(q) => q[1] # x0 BY <1>3,<1>4,<1>13,<3>1,<3>3, OccParts DEF Current
  <3>6. Current(q)' => p[2] = jobs'[q[1]].plan BY <1>14,<3>1,<3>2,<3>4,<3>5
  <3> QED BY <1>17,<3>2,<3>3,<3>4,<3>6 DEF q
 <2> QED BY <1>2,<2>1 DEF PlansInv
<1>23. OnePlanPerOccurrence' /\ SourcesInv' /\ DeadInv' /\ EveryCallAccounted'
 BY <1>1,<1>2,<1>12,<1>16, CallsStay, SourcesStay, DeadStay DEF Apart, OnePlanPerOccurrence
<1>24. AlarmInv' /\ alarm' \in Nat \cup {NoAlarm}
 <2>1. worker'.pc # "idle" BY <1>16
 <2>2. \A x \in Ids : jobs'[x].wait \in Nat /\ (jobs'[x].wait = jobs[x].wait \/ jobs[x].wait = 0)
  BY <1>8,<1>13,<1>14 DEF Job
 <2>3. \A x \in Ids : jobs'[x].state # "absent" => jobs[x].state # "absent" BY <1>8,<1>13,<1>14
 <2> QED BY <1>1,<1>2,<2>1,<2>2,<2>3, AlarmStays, TypeParts
<1>25. TypesInv' BY <1>1,<1>2,<1>14,<1>16,<1>24, TypeParts, TypesNext DEF Apart
<1>26. GoneForGood
 <2>1. jobs[worker'.job].state # "absent" BY <1>9,<1>13,<1>16
 <2>2. \A x \in Ids : jobs'[x].state # "absent" => jobs[x].state # "absent" BY <1>8,<1>13,<1>14
 <2> QED BY <1>1,<1>2,<1>14,<2>1,<2>2, StaysGone
<1> QED BY <1>14,<1>18,<1>20,<1>21,<1>22,<1>23,<1>24,<1>25,<1>26 DEF IInv

LEMMA PersistStep ==
  ASSUME IInv, NEW plan \in load.plans, persistOccurrencePlan(plan), load' = load
  PROVE  IInv' /\ GoneForGood
<1>1. CASE Current(Mine) BY <1>1, PlanStored
<1>2. CASE ~Current(Mine)
 <2>1. TypesInv /\ RowsInv /\ FatesInv /\ WorkerInv /\ MarkersInv /\ DeadInv /\ AlarmInv /\ EveryCallAccounted
  BY DEF IInv
 <2>2. /\ worker.pc = "preparing" /\ Holding /\ Apart /\ deliveries' = deliveries /\ deadLetters' = deadLetters
       /\ alarm' = alarm /\ history' = history /\ jobs' = jobs /\ worker' = NextJob
  BY <1>2 DEF persistOccurrencePlan, Apart, Holding
 <2>3. PICK o \in Occurrences : o = Mine BY <2>2, HeldOcc
 <2>4. worker.processed < MAX_JOBS_PER_ALARM /\ ~Current(o) BY <1>2,<2>2,<2>3, HeldOcc
 <2>5. Starts(history) BY <2>1, TypeParts DEF Starts
 <2>6. Moves(o, history) BY <2>1,<2>2,<2>5, MovesNot
 <2>7. worker' \in Worker /\ Free' /\ worker'.pc # "idle" /\ worker'.accepted = FALSE /\ ~Holding'
  BY <2>1,<2>2,<2>4, NextJobWorker, WorkerFree DEF Free
 <2>8. MarkersInv'
  <3>1. \A p \in Occurrences : ~Holds(p)' BY <2>7 DEF Holds
  <3>2. Going BY <2>6 DEF Moves
  <3> QED BY <2>1,<2>2,<3>1,<3>2, MarkersStay
 <2>9. worker.accepted = FALSE BY <2>1,<2>2, TypeParts DEF WorkerInv, Worker
 <2>10. EveryCallAccounted' /\ DeadInv' BY <2>1,<2>2,<2>7,<2>9, CallsStay, DeadStay
 <2>11. AlarmInv' /\ alarm' \in Nat \cup {NoAlarm} BY <2>1,<2>2,<2>4,<2>6,<2>7, MovedAlarm
 <2> QED BY <2>1,<2>2,<2>5,<2>6,<2>7,<2>8,<2>10,<2>11, TypeParts, Ended
<1> QED BY <1>1,<1>2

\* What alarm() holds, when a step leaves its row, its marker and itself alone.
LEMMA WorkerStays ==
  ASSUME TypesInv, FatesInv, WorkerInv, Going,
         worker'.pc = worker.pc, worker'.job = worker.job, worker'.occ = worker.occ, worker'.plan = worker.plan,
         worker'.processed = worker.processed, worker'.accepted => worker'.pc = "delivering",
         \A o \in Occurrences : Delivered(o)' => Delivered(o),
         \A x \in Ids : jobs'[x].state # "absent" /\ jobs[x].state # "absent" /\ jobs'[x].occ = jobs[x].occ =>
           /\ jobs'[x].plan = jobs[x].plan /\ jobs'[x].attempts = jobs[x].attempts
           /\ jobs[x].wait = 0 => jobs'[x].wait = 0
  PROVE  WorkerInv'
<1>1. Mine' = Mine /\ (Holding' <=> Holding) BY DEF Mine, Holding
<1>2. CASE ~Holding
 <2>1. ~worker'.accepted BY <1>2 DEF Holding
 <2> QED BY <1>1,<1>2,<2>1 DEF WorkerInv
<1>3. CASE Holding
 <2>1. /\ Mine \in Occurrences /\ Reached(Mine) /\ ~Delivered(Mine)
       /\ worker.processed < MAX_JOBS_PER_ALARM
       /\ Current(Mine) => jobs[worker.job].wait = 0 /\ jobs[worker.job].attempts > 0
       /\ worker.pc = "preparing" => /\ worker.job \in PlannedIds
                                     /\ Current(Mine) => jobs[worker.job].plan = "none"
       /\ worker.pc = "delivering" => /\ worker.plan = "none" <=> worker.job \notin PlannedIds
                                      /\ Current(Mine) => worker.plan = jobs[worker.job].plan
  BY <1>3 DEF WorkerInv
 <2>2. PICK o \in Occurrences : o = Mine BY <2>1
 <2>3. o[1] = worker.job /\ o[1] \in Ids BY <2>2, OccParts DEF Mine
 <2>4. Reached(o)' /\ ~Delivered(o)' BY <2>1,<2>2, Before
 <2>5. Current(o)' => Current(o) /\ jobs'[o[1]].occ = jobs[o[1]].occ BY <2>1,<2>2, Before
 <2>6. Current(o)' => /\ Current(o)
                      /\ jobs'[o[1]].plan = jobs[o[1]].plan /\ jobs'[o[1]].attempts = jobs[o[1]].attempts
                      /\ jobs'[o[1]].wait = 0 BY <2>1,<2>2,<2>3,<2>5 DEF Current
 <2>7. Mine' \in Occurrences /\ Reached(Mine)' /\ ~Delivered(Mine)' BY <1>1,<2>2,<2>4
 <2>8. Current(Mine)' => Current(o)' BY <1>1,<2>2
 <2>9. Current(Mine)' => /\ Current(Mine) /\ jobs'[worker.job].plan = jobs[worker.job].plan
                         /\ jobs'[worker.job].attempts > 0 /\ jobs'[worker.job].wait = 0
  BY <2>1,<2>2,<2>3,<2>6,<2>8
 <2> QED BY <2>1,<2>7,<2>9 DEF WorkerInv
<1> QED BY <1>2,<1>3

Accepted(past, g, plans) == [past EXCEPT !.sent = g, !.plans = plans]

LEMMA AcceptedParts ==
  ASSUME NEW past \in Histories, NEW g \in [Occurrences -> Nat],
         NEW plans \in SUBSET (Occurrences \X (Plans \cup {"none"}))
  PROVE  LET h == Accepted(past, g, plans) IN
         /\ h \in Histories /\ h.made = past.made /\ h.died = past.died /\ h.sent = g /\ h.plans = plans
         /\ h.lost = past.lost /\ h.recorded = past.recorded /\ h.forgotten = past.forgotten
         /\ h.fate = past.fate
BY DEF Histories, Accepted

LEMMA AcceptedWorker ==
  ASSUME NEW w \in Worker
  PROVE  LET v == [w EXCEPT !.accepted = TRUE] IN
         /\ v \in Worker /\ v.accepted /\ v.pc = w.pc /\ v.job = w.job /\ v.occ = w.occ /\ v.plan = w.plan
         /\ v.processed = w.processed
BY DEF Worker

LEMMA PlatformAcceptsStep ==
  ASSUME IInv, PlatformAccepts, load' = load
  PROVE  IInv' /\ GoneForGood
<1>1. TypesInv /\ RowsInv /\ FatesInv /\ WorkerInv /\ MarkersInv /\ PlansInv /\ OnePlanPerOccurrence /\ DeadInv
      /\ EveryCallAccounted /\ SourcesInv /\ AlarmInv BY DEF IInv
<1>2. /\ worker.pc = "delivering" /\ Holding /\ ~worker.accepted /\ worker' = [worker EXCEPT !.accepted = TRUE] /\ Apart
      /\ jobs' = jobs /\ deliveries' = deliveries /\ deadLetters' = deadLetters /\ alarm' = alarm
 BY DEF PlatformAccepts, Apart, Holding
<1>3. PICK o \in Occurrences : o = Mine BY <1>2, HeldOcc
<1>4. /\ Reached(o) /\ o[1] = worker.job
      /\ worker.plan = "none" <=> o[1] \notin PlannedIds
      /\ Current(o) => worker.plan = jobs[o[1]].plan BY <1>1,<1>2,<1>3, HeldOcc DEF WorkerInv
<1>5. worker \in Worker /\ worker.plan \in Plans \cup {"none"} /\ history \in Histories
      /\ history.sent \in [Occurrences -> Nat] BY <1>1, TypeParts, HistoryParts DEF Worker
<1> DEFINE g == [history.sent EXCEPT ![o] = history.sent[o] + 1]  call == <<o, worker.plan>>
           plans == history.plans \cup {call}
<1>6. g \in [Occurrences -> Nat] /\ \A p \in Occurrences : g[p] = history.sent[p] + (IF o = p THEN 1 ELSE 0)
 BY <1>5, Counted
<1>7. plans \in SUBSET (Occurrences \X (Plans \cup {"none"})) BY <1>1,<1>5, TypeParts, HistoryParts
<1>8. history' = Accepted(history, g, plans) BY <1>3,<1>5 DEF PlatformAccepts, Accepted
<1> HIDE DEF g
<1>9. /\ history' \in Histories /\ history'.made = history.made /\ history'.died = history.died /\ history'.sent = g
      /\ history'.plans = plans /\ history'.lost = history.lost /\ history'.recorded = history.recorded
      /\ history'.forgotten = history.forgotten /\ history'.fate = history.fate
 <2> HIDE DEF plans
 <2> QED BY <1>5,<1>6,<1>7,<1>8, AcceptedParts
<1>10. /\ worker' \in Worker /\ worker'.accepted /\ worker'.pc = worker.pc /\ worker'.job = worker.job
       /\ worker'.occ = worker.occ /\ worker'.plan = worker.plan /\ worker'.processed = worker.processed
 BY <1>2,<1>5, AcceptedWorker
<1>11. Mine' = o /\ Mine' = Mine BY <1>3,<1>10 DEF Mine
<1>12. RowsInv' /\ FatesInv' /\ Going BY <1>2,<1>9, RowsStay
<1>13. WorkerInv'
 <2>1. \A p \in Occurrences : Delivered(p)' => Delivered(p) BY <1>2 DEF Delivered
 <2> QED BY <1>1,<1>2,<1>10,<1>12,<2>1, WorkerStays
<1>14. MarkersInv'
 <2>1. \A p \in Occurrences : Holds(p)' => Holds(p) BY <1>2,<1>11 DEF Holds
 <2> QED BY <1>1,<1>2,<1>9,<1>12,<2>1, MarkersStay
<1>15. PlansInv'
 <2>1. ASSUME NEW p \in plans
       PROVE  /\ Reached(p[1])' /\ (p[2] = "none" <=> p[1][1] \notin PlannedIds)
              /\ Current(p[1])' => p[2] = jobs'[p[1][1]].plan
              /\ worker'.pc = "delivering" /\ Mine' = p[1] => worker'.plan = p[2]
  <3>1. CASE p \in history.plans
   <4>1. p[1] \in Occurrences BY <1>1,<3>1, PlanParts
   <4>2. PICK q \in Occurrences : q = p[1] BY <4>1
   <4>3. /\ Reached(q) /\ (p[2] = "none" <=> p[1][1] \notin PlannedIds)
         /\ Current(q) => p[2] = jobs[q[1]].plan
         /\ Mine = q => worker.plan = p[2] BY <1>1,<1>2,<3>1,<4>2 DEF PlansInv
   <4>4. Reached(q)' /\ (Current(q)' => Current(q)) BY <1>1,<1>12,<4>3, Before
   <4> QED BY <1>2,<1>10,<1>11,<4>2,<4>3,<4>4
  <3>2. CASE p = call
   <4>1. p[1] = o /\ p[2] = worker.plan BY <3>2
   <4>2. Reached(o)' /\ (Current(o)' => Current(o)) BY <1>1,<1>4,<1>12, Before
   <4> QED BY <1>2,<1>4,<1>10,<4>1,<4>2
  <3> QED BY <3>1,<3>2
 <2> QED BY <1>9,<2>1 DEF PlansInv
<1>16. OnePlanPerOccurrence'
 <2>1. ASSUME NEW p \in history.plans, p[1] = o PROVE p = call BY <1>1,<1>2,<1>3,<2>1, PlanParts DEF PlansInv
 <2>2. call[1] = o OBVIOUS
 <2>3. \A p, q \in plans : p[1] = q[1] => p = q BY <1>1,<2>1,<2>2 DEF OnePlanPerOccurrence
 <2> QED BY <1>9,<2>3 DEF OnePlanPerOccurrence
<1>17. EveryCallAccounted'
 <2>1. ASSUME NEW p \in Occurrences
       PROVE  history'.sent[p] = history'.lost[p] + history'.recorded[p] + (IF o = p THEN 1 ELSE 0)
  <3>1. history.lost[p] \in Nat /\ history.recorded[p] \in Nat BY <1>1, TypeParts, HistoryParts
  <3>2. history.sent[p] = history.lost[p] + history.recorded[p] + 0 BY <1>1,<1>2 DEF EveryCallAccounted
  <3> QED BY <1>6,<1>9,<3>1,<3>2
 <2> QED BY <1>10,<1>11,<2>1 DEF EveryCallAccounted
<1>18. SourcesInv' /\ DeadInv' BY <1>1,<1>2,<1>9, SourcesStay, DeadStay DEF Apart
<1>19. AlarmInv' /\ alarm' \in Nat \cup {NoAlarm} BY <1>1,<1>2,<1>10, TypeParts DEF AlarmInv
<1>20. TypesInv' BY <1>1,<1>2,<1>9,<1>10,<1>19, TypeParts, TypesNext DEF Apart
<1>21. GoneForGood BY <1>1,<1>2,<1>9,<1>12, TypeParts, StaysGone
<1> QED BY <1>12,<1>13,<1>14,<1>15,<1>16,<1>17,<1>18,<1>19,<1>20,<1>21 DEF IInv

-----------------------------------------------------------------------------
(* Evictions and time                                                        *)

LEMMA CrashStep ==
  ASSUME IInv, Crash, load' = load
  PROVE  IInv' /\ GoneForGood
<1>1. TypesInv /\ RowsInv /\ FatesInv /\ WorkerInv /\ MarkersInv /\ PlansInv /\ OnePlanPerOccurrence /\ DeadInv
      /\ EveryCallAccounted /\ SourcesInv /\ AlarmInv BY DEF IInv
<1>2. /\ worker' = Idle /\ history' = Lost /\ Apart /\ jobs' = jobs /\ deliveries' = deliveries
      /\ deadLetters' = deadLetters /\ alarm' = IF alarm = NoAlarm THEN 0 ELSE alarm BY DEF Crash, Apart
<1>3. /\ history' \in Histories /\ history'.made = history.made /\ history'.died = history.died
      /\ history'.sent = history.sent /\ history'.recorded = history.recorded
      /\ history'.forgotten = history.forgotten /\ history'.plans = history.plans /\ history'.fate = history.fate
      /\ \A o \in Occurrences :
           history'.lost[o] = history.lost[o] + (IF worker.accepted /\ Mine = o THEN 1 ELSE 0)
 BY <1>1,<1>2, LostParts
<1>4. worker' \in Worker /\ Free' /\ worker'.pc = "idle" /\ worker'.accepted = FALSE /\ ~Holding' /\ WorkerInv'
 BY <1>2, IdleWorker, WorkerFree DEF Free
<1>5. RowsInv' /\ FatesInv' /\ Going BY <1>2,<1>3, RowsStay
<1>6. MarkersInv'
 <2>1. \A p \in Occurrences : ~Holds(p)' BY <1>4 DEF Holds
 <2> QED BY <1>1,<1>2,<1>3,<1>5,<2>1, MarkersStay
<1>7. PlansInv' /\ OnePlanPerOccurrence' BY <1>1,<1>2,<1>3,<1>4,<1>5, PlansStay
<1>8. EveryCallAccounted'
 <2>1. ASSUME NEW p \in Occurrences PROVE history'.sent[p] = history'.lost[p] + history'.recorded[p] + 0
  <3>1. history.lost[p] \in Nat /\ history.recorded[p] \in Nat /\ history.sent[p] \in Nat
   BY <1>1, TypeParts, HistoryParts
  <3>2. history.sent[p] = history.lost[p] + history.recorded[p] + (IF worker.accepted /\ Mine = p THEN 1 ELSE 0)
   BY <1>1 DEF EveryCallAccounted
  <3> QED BY <1>3,<3>1,<3>2
 <2> QED BY <1>4,<2>1 DEF EveryCallAccounted
<1>9. SourcesInv' /\ DeadInv' BY <1>1,<1>2,<1>3, SourcesStay, DeadStay DEF Apart
<1>10. AlarmInv' /\ alarm' \in Nat \cup {NoAlarm}
 <2>1. alarm' # NoAlarm /\ alarm' \in Nat \cup {NoAlarm} BY <1>1,<1>2, TypeParts DEF NoAlarm
 <2>2. Scheduled(jobs) = Scheduled(jobs)' /\ \A x \in Scheduled(jobs) : jobs'[x] = jobs[x] /\ jobs[x].wait \in Nat
  BY <1>1,<1>2, TypeParts DEF Scheduled
 <2>3. \A x \in Scheduled(jobs) : alarm' <= jobs[x].wait BY <1>1,<1>2,<2>2 DEF AlarmInv
 <2> QED BY <2>1,<2>2,<2>3 DEF AlarmInv
<1>11. TypesInv' BY <1>1,<1>2,<1>3,<1>4,<1>10, TypeParts, TypesNext DEF Apart
<1>12. GoneForGood BY <1>1,<1>2,<1>3,<1>4,<1>5, TypeParts, StaysGone
<1> QED BY <1>4,<1>5,<1>6,<1>7,<1>8,<1>9,<1>10,<1>11,<1>12 DEF IInv

LEMMA Downs ==
  ASSUME NEW n \in Nat \cup {-1}
  PROVE  /\ Down(n) \in Nat \cup {-1} /\ (Down(n) = -1 <=> n = -1) /\ Down(n) <= n
         /\ \A m \in Nat : n <= m => Down(n) <= Down(m)
BY DEF Down

LEMMA TickStep ==
  ASSUME IInv, Tick, load' = load
  PROVE  IInv' /\ GoneForGood
<1>1. TypesInv /\ RowsInv /\ FatesInv /\ WorkerInv /\ MarkersInv /\ PlansInv /\ OnePlanPerOccurrence /\ DeadInv
      /\ EveryCallAccounted /\ SourcesInv /\ AlarmInv BY DEF IInv
<1>2. /\ worker' = worker /\ history' = history /\ Apart /\ deadLetters' = deadLetters
      /\ alarm' = Down(alarm) /\ deliveries' = [o \in Occurrences |-> Down(deliveries[o])]
      /\ jobs' = [id \in Ids |-> [jobs[id] EXCEPT !.wait = Down(jobs[id].wait)]] BY DEF Tick, Apart
<1>3. \A x \in Ids : jobs[x] \in Job /\ jobs[x].wait \in Nat BY <1>1, TypeParts
<1>4. ASSUME NEW x \in Ids
      PROVE  /\ jobs'[x] \in Job /\ jobs'[x].state = jobs[x].state /\ jobs'[x].occ = jobs[x].occ
             /\ jobs'[x].plan = jobs[x].plan /\ jobs'[x].attempts = jobs[x].attempts
             /\ jobs'[x].wait = Down(jobs[x].wait) /\ (jobs[x].wait = 0 => jobs'[x] = jobs[x])
 <2>1. jobs'[x] = [jobs[x] EXCEPT !.wait = Down(jobs[x].wait)] BY <1>2
 <2>2. Down(jobs[x].wait) \in Nat /\ (jobs[x].wait = 0 => Down(jobs[x].wait) = jobs[x].wait) BY <1>3 DEF Down
 <2> DEFINE j == jobs[x]  w == Down(jobs[x].wait)
 <2>3. j \in Job /\ w \in Nat /\ jobs'[x] = [j EXCEPT !.wait = w] /\ (j.wait = 0 => w = j.wait) BY <1>3,<2>1,<2>2
 <2> HIDE DEF j, w
 <2>4. /\ jobs'[x] \in Job /\ jobs'[x].state = j.state /\ jobs'[x].occ = j.occ
       /\ jobs'[x].plan = j.plan /\ jobs'[x].attempts = j.attempts
       /\ jobs'[x].wait = w /\ (j.wait = w => jobs'[x] = j) BY <2>3 DEF Job
 <2> QED BY <2>3,<2>4 DEF j, w
<1>5. jobs' \in [Ids -> Job] BY <1>2,<1>4
<1>6. MadeIds' = MadeIds BY <1>2, MadeKept
<1>7. Going BY <1>4,<1>6, SameGoes DEF Same
<1>8. RowsInv'
 <2>1. ASSUME NEW x \in Ids PROVE jobs[x].state = "absent" => jobs'[x] = NoJob
  <3>1. jobs[x].state = "absent" => jobs[x] = NoJob /\ jobs[x].wait = 0 BY <1>1 DEF RowsInv, NoJob
  <3> QED BY <1>4,<3>1
 <2> QED BY <1>1,<1>4,<2>1 DEF RowsInv
<1>9. FatesInv' BY <1>1,<1>2,<1>4, FatesStay
<1>10. deliveries' \in [Occurrences -> Nat \cup {NoMarker}] /\ \A o \in Occurrences : Delivered(o)' <=> Delivered(o)
 <2>1. \A o \in Occurrences : deliveries[o] \in Nat \cup {-1} /\ deliveries'[o] = Down(deliveries[o])
  BY <1>1,<1>2, TypeParts DEF NoMarker
 <2>2. \A o \in Occurrences : deliveries'[o] \in Nat \cup {-1} /\ (deliveries'[o] = -1 <=> deliveries[o] = -1)
  BY <2>1, Downs
 <2> QED BY <1>2,<2>2 DEF NoMarker, Delivered
<1>11. WorkerInv'
 <2>1. worker'.accepted => worker'.pc = "delivering" BY <1>1,<1>2 DEF WorkerInv
 <2> QED BY <1>1,<1>2,<1>4,<1>7,<1>10,<2>1, WorkerStays
<1>12. MarkersInv'
 <2>1. ASSUME NEW o \in Occurrences PROVE MarkerFine(o)'
  <3>1. MarkerFine(o) /\ (Holds(o)' => Holds(o)) BY <1>1,<1>2, MarkersFine DEF Holds, Holding, Mine
  <3>2. jobs'[o[1]].occ = jobs[o[1]].occ BY <1>4, OccParts
  <3> QED BY <1>1,<1>2,<1>7,<1>10,<3>1,<3>2, MarkerStays
 <2> QED BY <2>1, MarkersFineNext
<1>13. PlansInv' /\ OnePlanPerOccurrence'
 <2>1. Mine' = Mine /\ worker'.plan = worker.plan /\ worker'.pc = worker.pc BY <1>2 DEF Mine
 <2> QED BY <1>1,<1>2,<1>4,<1>7,<2>1, PlansStay
<1>14. EveryCallAccounted' /\ SourcesInv' /\ DeadInv'
 BY <1>1,<1>2, CallsStay, SourcesStay, DeadStay DEF Apart, Mine
<1>15. AlarmInv' /\ alarm' \in Nat \cup {NoAlarm}
 <2>1. alarm \in Nat \cup {-1} /\ alarm' \in Nat \cup {-1} /\ (alarm' = -1 <=> alarm = -1)
  BY <1>1,<1>2, TypeParts, Downs DEF NoAlarm
 <2>2. Scheduled(jobs)' = Scheduled(jobs) /\ Scheduled(jobs) \subseteq Ids BY <1>4 DEF Scheduled
 <2>3. \A x \in Scheduled(jobs) : alarm # -1 => alarm' <= jobs'[x].wait
  <3>1. \A x \in Scheduled(jobs) : alarm # -1 => alarm <= jobs[x].wait BY <1>1 DEF AlarmInv, NoAlarm
  <3> QED BY <1>2,<1>3,<1>4,<2>1,<2>2,<3>1, Downs
 <2> QED BY <1>1,<1>2,<2>1,<2>2,<2>3 DEF AlarmInv, NoAlarm
<1>16. TypesInv' BY <1>1,<1>2,<1>5,<1>10,<1>15, TypeParts, TypesNext DEF Apart
<1>17. GoneForGood BY <1>1,<1>2,<1>4,<1>5,<1>8, StaysGone
<1> QED BY <1>8,<1>9,<1>11,<1>12,<1>13,<1>14,<1>15,<1>16,<1>17 DEF IInv

-----------------------------------------------------------------------------
(* Requests                                                                  *)

LEMMA ScheduleReplayStep ==
  ASSUME IInv, NEW src, ScheduleReplay(src), load' = load
  PROVE  IInv' /\ GoneForGood
<1>1. TypesInv /\ RowsInv /\ FatesInv /\ WorkerInv /\ MarkersInv /\ PlansInv /\ OnePlanPerOccurrence /\ DeadInv
      /\ EveryCallAccounted /\ SourcesInv BY DEF IInv
<1>2. /\ worker' = worker /\ history' = history /\ Apart /\ deadLetters' = deadLetters /\ deliveries' = deliveries
      /\ jobs' = jobs /\ setNextAlarm(jobs) BY DEF ScheduleReplay, Apart
<1>3. RowsInv' /\ FatesInv' /\ Going BY <1>2, RowsStay
<1>4. Mine' = Mine BY <1>2 DEF Mine
<1>5. WorkerInv'
 <2>1. \A p \in Occurrences : Delivered(p)' => Delivered(p) BY <1>2 DEF Delivered
 <2>2. worker'.accepted => worker'.pc = "delivering" BY <1>1,<1>2 DEF WorkerInv
 <2> QED BY <1>1,<1>2,<1>3,<2>1,<2>2, WorkerStays
<1>6. MarkersInv'
 <2>1. \A p \in Occurrences : Holds(p)' => Holds(p) BY <1>2,<1>4 DEF Holds, Holding
 <2> QED BY <1>1,<1>2,<1>3,<2>1, MarkersStay
<1>7. PlansInv' /\ OnePlanPerOccurrence' BY <1>1,<1>2,<1>3,<1>4, PlansStay
<1>8. EveryCallAccounted' /\ SourcesInv' /\ DeadInv' BY <1>1,<1>2,<1>4, CallsStay, SourcesStay, DeadStay DEF Apart
<1>9. AlarmInv' /\ alarm' \in Nat \cup {NoAlarm} BY <1>1,<1>2, Rearmed, TypeParts
<1>10. TypesInv' BY <1>1,<1>2,<1>9, TypeParts, TypesNext DEF Apart
<1>11. GoneForGood BY <1>1,<1>2,<1>3, TypeParts, StaysGone
<1> QED BY <1>3,<1>5,<1>6,<1>7,<1>8,<1>9,<1>10,<1>11 DEF IInv

LEMMA CancelStep ==
  ASSUME IInv, NEW id \in Ids, cancel(id), load' = load
  PROVE  IInv' /\ GoneForGood
<1>1. TypesInv /\ RowsInv /\ FatesInv /\ WorkerInv /\ MarkersInv /\ PlansInv /\ OnePlanPerOccurrence /\ DeadInv
      /\ EveryCallAccounted /\ SourcesInv BY DEF IInv
<1>2. /\ worker' = worker /\ Apart /\ deadLetters' = deadLetters /\ deliveries' = deliveries
      /\ jobs[id].state # "absent" /\ jobs' = [jobs EXCEPT ![id] = NoJob] /\ setNextAlarm(jobs')
 BY DEF cancel, Apart
<1>3. PICK fate \in Fates \ {"none"} : fate = "cancelled" BY DEF Fates
<1>4. history' = Fated(history, id, fate) BY <1>3 DEF cancel, Fated
<1>5. history \in Histories /\ history.fate \in [Ids -> Fates] BY <1>1, TypeParts, HistoryParts
<1>6. /\ history' \in Histories /\ Agree(history', history) /\ history'.died = history.died
      /\ history'.fate = [history.fate EXCEPT ![id] = fate] BY <1>4,<1>5, FateParts
<1>7. /\ history'.made = history.made /\ history'.sent = history.sent /\ history'.lost = history.lost
      /\ history'.recorded = history.recorded /\ history'.forgotten = history.forgotten
      /\ history'.plans = history.plans BY <1>6 DEF Agree
<1>8. jobs' \in [Ids -> Job] /\ RowsInv' /\ jobs'[id] = NoJob /\ \A x \in Ids \ {id} : jobs'[x] = jobs[x]
 BY <1>1,<1>2, TypeParts, NoJobRow, RowChanges
<1>9. jobs'[id].state = "absent" BY <1>8 DEF NoJob
<1>10. FatesInv' BY <1>1,<1>2,<1>6,<1>7,<1>8,<1>9, FatesGone
<1>11. Going
 <2>1. \A x \in Ids : Same(x) BY <1>8,<1>9 DEF Same
 <2> QED BY <1>7,<2>1, MadeKept, SameGoes
<1>12. Mine' = Mine BY <1>2 DEF Mine
<1>13. WorkerInv'
 <2>1. \A p \in Occurrences : Delivered(p)' => Delivered(p) BY <1>2 DEF Delivered
 <2>2. worker'.accepted => worker'.pc = "delivering" BY <1>1,<1>2 DEF WorkerInv
 <2>3. \A x \in Ids : jobs'[x].state # "absent" => jobs'[x] = jobs[x] BY <1>8,<1>9
 <2> QED BY <1>1,<1>2,<1>11,<2>1,<2>2,<2>3, WorkerStays
<1>14. MarkersInv'
 <2>1. \A p \in Occurrences : Holds(p)' => Holds(p) BY <1>2,<1>12 DEF Holds, Holding
 <2>2. \A p \in Occurrences : ~(jobs'[p[1]].state # "absent" /\ jobs'[p[1]].occ # jobs[p[1]].occ)
  BY <1>8,<1>9, OccParts
 <2> QED BY <1>1,<1>2,<1>7,<1>11,<2>1,<2>2, MarkersStay
<1>15. PlansInv' /\ OnePlanPerOccurrence'
 <2>1. \A x \in Ids : jobs'[x].state # "absent" => jobs'[x] = jobs[x] BY <1>8,<1>9
 <2> QED BY <1>1,<1>2,<1>7,<1>11,<1>12,<2>1, PlansStay
<1>16. EveryCallAccounted' /\ SourcesInv' /\ DeadInv'
 BY <1>1,<1>2,<1>6,<1>7,<1>12, CallsStay, SourcesStay, DeadStay DEF Apart
<1>17. AlarmInv' /\ alarm' \in Nat \cup {NoAlarm}
 <2> DEFINE js == [jobs EXCEPT ![id] = NoJob]
 <2>1. js \in [Ids -> Job] /\ jobs' = js /\ setNextAlarm(js) BY <1>2,<1>8
 <2> HIDE DEF js
 <2> QED BY <2>1, Rearmed
<1>18. TypesInv' BY <1>1,<1>2,<1>6,<1>8,<1>17, TypeParts, TypesNext DEF Apart
<1>19. GoneForGood
 <2>1. \A x \in Ids : jobs'[x].state # "absent" => jobs[x].state # "absent" BY <1>8,<1>9
 <2>2. \A x \in Ids : history.fate[x] # "none" => history'.fate[x] = history.fate[x]
  <3>1. history.fate[id] = "none" BY <1>1,<1>2 DEF FatesInv
  <3> QED BY <1>5,<1>6,<3>1
 <2> QED BY <1>1,<1>2,<1>8,<2>1,<2>2, StaysGone
<1> QED BY <1>8,<1>10,<1>13,<1>14,<1>15,<1>16,<1>17,<1>18,<1>19 DEF IInv

\* A source is appended, and the oldest are pruned.
LEMMA SourceAppended ==
  ASSUME TypesInv, SourcesInv, NEW src \in Sources, ~Known(src), NEW id \in Ids,
         history'.made = Append(history.made, <<src, id>>), inserted' = inserted + 1,
         sources' = maybePruneScheduleSources(Append(sources, src), inserted + 1)
  PROVE  SourcesInv' /\ sources' \in Seq(Sources) /\ inserted' \in Nat
<1> DEFINE log == Append(sources, src)  M == Len(history.made)  K == Len(sources)  made == history'.made
           max == MAX_SCHEDULE_SOURCES  every == SOURCE_PRUNE_INTERVAL  rest == M % every  next == (M + 1) % every
<1>1. /\ log \in Seq(Sources) /\ Len(log) = K + 1 /\ K \in Nat /\ DOMAIN log = 1 .. K + 1
      /\ DOMAIN sources = 1 .. K /\ log[K + 1] = src /\ \A k \in 1 .. K : log[k] = sources[k]
 BY TypeParts, Appended
<1>2. /\ Len(made) = M + 1 /\ M \in Nat /\ made[M + 1] = <<src, id>>
      /\ \A k \in 1 .. M : made[k] = history.made[k] BY TypeParts, HistoryParts, Appended
<1>3. /\ inserted = M /\ K <= M /\ IsInjective(sources)
      /\ \A k \in 1 .. K : sources[k] = history.made[M - K + k][1]
      /\ K >= max \/ K = M
      /\ K <= max + rest BY DEF SourcesInv
<1>4. max \in Nat \ {0} /\ every \in Nat \ {0} /\ every <= SOURCE_PRUNE_BATCH_SIZE /\ SOURCE_PRUNE_BATCH_SIZE \in Nat
 BY Limits
<1>5. rest \in 0 .. every - 1 /\ next \in 0 .. every - 1 /\ (next # 0 => next = rest + 1)
 <2> HIDE DEF every, M
 <2>1. M + 1 \in Nat BY <1>2
 <2> QED BY <1>2,<1>4,<2>1, Quotient, NextRest
<1>6. inserted' = M + 1 /\ sources' = maybePruneScheduleSources(log, M + 1) /\ inserted' \in Nat BY <1>2,<1>3
<1>7. \A k \in 1 .. K : sources[k] # src BY <1>1 DEF Known, ToSet
<1>8. (M + 1) % SOURCE_PRUNE_INTERVAL = next /\ Excess(log) = K + 1 - max
 <2>1. Excess(log) = K + 1 - max
  <3>1. Excess(log) = Len(log) - max BY DEF Excess
  <3>2. Len(log) = K + 1 /\ K \in Nat /\ max \in Nat BY <1>1,<1>4
  <3> HIDE DEF log, K, max
  <3> QED BY <3>1,<3>2
 <2>2. (M + 1) % SOURCE_PRUNE_INTERVAL = next OBVIOUS
 <2> QED BY <2>1,<2>2
<1> HIDE DEF rest, next, every
<1>9. \A j, k \in 1 .. K + 1 : log[j] = log[k] => j = k
 <2> HIDE DEF log
 <2> SUFFICES ASSUME NEW j \in 1 .. K + 1, NEW k \in 1 .. K + 1, log[j] = log[k] PROVE j = k OBVIOUS
 <2>1. \A i \in 1 .. K + 1 : i \in 1 .. K \/ i = K + 1 BY <1>1
 <2>2. \A a, b \in 1 .. K : sources[a] = sources[b] => a = b BY <1>1,<1>3 DEF IsInjective
 <2> QED BY <1>1,<1>7,<2>1,<2>2
<1>10. \A k \in 1 .. K + 1 : log[k] = made[M - K + k][1]
 <2> HIDE DEF log, made
 <2>1. ASSUME NEW k \in 1 .. K PROVE log[k] = made[M - K + k][1]
  <3> HIDE DEF K, M
  <3>1. M - K + k \in 1 .. M BY <1>1,<1>2,<1>3
  <3> QED BY <1>1,<1>2,<1>3,<2>1,<3>1 DEF K, M
 <2>2. log[K + 1] = made[M - K + (K + 1)][1]
  <3> HIDE DEF K, M
  <3>1. M - K + (K + 1) = M + 1 BY <1>1,<1>2
  <3>2. made[M + 1][1] = src BY <1>2
  <3> QED BY <1>1,<3>1,<3>2
 <2>3. \A k \in 1 .. K + 1 : k \in 1 .. K \/ k = K + 1 BY <1>1
 <2> QED BY <2>1,<2>2,<2>3
<1> HIDE DEF log, made, K, M, max
<1>11. CASE next # 0 \/ K + 1 - max <= 0
 <2>1. sources' = log BY <1>6,<1>8,<1>11 DEF maybePruneScheduleSources
 <2>2. K + 1 <= M + 1 /\ (K + 1 >= max \/ K + 1 = M + 1) /\ K + 1 <= max + next BY <1>1,<1>2,<1>3,<1>4,<1>5,<1>11
 <2>3. IsInjective(log) BY <1>1,<1>9 DEF IsInjective
 <2>4. \A k \in 1 .. K + 1 : log[k] = made[(M + 1) - (K + 1) + k][1]
  <3>1. \A k \in 1 .. K + 1 : (M + 1) - (K + 1) + k = M - K + k BY <1>1,<1>2
  <3> QED BY <1>10,<3>1
 <2> QED BY <1>1,<1>2,<1>6,<2>1,<2>2,<2>3,<2>4 DEF SourcesInv, max, made, next, every
<1>12. CASE next = 0 /\ K + 1 - max > 0
 <2> DEFINE d == K + 1 - max  kept == SubSeq(log, 1 + d, Len(log))
 <2>1. d \in 0 .. K + 1 /\ d <= SOURCE_PRUNE_BATCH_SIZE /\ K + 1 - d = max BY <1>1,<1>3,<1>4,<1>5,<1>12
 <2>2. sources' = kept
  <3>1. Excess(log) = d BY <1>8
  <3>2. ~((M + 1) % SOURCE_PRUNE_INTERVAL # 0 \/ Excess(log) <= 0) BY <1>1,<1>4,<1>8,<1>12,<3>1
  <3> HIDE DEF d
  <3>3. (IF Excess(log) < SOURCE_PRUNE_BATCH_SIZE THEN Excess(log) ELSE SOURCE_PRUNE_BATCH_SIZE) = d
   BY <1>1,<1>4,<2>1,<3>1
  <3>4. maybePruneScheduleSources(log, M + 1) = SubSeq(log, 1 + d, Len(log))
   BY <3>2,<3>3 DEF maybePruneScheduleSources
  <3> QED BY <1>6,<3>4
 <2>3. kept \in Seq(Sources) /\ Len(kept) = max /\ \A k \in 1 .. max : kept[k] = log[d + k]
  <3>1. d \in 0 .. Len(log) BY <1>1,<2>1
  <3> HIDE DEF d
  <3>2. kept \in Seq(Sources) /\ Len(kept) = Len(log) - d /\ \A k \in 1 .. Len(log) - d : kept[k] = log[d + k]
   BY <1>1,<3>1, Dropped
  <3>3. Len(log) - d = max BY <1>1,<2>1
  <3> HIDE DEF kept
  <3> QED BY <3>2,<3>3
 <2> HIDE DEF d, kept
 <2>4. max <= M + 1 /\ max <= max + next /\ max >= max BY <1>1,<1>2,<1>3,<1>4,<1>12
 <2>5. \A k \in 1 .. max : d + k \in 1 .. K + 1 /\ M - K + (d + k) = (M + 1) - max + k BY <1>1,<1>2,<1>4,<2>1
 <2>6. \A k \in 1 .. max : kept[k] = made[(M + 1) - max + k][1] BY <1>10,<2>3,<2>5
 <2>7. IsInjective(kept)
  <3>1. DOMAIN kept = 1 .. max BY <2>3, LenProperties
  <3>2. ASSUME NEW a \in 1 .. max, NEW b \in 1 .. max, kept[a] = kept[b] PROVE a = b
   <4>1. d + a = d + b BY <1>9,<2>3,<2>5,<3>2
   <4> QED BY <1>1,<1>4,<2>1,<4>1
  <3> QED BY <3>1,<3>2 DEF IsInjective
 <2> QED BY <1>2,<1>6,<2>2,<2>3,<2>4,<2>6,<2>7 DEF SourcesInv, max, made, next, every
<1>13. next \in Nat /\ K + 1 - max \in Int BY <1>1,<1>4,<1>5 DEF every
<1> QED BY <1>11,<1>12,<1>13

Made(past, made) == [past EXCEPT !.made = made]

LEMMA MadeParts ==
  ASSUME NEW past \in Histories, NEW made \in Seq(Sources \X Ids)
  PROVE  LET h == Made(past, made) IN
         /\ h \in Histories /\ h.made = made /\ h.died = past.died /\ h.sent = past.sent
         /\ h.lost = past.lost /\ h.recorded = past.recorded /\ h.forgotten = past.forgotten
         /\ h.plans = past.plans /\ h.fate = past.fate
BY DEF Histories, Made

LEMMA ScheduleNewStep ==
  ASSUME IInv, NEW src \in load.sources, NEW id \in Ids, NEW repeats \in BOOLEAN, NEW delay \in Delays,
         ScheduleNew(src, id, repeats, delay), load' = load
  PROVE  IInv' /\ GoneForGood
<1>1. TypesInv /\ RowsInv /\ FatesInv /\ WorkerInv /\ MarkersInv /\ PlansInv /\ OnePlanPerOccurrence /\ DeadInv
      /\ EveryCallAccounted /\ SourcesInv BY DEF IInv
<1>2. /\ worker' = worker /\ deadLetters' = deadLetters /\ deliveries' = deliveries
      /\ ~Known(src) /\ id \in Unused /\ inserted' = inserted + 1
      /\ sources' = maybePruneScheduleSources(Append(sources, src), inserted + 1)
      /\ setNextAlarm(jobs') BY DEF ScheduleNew
<1>3. delay \in Nat /\ 1 \in 1 .. MaxOccurrences /\ src \in Sources
 BY <1>1, LimitsAssumption, TypeParts, LoadParts
<1> DEFINE r == NewRow(1, delay, repeats)  entry == <<src, id>>  made == Append(history.made, entry)
<1>4. jobs' = [jobs EXCEPT ![id] = r] BY DEF ScheduleNew, NewRow, Fresh
<1>5. r \in Job /\ RowFine(id, r) /\ r.state # "absent" /\ r.occ = 1 BY <1>3, NewRowParts
<1>6. history' = Made(history, made) BY DEF ScheduleNew, Made
<1>7. entry \in Sources \X Ids /\ history \in Histories /\ history.made \in Seq(Sources \X Ids)
 BY <1>1,<1>3, TypeParts, HistoryParts
<1>8. /\ made \in Seq(Sources \X Ids) /\ DOMAIN history.made = 1 .. Len(history.made)
      /\ DOMAIN made = 1 .. Len(history.made) + 1 /\ Len(history.made) \in Nat
      /\ \A k \in 1 .. Len(history.made) : made[k] = history.made[k]
      /\ made[Len(history.made) + 1] = entry
 <2> HIDE DEF entry
 <2> QED BY <1>7, Appended
<1>9. /\ history' \in Histories /\ history'.made = made /\ history'.died = history.died
      /\ history'.sent = history.sent /\ history'.lost = history.lost
      /\ history'.recorded = history.recorded /\ history'.forgotten = history.forgotten
      /\ history'.plans = history.plans /\ history'.fate = history.fate
 <2> HIDE DEF made
 <2> QED BY <1>6,<1>7,<1>8, MadeParts
<1>10. MadeIds' = MadeIds \cup {id}
 <2> DEFINE n == Len(history.made)
 <2>1. n \in Nat /\ n + 1 \in 1 .. n + 1 /\ \A k \in 1 .. n + 1 : k \in 1 .. n \/ k = n + 1 BY <1>8
 <2>2. \A k \in 1 .. n : k \in 1 .. n + 1 BY <2>1
 <2>3. entry[2] = id OBVIOUS
 <2>4. MadeIds' = {made[k][2] : k \in 1 .. n + 1} BY <1>8,<1>9 DEF MadeIds
 <2>5. MadeIds = {history.made[k][2] : k \in 1 .. n} BY <1>8 DEF MadeIds
 <2>6. \A k \in 1 .. n : made[k] = history.made[k] BY <1>8
 <2>7. made[n + 1] = entry BY <1>8
 <2> HIDE DEF made, n, entry
 <2>8. ASSUME NEW x \in MadeIds' PROVE x \in MadeIds \cup {id}
  <3>1. PICK k \in 1 .. n + 1 : x = made[k][2] BY <2>4
  <3> QED BY <2>1,<2>3,<2>5,<2>6,<2>7,<3>1
 <2>9. ASSUME NEW x \in MadeIds PROVE x \in MadeIds'
  <3>1. PICK k \in 1 .. n : x = history.made[k][2] BY <2>5
  <3>2. k \in 1 .. n + 1 /\ x = made[k][2] BY <2>2,<2>6,<3>1
  <3> QED BY <2>4,<3>2
 <2>10. id \in MadeIds' BY <2>1,<2>3,<2>4,<2>7
 <2> QED BY <2>8,<2>9,<2>10
<1>11. id \notin MadeIds BY <1>2 DEF Unused, MadeIds
<1>12. jobs[id].state = "absent" /\ history.fate[id] = "none" BY <1>1,<1>11 DEF FatesInv
<1> HIDE DEF r
<1>13. jobs' \in [Ids -> Job] /\ RowsInv' /\ jobs'[id] = r /\ \A x \in Ids \ {id} : jobs'[x] = jobs[x]
 BY <1>1,<1>4,<1>5, TypeParts, RowChanges
<1>14. FatesInv' BY <1>1,<1>5,<1>9,<1>10,<1>12,<1>13 DEF FatesInv
<1>15. Going BY <1>5,<1>10,<1>11,<1>13 DEF Going, Goes
<1>16. \A x \in Ids : jobs[x].state # "absent" => jobs'[x] = jobs[x] BY <1>12,<1>13
<1>17. Mine' = Mine BY <1>2 DEF Mine
<1>18. WorkerInv'
 <2>1. \A p \in Occurrences : Delivered(p)' => Delivered(p) BY <1>2 DEF Delivered
 <2>2. worker'.accepted => worker'.pc = "delivering" BY <1>1,<1>2 DEF WorkerInv
 <2> QED BY <1>1,<1>2,<1>15,<1>16,<2>1,<2>2, WorkerStays
<1>19. MarkersInv'
 <2>1. \A p \in Occurrences : Holds(p)' => Holds(p) BY <1>2,<1>17 DEF Holds, Holding
 <2>2. \A p \in Occurrences : Current(p) => jobs'[p[1]].occ = jobs[p[1]].occ BY <1>16, OccParts DEF Current
 <2> QED BY <1>1,<1>2,<1>9,<1>15,<2>1,<2>2, MarkersStay
<1>20. PlansInv' /\ OnePlanPerOccurrence' BY <1>1,<1>2,<1>9,<1>15,<1>16,<1>17, PlansStay
<1>21. EveryCallAccounted' /\ DeadInv' BY <1>1,<1>2,<1>9,<1>17, CallsStay, DeadStay
<1>22. SourcesInv' /\ sources' \in Seq(Sources) /\ inserted' \in Nat BY <1>1,<1>2,<1>3,<1>9, SourceAppended
<1>23. AlarmInv' /\ alarm' \in Nat \cup {NoAlarm}
 <2> DEFINE js == [jobs EXCEPT ![id] = r]
 <2>1. js \in [Ids -> Job] /\ jobs' = js /\ setNextAlarm(js) BY <1>2,<1>4,<1>13
 <2> HIDE DEF js
 <2> QED BY <2>1, Rearmed
<1>24. TypesInv' BY <1>1,<1>2,<1>9,<1>13,<1>22,<1>23, TypeParts, TypesNext
<1>25. GoneForGood
 <2>1. \A x \in Ids : jobs'[x].state # "absent" => jobs[x].state # "absent" \/ x \notin MadeIds BY <1>11,<1>13
 <2> QED BY <1>1,<1>2,<1>9,<1>13,<2>1, StaysGone
<1> QED BY <1>13,<1>14,<1>18,<1>19,<1>20,<1>21,<1>22,<1>23,<1>24,<1>25 DEF IInv

-----------------------------------------------------------------------------
(* The invariant is inductive                                                *)

LEMMA InitInv == ASSUME Init PROVE IInv
<1>1. /\ jobs = [id \in Ids |-> NoJob] /\ sources = <<>> /\ inserted = 0
      /\ deliveries = [o \in Occurrences |-> NoMarker] /\ deadLetters = <<>> /\ alarm = NoAlarm
      /\ worker = Idle /\ load \in Loads /\ history = NoHistory BY DEF Init
<1>2. /\ history.made = <<>> /\ history.died = <<>> /\ history.plans = {}
      /\ history.sent = [o \in Occurrences |-> 0] /\ history.lost = [o \in Occurrences |-> 0]
      /\ history.recorded = [o \in Occurrences |-> 0] /\ history.forgotten = [o \in Occurrences |-> 0]
      /\ history.fate = [id \in Ids |-> "none"] BY <1>1 DEF NoHistory
<1>3. history \in Histories BY <1>1 DEF NoHistory, Histories, Fates
<1>4. MadeIds = {} BY <1>2 DEF MadeIds
<1>5. jobs \in [Ids -> Job] /\ \A id \in Ids : jobs[id] = NoJob BY <1>1, NoJobRow
<1>6. worker.pc = "idle" /\ worker.accepted = FALSE /\ ~Holding BY <1>1 DEF Idle, Holding
<1>7. TypesInv BY <1>1,<1>3,<1>5, IdleWorker DEF TypesInv, TypeOK, NoMarker, NoAlarm
<1>8. RowsInv BY <1>5 DEF RowsInv, NoJob
<1>9. FatesInv BY <1>2,<1>4,<1>5 DEF FatesInv, NoJob
<1>10. WorkerInv BY <1>6 DEF WorkerInv
<1>11. MarkersInv
 <2>1. ASSUME NEW o \in Occurrences PROVE MarkerFine(o)
  <3>1. deliveries[o] = NoMarker /\ history.recorded[o] = 0 /\ history.forgotten[o] = 0 BY <1>1,<1>2
  <3>2. jobs[o[1]].state = "absent" BY <1>5, OccParts DEF NoJob
  <3> QED BY <3>1,<3>2 DEF MarkerFine, Delivered
 <2> QED BY <2>1, MarkersFine
<1>12. PlansInv /\ OnePlanPerOccurrence /\ EveryCallAccounted
 BY <1>2,<1>6 DEF PlansInv, OnePlanPerOccurrence, EveryCallAccounted
<1>13. SourcesInv
 <2>1. Len(history.made) = 0 /\ Len(sources) = 0 /\ DOMAIN sources = {} /\ inserted = 0 BY <1>1,<1>2
 <2>2. 0 % SOURCE_PRUNE_INTERVAL \in 0 .. SOURCE_PRUNE_INTERVAL - 1 /\ MAX_SCHEDULE_SOURCES \in Nat
       /\ SOURCE_PRUNE_INTERVAL \in Nat \ {0} BY Limits, Quotient
 <2>3. IsInjective(sources) /\ \A k \in 1 .. 0 : FALSE BY <2>1 DEF IsInjective
 <2>4. 0 <= MAX_SCHEDULE_SOURCES + (0 % SOURCE_PRUNE_INTERVAL) BY <2>2
 <2> QED BY <2>1,<2>3,<2>4 DEF SourcesInv
<1>14. DeadInv BY <1>1,<1>2 DEF DeadInv
<1>15. AlarmInv BY <1>1,<1>5 DEF AlarmInv, Scheduled, NoJob
<1> QED BY <1>7,<1>8,<1>9,<1>10,<1>11,<1>12,<1>13,<1>14,<1>15 DEF IInv

LEMMA NextInv == ASSUME IInv, Next PROVE IInv' /\ GoneForGood
<1>1. load' = load /\ Step BY DEF Next
<1>2. CASE \E src \in load.sources, id \in Ids, repeats \in BOOLEAN, delay \in Delays :
             ScheduleNew(src, id, repeats, delay) BY <1>1,<1>2, ScheduleNewStep
<1>3. CASE \E src \in load.sources : ScheduleReplay(src) BY <1>1,<1>3, ScheduleReplayStep
<1>4. CASE \E id \in Ids : cancel(id) BY <1>1,<1>4, CancelStep
<1>5. CASE AlarmFires BY <1>1,<1>5, AlarmFiresStep
<1>6. CASE LoopStep BY <1>1,<1>6, ClaimStep, FinishDeliveredStep, FinishThrowsStep, AlarmEndsStep DEF LoopStep
<1>7. CASE PlatformAccepts BY <1>1,<1>7, PlatformAcceptsStep
<1>8. CASE AttemptEnds BY <1>1,<1>8, DeliverReturnsStep, AttemptThrowsStep, PersistStep DEF AttemptEnds
<1>9. CASE Crash BY <1>1,<1>9, CrashStep
<1>10. CASE Tick BY <1>1,<1>10, TickStep
<1> QED BY <1>1,<1>2,<1>3,<1>4,<1>5,<1>6,<1>7,<1>8,<1>9,<1>10 DEF Step

LEMMA StutterInv == ASSUME IInv, UNCHANGED vars PROVE IInv'
<1>1. /\ jobs' = jobs /\ sources' = sources /\ inserted' = inserted /\ deliveries' = deliveries
      /\ deadLetters' = deadLetters /\ alarm' = alarm /\ worker' = worker /\ load' = load /\ history' = history
 BY DEF vars
<1>2. TypesInv' /\ RowsInv' /\ SourcesInv' /\ DeadInv' /\ AlarmInv'
 BY <1>1 DEF IInv, TypesInv, TypeOK, RowsInv, SourcesInv, DeadInv, AlarmInv, Scheduled
<1>3. FatesInv' /\ WorkerInv' /\ MarkersInv' /\ PlansInv' /\ EveryCallAccounted' /\ OnePlanPerOccurrence'
 BY <1>1 DEF IInv, FatesInv, WorkerInv, MarkersInv, PlansInv, EveryCallAccounted, OnePlanPerOccurrence, MadeIds,
    Reached, Current, Delivered, Mine, Holding, Holds
<1> QED BY <1>2,<1>3 DEF IInv

-----------------------------------------------------------------------------
(* What the invariant says of the occurrences and the requests               *)

LEMMA CallsExplained == ASSUME IInv PROVE DeliveriesExplained
<1>1. TypesInv /\ WorkerInv /\ MarkersInv /\ EveryCallAccounted /\ OnePlanPerOccurrence BY DEF IInv
<1>2. ASSUME NEW o \in Occurrences PROVE history.sent[o] <= 1 + history.lost[o] + history.forgotten[o]
 <2>1. /\ history.sent[o] \in Nat /\ history.lost[o] \in Nat /\ history.recorded[o] \in Nat
       /\ history.forgotten[o] \in Nat BY <1>1, TypeParts, HistoryParts
 <2>2. CASE worker.accepted /\ Mine = o
  <3>1. Holds(o) /\ ~Delivered(o) BY <1>1,<2>2, HeldOcc DEF WorkerInv, Holds, Holding
  <3>2. history.recorded[o] <= history.forgotten[o] BY <1>1,<3>1 DEF MarkersInv
  <3>3. history.sent[o] = history.lost[o] + history.recorded[o] + 1 BY <1>1,<2>2 DEF EveryCallAccounted
  <3> QED BY <2>1,<3>2,<3>3
 <2>3. CASE ~(worker.accepted /\ Mine = o)
  <3>1. history.recorded[o] <= history.forgotten[o] + 1 BY <1>1 DEF MarkersInv
  <3>2. history.sent[o] = history.lost[o] + history.recorded[o] + 0 BY <1>1,<2>3 DEF EveryCallAccounted
  <3> QED BY <2>1,<3>1,<3>2
 <2> QED BY <2>2,<2>3
<1>3. ASSUME NEW id \in Scheduled(jobs), NEW n \in 1 .. jobs[id].occ - 1 PROVE history.recorded[<<id, n>>] > 0
 <2>1. id \in Ids /\ jobs[id].state # "absent" /\ jobs[id].occ \in 0 .. MaxOccurrences /\ MaxOccurrences \in Nat
  BY <1>1, TypeParts, Limits DEF Scheduled
 <2>2. n \in 1 .. MaxOccurrences /\ n < jobs[id].occ BY <2>1
 <2> DEFINE o == <<id, n>>
 <2>3. o \in Occurrences /\ o[1] = id /\ o[2] = n BY <2>1,<2>2 DEF Occurrences
 <2> HIDE DEF o
 <2>4. history.recorded[o] > 0 BY <1>1,<2>1,<2>2,<2>3 DEF MarkersInv
 <2> QED BY <2>4 DEF o
<1> QED BY <1>1,<1>2,<1>3 DEF DeliveriesExplained, DeliveredOncePerCause, AdvancesOverDelivered

LEMMA SourcesKept == ASSUME IInv PROVE SourcesRemembered
<1> DEFINE M == Len(history.made)  K == Len(sources)  rest == M % SOURCE_PRUNE_INTERVAL
<1>1. TypesInv /\ SourcesInv BY DEF IInv
<1>2. /\ K <= M /\ IsInjective(sources) /\ (K >= MAX_SCHEDULE_SOURCES \/ K = M)
      /\ K <= MAX_SCHEDULE_SOURCES + rest
      /\ \A k \in 1 .. K : sources[k] = history.made[M - K + k][1] BY <1>1 DEF SourcesInv
<1>3. K \in Nat /\ M \in Nat /\ DOMAIN sources = 1 .. K /\ DOMAIN history.made = 1 .. M
 BY <1>1, TypeParts, HistoryParts, LenProperties
<1>4. MAX_SCHEDULE_SOURCES \in Nat /\ SOURCE_PRUNE_INTERVAL \in Nat \ {0} BY Limits
<1>5. rest \in 0 .. SOURCE_PRUNE_INTERVAL - 1
 <2> HIDE DEF M
 <2> QED BY <1>3,<1>4, Quotient
<1> HIDE DEF M, K, rest
<1>6. K < MAX_SCHEDULE_SOURCES + SOURCE_PRUNE_INTERVAL BY <1>2,<1>3,<1>4,<1>5
<1>7. ASSUME NEW k \in 1 .. M, k > M - MAX_SCHEDULE_SOURCES PROVE history.made[k][1] \in ToSet(sources)
 <2>1. k - (M - K) \in 1 .. K /\ M - K + (k - (M - K)) = k BY <1>2,<1>3,<1>4,<1>7
 <2>2. sources[k - (M - K)] = history.made[k][1] BY <1>2,<2>1
 <2> QED BY <1>3,<2>1,<2>2 DEF ToSet
<1> QED BY <1>2,<1>3,<1>6,<1>7 DEF SourcesRemembered, M, K

LEMMA JobsKept == ASSUME IInv PROVE EveryJobAccounted
<1> DEFINE D == Len(history.died)  K == Len(deadLetters)
<1>1. TypesInv /\ FatesInv /\ DeadInv BY DEF IInv
<1>2. history.made \in Seq(Sources \X Ids) /\ history.died \in Seq(Ids) /\ deadLetters \in Seq(Ids)
 BY <1>1, TypeParts, HistoryParts
<1>3. ASSUME NEW k \in DOMAIN history.made
      PROVE  history.made[k][2] \in Scheduled(jobs) <=> history.fate[history.made[k][2]] = "none"
 <2>1. history.made[k] \in Sources \X Ids BY <1>2,<1>3, ElementOfSeq, LenProperties
 <2>2. PICK id \in Ids : id = history.made[k][2] BY <2>1
 <2>3. id \in MadeIds BY <1>3,<2>2 DEF MadeIds
 <2>4. id \in Scheduled(jobs) <=> history.fate[id] = "none" BY <1>1,<2>3 DEF FatesInv, Scheduled
 <2> QED BY <2>2,<2>4
<1>4. /\ K \in Nat /\ D \in Nat /\ DOMAIN deadLetters = 1 .. K /\ DOMAIN history.died = 1 .. D
      /\ MAX_DEAD_LETTERS \in Nat BY <1>2, LenProperties, Limits
<1>5. /\ K <= D /\ (K >= MAX_DEAD_LETTERS \/ K = D)
      /\ \A k \in 1 .. K : deadLetters[k] = history.died[D - K + k] BY <1>1 DEF DeadInv
<1> HIDE DEF D, K
<1>6. ASSUME NEW k \in 1 .. D, k > D - MAX_DEAD_LETTERS PROVE history.died[k] \in ToSet(deadLetters)
 <2>1. k - (D - K) \in 1 .. K /\ D - K + (k - (D - K)) = k BY <1>4,<1>5,<1>6
 <2>2. deadLetters[k - (D - K)] = history.died[k] BY <1>5,<2>1
 <2> QED BY <1>4,<2>1,<2>2 DEF ToSet
<1>7. \A k \in DOMAIN history.died :
        history.died[k] \in ToSet(deadLetters) \/ k <= Len(history.died) - MAX_DEAD_LETTERS
 <2>1. \A k \in 1 .. D : history.died[k] \in ToSet(deadLetters) \/ k <= D - MAX_DEAD_LETTERS BY <1>4,<1>6
 <2> QED BY <1>4,<2>1 DEF D
<1> QED BY <1>3,<1>7 DEF EveryJobAccounted

LEMMA NoneStranded == ASSUME IInv PROVE NoStrandedJob
BY DEF IInv, AlarmInv, NoStrandedJob

LEMMA Accounted == ASSUME IInv PROVE TypeOK /\ OccurrencesAccounted
BY CallsExplained, SourcesKept, JobsKept, NoneStranded DEF OccurrencesAccounted, RequestsAccounted, IInv, TypesInv

-----------------------------------------------------------------------------
(* The theorems                                                              *)

\* The invariant holds of every behaviour of the scheduler.
THEOREM Inductive == Spec => []IInv
<1>1. Init => IInv BY InitInv
<1>2. IInv /\ [Next]_vars => IInv' BY NextInv, StutterInv
<1> QED BY <1>1,<1>2, PTL DEF Spec

\* The rows have the types of their columns, and the worker is in a state of
\* alarm() (backend.js:612).
THEOREM TypeCorrect == Spec => []TypeOK
<1>1. IInv => TypeOK BY Accounted
<1> QED BY <1>1, Inductive, PTL

\* Every occurrence is accounted for from the request that made it
\* (backend.js:501) to the call of the platform it caused, whatever fails, is
\* retried, cancelled or evicted on the way.
THEOREM OccurrencesAlwaysAccounted == Spec => []OccurrencesAccounted
<1>1. IInv => OccurrencesAccounted BY Accounted
<1> QED BY <1>1, Inductive, PTL

\* And no step brings back a job that was cancelled, finished or dead, nor
\* begins a call of its handler (backend.js:777 and :713 check that the
\* occurrence is still the one scheduled).
THEOREM JobsAlwaysAccounted == Spec => JobsAccounted
<1>1. IInv => OccurrencesAccounted BY Accounted
<1>2. IInv /\ [Next]_vars => GoneForGood \/ UNCHANGED vars BY NextInv
<1>3. OccurrencesAccounted' /\ (GoneForGood \/ UNCHANGED vars) => [OccurrencesAccounted' /\ GoneForGood]_vars
 OBVIOUS
<1> QED BY <1>1,<1>2,<1>3, Inductive, PTL DEF Spec, JobsAccounted
===============================================================================

--------------------------- MODULE EventSubInbox ----------------------------
(***************************************************************************)
(* The durable inbox of one Twitch broadcaster,                            *)
(* src/src/platforms/twitch/eventsub-inbox.js: signed EventSub messages are*)
(* recorded once per message id and handed to their handler by drains.     *)
(* A drain runs for the storage alarm (at most one at a time) and for every*)
(* POST /drain the Worker makes after an enqueue, so several may overlap.  *)
(*                                                                         *)
(* The only wait inside a drain is the call of the message's handler:      *)
(* everything between two handler calls is one step.  Times are countdowns *)
(* (wait is what remains of next_attempt_at_ms, or of the lease of an      *)
(* attempt; expires_at_ms is the flag expired).  An eviction loses the     *)
(* drains in progress and keeps the rows and the alarm.                    *)
(***************************************************************************)
EXTENDS Integers, FiniteSets, Sequences

CONSTANTS
  Ids,                    \* Twitch message ids
  IdOrder,                \* their order as texts, smaller first
  Bodies,                 \* what the fingerprint covers: type, kind, payload
  RequestDrains,          \* concurrent POST /drain requests
  AlarmDrain,             \* the drain that alarm() runs
  MAX_DELIVERY_ATTEMPTS,
  DRAIN_BATCH_SIZE,
  ATTEMPT_LEASE,          \* durations, in ticks
  RETRY_DELAYS,           \* sequence of delays
  ENQUEUE_WAKE,           \* the second enqueue() arms the alarm with
  MaxCrashes,             \* bound: evictions
  MaxSlow                 \* bound: handlers that outlive their lease

ASSUME DrainsAssumption == AlarmDrain \notin RequestDrains /\ IsFiniteSet(RequestDrains)
ASSUME NamesAssumption == "none" \notin Ids \cup Bodies
ASSUME OrderAssumption ==
  /\ IdOrder \subseteq Ids \X Ids
  /\ \A a, b \in Ids : a # b => (<<a, b>> \in IdOrder <=> <<b, a>> \notin IdOrder)
ASSUME LimitsAssumption ==
  /\ MAX_DELIVERY_ATTEMPTS \in Nat \ {0}
  /\ DRAIN_BATCH_SIZE \in Nat \ {0}
  /\ ATTEMPT_LEASE \in Nat \ {0}
  /\ ENQUEUE_WAKE \in Nat
  /\ ENQUEUE_WAKE <= ATTEMPT_LEASE
  /\ RETRY_DELAYS \in Seq(Nat)
  /\ RETRY_DELAYS # <<>>
  /\ MaxCrashes \in Nat
  /\ MaxSlow \in Nat

Drains == RequestDrains \cup {AlarmDrain}

VARIABLES
  rows,      \* eventsub_inbox, by message id
  before,    \* <<a, b>>: row a was received in an earlier millisecond than row b
  newest,    \* the rows received in the current millisecond
  alarm,     \* ticks until the storage alarm, or NoAlarm
  drains,    \* the drain() invocations in progress
  crashes, slow   \* counters: evictions, leases outlived by a running handler

vars == <<rows, before, newest, alarm, drains, crashes, slow>>

NoAlarm == -1
\* runs and recovered are not columns: they count the handler calls that
\* returned for this row, and the times its lease was found expired.
NoRow == [status |-> "absent", body |-> "none", attempts |-> 0, wait |-> 0,
          expired |-> FALSE, runs |-> 0, recovered |-> 0]
\* A drain between handler calls holds nothing; while it waits for a handler it
\* holds the claimed copy of the row.
NoDrain == [message |-> "none", attempts |-> 0, processed |-> 0]

Waiting == {"pending", "retry_wait"}
Outstanding == Waiting \cup {"attempting"}
Settled == {"completed", "dead_letter"}

Row == [status : Outstanding \cup Settled \cup {"absent"}, body : Bodies \cup {"none"},
        attempts : Nat, wait : Nat, expired : BOOLEAN, runs : Nat, recovered : Nat]
Drain == [message : Ids \cup {"none"}, attempts : Nat, processed : 0 .. DRAIN_BATCH_SIZE]

InFlight(m) == {d \in Drains : drains[d].message = m}
Open(rs) == {m \in Ids : rs[m].status \in Outstanding}

-----------------------------------------------------------------------------
\* prune: DELETE .. WHERE expires_at_ms <= now, whatever the status
prune(rs) == [m \in Ids |-> IF rs[m].expired THEN NoRow ELSE rs[m]]
kept(rs) == {p \in before : ~rs[p[1]].expired /\ ~rs[p[2]].expired}

\* Variants named X_Fault are faults a change to X could introduce; nothing
\* uses them, and with X replaced by one a property of this module fails.
scheduleNextAlarm_FaultWaitingOnly(rs) ==
  IF {m \in Ids : rs[m].status \in Waiting} = {} THEN alarm' = NoAlarm
  ELSE \E first \in {m \in Ids : rs[m].status \in Waiting} :
         /\ \A m \in Ids : rs[m].status \in Waiting => rs[first].wait <= rs[m].wait
         /\ alarm' = rs[first].wait
\* scheduleNextAlarm: the earliest next attempt or lease end, or deleteAlarm
scheduleNextAlarm(rs) ==
  IF Open(rs) = {} THEN alarm' = NoAlarm
  ELSE \E first \in Open(rs) : /\ \A m \in Open(rs) : rs[first].wait <= rs[m].wait
                               /\ alarm' = rs[first].wait

\* recoverExpiredAttempts: an attempt whose lease ran out is due again
recoverExpiredAttempts(rs) ==
  [m \in Ids |-> IF rs[m].status = "attempting" /\ rs[m].wait = 0
                 THEN [rs[m] EXCEPT !.status = "retry_wait",
                                    !.recovered = rs[m].recovered + 1]
                 ELSE rs[m]]

\* The rows claimNext selects from, and the ORDER BY received_at_ms, message_id LIMIT 1
Due(rs) == {m \in Ids : rs[m].status \in Waiting /\ rs[m].wait = 0}
First_FaultUnordered(m, rs) == m \in Due(rs)
SameTime(x, m) == <<x, m>> \notin before /\ <<m, x>> \notin before
First(m, rs) ==
  /\ m \in Due(rs)
  /\ \A x \in Due(rs) \ {m} : <<x, m>> \notin before /\ (SameTime(x, m) => <<m, x>> \in IdOrder)

NextAttempt(row) == row.attempts + 1

\* One turn of drain()'s loop, from rows rs with n messages processed: claim a
\* due message and call its handler, or (nothing due, or the batch or its five
\* seconds are used up) prune, reschedule and return.
MoreFits_FaultOffByOne(n) == n <= DRAIN_BATCH_SIZE
MoreFits(n) == n < DRAIN_BATCH_SIZE
Claim(d, rs, n, m) ==
  /\ MoreFits(n)
  /\ First(m, rs)
  /\ UNCHANGED <<before, newest>>
  /\ rows' = [rs EXCEPT ![m].status = "attempting", ![m].wait = ATTEMPT_LEASE,
                        ![m].attempts = NextAttempt(rs[m])]
  /\ drains' = [drains EXCEPT ![d] = [message |-> m, attempts |-> NextAttempt(rs[m]),
                                      processed |-> n + 1]]
  /\ alarm' = ATTEMPT_LEASE

Return(d, rs, n) ==
  /\ n > 0 \/ Due(rs) = {}
  /\ rows' = prune(rs)
  /\ before' = kept(rs)
  /\ UNCHANGED newest
  /\ scheduleNextAlarm(rows')
  /\ drains' = [drains EXCEPT ![d] = NoDrain]

Turn(d, rs, n) == (\E m \in Ids : Claim(d, rs, n, m)) \/ Return(d, rs, n)

-----------------------------------------------------------------------------
\* INSERT of a pending row, in the millisecond of the rows ties or in a new one
Inserted(rs, id, body) ==
  [rs EXCEPT ![id] = [NoRow EXCEPT !.status = "pending", !.body = body]]
Behind(rs, ties, id) == {<<m, id>> : m \in {x \in Ids \ ties : rs[x].status # "absent"}}
Received(rs, id) ==
  \E ties \in {newest, {}} : /\ before' = kept(rows) \cup Behind(rs, ties, id)
                             /\ newest' = ties \cup {id}

SameContent(rs, id, body) == rs[id].body = body

enqueue_FaultReopensDead(id, body) ==
  LET rs == prune(rows) IN
  /\ rs[id].status \in {"absent", "dead_letter"}
  /\ rows' = Inserted(rs, id, body)
  /\ Received(rs, id)
  /\ alarm' = ENQUEUE_WAKE
  /\ UNCHANGED <<drains, crashes, slow>>

\* POST /messages: arm the alarm, then record the message unless its id is
\* known.  A replay of a settled message puts the alarm back; an id reused
\* with other content is refused (the prune is rolled back, the alarm is not).
enqueue(id, body) ==
  LET rs == prune(rows) IN
  /\ \/ /\ rs[id].status = "absent"
        /\ rows' = Inserted(rs, id, body)
        /\ Received(rs, id)
        /\ alarm' = ENQUEUE_WAKE
     \/ /\ rs[id].status # "absent"
        /\ SameContent(rs, id, body)
        /\ rows' = [rs EXCEPT ![id].body = body]
        /\ before' = kept(rows)
        /\ UNCHANGED newest
        /\ IF rs[id].status \in Settled THEN scheduleNextAlarm(rs)
           ELSE alarm' = ENQUEUE_WAKE
     \/ /\ rs[id].status # "absent"
        /\ ~SameContent(rs, id, body)
        /\ alarm' = ENQUEUE_WAKE
        /\ UNCHANGED <<rows, before, newest>>
  /\ UNCHANGED <<drains, crashes, slow>>

\* drain() starts: for a request at any time, for the alarm when it is due.
RequestDrainStarts(d) ==
  /\ drains[d] = NoDrain
  /\ Turn(d, recoverExpiredAttempts(rows), 0)
  /\ UNCHANGED <<crashes, slow>>

AlarmFires ==
  /\ alarm = 0
  /\ drains[AlarmDrain] = NoDrain
  /\ Turn(AlarmDrain, recoverExpiredAttempts(rows), 0)
  /\ UNCHANGED <<crashes, slow>>

\* complete: UPDATE .. WHERE message_id = ?, whatever the row became meanwhile
complete(rs, m) ==
  [rs EXCEPT ![m].status = "completed", ![m].wait = 0, ![m].expired = FALSE,
             ![m].runs = rs[m].runs + 1]

\* fail: decided on the claimed copy, written whatever the row became
Terminal(claim, retryable) == ~retryable \/ claim.attempts >= MAX_DELIVERY_ATTEMPTS

RetryDelay(n) == RETRY_DELAYS[IF n < Len(RETRY_DELAYS) THEN n ELSE Len(RETRY_DELAYS)]

fail(rs, claim, retryable) ==
  LET terminal == Terminal(claim, retryable) IN
  [rs EXCEPT ![claim.message].status = IF terminal THEN "dead_letter" ELSE "retry_wait",
             ![claim.message].wait = IF terminal THEN 0 ELSE RetryDelay(claim.attempts),
             ![claim.message].expired = FALSE]

\* The handler of drain d returns, or throws; the drain goes on.
HandlerReturns(d) ==
  /\ drains[d].message # "none"
  /\ Turn(d, complete(rows, drains[d].message), drains[d].processed)
  /\ UNCHANGED <<crashes, slow>>

HandlerThrows(d, retryable) ==
  /\ drains[d].message # "none"
  /\ Turn(d, fail(rows, drains[d], retryable), drains[d].processed)
  /\ UNCHANGED <<crashes, slow>>

\* Eviction; an interrupted alarm() is started again unless an alarm is set.
Crash ==
  /\ crashes < MaxCrashes
  /\ \E d \in Drains : drains[d] # NoDrain
  /\ crashes' = crashes + 1
  /\ drains' = [d \in Drains |-> NoDrain]
  /\ alarm' = IF drains[AlarmDrain] # NoDrain /\ alarm = NoAlarm THEN 0 ELSE alarm
  /\ UNCHANGED <<rows, before, newest, slow>>

-----------------------------------------------------------------------------
Down(n) == IF n > 0 THEN n - 1 ELSE n
\* Attempts in progress whose lease runs out with this tick.
Outlived == {m \in Ids : rows[m].status = "attempting" /\ rows[m].wait = 1
                         /\ \E d \in InFlight(m) : drains[d].attempts = rows[m].attempts}
\* A tick may be the one with which fourteen days are over for settled rows:
\* longer than any handler runs, so no attempt of them is still in progress.
Aging == {m \in Ids : rows[m].status \in Settled /\ InFlight(m) = {}}
Tick ==
  /\ alarm > 0 \/ \E m \in Ids : rows[m].wait > 0 \/ (m \in Aging /\ ~rows[m].expired)
  /\ slow + Cardinality(Outlived) <= MaxSlow
  /\ slow' = slow + Cardinality(Outlived)
  /\ alarm' = Down(alarm)
  /\ \E aged \in SUBSET Aging :
       rows' = [m \in Ids |-> [rows[m] EXCEPT !.wait = Down(rows[m].wait),
                                             !.expired = rows[m].expired \/ m \in aged]]
  /\ newest' = {}
  /\ UNCHANGED <<before, drains, crashes>>

Init ==
  /\ rows = [m \in Ids |-> NoRow]
  /\ before = {} /\ newest = {}
  /\ alarm = NoAlarm
  /\ drains = [d \in Drains |-> NoDrain]
  /\ crashes = 0
  /\ slow = 0

HandlerEnds(d) == HandlerReturns(d) \/ \E retryable \in BOOLEAN : HandlerThrows(d, retryable)

Next ==
  \/ \E id \in Ids, body \in Bodies : enqueue(id, body)
  \/ \E d \in RequestDrains : RequestDrainStarts(d)
  \/ AlarmFires
  \/ \E d \in Drains : HandlerEnds(d)
  \/ Crash \/ Tick

Spec == Init /\ [][Next]_vars

\* Fairness: time passes, a handler ends (its requests are all bounded by
\* timeouts), and a due alarm runs.  The last is strong fairness: every
\* enqueue moves the alarm to a second from now, and the assumption is that
\* messages do not keep arriving so as to move it away for ever.  Request
\* drains owe nothing: the Worker starts them on a best effort.
FairSpec == /\ Spec
            /\ WF_vars(Tick)
            /\ SF_vars(AlarmFires)
            /\ \A d \in Drains : WF_vars(HandlerEnds(d))

-----------------------------------------------------------------------------
\* The rows have the types of their columns; no drain takes more than its batch.
TypeOK ==
  /\ rows \in [Ids -> Row]
  /\ before \in SUBSET (Ids \X Ids) /\ newest \in SUBSET Ids
  /\ alarm \in Nat \cup {NoAlarm}
  /\ drains \in [Drains -> Drain]
  /\ crashes \in 0 .. MaxCrashes
  /\ slow \in 0 .. MaxSlow

\* An accepted message never depends on a drain in memory: while it is
\* outstanding the alarm is set, no later than its own next attempt or lease
\* end, or one lease from now.
NoStrandedMessage ==
  \A m \in Open(rows) : /\ alarm # NoAlarm
                        /\ alarm <= rows[m].wait \/ alarm <= ATTEMPT_LEASE

\* The dedup row and the leases together: the handler of one message returns
\* at most once more than its lease was found expired, counting the attempts
\* still in progress and the one the row still asks for.  With no eviction
\* and no handler slower than its lease it runs to completion at most once,
\* however many drains overlap and however often Twitch redelivers.
HandledOncePerLease ==
  \A m \in Ids :
    Cardinality(InFlight(m)) + (IF rows[m].status \in Waiting THEN 1 ELSE 0)
      + rows[m].runs <= 1 + rows[m].recovered

\* The row's attempt counter passes five only by as many attempts as leases
\* expired (after an eviction, or a slow handler).
AttemptsExplained ==
  \A m \in Ids : rows[m].attempts <= MAX_DELIVERY_ATTEMPTS + rows[m].recovered

\* A settled message is reopened only by an attempt of it that was still in
\* progress; without one it changes only by being pruned.
SettledStays ==
  \A m \in Ids :
    rows[m].status \in Settled /\ InFlight(m) = {} =>
      rows'[m].status = rows[m].status \/ rows[m].expired

\* Overlapping drains keep the order of first attempts: no message is tried
\* before every message received in an earlier millisecond has been tried once
\* (messages of one millisecond are taken by their ids, whichever came first).
FirstAttemptsInOrder ==
  \A p \in before : rows[p[2]].attempts > 0 => rows[p[1]].attempts > 0

\* What drains did to a message is explained by its row, and an outstanding
\* message by the alarm.
HandlingExplained ==
  NoStrandedMessage /\ HandledOncePerLease /\ AttemptsExplained /\ FirstAttemptsInOrder

\* A message goes one way, from its arrival to the state it keeps: every step
\* leaves what happened explained, and what is settled alone.
MessagesAccounted == [][HandlingExplained' /\ SettledStays]_vars

\* Every accepted message settles, through overlapping drains, (boundedly
\* many) evictions and handlers that outlive their lease.
EveryMessageSettles ==
  \A m \in Ids : rows[m].status \in Outstanding ~> rows[m].status \in Settled
=============================================================================

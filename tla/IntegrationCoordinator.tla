----------------------- MODULE IntegrationCoordinator -----------------------
(***************************************************************************)
(* The per-integration effect outbox of src/src/integrations/coordinator.js*)
(* and coordinator-storage.js: executions are accepted into SQLite and     *)
(* their effects are delivered by a storage alarm.                         *)
(*                                                                         *)
(* A Durable Object runs one piece of JavaScript at a time and lets other  *)
(* requests in only while it waits for a call it made outside, so every    *)
(* action below is the code between two such waits.  Time is kept as       *)
(* countdowns (next_attempt_at_ms, completed_at_ms + TTL and the alarm are *)
(* held relative to now); Tick advances them together.  An object may be   *)
(* evicted at any wait: what is in memory is lost, SQLite and the alarm    *)
(* remain, and the platform starts an interrupted alarm() again.           *)
(***************************************************************************)
EXTENDS Integers, FiniteSets

CONSTANTS
  Events,                    \* source event ids
  Keys,                      \* effect idempotency keys
  Requests,                  \* normalized executions a caller may submit
  Callers,                   \* concurrent POST /executions requests
  MAX_DELIVERY_ATTEMPTS,
  MAX_EFFECTS_PER_ALARM,
  ATTEMPT_LEASE,             \* the durations, in ticks
  RETRY_BASE_DELAY,
  Backoff,                   \* Backoff[n]: delay after the n-th failure
  COMPLETED_EXECUTION_TTL,
  MaxCrashes,                \* bound: evictions
  MaxRearms                  \* bound: operator retries

ASSUME IdsAssumption == "none" \notin Events \cup Keys
ASSUME RequestsAssumption == Requests \subseteq [event : Events, keys : SUBSET Keys]
ASSUME DurationsAssumption ==
  /\ MAX_DELIVERY_ATTEMPTS \in Nat \ {0}
  /\ MAX_EFFECTS_PER_ALARM \in Nat \ {0}
  /\ ATTEMPT_LEASE \in Nat \ {0}
  /\ RETRY_BASE_DELAY \in Nat \ {0}
  /\ COMPLETED_EXECUTION_TTL \in Nat \ {0}
  /\ Backoff \in [1 .. MAX_DELIVERY_ATTEMPTS - 1 -> Nat \ {0}]
  /\ MaxCrashes \in Nat
  /\ MaxRearms \in Nat
\* A claim's lease ends no later than the put-off after an outage (both 30 s).
ASSUME LeaseAssumption == ATTEMPT_LEASE <= RETRY_BASE_DELAY

VARIABLES
  executions,   \* integration_executions, by source event id
  effects,      \* integration_effects, by idempotency key
  alarm,        \* ticks until the storage alarm, or NoAlarm
  worker,       \* the alarm() invocation, if one is running
  submits,      \* the POST /executions requests waiting on the registry
  linked,       \* the registry's record: the integration is active
  crashes, rearms, lateCalls   \* counters: evictions, operator retries,
                               \* platform calls made after the revocation

vars == <<executions, effects, alarm, worker, submits, linked,
          crashes, rearms, lateCalls>>

NoAlarm == -1
NoRequest == [event |-> "none", keys |-> {}]
NoExecution == [state |-> "absent", request |-> NoRequest, ttl |-> 0]
\* sent and orphaned are not columns: they count the platform calls that were
\* accepted for the effect, and those whose outcome SQLite did not record.
NoEffect == [state |-> "absent", event |-> "none", attempts |-> 0, wait |-> 0,
             sent |-> 0, orphaned |-> 0]
Idle == [pc |-> "idle", linked |-> FALSE, processed |-> 0, effect |-> "none",
         accepted |-> FALSE]
NoSubmit == [stage |-> "none", request |-> NoRequest]

\* Variants named X_Fault are faults a change to X could introduce.  Nothing
\* uses them; with X replaced by one, a property of this module fails.
Nonterminal_FaultDelivered == {"pending", "attempting", "retry_wait", "delivered"}
Nonterminal == {"pending", "attempting", "retry_wait"}
CompletedStates == {"completed", "completed_with_failures"}

Execution == [state : {"absent", "pending"} \cup CompletedStates,
              request : Requests \cup {NoRequest}, ttl : 0 .. COMPLETED_EXECUTION_TTL]
Effect == [state : {"absent", "delivered", "dead_letter"} \cup Nonterminal,
           event : Events \cup {"none"}, attempts : Nat, wait : Nat,
           sent : Nat, orphaned : Nat]
Worker == [pc : {"idle", "reading", "batch", "delivering"}, linked : BOOLEAN,
           processed : 0 .. MAX_EFFECTS_PER_ALARM, effect : Keys \cup {"none"},
           accepted : BOOLEAN]
Submit == [stage : {"none", "checking", "checked"}, request : Requests \cup {NoRequest}]

Live(effs) == {k \in Keys : effs[k].state \in Nonterminal}
EffectsOf(effs, ev) == {k \in Keys : effs[k].event = ev}
Due == {k \in Live(effects) : effects[k].wait = 0}

-----------------------------------------------------------------------------
\* updateExecutionState: the status column, recomputed from the effects of ev
ExecutionState(effs, ev) ==
  IF EffectsOf(effs, ev) \cap Live(effs) # {} THEN "pending"
  ELSE IF \E k \in EffectsOf(effs, ev) : effs[k].state = "dead_letter"
       THEN "completed_with_failures" ELSE "completed"

\* The executions after updateExecutionState ran for every event of evs.
updateExecutionState(effs, evs) ==
  [ev \in Events |->
     IF ev \in evs
     THEN [executions[ev] EXCEPT
             !.state = ExecutionState(effs, ev),
             !.ttl = IF ExecutionState(effs, ev) = "pending"
                     THEN 0 ELSE COMPLETED_EXECUTION_TTL]
     ELSE executions[ev]]

\* setNextAlarm: SELECT .. ORDER BY next_attempt_at_ms LIMIT 1, or deleteAlarm
setNextAlarm(effs) ==
  IF Live(effs) = {} THEN alarm' = NoAlarm
  ELSE \E first \in Live(effs) :
         /\ \A k \in Live(effs) : effs[first].wait <= effs[k].wait
         /\ alarm' = effs[first].wait

\* pruneCompletedExecutions: completed rows past their TTL, with their effects
Expired_FaultNullCutoff == {ev \in Events : executions[ev].ttl = 0}
Expired == {ev \in Events : executions[ev].state \in CompletedStates
                            /\ executions[ev].ttl = 0}
pruneCompletedExecutions_FaultOrphans ==
  /\ executions' = [ev \in Events |-> IF ev \in Expired THEN NoExecution
                                      ELSE executions[ev]]
  /\ UNCHANGED effects
pruneCompletedExecutions ==
  /\ executions' = [ev \in Events |-> IF ev \in Expired THEN NoExecution
                                      ELSE executions[ev]]
  /\ effects' = [k \in Keys |-> IF effects[k].event \in Expired THEN NoEffect
                                ELSE effects[k]]

-----------------------------------------------------------------------------
\* submit(), up to the registry call: prune, then answer a replay or a
\* conflict from the rows the prune left, or ask the registry.
SubmitStart(c, r) ==
  /\ submits[c].stage = "none"
  /\ pruneCompletedExecutions
  /\ submits' = IF executions'[r.event].state = "absent"
                THEN [submits EXCEPT ![c] = [stage |-> "checking", request |-> r]]
                ELSE submits
  /\ UNCHANGED <<alarm, worker, linked, crashes, rearms, lateCalls>>

\* requireActiveMembership: the registry answers what it holds at this moment;
\* an inactive integration, or a failed call, ends the request with an error.
MembershipConfirmed(c) ==
  /\ submits[c].stage = "checking"
  /\ linked
  /\ submits' = [submits EXCEPT ![c].stage = "checked"]
  /\ UNCHANGED <<executions, effects, alarm, worker, linked, crashes, rearms, lateCalls>>

MembershipRefused(c) ==
  /\ submits[c].stage = "checking"
  /\ submits' = [submits EXCEPT ![c] = NoSubmit]
  /\ UNCHANGED <<executions, effects, alarm, worker, linked, crashes, rearms, lateCalls>>

\* submit(), the transaction after the registry call: a request that was
\* overtaken is a replay or a conflict and changes no row; a key used by
\* another execution rolls the transaction back.
KeysFree(r) == \A k \in r.keys : effects[k].state = "absent"

SubmitCommit(c) ==
  LET r == submits[c].request IN
  /\ submits[c].stage = "checked"
  /\ executions[r.event].state = "absent"
  /\ KeysFree(r)
  /\ executions' = [executions EXCEPT ![r.event] =
       [state |-> IF r.keys = {} THEN "completed" ELSE "pending", request |-> r,
        ttl |-> IF r.keys = {} THEN COMPLETED_EXECUTION_TTL ELSE 0]]
  /\ effects' = [k \in Keys |->
       IF k \in r.keys THEN [NoEffect EXCEPT !.state = "pending", !.event = r.event]
       ELSE effects[k]]
  /\ setNextAlarm(effects')
  /\ submits' = [submits EXCEPT ![c] = NoSubmit]
  /\ UNCHANGED <<worker, linked, crashes, rearms, lateCalls>>

\* The concurrent replay of the same execution: setNextAlarm still runs.
SubmitReplay(c) ==
  /\ submits[c].stage = "checked"
  /\ executions[submits[c].request.event].request = submits[c].request
  /\ setNextAlarm(effects)
  /\ submits' = [submits EXCEPT ![c] = NoSubmit]
  /\ UNCHANGED <<executions, effects, worker, linked, crashes, rearms, lateCalls>>

\* integration_execution_conflict or integration_effect_idempotency_conflict
SubmitConflict(c) ==
  LET r == submits[c].request IN
  /\ submits[c].stage = "checked"
  /\ \/ executions[r.event].state # "absent" /\ executions[r.event].request # r
     \/ executions[r.event].state = "absent" /\ ~KeysFree(r)
  /\ submits' = [submits EXCEPT ![c] = NoSubmit]
  /\ UNCHANGED <<executions, effects, alarm, worker, linked, crashes, rearms, lateCalls>>

\* POST /effects/retry: an operator rearms one dead-lettered effect.
retryEffect(k) ==
  /\ rearms < MaxRearms
  /\ effects[k].state = "dead_letter"
  /\ effects' = [effects EXCEPT ![k].state = "pending", ![k].attempts = 0, ![k].wait = 0]
  /\ executions' = updateExecutionState(effects', {effects[k].event})
  /\ setNextAlarm(effects')
  /\ rearms' = rearms + 1
  /\ UNCHANGED <<worker, submits, linked, crashes, lateCalls>>

-----------------------------------------------------------------------------
\* alarm(): the platform clears the alarm and starts the handler, which asks
\* the registry for the integration.
AlarmFires ==
  /\ alarm = 0
  /\ worker.pc = "idle"
  /\ alarm' = NoAlarm
  /\ worker' = [Idle EXCEPT !.pc = "reading"]
  /\ UNCHANGED <<executions, effects, submits, linked, crashes, rearms, lateCalls>>

RegistryAnswers_FaultStatusIgnored ==
  /\ worker.pc = "reading"
  /\ worker' = [worker EXCEPT !.pc = "batch", !.linked = TRUE]
  /\ UNCHANGED <<executions, effects, alarm, submits, linked, crashes, rearms, lateCalls>>

RegistryAnswers ==
  /\ worker.pc = "reading"
  /\ worker' = [worker EXCEPT !.pc = "batch", !.linked = linked]
  /\ UNCHANGED <<executions, effects, alarm, submits, linked, crashes, rearms, lateCalls>>

RegistryFails_FaultNotRearmed ==
  /\ worker.pc = "reading"
  /\ worker' = Idle
  /\ UNCHANGED <<executions, effects, alarm, submits, linked, crashes, rearms, lateCalls>>

\* The registry call throws: no attempt is consumed, the batch is put off.
RegistryFails ==
  /\ worker.pc = "reading"
  /\ alarm' = RETRY_BASE_DELAY
  /\ worker' = Idle
  /\ UNCHANGED <<executions, effects, submits, linked, crashes, rearms, lateCalls>>

deadLetterRemaining ==
  LET rows == Live(effects) IN
  /\ worker.pc = "batch"
  /\ ~worker.linked
  /\ effects' = [k \in Keys |-> IF k \in rows
                   THEN [effects[k] EXCEPT !.state = "dead_letter", !.wait = 0]
                   ELSE effects[k]]
  /\ executions' = updateExecutionState(effects', {effects[k].event : k \in rows})
  /\ setNextAlarm(effects')
  /\ worker' = Idle
  /\ UNCHANGED <<submits, linked, crashes, rearms, lateCalls>>

claimEffect_FaultOneMore(k) ==
  /\ worker.pc = "batch" /\ worker.linked
  /\ worker.processed <= MAX_EFFECTS_PER_ALARM
  /\ k \in Due
  /\ effects' = [effects EXCEPT ![k] = [@ EXCEPT !.state = "attempting", !.wait = ATTEMPT_LEASE,
                                                 !.attempts = @ + 1]]
  /\ worker' = [worker EXCEPT !.pc = "delivering", !.effect = k, !.processed = @ + 1]
  /\ UNCHANGED <<executions, alarm, submits, linked, crashes, rearms, lateCalls>>

\* firstDueEffect and claimEffect; the handler is called in the same step.
claimEffect(k) ==
  /\ worker.pc = "batch"
  /\ worker.linked
  /\ worker.processed < MAX_EFFECTS_PER_ALARM
  /\ k \in Due
  /\ effects' = [effects EXCEPT ![k].state = "attempting",
                                ![k].attempts = effects[k].attempts + 1,
                                ![k].wait = ATTEMPT_LEASE]
  /\ worker' = [worker EXCEPT !.pc = "delivering", !.effect = k, !.accepted = FALSE,
                              !.processed = worker.processed + 1]
  /\ UNCHANGED <<executions, alarm, submits, linked, crashes, rearms, lateCalls>>

\* The external platform accepts the request handler.deliver() made.
PlatformAccepts ==
  /\ worker.pc = "delivering"
  /\ ~worker.accepted
  /\ worker' = [worker EXCEPT !.accepted = TRUE]
  /\ effects' = [effects EXCEPT ![worker.effect].sent = effects[worker.effect].sent + 1]
  /\ lateCalls' = IF linked THEN lateCalls ELSE lateCalls + 1
  /\ UNCHANGED <<executions, alarm, submits, linked, crashes, rearms>>

NextEffect == [worker EXCEPT !.pc = "batch", !.effect = "none", !.accepted = FALSE]

\* handler.deliver() returned: completeEffect
completeEffect ==
  LET k == worker.effect IN
  /\ worker.pc = "delivering"
  /\ worker.accepted
  /\ IF effects[k].state = "attempting"
     THEN /\ effects' = [effects EXCEPT ![k].state = "delivered", ![k].wait = 0]
          /\ executions' = updateExecutionState(effects', {effects[k].event})
     ELSE UNCHANGED <<effects, executions>>
  /\ worker' = NextEffect
  /\ UNCHANGED <<alarm, submits, linked, crashes, rearms, lateCalls>>

\* handler.deliver() threw, before or after the platform acted: failEffect
Orphan(k) == effects[k].orphaned + (IF worker.accepted THEN 1 ELSE 0)

RetryLater_FaultNoLimit(k) ==
  /\ effects' = [effects EXCEPT ![k].state = "retry_wait", ![k].wait = 1,
                                ![k].orphaned = Orphan(k)]
  /\ UNCHANGED executions

RetryLater(k) ==
  /\ effects[k].attempts < MAX_DELIVERY_ATTEMPTS
  /\ effects' = [effects EXCEPT ![k].state = "retry_wait",
                                ![k].wait = Backoff[effects[k].attempts],
                                ![k].orphaned = Orphan(k)]
  /\ UNCHANGED executions

DeadLetter(k, retryable) ==
  /\ ~retryable \/ effects[k].attempts >= MAX_DELIVERY_ATTEMPTS
  /\ effects' = [effects EXCEPT ![k].state = "dead_letter", ![k].wait = 0,
                                ![k].orphaned = Orphan(k)]
  /\ executions' = updateExecutionState(effects', {effects[k].event})

failEffect(retryable) ==
  LET k == worker.effect IN
  /\ worker.pc = "delivering"
  /\ IF effects[k].state = "attempting"
     THEN (retryable /\ RetryLater(k)) \/ DeadLetter(k, retryable)
     ELSE UNCHANGED <<effects, executions>>
  /\ worker' = NextEffect
  /\ UNCHANGED <<alarm, submits, linked, crashes, rearms, lateCalls>>

AlarmEnds_FaultNotRearmed ==
  /\ worker.pc = "batch" /\ worker.linked
  /\ worker.processed > 0 \/ Due = {}
  /\ pruneCompletedExecutions
  /\ worker' = Idle
  /\ UNCHANGED <<alarm, submits, linked, crashes, rearms, lateCalls>>

\* The loop stops (nothing due, twenty effects, or five seconds after at least
\* one effect); prune, and finally setNextAlarm.
AlarmEnds ==
  /\ worker.pc = "batch"
  /\ worker.linked
  /\ worker.processed > 0 \/ Due = {}
  /\ pruneCompletedExecutions
  /\ setNextAlarm(effects')
  /\ worker' = Idle
  /\ UNCHANGED <<submits, linked, crashes, rearms, lateCalls>>

-----------------------------------------------------------------------------
\* The object is evicted while it waits.  An alarm() that did not return is
\* started again, unless setAlarm was called meanwhile.
Crash ==
  /\ crashes < MaxCrashes
  /\ worker.pc # "idle" \/ \E c \in Callers : submits[c].stage # "none"
  /\ crashes' = crashes + 1
  /\ alarm' = IF worker.pc # "idle" /\ alarm = NoAlarm THEN 0 ELSE alarm
  /\ effects' = IF worker.accepted
                THEN [effects EXCEPT ![worker.effect].orphaned =
                                        effects[worker.effect].orphaned + 1]
                ELSE effects
  /\ worker' = Idle
  /\ submits' = [c \in Callers |-> NoSubmit]
  /\ UNCHANGED <<executions, linked, rearms, lateCalls>>

\* beginIntegrationRevocation in the registry: active -> revoking, for good.
Revoke ==
  /\ linked
  /\ linked' = FALSE
  /\ UNCHANGED <<executions, effects, alarm, worker, submits, crashes, rearms, lateCalls>>

Down(n) == IF n > 0 THEN n - 1 ELSE n
Timed == \/ alarm > 0
         \/ \E k \in Keys : effects[k].wait > 0
         \/ \E ev \in Events : executions[ev].ttl > 0
Tick ==
  /\ Timed
  /\ alarm' = Down(alarm)
  /\ effects' = [k \in Keys |-> [effects[k] EXCEPT !.wait = Down(effects[k].wait)]]
  /\ executions' = [ev \in Events |->
       [executions[ev] EXCEPT !.ttl = Down(executions[ev].ttl)]]
  /\ UNCHANGED <<worker, submits, linked, crashes, rearms, lateCalls>>

-----------------------------------------------------------------------------
Init ==
  /\ executions = [ev \in Events |-> NoExecution]
  /\ effects = [k \in Keys |-> NoEffect]
  /\ alarm = NoAlarm
  /\ worker = Idle
  /\ submits = [c \in Callers |-> NoSubmit]
  /\ linked = TRUE
  /\ crashes = 0
  /\ rearms = 0
  /\ lateCalls = 0

SubmitStep(c) ==
  \/ \E r \in Requests : SubmitStart(c, r)
  \/ MembershipConfirmed(c) \/ MembershipRefused(c)
  \/ SubmitCommit(c) \/ SubmitReplay(c) \/ SubmitConflict(c)

DeliveryEnds == completeEffect \/ \E retryable \in BOOLEAN : failEffect(retryable)

AlarmStep ==
  \/ AlarmFires \/ RegistryAnswers \/ RegistryFails \/ deadLetterRemaining
  \/ (\E k \in Keys : claimEffect(k))
  \/ PlatformAccepts \/ DeliveryEnds \/ AlarmEnds

Next ==
  \/ \E c \in Callers : SubmitStep(c)
  \/ \E k \in Keys : retryEffect(k)
  \/ AlarmStep
  \/ Crash \/ Revoke \/ Tick

Spec == Init /\ [][Next]_vars

\* Fairness: the platform runs a due alarm and time passes; the registry is
\* not unreachable for ever (SF: a call may fail any number of times first);
\* a platform call and the synchronous code after it end.
Fairness ==
  /\ WF_vars(Tick)
  /\ WF_vars(AlarmFires)
  /\ SF_vars(RegistryAnswers)
  /\ WF_vars(deadLetterRemaining)
  /\ WF_vars((\E k \in Keys : claimEffect(k)) \/ AlarmEnds)
  /\ WF_vars(DeliveryEnds)

FairSpec == Spec /\ Fairness

-----------------------------------------------------------------------------
\* The rows have the types of their columns.
TypeOK ==
  /\ executions \in [Events -> Execution]
  /\ effects \in [Keys -> Effect]
  /\ alarm \in Nat \cup {NoAlarm}
  /\ worker \in Worker
  /\ submits \in [Callers -> Submit]
  /\ linked \in BOOLEAN
  /\ crashes \in 0 .. MaxCrashes
  /\ rearms \in 0 .. MaxRearms
  /\ lateCalls \in Nat

\* The two tables agree (integration_executions.state against the effects):
\* a recorded execution owns exactly the effects of its request and its state
\* is the summary updateExecutionState computes; an absent one owns none.
LedgerConsistent ==
  \A ev \in Events :
    IF executions[ev].state = "absent" THEN EffectsOf(effects, ev) = {}
    ELSE /\ executions[ev].request.event = ev
         /\ EffectsOf(effects, ev) = executions[ev].request.keys
         /\ executions[ev].state = ExecutionState(effects, ev)

\* No accepted effect is left without something that will pick it up: while
\* one is outstanding, alarm() is running or the alarm is set, no later than
\* the earliest next_attempt_at_ms or the put-off after a registry outage.
NoStrandedEffect ==
  worker.pc = "idle" =>
    \A k \in Live(effects) :
      /\ alarm # NoAlarm
      /\ alarm <= effects[k].wait \/ alarm <= RETRY_BASE_DELAY

\* At-least-once, and no duplicate without a cause: every call the platform
\* accepted for an effect is the recorded delivery, the call in progress, or
\* one whose outcome was lost (a throw after acceptance, or an eviction).
\* With no such loss an effect reaches the platform at most once.
EveryCallAccounted ==
  \A k \in Keys :
    effects[k].sent = effects[k].orphaned
                      + (IF effects[k].state = "delivered" THEN 1 ELSE 0)
                      + (IF worker.accepted /\ worker.effect = k THEN 1 ELSE 0)

\* Revoking a link stops platform calls: after it, at most the rest of the
\* one batch that read the registry before (MAX_EFFECTS_PER_ALARM) calls out.
RevocationBoundsCalls == lateCalls <= MAX_EFFECTS_PER_ALARM

\* claimEffect has no attempt limit of its own; only an eviction between the
\* claim and failEffect takes an effect past MAX_DELIVERY_ATTEMPTS.
AttemptsExplained ==
  \A k \in Keys : effects[k].attempts <= MAX_DELIVERY_ATTEMPTS + crashes

\* Every accepted execution settles: each of its effects is delivered or
\* dead-lettered, whatever outages, lost responses and (boundedly many)
\* evictions occur and whether or not the link is revoked.
EveryExecutionSettles ==
  \A ev \in Events : executions[ev].state = "pending" ~> executions[ev].state # "pending"

\* The outbox implements the ledger it promises.
Outcome(s) == CASE s \in Nonterminal -> "outstanding"
                [] s = "dead_letter" -> "failed"
                [] OTHER -> s

Ledger == INSTANCE EffectLedger WITH
  accepted <- [ev \in Events |-> executions[ev].request],
  owner <- [k \in Keys |-> effects[k].event],
  outcome <- [k \in Keys |-> Outcome(effects[k].state)],
  status <- [ev \in Events |-> executions[ev].state]

ImplementsLedger == Ledger!Spec
-----------------------------------------------------------------------------
\* The inductive invariants the proofs use: IInv for TypeOK and
\* LedgerConsistent, and on top of it one for each delivery property.
EffectRows ==
  \A k \in Keys :
    /\ effects[k].state = "absent" <=> effects[k].event = "none"
    /\ effects[k].state = "attempting" => effects[k].attempts > 0

ExecutionRows ==
  \A ev \in Events :
    executions[ev].state = "absent" <=> executions[ev].request = NoRequest

SubmitsInMemory ==
  \A c \in Callers : submits[c].stage # "none" => submits[c].request \in Requests

WorkerInMemory ==
  /\ worker.pc = "delivering" =>
       worker.linked /\ worker.effect \in Keys
       /\ effects[worker.effect].state = "attempting"
  /\ worker.accepted => worker.pc = "delivering"

IInv == /\ TypeOK /\ EffectRows /\ ExecutionRows
        /\ SubmitsInMemory /\ WorkerInMemory /\ LedgerConsistent

\* The platform calls the running batch may still make.
CallsLeft ==
  IF worker.pc \in {"batch", "delivering"} /\ worker.linked
  THEN (MAX_EFFECTS_PER_ALARM - worker.processed)
       + (IF worker.pc = "delivering" /\ ~worker.accepted THEN 1 ELSE 0)
  ELSE 0
RevocationIInv == /\ linked => lateCalls = 0
                  /\ lateCalls + CallsLeft <= MAX_EFFECTS_PER_ALARM

\* Only the effect being delivered may have used up its attempts and be live.
InDelivery(k) == worker.pc = "delivering" /\ worker.effect = k
AttemptsIInv ==
  \A k \in Keys :
    /\ effects[k].attempts <= MAX_DELIVERY_ATTEMPTS + crashes
    /\ k \in Live(effects) /\ ~InDelivery(k) =>
         effects[k].attempts < MAX_DELIVERY_ATTEMPTS + crashes

\* The alarm set while alarm() runs is kept by an eviction, so it must be early
\* enough for the retry the running delivery will schedule.
WakeIInv ==
  /\ worker.pc = "idle" /\ Live(effects) # {} => alarm # NoAlarm
  /\ \A k \in Live(effects) : alarm <= effects[k].wait \/ alarm <= RETRY_BASE_DELAY
  /\ \A k \in Keys : effects[k].state = "attempting" => effects[k].wait <= ATTEMPT_LEASE
=============================================================================

-------------------- MODULE CoordinatorAndChannelProofs --------------------
(***************************************************************************)
(* Proofs about the effect outbox, for every set of events, keys, callers  *)
(* and requests and every value of the limits and durations: the invariant *)
(* of the tables (IInv); what a revocation stops, how many attempts an     *)
(* effect can see and that every call is accounted for, each from IInv and *)
(* an invariant of its own; and that the outbox implements EffectLedger.   *)
(*                                                                         *)
(* In the second half, proofs about one Twitch channel (Chan), for every   *)
(* set of flows, subscription types and tokens and every setting: the      *)
(* types of its parts and that it keeps its promises.  Neither part uses   *)
(* the other.  A step of the channel is proved for the part that takes it  *)
(* (the authorization object, the OAuth coordinator, the manager with its  *)
(* service, Twitch) with lemmas that say the others stay as they were.     *)
(***************************************************************************)
EXTENDS IntegrationCoordinator, SequenceTheorems, TLAPS

USE IdsAssumption, RequestsAssumption

\* The columns of the tables, as TypeOK states them.
Rows == /\ executions \in [Events -> Execution]
        /\ effects \in [Keys -> Effect]

\* Everything IInv says about the two tables alone.
Tables == Rows /\ EffectRows /\ ExecutionRows /\ LedgerConsistent

-----------------------------------------------------------------------------
\* A completed execution has no outstanding effect, so pruning the expired
\* ones leaves the tables consistent and touches no effect being delivered.
LEMMA PruneTables ==
  ASSUME Tables, pruneCompletedExecutions
  PROVE  Tables' /\ (\A k \in Live(effects) : effects'[k] = effects[k])
<1>1. \A k \in Live(effects) : effects[k].event \notin Expired
 BY DEF Tables, LedgerConsistent, Rows, Expired, ExecutionState, EffectsOf, Live, CompletedStates
<1>2. Rows'
 BY DurationsAssumption DEF Tables, Rows, pruneCompletedExecutions, NoExecution, NoEffect, NoRequest, Execution,
    Effect
<1>3. EffectRows' /\ ExecutionRows'
 BY DEF Tables, EffectRows, ExecutionRows, pruneCompletedExecutions, NoExecution, NoEffect
<1>4. LedgerConsistent'
 <2> SUFFICES ASSUME NEW ev \in Events
              PROVE  (IF executions[ev].state = "absent" THEN EffectsOf(effects, ev) = {}
                      ELSE /\ executions[ev].request.event = ev
                           /\ EffectsOf(effects, ev) = executions[ev].request.keys
                           /\ executions[ev].state = ExecutionState(effects, ev))' BY DEF LedgerConsistent
 <2>1. CASE ev \in Expired
  BY <2>1,<1>2 DEF Tables, EffectRows, pruneCompletedExecutions, NoExecution, NoEffect, EffectsOf
 <2>2. CASE ev \notin Expired
  <3>1. executions'[ev] = executions[ev] BY <2>2 DEF pruneCompletedExecutions
  <3>2. EffectsOf(effects', ev) = EffectsOf(effects, ev) BY <2>2 DEF pruneCompletedExecutions, EffectsOf, NoEffect
  <3>3. \A k \in EffectsOf(effects, ev) : effects'[k] = effects[k] BY <2>2 DEF pruneCompletedExecutions, EffectsOf
  <3>4. ExecutionState(effects', ev) = ExecutionState(effects, ev)
   BY <3>2,<3>3 DEF ExecutionState, EffectsOf, Live
  <3> QED BY <3>1,<3>2,<3>4 DEF Tables, LedgerConsistent
 <2> QED BY <2>1,<2>2
<1>5. \A k \in Live(effects) : effects'[k] = effects[k] BY <1>1 DEF pruneCompletedExecutions, Live
<1> QED BY <1>2,<1>3,<1>4,<1>5 DEF Tables

\* updateExecutionState restores consistency after the effects of the events
\* in evs changed state (and no other effect did).
LEMMA UpdateTables ==
  ASSUME Tables, NEW evs \in SUBSET Events,
         effects' \in [Keys -> Effect], EffectRows',
         \A k \in Keys : effects'[k].event = effects[k].event,
         \A k \in Keys : effects[k].event \notin evs =>
                            effects'[k].state = effects[k].state,
         \A ev \in evs : executions[ev].state # "absent",
         executions' = updateExecutionState(effects', evs)
  PROVE  Tables'
<1>1. executions' \in [Events -> Execution]
 <2>1. \A ev \in Events : ExecutionState(effects', ev) \in {"pending"} \cup CompletedStates
  BY DEF ExecutionState, CompletedStates
 <2>2. 0 \in 0 .. COMPLETED_EXECUTION_TTL
       /\ COMPLETED_EXECUTION_TTL \in 0 .. COMPLETED_EXECUTION_TTL BY DurationsAssumption
 <2> QED BY <2>1,<2>2 DEF Tables, Rows, updateExecutionState, Execution
<1>2. ExecutionRows' BY <1>1 DEF Tables, ExecutionRows, Rows, updateExecutionState, ExecutionState, Execution
<1>3. LedgerConsistent'
 <2> SUFFICES ASSUME NEW ev \in Events
              PROVE  (IF executions[ev].state = "absent" THEN EffectsOf(effects, ev) = {}
                      ELSE /\ executions[ev].request.event = ev
                           /\ EffectsOf(effects, ev) = executions[ev].request.keys
                           /\ executions[ev].state = ExecutionState(effects, ev))' BY DEF LedgerConsistent
 <2>1. EffectsOf(effects', ev) = EffectsOf(effects, ev) BY DEF EffectsOf
 <2>2. executions'[ev].request = executions[ev].request BY DEF updateExecutionState, Tables, Rows, Execution
 <2>3. CASE ev \in evs
  <3>1. executions'[ev].state = ExecutionState(effects', ev)
   BY <2>3 DEF updateExecutionState, Tables, Rows, Execution
  <3>2. executions'[ev].state # "absent" BY <3>1 DEF ExecutionState
  <3> QED BY <2>1,<2>2,<2>3,<3>1,<3>2 DEF Tables, LedgerConsistent
 <2>4. CASE ev \notin evs
  <3>1. executions'[ev] = executions[ev] BY <2>4 DEF updateExecutionState
  <3>2. \A k \in EffectsOf(effects, ev) : effects'[k].state = effects[k].state BY <2>4 DEF EffectsOf
  <3>3. ExecutionState(effects', ev) = ExecutionState(effects, ev)
   BY <2>1,<3>2 DEF ExecutionState, EffectsOf, Live
  <3> QED BY <2>1,<3>1,<3>3 DEF Tables, LedgerConsistent
 <2> QED BY <2>3,<2>4
<1> QED BY <1>1,<1>2,<1>3 DEF Tables, Rows

\* The tables stay consistent when no row changes.
LEMMA SameTables ==
  ASSUME Tables, UNCHANGED <<executions, effects>>
  PROVE  Tables'
<1>1. Rows' /\ EffectRows' /\ ExecutionRows' BY DEF Tables, Rows, EffectRows, ExecutionRows
<1>2. LedgerConsistent' BY DEF Tables, LedgerConsistent, EffectsOf, ExecutionState, Live
<1> QED BY <1>1,<1>2 DEF Tables

\* The alarm that setNextAlarm leaves is unset or a countdown.
LEMMA NextAlarmType ==
  ASSUME NEW effs \in [Keys -> Effect], setNextAlarm(effs)
  PROVE  alarm' \in Nat \cup {NoAlarm}
BY DEF setNextAlarm, Effect, Live

\* An attempt's row belongs to a recorded, pending execution.
LEMMA LiveOwner ==
  ASSUME Tables, NEW k \in Live(effects)
  PROVE  effects[k].event \in Events /\ executions[effects[k].event].state = "pending"
<1>1. effects[k].event \in Events BY DEF Tables, Rows, EffectRows, Live, Nonterminal, Effect
<1>2. k \in EffectsOf(effects, effects[k].event) BY DEF EffectsOf, Live
<1> QED BY <1>1,<1>2 DEF Tables, LedgerConsistent, ExecutionState

-----------------------------------------------------------------------------
\* What IInv says outside the tables.
MemoryTypes ==
  /\ alarm \in Nat \cup {NoAlarm}
  /\ worker \in Worker
  /\ submits \in [Callers -> Submit]
  /\ linked \in BOOLEAN
  /\ crashes \in 0 .. MaxCrashes
  /\ rearms \in 0 .. MaxRearms
  /\ lateCalls \in Nat

\* The idle alarm handler is a value of the type of worker.
LEMMA IdleType == Idle \in Worker
BY DurationsAssumption DEF Idle, Worker

\* The strengthening, split into the parts the lemmas establish.
LEMMA IInvParts == IInv <=> Tables /\ MemoryTypes /\ SubmitsInMemory /\ WorkerInMemory
BY DEF IInv, TypeOK, Tables, Rows, MemoryTypes

\* An object just created has empty tables and an idle alarm handler.
LEMMA InitIInv == Init => IInv
<1> SUFFICES ASSUME Init PROVE Tables /\ MemoryTypes /\ SubmitsInMemory /\ WorkerInMemory BY IInvParts
<1>1. Tables
 <2>1. Rows BY DurationsAssumption DEF Init, Rows, NoExecution, NoEffect, NoRequest, Execution, Effect
 <2>2. EffectRows /\ ExecutionRows BY DEF Init, EffectRows, ExecutionRows, NoExecution, NoEffect
 <2>3. LedgerConsistent BY DEF Init, LedgerConsistent, EffectsOf, NoExecution, NoEffect
 <2> QED BY <2>1,<2>2,<2>3 DEF Tables
<1>2. MemoryTypes BY IdleType, DurationsAssumption DEF Init, MemoryTypes, NoSubmit, Submit
<1>3. SubmitsInMemory /\ WorkerInMemory BY DEF Init, SubmitsInMemory, WorkerInMemory, NoSubmit, Idle
<1> QED BY <1>1,<1>2,<1>3

\* Each step of a submission.
LEMMA SubmitIInv ==
  ASSUME Tables, MemoryTypes, SubmitsInMemory, WorkerInMemory, NEW c \in Callers, SubmitStep(c)
  PROVE  Tables' /\ MemoryTypes' /\ SubmitsInMemory' /\ WorkerInMemory'
<1>1. CASE \E r \in Requests : SubmitStart(c, r)
 <2> PICK r \in Requests : SubmitStart(c, r) BY <1>1
 <2>1. Tables' /\ (\A k \in Live(effects) : effects'[k] = effects[k]) BY PruneTables DEF SubmitStart
 <2>2. MemoryTypes' BY DEF SubmitStart, MemoryTypes, Submit
 <2>3. SubmitsInMemory' /\ WorkerInMemory'
  BY <2>1 DEF SubmitStart, MemoryTypes, SubmitsInMemory, WorkerInMemory, Live, Nonterminal, Submit
 <2> QED BY <2>1,<2>2,<2>3
<1>2. CASE MembershipConfirmed(c)
 <2>1. Tables' BY <1>2, SameTables DEF MembershipConfirmed
 <2>2. MemoryTypes' /\ SubmitsInMemory' /\ WorkerInMemory'
  BY <1>2 DEF MembershipConfirmed, MemoryTypes, SubmitsInMemory, WorkerInMemory, Submit
 <2> QED BY <2>1,<2>2
<1>3. CASE MembershipRefused(c) \/ SubmitConflict(c)
 <2>1. /\ UNCHANGED <<executions, effects, alarm, worker, linked, crashes, rearms, lateCalls>>
       /\ submits' = [submits EXCEPT ![c] = NoSubmit] BY <1>3 DEF MembershipRefused, SubmitConflict
 <2>2. Tables' BY <2>1, SameTables
 <2>3. MemoryTypes' BY <2>1 DEF MemoryTypes, Submit, NoSubmit
 <2>4. SubmitsInMemory' /\ WorkerInMemory' BY <2>1 DEF MemoryTypes, SubmitsInMemory, WorkerInMemory, NoSubmit
 <2> QED BY <2>2,<2>3,<2>4
<1>4. CASE SubmitReplay(c)
 <2>1. Tables' BY <1>4, SameTables DEF SubmitReplay
 <2>2. alarm' \in Nat \cup {NoAlarm} BY <1>4, NextAlarmType DEF SubmitReplay, Tables, Rows
 <2>3. MemoryTypes' /\ SubmitsInMemory' /\ WorkerInMemory'
  BY <1>4,<2>2 DEF SubmitReplay, MemoryTypes, SubmitsInMemory, WorkerInMemory, Submit, NoSubmit
 <2> QED BY <2>1,<2>3
<1>5. CASE SubmitCommit(c)
 <2> DEFINE r == submits[c].request
 <2>1. r \in Requests /\ r.event \in Events /\ r.keys \in SUBSET Keys
  BY <1>5 DEF SubmitCommit, SubmitsInMemory, WorkerInMemory
 <2>2. executions[r.event] .state = "absent" /\ (\A k \in r.keys : effects[k].state = "absent")
  BY <1>5 DEF SubmitCommit, KeysFree
 <2>3. Rows'
  <3>1. executions' \in [Events -> Execution]
   <4> DEFINE x == [state |-> IF r.keys = {} THEN "completed" ELSE "pending",
                    request |-> r,
                    ttl |-> IF r.keys = {} THEN COMPLETED_EXECUTION_TTL ELSE 0]
   <4>1. x \in Execution BY <2>1, DurationsAssumption DEF Execution, CompletedStates
   <4>2. executions' = [executions EXCEPT ![r.event] = x] BY <1>5 DEF SubmitCommit
   <4> QED BY <4>1,<4>2 DEF Tables, Rows
  <3>2. effects' \in [Keys -> Effect]
   <4>1. [NoEffect EXCEPT !.state = "pending", !.event = r.event] \in Effect
    BY <2>1 DEF NoEffect, Effect, Nonterminal
   <4> QED BY <1>5,<4>1 DEF SubmitCommit, Tables, Rows
  <3> QED BY <3>1,<3>2 DEF Rows
 <2>4. EffectRows' /\ ExecutionRows'
  BY <1>5,<2>1,<2>3 DEF SubmitCommit, Tables, Rows, EffectRows, ExecutionRows, NoEffect, NoRequest
 <2>5. LedgerConsistent'
  <3> SUFFICES ASSUME NEW ev \in Events
               PROVE  (IF executions[ev].state = "absent" THEN EffectsOf(effects, ev) = {}
                       ELSE /\ executions[ev].request.event = ev
                            /\ EffectsOf(effects, ev) = executions[ev].request.keys
                            /\ executions[ev].state = ExecutionState(effects, ev))' BY DEF LedgerConsistent
  <3>1. \A k \in Keys : effects'[k] = IF k \in r.keys
              THEN [NoEffect EXCEPT !.state = "pending", !.event = r.event] ELSE effects[k]
   BY <1>5 DEF SubmitCommit
  <3>2. \A k \in r.keys : effects[k].event = "none" BY <2>1,<2>2 DEF Tables, EffectRows
  <3>3. CASE ev = r.event
   <4>1. executions'[ev].state # "absent" /\ executions'[ev].request = r
         /\ executions'[ev].state = IF r.keys = {} THEN "completed" ELSE "pending"
    BY <1>5,<2>1,<3>3 DEF SubmitCommit, Tables, Rows
   <4>2. EffectsOf(effects, ev) = {} BY <2>2,<3>3 DEF Tables, LedgerConsistent
   <4>3. EffectsOf(effects', ev) = r.keys BY <2>1,<3>1,<3>3,<4>2 DEF EffectsOf, NoEffect
   <4>4. \A k \in r.keys : effects'[k].state = "pending" BY <2>1,<3>1 DEF NoEffect
   <4>5. executions'[ev].state = ExecutionState(effects', ev)
    BY <2>1,<4>1,<4>3,<4>4 DEF ExecutionState, Live, Nonterminal
   <4> QED BY <3>3,<4>1,<4>3,<4>5
  <3>4. CASE ev # r.event
   <4>1. executions'[ev] = executions[ev] BY <1>5,<3>4 DEF SubmitCommit, Tables, Rows
   <4>2. EffectsOf(effects', ev) = EffectsOf(effects, ev) BY <2>1,<3>1,<3>2,<3>4 DEF EffectsOf, NoEffect
   <4>3. \A k \in EffectsOf(effects, ev) : effects'[k] = effects[k] BY <3>1,<3>2 DEF EffectsOf
   <4>4. ExecutionState(effects', ev) = ExecutionState(effects, ev)
    BY <4>2,<4>3 DEF ExecutionState, EffectsOf, Live
   <4> QED BY <4>1,<4>2,<4>4 DEF Tables, LedgerConsistent
  <3> QED BY <3>3,<3>4
 <2>6. alarm' \in Nat \cup {NoAlarm} BY <1>5,<2>3, NextAlarmType DEF SubmitCommit, Rows
 <2>7. MemoryTypes' BY <1>5,<2>6 DEF SubmitCommit, MemoryTypes, Submit, NoSubmit
 <2>8. SubmitsInMemory' /\ WorkerInMemory'
  BY <1>5,<2>1,<2>2 DEF SubmitCommit, MemoryTypes, SubmitsInMemory, WorkerInMemory, NoSubmit
 <2> QED BY <2>3,<2>4,<2>5,<2>7,<2>8 DEF Tables
<1> QED BY <1>1,<1>2,<1>3,<1>4,<1>5 DEF SubmitStep

\* An operator's retry (retryEffect) rearms one dead effect and recomputes its
\* execution.
LEMMA RetryIInv ==
  ASSUME Tables, MemoryTypes, SubmitsInMemory, WorkerInMemory, NEW k \in Keys, retryEffect(k)
  PROVE  Tables' /\ MemoryTypes' /\ SubmitsInMemory' /\ WorkerInMemory'
<1>1. effects' = [effects EXCEPT ![k].state = "pending", ![k].attempts = 0, ![k].wait = 0]
      /\ effects[k].state = "dead_letter" BY DEF retryEffect
<1>2. effects' \in [Keys -> Effect]
 <2>1. [effects[k] EXCEPT !.state = "pending", !.attempts = 0, !.wait = 0] \in Effect
  BY DEF Tables, Rows, Effect, Nonterminal
 <2> QED BY <1>1,<2>1 DEF Tables, Rows
<1>3. EffectRows'
 <2>1. \A x \in Keys : x # k => effects'[x] = effects[x] BY <1>1 DEF Tables, Rows
 <2>2. effects'[k].state = "pending" /\ effects'[k].event = effects[k].event BY <1>1 DEF Tables, Rows, Effect
 <2> QED BY <1>1,<2>1,<2>2 DEF Tables, EffectRows
<1>4. effects[k].event \in Events /\ executions[effects[k].event].state # "absent"
 BY <1>1 DEF Tables, Rows, EffectRows, Effect, LedgerConsistent, EffectsOf
<1>5. Tables'
 <2>1. \A x \in Keys : effects'[x].event = effects[x].event BY <1>1 DEF Tables, Rows
 <2>2. \A x \in Keys : effects[x].event \notin {effects[k].event} =>
                          effects'[x].state = effects[x].state BY <1>1 DEF Tables, Rows
 <2>3. executions' = updateExecutionState(effects', {effects[k].event}) BY DEF retryEffect
 <2> QED BY <1>2,<1>3,<1>4,<2>1,<2>2,<2>3, UpdateTables
<1>6. MemoryTypes'
 <2>1. alarm' \in Nat \cup {NoAlarm} BY <1>2, NextAlarmType DEF retryEffect
 <2>2. rearms' \in 0 .. MaxRearms BY DurationsAssumption DEF retryEffect, MemoryTypes
 <2> QED BY <2>1,<2>2 DEF retryEffect, MemoryTypes
<1>7. SubmitsInMemory' BY DEF retryEffect, SubmitsInMemory
<1>8. WorkerInMemory'
 <2>1. \A x \in Keys : x # k => effects'[x] = effects[x] BY <1>1 DEF Tables, Rows
 <2> QED BY <1>1,<2>1 DEF retryEffect, WorkerInMemory
<1> QED BY <1>5,<1>6,<1>7,<1>8

\* The alarm handler's steps that leave both tables alone.
LEMMA AlarmReadIInv ==
  ASSUME Tables, MemoryTypes, SubmitsInMemory, WorkerInMemory, AlarmFires \/ RegistryAnswers \/ RegistryFails
  PROVE  Tables' /\ MemoryTypes' /\ SubmitsInMemory' /\ WorkerInMemory'
<1>1. Tables' BY SameTables DEF AlarmFires, RegistryAnswers, RegistryFails
<1>2. SubmitsInMemory' BY DEF AlarmFires, RegistryAnswers, RegistryFails, SubmitsInMemory
<1>3. CASE AlarmFires \/ RegistryFails
 <2>1. worker' \in Worker BY <1>3, IdleType DEF AlarmFires, RegistryFails, Worker
 <2>2. WorkerInMemory' BY <1>3 DEF AlarmFires, RegistryFails, WorkerInMemory, Idle
 <2>3. MemoryTypes' BY <1>3,<2>1, DurationsAssumption DEF AlarmFires, RegistryFails, MemoryTypes
 <2> QED BY <1>1,<1>2,<2>2,<2>3
<1>4. CASE RegistryAnswers
 <2>1. MemoryTypes' BY <1>4 DEF RegistryAnswers, MemoryTypes, Worker
 <2>2. WorkerInMemory' BY <1>4 DEF RegistryAnswers, MemoryTypes, WorkerInMemory, Worker
 <2> QED BY <1>1,<1>2,<2>1,<2>2
<1> QED BY <1>3,<1>4

\* deadLetterRemaining closes every pending effect of one execution at once.
LEMMA DeadLetterRemainingIInv ==
  ASSUME Tables, MemoryTypes, SubmitsInMemory, WorkerInMemory, deadLetterRemaining
  PROVE  Tables' /\ MemoryTypes' /\ SubmitsInMemory' /\ WorkerInMemory'
<1>1. \A k \in Keys : effects'[k] = IF k \in Live(effects)
          THEN [effects[k] EXCEPT !.state = "dead_letter", !.wait = 0] ELSE effects[k] BY DEF deadLetterRemaining
<1>2. effects' \in [Keys -> Effect] BY DEF deadLetterRemaining, Tables, Rows, Effect
<1>3. EffectRows' BY <1>1 DEF Tables, Rows, EffectRows, Effect, Live, Nonterminal
<1>4. Tables'
 <2> DEFINE evs == {effects[k].event : k \in Live(effects)}
 <2>1. evs \in SUBSET Events /\ \A ev \in evs : executions[ev].state # "absent" BY LiveOwner
 <2>2. \A x \in Keys : effects'[x].event = effects[x].event BY <1>1 DEF Tables, Rows, Effect
 <2>3. \A x \in Keys : effects[x].event \notin evs => effects'[x].state = effects[x].state BY <1>1
 <2>4. executions' = updateExecutionState(effects', evs) BY DEF deadLetterRemaining
 <2> HIDE DEF evs
 <2> QED BY <1>2,<1>3,<2>1,<2>2,<2>3,<2>4, UpdateTables
<1>5. alarm' \in Nat \cup {NoAlarm} BY <1>2, NextAlarmType DEF deadLetterRemaining
<1>6. MemoryTypes' BY <1>5, IdleType DEF deadLetterRemaining, MemoryTypes
<1>7. SubmitsInMemory' /\ WorkerInMemory' BY DEF deadLetterRemaining, SubmitsInMemory, WorkerInMemory, Idle
<1> QED BY <1>4,<1>6,<1>7

\* claimEffect writes one row and remembers which one the handler delivers.
LEMMA ClaimIInv ==
  ASSUME Tables, MemoryTypes, SubmitsInMemory, WorkerInMemory, NEW k \in Keys, claimEffect(k)
  PROVE  Tables' /\ MemoryTypes' /\ SubmitsInMemory' /\ WorkerInMemory'
<1>1. effects' = [effects EXCEPT ![k].state = "attempting",
                                 ![k].attempts = effects[k].attempts + 1,
                                 ![k].wait = ATTEMPT_LEASE]
      /\ k \in Live(effects) /\ executions' = executions BY DEF claimEffect, Due
<1>2. effects' \in [Keys -> Effect] BY <1>1 DEF Tables, Rows, Effect, Nonterminal
<1>3. EffectRows' BY <1>1 DEF Tables, Rows, EffectRows, Effect, Live, Nonterminal
<1>4. \A x \in Keys : effects'[x].event = effects[x].event
                        /\ (x # k => effects'[x] = effects[x]) BY <1>1 DEF Tables, Rows
<1>5. Live(effects') = Live(effects)
      /\ \A x \in Keys : effects'[x].state = "dead_letter" <=> effects[x].state = "dead_letter"
 BY <1>1,<1>4 DEF Tables, Rows, Live, Nonterminal
<1>6. \A ev \in Events : EffectsOf(effects', ev) = EffectsOf(effects, ev)
                          /\ ExecutionState(effects', ev) = ExecutionState(effects, ev)
 BY <1>4,<1>5 DEF EffectsOf, ExecutionState
<1>7. Tables' BY <1>1,<1>2,<1>3,<1>6 DEF Tables, Rows, ExecutionRows, LedgerConsistent
<1>8. MemoryTypes'
 <2>1. worker.processed + 1 \in 0 .. MAX_EFFECTS_PER_ALARM
  BY DurationsAssumption DEF claimEffect, MemoryTypes, Worker
 <2>2. worker' \in Worker BY <2>1 DEF claimEffect, MemoryTypes, Worker
 <2> QED BY <2>2 DEF claimEffect, MemoryTypes
<1>9. SubmitsInMemory' BY DEF claimEffect, SubmitsInMemory
<1>10. WorkerInMemory'
 <2>1. effects'[k].state = "attempting" BY <1>1 DEF Tables, Rows, Effect
 <2>2. worker' = [worker EXCEPT !.pc = "delivering", !.effect = k, !.accepted = FALSE,
                                !.processed = worker.processed + 1]
       /\ worker.linked BY DEF claimEffect
 <2>3. worker'.linked /\ worker'.effect = k /\ ~worker'.accepted BY <2>2 DEF MemoryTypes, Worker
 <2> QED BY <2>1,<2>3 DEF WorkerInMemory
<1> QED BY <1>7,<1>8,<1>9,<1>10

\* Steps that leave the state and event columns alone keep the tables.
LEMMA SameStates ==
  ASSUME Tables, Rows',
         \A k \in Keys : effects'[k].event = effects[k].event
                          /\ effects'[k].state = effects[k].state
                          /\ effects'[k].attempts = effects[k].attempts,
         \A ev \in Events : executions'[ev].state = executions[ev].state
                             /\ executions'[ev].request = executions[ev].request
  PROVE  Tables'
<1>1. EffectRows' /\ ExecutionRows' BY DEF Tables, Rows, EffectRows, ExecutionRows
<1>2. Live(effects') = Live(effects) BY DEF Live
<1>3. \A ev \in Events : EffectsOf(effects', ev) = EffectsOf(effects, ev)
                          /\ ExecutionState(effects', ev) = ExecutionState(effects, ev)
 BY <1>2 DEF EffectsOf, ExecutionState
<1>4. LedgerConsistent' BY <1>3 DEF Tables, LedgerConsistent
<1> QED BY <1>1,<1>4 DEF Tables

\* The platform's acceptance changes no row.
LEMMA PlatformAcceptsIInv ==
  ASSUME Tables, MemoryTypes, SubmitsInMemory, WorkerInMemory, PlatformAccepts
  PROVE  Tables' /\ MemoryTypes' /\ SubmitsInMemory' /\ WorkerInMemory'
<1> DEFINE k == worker.effect
<1>1. /\ k \in Keys
      /\ effects' = [effects EXCEPT ![k].sent = effects[k].sent + 1]
      /\ executions' = executions BY DEF PlatformAccepts, SubmitsInMemory, WorkerInMemory
<1> HIDE DEF k
<1>2. Rows'
 <2>1. effects' \in [Keys -> Effect] BY <1>1 DEF Tables, Rows, Effect
 <2> QED BY <1>1,<2>1 DEF Tables, Rows
<1>3. \A x \in Keys : effects'[x].event = effects[x].event
                        /\ effects'[x].state = effects[x].state
                        /\ effects'[x].attempts = effects[x].attempts BY <1>1 DEF Tables, Rows, Effect
<1>4. Tables' BY <1>1,<1>2,<1>3, SameStates
<1>5. MemoryTypes'
 <2>1. worker' \in Worker BY DEF PlatformAccepts, MemoryTypes, Worker
 <2> QED BY <2>1 DEF PlatformAccepts, MemoryTypes
<1>6. SubmitsInMemory' BY DEF PlatformAccepts, SubmitsInMemory
<1>7. WorkerInMemory'
 <2>1. worker'.pc = "delivering" /\ worker'.linked = worker.linked
       /\ worker'.effect = worker.effect /\ worker.pc = "delivering" BY DEF PlatformAccepts, MemoryTypes, Worker
 <2> QED BY <1>1,<1>3,<2>1 DEF WorkerInMemory, k
<1> QED BY <1>4,<1>5,<1>6,<1>7

\* Time passing moves the columns the code compares with Date.now().
LEMMA TickIInv ==
  ASSUME Tables, MemoryTypes, SubmitsInMemory, WorkerInMemory, Tick
  PROVE  Tables' /\ MemoryTypes' /\ SubmitsInMemory' /\ WorkerInMemory'
<1>1. \A k \in Keys : effects'[k] = [effects[k] EXCEPT !.wait = Down(effects[k].wait)] BY DEF Tick
<1>2. \A ev \in Events :
        executions'[ev] = [executions[ev] EXCEPT !.ttl = Down(executions[ev].ttl)] BY DEF Tick
<1>3. effects' \in [Keys -> Effect]
 <2>1. \A n \in Nat : Down(n) \in Nat BY DEF Down
 <2>2. \A k \in Keys : [effects[k] EXCEPT !.wait = Down(effects[k].wait)] \in Effect
  BY <2>1 DEF Tables, Rows, Effect
 <2> QED BY <2>2 DEF Tick, Tables, Rows
<1>4. executions' \in [Events -> Execution]
 <2>1. \A n \in 0 .. COMPLETED_EXECUTION_TTL : Down(n) \in 0 .. COMPLETED_EXECUTION_TTL
  BY DurationsAssumption DEF Down
 <2>2. \A ev \in Events :
         [executions[ev] EXCEPT !.ttl = Down(executions[ev].ttl)] \in Execution
  BY <2>1 DEF Tables, Rows, Execution
 <2> QED BY <2>2 DEF Tick, Tables, Rows
<1>5. \A x \in Keys : effects'[x].event = effects[x].event
                        /\ effects'[x].state = effects[x].state
                        /\ effects'[x].attempts = effects[x].attempts
 <2> TAKE x \in Keys
 <2>1. effects[x] \in Effect BY DEF Tables, Rows
 <2> QED BY <1>1,<2>1 DEF Effect
<1>6. \A ev \in Events : executions'[ev].state = executions[ev].state
                          /\ executions'[ev].request = executions[ev].request
 <2> TAKE ev \in Events
 <2>1. executions[ev] \in Execution BY DEF Tables, Rows
 <2> QED BY <1>2,<2>1 DEF Execution
<1>7. Tables' BY <1>3,<1>4,<1>5,<1>6, SameStates DEF Rows
<1>8. MemoryTypes' BY DEF Tick, Down, MemoryTypes, NoAlarm
<1>9. SubmitsInMemory' /\ WorkerInMemory' BY <1>5 DEF Tick, SubmitsInMemory, WorkerInMemory
<1> QED BY <1>7,<1>8,<1>9

\* The delivery's end writes one row, whose execution is recomputed.
LEMMA SettleTables ==
  ASSUME Tables, NEW k \in Keys, effects[k].state = "attempting", NEW row \in Effect,
         row.state \in {"delivered", "dead_letter"}, row.event = effects[k].event,
         effects' = [effects EXCEPT ![k] = row],
         executions' = updateExecutionState(effects', {effects[k].event})
  PROVE  Tables'
<1>1. effects' \in [Keys -> Effect] BY DEF Tables, Rows
<1>2. \A x \in Keys : x # k => effects'[x] = effects[x] BY DEF Tables, Rows
<1>3. effects'[k] = row BY DEF Tables, Rows
<1>4. EffectRows' BY <1>2,<1>3 DEF Tables, EffectRows
<1>5. /\ \A x \in Keys : effects'[x].event = effects[x].event
      /\ \A x \in Keys : effects[x].event \notin {effects[k].event} =>
                            effects'[x].state = effects[x].state BY <1>2,<1>3
<1>6. effects[k].event \in Events /\ executions[effects[k].event].state # "absent"
 BY LiveOwner DEF Live, Nonterminal
<1> QED BY <1>1,<1>4,<1>5,<1>6, UpdateTables

\* Once a delivery ended the worker is back in its loop.
LEMMA NextEffectType ==
  ASSUME MemoryTypes
  PROVE  /\ NextEffect \in Worker /\ NextEffect.pc = "batch" /\ ~NextEffect.accepted
         /\ NextEffect.linked = worker.linked /\ NextEffect.processed = worker.processed
         /\ NextEffect.effect = "none"
BY DEF MemoryTypes, NextEffect, Worker

\* completeEffect records a delivered effect, unless its execution is gone.
LEMMA CompleteIInv ==
  ASSUME Tables, MemoryTypes, SubmitsInMemory, WorkerInMemory, completeEffect
  PROVE  Tables' /\ MemoryTypes' /\ SubmitsInMemory' /\ WorkerInMemory'
<1> DEFINE k == worker.effect
<1>1. k \in Keys /\ effects[k].state = "attempting" BY DEF completeEffect, WorkerInMemory
<1>2. /\ effects' = [effects EXCEPT ![k].state = "delivered", ![k].wait = 0]
      /\ executions' = updateExecutionState(effects', {effects[k].event}) BY <1>1 DEF completeEffect
<1> HIDE DEF k
<1>3. Tables'
 <2> DEFINE row == [effects[k] EXCEPT !.state = "delivered", !.wait = 0]
 <2>1. row \in Effect /\ row.state = "delivered" /\ row.event = effects[k].event BY <1>1 DEF Tables, Rows, Effect
 <2>2. effects' = [effects EXCEPT ![k] = row] BY <1>1,<1>2 DEF Tables, Rows
 <2> HIDE DEF row
 <2> QED BY <1>1,<1>2,<2>1,<2>2, SettleTables
<1>4. MemoryTypes' BY NextEffectType DEF completeEffect, MemoryTypes
<1>5. SubmitsInMemory' /\ WorkerInMemory' BY NextEffectType DEF completeEffect, SubmitsInMemory, WorkerInMemory
<1> QED BY <1>3,<1>4,<1>5

\* failEffect records a retry or a dead letter, unless its row is gone.
LEMMA FailIInv ==
  ASSUME Tables, MemoryTypes, SubmitsInMemory, WorkerInMemory,
         NEW retryable \in BOOLEAN, failEffect(retryable)
  PROVE  Tables' /\ MemoryTypes' /\ SubmitsInMemory' /\ WorkerInMemory'
<1> DEFINE k == worker.effect
<1>1. k \in Keys /\ effects[k].state = "attempting" BY DEF failEffect, WorkerInMemory
<1>2. RetryLater(k) \/ DeadLetter(k, retryable) BY <1>1 DEF failEffect
<1>3. MemoryTypes' BY NextEffectType DEF failEffect, MemoryTypes
<1>4. SubmitsInMemory' /\ WorkerInMemory' BY NextEffectType DEF failEffect, SubmitsInMemory, WorkerInMemory
<1> HIDE DEF k
<1>5. effects[k] \in Effect /\ Orphan(k) \in Nat BY <1>1 DEF Tables, Rows, Effect, Orphan
<1>6. CASE RetryLater(k)
 <2> DEFINE row == [effects[k] EXCEPT !.state = "retry_wait",
                                      !.wait = Backoff[effects[k].attempts],
                                      !.orphaned = Orphan(k)]
 <2>1. Backoff[effects[k].attempts] \in Nat
  BY <1>1,<1>5,<1>6, DurationsAssumption DEF RetryLater, Tables, EffectRows, Effect
 <2>2. row \in Effect /\ row.state = "retry_wait" /\ row.event = effects[k].event
  BY <1>5,<2>1 DEF Effect, Nonterminal
 <2>3. effects' = [effects EXCEPT ![k] = row] /\ executions' = executions
  BY <1>1,<1>6 DEF RetryLater, Tables, Rows
 <2> HIDE DEF row
 <2>4. effects'[k] = row /\ \A x \in Keys : x # k => effects'[x] = effects[x] BY <1>1,<2>3 DEF Tables, Rows
 <2>5. Rows' /\ EffectRows' BY <1>1,<2>2,<2>3,<2>4 DEF Tables, Rows, EffectRows
 <2>6. Live(effects') = Live(effects)
       /\ \A x \in Keys : effects'[x].state = "dead_letter" <=> effects[x].state = "dead_letter"
  BY <1>1,<2>2,<2>4 DEF Live, Nonterminal
 <2>7. \A ev \in Events : EffectsOf(effects', ev) = EffectsOf(effects, ev) BY <2>2,<2>4 DEF EffectsOf
 <2>8. \A ev \in Events : ExecutionState(effects', ev) = ExecutionState(effects, ev)
  BY <2>6,<2>7 DEF ExecutionState, EffectsOf
 <2>9. ExecutionRows' /\ LedgerConsistent' BY <2>3,<2>7,<2>8 DEF Tables, ExecutionRows, LedgerConsistent
 <2> QED BY <1>3,<1>4,<2>5,<2>9 DEF Tables
<1>7. CASE DeadLetter(k, retryable)
 <2> DEFINE row == [effects[k] EXCEPT !.state = "dead_letter", !.wait = 0,
                                      !.orphaned = Orphan(k)]
 <2>1. row \in Effect /\ row.state = "dead_letter" /\ row.event = effects[k].event BY <1>5 DEF Effect
 <2>2. /\ effects' = [effects EXCEPT ![k] = row]
       /\ executions' = updateExecutionState(effects', {effects[k].event})
  BY <1>1,<1>7 DEF DeadLetter, Tables, Rows
 <2> HIDE DEF row
 <2>3. Tables' BY <1>1,<2>1,<2>2, SettleTables
 <2> QED BY <1>3,<1>4,<2>3
<1> QED BY <1>2,<1>6,<1>7

\* The end of an alarm prunes settled executions and sets the next alarm.
LEMMA AlarmEndsIInv ==
  ASSUME Tables, MemoryTypes, SubmitsInMemory, WorkerInMemory, AlarmEnds
  PROVE  Tables' /\ MemoryTypes' /\ SubmitsInMemory' /\ WorkerInMemory'
<1>1. Tables' BY PruneTables DEF AlarmEnds
<1>2. alarm' \in Nat \cup {NoAlarm} BY <1>1, NextAlarmType DEF AlarmEnds, Tables, Rows
<1>3. MemoryTypes' BY <1>2, IdleType DEF AlarmEnds, MemoryTypes
<1>4. SubmitsInMemory' /\ WorkerInMemory' BY DEF AlarmEnds, SubmitsInMemory, WorkerInMemory, Idle
<1> QED BY <1>1,<1>3,<1>4

\* An eviction loses the handler's memory and keeps every row.
LEMMA CrashIInv ==
  ASSUME Tables, MemoryTypes, SubmitsInMemory, WorkerInMemory, Crash
  PROVE  Tables' /\ MemoryTypes' /\ SubmitsInMemory' /\ WorkerInMemory'
<1>1. MemoryTypes'
 <2>1. crashes' \in 0 .. MaxCrashes BY DurationsAssumption DEF Crash, MemoryTypes
 <2>2. submits' \in [Callers -> Submit] BY DEF Crash, NoSubmit, Submit
 <2> QED BY <2>1,<2>2, IdleType DEF Crash, MemoryTypes
<1>2. SubmitsInMemory' /\ WorkerInMemory' BY DEF Crash, SubmitsInMemory, WorkerInMemory, Idle, NoSubmit
<1>3. CASE ~worker.accepted BY <1>1,<1>2,<1>3, SameTables DEF Crash
<1>4. CASE worker.accepted
 <2> DEFINE k == worker.effect
 <2>1. /\ k \in Keys /\ executions' = executions
       /\ effects' = [effects EXCEPT ![k].orphaned = effects[k].orphaned + 1] BY <1>4 DEF Crash, WorkerInMemory
 <2> HIDE DEF k
 <2>2. effects' \in [Keys -> Effect] BY <2>1 DEF Tables, Rows, Effect
 <2>3. \A x \in Keys : effects'[x].event = effects[x].event
                        /\ effects'[x].state = effects[x].state
                        /\ effects'[x].attempts = effects[x].attempts BY <2>1 DEF Tables, Rows, Effect
 <2>4. Tables' BY <2>1,<2>2,<2>3, SameStates DEF Tables, Rows
 <2> QED BY <1>1,<1>2,<2>4
<1> QED BY <1>3,<1>4

\* A revocation at the registry changes nothing here.
LEMMA RevokeIInv ==
  ASSUME Tables, MemoryTypes, SubmitsInMemory, WorkerInMemory, Revoke
  PROVE  Tables' /\ MemoryTypes' /\ SubmitsInMemory' /\ WorkerInMemory'
BY SameTables DEF Revoke, MemoryTypes, SubmitsInMemory, WorkerInMemory

\* A stuttering step keeps the invariant.
LEMMA StutterIInv ==
  ASSUME Tables, MemoryTypes, SubmitsInMemory, WorkerInMemory, UNCHANGED vars
  PROVE  Tables' /\ MemoryTypes' /\ SubmitsInMemory' /\ WorkerInMemory'
BY SameTables DEF vars, MemoryTypes, SubmitsInMemory, WorkerInMemory

\* Every step of the coordinator keeps the invariant.
LEMMA NextIInv == IInv /\ [Next]_vars => IInv'
<1> SUFFICES ASSUME Tables, MemoryTypes, SubmitsInMemory, WorkerInMemory, [Next]_vars
             PROVE  Tables' /\ MemoryTypes' /\ SubmitsInMemory' /\ WorkerInMemory'
 <2>1. IInv' <=> Tables' /\ MemoryTypes' /\ SubmitsInMemory' /\ WorkerInMemory'
  BY DEF IInv, TypeOK, Tables, Rows, MemoryTypes
 <2> QED BY <2>1, IInvParts
<1>1. CASE \E c \in Callers : SubmitStep(c) BY <1>1, SubmitIInv
<1>2. CASE \E k \in Keys : retryEffect(k) BY <1>2, RetryIInv
<1>3. CASE AlarmStep
 BY <1>3, AlarmReadIInv, DeadLetterRemainingIInv, ClaimIInv, PlatformAcceptsIInv, CompleteIInv, FailIInv,
    AlarmEndsIInv DEF AlarmStep, DeliveryEnds
<1>4. CASE Crash \/ Revoke \/ Tick BY <1>4, CrashIInv, RevokeIInv, TickIInv
<1>5. CASE UNCHANGED vars BY <1>5, StutterIInv
<1> QED BY <1>1,<1>2,<1>3,<1>4,<1>5 DEF Next

\* The inductive invariant holds in every reachable state.
THEOREM Inductive == Spec => []IInv
BY InitIInv, NextIInv, PTL DEF Spec

\* The rows of both tables, the alarm, the alarm handler and the requests in
\* flight always have the types of their columns and variables.
THEOREM TypeCorrect == Spec => []TypeOK
BY Inductive, PTL DEF IInv

\* integration_executions and integration_effects always agree: a recorded
\* execution owns exactly the effects it was submitted with, and its state is
\* the summary of theirs (updateExecutionState, coordinator-storage.js).
THEOREM LedgerAlwaysConsistent == Spec => []LedgerConsistent
BY Inductive, PTL DEF IInv

-----------------------------------------------------------------------------
(* Delivery: what a revocation stops, how many attempts an effect can see, *)
(* that every platform call is accounted for, and that no accepted effect  *)
(* is left without a wake-up.                                              *)

\* The effect in the handler's hands has a row, and the row says so.
LEMMA HeldRow ==
  ASSUME IInv, worker.pc = "delivering"
  PROVE  worker.linked /\ worker.effect \in Keys /\ worker.effect \in Live(effects)
         /\ effects[worker.effect].state = "attempting"
BY DEF IInv, WorkerInMemory, Live, Nonterminal

\* Pruning resets rows of settled effects and touches no other.
LEMMA PruneRows ==
  ASSUME IInv, pruneCompletedExecutions, NEW k \in Keys
  PROVE  \/ effects'[k] = effects[k]
         \/ k \notin Live(effects) /\ effects'[k] = NoEffect
<1>1. \A x \in Live(effects) : effects'[x] = effects[x] BY PruneTables, IInvParts
<1> QED BY <1>1 DEF pruneCompletedExecutions, Live

\* Advancing time changes a row's countdown only.
LEMMA TickRows ==
  ASSUME IInv, Tick, NEW k \in Keys
  PROVE  effects'[k] = [effects[k] EXCEPT !.wait = Down(effects[k].wait)]
         /\ effects[k] \in Effect
BY DEF Tick, IInv, TypeOK

\* deadLetterRemaining closes the outstanding effects and keeps their counts.
LEMMA DeadLetterRows ==
  ASSUME IInv, deadLetterRemaining, NEW k \in Keys
  PROVE  /\ effects[k] \in Effect
         /\ effects'[k] = IF k \in Live(effects)
                          THEN [effects[k] EXCEPT !.state = "dead_letter", !.wait = 0]
                          ELSE effects[k]
BY DEF deadLetterRemaining, IInv, TypeOK

\* The row a delivery's end writes: the others stay as they are.
LEMMA EndRows ==
  ASSUME IInv, DeliveryEnds
  PROVE  LET k == worker.effect IN
         /\ worker.pc = "delivering" /\ worker' = NextEffect
         /\ k \in Keys /\ effects[k] \in Effect /\ effects[k].state = "attempting"
         /\ \A x \in Keys : x # k => effects'[x] = effects[x]
         /\ effects'[k].attempts = effects[k].attempts
         /\ effects'[k].sent = effects[k].sent
         /\ \/ effects'[k].state = "delivered" /\ worker.accepted
               /\ effects'[k].orphaned = effects[k].orphaned
            \/ effects'[k].state = "dead_letter" /\ effects'[k].orphaned = Orphan(k)
            \/ effects'[k].state = "retry_wait" /\ effects'[k].orphaned = Orphan(k)
               /\ effects[k].attempts < MAX_DELIVERY_ATTEMPTS
         /\ UNCHANGED <<alarm, linked, crashes, lateCalls>>
<1> DEFINE k == worker.effect
<1>1. worker.pc = "delivering" /\ worker' = NextEffect
      /\ UNCHANGED <<alarm, linked, crashes, lateCalls>> BY DEF DeliveryEnds, completeEffect, failEffect
<1>2. k \in Keys /\ effects[k].state = "attempting" /\ effects[k] \in Effect BY <1>1, HeldRow DEF IInv, TypeOK
<1>3. effects \in [Keys -> Effect] BY DEF IInv, TypeOK
<1>4. CASE completeEffect
 <2>1. effects' = [effects EXCEPT ![k].state = "delivered", ![k].wait = 0] /\ worker.accepted
  BY <1>2,<1>4 DEF completeEffect
 <2> HIDE DEF k
 <2>2. /\ \A x \in Keys : x # k => effects'[x] = effects[x]
       /\ effects'[k] = [effects[k] EXCEPT !.state = "delivered", !.wait = 0] BY <1>2,<1>3,<2>1
 <2>3. effects'[k].state = "delivered" /\ effects'[k].attempts = effects[k].attempts
       /\ effects'[k].sent = effects[k].sent /\ effects'[k].orphaned = effects[k].orphaned BY <1>2,<2>2 DEF Effect
 <2> QED BY <1>1,<1>2,<2>1,<2>2,<2>3 DEF k
<1>5. CASE \E retryable \in BOOLEAN : failEffect(retryable)
 <2>1. PICK retryable \in BOOLEAN : failEffect(retryable) BY <1>5
 <2>2. RetryLater(k) \/ DeadLetter(k, retryable) BY <1>2,<2>1 DEF failEffect
 <2> HIDE DEF k
 <2>3. CASE RetryLater(k)
  <3>1. /\ \A x \in Keys : x # k => effects'[x] = effects[x]
        /\ effects'[k] = [effects[k] EXCEPT !.state = "retry_wait",
                            !.wait = Backoff[effects[k].attempts], !.orphaned = Orphan(k)]
        /\ effects[k].attempts < MAX_DELIVERY_ATTEMPTS BY <1>2,<1>3,<2>3 DEF RetryLater
  <3>2. effects'[k].state = "retry_wait" /\ effects'[k].attempts = effects[k].attempts
        /\ effects'[k].sent = effects[k].sent /\ effects'[k].orphaned = Orphan(k) BY <1>2,<3>1 DEF Effect
  <3> QED BY <1>1,<1>2,<3>1,<3>2 DEF k
 <2>4. CASE DeadLetter(k, retryable)
  <3>1. /\ \A x \in Keys : x # k => effects'[x] = effects[x]
        /\ effects'[k] = [effects[k] EXCEPT !.state = "dead_letter", !.wait = 0,
                                            !.orphaned = Orphan(k)] BY <1>2,<1>3,<2>4 DEF DeadLetter
  <3>2. effects'[k].state = "dead_letter" /\ effects'[k].attempts = effects[k].attempts
        /\ effects'[k].sent = effects[k].sent /\ effects'[k].orphaned = Orphan(k) BY <1>2,<3>1 DEF Effect
  <3> QED BY <1>1,<1>2,<3>1,<3>2 DEF k
 <2> QED BY <2>2,<2>3,<2>4
<1> QED BY <1>4,<1>5 DEF DeliveryEnds

-----------------------------------------------------------------------------
\* A revocation lets at most the running batch's remaining calls out: each
\* claim and each acceptance moves one unit from CallsLeft to lateCalls, and a
\* batch that reads the registry afterwards has none.
LEMMA RevocationInit == Init => RevocationIInv
BY DurationsAssumption DEF Init, RevocationIInv, CallsLeft, Idle

\* A worker that is idle, reading or not linked makes no call.
LEMMA RevocationStep ==
  ASSUME IInv, IInv', RevocationIInv, [Next]_vars
  PROVE  RevocationIInv'
<1>0. MAX_EFFECTS_PER_ALARM \in Nat BY DurationsAssumption
<1>1. worker \in Worker /\ worker' \in Worker /\ lateCalls \in Nat /\ lateCalls' \in Nat BY DEF IInv, TypeOK
<1>2. CASE UNCHANGED <<worker, linked, lateCalls>> BY <1>2 DEF RevocationIInv, CallsLeft
<1>3. CASE (Crash \/ AlarmFires \/ RegistryFails \/ deadLetterRemaining \/ AlarmEnds)
 <2>0. (worker' = Idle \/ worker' = [Idle EXCEPT !.pc = "reading"])
       /\ UNCHANGED <<linked, lateCalls>>
  BY <1>3 DEF Crash, AlarmFires, RegistryFails, deadLetterRemaining, AlarmEnds
 <2>1. worker'.pc \notin {"batch", "delivering"} /\ UNCHANGED <<linked, lateCalls>> BY <2>0 DEF Idle
 <2>2. CallsLeft' = 0 BY <2>1 DEF CallsLeft
 <2>3. CallsLeft \in Nat BY <1>0,<1>1 DEF CallsLeft, Worker
 <2> QED BY <1>0,<1>1,<2>1,<2>2,<2>3 DEF RevocationIInv
<1>4. CASE RegistryAnswers
 <2>1. worker' = [worker EXCEPT !.pc = "batch", !.linked = linked] /\ worker.pc = "reading"
       /\ UNCHANGED <<linked, lateCalls>> BY <1>4 DEF RegistryAnswers
 <2>2. worker'.pc = "batch" /\ worker'.linked = linked
       /\ worker'.processed = worker.processed /\ worker.processed \in 0 .. MAX_EFFECTS_PER_ALARM
  BY <1>1,<2>1 DEF Worker
 <2>3. ~linked => CallsLeft' = 0 BY <2>2 DEF CallsLeft
 <2>4. CallsLeft = 0 /\ CallsLeft' \in Nat /\ CallsLeft' <= MAX_EFFECTS_PER_ALARM BY <1>0,<2>1,<2>2 DEF CallsLeft
 <2>5. CASE linked BY <1>0,<2>1,<2>4,<2>5 DEF RevocationIInv
 <2>6. CASE ~linked BY <1>0,<1>1,<2>1,<2>3,<2>4,<2>6 DEF RevocationIInv
 <2> QED BY <2>5,<2>6
<1>5. CASE \E k \in Keys : claimEffect(k)
 <2>1. /\ worker.pc = "batch" /\ worker.linked
       /\ worker'.pc = "delivering" /\ ~worker'.accepted /\ worker'.linked
       /\ worker'.processed = worker.processed + 1
       /\ UNCHANGED <<linked, lateCalls>> BY <1>1,<1>5 DEF claimEffect, Worker
 <2>2. CallsLeft' = CallsLeft BY <1>0,<1>1,<2>1 DEF CallsLeft, Worker
 <2> QED BY <2>1,<2>2 DEF RevocationIInv
<1>6. CASE PlatformAccepts
 <2>1. /\ worker.pc = "delivering" /\ ~worker.accepted
       /\ worker'.pc = "delivering" /\ worker'.accepted /\ worker'.linked = worker.linked
       /\ worker'.processed = worker.processed /\ linked' = linked
       /\ lateCalls' = IF linked THEN lateCalls ELSE lateCalls + 1 BY <1>1,<1>6 DEF PlatformAccepts, Worker
 <2>2. worker.linked BY <2>1, HeldRow
 <2>3. CallsLeft' = CallsLeft - 1 /\ CallsLeft \in Nat BY <1>0,<1>1,<2>1,<2>2 DEF CallsLeft, Worker
 <2> QED BY <1>0,<1>1,<2>1,<2>3 DEF RevocationIInv
<1>7. CASE DeliveryEnds
 <2>1. worker' = NextEffect /\ worker.pc = "delivering" /\ UNCHANGED <<linked, lateCalls>> BY <1>7, EndRows
 <2>2. worker'.pc = "batch" /\ worker'.linked = worker.linked
       /\ worker'.processed = worker.processed BY <1>1,<2>1 DEF NextEffect, Worker
 <2>3. CallsLeft' <= CallsLeft /\ CallsLeft \in Nat /\ CallsLeft' \in Nat
  <3>1. worker.linked /\ worker.processed \in 0 .. MAX_EFFECTS_PER_ALARM BY <1>1,<2>1, HeldRow DEF Worker
  <3>2. CallsLeft' = MAX_EFFECTS_PER_ALARM - worker.processed BY <1>0,<2>2,<3>1 DEF CallsLeft
  <3> QED BY <1>0,<2>1,<3>1,<3>2 DEF CallsLeft
 <2>4. linked' => lateCalls' = 0 BY <2>1 DEF RevocationIInv
 <2>5. lateCalls' + CallsLeft' <= MAX_EFFECTS_PER_ALARM
  <3>1. lateCalls' = lateCalls /\ lateCalls + CallsLeft <= MAX_EFFECTS_PER_ALARM BY <2>1 DEF RevocationIInv
  <3>2. \A a, b, c, m \in Nat : c + a <= m /\ b <= a => c + b <= m OBVIOUS
  <3> QED BY <1>0,<1>1,<2>3,<3>1,<3>2
 <2> QED BY <2>4,<2>5 DEF RevocationIInv
<1>8. CASE Revoke BY <1>8 DEF Revoke, RevocationIInv, CallsLeft
<1>9. CASE \E c \in Callers : SubmitStep(c)
 BY <1>2,<1>9 DEF SubmitStep, SubmitStart, MembershipConfirmed, MembershipRefused, SubmitCommit, SubmitReplay,
    SubmitConflict
<1>10. CASE \E k \in Keys : retryEffect(k) BY <1>2,<1>10 DEF retryEffect
<1>11. CASE Tick \/ UNCHANGED vars BY <1>2,<1>11 DEF Tick, vars
<1> QED BY <1>3,<1>4,<1>5,<1>6,<1>7,<1>8,<1>9,<1>10,<1>11 DEF Next, AlarmStep

\* Revoking a link stops the alarm handler: after beginIntegrationRevocation the
\* platform is called at most for the rest of the one batch that had read the
\* registry before, so at most MAX_EFFECTS_PER_ALARM times (alarm()).
THEOREM RevocationAlwaysBounds == Spec => []RevocationBoundsCalls
<1>1. IInv /\ IInv' /\ RevocationIInv /\ [Next]_vars => RevocationIInv' BY RevocationStep
<1>2. IInv /\ RevocationIInv => RevocationBoundsCalls
 BY DurationsAssumption DEF IInv, TypeOK, Worker, RevocationIInv, CallsLeft, RevocationBoundsCalls
<1> QED BY <1>1,<1>2, RevocationInit, Inductive, PTL DEF Spec

-----------------------------------------------------------------------------
\* A submission's steps leave a row alone, reset a settled one or, for a key
\* nobody used, write a pending one.
LEMMA SubmitRows ==
  ASSUME IInv, NEW c \in Callers, SubmitStep(c), NEW k \in Keys
  PROVE  /\ UNCHANGED <<worker, crashes, lateCalls, linked>>
         /\ \/ effects'[k] = effects[k]
            \/ k \notin Live(effects) /\ effects'[k] = NoEffect
            \/ /\ effects[k].state = "absent"
               /\ effects'[k].state = "pending" /\ effects'[k].attempts = 0
               /\ effects'[k].sent = 0 /\ effects'[k].orphaned = 0
<1>1. UNCHANGED <<worker, crashes, lateCalls, linked>>
 BY DEF SubmitStep, SubmitStart, MembershipConfirmed, MembershipRefused, SubmitCommit, SubmitReplay,
    SubmitConflict
<1>2. CASE \E r \in Requests : SubmitStart(c, r) BY <1>1,<1>2, PruneRows DEF SubmitStart
<1>3. CASE SubmitCommit(c)
 <2> DEFINE r == submits[c].request
 <2>1. effects'[k] = IF k \in r.keys
                     THEN [NoEffect EXCEPT !.state = "pending", !.event = r.event]
                     ELSE effects[k] BY <1>3 DEF SubmitCommit
 <2>2. k \in r.keys => effects[k].state = "absent" BY <1>3 DEF SubmitCommit, KeysFree
 <2> HIDE DEF r
 <2> QED BY <1>1,<2>1,<2>2 DEF NoEffect
<1>4. CASE MembershipConfirmed(c) \/ MembershipRefused(c) \/ SubmitReplay(c) \/ SubmitConflict(c)
 BY <1>1,<1>4 DEF MembershipConfirmed, MembershipRefused, SubmitReplay, SubmitConflict
<1> QED BY <1>2,<1>3,<1>4 DEF SubmitStep

\* The rows a retry, a claim and an acceptance write.
LEMMA RetryRows ==
  ASSUME IInv, NEW x \in Keys, retryEffect(x), NEW k \in Keys
  PROVE  /\ UNCHANGED <<worker, crashes, lateCalls, linked>>
         /\ k # x => effects'[k] = effects[k]
         /\ effects[x].state = "dead_letter" /\ effects'[x].state = "pending"
         /\ effects'[x].attempts = 0 /\ effects'[x].wait = 0
         /\ effects'[x].sent = effects[x].sent /\ effects'[x].orphaned = effects[x].orphaned
<1>1. effects \in [Keys -> Effect] /\ effects[x] \in Effect BY DEF IInv, TypeOK
<1> QED BY <1>1 DEF retryEffect, Effect

\* See RetryRows.
LEMMA ClaimRows ==
  ASSUME IInv, NEW x \in Keys, claimEffect(x), NEW k \in Keys
  PROVE  /\ worker.pc = "batch" /\ x \in Live(effects) /\ effects[x].wait = 0
         /\ worker'.pc = "delivering" /\ worker'.effect = x /\ ~worker'.accepted
         /\ UNCHANGED <<alarm, crashes>>
         /\ k # x => effects'[k] = effects[k]
         /\ effects'[x].state = "attempting" /\ effects'[x].wait = ATTEMPT_LEASE
         /\ effects'[x].attempts = effects[x].attempts + 1
         /\ effects'[x].sent = effects[x].sent /\ effects'[x].orphaned = effects[x].orphaned
<1>1. effects \in [Keys -> Effect] /\ effects[x] \in Effect /\ worker \in Worker BY DEF IInv, TypeOK
<1>2. worker'.pc = "delivering" /\ worker'.effect = x /\ ~worker'.accepted BY <1>1 DEF claimEffect, Worker
<1>3. /\ k # x => effects'[k] = effects[k]
      /\ effects'[x].state = "attempting" /\ effects'[x].wait = ATTEMPT_LEASE
      /\ effects'[x].attempts = effects[x].attempts + 1
      /\ effects'[x].sent = effects[x].sent /\ effects'[x].orphaned = effects[x].orphaned
 BY <1>1 DEF claimEffect, Effect
<1> QED BY <1>2,<1>3 DEF claimEffect, Due

\* See RetryRows.
LEMMA AcceptRows ==
  ASSUME IInv, PlatformAccepts, NEW k \in Keys
  PROVE  /\ worker.pc = "delivering" /\ ~worker.accepted /\ worker.effect \in Keys
         /\ worker'.pc = "delivering" /\ worker'.effect = worker.effect /\ worker'.accepted
         /\ UNCHANGED <<alarm, crashes>>
         /\ effects'[k].state = effects[k].state /\ effects'[k].wait = effects[k].wait
         /\ effects'[k].attempts = effects[k].attempts
         /\ effects'[k].orphaned = effects[k].orphaned
         /\ effects'[k].sent = effects[k].sent + (IF k = worker.effect THEN 1 ELSE 0)
<1>1. effects \in [Keys -> Effect] /\ effects[k] \in Effect /\ worker \in Worker BY DEF IInv, TypeOK
<1>2. worker.effect \in Keys BY HeldRow DEF PlatformAccepts
<1>3. /\ worker'.pc = "delivering" /\ worker'.effect = worker.effect /\ worker'.accepted
      /\ worker.pc = "delivering" /\ ~worker.accepted /\ UNCHANGED <<alarm, crashes>>
 BY <1>1 DEF PlatformAccepts, Worker
<1>4. effects'[k] = IF k = worker.effect THEN [effects[k] EXCEPT !.sent = effects[k].sent + 1]
                    ELSE effects[k] BY <1>1,<1>2 DEF PlatformAccepts
<1>5. CASE k = worker.effect BY <1>1,<1>2,<1>3,<1>4,<1>5 DEF Effect
<1>6. CASE k # worker.effect BY <1>1,<1>2,<1>3,<1>4,<1>6 DEF Effect
<1> QED BY <1>5,<1>6

\* An eviction counts an accepted call as lost and changes no other column.
LEMMA CrashRows ==
  ASSUME IInv, Crash, NEW k \in Keys
  PROVE  /\ crashes' = crashes + 1 /\ worker' = Idle
         /\ effects'[k].state = effects[k].state /\ effects'[k].wait = effects[k].wait
         /\ effects'[k].attempts = effects[k].attempts
         /\ effects'[k].sent = effects[k].sent
         /\ effects'[k].orphaned = effects[k].orphaned
              + (IF worker.accepted /\ worker.effect = k THEN 1 ELSE 0)
<1>1. effects \in [Keys -> Effect] /\ effects[k] \in Effect
      /\ (worker.accepted => worker.effect \in Keys) BY HeldRow DEF IInv, TypeOK, WorkerInMemory
<1>2. crashes' = crashes + 1 /\ worker' = Idle BY DEF Crash
<1>3. CASE worker.accepted /\ worker.effect = k
 <2>1. effects'[k] = [effects[k] EXCEPT !.orphaned = effects[k].orphaned + 1] BY <1>1,<1>3 DEF Crash
 <2> QED BY <1>1,<1>2,<1>3,<2>1 DEF Effect
<1>4. CASE ~(worker.accepted /\ worker.effect = k)
 <2>1. effects'[k] = effects[k] BY <1>1,<1>4 DEF Crash
 <2> QED BY <1>1,<1>2,<1>4,<2>1 DEF Effect
<1> QED BY <1>3,<1>4

-----------------------------------------------------------------------------
\* No effect starts with an attempt.
LEMMA AttemptsInit == Init => AttemptsIInv
BY DurationsAssumption DEF Init, AttemptsIInv, NoEffect, Live, Nonterminal

\* failEffect retries only below the limit, a claim takes a live effect that is
\* not in delivery to at most the limit and the evictions so far, and an
\* eviction that leaves a claimed effect behind raises the bound by one.
LEMMA AttemptsStep ==
  ASSUME IInv, IInv', AttemptsIInv, [Next]_vars
  PROVE  AttemptsIInv'
<1> SUFFICES ASSUME NEW k \in Keys
             PROVE  /\ effects'[k].attempts <= MAX_DELIVERY_ATTEMPTS + crashes'
                    /\ k \in Live(effects') /\ ~InDelivery(k)' =>
                         effects'[k].attempts < MAX_DELIVERY_ATTEMPTS + crashes' BY DEF AttemptsIInv
<1>0. MAX_DELIVERY_ATTEMPTS \in Nat /\ MAX_DELIVERY_ATTEMPTS > 0 BY DurationsAssumption
<1>1. /\ effects[k] \in Effect /\ effects[k].attempts \in Nat /\ effects'[k].attempts \in Nat
      /\ crashes \in Nat /\ worker \in Worker
 <2>1. effects[k] \in Effect /\ effects'[k] \in Effect /\ worker \in Worker BY DEF IInv, TypeOK
 <2>2. crashes \in Nat BY DurationsAssumption DEF IInv, TypeOK
 <2> QED BY <2>1,<2>2 DEF Effect
<1>2. /\ effects[k].attempts <= MAX_DELIVERY_ATTEMPTS + crashes
      /\ k \in Live(effects) /\ ~InDelivery(k) =>
           effects[k].attempts < MAX_DELIVERY_ATTEMPTS + crashes BY DEF AttemptsIInv
<1>3. ASSUME effects'[k].attempts = effects[k].attempts, crashes' = crashes,
             effects'[k].state = effects[k].state,
             InDelivery(k) => InDelivery(k)'
      PROVE  /\ effects'[k].attempts <= MAX_DELIVERY_ATTEMPTS + crashes'
             /\ k \in Live(effects') /\ ~InDelivery(k)' =>
                  effects'[k].attempts < MAX_DELIVERY_ATTEMPTS + crashes' BY <1>2,<1>3 DEF Live
<1>4. ASSUME effects'[k].attempts = 0, crashes' = crashes
      PROVE  /\ effects'[k].attempts <= MAX_DELIVERY_ATTEMPTS + crashes'
             /\ effects'[k].attempts < MAX_DELIVERY_ATTEMPTS + crashes' BY <1>0,<1>1,<1>4
<1>5. CASE \E c \in Callers : SubmitStep(c) BY <1>3,<1>4,<1>5, SubmitRows DEF InDelivery, NoEffect
<1>6. CASE \E x \in Keys : retryEffect(x) BY <1>3,<1>4,<1>6, RetryRows DEF InDelivery
<1>7. CASE AlarmFires \/ RegistryAnswers \/ RegistryFails \/ Revoke \/ UNCHANGED vars
 <2>1. effects' = effects /\ crashes' = crashes
       /\ (worker' = worker \/ worker.pc # "delivering")
  BY <1>7 DEF AlarmFires, RegistryAnswers, RegistryFails, Revoke, vars
 <2> QED BY <1>3,<2>1 DEF InDelivery
<1>8. CASE deadLetterRemaining
 <2>1. /\ effects'[k].attempts = effects[k].attempts /\ crashes' = crashes
       /\ k \notin Live(effects') BY <1>8, DeadLetterRows DEF deadLetterRemaining, Effect, Live, Nonterminal
 <2> QED BY <1>2,<2>1
<1>9. CASE \E x \in Keys : claimEffect(x)
 <2> PICK x \in Keys : claimEffect(x) BY <1>9
 <2>1. CASE k = x
  <3>1. effects'[k].attempts = effects[k].attempts + 1 /\ k \in Live(effects)
        /\ ~InDelivery(k) /\ InDelivery(k)' /\ crashes' = crashes BY <2>1, ClaimRows DEF InDelivery
  <3> QED BY <1>0,<1>1,<1>2,<3>1
 <2>2. CASE k # x BY <1>3,<2>2, ClaimRows DEF InDelivery
 <2> QED BY <2>1,<2>2
<1>10. CASE PlatformAccepts BY <1>3,<1>10, AcceptRows DEF InDelivery
<1>11. CASE DeliveryEnds
 <2>1. CASE k = worker.effect
  <3>1. effects'[k].attempts = effects[k].attempts /\ crashes' = crashes
        /\ (k \in Live(effects') => effects[k].attempts < MAX_DELIVERY_ATTEMPTS)
   BY <1>11,<2>1, EndRows DEF Live, Nonterminal
  <3> QED BY <1>0,<1>1,<1>2,<3>1
 <2>2. CASE k # worker.effect
  <3>1. effects'[k] = effects[k] /\ crashes' = crashes /\ ~InDelivery(k) BY <1>11,<2>2, EndRows DEF InDelivery
  <3> QED BY <1>3,<3>1
 <2> QED BY <2>1,<2>2
<1>12. CASE AlarmEnds
 <2>1. /\ crashes' = crashes /\ ~InDelivery(k)
       /\ effects'[k] = effects[k] \/ effects'[k] = NoEffect BY <1>12, PruneRows DEF AlarmEnds, InDelivery
 <2> QED BY <1>3,<1>4,<2>1 DEF NoEffect
<1>13. CASE Crash
 <2>1. effects'[k].attempts = effects[k].attempts /\ crashes' = crashes + 1 BY <1>13, CrashRows
 <2> QED BY <1>0,<1>1,<1>2,<2>1
<1>14. CASE Tick
 <2>1. effects'[k].attempts = effects[k].attempts /\ effects'[k].state = effects[k].state
  BY <1>14, TickRows DEF Effect
 <2>2. crashes' = crashes /\ worker' = worker BY <1>14 DEF Tick
 <2> QED BY <1>3,<2>1,<2>2 DEF InDelivery
<1> QED BY <1>5,<1>6,<1>7,<1>8,<1>9,<1>10,<1>11,<1>12,<1>13,<1>14 DEF Next, AlarmStep

\* claimEffect has no attempt limit, yet an effect is attempted more often than
\* MAX_DELIVERY_ATTEMPTS only by the number of evictions (claimEffect,
\* failEffect): without one the limit is exact.
THEOREM AttemptsAlwaysExplained == Spec => []AttemptsExplained
<1>1. IInv /\ IInv' /\ AttemptsIInv /\ [Next]_vars => AttemptsIInv' BY AttemptsStep
<1>2. AttemptsIInv => AttemptsExplained BY DEF AttemptsIInv, AttemptsExplained
<1> QED BY <1>1,<1>2, AttemptsInit, Inductive, PTL DEF Spec

-----------------------------------------------------------------------------
\* The balance EveryCallAccounted states, for one effect.
Recorded(k) == IF effects[k].state = "delivered" THEN 1 ELSE 0
InProgress(k) == IF worker.accepted /\ worker.effect = k THEN 1 ELSE 0
CallBalance(k) == effects[k].sent = effects[k].orphaned + Recorded(k) + InProgress(k)

\* Nothing was sent when the object is created.
LEMMA CallsInit == Init => EveryCallAccounted
BY DEF Init, EveryCallAccounted, NoEffect, Idle

\* An acceptance adds a call in progress; the delivery's end or an eviction
\* turns it into a recorded or a lost one; no other step may touch the row of
\* a delivered effect but to forget it.
LEMMA CallsStep ==
  ASSUME IInv, IInv', EveryCallAccounted, [Next]_vars
  PROVE  EveryCallAccounted'
<1> SUFFICES ASSUME NEW k \in Keys
             PROVE  CallBalance(k)' BY DEF EveryCallAccounted, CallBalance, Recorded, InProgress
<1>1. /\ effects[k] \in Effect /\ effects[k].sent \in Nat /\ effects[k].orphaned \in Nat
      /\ worker \in Worker /\ (worker.accepted => worker.pc = "delivering")
 BY DEF IInv, TypeOK, Effect, WorkerInMemory
<1>2. CallBalance(k) BY DEF EveryCallAccounted, CallBalance, Recorded, InProgress
<1>3. ASSUME effects'[k].sent = effects[k].sent, effects'[k].orphaned = effects[k].orphaned,
             effects'[k].state = "delivered" <=> effects[k].state = "delivered",
             InProgress(k)' = InProgress(k)
      PROVE  CallBalance(k)' BY <1>2,<1>3 DEF CallBalance, Recorded
<1>4. ASSUME effects'[k].sent = 0, effects'[k].orphaned = 0,
             effects'[k].state # "delivered", InProgress(k)' = 0
      PROVE  CallBalance(k)' BY <1>4 DEF CallBalance, Recorded
<1>5. k \notin Live(effects) => InProgress(k) = 0 BY <1>1, HeldRow DEF InProgress
<1>6. CASE \E c \in Callers : SubmitStep(c)
 <2>1. InProgress(k)' = InProgress(k) BY <1>6, SubmitRows DEF InProgress
 <2>2. effects[k].state = "absent" => k \notin Live(effects) BY DEF Live, Nonterminal
 <2>3. \/ effects'[k] = effects[k]
       \/ k \notin Live(effects) /\ effects'[k].sent = 0 /\ effects'[k].orphaned = 0
          /\ effects'[k].state # "delivered" BY <1>6,<2>2, SubmitRows DEF NoEffect
 <2> QED BY <1>3,<1>4,<1>5,<2>1,<2>3
<1>7. CASE \E x \in Keys : retryEffect(x)
 <2>1. InProgress(k)' = InProgress(k) BY <1>7, RetryRows DEF InProgress
 <2> QED BY <1>3,<1>7,<2>1, RetryRows
<1>8. CASE AlarmFires \/ RegistryAnswers \/ RegistryFails \/ Revoke \/ UNCHANGED vars
 <2>1. effects' = effects BY <1>8 DEF AlarmFires, RegistryAnswers, RegistryFails, Revoke, vars
 <2>2. InProgress(k)' = InProgress(k)
  <3>1. CASE worker' = worker BY <3>1 DEF InProgress
  <3>2. CASE AlarmFires \/ RegistryFails \/ RegistryAnswers
   <4>1. ~worker.accepted BY <1>1,<3>2 DEF AlarmFires, RegistryFails, RegistryAnswers
   <4>2. ~worker'.accepted
    <5>1. CASE AlarmFires \/ RegistryFails BY <5>1 DEF AlarmFires, RegistryFails, Idle
    <5>2. CASE RegistryAnswers BY <1>1,<4>1,<5>2 DEF RegistryAnswers, Worker
    <5> QED BY <3>2,<5>1,<5>2
   <4> QED BY <4>1,<4>2 DEF InProgress
  <3> QED BY <1>8,<3>1,<3>2 DEF Revoke, vars
 <2> QED BY <1>3,<2>1,<2>2
<1>9. CASE deadLetterRemaining
 <2>1. /\ effects'[k].sent = effects[k].sent /\ effects'[k].orphaned = effects[k].orphaned
       /\ effects'[k].state = "delivered" <=> effects[k].state = "delivered"
  BY <1>9, DeadLetterRows DEF Effect, Live, Nonterminal
 <2>2. ~worker.accepted /\ ~worker'.accepted BY <1>1,<1>9 DEF deadLetterRemaining, Idle
 <2> QED BY <1>3,<2>1,<2>2 DEF InProgress
<1>10. CASE \E x \in Keys : claimEffect(x)
 <2> PICK x \in Keys : claimEffect(x) BY <1>10
 <2>1. ~worker.accepted /\ ~worker'.accepted BY <1>1, ClaimRows
 <2>2. /\ effects'[k].sent = effects[k].sent /\ effects'[k].orphaned = effects[k].orphaned
       /\ effects'[k].state = "delivered" <=> effects[k].state = "delivered" BY ClaimRows DEF Live, Nonterminal
 <2> QED BY <1>3,<2>1,<2>2 DEF InProgress
<1>11. CASE PlatformAccepts
 <2>1. effects[k].state = effects'[k].state /\ effects'[k].orphaned = effects[k].orphaned
       /\ effects'[k].sent = effects[k].sent + InProgress(k)' /\ InProgress(k) = 0
  BY <1>11, AcceptRows DEF InProgress
 <2>2. InProgress(k)' \in Nat BY DEF InProgress
 <2> QED BY <1>1,<1>2,<2>1,<2>2 DEF CallBalance, Recorded
<1>12. CASE DeliveryEnds
 <2>1. InProgress(k)' = 0 BY <1>1,<1>12, EndRows DEF InProgress, NextEffect, Worker
 <2>2. CASE k = worker.effect
  <3>1. effects[k].state = "attempting" /\ effects'[k].sent = effects[k].sent
        /\ InProgress(k) = (IF worker.accepted THEN 1 ELSE 0) BY <1>12,<2>2, EndRows DEF InProgress
  <3>2. \/ effects'[k].state = "delivered" /\ worker.accepted
           /\ effects'[k].orphaned = effects[k].orphaned
        \/ effects'[k].state \in {"dead_letter", "retry_wait"}
           /\ effects'[k].orphaned = effects[k].orphaned + InProgress(k) BY <1>12,<2>2,<3>1, EndRows DEF Orphan
  <3> QED BY <1>1,<1>2,<2>1,<3>1,<3>2 DEF CallBalance, Recorded
 <2>3. CASE k # worker.effect
  <3>1. effects'[k] = effects[k] /\ InProgress(k) = 0 BY <1>12,<2>3, EndRows DEF InProgress
  <3> QED BY <1>3,<2>1,<3>1
 <2> QED BY <2>2,<2>3
<1>13. CASE AlarmEnds
 <2>1. ~worker.accepted /\ ~worker'.accepted BY <1>1,<1>13 DEF AlarmEnds, Idle
 <2>2. InProgress(k)' = 0 /\ InProgress(k) = 0 BY <2>1 DEF InProgress
 <2>3. effects'[k] = effects[k] \/ effects'[k] = NoEffect BY <1>13, PruneRows DEF AlarmEnds
 <2> QED BY <1>3,<1>4,<2>2,<2>3 DEF NoEffect
<1>14. CASE Crash
 <2>1. /\ effects'[k].state = effects[k].state /\ effects'[k].sent = effects[k].sent
       /\ effects'[k].orphaned = effects[k].orphaned + InProgress(k) BY <1>14, CrashRows DEF InProgress
 <2>2. InProgress(k)' = 0 BY <1>14, CrashRows DEF InProgress, Idle
 <2>3. InProgress(k) \in Nat /\ Recorded(k) \in Nat /\ Recorded(k)' = Recorded(k) BY <2>1 DEF InProgress, Recorded
 <2> QED BY <1>1,<1>2,<2>1,<2>2,<2>3 DEF CallBalance
<1>15. CASE Tick
 <2>1. effects'[k].sent = effects[k].sent /\ effects'[k].orphaned = effects[k].orphaned
       /\ effects'[k].state = effects[k].state BY <1>15, TickRows DEF Effect
 <2>2. InProgress(k)' = InProgress(k) BY <1>15 DEF Tick, InProgress
 <2> QED BY <1>3,<2>1,<2>2
<1> QED BY <1>6,<1>7,<1>8,<1>9,<1>10,<1>11,<1>12,<1>13,<1>14,<1>15 DEF Next, AlarmStep

\* At-least-once delivery repeats a platform call only for a cause: each call
\* accepted for an effect is the delivery completeEffect recorded, the one in
\* progress, or one whose outcome a throw or an eviction lost (alarm()).
THEOREM EveryCallAlwaysAccounted == Spec => []EveryCallAccounted
<1>1. IInv /\ IInv' /\ EveryCallAccounted /\ [Next]_vars => EveryCallAccounted' BY CallsStep
<1> QED BY <1>1, CallsInit, Inductive, PTL DEF Spec

-----------------------------------------------------------------------------
\* setNextAlarm leaves the alarm no later than any outstanding effect is due.
LEMMA AlarmCovers ==
  ASSUME NEW effs \in [Keys -> Effect], setNextAlarm(effs)
  PROVE  /\ Live(effs) # {} => alarm' # NoAlarm
         /\ \A k \in Live(effs) : alarm' <= effs[k].wait
<1>1. \A k \in Live(effs) : effs[k].wait \in Nat BY DEF Live, Effect
<1> QED BY <1>1 DEF setNextAlarm, NoAlarm

\* An empty outbox needs no alarm.
LEMMA WakeInit == Init => WakeIInv
BY DEF Init, WakeIInv, NoEffect, Live, Nonterminal

\* A claim finds its effect due, so an alarm set before it is due too; a retry
\* may come due before an alarm set during the attempt, but that alarm is no
\* later than the attempt's lease, hence than the put-off after an outage.
LEMMA WakeStep ==
  ASSUME IInv, IInv', WakeIInv, [Next]_vars
  PROVE  WakeIInv'
<1>1. /\ \A k \in Keys : effects[k] \in Effect /\ effects[k].wait \in Nat
                          /\ effects'[k].wait \in Nat
      /\ effects' \in [Keys -> Effect] /\ alarm \in Nat \cup {-1} /\ alarm' \in Nat \cup {-1}
 BY DEF IInv, TypeOK, NoAlarm, Effect
<1>2. ATTEMPT_LEASE \in Nat /\ RETRY_BASE_DELAY \in Nat /\ ATTEMPT_LEASE <= RETRY_BASE_DELAY
 BY DurationsAssumption, LeaseAssumption
<1> DEFINE Leases == \A k \in Keys : effects[k].state = "attempting" =>
                                       effects[k].wait <= ATTEMPT_LEASE
           Early == \A k \in Live(effects) :
                      alarm <= effects[k].wait \/ alarm <= RETRY_BASE_DELAY
           Set == worker.pc = "idle" /\ Live(effects) # {} => alarm # NoAlarm
<1>3. Leases /\ Early /\ Set BY DEF WakeIInv
<1>4. SUFFICES Leases' /\ Early' /\ Set' BY DEF WakeIInv
<1>5. ASSUME \A k \in Keys : \/ effects'[k].state = effects[k].state
                                /\ effects'[k].wait = effects[k].wait
                             \/ effects'[k].state # "attempting"
      PROVE  Leases' BY <1>3,<1>5
<1>6. ASSUME setNextAlarm(effects') PROVE Early' /\ Set' BY <1>1,<1>6, AlarmCovers
<1>7. ASSUME alarm' = alarm,
             \A k \in Live(effects') : k \in Live(effects) /\ effects'[k].wait = effects[k].wait
      PROVE  Early' /\ (worker'.pc = "idle" => (worker.pc = "idle" => Set')) BY <1>3,<1>7
<1> HIDE DEF Leases, Early, Set
<1>8. CASE \E c \in Callers : SubmitStep(c)
 <2> PICK c \in Callers : SubmitStep(c) BY <1>8
 <2>1. Leases' BY <1>5, SubmitRows DEF NoEffect
 <2>2. CASE SubmitCommit(c) \/ SubmitReplay(c)
  <3>1. setNextAlarm(effects') BY <2>2 DEF SubmitCommit, SubmitReplay
  <3> QED BY <1>6,<2>1,<3>1
 <2>3. CASE (\E r \in Requests : SubmitStart(c, r)) \/ MembershipConfirmed(c)
            \/ MembershipRefused(c) \/ SubmitConflict(c)
  <3>1. /\ alarm' = alarm /\ worker' = worker
        /\ pruneCompletedExecutions \/ effects' = effects
   BY <2>3 DEF SubmitStart, MembershipConfirmed, MembershipRefused, SubmitConflict
  <3>2. \A k \in Keys : effects'[k] = effects[k] \/ effects'[k] = NoEffect BY <3>1, PruneRows
  <3>3. \A k \in Live(effects') : k \in Live(effects) /\ effects'[k].wait = effects[k].wait
   BY <3>2 DEF Live, NoEffect, Nonterminal
  <3>4. CASE worker.pc = "idle" BY <1>7,<2>1,<3>1,<3>3,<3>4
  <3>5. CASE worker.pc # "idle" BY <1>7,<2>1,<3>1,<3>3,<3>5 DEF Set
  <3> QED BY <3>4,<3>5
 <2> QED BY <2>2,<2>3 DEF SubmitStep
<1>9. CASE \E x \in Keys : retryEffect(x)
 <2>1. PICK x \in Keys : retryEffect(x) BY <1>9
 <2>2. Leases' BY <1>5,<2>1, RetryRows
 <2>3. setNextAlarm(effects') BY <2>1 DEF retryEffect
 <2> QED BY <1>6,<2>2,<2>3
<1>10. CASE deadLetterRemaining
 <2>1. Leases' BY <1>5,<1>10, DeadLetterRows DEF Effect
 <2>2. setNextAlarm(effects') BY <1>10 DEF deadLetterRemaining
 <2> QED BY <1>6,<2>1,<2>2
<1>11. CASE AlarmEnds
 <2>1. Leases' BY <1>5,<1>11, PruneRows DEF AlarmEnds, NoEffect
 <2>2. setNextAlarm(effects') BY <1>11 DEF AlarmEnds
 <2> QED BY <1>6,<2>1,<2>2
<1>12. CASE AlarmFires \/ RegistryFails
 <2>1. effects' = effects BY <1>12 DEF AlarmFires, RegistryFails
 <2>2. \/ alarm' = -1 /\ worker'.pc = "reading"
       \/ alarm' = RETRY_BASE_DELAY BY <1>12 DEF AlarmFires, RegistryFails, NoAlarm, Idle
 <2>3. Leases' BY <1>5,<2>1
 <2>4. Early' BY <1>1,<1>2,<2>1,<2>2 DEF Early, Live
 <2>5. Set' BY <1>2,<2>2 DEF Set, NoAlarm
 <2> QED BY <2>3,<2>4,<2>5
<1>13. CASE RegistryAnswers \/ Revoke \/ UNCHANGED vars
 <2>1. effects' = effects /\ alarm' = alarm BY <1>13 DEF RegistryAnswers, Revoke, vars
 <2>2. worker' = worker \/ worker'.pc = "batch" BY <1>13 DEF RegistryAnswers, Revoke, vars, IInv, TypeOK, Worker
 <2>3. Leases' /\ Early' BY <1>3,<2>1 DEF Leases, Early, Live
 <2>4. Set' BY <1>3,<2>1,<2>2 DEF Set, Live
 <2> QED BY <2>3,<2>4
<1>14. CASE \E x \in Keys : claimEffect(x)
 <2> PICK x \in Keys : claimEffect(x) BY <1>14
 <2>1. Leases' BY <1>2,<1>3, ClaimRows DEF Leases
 <2>2. Early'
  <3>1. alarm' = alarm /\ x \in Live(effects) /\ effects[x].wait = 0 BY ClaimRows
  <3>2. alarm <= 0 \/ alarm <= RETRY_BASE_DELAY BY <1>3,<3>1 DEF Early
  <3>3. \A k \in Live(effects') : k # x => k \in Live(effects) /\ effects'[k] = effects[k] BY ClaimRows DEF Live
  <3>4. effects'[x].wait = ATTEMPT_LEASE BY ClaimRows
  <3>5. alarm <= ATTEMPT_LEASE \/ alarm <= RETRY_BASE_DELAY BY <1>1,<1>2,<3>2
  <3> QED BY <1>3,<3>1,<3>3,<3>4,<3>5 DEF Early
 <2>3. Set' BY ClaimRows DEF Set
 <2> QED BY <2>1,<2>2,<2>3
<1>15. CASE PlatformAccepts
 <2>0. worker.effect \in Keys BY <1>15, HeldRow DEF PlatformAccepts
 <2>1. /\ worker'.pc = "delivering" /\ alarm' = alarm
       /\ \A k \in Keys : effects'[k].state = effects[k].state
                           /\ effects'[k].wait = effects[k].wait BY <1>15,<2>0, AcceptRows
 <2>2. Leases' BY <1>5,<2>1
 <2>3. Early' BY <1>3,<2>1 DEF Early, Live
 <2>4. Set' BY <2>1 DEF Set
 <2> QED BY <2>2,<2>3,<2>4
<1>16. CASE DeliveryEnds
 <2> DEFINE k == worker.effect
 <2>1. /\ k \in Keys /\ effects[k].state = "attempting" /\ alarm' = alarm
       /\ \A x \in Keys : x # k => effects'[x] = effects[x]
       /\ effects'[k].state # "attempting" /\ worker' = NextEffect BY <1>16, EndRows
 <2> HIDE DEF k
 <2>2. Leases' BY <1>5,<2>1
 <2>3. Early'
  <3>1. k \in Live(effects) /\ effects[k].wait <= ATTEMPT_LEASE BY <1>3,<2>1 DEF Leases, Live, Nonterminal
  <3>2. alarm <= RETRY_BASE_DELAY BY <1>1,<1>2,<1>3,<2>1,<3>1 DEF Early
  <3>3. \A x \in Live(effects') : x # k => x \in Live(effects) /\ effects'[x] = effects[x] BY <2>1 DEF Live
  <3> QED BY <1>3,<2>1,<3>2,<3>3 DEF Early
 <2>4. Set' BY <2>1, NextEffectType, IInvParts DEF Set
 <2> QED BY <2>2,<2>3,<2>4
<1>17. CASE Crash
 <2>1. \A k \in Keys : effects'[k].state = effects[k].state /\ effects'[k].wait = effects[k].wait
  BY <1>17, CrashRows
 <2>2. alarm' = IF worker.pc # "idle" /\ alarm = NoAlarm THEN 0 ELSE alarm BY <1>17 DEF Crash
 <2>3. Leases' BY <1>5,<2>1
 <2>4. Early'
  <3>1. \A k \in Live(effects') : k \in Live(effects) /\ effects'[k].wait = effects[k].wait BY <2>1 DEF Live
  <3> QED BY <1>1,<1>2,<1>3,<2>2,<3>1 DEF Early, Live
 <2>5. Set'
  <3>1. Live(effects') = Live(effects) BY <2>1 DEF Live
  <3> QED BY <1>3,<2>2,<3>1 DEF Set, NoAlarm
 <2> QED BY <2>3,<2>4,<2>5
<1>18. CASE Tick
 <2>1. \A k \in Keys : effects'[k].state = effects[k].state
                        /\ effects'[k].wait = Down(effects[k].wait) BY <1>18, TickRows DEF Effect
 <2>2. alarm' = Down(alarm) /\ worker' = worker BY <1>18 DEF Tick
 <2>3. Leases' BY <1>1,<1>2,<1>3,<2>1 DEF Leases, Down
 <2>4. Early' BY <1>1,<1>2,<1>3,<2>1,<2>2 DEF Early, Live, Down
 <2>5. Set'
  <3>1. Live(effects') = Live(effects) BY <2>1 DEF Live
  <3> QED BY <1>1,<1>3,<2>2,<3>1 DEF Set, Down, NoAlarm
 <2> QED BY <2>3,<2>4,<2>5
<1> QED BY <1>8,<1>9,<1>10,<1>11,<1>12,<1>13,<1>14,<1>15,<1>16,<1>17,<1>18
        DEF Next, AlarmStep

\* Whatever is evicted, fails or is submitted meanwhile, while alarm() is not
\* running and an effect is outstanding the storage alarm is set, and early
\* enough (setNextAlarm and the put-off of alarm()'s catch): nothing is stranded.
THEOREM NothingStranded == Spec => []NoStrandedEffect
<1>1. IInv /\ IInv' /\ WakeIInv /\ [Next]_vars => WakeIInv' BY WakeStep
<1>2. WakeIInv => NoStrandedEffect BY DEF WakeIInv, NoStrandedEffect, Live
<1> QED BY <1>1,<1>2, WakeInit, Inductive, PTL DEF Spec

-----------------------------------------------------------------------------
(* The outbox implements EffectLedger: under the mapping Ledger every step *)
(* of the coordinator is a step of the ledger, or leaves it as it is.      *)

\* The mapped variables of the ledger, as the INSTANCE substitutes them.
Accepted == [ev \in Events |-> executions[ev].request]
Owner == [k \in Keys |-> effects[k].event]
Outcomes == [k \in Keys |-> Outcome(effects[k].state)]
Status == [ev \in Events |-> executions[ev].state]

\* How the six effect states map to the ledger's four outcomes.
LEMMA OutcomeCases ==
  /\ \A s \in Nonterminal : Outcome(s) = "outstanding"
  /\ Outcome("dead_letter") = "failed"
  /\ Outcome("delivered") = "delivered"
  /\ Outcome("absent") = "absent"
BY DEF Outcome, Nonterminal

\* For a row of the table, the outcome tells outstanding, failed and the rest.
LEMMA OutcomeOfRow ==
  ASSUME IInv, NEW k \in Keys
  PROVE  /\ Outcome(effects[k].state) = "outstanding" <=> k \in Live(effects)
         /\ Outcome(effects[k].state) = "failed" <=> effects[k].state = "dead_letter"
<1>1. effects[k].state \in {"absent", "delivered", "dead_letter"} \cup Nonterminal BY DEF IInv, TypeOK, Effect
<1> QED BY <1>1, OutcomeCases DEF Live, Nonterminal

\* The stored status is what the ledger recomputes from the mapped effects.
LEMMA StatusMapped ==
  ASSUME IInv, NEW ev \in Events
  PROVE  executions[ev].state = IF executions[ev].request = NoRequest THEN "absent"
                                ELSE Ledger!Summary(ev, Owner, Outcomes)
<1>1. CASE executions[ev].request = NoRequest BY <1>1 DEF IInv, ExecutionRows
<1>2. CASE executions[ev].request # NoRequest
 <2>1. executions[ev].state = ExecutionState(effects, ev) BY <1>2 DEF IInv, ExecutionRows, LedgerConsistent
 <2>2. EffectsOf(effects, ev) \cap Live(effects) # {}
         <=> \E k \in Keys : Owner[k] = ev /\ Outcomes[k] = "outstanding"
  BY OutcomeOfRow DEF EffectsOf, Live, Owner, Outcomes
 <2>3. (\E k \in EffectsOf(effects, ev) : effects[k].state = "dead_letter")
         <=> \E k \in Keys : Owner[k] = ev /\ Outcomes[k] = "failed"
  BY OutcomeOfRow DEF EffectsOf, Owner, Outcomes
 <2>4. Ledger!Summary(ev, Owner, Outcomes) = ExecutionState(effects, ev)
  BY <2>2,<2>3 DEF ExecutionState, Ledger!Summary
 <2> QED BY <1>2,<2>1,<2>4
<1> QED BY <1>1,<1>2

\* The same after a step: the mapped status is the ledger's Recomputed.
LEMMA StatusRecomputed ==
  ASSUME IInv'
  PROVE  Status' = Ledger!Recomputed
<1>1. \A ev \in Events :
        executions'[ev].state = IF executions'[ev].request = NoRequest THEN "absent"
                                ELSE Ledger!Summary(ev, Owner', Outcomes')
 <2> TAKE ev \in Events
 <2>1. (IInv => executions[ev].state = IF executions[ev].request = NoRequest THEN "absent"
                                       ELSE Ledger!Summary(ev, Owner, Outcomes))' BY StatusMapped, PTL
 <2> QED BY <2>1
<1> QED BY <1>1 DEF Status, Ledger!Recomputed, Ledger!NoRequest, NoRequest, Owner, Outcomes,
                    Ledger!Summary


\* The statuses the mapping shows follow from the other mapped variables.
LEMMA LedgerUnchanged ==
  ASSUME \A k \in Keys : effects'[k].event = effects[k].event
                          /\ Outcome(effects'[k].state) = Outcome(effects[k].state),
         \A ev \in Events : executions'[ev].request = executions[ev].request
                             /\ executions'[ev].state = executions[ev].state
  PROVE  UNCHANGED Ledger!vars
BY DEF Ledger!vars

\* A new object maps to an empty ledger.
LEMMA LedgerInit == Init => Ledger!Init
BY OutcomeCases DEF Init, Ledger!Init, NoExecution, NoEffect, NoRequest, Ledger!NoRequest

\* pruneCompletedExecutions forgets the expired executions and their effects.
LEMMA PruneForgets ==
  ASSUME IInv, pruneCompletedExecutions
  PROVE  Ledger!Next
<1>0. Expired \in SUBSET Events BY DEF Expired
<1>1. PICK E \in SUBSET Events : E = Expired BY <1>0
<1>2. E \subseteq Ledger!Settled BY <1>1 DEF Expired, Ledger!Settled, CompletedStates
<1>3. /\ Accepted' = [ev \in Events |-> IF ev \in E THEN Ledger!NoRequest
                                        ELSE Accepted[ev]]
      /\ Status' = [ev \in Events |-> IF ev \in E THEN "absent" ELSE Status[ev]]
 BY <1>1 DEF pruneCompletedExecutions, Accepted, Status, NoExecution, NoRequest, Ledger!NoRequest
<1>4. /\ Owner' = [k \in Keys |-> IF Owner[k] \in E THEN "none" ELSE Owner[k]]
      /\ Outcomes' = [k \in Keys |-> IF Owner[k] \in E THEN "absent" ELSE Outcomes[k]]
 BY <1>1, OutcomeCases DEF pruneCompletedExecutions, Owner, Outcomes, NoEffect
<1>5. Ledger!Forget(E) BY <1>2,<1>3,<1>4 DEF Ledger!Forget, Accepted, Status, Owner, Outcomes
<1> QED BY <1>5 DEF Ledger!Next

\* updateExecutionState rewrites statuses, never what was accepted.
LEMMA UpdateKeepsRequests ==
  ASSUME IInv, NEW effs, NEW evs, executions' = updateExecutionState(effs, evs)
  PROVE  Accepted' = Accepted
<1>1. \A ev \in Events : executions[ev] \in Execution BY DEF IInv, TypeOK
<1> QED BY <1>1 DEF updateExecutionState, Accepted, Execution

\* submit()'s transaction accepts an execution whole, replays nothing.
LEMMA CommitAccepts ==
  ASSUME IInv, IInv', NEW c \in Callers, SubmitCommit(c)
  PROVE  Ledger!Next
<1>0. PICK r \in Requests : r = submits[c].request BY DEF SubmitCommit, IInv, SubmitsInMemory
<1>1. r.event \in Events /\ r.keys \in SUBSET Keys BY RequestsAssumption
<1>2. executions[r.event].state = "absent" /\ \A k \in r.keys : effects[k].state = "absent"
 BY <1>0 DEF SubmitCommit, KeysFree
<1>3. Accepted[r.event] = Ledger!NoRequest
 BY <1>1,<1>2 DEF Accepted, IInv, ExecutionRows, NoRequest, Ledger!NoRequest
<1>4. \A k \in r.keys : Outcomes[k] = "absent" BY <1>1,<1>2, OutcomeCases DEF Outcomes
<1>5. Accepted' = [Accepted EXCEPT ![r.event] = r] BY <1>0,<1>1 DEF SubmitCommit, Accepted, IInv, TypeOK
<1>6. \A k \in Keys : effects'[k] = IF k \in r.keys
                         THEN [NoEffect EXCEPT !.state = "pending", !.event = r.event]
                         ELSE effects[k] BY <1>0 DEF SubmitCommit
<1>7. /\ Owner' = [k \in Keys |-> IF k \in r.keys THEN r.event ELSE Owner[k]]
      /\ Outcomes' = [k \in Keys |-> IF k \in r.keys THEN "outstanding" ELSE Outcomes[k]]
 BY <1>6, OutcomeCases DEF Owner, Outcomes, NoEffect, Nonterminal
<1>8. Ledger!Accept(r)
 BY <1>3,<1>4,<1>5,<1>7, StatusRecomputed DEF Ledger!Accept, Accepted, Owner, Outcomes, Status
<1> QED BY <1>8 DEF Ledger!Next

\* An operator's retry rearms one failed effect.
LEMMA RetryRearms ==
  ASSUME IInv, IInv', NEW x \in Keys, retryEffect(x)
  PROVE  Ledger!Next
<1>1. Accepted' = Accepted BY UpdateKeepsRequests DEF retryEffect
<1>2. effects \in [Keys -> Effect] /\ effects[x] \in Effect BY DEF IInv, TypeOK
<1>3. Owner' = Owner BY <1>2 DEF retryEffect, Owner, Effect
<1>4. Outcomes[x] = "failed" /\ Outcomes' = [Outcomes EXCEPT ![x] = "outstanding"]
 <2>1. effects[x].state = "dead_letter" /\ effects'[x].state = "pending"
       /\ \A k \in Keys : k # x => effects'[k] = effects[k] BY RetryRows
 <2> QED BY <2>1, OutcomeCases DEF Outcomes, Nonterminal
<1>5. Ledger!Rearm(x) BY <1>1,<1>3,<1>4, StatusRecomputed DEF Ledger!Rearm, Accepted, Owner, Outcomes, Status
<1> QED BY <1>5 DEF Ledger!Next

\* deadLetterRemaining fails every outstanding effect at once.
LEMMA DeadLetterFails ==
  ASSUME IInv, IInv', deadLetterRemaining
  PROVE  Ledger!Next
<1>1. Accepted' = Accepted BY UpdateKeepsRequests DEF deadLetterRemaining
<1>2. \A k \in Keys : effects'[k].event = effects[k].event
        /\ effects'[k].state = IF k \in Live(effects) THEN "dead_letter" ELSE effects[k].state
 BY DeadLetterRows DEF Effect
<1>3. Owner' = Owner BY <1>2 DEF Owner
<1>4. Outcomes' = [k \in Keys |-> IF k \in Live(effects) THEN "failed" ELSE Outcomes[k]]
 BY <1>2, OutcomeCases DEF Outcomes
<1>5. \A k \in Live(effects) : Outcomes[k] = "outstanding" BY OutcomeOfRow DEF Outcomes, Live
<1>6. PICK K \in SUBSET Keys : K = Live(effects) BY DEF Live
<1>7. Ledger!Fail(K)
 BY <1>1,<1>3,<1>4,<1>5,<1>6, StatusRecomputed DEF Ledger!Fail, Accepted, Owner, Outcomes, Status
<1> QED BY <1>7 DEF Ledger!Next


\* A delivery's end delivers one effect, fails it, or leaves it outstanding.
LEMMA EndSettles ==
  ASSUME IInv, IInv', DeliveryEnds
  PROVE  Ledger!Next \/ UNCHANGED Ledger!vars
<1>1. PICK k \in Keys : k = worker.effect BY EndRows
<1>2. /\ effects[k].state = "attempting" /\ worker.effect = k
      /\ \A x \in Keys : x # k => effects'[x] = effects[x]
      /\ effects'[k].state \in {"delivered", "dead_letter", "retry_wait"} BY <1>1, EndRows
<1>3. effects \in [Keys -> Effect] /\ effects[k] \in Effect BY DEF IInv, TypeOK
<1>4. \/ executions' = executions /\ effects'[k].state = "retry_wait"
      \/ executions' = updateExecutionState(effects', {effects[k].event})
 <2>1. CASE completeEffect BY <1>2,<2>1 DEF completeEffect
 <2>2. CASE \E retryable \in BOOLEAN : failEffect(retryable)
  <3> PICK retryable \in BOOLEAN : failEffect(retryable) BY <2>2
  <3>1. RetryLater(k) \/ DeadLetter(k, retryable) BY <1>2 DEF failEffect
  <3>2. CASE RetryLater(k) BY <1>3,<3>2 DEF RetryLater, Effect
  <3>3. CASE DeadLetter(k, retryable) BY <3>3 DEF DeadLetter
  <3> QED BY <3>1,<3>2,<3>3
 <2> QED BY <2>1,<2>2 DEF DeliveryEnds
<1>5. Accepted' = Accepted
 <2>1. CASE executions' = executions BY <2>1 DEF Accepted
 <2>2. CASE executions' = updateExecutionState(effects', {effects[k].event}) BY <2>2, UpdateKeepsRequests
 <2> QED BY <1>4,<2>1,<2>2
<1>6. effects'[k].event = effects[k].event
 <2>1. CASE completeEffect BY <1>2,<1>3,<2>1 DEF completeEffect, Effect
 <2>2. CASE \E retryable \in BOOLEAN : failEffect(retryable)
  <3> PICK retryable \in BOOLEAN : failEffect(retryable) BY <2>2
  <3>1. RetryLater(k) \/ DeadLetter(k, retryable) BY <1>2 DEF failEffect
  <3> QED BY <1>3,<3>1 DEF RetryLater, DeadLetter, Effect
 <2> QED BY <2>1,<2>2 DEF DeliveryEnds
<1>7. Owner' = Owner BY <1>2,<1>6 DEF Owner
<1>8. Outcomes[k] = "outstanding" BY <1>2, OutcomeCases DEF Outcomes, Nonterminal
<1>9. CASE effects'[k].state = "delivered"
 <2>1. Outcomes' = [Outcomes EXCEPT ![k] = "delivered"] BY <1>2,<1>9, OutcomeCases DEF Outcomes
 <2>2. Ledger!Deliver(k)
  BY <1>5,<1>7,<1>8,<2>1, StatusRecomputed DEF Ledger!Deliver, Accepted, Owner, Outcomes, Status
 <2> QED BY <2>2 DEF Ledger!Next
<1>10. CASE effects'[k].state = "dead_letter"
 <2>1. PICK K \in SUBSET Keys : K = {k} OBVIOUS
 <2>2. Outcomes' = [x \in Keys |-> IF x \in K THEN "failed" ELSE Outcomes[x]]
  BY <1>2,<1>10,<2>1, OutcomeCases DEF Outcomes
 <2>3. Ledger!Fail(K)
  BY <1>5,<1>7,<1>8,<2>1,<2>2, StatusRecomputed DEF Ledger!Fail, Accepted, Owner, Outcomes, Status
 <2> QED BY <2>3 DEF Ledger!Next
<1>11. CASE effects'[k].state = "retry_wait"
 <2>1. Outcomes' = Outcomes BY <1>2,<1>11, OutcomeCases DEF Outcomes, Nonterminal
 <2>2. Status' = Status
  <3>1. Status = [ev \in Events |-> IF Accepted[ev] = NoRequest THEN "absent"
                                    ELSE Ledger!Summary(ev, Owner, Outcomes)] BY StatusMapped DEF Status, Accepted
  <3>2. Status' = [ev \in Events |-> IF Accepted'[ev] = NoRequest THEN "absent"
                                     ELSE Ledger!Summary(ev, Owner', Outcomes')]
   BY StatusRecomputed DEF Ledger!Recomputed, Ledger!NoRequest, NoRequest, Accepted, Owner, Outcomes,
      Ledger!Summary
  <3> QED BY <1>5,<1>7,<2>1,<3>1,<3>2
 <2> QED BY <1>5,<1>7,<2>1,<2>2 DEF Ledger!vars, Accepted, Owner, Outcomes, Status
<1> QED BY <1>2,<1>9,<1>10,<1>11

\* Every step of the coordinator is a step of the ledger or no step of it.
LEMMA LedgerStep ==
  ASSUME IInv, IInv', [Next]_vars
  PROVE  [Ledger!Next]_(Ledger!vars)
<1>1. CASE \E c \in Callers : SubmitStep(c)
 <2>1. PICK c \in Callers : SubmitStep(c) BY <1>1
 <2>2. CASE \E r \in Requests : SubmitStart(c, r) BY <2>2, PruneForgets DEF SubmitStart
 <2>3. CASE SubmitCommit(c) BY <2>3, CommitAccepts
 <2>4. CASE MembershipConfirmed(c) \/ MembershipRefused(c) \/ SubmitReplay(c) \/ SubmitConflict(c)
  <3>1. executions' = executions /\ effects' = effects
   BY <2>4 DEF MembershipConfirmed, MembershipRefused, SubmitReplay, SubmitConflict
  <3> QED BY <3>1, LedgerUnchanged
 <2> QED BY <2>1,<2>2,<2>3,<2>4 DEF SubmitStep
<1>2. CASE \E k \in Keys : retryEffect(k) BY <1>2, RetryRearms
<1>3. CASE AlarmFires \/ RegistryAnswers \/ RegistryFails \/ Revoke \/ UNCHANGED vars
 <2>1. executions' = executions /\ effects' = effects
  BY <1>3 DEF AlarmFires, RegistryAnswers, RegistryFails, Revoke, vars
 <2> QED BY <2>1, LedgerUnchanged
<1>4. CASE deadLetterRemaining BY <1>4, DeadLetterFails
<1>5. CASE \E k \in Keys : claimEffect(k)
 <2> PICK x \in Keys : claimEffect(x) BY <1>5
 <2>1. executions' = executions BY DEF claimEffect
 <2>2. effects \in [Keys -> Effect] /\ effects[x] \in Effect BY DEF IInv, TypeOK
 <2>3. \A k \in Keys : effects'[k].event = effects[k].event BY <2>2 DEF claimEffect, Effect
 <2>4. \A k \in Keys : \/ effects'[k].state = effects[k].state
                       \/ k \in Live(effects) /\ k \in Live(effects')
  <3> TAKE k \in Keys
  <3>1. CASE k = x BY <3>1, ClaimRows DEF Live, Nonterminal
  <3>2. CASE k # x BY <3>2, ClaimRows
  <3> QED BY <3>1,<3>2
 <2>5. \A k \in Keys : Outcome(effects'[k].state) = Outcome(effects[k].state) BY <2>4, OutcomeCases DEF Live
 <2> QED BY <2>1,<2>3,<2>5, LedgerUnchanged
<1>6. CASE PlatformAccepts \/ Crash
 <2>1. executions' = executions BY <1>6 DEF PlatformAccepts, Crash
 <2>2. \A k \in Keys : effects'[k].state = effects[k].state BY <1>6, AcceptRows, CrashRows
 <2>3. \A k \in Keys : effects'[k].event = effects[k].event
  BY <1>6 DEF PlatformAccepts, Crash, IInv, TypeOK, Effect
 <2> QED BY <2>1,<2>2,<2>3, LedgerUnchanged
<1>7. CASE DeliveryEnds BY <1>7, EndSettles
<1>8. CASE AlarmEnds BY <1>8, PruneForgets DEF AlarmEnds
<1>9. CASE Tick
 <2>1. \A k \in Keys : effects'[k].event = effects[k].event
                        /\ effects'[k].state = effects[k].state BY <1>9, TickRows DEF Effect
 <2>2. \A ev \in Events : executions'[ev].request = executions[ev].request
                           /\ executions'[ev].state = executions[ev].state
  BY <1>9 DEF Tick, IInv, TypeOK, Execution
 <2> QED BY <2>1,<2>2, LedgerUnchanged
<1> QED BY <1>1,<1>2,<1>3,<1>4,<1>5,<1>6,<1>7,<1>8,<1>9 DEF Next, AlarmStep

\* The outbox of coordinator.js keeps the promise of EffectLedger: executions
\* are recorded whole, a delivered effect is final, only settled executions are
\* forgotten and the status shown is always the summary of the effects.
THEOREM LedgerImplemented == Spec => ImplementsLedger
<1>1. IInv /\ IInv' /\ [Next]_vars => [Ledger!Next]_(Ledger!vars) BY LedgerStep
<1> QED BY <1>1, LedgerInit, Inductive, PTL DEF Spec, ImplementsLedger, Ledger!Spec

-----------------------------------------------------------------------------
(* A Twitch channel                                                         *)

CONSTANTS Flows, Types, Tokens, Settings
VARIABLES setting, left, flow, auth, authAlarm, call, config, recovery, channelAlarm, run, queue, entry,
          links, twitch, history

Chan == INSTANCE TwitchChannel WITH alarm <- channelAlarm

\* SettingsAssumption of TwitchChannel, a hypothesis of the theorems about it.
ChannelSettings ==
  /\ Tokens \subseteq Nat /\ Tokens = 1 .. Cardinality(Tokens)
  /\ "chat" \in Types
  /\ Settings \subseteq [kinds : {<<"chat">>} \cup {<<"chat", k>> : k \in Types \ {"chat"}},
                         flows : [Flows -> Chan!FlowKinds], manages : BOOLEAN, left : [Chan!Budgets -> Nat]]

-----------------------------------------------------------------------------
(* The invariant *)

OnSteps == {"configure", "register", "verify", "put"}
OffSteps == {"deconfigure", "unregister", "deactivate", "put"}
RouteSteps == {"configure", "register", "deconfigure", "unregister"}
Checks == {"validate", "refresh", "revalidate"}
CallSteps == OnSteps \cup OffSteps \cup Checks \cup {"revoke"}
Token == {0} \cup Tokens

Handler == [todo : Seq(CallSteps), auth : Chan!AuthRecords, crossed : BOOLEAN, read : Token]
Record == [asked : {"none", "on", "off"}, overwritten : BOOLEAN, crossed : BOOLEAN, torn : BOOLEAN,
           unjust : BOOLEAN, ended : SUBSET Nat, uses : [Flows -> Nat]]
Outside == [subs : [Types -> SUBSET {"healthy", "stale"}], notices : SUBSET {"failed", "revoked"},
            live : SUBSET Nat, refreshable : SUBSET Nat, next : Nat \ {0}]
OAuth == [begun : SUBSET Flows, invites : SUBSET Flows, states : SUBSET Flows, exchanging : SUBSET Flows,
          alarm : BOOLEAN]
Run == [step : {"idle", "service", "register", "write", "failed"}, config : Chan!Configs, recovery : BOOLEAN,
        result : {"none", "healthy", "unknown"}]
Change == {"delete", "create"} \X Types \X {"healthy", "stale"}
Service == [kind : {"ensure", "remove"}, waiting : BOOLEAN, listed : BOOLEAN, todo : Seq(Change),
            status : {"none", "healthy", "unknown"}]

ChannelTypes ==
  /\ setting \in Settings /\ history \in Record /\ twitch \in Outside /\ flow \in OAuth
  /\ auth \in Chan!AuthRecords /\ authAlarm \in BOOLEAN /\ call \in [Chan!Callers -> Handler]
  /\ config \in Chan!Configs /\ recovery \in BOOLEAN /\ channelAlarm \in BOOLEAN /\ run \in Run
  /\ queue \in Seq(Service)

\* What is pending is what the status asks for.
Bound(a) == a.status = "authorized" /\ a.token # 0 /\ ~a.deconfiguration /\ ~a.deactivation
Released(a) == a.status \in {"disconnected", "reauthorization_required"} /\ ~a.provisioning /\ ~a.completion
Fitting(a) == a = Chan!NoAuth \/ Bound(a) \/ (Released(a) /\ a.token = 0)

\* What a handler still has to do: it ends by storing what it holds, or it is a check of the tokens.
Stores(todo, steps) == todo \in Seq(steps) /\ todo # <<>> /\ todo[Len(todo)] = "put"
Planned(c, r) ==
  \/ r = Chan!Idle
  \/ c = "operator" /\ r.todo # <<>> /\ r.todo \in Seq(RouteSteps) /\ r.auth.token = 0 /\ r.read = 0
  \/ c \in {"authorize", "alarm"} /\ Bound(r.auth) /\ Stores(r.todo, OnSteps)
  \/ c = "alarm" /\ Bound(r.auth) /\ \E s \in Checks : r.todo = <<s>> /\ (s # "revalidate" => r.auth.token = r.read)
  \/ c \in {"disconnect", "revoked", "alarm"} /\ Released(r.auth) /\ r.auth.token = 0 /\ Stores(r.todo, OffSteps)
  \/ /\ c = "disconnect" /\ Released(r.auth)
     /\ r.todo = <<"revoke", "deconfigure", "unregister", "deactivate", "put">>

Handlers ==
  /\ Fitting(auth)
  /\ Chan!Due(auth) => authAlarm \/ Chan!Busy("alarm")
  /\ \A c \in Chan!Callers : Planned(c, call[c])

\* Every token stored or about to be stored can be refreshed, or was ended; but the one the
\* alarm has refreshed is not stored yet.
Usable(t) == t = 0 \/ t \in twitch.refreshable \cup history.ended
Refreshed == Chan!Busy("alarm") /\ call["alarm"].auth.token # call["alarm"].read
Issue(t) == t < twitch.next
Held ==
  /\ \A t \in twitch.live \cup twitch.refreshable : t # 0 /\ Issue(t)
  /\ Issue(auth.token) /\ \A c \in Chan!Callers : Issue(call[c].auth.token) /\ Issue(call[c].read)
  /\ Usable(auth.token) \/ (Refreshed /\ auth.token = call["alarm"].read)
  /\ \A c \in {"authorize", "alarm"} : Usable(call[c].auth.token)
  /\ call["authorize"].auth.token # 0 =>
       call["authorize"].auth.token \notin {auth.token, call["alarm"].auth.token, call["alarm"].read}
  /\ Chan!Step("alarm", "revalidate") => call["alarm"].auth.token \in twitch.live \cup history.ended
  /\ ~history.unjust

FlowsOnce ==
  /\ Chan!Pending # {} => flow.alarm
  /\ Chan!Pending \subseteq flow.begun /\ flow.invites \cap flow.states = {}
  /\ \A f \in Flows : history.uses[f] <= 1 /\ (f \in Chan!Pending \/ f \notin flow.begun => history.uses[f] = 0)

\* The desired state, and what the running alarm remembers of it.
Desired ==
  /\ config.state = "enabled" => channelAlarm \/ run.step # "idle"
  /\ recovery => config.state = "enabled" \/ (config.state = "disabled" /\ config.last = "error" /\ history.overwritten)
  /\ run.recovery /\ run.config.state # "enabled" =>
       run.config.last = "error" /\ (history.overwritten \/ config # run.config)
  /\ run.step = "idle" => run = Chan!NoRun
  /\ run.step # "idle" => run.config.state # "none"
  /\ run.config.last # "deconfigured"
  /\ run.step = "register" => run.config.state = "enabled"

\* One operation of the manager waits at most, the last; only the first one has begun.
Wanted == IF run.config.state = "disabled" THEN "remove" ELSE "ensure"
Queued ==
  /\ \A i \in DOMAIN queue : queue[i].waiting => i = Len(queue) /\ queue[i].kind = Wanted
  /\ run.step = "service" <=> queue # <<>> /\ queue[Len(queue)].waiting
  /\ run.step \notin {"idle", "service"} => queue = <<>>
  /\ \A i \in DOMAIN queue : ~queue[i].listed => queue[i].todo = <<>>
  /\ \A i \in DOMAIN queue : i # 1 => ~queue[i].listed

\* What an operation has still to change leaves the subscriptions as it was asked to.
Deletes(todo, k, j) == \E n \in 1 .. j : todo[n][1] = "delete" /\ todo[n][2] = k
Orderly(todo) ==
  \A j \in DOMAIN todo :
    todo[j][1] = "create" =>
      /\ todo[j][2] \in Chan!Kinds /\ (twitch.subs[todo[j][2]] = {} \/ Deletes(todo, todo[j][2], j - 1))
      /\ \A n \in DOMAIN todo : n > j => todo[n][2] # todo[j][2]
Emptying(todo) ==
  /\ \A j \in DOMAIN todo : todo[j][1] = "delete"
  /\ \A k \in Types : twitch.subs[k] # {} => Deletes(todo, k, Len(todo))
NoneLeft == \A k \in Types : twitch.subs[k] = {}
Subscribed ==
  /\ \A k \in Types : twitch.subs[k] \in {{}, {"healthy"}, {"stale"}} /\ (twitch.subs[k] # {} => k \in Chan!Kinds)
  /\ \A i \in DOMAIN queue : queue[i].listed =>
        IF queue[i].kind = "ensure" THEN Orderly(queue[i].todo) ELSE Emptying(queue[i].todo)
  /\ run.step = "write" /\ run.config.state = "disabled" => NoneLeft
  /\ config.last = "deconfigured" =>
        config.state = "disabled" /\ ~channelAlarm /\ run.step = "idle" /\ queue = <<>> /\ NoneLeft

CInv == ChannelTypes /\ Handlers /\ Held /\ FlowsOnce /\ Desired /\ Queued /\ Subscribed

-----------------------------------------------------------------------------
(* Records and sequences                                                    *)

LEMMA Constants ==
  ASSUME ChannelSettings, setting \in Settings
  PROVE  /\ setting.manages \in BOOLEAN /\ "chat" \in Types /\ Tokens \subseteq Nat
         /\ setting.kinds \in {<<"chat">>} \cup {<<"chat", k>> : k \in Types \ {"chat"}}
BY DEF ChannelSettings

LEMMA TokensAre == ASSUME ChannelSettings PROVE \A t \in {0} \cup Tokens : t \in Nat
BY DEF ChannelSettings

\* A step of history changes the fields it names.
LEMMA NoteAsked ==
  ASSUME NEW w \in {"on", "off"}, Chan!Note([asked |-> w, overwritten |-> FALSE]), history \in Record
  PROVE  history' = [history EXCEPT !.asked = w, !.overwritten = FALSE] /\ history' \in Record
<1> DEFINE flags == [asked |-> w, overwritten |-> FALSE]
<1>1. DOMAIN flags = {"asked", "overwritten"} /\ flags.asked = w /\ flags.overwritten = FALSE OBVIOUS
<1> HIDE DEF flags
<1>2. history' = [f \in DOMAIN history |-> IF f \in DOMAIN flags THEN flags[f] ELSE history[f]]
 BY DEF Chan!Note, flags
<1> QED BY <1>1,<1>2 DEF Record

LEMMA NoteOverwritten ==
  ASSUME NEW b \in BOOLEAN, Chan!Note([overwritten |-> b]), history \in Record
  PROVE  history' = [history EXCEPT !.overwritten = b] /\ history' \in Record
BY DEF Chan!Note, Record

LEMMA NoteEnded ==
  ASSUME NEW ts \in SUBSET Nat, Chan!Note([ended |-> ts]), history \in Record
  PROVE  history' = [history EXCEPT !.ended = ts] /\ history' \in Record
BY DEF Chan!Note, Record

LEMMA NotePut ==
  ASSUME NEW b \in BOOLEAN, NEW d \in BOOLEAN, Chan!Note([crossed |-> b, torn |-> d]), history \in Record
  PROVE  history' = [history EXCEPT !.crossed = b, !.torn = d] /\ history' \in Record
<1> DEFINE flags == [crossed |-> b, torn |-> d]
<1>1. DOMAIN flags = {"crossed", "torn"} /\ flags.crossed = b /\ flags.torn = d OBVIOUS
<1> HIDE DEF flags
<1>2. history' = [f \in DOMAIN history |-> IF f \in DOMAIN flags THEN flags[f] ELSE history[f]]
 BY DEF Chan!Note, flags
<1> QED BY <1>1,<1>2 DEF Record

LEMMA NoteTorn ==
  ASSUME NEW b \in BOOLEAN, NEW d \in BOOLEAN, NEW ts \in SUBSET Nat, history \in Record,
         Chan!Note([torn |-> b, crossed |-> d, ended |-> ts])
  PROVE  history' = [history EXCEPT !.torn = b, !.crossed = d, !.ended = ts] /\ history' \in Record
<1> DEFINE flags == [torn |-> b, crossed |-> d, ended |-> ts]
<1>1. DOMAIN flags = {"torn", "crossed", "ended"} /\ flags.torn = b /\ flags.crossed = d /\ flags.ended = ts
 OBVIOUS
<1> HIDE DEF flags
<1>2. history' = [f \in DOMAIN history |-> IF f \in DOMAIN flags THEN flags[f] ELSE history[f]]
 BY DEF Chan!Note, flags
<1> QED BY <1>1,<1>2 DEF Record

LEMMA NoteUnjust ==
  ASSUME NEW b \in BOOLEAN, Chan!Note([unjust |-> b]), history \in Record
  PROVE  history' = [history EXCEPT !.unjust = b] /\ history' \in Record
BY DEF Chan!Note, Record

LEMMA NoteUses ==
  ASSUME NEW us \in [Flows -> Nat], Chan!Note([uses |-> us]), history \in Record
  PROVE  history' = [history EXCEPT !.uses = us] /\ history' \in Record
BY DEF Chan!Note, Record

LEMMA EmptyRecords ==
  /\ Chan!NoAuth \in Chan!AuthRecords /\ Fitting(Chan!NoAuth) /\ ~Chan!Due(Chan!NoAuth)
  /\ Chan!Idle \in Handler /\ Chan!Idle.todo = <<>> /\ Chan!Idle.auth.token = 0 /\ Chan!Idle.read = 0
  /\ Chan!NoConfig \in Chan!Configs /\ Chan!NoRun \in Run
<1>1. Chan!NoAuth \in Chan!AuthRecords /\ Fitting(Chan!NoAuth) /\ ~Chan!Due(Chan!NoAuth) /\ Chan!NoAuth.token = 0
 BY DEF Chan!NoAuth, Chan!AuthRecords, Chan!Statuses, Fitting, Chan!Due
<1>2. <<>> \in Seq(CallSteps) OBVIOUS
<1>3. Chan!Idle \in Handler /\ Chan!Idle.todo = <<>> /\ Chan!Idle.auth.token = 0 /\ Chan!Idle.read = 0
 BY <1>1,<1>2 DEF Chan!Idle, Handler, Token
<1>4. Chan!NoConfig \in Chan!Configs /\ Chan!NoRun \in Run BY DEF Chan!NoConfig, Chan!Configs, Chan!NoRun, Run
<1> QED BY <1>1,<1>3,<1>4

\* What is left of a plan that ends by storing.
LEMMA StoresAfter ==
  ASSUME NEW steps, NEW todo, Stores(todo, steps), Head(todo) # "put"
  PROVE  /\ Stores(Tail(todo), steps) /\ todo \in Seq(steps) /\ Head(todo) \in steps
         /\ Len(Tail(todo)) > 0
<1>1. todo \in Seq(steps) /\ Len(todo) \in Nat /\ Len(todo) # 0 /\ todo[Len(todo)] = "put" BY DEF Stores
<1>2. Len(todo) # 1 BY <1>1 DEF Stores
<1>3. Tail(todo) \in Seq(steps) /\ Len(Tail(todo)) = Len(todo) - 1 BY <1>1
<1>4. Tail(todo)[Len(todo) - 1] = todo[Len(todo)] BY <1>1,<1>2,<1>3
<1>5. Head(todo) \in steps BY <1>1
<1> DEFINE t == Tail(todo)
           n == Len(todo)
<1>6. t # <<>> /\ t[Len(t)] = "put" /\ Len(t) > 0
 <2>1. t \in Seq(steps) /\ Len(t) = n - 1 /\ n \in Nat /\ n > 1 /\ t[n - 1] = "put" BY <1>1,<1>2,<1>3,<1>4
 <2> HIDE DEF t, n
 <2> QED BY <2>1
<1>7. Stores(Tail(todo), steps) BY <1>3,<1>6 DEF Stores
<1> QED BY <1>1,<1>5,<1>6,<1>7

LEMMA StoresLast ==
  ASSUME NEW steps, "put" \in steps, NEW todo \in Seq(steps)
  PROVE  Stores(todo \o <<"put">>, steps)
<1>1. <<"put">> \in Seq(steps) OBVIOUS
<1>2. todo \o <<"put">> \in Seq(steps) /\ Len(todo \o <<"put">>) = Len(todo) + 1
      /\ (todo \o <<"put">>)[Len(todo) + 1] = "put" BY <1>1
<1> QED BY <1>2 DEF Stores

LEMMA Plans ==
  ASSUME NEW a \in Chan!AuthRecords
  PROVE  /\ Stores(Chan!Provision(a), OnSteps) /\ Stores(<<"configure", "register">> \o Chan!Provision(a), OnSteps)
         /\ Stores(Chan!Deprovision(a), OffSteps) /\ Stores(Chan!Invalidation, OffSteps)
<1> DEFINE on == Chan!If(a.provisioning, <<"configure", "register">>)
           verify == Chan!If(a.completion, <<"verify">>)
           off == Chan!If(a.deconfiguration, <<"deconfigure">>)
           gone == Chan!If(a.deconfiguration /\ a.status = "disconnected", <<"unregister">>)
           unlink == Chan!If(a.deactivation, <<"deactivate">>)
<1>0. /\ <<"configure", "register">> \in Seq(OnSteps) /\ <<"verify">> \in Seq(OnSteps) /\ <<>> \in Seq(OnSteps)
      /\ <<"deconfigure">> \in Seq(OffSteps) /\ <<"unregister">> \in Seq(OffSteps)
      /\ <<"deactivate">> \in Seq(OffSteps) /\ <<>> \in Seq(OffSteps) BY DEF OnSteps, OffSteps
<1>00. \A cond, steps : Chan!If(cond, steps) = steps \/ Chan!If(cond, steps) = <<>> BY DEF Chan!If
<1>1. on \in Seq(OnSteps) /\ verify \in Seq(OnSteps) /\ <<"configure", "register">> \in Seq(OnSteps) BY <1>0,<1>00
<1>2. off \in Seq(OffSteps) /\ gone \in Seq(OffSteps) /\ unlink \in Seq(OffSteps) BY <1>0,<1>00
<1> HIDE DEF on, verify, off, gone, unlink
<1>3. on \o verify \in Seq(OnSteps) /\ (off \o gone) \o unlink \in Seq(OffSteps) BY <1>1,<1>2
<1>4. "put" \in OnSteps /\ "put" \in OffSteps BY DEF OnSteps, OffSteps
<1>5. Stores((on \o verify) \o <<"put">>, OnSteps) /\ Stores(((off \o gone) \o unlink) \o <<"put">>, OffSteps)
 BY <1>3,<1>4, StoresLast
<1>6. Chan!Provision(a) = (on \o verify) \o <<"put">> /\ Chan!Deprovision(a) = ((off \o gone) \o unlink) \o <<"put">>
 BY DEF Chan!Provision, Chan!Deprovision, on, verify, off, gone, unlink
<1>7. Stores(<<"configure", "register">> \o Chan!Provision(a), OnSteps)
 <2>1. Chan!Provision(a) \in Seq(OnSteps) /\ Chan!Provision(a) # <<>> /\ Chan!Provision(a)[Len(Chan!Provision(a))] = "put"
  BY <1>5,<1>6 DEF Stores
 <2> DEFINE p == Chan!Provision(a)
            q == <<"configure", "register">> \o p
 <2> HIDE DEF p
 <2>2. q \in Seq(OnSteps) /\ Len(q) = Len(p) + 2 /\ Len(p) \in Nat \ {0} BY <2>1,<1>1 DEF p
 <2>3. q[Len(p) + 2] = p[Len(p)] BY <2>1,<2>2,<1>1 DEF p
 <2> QED BY <2>1,<2>2,<2>3 DEF Stores, p
<1>8. Stores(Chan!Invalidation, OffSteps) BY DEF Stores, Chan!Invalidation, OffSteps
<1> QED BY <1>5,<1>6,<1>7,<1>8

-----------------------------------------------------------------------------
(* Handlers that go on, and those that wait meanwhile                       *)

SameWork(c) == call'[c].todo = call[c].todo /\ call'[c].auth = call[c].auth /\ call'[c].read = call[c].read

\* What c holds when it goes on, and when it begins.
Later(c, a, todo) == [call[c] EXCEPT !.auth = a, !.todo = todo]
Begun(a, todo) == [todo |-> todo, auth |-> a, crossed |-> FALSE, read |-> a.token]

LEMMA PlansAre ==
  ASSUME NEW c, NEW r, Planned(c, r), NEW r2, r2.todo = r.todo, r2.auth = r.auth, r2.read = r.read, r # Chan!Idle
  PROVE  Planned(c, r2)
BY DEF Planned

LEMMA IdleWaits ==
  ASSUME ChannelTypes, Handlers, NEW c \in Chan!Callers
  PROVE  Chan!Busy(c) <=> call[c] # Chan!Idle
<1>1. call[c] \in Handler /\ Planned(c, call[c]) BY DEF ChannelTypes, Handlers
<1>2. ASSUME call[c] # Chan!Idle PROVE call[c].todo # <<>>
 <2>1. \A s \in Checks : <<s>> # <<>> OBVIOUS
 <2>2. <<"revoke", "deconfigure", "unregister", "deactivate", "put">> # <<>> OBVIOUS
 <2> QED BY <1>1,<1>2,<2>1,<2>2 DEF Planned, Stores
<1> QED BY <1>2, EmptyRecords DEF Chan!Busy

LEMMA Continues ==
  ASSUME ChannelTypes, Handlers, NEW c \in Chan!Callers, NEW a \in Chan!AuthRecords, NEW todo \in Seq(CallSteps),
         NEW changes \in BOOLEAN, Chan!Continue(c, a, todo, changes),
         todo # <<>> => Planned(c, Later(c, a, todo))
  PROVE  /\ call' \in [Chan!Callers -> Handler] /\ \A d \in Chan!Callers : Planned(d, call'[d])
         /\ \A d \in Chan!Callers : d # c => SameWork(d)
         /\ todo = <<>> => call'[c] = Chan!Idle
         /\ todo # <<>> => call'[c].auth = a /\ call'[c].todo = todo /\ call'[c].read = call[c].read
<1> DEFINE next(d) == IF d = c THEN IF todo = <<>> THEN Chan!Idle ELSE [call[c] EXCEPT !.auth = a, !.todo = todo]
                      ELSE [call[d] EXCEPT !.crossed = @ \/ (changes /\ Chan!Busy(d))]
<1>1. call' = [d \in Chan!Callers |-> next(d)] BY DEF Chan!Continue
<1>2. \A d \in Chan!Callers : call[d] \in Handler /\ Chan!Busy(d) \in BOOLEAN BY DEF ChannelTypes, Chan!Busy
<1>3. ASSUME NEW d \in Chan!Callers, d # c
      PROVE  next(d) \in Handler /\ next(d).todo = call[d].todo /\ next(d).auth = call[d].auth
             /\ next(d).read = call[d].read /\ Planned(d, next(d))
 <2> DEFINE b == changes /\ Chan!Busy(d)
            r == [call[d] EXCEPT !.crossed = @ \/ b]
 <2>1. b \in BOOLEAN /\ (call[d] = Chan!Idle => ~b) BY <1>2, IdleWaits
 <2> HIDE DEF b
 <2>2. r \in Handler /\ r.todo = call[d].todo /\ r.auth = call[d].auth /\ r.read = call[d].read
  BY <1>2,<2>1 DEF Handler
 <2>3. call[d] = Chan!Idle => r = Chan!Idle BY <1>2,<2>1 DEF Handler
 <2>4. Planned(d, call[d]) BY DEF Handlers
 <2>5. next(d) = r BY <1>3 DEF b
 <2> HIDE DEF r, next
 <2>6. Planned(d, r)
  <3>1. CASE call[d] = Chan!Idle BY <2>3,<2>4,<3>1
  <3>2. CASE call[d] # Chan!Idle BY <2>2,<2>4,<3>2, PlansAre
  <3> QED BY <3>1,<3>2
 <2> QED BY <2>2,<2>5,<2>6
<1>4. next(c) \in Handler /\ Planned(c, next(c))
 <2>1. CASE todo = <<>> BY <2>1, EmptyRecords DEF Planned
 <2>2. CASE todo # <<>> BY <1>2,<2>2 DEF Handler, Later
 <2> QED BY <2>1,<2>2
<1>5. todo # <<>> => next(c).auth = a /\ next(c).todo = todo /\ next(c).read = call[c].read BY <1>2 DEF Handler
<1>6. todo = <<>> => next(c) = Chan!Idle OBVIOUS
<1> HIDE DEF next
<1>7. \A d \in Chan!Callers : call'[d] = next(d) BY <1>1
<1> QED BY <1>1,<1>3,<1>4,<1>5,<1>6,<1>7 DEF SameWork

LEMMA Starts ==
  ASSUME ChannelTypes, Handlers, NEW c \in Chan!Callers, NEW a \in Chan!AuthRecords, NEW todo \in Seq(CallSteps),
         Chan!Start(c, a, todo), todo # <<>>,
         Planned(c, Begun(a, todo))
  PROVE  /\ call' \in [Chan!Callers -> Handler] /\ \A d \in Chan!Callers : Planned(d, call'[d])
         /\ \A d \in Chan!Callers : d # c => call'[d] = call[d] /\ SameWork(d)
         /\ call'[c].auth = a /\ call'[c].todo = todo /\ call'[c].read = a.token
<1> DEFINE r == [todo |-> todo, auth |-> a, crossed |-> FALSE, read |-> a.token]
<1>1. a.token \in Token BY DEF Chan!AuthRecords, Token
<1>2. r \in Handler /\ r.auth = a /\ r.todo = todo /\ r.read = a.token BY <1>1 DEF Handler
<1>3. call' = [call EXCEPT ![c] = r] /\ Planned(c, r) BY DEF Chan!Start, Begun
<1>4. call \in [Chan!Callers -> Handler] /\ \A d \in Chan!Callers : Planned(d, call[d])
 BY DEF ChannelTypes, Handlers
<1> HIDE DEF r
<1> QED BY <1>2,<1>3,<1>4 DEF SameWork

-----------------------------------------------------------------------------
(* Tokens                                                                   *)

TokensKept ==
  /\ twitch'.live \subseteq twitch.live /\ twitch'.refreshable \subseteq twitch.refreshable
  /\ twitch'.next = twitch.next
  /\ history.ended \subseteq history'.ended /\ history'.unjust = history.unjust
  /\ twitch.refreshable \subseteq twitch'.refreshable \cup history'.ended
  /\ twitch.live \subseteq twitch'.live \cup history'.ended

\* The alarm holds the tokens it held.
AlarmKeeps ==
  /\ call'["alarm"].auth.token = call["alarm"].auth.token /\ call'["alarm"].read = call["alarm"].read
  /\ Chan!Busy("alarm")' <=> Chan!Busy("alarm")
  /\ Chan!Step("alarm", "revalidate")' => Chan!Step("alarm", "revalidate")

\* No token is forgotten, though one may be issued.
TokensMoved ==
  /\ twitch.next <= twitch'.next /\ \A t \in twitch'.live \cup twitch'.refreshable : t # 0 /\ t < twitch'.next
  /\ history.ended \subseteq history'.ended /\ history'.unjust = history.unjust
  /\ twitch.refreshable \subseteq twitch'.refreshable \cup history'.ended
  /\ twitch.live \subseteq twitch'.live \cup history'.ended

LEMMA KeptMoves ==
  ASSUME ChannelTypes, Held, TokensKept
  PROVE  TokensMoved
BY DEF TokensKept, TokensMoved, Held, Issue, ChannelTypes, Outside

LEMMA HeldMoves ==
  ASSUME ChannelSettings, ChannelTypes, Held, TokensMoved, twitch' \in Outside, auth' = auth, AlarmKeeps,
         \A c \in Chan!Callers : call'[c].auth.token < twitch'.next /\ call'[c].read < twitch'.next,
         call'["authorize"].auth.token \in {0, call["authorize"].auth.token}
  PROVE  Held'
<1>1. \A t : Usable(t) => Usable(t)' BY DEF Usable, TokensMoved
<1>2. Usable(auth.token)' \/ (Refreshed' /\ auth'.token = call'["alarm"].read)
 BY <1>1 DEF Held, Refreshed, AlarmKeeps
<1>3. Usable(call["authorize"].auth.token)' /\ Usable(call["alarm"].auth.token)'
 BY <1>1 DEF Held, AlarmKeeps, Usable
<1>4. Chan!Step("alarm", "revalidate")' => call'["alarm"].auth.token \in twitch'.live \cup history'.ended
 BY DEF Held, AlarmKeeps, TokensMoved
<1>5. call'["authorize"].auth.token # 0 =>
        call'["authorize"].auth.token \notin {auth'.token, call'["alarm"].auth.token, call'["alarm"].read}
 BY DEF Held, AlarmKeeps
<1>6. auth'.token < twitch'.next
 <2>1. auth.token \in Nat /\ twitch.next \in Nat /\ twitch'.next \in Nat
  <3>1. auth.token \in {0} \cup Tokens /\ twitch.next \in Nat /\ twitch'.next \in Nat
   BY DEF ChannelTypes, Chan!AuthRecords, Outside
  <3> QED BY <3>1, TokensAre
 <2> QED BY <2>1 DEF Held, Issue, TokensMoved
<1> QED BY <1>2,<1>3,<1>4,<1>5,<1>6 DEF Held, Issue, TokensMoved

LEMMA HeldStays ==
  ASSUME ChannelSettings, ChannelTypes, Held, TokensKept, auth' = auth, AlarmKeeps,
         \A c \in Chan!Callers : call'[c].auth.token < twitch.next /\ call'[c].read < twitch.next,
         call'["authorize"].auth.token \in {0, call["authorize"].auth.token}, twitch' \in Outside
  PROVE  Held'
<1>1. twitch'.next = twitch.next BY DEF TokensKept
<1> QED BY <1>1, KeptMoves, HeldMoves

LEMMA SameHeld ==
  ASSUME ChannelSettings, ChannelTypes, Held, TokensKept, auth' = auth, call' = call, twitch' \in Outside
  PROVE  Held'
BY HeldStays DEF AlarmKeeps, Held, Issue, Chan!Busy, Chan!Step

\* The tokens are not touched.
Untouched == /\ twitch'.live = twitch.live /\ twitch'.refreshable = twitch.refreshable /\ twitch'.next = twitch.next
             /\ history'.ended = history.ended /\ history'.unjust = history.unjust

LEMMA UntouchedKept ==
  ASSUME Untouched
  PROVE  TokensKept
BY DEF Untouched, TokensKept

LEMMA SameOutside ==
  ASSUME ChannelTypes, UNCHANGED Chan!outside
  PROVE  twitch' \in Outside
BY DEF ChannelTypes, Chan!outside

-----------------------------------------------------------------------------
(* Parts that a step does not touch                                         *)

LEMMA SameHandlers ==
  ASSUME Handlers, UNCHANGED <<auth, authAlarm, call>>
  PROVE  Handlers'
BY DEF Handlers, Chan!Busy, Chan!Due

LEMMA SameFlows ==
  ASSUME FlowsOnce, flow' = flow, history'.uses = history.uses
  PROVE  FlowsOnce'
BY DEF FlowsOnce, Chan!Pending

LEMMA SameManager ==
  ASSUME Desired, Queued, Subscribed, UNCHANGED <<setting, config, recovery, channelAlarm, run, queue>>,
         twitch'.subs = twitch.subs, history'.overwritten = history.overwritten
  PROVE  Desired' /\ Queued' /\ Subscribed'
<1>1. Desired' BY DEF Desired
<1>2. Queued' BY DEF Queued, Wanted
<1>3. Chan!Kinds' = Chan!Kinds /\ NoneLeft' = NoneLeft BY DEF Chan!Kinds, NoneLeft
<1>4. \A todo : Orderly(todo)' = Orderly(todo) /\ Emptying(todo)' = Emptying(todo) BY <1>3 DEF Orderly, Emptying
<1>5. Subscribed' BY <1>3,<1>4 DEF Subscribed
<1> QED BY <1>1,<1>2,<1>5

-----------------------------------------------------------------------------
(* A handler's next call                                                    *)

AskSteps == {"configure", "register", "deconfigure", "unregister", "verify", "deactivate"}
\* What the handler notes about its call fits the call.
NotedFor(s, a, b) ==
  /\ b \in Chan!AuthRecords /\ b.token = a.token /\ b.status = a.status
  /\ s \in OnSteps => b.deconfiguration = a.deconfiguration /\ b.deactivation = a.deactivation
  /\ s \in OffSteps => b.provisioning = a.provisioning /\ b.completion = a.completion

LEMMA StepsAre ==
  /\ \A todo : todo \in Seq(OnSteps) \/ todo \in Seq(OffSteps) \/ todo \in Seq(RouteSteps) => todo \in Seq(CallSteps)
  /\ \A steps : <<>> \in Seq(steps)
  /\ "revalidate" \notin OnSteps \cup OffSteps
BY DEF OnSteps, OffSteps, RouteSteps, CallSteps, Checks

LEMMA PlanGoesOn ==
  ASSUME ChannelTypes, Handlers, NEW c \in Chan!Callers, NEW s \in AskSteps, Chan!Step(c, s),
         NEW a, NotedFor(s, call[c].auth, a), NEW todo \in {Chan!After(c), Chan!Failed(c)}
  PROVE  /\ todo \in Seq(CallSteps)
         /\ todo # <<>> => Planned(c, Later(c, a, todo))
         /\ c = "operator" => call[c].auth.token = 0 /\ call[c].read = 0
         /\ c # "operator" => todo # <<>> /\ Head(todo) # "revalidate" /\ Head(call[c].todo) # "revalidate"
<1> DEFINE old == call[c].todo
           r == Later(c, a, todo)
<1>1. call[c] \in Handler /\ call[c].auth \in Chan!AuthRecords /\ Planned(c, call[c])
 BY DEF ChannelTypes, Handlers, Handler
<1>2. r.auth = a /\ r.todo = todo /\ r.read = call[c].read BY <1>1 DEF Handler, Later
<1>3. old # <<>> /\ Head(old) = s /\ s # "put" /\ s \notin Checks \cup {"revoke"}
 BY DEF Chan!Step, Chan!Busy, AskSteps, Checks
<1>4. call[c] # Chan!Idle BY <1>3, EmptyRecords
<1>5. ASSUME NEW t, Stores(t, OnSteps) \/ Stores(t, OffSteps)
      PROVE  t \in Seq(CallSteps) /\ t # <<>> /\ Head(t) # "revalidate"
 <2>1. CASE Stores(t, OnSteps)
  <3>1. t \in Seq(OnSteps) /\ t # <<>> BY <2>1 DEF Stores
  <3>2. Head(t) \in OnSteps BY <3>1
  <3> QED BY <3>1,<3>2, StepsAre
 <2>2. CASE Stores(t, OffSteps)
  <3>1. t \in Seq(OffSteps) /\ t # <<>> BY <2>2 DEF Stores
  <3>2. Head(t) \in OffSteps BY <3>1
  <3> QED BY <3>1,<3>2, StepsAre
 <2> QED BY <1>5,<2>1,<2>2
<1>6. ASSUME NEW steps \in {OnSteps, OffSteps}, Stores(old, steps), c # "operator"
      PROVE  Stores(todo, steps) /\ s \in steps
 <2>1. Stores(Tail(old), steps) /\ Len(Tail(old)) > 0 /\ s \in steps BY <1>3,<1>6, StoresAfter
 <2>2. Head(Tail(old)) \in {"register", "unregister"} => Stores(Tail(Tail(old)), steps) BY <2>1, StoresAfter
 <2>3. todo = Tail(old) \/ (todo = Tail(Tail(old)) /\ Head(Tail(old)) \in {"register", "unregister"})
  BY <1>6 DEF Chan!After, Chan!Failed
 <2> QED BY <2>1,<2>2,<2>3
<1> HIDE DEF r
<1>7. CASE c = "operator" /\ old \in Seq(RouteSteps) /\ call[c].auth.token = 0 /\ call[c].read = 0
 <2>1. todo = Tail(old) \/ todo = <<>> BY <1>7 DEF Chan!After, Chan!Failed
 <2>2. todo \in Seq(RouteSteps)
  <3>1. old \in Seq(RouteSteps) /\ old # <<>> BY <1>3,<1>7
  <3> HIDE DEF old
  <3>2. Tail(old) \in Seq(RouteSteps) BY <3>1
  <3> QED BY <2>1,<3>2, StepsAre
 <2>3. a.token = 0 BY <1>7 DEF NotedFor
 <2>4. todo # <<>> => Planned(c, r) BY <1>2,<1>7,<2>2,<2>3 DEF Planned
 <2> QED BY <1>7,<2>2,<2>4, StepsAre DEF r
<1>8. CASE c \in {"authorize", "alarm"} /\ Bound(call[c].auth) /\ Stores(old, OnSteps)
 <2>1. Stores(todo, OnSteps) /\ s \in OnSteps BY <1>6,<1>8
 <2>2. Bound(a) BY <1>8,<2>1 DEF Bound, NotedFor
 <2>3. Planned(c, r) BY <1>2,<1>8,<2>1,<2>2 DEF Planned
 <2> QED BY <1>3,<1>5,<1>8,<2>1,<2>3 DEF r, Checks
<1>9. CASE c \in {"disconnect", "revoked", "alarm"} /\ Released(call[c].auth) /\ call[c].auth.token = 0 /\ Stores(old, OffSteps)
 <2>1. Stores(todo, OffSteps) /\ s \in OffSteps BY <1>6,<1>9
 <2>2. Released(a) /\ a.token = 0 BY <1>9,<2>1 DEF Released, NotedFor
 <2>3. Planned(c, r) BY <1>2,<1>9,<2>1,<2>2 DEF Planned
 <2> QED BY <1>3,<1>5,<1>9,<2>1,<2>3 DEF r, Checks
<1>10. ~\E x \in Checks : old = <<x>>
 <2>1. \A x : Head(<<x>>) = x OBVIOUS
 <2> QED BY <1>3,<2>1
<1>11. old # <<"revoke", "deconfigure", "unregister", "deactivate", "put">> BY <1>3
<1> QED BY <1>1,<1>4,<1>7,<1>8,<1>9,<1>10,<1>11 DEF Planned

LEMMA CallWorks ==
  ASSUME ChannelSettings, ChannelTypes, Handlers, Held, NEW c \in Chan!Callers, NEW s \in AskSteps, Chan!Step(c, s),
         NEW a, NotedFor(s, call[c].auth, a), NEW todo \in {Chan!After(c), Chan!Failed(c)}, NEW changes \in BOOLEAN,
         Chan!Continue(c, a, todo, changes), UNCHANGED <<auth, authAlarm>>, TokensKept, twitch' \in Outside
  PROVE  call' \in [Chan!Callers -> Handler] /\ Handlers' /\ Held'
<1>1. /\ todo \in Seq(CallSteps)
      /\ todo # <<>> => Planned(c, Later(c, a, todo))
      /\ c = "operator" => call[c].auth.token = 0 /\ call[c].read = 0
      /\ c # "operator" => todo # <<>> /\ Head(todo) # "revalidate" /\ Head(call[c].todo) # "revalidate"
 BY PlanGoesOn
<1>2. a \in Chan!AuthRecords /\ a.token = call[c].auth.token BY DEF NotedFor
<1>3. /\ call' \in [Chan!Callers -> Handler] /\ \A d \in Chan!Callers : Planned(d, call'[d])
      /\ \A d \in Chan!Callers : d # c => SameWork(d)
      /\ todo = <<>> => call'[c] = Chan!Idle
      /\ todo # <<>> => call'[c].auth = a /\ call'[c].todo = todo /\ call'[c].read = call[c].read
 <2>1. todo \in Seq(CallSteps) /\ a \in Chan!AuthRecords BY <1>1,<1>2
 <2>2. todo # <<>> => Planned(c, Later(c, a, todo)) BY <1>1
 <2> QED BY <2>1,<2>2, Continues
<1>4. \A d \in Chan!Callers : call'[d].auth.token = call[d].auth.token /\ call'[d].read = call[d].read
 BY <1>1,<1>2,<1>3, EmptyRecords DEF SameWork
<1>5. "alarm" \in Chan!Callers /\ "authorize" \in Chan!Callers BY DEF Chan!Callers
<1>6. AlarmKeeps
 <2>1. CASE c = "alarm" BY <1>1,<1>3,<1>4,<2>1 DEF AlarmKeeps, Chan!Busy, Chan!Step
 <2>2. CASE c # "alarm" BY <1>3,<1>4,<1>5,<2>2 DEF AlarmKeeps, Chan!Busy, Chan!Step, SameWork
 <2> QED BY <2>1,<2>2
<1>7. Held'
 <2>1. \A d \in Chan!Callers : call'[d].auth.token < twitch.next /\ call'[d].read < twitch.next
  BY <1>4 DEF Held, Issue
 <2> QED BY <1>4,<1>5,<1>6,<2>1, HeldStays
<1>8. Handlers' BY <1>3,<1>6 DEF Handlers, AlarmKeeps, Chan!Due
<1> QED BY <1>3,<1>7,<1>8

-----------------------------------------------------------------------------
(* The desired state of the manager                                         *)

ManagerTypes == config \in Chan!Configs /\ recovery \in BOOLEAN /\ channelAlarm \in BOOLEAN
Manager == Desired /\ Queued /\ Subscribed

LEMMA DesiredChanges ==
  ASSUME ChannelTypes, Manager, ManagerTypes', UNCHANGED <<setting, run, queue>>, twitch'.subs = twitch.subs,
         config'.last # "deconfigured", Desired'
  PROVE  Manager'
<1>1. Queued' BY DEF Manager, Queued, Wanted
<1>2. Chan!Kinds' = Chan!Kinds /\ NoneLeft' = NoneLeft BY DEF Chan!Kinds, NoneLeft
<1>3. \A todo : Orderly(todo)' = Orderly(todo) /\ Emptying(todo)' = Emptying(todo) BY <1>2 DEF Orderly, Emptying
<1>4. Subscribed' BY <1>2,<1>3 DEF Manager, Subscribed
<1> QED BY <1>1,<1>4 DEF Manager

LEMMA ConfigureIs ==
  ASSUME ChannelTypes, Manager, Chan!configureChannel, UNCHANGED <<setting, run, queue>>, twitch'.subs = twitch.subs,
         history'.overwritten = FALSE
  PROVE  ManagerTypes' /\ Manager'
<1>1. config \in Chan!Configs /\ config' \in Chan!Configs /\ config'.state = "enabled"
      /\ config'.last = IF config.state = "enabled" THEN config.last ELSE "pending"
 BY DEF ChannelTypes, Chan!configureChannel, Chan!Configs
<1>2. config'.last # "deconfigured" BY <1>1 DEF Manager, Subscribed
<1>3. ManagerTypes' BY <1>1 DEF ManagerTypes, Chan!configureChannel, ChannelTypes
<1>4. Desired' BY <1>1 DEF Manager, Desired, Chan!configureChannel
<1> QED BY <1>2,<1>3,<1>4, DesiredChanges

LEMMA DeconfigureIs ==
  ASSUME ChannelTypes, Manager, Chan!deconfigureChannel, UNCHANGED <<setting, run, queue>>, twitch'.subs = twitch.subs,
         history'.overwritten = FALSE
  PROVE  ManagerTypes' /\ Manager'
<1>1. config' \in Chan!Configs /\ config'.state = "disabled" /\ config'.last = "deconfiguration_pending"
 BY DEF ChannelTypes, Chan!deconfigureChannel, Chan!Configs
<1>2. ManagerTypes' BY <1>1 DEF ManagerTypes, Chan!deconfigureChannel
<1>3. Desired' BY <1>1 DEF Manager, Desired, Chan!deconfigureChannel
<1> QED BY <1>1,<1>2,<1>3, DesiredChanges

LEMMA RecoveryIs ==
  ASSUME ChannelTypes, Manager, NEW same \in BOOLEAN, Chan!queueRecovery(same), UNCHANGED <<setting, run, queue>>,
         twitch'.subs = twitch.subs, history' = history
  PROVE  ManagerTypes' /\ Manager'
<1>1. CASE config.state = "disabled"
 <2>1. UNCHANGED <<config, recovery, channelAlarm>> BY <1>1 DEF Chan!queueRecovery
 <2>2. ManagerTypes' BY <2>1 DEF ManagerTypes, ChannelTypes
 <2> QED BY <2>1,<2>2, SameManager DEF Manager
<1>2. CASE config.state # "disabled"
 <2>1. config' \in Chan!Configs /\ config'.state = "enabled"
       /\ config'.last = (IF config.last = "none" THEN "recovery_queued" ELSE config.last)
       /\ config'.status = config.status BY <1>2 DEF ChannelTypes, Chan!queueRecovery, Chan!Configs
 <2>2. ManagerTypes' BY <1>2,<2>1 DEF ManagerTypes, Chan!queueRecovery, ChannelTypes
 <2>3. config'.last # "deconfigured" BY <1>2,<2>1 DEF Manager, Subscribed
 <2>5. config'.state = "enabled" => channelAlarm' \/ run'.step # "idle"
  <3>1. recovery => channelAlarm \/ run.step # "idle" BY <1>2 DEF Manager, Desired
  <3> QED BY <1>2,<3>1 DEF Chan!queueRecovery
 <2>6. run.recovery /\ run.config.state # "enabled" =>
         run.config.last = "error" /\ (history.overwritten \/ config' # run.config) BY <2>1 DEF Manager, Desired
 <2>7. Desired' BY <2>1,<2>5,<2>6 DEF Manager, Desired
 <2> QED BY <2>2,<2>3,<2>7, DesiredChanges
<1> QED BY <1>1,<1>2

-----------------------------------------------------------------------------
(* Calls                                                                    *)

LEMMA Together ==
  ASSUME ChannelTypes', Handlers', Held', FlowsOnce', Manager'
  PROVE  CInv'
BY DEF CInv, Manager

LEMMA NotesFit ==
  ASSUME NEW a \in Chan!AuthRecords, NEW b \in BOOLEAN
  PROVE  /\ \A s \in {"configure", "register"} : NotedFor(s, a, [a EXCEPT !.provisioning = b])
         /\ \A s \in {"deconfigure", "unregister"} : NotedFor(s, a, [a EXCEPT !.deconfiguration = b])
         /\ NotedFor("verify", a, [a EXCEPT !.completion = b])
         /\ NotedFor("deactivate", a, [a EXCEPT !.deactivation = b])
BY DEF NotedFor, Chan!AuthRecords, OnSteps, OffSteps

\* A call that leaves the manager and Twitch as they are.
LEMMA CallElsewhere ==
  ASSUME CInv, call' \in [Chan!Callers -> Handler], Handlers', Held',
         UNCHANGED <<auth, authAlarm, Chan!managerVars, history, Chan!outside>>
  PROVE  CInv'
<1>1. ChannelTypes' BY DEF CInv, ChannelTypes, Chan!managerVars, Chan!outside
<1>2. FlowsOnce' BY SameFlows DEF CInv, Chan!outside
<1>3. Manager' BY SameManager DEF CInv, Manager, Chan!managerVars, Chan!outside
<1> QED BY <1>1,<1>2,<1>3, Together

LEMMA UnchangedTokens ==
  ASSUME UNCHANGED <<history, Chan!outside>>
  PROVE  TokensKept
BY UntouchedKept DEF Untouched, Chan!outside

LEMMA RegisterKeeps ==
  ASSUME ChannelSettings, CInv, NEW c \in Chan!Callers, NEW o \in Chan!Outcomes, Chan!register(c, o)
  PROVE  CInv'
<1> DEFINE a == [call[c].auth EXCEPT !.provisioning = o # "done"]
<1>1. call[c].auth \in Chan!AuthRecords /\ ChannelTypes /\ Handlers /\ Held BY DEF CInv, ChannelTypes, Handler
<1>2. NotedFor("register", call[c].auth, a) /\ "register" \in AskSteps BY <1>1, NotesFit DEF AskSteps
<1>3. Chan!Continue(c, a, Chan!After(c), o # "failed") /\ Chan!Step(c, "register")
      /\ UNCHANGED <<auth, authAlarm, Chan!managerVars, history, Chan!outside>> BY DEF Chan!register
<1>4. TokensKept BY <1>3, UnchangedTokens
<1> HIDE DEF a
<1>5. call' \in [Chan!Callers -> Handler] /\ Handlers' /\ Held' BY <1>1,<1>2,<1>3,<1>4, SameOutside, CallWorks
<1> QED BY <1>3,<1>5, CallElsewhere

LEMMA UnregisterKeeps ==
  ASSUME ChannelSettings, CInv, NEW c \in Chan!Callers, NEW o \in Chan!Outcomes, Chan!unregister(c, o)
  PROVE  CInv'
<1> DEFINE a == [call[c].auth EXCEPT !.deconfiguration = o # "done"]
<1>1. call[c].auth \in Chan!AuthRecords /\ ChannelTypes /\ Handlers /\ Held BY DEF CInv, ChannelTypes, Handler
<1>2. NotedFor("unregister", call[c].auth, a) /\ "unregister" \in AskSteps BY <1>1, NotesFit DEF AskSteps
<1>3. Chan!Continue(c, a, Chan!After(c), o # "failed") /\ Chan!Step(c, "unregister")
      /\ UNCHANGED <<auth, authAlarm, Chan!managerVars, history, Chan!outside>> BY DEF Chan!unregister
<1>4. TokensKept BY <1>3, UnchangedTokens
<1> HIDE DEF a
<1>5. call' \in [Chan!Callers -> Handler] /\ Handlers' /\ Held' BY <1>1,<1>2,<1>3,<1>4, SameOutside, CallWorks
<1> QED BY <1>3,<1>5, CallElsewhere

LEMMA VerifyKeeps ==
  ASSUME ChannelSettings, CInv, NEW c \in Chan!Callers, NEW o \in Chan!Outcomes, NEW active \in BOOLEAN,
         Chan!verifyPendingIntegration(c, o, active)
  PROVE  CInv'
<1> DEFINE a == [call[c].auth EXCEPT !.completion = o # "done"]
<1>1. call[c].auth \in Chan!AuthRecords /\ ChannelTypes /\ Handlers /\ Held BY DEF CInv, ChannelTypes, Handler
<1>2. NotedFor("verify", call[c].auth, a) /\ "verify" \in AskSteps BY <1>1, NotesFit DEF AskSteps
<1>3. Chan!Continue(c, a, Chan!After(c), o # "failed") /\ Chan!Step(c, "verify")
      /\ UNCHANGED <<auth, authAlarm, Chan!managerVars, history, Chan!outside>>
 BY DEF Chan!verifyPendingIntegration
<1>4. TokensKept BY <1>3, UnchangedTokens
<1> HIDE DEF a
<1>5. call' \in [Chan!Callers -> Handler] /\ Handlers' /\ Held' BY <1>1,<1>2,<1>3,<1>4, SameOutside, CallWorks
<1> QED BY <1>3,<1>5, CallElsewhere

LEMMA DeactivateKeeps ==
  ASSUME ChannelSettings, CInv, NEW c \in Chan!Callers, NEW o \in Chan!Outcomes, Chan!deactivateLinkedIntegrations(c, o)
  PROVE  CInv'
<1> DEFINE a == [call[c].auth EXCEPT !.deactivation = o # "done"]
<1>1. call[c].auth \in Chan!AuthRecords /\ ChannelTypes /\ Handlers /\ Held BY DEF CInv, ChannelTypes, Handler
<1>2. NotedFor("deactivate", call[c].auth, a) /\ "deactivate" \in AskSteps BY <1>1, NotesFit DEF AskSteps
<1>3. Chan!Continue(c, a, Chan!After(c), o # "failed") /\ Chan!Step(c, "deactivate")
      /\ UNCHANGED <<auth, authAlarm, Chan!managerVars, history, Chan!outside>>
 BY DEF Chan!deactivateLinkedIntegrations
<1>4. TokensKept BY <1>3, UnchangedTokens
<1> HIDE DEF a
<1>5. call' \in [Chan!Callers -> Handler] /\ Handlers' /\ Held' BY <1>1,<1>2,<1>3,<1>4, SameOutside, CallWorks
<1> QED BY <1>3,<1>5, CallElsewhere

LEMMA ConfigureKeeps ==
  ASSUME ChannelSettings, CInv, NEW c \in Chan!Callers, NEW o \in Chan!Outcomes, Chan!configure(c, o)
  PROVE  CInv'
<1> DEFINE a == [call[c].auth EXCEPT !.provisioning = o # "done"]
           todo == IF o = "done" THEN Chan!After(c) ELSE Chan!Failed(c)
<1>1. call[c].auth \in Chan!AuthRecords /\ ChannelTypes /\ Handlers /\ Held /\ FlowsOnce /\ Manager
 BY DEF CInv, ChannelTypes, Handler, Manager
<1>2. NotedFor("configure", call[c].auth, a) /\ "configure" \in AskSteps BY <1>1, NotesFit DEF AskSteps
<1>3. Chan!Continue(c, a, todo, o # "failed") /\ Chan!Step(c, "configure") /\ todo \in {Chan!After(c), Chan!Failed(c)}
      /\ UNCHANGED <<auth, authAlarm, run, queue, Chan!outside>> BY DEF Chan!configure
<1>4. history' \in Record /\ Untouched /\ history'.uses = history.uses
 <2>1. history \in Record BY <1>1 DEF ChannelTypes
 <2>2. CASE o = "failed" BY <1>3,<2>1,<2>2 DEF Chan!configure, Untouched, Chan!outside
 <2>3. CASE o # "failed"
  <3>1. history' = [history EXCEPT !.asked = "on", !.overwritten = FALSE] /\ history' \in Record
   BY <2>1,<2>3, NoteAsked DEF Chan!configure
  <3> QED BY <1>3,<2>1,<3>1 DEF Untouched, Chan!outside, Record
 <2> QED BY <2>2,<2>3
<1>5. ManagerTypes' /\ Manager'
 <2>1. UNCHANGED <<setting, run, queue>> /\ twitch'.subs = twitch.subs BY <1>3 DEF Chan!outside
 <2>2. CASE o = "failed"
  <3>1. UNCHANGED <<config, recovery, channelAlarm, history>> BY <2>2 DEF Chan!configure
  <3> QED BY <1>1,<2>1,<3>1, SameManager DEF Manager, ManagerTypes, ChannelTypes
 <2>3. CASE o # "failed"
  <3>1. Chan!configureChannel /\ history'.overwritten = FALSE
   BY <1>1,<2>3, NoteAsked DEF Chan!configure, ChannelTypes, Record
  <3> QED BY <1>1,<2>1,<3>1, ConfigureIs
 <2> QED BY <2>2,<2>3
<1> HIDE DEF a, todo
<1>6. call' \in [Chan!Callers -> Handler] /\ Handlers' /\ Held'
 BY <1>1,<1>2,<1>3,<1>4, UntouchedKept, SameOutside, CallWorks
<1>7. ChannelTypes' BY <1>1,<1>3,<1>4,<1>5,<1>6 DEF ChannelTypes, ManagerTypes, Chan!outside
<1>8. FlowsOnce' BY <1>1,<1>3,<1>4, SameFlows DEF Chan!outside
<1> QED BY <1>5,<1>6,<1>7,<1>8, Together

LEMMA DeconfigureKeeps ==
  ASSUME ChannelSettings, CInv, NEW c \in Chan!Callers, NEW o \in Chan!Outcomes, Chan!deconfigure(c, o)
  PROVE  CInv'
<1> DEFINE a == [call[c].auth EXCEPT !.deconfiguration = o # "done"]
           todo == IF o = "done" THEN Chan!After(c) ELSE Chan!Failed(c)
<1>1. call[c].auth \in Chan!AuthRecords /\ ChannelTypes /\ Handlers /\ Held /\ FlowsOnce /\ Manager
 BY DEF CInv, ChannelTypes, Handler, Manager
<1>2. NotedFor("deconfigure", call[c].auth, a) /\ "deconfigure" \in AskSteps BY <1>1, NotesFit DEF AskSteps
<1>3. Chan!Continue(c, a, todo, o # "failed") /\ Chan!Step(c, "deconfigure") /\ todo \in {Chan!After(c), Chan!Failed(c)}
      /\ UNCHANGED <<auth, authAlarm, run, queue, Chan!outside>> BY DEF Chan!deconfigure
<1>4. history' \in Record /\ Untouched /\ history'.uses = history.uses
 <2>1. history \in Record BY <1>1 DEF ChannelTypes
 <2>2. CASE o = "failed" BY <1>3,<2>1,<2>2 DEF Chan!deconfigure, Untouched, Chan!outside
 <2>3. CASE o # "failed"
  <3>1. history' = [history EXCEPT !.asked = "off", !.overwritten = FALSE] /\ history' \in Record
   BY <2>1,<2>3, NoteAsked DEF Chan!deconfigure
  <3> QED BY <1>3,<2>1,<3>1 DEF Untouched, Chan!outside, Record
 <2> QED BY <2>2,<2>3
<1>5. ManagerTypes' /\ Manager'
 <2>1. UNCHANGED <<setting, run, queue>> /\ twitch'.subs = twitch.subs BY <1>3 DEF Chan!outside
 <2>2. CASE o = "failed"
  <3>1. UNCHANGED <<config, recovery, channelAlarm, history>> BY <2>2 DEF Chan!deconfigure
  <3> QED BY <1>1,<2>1,<3>1, SameManager DEF Manager, ManagerTypes, ChannelTypes
 <2>3. CASE o # "failed"
  <3>1. Chan!deconfigureChannel /\ history'.overwritten = FALSE
   BY <1>1,<2>3, NoteAsked DEF Chan!deconfigure, ChannelTypes, Record
  <3> QED BY <1>1,<2>1,<3>1, DeconfigureIs
 <2> QED BY <2>2,<2>3
<1> HIDE DEF a, todo
<1>6. call' \in [Chan!Callers -> Handler] /\ Handlers' /\ Held'
 BY <1>1,<1>2,<1>3,<1>4, UntouchedKept, SameOutside, CallWorks
<1>7. ChannelTypes' BY <1>1,<1>3,<1>4,<1>5,<1>6 DEF ChannelTypes, ManagerTypes, Chan!outside
<1>8. FlowsOnce' BY <1>1,<1>3,<1>4, SameFlows DEF Chan!outside
<1> QED BY <1>5,<1>6,<1>7,<1>8, Together

-----------------------------------------------------------------------------
(* What a handler stores, and requests that begin                           *)

LEMMA PutIs ==
  ASSUME ChannelTypes, Handlers, NEW c \in Chan!Callers, Chan!Step(c, "put")
  PROVE  /\ c # "operator" /\ call[c].auth \in Chan!AuthRecords /\ Fitting(call[c].auth)
         /\ c \notin {"authorize", "alarm"} => call[c].auth.token = 0
<1> DEFINE old == call[c].todo
<1>1. call[c].auth \in Chan!AuthRecords /\ Planned(c, call[c]) BY DEF ChannelTypes, Handlers, Handler
<1>2. old # <<>> /\ Head(old) = "put" BY DEF Chan!Step, Chan!Busy
<1>3. call[c] # Chan!Idle BY <1>2, EmptyRecords
<1>4. ~\E x \in Checks : old = <<x>>
 <2>1. \A x : Head(<<x>>) = x OBVIOUS
 <2> QED BY <1>2,<2>1 DEF Checks
<1>5. old # <<"revoke", "deconfigure", "unregister", "deactivate", "put">> BY <1>2
<1>6. ~(old \in Seq(RouteSteps))
 <2>1. ASSUME old \in Seq(RouteSteps) PROVE Head(old) \in RouteSteps BY <1>2,<2>1
 <2> QED BY <1>2,<2>1 DEF RouteSteps
<1> QED BY <1>1,<1>3,<1>4,<1>5,<1>6 DEF Planned, Fitting

LEMMA PutKeeps ==
  ASSUME CInv, NEW c \in Chan!Callers, Chan!put(c)
  PROVE  CInv'
<1>1. ChannelTypes /\ Handlers /\ Held /\ FlowsOnce /\ Manager BY DEF CInv, Manager
<1>2. /\ c # "operator" /\ call[c].auth \in Chan!AuthRecords /\ Fitting(call[c].auth)
      /\ c \notin {"authorize", "alarm"} => call[c].auth.token = 0 BY <1>1, PutIs DEF Chan!put
<1>3. Chan!Continue(c, Chan!NoAuth, <<>>, TRUE) /\ UNCHANGED <<Chan!managerVars, Chan!outside>>
      /\ auth' = call[c].auth /\ authAlarm' = Chan!Due(call[c].auth) BY DEF Chan!put
<1>4. /\ call' \in [Chan!Callers -> Handler] /\ \A d \in Chan!Callers : Planned(d, call'[d])
      /\ \A d \in Chan!Callers : d # c => SameWork(d)
      /\ call'[c] = Chan!Idle BY <1>1,<1>3, StepsAre, EmptyRecords, Continues
<1>5. history' = [history EXCEPT !.crossed = call[c].crossed \/ (history.crossed /\ c = "alarm"),
                                 !.torn = history.torn /\ c = "alarm"]
      /\ history' \in Record
 <2>1. history \in Record /\ call[c].crossed \in BOOLEAN BY <1>1 DEF ChannelTypes, Handler
 <2>2. (call[c].crossed \/ (history.crossed /\ c = "alarm")) \in BOOLEAN /\ (history.torn /\ c = "alarm") \in BOOLEAN
  BY <2>1 DEF Record
 <2> QED BY <2>1,<2>2, NotePut DEF Chan!put
<1>6. Untouched /\ history'.uses = history.uses /\ history'.overwritten = history.overwritten
 BY <1>1,<1>3,<1>5 DEF Untouched, ChannelTypes, Record, Chan!outside
<1>7. Handlers' BY <1>2,<1>3,<1>4 DEF Handlers, Chan!Due
<1>8. Held'
 <2>1. "alarm" \in Chan!Callers /\ "authorize" \in Chan!Callers /\ "operator" \in Chan!Callers BY DEF Chan!Callers
 <2>2. \A t : Usable(t)' = Usable(t) BY <1>6 DEF Usable, Untouched
 <2>3. \A d \in Chan!Callers : /\ call'[d].auth.token \in {0, call[d].auth.token} /\ call'[d].read \in {0, call[d].read}
                               /\ d # c => call'[d].todo = call[d].todo /\ call'[d].auth.token = call[d].auth.token
  BY <1>4, EmptyRecords DEF SameWork
 <2>4. \A d \in Chan!Callers : call'[d].auth.token < twitch.next /\ call'[d].read < twitch.next
  <3>1. 0 < twitch.next BY <1>1 DEF ChannelTypes, Outside
  <3> QED BY <1>1,<2>3,<3>1 DEF Held, Issue
 <2>5. auth'.token < twitch.next /\ Usable(auth.token)'
  <3>1. Usable(call[c].auth.token) BY <1>1,<1>2 DEF Held, Usable
  <3> QED BY <1>1,<1>3,<2>2,<3>1 DEF Held, Issue, Usable
 <2>6. \A d \in {"authorize", "alarm"} : Usable(call[d].auth.token)' BY <1>1,<2>1,<2>2,<2>3 DEF Held, Usable
 <2>7. call'["authorize"].auth.token # 0 =>
         call'["authorize"].auth.token \notin {auth'.token, call'["alarm"].auth.token, call'["alarm"].read}
  <3>1. CASE c = "authorize" BY <1>4,<3>1, EmptyRecords
  <3>2. CASE c # "authorize" BY <1>1,<1>2,<1>3,<2>1,<2>3,<3>2 DEF Held
  <3> QED BY <3>1,<3>2
 <2>8. Chan!Step("alarm", "revalidate")' => call'["alarm"].auth.token \in twitch'.live \cup history'.ended
  <3>1. CASE c = "alarm" BY <1>4,<3>1, EmptyRecords DEF Chan!Step, Chan!Busy
  <3>2. CASE c # "alarm" BY <1>1,<1>6,<2>1,<2>3,<3>2 DEF Held, Chan!Step, Chan!Busy, Untouched
  <3> QED BY <3>1,<3>2
 <2> QED BY <1>1,<1>6,<2>4,<2>5,<2>6,<2>7,<2>8 DEF Held, Issue, Untouched
<1>9. ChannelTypes'
 <2>1. authAlarm' \in BOOLEAN BY <1>2,<1>3 DEF Chan!Due, Chan!AuthRecords
 <2> QED BY <1>1,<1>2,<1>3,<1>4,<1>5,<2>1 DEF ChannelTypes, Chan!managerVars, Chan!outside
<1>10. FlowsOnce' BY <1>1,<1>3,<1>6, SameFlows DEF Chan!outside
<1>11. Manager' BY <1>1,<1>3,<1>6, SameManager DEF Manager, Chan!managerVars, Chan!outside
<1> QED BY <1>7,<1>8,<1>9,<1>10,<1>11, Together

\* A request that begins without a token the alarm or an authorization holds.
LEMMA BeginsElsewhere ==
  ASSUME ChannelSettings, ChannelTypes, Handlers, Held, NEW c \in Chan!Callers, c \notin {"alarm", "authorize"},
         NEW a \in Chan!AuthRecords, NEW todo \in Seq(CallSteps), Chan!Start(c, a, todo), todo # <<>>,
         Planned(c, Begun(a, todo)), a.token \in {0, auth.token}, UNCHANGED <<auth, authAlarm>>, TokensKept,
         twitch' \in Outside
  PROVE  call' \in [Chan!Callers -> Handler] /\ Handlers' /\ Held'
<1>1. /\ call' \in [Chan!Callers -> Handler] /\ \A d \in Chan!Callers : Planned(d, call'[d])
      /\ \A d \in Chan!Callers : d # c => call'[d] = call[d] /\ SameWork(d)
      /\ call'[c].auth = a /\ call'[c].todo = todo /\ call'[c].read = a.token BY Starts
<1>2. "alarm" \in Chan!Callers /\ "authorize" \in Chan!Callers BY DEF Chan!Callers
<1>3. AlarmKeeps BY <1>1,<1>2 DEF AlarmKeeps, Chan!Busy, Chan!Step
<1>4. \A d \in Chan!Callers : call'[d].auth.token < twitch.next /\ call'[d].read < twitch.next
 <2>1. 0 < twitch.next /\ a.token < twitch.next BY DEF Held, Issue, ChannelTypes, Outside
 <2> QED BY <1>1,<2>1 DEF Held, Issue
<1>5. Held' BY <1>1,<1>2,<1>3,<1>4, HeldStays
<1>6. Handlers' BY <1>1,<1>3 DEF Handlers, AlarmKeeps, Chan!Due
<1> QED BY <1>1,<1>5,<1>6

LEMMA DisconnectKeeps ==
  ASSUME ChannelSettings, CInv, Chan!disconnect
  PROVE  CInv'
<1> DEFINE a == [Chan!NoAuth EXCEPT !.status = "disconnected", !.token = auth.token,
                                    !.deconfiguration = TRUE, !.deactivation = TRUE]
           todo == <<"revoke", "deconfigure", "unregister", "deactivate", "put">>
<1>1. ChannelTypes /\ Handlers /\ Held /\ auth \in Chan!AuthRecords BY DEF CInv, ChannelTypes
<1>2. a \in Chan!AuthRecords /\ Released(a) /\ a.token = auth.token
 BY <1>1 DEF Chan!AuthRecords, Chan!NoAuth, Released, Chan!Statuses
<1>3. todo \in Seq(CallSteps) /\ todo # <<>> BY DEF CallSteps, OffSteps, OnSteps, Checks
<1>4. Chan!Start("disconnect", a, todo) /\ UNCHANGED <<auth, authAlarm, Chan!managerVars, history, Chan!outside>>
 BY DEF Chan!disconnect
<1>5. Planned("disconnect", Begun(a, todo)) BY <1>2 DEF Planned, Begun
<1>6. TokensKept BY <1>4, UnchangedTokens
<1> HIDE DEF a, todo
<1>7. call' \in [Chan!Callers -> Handler] /\ Handlers' /\ Held'
 BY <1>1,<1>2,<1>3,<1>4,<1>5,<1>6, SameOutside, BeginsElsewhere DEF Chan!Callers
<1> QED BY <1>4,<1>7, CallElsewhere

LEMMA OperatorKeeps ==
  ASSUME ChannelSettings, CInv, Chan!configureTwitchChannel \/ Chan!deconfigureTwitchChannel
  PROVE  CInv'
<1>1. PICK todo \in {<<"configure", "register">>, <<"deconfigure", "unregister">>} : Chan!operatorAsks(todo)
 BY DEF Chan!configureTwitchChannel, Chan!deconfigureTwitchChannel
<1>2. ChannelTypes /\ Handlers /\ Held BY DEF CInv
<1>3. todo \in Seq(RouteSteps) /\ todo # <<>> /\ todo \in Seq(CallSteps)
 <2>1. <<"configure", "register">> \in Seq(RouteSteps) /\ <<"deconfigure", "unregister">> \in Seq(RouteSteps)
  BY DEF RouteSteps
 <2>2. todo \in Seq(RouteSteps) BY <2>1
 <2>3. todo # <<>> OBVIOUS
 <2> QED BY <2>2,<2>3, StepsAre
<1>4. Chan!Start("operator", Chan!NoAuth, todo) /\ UNCHANGED <<auth, authAlarm, Chan!managerVars, history, Chan!outside>>
 BY <1>1 DEF Chan!operatorAsks
<1>5. Chan!NoAuth \in Chan!AuthRecords /\ Chan!NoAuth.token = 0 BY EmptyRecords DEF Chan!NoAuth
<1>6. Planned("operator", Begun(Chan!NoAuth, todo)) BY <1>3,<1>5 DEF Planned, Begun
<1>7. TokensKept BY <1>4, UnchangedTokens
<1>8. call' \in [Chan!Callers -> Handler] /\ Handlers' /\ Held'
 BY <1>2,<1>3,<1>4,<1>5,<1>6,<1>7, SameOutside, BeginsElsewhere DEF Chan!Callers
<1> QED BY <1>4,<1>8, CallElsewhere

LEMMA InvalidatedIs ==
  /\ Chan!Invalidated \in Chan!AuthRecords /\ Released(Chan!Invalidated) /\ Chan!Invalidated.token = 0
  /\ Chan!Invalidation \in Seq(CallSteps) /\ Chan!Invalidation # <<>> /\ Stores(Chan!Invalidation, OffSteps)
  /\ Head(Chan!Invalidation) # "revalidate"
<1>1. Chan!Invalidated \in Chan!AuthRecords /\ Released(Chan!Invalidated) /\ Chan!Invalidated.token = 0
 BY DEF Chan!Invalidated, Chan!NoAuth, Chan!AuthRecords, Released, Chan!Statuses
<1>2. Stores(Chan!Invalidation, OffSteps) BY Plans, EmptyRecords
<1>3. Head(Chan!Invalidation) = "deconfigure" BY DEF Chan!Invalidation
<1> QED BY <1>1,<1>2,<1>3, StepsAre DEF Stores

LEMMA RevokedKeeps ==
  ASSUME ChannelSettings, CInv, Chan!revoked
  PROVE  CInv'
<1>1. ChannelTypes /\ Handlers /\ Held /\ FlowsOnce /\ Manager BY DEF CInv, Manager
<1>2. UNCHANGED <<setting, flow, auth, authAlarm, Chan!managerVars, history>>
      /\ twitch' = [twitch EXCEPT !.notices = @ \ {"revoked"}] BY DEF Chan!revoked
<1>3. twitch' \in Outside /\ Untouched /\ twitch'.subs = twitch.subs
 BY <1>1,<1>2 DEF ChannelTypes, Outside, Untouched
<1>4. call' \in [Chan!Callers -> Handler] /\ Handlers' /\ Held'
 <2>1. CASE auth.status # "authorized"
  <3>1. call' = call BY <2>1 DEF Chan!revoked
  <3> QED BY <1>1,<1>2,<1>3,<3>1, SameHandlers, SameHeld, UntouchedKept DEF ChannelTypes
 <2>2. CASE auth.status = "authorized"
  <3>1. Chan!Start("revoked", Chan!Invalidated, Chan!Invalidation) BY <2>2 DEF Chan!revoked
  <3>2. Planned("revoked", Begun(Chan!Invalidated, Chan!Invalidation)) BY InvalidatedIs DEF Planned, Begun
  <3> QED BY <1>1,<1>2,<1>3,<3>1,<3>2, InvalidatedIs, UntouchedKept, BeginsElsewhere DEF Chan!Callers
 <2> QED BY <2>1,<2>2
<1>5. ChannelTypes' BY <1>1,<1>2,<1>3,<1>4 DEF ChannelTypes, Chan!managerVars
<1>6. FlowsOnce' BY <1>1,<1>2, SameFlows
<1>7. Manager' BY <1>1,<1>2,<1>3, SameManager DEF Manager, Chan!managerVars
<1> QED BY <1>4,<1>5,<1>6,<1>7, Together

LEMMA RevokeKeeps ==
  ASSUME ChannelSettings, CInv, NEW c \in Chan!Callers, NEW o \in Chan!Outcomes, Chan!revokeTwitchToken(c, o)
  PROVE  CInv'
<1> DEFINE a == [call[c].auth EXCEPT !.token = 0]
           gone == IF o = "failed" THEN {} ELSE {call[c].auth.token}
           rest == <<"deconfigure", "unregister", "deactivate", "put">>
<1>1. ChannelTypes /\ Handlers /\ Held /\ FlowsOnce /\ Manager BY DEF CInv, Manager
<1>2. call[c] \in Handler /\ call[c].auth \in Chan!AuthRecords /\ Planned(c, call[c])
 BY <1>1 DEF ChannelTypes, Handlers, Handler
<1>3. /\ call[c].todo # <<>> /\ Head(call[c].todo) = "revoke" /\ Chan!Continue(c, a, Chan!After(c), gone # {})
      /\ twitch' = [twitch EXCEPT !.live = @ \ gone, !.refreshable = @ \ gone]
      /\ Chan!Note([ended |-> history.ended \cup gone])
      /\ UNCHANGED <<setting, flow, auth, authAlarm, Chan!managerVars, entry, links>>
 BY DEF Chan!revokeTwitchToken, Chan!Step, Chan!Busy
<1>4. c = "disconnect" /\ Released(call[c].auth)
      /\ call[c].todo = <<"revoke", "deconfigure", "unregister", "deactivate", "put">>
 <2>1. call[c] # Chan!Idle BY <1>3, EmptyRecords
 <2>2. \A steps : Stores(call[c].todo, steps) \/ call[c].todo \in Seq(steps) => "revoke" \in steps
  BY <1>3 DEF Stores
 <2>3. ~\E x \in Checks : call[c].todo = <<x>>
  <3>1. \A x : Head(<<x>>) = x OBVIOUS
  <3> QED BY <1>3,<3>1 DEF Checks
 <2> QED BY <1>2,<2>1,<2>2,<2>3 DEF Planned, OnSteps, OffSteps, RouteSteps
<1>5. a \in Chan!AuthRecords /\ Released(a) /\ a.token = 0 BY <1>2,<1>4 DEF Chan!AuthRecords, Released
<1>6. Chan!After(c) = rest /\ Stores(rest, OffSteps) /\ rest \in Seq(CallSteps) /\ rest # <<>>
 BY <1>4 DEF Chan!After, Stores, OffSteps, CallSteps
<1>7. Planned(c, Later(c, a, rest))
 <2>1. Later(c, a, rest).auth = a /\ Later(c, a, rest).todo = rest BY <1>2 DEF Later, Handler
 <2> QED BY <1>4,<1>5,<1>6,<2>1 DEF Planned
<1> HIDE DEF a, rest
<1>8. /\ call' \in [Chan!Callers -> Handler] /\ \A d \in Chan!Callers : Planned(d, call'[d])
      /\ \A d \in Chan!Callers : d # c => SameWork(d)
      /\ call'[c].auth = a /\ call'[c].todo = rest /\ call'[c].read = call[c].read
 BY <1>1,<1>3,<1>5,<1>6,<1>7, Continues
<1>9. gone \subseteq Nat
 <2>1. call[c].auth.token \in {0} \cup Tokens BY <1>2 DEF Chan!AuthRecords
 <2> QED BY <2>1, TokensAre
<1> HIDE DEF gone
<1>10. history' = [history EXCEPT !.ended = history.ended \cup gone] /\ history' \in Record
 <2>1. history \in Record /\ history.ended \cup gone \in SUBSET Nat BY <1>1,<1>9 DEF ChannelTypes, Record
 <2> QED BY <1>3,<2>1, NoteEnded
<1>11. twitch' \in Outside /\ TokensKept /\ twitch'.subs = twitch.subs
       /\ history'.uses = history.uses /\ history'.overwritten = history.overwritten
 <2>1. twitch \in Outside /\ history \in Record BY <1>1 DEF ChannelTypes
 <2>2. /\ twitch' \in Outside /\ twitch'.live = twitch.live \ gone /\ twitch'.refreshable = twitch.refreshable \ gone
       /\ twitch'.next = twitch.next /\ twitch'.subs = twitch.subs BY <1>3,<2>1 DEF Outside
 <2>3. /\ history'.ended = history.ended \cup gone /\ history'.unjust = history.unjust
       /\ history'.uses = history.uses /\ history'.overwritten = history.overwritten BY <1>10,<2>1 DEF Record
 <2> QED BY <2>2,<2>3 DEF TokensKept
<1>12. "alarm" \in Chan!Callers /\ "authorize" \in Chan!Callers BY DEF Chan!Callers
<1>13. AlarmKeeps BY <1>4,<1>8,<1>12 DEF AlarmKeeps, Chan!Busy, Chan!Step, SameWork
<1>14. Held'
 <2>1. 0 < twitch.next BY <1>1 DEF ChannelTypes, Outside
 <2>2. \A d \in Chan!Callers : call'[d].auth.token < twitch.next /\ call'[d].read < twitch.next
  BY <1>1,<1>5,<1>8,<2>1 DEF Held, Issue, SameWork
 <2>3. call'["authorize"].auth.token = call["authorize"].auth.token BY <1>4,<1>8,<1>12 DEF SameWork
 <2> QED BY <1>1,<1>3,<1>11,<1>13,<2>2,<2>3, HeldStays
<1>15. Handlers' BY <1>1,<1>3,<1>8,<1>13 DEF Handlers, AlarmKeeps, Chan!Due
<1>16. ChannelTypes' BY <1>1,<1>3,<1>8,<1>10,<1>11 DEF ChannelTypes, Chan!managerVars
<1>17. FlowsOnce' BY <1>1,<1>3,<1>11, SameFlows
<1>18. Manager' BY <1>1,<1>3,<1>11, SameManager DEF Manager, Chan!managerVars
<1> QED BY <1>14,<1>15,<1>16,<1>17,<1>18, Together

-----------------------------------------------------------------------------
(* The alarm of the authorization object                                    *)

LEMMA AuthAlarmKeeps ==
  ASSUME CInv, Chan!authAlarmBegins
  PROVE  CInv'
<1> DEFINE todo == IF auth.status = "authorized" THEN <<"validate">> ELSE Chan!Deprovision(auth)
<1>1. ChannelTypes /\ Handlers /\ Held /\ FlowsOnce /\ Manager /\ auth \in Chan!AuthRecords /\ Fitting(auth)
 BY DEF CInv, Manager, ChannelTypes, Handlers
<1>2. /\ ~Chan!Busy("alarm") /\ authAlarm' = FALSE /\ auth.status # "none" /\ Chan!Start("alarm", auth, todo)
      /\ UNCHANGED <<auth, Chan!managerVars, entry, links, history, Chan!outside>> BY DEF Chan!authAlarmBegins
<1>3. /\ todo \in Seq(CallSteps) /\ todo # <<>> /\ Planned("alarm", Begun(auth, todo))
      /\ Head(todo) # "revalidate"
 <2>1. CASE auth.status = "authorized"
  <3>1. Bound(auth) BY <1>1,<2>1 DEF Fitting, Released, Chan!NoAuth
  <3>2. todo = <<"validate">> /\ "validate" \in Checks /\ todo \in Seq(CallSteps) BY <2>1 DEF Checks, CallSteps
  <3> HIDE DEF todo
  <3>3. \E s \in Checks : Begun(auth, todo).todo = <<s>> /\ (s # "revalidate" => Begun(auth, todo).auth.token = Begun(auth, todo).read)
   BY <3>2 DEF Begun
  <3>4. Planned("alarm", Begun(auth, todo)) BY <3>1,<3>3 DEF Planned, Begun
  <3> QED BY <3>2,<3>4
 <2>2. CASE auth.status # "authorized"
  <3>1. Released(auth) /\ auth.token = 0 BY <1>1,<1>2,<2>2 DEF Fitting, Bound, Chan!NoAuth
  <3>2. Stores(todo, OffSteps) BY <1>1,<2>2, Plans
  <3> HIDE DEF todo
  <3>3. Planned("alarm", Begun(auth, todo)) BY <3>1,<3>2 DEF Planned, Begun
  <3>4. todo \in Seq(OffSteps) /\ todo # <<>> BY <3>2 DEF Stores
  <3>5. Head(todo) \in OffSteps BY <3>4
  <3> QED BY <3>3,<3>4,<3>5, StepsAre
 <2> QED BY <2>1,<2>2
<1> HIDE DEF todo
<1>4. /\ call' \in [Chan!Callers -> Handler] /\ \A d \in Chan!Callers : Planned(d, call'[d])
      /\ \A d \in Chan!Callers : d # "alarm" => call'[d] = call[d] /\ SameWork(d)
      /\ call'["alarm"].auth = auth /\ call'["alarm"].todo = todo /\ call'["alarm"].read = auth.token
 BY <1>1,<1>2,<1>3, Starts DEF Chan!Callers
<1>5. Handlers' BY <1>1,<1>2,<1>3,<1>4 DEF Handlers, Chan!Busy, Chan!Due
<1>6. Held'
 <2>1. Usable(auth.token) BY <1>1,<1>2 DEF Held, Refreshed
 <2>2. "authorize" \in Chan!Callers /\ twitch' = twitch /\ history' = history /\ auth' = auth
  BY <1>2 DEF Chan!Callers, Chan!outside
 <2>3. \A t : Usable(t)' = Usable(t) /\ Issue(t)' = Issue(t) BY <2>2 DEF Usable, Issue
 <2>4. \A d \in Chan!Callers : Issue(call'[d].auth.token) /\ Issue(call'[d].read) BY <1>1,<1>4 DEF Held
 <2>5. ~Chan!Step("alarm", "revalidate")' BY <1>3,<1>4 DEF Chan!Step
 <2> QED BY <1>1,<1>4,<2>1,<2>2,<2>3,<2>4,<2>5 DEF Held
<1>7. ChannelTypes' BY <1>1,<1>2,<1>4 DEF ChannelTypes, Chan!managerVars, Chan!outside
<1>8. FlowsOnce' BY <1>1,<1>2, SameFlows DEF Chan!outside
<1>9. Manager' BY <1>1,<1>2, SameManager DEF Manager, Chan!managerVars, Chan!outside
<1> QED BY <1>5,<1>6,<1>7,<1>8,<1>9, Together

\* The alarm checks a token.
LEMMA CheckIs ==
  ASSUME ChannelTypes, Handlers, NEW s \in Checks, Chan!Step("alarm", s)
  PROVE  /\ call["alarm"].auth \in Chan!AuthRecords /\ Bound(call["alarm"].auth)
         /\ s # "revalidate" => call["alarm"].auth.token = call["alarm"].read
         /\ Chan!Busy("alarm") /\ "alarm" \in Chan!Callers /\ "authorize" \in Chan!Callers
<1> DEFINE old == call["alarm"].todo
<1>1. "alarm" \in Chan!Callers /\ "authorize" \in Chan!Callers BY DEF Chan!Callers
<1>2. call["alarm"].auth \in Chan!AuthRecords /\ Planned("alarm", call["alarm"])
 BY <1>1 DEF ChannelTypes, Handlers, Handler
<1>3. old # <<>> /\ Head(old) = s BY DEF Chan!Step, Chan!Busy
<1>4. call["alarm"] # Chan!Idle BY <1>3, EmptyRecords
<1>5. \A steps : Stores(old, steps) => s \in steps BY <1>3 DEF Stores
<1>6. \A x : Head(<<x>>) = x OBVIOUS
<1> QED BY <1>1,<1>2,<1>3,<1>4,<1>5,<1>6 DEF Planned, OnSteps, OffSteps, Checks, Chan!Step

LEMMA AlarmGoesOn ==
  ASSUME ChannelSettings, ChannelTypes, Handlers, Held, NEW s \in Checks, Chan!Step("alarm", s), NEW todo,
         Chan!Continue("alarm", call["alarm"].auth, todo, FALSE),
         Stores(todo, OnSteps) \/ (s = "validate" /\ todo = <<"refresh">>),
         UNCHANGED <<auth, authAlarm>>, TokensKept, twitch' \in Outside
  PROVE  call' \in [Chan!Callers -> Handler] /\ Handlers' /\ Held'
<1> DEFINE a == call["alarm"].auth
<1>1. /\ a \in Chan!AuthRecords /\ Bound(a) /\ (s # "revalidate" => a.token = call["alarm"].read)
      /\ Chan!Busy("alarm") /\ "alarm" \in Chan!Callers /\ "authorize" \in Chan!Callers BY CheckIs
<1>2. Later("alarm", a, todo).auth = a /\ Later("alarm", a, todo).todo = todo
      /\ Later("alarm", a, todo).read = call["alarm"].read BY <1>1 DEF Later, ChannelTypes, Handler
<1>3. todo \in Seq(CallSteps) /\ todo # <<>> /\ Head(todo) # "revalidate" /\ Planned("alarm", Later("alarm", a, todo))
 <2>1. CASE Stores(todo, OnSteps)
  <3>1. todo \in Seq(OnSteps) /\ todo # <<>> BY <2>1 DEF Stores
  <3>2. Head(todo) \in OnSteps BY <3>1
  <3>3. Planned("alarm", Later("alarm", a, todo)) BY <1>1,<1>2,<2>1 DEF Planned
  <3> QED BY <3>1,<3>2,<3>3, StepsAre
 <2>2. CASE s = "validate" /\ todo = <<"refresh">>
  <3>1. "refresh" \in Checks /\ todo \in Seq(CallSteps) /\ todo # <<>> /\ Head(todo) = "refresh"
   BY <2>2 DEF Checks, CallSteps
  <3>2. Planned("alarm", Later("alarm", a, todo))
   <4>1. \E x \in Checks : todo = <<x>> /\ (x # "revalidate" => a.token = call["alarm"].read) BY <1>1,<2>2,<3>1
   <4> HIDE DEF a
   <4> QED BY <1>1,<1>2,<4>1 DEF Planned
  <3> QED BY <3>1,<3>2
 <2> QED BY <2>1,<2>2
<1> HIDE DEF a
<1>4. Chan!Continue("alarm", a, todo, FALSE) BY DEF a
<1>5. /\ call' \in [Chan!Callers -> Handler] /\ \A d \in Chan!Callers : Planned(d, call'[d])
      /\ \A d \in Chan!Callers : d # "alarm" => SameWork(d)
      /\ call'["alarm"].auth = a /\ call'["alarm"].todo = todo /\ call'["alarm"].read = call["alarm"].read
 BY <1>1,<1>3,<1>4, Continues
<1>6. AlarmKeeps BY <1>1,<1>3,<1>5 DEF AlarmKeeps, Chan!Busy, Chan!Step, a
<1>7. \A d \in Chan!Callers : call'[d].auth.token = call[d].auth.token /\ call'[d].read = call[d].read
 BY <1>5 DEF SameWork, a
<1>8. \A d \in Chan!Callers : call'[d].auth.token < twitch.next /\ call'[d].read < twitch.next
 BY <1>7 DEF Held, Issue
<1>9. Held' BY <1>1,<1>6,<1>7,<1>8, HeldStays
<1>10. Handlers' BY <1>5,<1>6 DEF Handlers, AlarmKeeps, Chan!Due
<1> QED BY <1>5,<1>9,<1>10

\* A step of the authorization object alone.
LEMMA ObjectAlone ==
  ASSUME CInv, call' \in [Chan!Callers -> Handler], Handlers', Held', twitch' \in Outside,
         history' \in Record, authAlarm' \in BOOLEAN, UNCHANGED <<setting, flow, auth, Chan!managerVars>>,
         twitch'.subs = twitch.subs, history'.uses = history.uses, history'.overwritten = history.overwritten
  PROVE  CInv'
<1>1. ChannelTypes' BY DEF CInv, ChannelTypes, Chan!managerVars
<1>2. FlowsOnce' BY SameFlows DEF CInv
<1>3. Manager' BY SameManager DEF CInv, Manager, Chan!managerVars
<1> QED BY <1>1,<1>2,<1>3, Together

LEMMA StillIssued ==
  ASSUME ChannelSettings, ChannelTypes, Held, TokensMoved, twitch' \in Outside
  PROVE  /\ 0 < twitch'.next /\ auth.token < twitch'.next
         /\ \A d \in Chan!Callers : call[d].auth.token < twitch'.next /\ call[d].read < twitch'.next
<1>1. twitch.next \in Nat /\ twitch'.next \in Nat \ {0} /\ twitch.next <= twitch'.next
 BY DEF ChannelTypes, Outside, TokensMoved
<1>2. auth.token \in {0} \cup Tokens
      /\ \A d \in Chan!Callers : call[d].auth.token \in {0} \cup Tokens /\ call[d].read \in {0} \cup Tokens
 BY DEF ChannelTypes, Chan!AuthRecords, Handler, Token
<1>3. auth.token \in Nat /\ \A d \in Chan!Callers : call[d].auth.token \in Nat /\ call[d].read \in Nat
 BY <1>2, TokensAre
<1> QED BY <1>1,<1>3 DEF Held, Issue

\* What Usable and Issue will say of a token.
NextUsable(t) == t = 0 \/ t \in twitch'.refreshable \cup history'.ended
NextIssued(t) == t < twitch'.next

LEMMA NextHeld ==
  ASSUME \A t \in twitch'.live \cup twitch'.refreshable : t # 0 /\ NextIssued(t),
         NextIssued(auth'.token), \A d \in Chan!Callers : NextIssued(call'[d].auth.token) /\ NextIssued(call'[d].read),
         NextUsable(auth'.token) \/ (Refreshed' /\ auth'.token = call'["alarm"].read),
         \A d \in {"authorize", "alarm"} : NextUsable(call'[d].auth.token),
         call'["authorize"].auth.token # 0 =>
           call'["authorize"].auth.token \notin {auth'.token, call'["alarm"].auth.token, call'["alarm"].read},
         Chan!Step("alarm", "revalidate")' => call'["alarm"].auth.token \in twitch'.live \cup history'.ended,
         ~history'.unjust
  PROVE  Held'
BY DEF Held, NextUsable, NextIssued, Usable, Issue

\* The alarm or the whole object stops: what is held afterwards.
LEMMA AlarmStops ==
  ASSUME ChannelSettings, ChannelTypes, Held, TokensMoved, twitch' \in Outside, auth' = auth,
         Refreshed => call["alarm"].read \in history'.ended, call'["alarm"] = Chan!Idle,
         \A d \in Chan!Callers : call'[d] = Chan!Idle \/ SameWork(d)
  PROVE  Held'
<1>1. \A t : Usable(t) => NextUsable(t) BY DEF Usable, NextUsable, TokensMoved
<1>2. "alarm" \in Chan!Callers /\ "authorize" \in Chan!Callers BY DEF Chan!Callers
<1>3. NextUsable(auth.token) BY <1>1 DEF Held, NextUsable
<1>4. \A d \in Chan!Callers : call'[d].auth.token \in {0, call[d].auth.token} /\ call'[d].read \in {0, call[d].read}
 BY EmptyRecords DEF SameWork
<1>5. NextUsable(call["authorize"].auth.token) /\ NextUsable(0) BY <1>1 DEF Held, NextUsable
<1>6. \A d \in {"authorize", "alarm"} : NextUsable(call'[d].auth.token) BY <1>2,<1>4,<1>5, EmptyRecords
<1>7. NextIssued(auth'.token)
      /\ \A d \in Chan!Callers : NextIssued(call'[d].auth.token) /\ NextIssued(call'[d].read)
 BY <1>4, StillIssued DEF NextIssued
<1>8. call'["authorize"].auth.token # 0 =>
        call'["authorize"].auth.token \notin {auth'.token, call'["alarm"].auth.token, call'["alarm"].read}
 BY <1>2,<1>4, EmptyRecords DEF Held
<1>9. ~Chan!Step("alarm", "revalidate")' BY EmptyRecords DEF Chan!Step, Chan!Busy
<1>10. ~history'.unjust /\ \A t \in twitch'.live \cup twitch'.refreshable : t # 0 /\ NextIssued(t)
 BY DEF Held, TokensMoved, NextIssued
<1> QED BY <1>3,<1>6,<1>7,<1>8,<1>9,<1>10, NextHeld

LEMMA AlarmGivesUp ==
  ASSUME ChannelSettings, ChannelTypes, Handlers, Held, TokensMoved, twitch' \in Outside, auth' = auth, authAlarm' = TRUE,
         Refreshed => call["alarm"].read \in history'.ended,
         Chan!Continue("alarm", Chan!NoAuth, <<>>, FALSE)
  PROVE  call' \in [Chan!Callers -> Handler] /\ Handlers' /\ Held'
<1>1. /\ call' \in [Chan!Callers -> Handler] /\ \A d \in Chan!Callers : Planned(d, call'[d])
      /\ \A d \in Chan!Callers : d # "alarm" => SameWork(d)
      /\ call'["alarm"] = Chan!Idle BY StepsAre, EmptyRecords, Continues DEF Chan!Callers
<1>2. Held' BY <1>1, AlarmStops
<1>3. Handlers' BY <1>1 DEF Handlers, Chan!Due
<1> QED BY <1>1,<1>2,<1>3

\* The alarm ends having lost the tokens it names.
LEMMA AlarmEndsKeeps ==
  ASSUME ChannelSettings, CInv, NEW s \in Checks, Chan!Step("alarm", s), NEW lost \in SUBSET Nat, Chan!alarmEnds(lost),
         UNCHANGED <<setting, flow, auth, Chan!managerVars>>, twitch' \in Outside, twitch'.subs = twitch.subs,
         twitch.next <= twitch'.next, \A t \in twitch'.live \cup twitch'.refreshable : t # 0 /\ t < twitch'.next,
         twitch.refreshable \subseteq twitch'.refreshable \cup lost, twitch.live \subseteq twitch'.live,
         Refreshed => call["alarm"].read \in lost
  PROVE  CInv'
<1>1. ChannelTypes /\ Handlers /\ Held /\ history \in Record BY DEF CInv, ChannelTypes
<1>2. Chan!Continue("alarm", Chan!NoAuth, <<>>, FALSE) /\ authAlarm' = TRUE BY DEF Chan!alarmEnds
<1>3. history' = [history EXCEPT !.ended = history.ended \cup lost] /\ history' \in Record
 <2>1. history.ended \cup lost \in SUBSET Nat BY <1>1 DEF Record
 <2> QED BY <1>1,<2>1, NoteEnded DEF Chan!alarmEnds
<1>4. /\ history'.ended = history.ended \cup lost /\ history'.unjust = history.unjust
      /\ history'.uses = history.uses /\ history'.overwritten = history.overwritten BY <1>1,<1>3 DEF Record
<1>5. TokensMoved BY <1>4 DEF TokensMoved
<1>6. call' \in [Chan!Callers -> Handler] /\ Handlers' /\ Held' BY <1>1,<1>2,<1>4,<1>5, AlarmGivesUp
<1> QED BY <1>2,<1>3,<1>4,<1>6, ObjectAlone

\* The alarm finds its tokens refused, which were ended unless the endpoint answered with an error.
LEMMA AlarmInvalidatesKeeps ==
  ASSUME CInv, NEW s \in Checks, Chan!Step("alarm", s), NEW refused \in BOOLEAN,
         Chan!alarmInvalidates(refused), refused \/ call["alarm"].auth.token \in history.ended,
         UNCHANGED <<setting, flow, auth, Chan!managerVars, twitch>>
  PROVE  CInv'
<1>1. ChannelTypes /\ Handlers /\ Held /\ history \in Record BY DEF CInv, ChannelTypes
<1>2. Chan!Continue("alarm", Chan!Invalidated, Chan!Invalidation, FALSE) /\ authAlarm' = authAlarm
 BY DEF Chan!alarmInvalidates
<1>3. Chan!Note([unjust |-> history.unjust \/
         (~refused /\ {call["alarm"].read, call["alarm"].auth.token} \cap history.ended = {})])
 BY DEF Chan!alarmInvalidates
<1>4. (history.unjust \/
        (~refused /\ {call["alarm"].read, call["alarm"].auth.token} \cap history.ended = {})) = FALSE
 BY <1>1 DEF Held
<1>5. history' = [history EXCEPT !.unjust = FALSE] /\ history' \in Record
 <2>1. Chan!Note([unjust |-> FALSE]) BY <1>3,<1>4
 <2> QED BY <1>1,<2>1, NoteUnjust
<1>6. /\ history'.ended = history.ended /\ history'.unjust = FALSE
      /\ history'.uses = history.uses /\ history'.overwritten = history.overwritten BY <1>1,<1>5 DEF Record
<1>7. "alarm" \in Chan!Callers /\ "authorize" \in Chan!Callers BY DEF Chan!Callers
<1>8. Planned("alarm", Later("alarm", Chan!Invalidated, Chan!Invalidation))
 <2>1. call["alarm"] \in Handler BY <1>1,<1>7 DEF ChannelTypes
 <2>2. Later("alarm", Chan!Invalidated, Chan!Invalidation).auth = Chan!Invalidated
       /\ Later("alarm", Chan!Invalidated, Chan!Invalidation).todo = Chan!Invalidation BY <2>1 DEF Later, Handler
 <2> QED BY <2>2, InvalidatedIs DEF Planned
<1>9. /\ call' \in [Chan!Callers -> Handler] /\ \A d \in Chan!Callers : Planned(d, call'[d])
      /\ \A d \in Chan!Callers : d # "alarm" => SameWork(d)
      /\ call'["alarm"].auth = Chan!Invalidated /\ call'["alarm"].todo = Chan!Invalidation
      /\ call'["alarm"].read = call["alarm"].read BY <1>1,<1>2,<1>7,<1>8, InvalidatedIs, Continues
<1>10. Chan!Busy("alarm")' /\ ~Chan!Step("alarm", "revalidate")' BY <1>9, InvalidatedIs DEF Chan!Busy, Chan!Step
<1>11. Handlers' BY <1>1,<1>9,<1>10 DEF Handlers
<1>12. Held'
 <2>1. \A t : (NextUsable(t) <=> Usable(t)) /\ (NextIssued(t) <=> Issue(t))
  BY <1>6 DEF Usable, Issue, NextUsable, NextIssued
 <2>2. \A d \in Chan!Callers : call'[d].auth.token \in {0, call[d].auth.token} /\ call'[d].read = call[d].read
  BY <1>9, InvalidatedIs DEF SameWork
 <2>3. 0 < twitch.next BY <1>1 DEF ChannelTypes, Outside
 <2>4. \A d \in Chan!Callers : NextIssued(call'[d].auth.token) /\ NextIssued(call'[d].read)
  <3>1. NextIssued(0) BY <2>3 DEF NextIssued
  <3> QED BY <1>1,<2>1,<2>2,<3>1 DEF Held
 <2>5. NextUsable(auth'.token) \/ (Refreshed' /\ auth'.token = call'["alarm"].read)
  <3>1. CASE Usable(auth.token) BY <2>1,<3>1
  <3>2. CASE ~Usable(auth.token)
   <4>1. auth.token = call["alarm"].read /\ auth.token # 0 BY <1>1,<3>2 DEF Held, Usable
   <4> QED BY <1>9,<1>10,<4>1, InvalidatedIs DEF Refreshed
  <3> QED BY <3>1,<3>2
 <2>6. \A d \in {"authorize", "alarm"} : NextUsable(call'[d].auth.token)
  <3>1. NextUsable(0) BY DEF NextUsable
  <3> QED BY <1>1,<1>7,<2>1,<2>2,<3>1 DEF Held
 <2>7. call'["authorize"].auth.token # 0 =>
         call'["authorize"].auth.token \notin {auth'.token, call'["alarm"].auth.token, call'["alarm"].read}
  BY <1>1,<1>7,<1>9,<2>2, InvalidatedIs DEF Held, SameWork
 <2>8. /\ \A t \in twitch'.live \cup twitch'.refreshable : t # 0 /\ NextIssued(t)
       /\ NextIssued(auth'.token) BY <1>1,<2>1 DEF Held
 <2> QED BY <1>6,<1>10,<2>4,<2>5,<2>6,<2>7,<2>8, NextHeld
<1>13. twitch' \in Outside /\ twitch'.subs = twitch.subs /\ authAlarm' \in BOOLEAN BY <1>1,<1>2 DEF ChannelTypes
<1> QED BY <1>5,<1>6,<1>9,<1>11,<1>12,<1>13, ObjectAlone

LEMMA ValidateKeeps ==
  ASSUME ChannelSettings, CInv, NEW o \in Chan!Outcomes, Chan!validate(o)
  PROVE  CInv'
<1> DEFINE a == call["alarm"].auth
           todo == IF a.token \in twitch.live THEN Chan!Provision(a) ELSE <<"refresh">>
<1>1. ChannelTypes /\ Handlers /\ Held /\ twitch \in Outside BY DEF CInv, ChannelTypes
<1>2. Chan!Step("alarm", "validate") /\ "validate" \in Checks /\ UNCHANGED <<auth, Chan!managerVars, Chan!outside>>
 BY DEF Chan!validate, Checks
<1>3. a \in Chan!AuthRecords /\ ~Refreshed BY <1>1,<1>2, CheckIs DEF Refreshed
<1>4. CASE o # "done"
 <2>1. Chan!alarmEnds({}) /\ {} \in SUBSET Nat BY <1>4 DEF Chan!validate
 <2>2. twitch' = twitch /\ setting' = setting /\ flow' = flow BY <1>2 DEF Chan!outside
 <2>3. twitch.next <= twitch'.next /\ \A t \in twitch'.live \cup twitch'.refreshable : t # 0 /\ t < twitch'.next
  BY <1>1,<2>2 DEF Held, Issue, Outside
 <2> QED BY <1>1,<1>2,<1>3,<2>1,<2>2,<2>3, AlarmEndsKeeps
<1>5. CASE o = "done"
 <2>1. Chan!Continue("alarm", a, todo, FALSE) /\ UNCHANGED <<authAlarm, history>> BY <1>5 DEF Chan!validate
 <2>2. Stores(todo, OnSteps) \/ todo = <<"refresh">> BY <1>3, Plans
 <2>3. TokensKept BY <1>2,<2>1, UnchangedTokens
 <2> HIDE DEF todo
 <2>4. call' \in [Chan!Callers -> Handler] /\ Handlers' /\ Held'
  BY <1>1,<1>2,<2>1,<2>2,<2>3, SameOutside, AlarmGoesOn
 <2> QED BY <1>2,<2>1,<2>4, CallElsewhere
<1> QED BY <1>4,<1>5

\* Tokens that Twitch issues.
LEMMA NextToken ==
  ASSUME ChannelSettings, ChannelTypes, Held, twitch.next \in Tokens
  PROVE  /\ twitch.next \in Nat \ {0} /\ twitch.next + 1 \in Nat \ {0} /\ twitch.next < twitch.next + 1
         /\ \A t \in twitch.live \cup twitch.refreshable : t # 0 /\ t < twitch.next /\ t < twitch.next + 1
         /\ \A t \in Token : t < twitch.next => t < twitch.next + 1 /\ t # twitch.next
<1>1. twitch.next \in Nat \ {0} /\ twitch.live \subseteq Nat /\ twitch.refreshable \subseteq Nat
 BY DEF ChannelTypes, Outside
<1>2. \A t \in Token : t \in Nat BY TokensAre DEF Token
<1>3. \A t \in twitch.live \cup twitch.refreshable : t # 0 /\ t < twitch.next BY DEF Held, Issue
<1> QED BY <1>1,<1>2,<1>3

LEMMA RefreshedKeeps ==
  ASSUME ChannelSettings, CInv, NEW o \in Chan!Outcomes, NEW rotates \in BOOLEAN, Chan!refresh(o, rotates),
         call["alarm"].auth.token \in twitch.refreshable, o = "done"
  PROVE  CInv'
<1> DEFINE t == call["alarm"].auth.token
           n == twitch.next
           a == [call["alarm"].auth EXCEPT !.token = n]
           todo == <<"revalidate">>
<1>1. ChannelTypes /\ Handlers /\ Held /\ twitch \in Outside /\ history \in Record BY DEF CInv, ChannelTypes
<1>2. /\ Chan!Step("alarm", "refresh") /\ "refresh" \in Checks /\ n \in Tokens
      /\ twitch' = [twitch EXCEPT !.live = @ \cup {n}, !.next = n + 1,
                              !.refreshable = (IF rotates THEN @ \ {t} ELSE @) \cup {n}]
      /\ Chan!Continue("alarm", a, todo, FALSE)
      /\ UNCHANGED <<setting, flow, auth, authAlarm, Chan!managerVars, history>> BY DEF Chan!refresh, Checks
<1>3. /\ call["alarm"].auth \in Chan!AuthRecords /\ Bound(call["alarm"].auth) /\ t = call["alarm"].read
      /\ Chan!Busy("alarm") /\ "alarm" \in Chan!Callers /\ "authorize" \in Chan!Callers BY <1>1,<1>2, CheckIs
<1>4. /\ n \in Nat \ {0} /\ n + 1 \in Nat \ {0} /\ n < n + 1
      /\ \A x \in twitch.live \cup twitch.refreshable : x # 0 /\ x < n /\ x < n + 1
      /\ \A x \in Token : x < n => x < n + 1 /\ x # n BY <1>1,<1>2, NextToken
<1>5. a \in Chan!AuthRecords /\ a.token = n /\ Bound(a) BY <1>2,<1>3,<1>4 DEF Chan!AuthRecords, Bound
<1>6. Later("alarm", a, todo).auth = a /\ Later("alarm", a, todo).todo = todo
 BY <1>1,<1>3 DEF Later, ChannelTypes, Handler
<1>7. todo \in Seq(CallSteps) /\ todo # <<>> /\ "revalidate" \in Checks BY DEF CallSteps, Checks
<1>8. Planned("alarm", Later("alarm", a, todo))
 <2>1. \E s \in Checks : Later("alarm", a, todo).todo = <<s>>
                         /\ (s # "revalidate" => Later("alarm", a, todo).auth.token = Later("alarm", a, todo).read)
  BY <1>6,<1>7
 <2> HIDE DEF a, todo
 <2> QED BY <1>5,<1>6,<2>1 DEF Planned
<1>9. /\ twitch' \in Outside /\ twitch'.subs = twitch.subs /\ twitch'.live = twitch.live \cup {n}
      /\ twitch'.refreshable = (IF rotates THEN twitch.refreshable \ {t} ELSE twitch.refreshable) \cup {n}
      /\ twitch'.next = n + 1 BY <1>1,<1>2,<1>4 DEF Outside
<1> HIDE DEF a, todo
<1>10. /\ call' \in [Chan!Callers -> Handler] /\ \A d \in Chan!Callers : Planned(d, call'[d])
       /\ \A d \in Chan!Callers : d # "alarm" => SameWork(d)
       /\ call'["alarm"].auth = a /\ call'["alarm"].todo = todo /\ call'["alarm"].read = t
 <2>1. /\ ChannelTypes /\ Handlers /\ "alarm" \in Chan!Callers /\ a \in Chan!AuthRecords /\ todo \in Seq(CallSteps)
       /\ FALSE \in BOOLEAN /\ Chan!Continue("alarm", a, todo, FALSE)
       /\ todo # <<>> /\ Planned("alarm", Later("alarm", a, todo)) BY <1>1,<1>2,<1>3,<1>5,<1>7,<1>8
 <2>2. /\ call' \in [Chan!Callers -> Handler] /\ \A d \in Chan!Callers : Planned(d, call'[d])
       /\ \A d \in Chan!Callers : d # "alarm" => SameWork(d)
       /\ call'["alarm"].auth = a /\ call'["alarm"].todo = todo /\ call'["alarm"].read = call["alarm"].read
  BY <2>1, Continues
 <2> QED BY <1>3,<2>2
<1>11. Chan!Busy("alarm")' BY <1>7,<1>10 DEF Chan!Busy
<1>12. Handlers' BY <1>1,<1>2,<1>10,<1>11 DEF Handlers
<1>13. Held'
 <2>1. \A x : Usable(x) => x = t \/ NextUsable(x) BY <1>2,<1>9 DEF Usable, NextUsable
 <2>2. t # n /\ t < n /\ NextUsable(n) /\ NextIssued(n) BY <1>4,<1>9 DEF NextUsable, NextIssued
 <2>3. /\ auth.token \in Token /\ auth.token < n
       /\ \A d \in Chan!Callers : call[d].auth.token \in Token /\ call[d].auth.token < n
                                  /\ call[d].read \in Token /\ call[d].read < n
  BY <1>1 DEF ChannelTypes, Chan!AuthRecords, Handler, Token, Held, Issue
 <2>4. /\ NextIssued(auth'.token) /\ \A x \in twitch'.live \cup twitch'.refreshable : x # 0 /\ NextIssued(x)
  BY <1>2,<1>4,<1>9,<2>3 DEF NextIssued
 <2>5. \A d \in Chan!Callers : NextIssued(call[d].auth.token) /\ NextIssued(call[d].read)
  BY <1>4,<1>9,<2>3 DEF NextIssued
 <2>6. \A d \in Chan!Callers : call'[d].read = call[d].read /\ call'[d].auth.token \in {n, call[d].auth.token}
  BY <1>3,<1>5,<1>10 DEF SameWork
 <2>7. \A d \in Chan!Callers : NextIssued(call'[d].auth.token) /\ NextIssued(call'[d].read) BY <2>2,<2>5,<2>6
 <2>8. Refreshed' BY <1>5,<1>10,<1>11,<2>2 DEF Refreshed
 <2>9. NextUsable(auth'.token) \/ (Refreshed' /\ auth'.token = call'["alarm"].read)
  <3>1. Usable(auth.token) BY <1>1,<1>3 DEF Held, Refreshed
  <3> QED BY <1>2,<1>10,<2>1,<2>8,<3>1
 <2>10. call'["authorize"].auth = call["authorize"].auth BY <1>3,<1>10 DEF SameWork
 <2>11. NextUsable(call'["authorize"].auth.token) /\ NextUsable(call'["alarm"].auth.token)
  <3>1. Usable(call["authorize"].auth.token)
        /\ (call["authorize"].auth.token # 0 => call["authorize"].auth.token # t) BY <1>1,<1>3 DEF Held
  <3> QED BY <1>5,<1>10,<2>1,<2>2,<2>10,<3>1 DEF NextUsable
 <2>12. call'["authorize"].auth.token # 0 =>
          call'["authorize"].auth.token \notin {auth'.token, call'["alarm"].auth.token, call'["alarm"].read}
  <3>1. call["authorize"].auth.token # n BY <1>3,<1>4,<2>3
  <3> QED BY <1>1,<1>2,<1>3,<1>5,<1>10,<2>10,<3>1 DEF Held
 <2>13. call'["alarm"].auth.token \in twitch'.live /\ ~history'.unjust BY <1>1,<1>2,<1>5,<1>9,<1>10 DEF Held
 <2> QED BY <2>4,<2>7,<2>9,<2>11,<2>12,<2>13, NextHeld
<1>14. history' \in Record /\ authAlarm' \in BOOLEAN /\ history' = history BY <1>1,<1>2 DEF ChannelTypes
<1> QED BY <1>2,<1>9,<1>10,<1>12,<1>13,<1>14, ObjectAlone

LEMMA RefreshKeeps ==
  ASSUME ChannelSettings, CInv, NEW o \in Chan!Outcomes, NEW rotates \in BOOLEAN, Chan!refresh(o, rotates)
  PROVE  CInv'
<1> DEFINE t == call["alarm"].auth.token
           n == twitch.next
<1>1. ChannelTypes /\ Handlers /\ Held /\ twitch \in Outside BY DEF CInv, ChannelTypes
<1>2. Chan!Step("alarm", "refresh") /\ "refresh" \in Checks /\ UNCHANGED <<setting, flow, auth, Chan!managerVars>>
 BY DEF Chan!refresh, Checks
<1>3. call["alarm"].auth \in Chan!AuthRecords /\ t # 0 /\ ~Refreshed /\ "alarm" \in Chan!Callers
 BY <1>1,<1>2, CheckIs DEF Refreshed, Bound
<1>4. CASE t \in twitch.refreshable /\ o = "done" BY <1>4, RefreshedKeeps
<1>5. CASE t \in twitch.refreshable /\ o = "lost"
 <2> DEFINE lost == IF rotates THEN {t} ELSE {}
 <2>1. /\ n \in Tokens /\ Chan!alarmEnds(lost)
       /\ twitch' = [twitch EXCEPT !.live = @ \cup {n}, !.next = n + 1,
                             !.refreshable = (IF rotates THEN @ \ {t} ELSE @) \cup {n}] BY <1>5 DEF Chan!refresh
 <2>2. lost \in SUBSET Nat BY <1>1,<1>5 DEF Outside
 <2>3. /\ n \in Nat \ {0} /\ n + 1 \in Nat \ {0} /\ n < n + 1
       /\ \A x \in twitch.live \cup twitch.refreshable : x # 0 /\ x < n /\ x < n + 1 BY <1>1,<2>1, NextToken
 <2>4. /\ twitch' \in Outside /\ twitch'.subs = twitch.subs /\ twitch'.live = twitch.live \cup {n}
       /\ twitch'.refreshable = (IF rotates THEN twitch.refreshable \ {t} ELSE twitch.refreshable) \cup {n}
       /\ twitch'.next = n + 1 BY <1>1,<2>1,<2>3 DEF Outside
 <2>5. /\ twitch.next <= twitch'.next /\ \A x \in twitch'.live \cup twitch'.refreshable : x # 0 /\ x < twitch'.next
       /\ twitch.refreshable \subseteq twitch'.refreshable \cup lost /\ twitch.live \subseteq twitch'.live
  BY <2>3,<2>4
 <2> HIDE DEF lost
 <2> QED BY <1>2,<1>3,<2>1,<2>2,<2>4,<2>5, AlarmEndsKeeps
<1>6. CASE ~(t \in twitch.refreshable /\ o # "failed")
 <2>1. twitch' = twitch /\ IF o = "done" THEN Chan!alarmInvalidates(FALSE) ELSE Chan!alarmEnds({})
  BY <1>6 DEF Chan!refresh
 <2>2. CASE o = "done"
  <3>1. t \in history.ended BY <1>1,<1>3,<1>6,<2>2 DEF Held, Usable
  <3> QED BY <1>2,<2>1,<2>2,<3>1, AlarmInvalidatesKeeps
 <2>3. CASE o # "done"
  <3>1. twitch.next <= twitch'.next /\ \A x \in twitch'.live \cup twitch'.refreshable : x # 0 /\ x < twitch'.next
   BY <1>1,<2>1 DEF Held, Issue, Outside
  <3> QED BY <1>1,<1>2,<1>3,<2>1,<2>3,<3>1, AlarmEndsKeeps
 <2> QED BY <2>2,<2>3
<1> QED BY <1>4,<1>5,<1>6 DEF Chan!Outcomes

LEMMA RejectedKeeps ==
  ASSUME CInv, Chan!refreshRejected
  PROVE  CInv'
<1>1. Chan!Step("alarm", "refresh") /\ "refresh" \in Checks /\ Chan!alarmInvalidates(TRUE)
      /\ UNCHANGED <<setting, flow, auth, Chan!managerVars, twitch>> BY DEF Chan!refreshRejected, Checks
<1> QED BY <1>1, AlarmInvalidatesKeeps

LEMMA RevalidateKeeps ==
  ASSUME ChannelSettings, CInv, NEW o \in Chan!Outcomes, Chan!revalidate(o)
  PROVE  CInv'
<1> DEFINE a == call["alarm"].auth
<1>1. ChannelTypes /\ Handlers /\ Held /\ twitch \in Outside BY DEF CInv, ChannelTypes
<1>2. Chan!Step("alarm", "revalidate") /\ "revalidate" \in Checks /\ UNCHANGED <<auth, Chan!managerVars, Chan!outside>>
 BY DEF Chan!revalidate, Checks
<1>3. a \in Chan!AuthRecords /\ "alarm" \in Chan!Callers BY <1>1,<1>2, CheckIs
<1>4. UNCHANGED <<setting, flow, auth, Chan!managerVars, twitch>> BY <1>2 DEF Chan!outside
<1>5. CASE o # "done"
 <2>1. Chan!alarmEnds(Chan!LostToken) BY <1>5 DEF Chan!revalidate
 <2>2. call["alarm"].read \in {0} \cup Tokens BY <1>1,<1>3 DEF ChannelTypes, Handler, Token
 <2>3. Chan!LostToken \in SUBSET Nat /\ (Refreshed => call["alarm"].read \in Chan!LostToken)
  BY <2>2, TokensAre DEF Chan!LostToken, Refreshed
 <2>4. twitch.next <= twitch'.next /\ \A t \in twitch'.live \cup twitch'.refreshable : t # 0 /\ t < twitch'.next
  BY <1>1,<1>4 DEF Held, Issue, Outside
 <2> QED BY <1>1,<1>2,<1>4,<2>1,<2>3,<2>4, AlarmEndsKeeps
<1>6. CASE o = "done" /\ a.token \notin twitch.live
 <2>1. Chan!alarmInvalidates(FALSE) BY <1>6 DEF Chan!revalidate
 <2>2. a.token \in history.ended BY <1>1,<1>2,<1>6 DEF Held
 <2> QED BY <1>2,<1>4,<2>1,<2>2, AlarmInvalidatesKeeps
<1>7. CASE o = "done" /\ a.token \in twitch.live
 <2>1. Chan!Continue("alarm", a, Chan!Provision(a), FALSE) /\ UNCHANGED <<authAlarm, history>>
  BY <1>7 DEF Chan!revalidate
 <2>2. Stores(Chan!Provision(a), OnSteps) BY <1>3, Plans
 <2>3. TokensKept BY <1>2,<2>1, UnchangedTokens
 <2>4. call' \in [Chan!Callers -> Handler] /\ Handlers' /\ Held'
  BY <1>1,<1>2,<2>1,<2>2,<2>3, SameOutside, AlarmGoesOn
 <2> QED BY <1>2,<2>1,<2>4, CallElsewhere
<1> QED BY <1>5,<1>6,<1>7

LEMMA AuthRestartsKeeps ==
  ASSUME ChannelSettings, CInv, Chan!authRestarts
  PROVE  CInv'
<1> DEFINE lost == IF Chan!Busy("alarm") THEN Chan!LostToken ELSE {}
           more == IF Chan!Busy("revoked") THEN {"revoked"} ELSE {}
<1>1. ChannelTypes /\ Handlers /\ Held /\ twitch \in Outside /\ history \in Record BY DEF CInv, ChannelTypes
<1>2. /\ call' = [c \in Chan!Callers |-> IF c = "operator" THEN call[c] ELSE Chan!Idle]
      /\ authAlarm' = (authAlarm \/ Chan!Busy("alarm") \/ Chan!Due(auth))
      /\ twitch' = [twitch EXCEPT !.notices = @ \cup more]
      /\ Chan!Note([torn |-> history.torn \/ Chan!Busy("authorize") \/ Chan!Busy("disconnect") \/ Chan!Invalidating,
                    crossed |-> history.crossed \/ \E c \in Chan!AuthCallers : call[c].crossed,
                    ended |-> history.ended \cup lost])
      /\ UNCHANGED <<setting, flow, auth, Chan!managerVars>> BY DEF Chan!authRestarts
<1>3. "alarm" \in Chan!Callers /\ call["alarm"].read \in {0} \cup Tokens
 BY <1>1 DEF Chan!Callers, ChannelTypes, Handler, Token
<1>4. lost \in SUBSET Nat /\ (Refreshed => call["alarm"].read \in lost)
 BY <1>3, TokensAre DEF Chan!LostToken, Refreshed
<1> HIDE DEF lost
<1>5. /\ history' \in Record /\ history'.ended = history.ended \cup lost /\ history'.unjust = history.unjust
      /\ history'.uses = history.uses /\ history'.overwritten = history.overwritten
 <2> DEFINE torn == history.torn \/ Chan!Busy("authorize") \/ Chan!Busy("disconnect") \/ Chan!Invalidating
            crossed == history.crossed \/ \E c \in Chan!AuthCallers : call[c].crossed
 <2>1. torn \in BOOLEAN /\ crossed \in BOOLEAN BY <1>1 DEF Record, Chan!Busy, Chan!Invalidating
 <2>2. history.ended \cup lost \in SUBSET Nat BY <1>1,<1>4 DEF Record
 <2> HIDE DEF torn, crossed
 <2>3. Chan!Note([torn |-> torn, crossed |-> crossed, ended |-> history.ended \cup lost])
  BY <1>2 DEF torn, crossed
 <2>4. history' = [history EXCEPT !.torn = torn, !.crossed = crossed, !.ended = history.ended \cup lost]
       /\ history' \in Record BY <1>1,<2>1,<2>2,<2>3, NoteTorn
 <2> QED BY <1>1,<2>4 DEF Record
<1>6. /\ twitch' \in Outside /\ twitch'.subs = twitch.subs /\ twitch'.live = twitch.live
      /\ twitch'.refreshable = twitch.refreshable /\ twitch'.next = twitch.next
 <2>1. more \subseteq {"failed", "revoked"} OBVIOUS
 <2> HIDE DEF more
 <2> QED BY <1>1,<1>2,<2>1 DEF Outside
<1>7. TokensMoved BY <1>1,<1>5,<1>6 DEF TokensMoved, Held, Issue, Outside
<1>8. call' \in [Chan!Callers -> Handler] /\ \A d \in Chan!Callers : Planned(d, call'[d]) /\ (call'[d] = Chan!Idle \/ SameWork(d))
 <2>1. \A d \in Chan!Callers : call'[d] = Chan!Idle \/ call'[d] = call[d] BY <1>2
 <2>2. \A d \in Chan!Callers : Planned(d, Chan!Idle) /\ Planned(d, call[d]) BY <1>1 DEF Planned, Handlers
 <2>3. call' \in [Chan!Callers -> Handler] BY <1>1,<1>2, EmptyRecords DEF ChannelTypes
 <2>4. \A d \in Chan!Callers : call'[d] = call[d] => SameWork(d) BY DEF SameWork
 <2> QED BY <2>1,<2>2,<2>3,<2>4
<1>9. call'["alarm"] = Chan!Idle BY <1>2,<1>3
<1>10. Held' BY <1>1,<1>2,<1>4,<1>5,<1>6,<1>7,<1>8,<1>9, AlarmStops
<1>11. Handlers' BY <1>1,<1>2,<1>8 DEF Handlers, Chan!Due
<1>12. authAlarm' \in BOOLEAN BY <1>1,<1>2 DEF ChannelTypes, Chan!Busy, Chan!Due
<1> QED BY <1>2,<1>5,<1>6,<1>8,<1>10,<1>11,<1>12, ObjectAlone

-----------------------------------------------------------------------------
(* The OAuth coordinator                                                    *)

\* A step of the coordinator alone.
LEMMA CoordinatorAlone ==
  ASSUME ChannelSettings, CInv, flow' \in OAuth, FlowsOnce', history' \in Record, Untouched,
         history'.overwritten = history.overwritten,
         UNCHANGED <<setting, auth, authAlarm, call, Chan!managerVars, twitch>>
  PROVE  CInv'
<1>1. ChannelTypes' BY DEF CInv, ChannelTypes, Chan!managerVars
<1>2. Handlers' BY SameHandlers DEF CInv
<1>3. Held' BY SameHeld, UntouchedKept DEF CInv, ChannelTypes
<1>4. Manager' BY SameManager DEF CInv, Manager, Chan!managerVars
<1> QED BY <1>1,<1>2,<1>3,<1>4, Together

LEMMA FlowOnly ==
  ASSUME ChannelSettings, CInv, flow' \in OAuth, FlowsOnce', UNCHANGED <<setting, call, twitch, history, Chan!coordinatorVars>>
  PROVE  CInv'
<1>1. history' \in Record /\ Untouched /\ history'.overwritten = history.overwritten
 BY DEF CInv, ChannelTypes, Untouched
<1> QED BY <1>1, CoordinatorAlone DEF Chan!coordinatorVars

LEMMA InvitationKeeps ==
  ASSUME ChannelSettings, CInv, NEW f \in Flows, Chan!createInvitation(f)
  PROVE  CInv'
<1>1. flow \in OAuth /\ history \in Record /\ FlowsOnce BY DEF CInv, ChannelTypes
<1>2. f \notin flow.begun
      /\ flow' = [flow EXCEPT !.begun = @ \cup {f}, !.invites = @ \cup {f}, !.alarm = TRUE]
      /\ UNCHANGED <<setting, call, twitch, history, Chan!coordinatorVars>> BY DEF Chan!createInvitation
<1>3. /\ flow' \in OAuth /\ flow'.begun = flow.begun \cup {f} /\ flow'.invites = flow.invites \cup {f}
      /\ flow'.states = flow.states /\ flow'.alarm = TRUE BY <1>1,<1>2 DEF OAuth
<1>4. FlowsOnce' BY <1>1,<1>2,<1>3 DEF FlowsOnce, Chan!Pending
<1> QED BY <1>2,<1>3,<1>4, FlowOnly

LEMMA OpenedKeeps ==
  ASSUME ChannelSettings, CInv, NEW f \in Flows, f \in flow.invites \/ f \notin flow.begun, flow' = Chan!Opened(f),
         UNCHANGED <<setting, call, twitch, history, Chan!coordinatorVars>>
  PROVE  CInv'
<1>1. flow \in OAuth /\ history \in Record /\ FlowsOnce BY DEF CInv, ChannelTypes
<1>2. /\ flow' \in OAuth /\ flow'.begun = flow.begun \cup {f} /\ flow'.invites = flow.invites \ {f}
      /\ flow'.states = flow.states \cup {f} /\ flow'.alarm = TRUE BY <1>1 DEF OAuth, Chan!Opened
<1>3. FlowsOnce' BY <1>1,<1>2 DEF FlowsOnce, Chan!Pending
<1> QED BY <1>2,<1>3, FlowOnly

LEMMA OpensKeep ==
  ASSUME ChannelSettings, CInv, NEW f \in Flows, Chan!startOAuth(f) \/ Chan!startGrantOAuth(f)
  PROVE  CInv'
<1>1. /\ f \in flow.invites \/ f \notin flow.begun
      /\ flow' = Chan!Opened(f) /\ UNCHANGED <<setting, call, twitch, history, Chan!coordinatorVars>>
 BY DEF Chan!startOAuth, Chan!startGrantOAuth
<1> QED BY <1>1, OpenedKeeps

LEMMA CalledKeeps ==
  ASSUME ChannelSettings, CInv, NEW f \in Flows, Chan!Called(f)
  PROVE  CInv'
<1>1. flow \in OAuth /\ history \in Record /\ FlowsOnce /\ history.uses \in [Flows -> Nat]
 BY DEF CInv, ChannelTypes, Record
<1>2. /\ f \in flow.states
      /\ flow' = [flow EXCEPT !.states = @ \ {f}, !.exchanging = @ \cup {f}]
      /\ UNCHANGED <<setting, call, twitch, Chan!coordinatorVars>> BY DEF Chan!Called
<1>3. /\ flow' \in OAuth /\ flow'.begun = flow.begun /\ flow'.invites = flow.invites
      /\ flow'.states = flow.states \ {f} /\ flow'.alarm = flow.alarm BY <1>1,<1>2 DEF OAuth
<1> DEFINE us == [history.uses EXCEPT ![f] = @ + 1]
<1>4. us \in [Flows -> Nat] /\ Chan!Note([uses |-> us]) BY <1>1 DEF Chan!Called
<1>5. \A g \in Flows : us[g] = IF g = f THEN history.uses[g] + 1 ELSE history.uses[g] BY <1>1
<1> HIDE DEF us
<1>6. history' = [history EXCEPT !.uses = us] /\ history' \in Record BY <1>1,<1>4, NoteUses
<1>7. /\ history'.uses = us /\ history'.ended = history.ended /\ history'.unjust = history.unjust
      /\ history'.overwritten = history.overwritten BY <1>1,<1>6 DEF Record
<1>8. Chan!Pending' = Chan!Pending \ {f} /\ f \in Chan!Pending BY <1>1,<1>2,<1>3 DEF Chan!Pending, FlowsOnce
<1>9. FlowsOnce'
 <2>1. Chan!Pending' # {} => flow'.alarm BY <1>1,<1>3,<1>8 DEF FlowsOnce
 <2>2. Chan!Pending' \subseteq flow'.begun /\ flow'.invites \cap flow'.states = {} BY <1>1,<1>3,<1>8 DEF FlowsOnce
 <2>3. history.uses[f] = 0 /\ f \in flow.begun BY <1>1,<1>8 DEF FlowsOnce
 <2>4. ASSUME NEW g \in Flows
       PROVE  history'.uses[g] <= 1 /\ (g \in Chan!Pending' \/ g \notin flow'.begun => history'.uses[g] = 0)
  <3>1. CASE g = f BY <1>3,<1>5,<1>7,<1>8,<2>3,<3>1
  <3>2. CASE g # f BY <1>1,<1>3,<1>5,<1>7,<1>8,<3>2 DEF FlowsOnce
  <3> QED BY <3>1,<3>2
 <2> QED BY <2>1,<2>2,<2>4 DEF FlowsOnce
<1>10. Untouched BY <1>2,<1>7 DEF Untouched
<1> QED BY <1>2,<1>3,<1>6,<1>7,<1>9,<1>10, CoordinatorAlone DEF Chan!coordinatorVars

LEMMA ExpiryKeeps ==
  ASSUME ChannelSettings, CInv, NEW gone \in SUBSET Flows, Chan!coordinatorAlarm(gone)
  PROVE  CInv'
<1>1. flow \in OAuth /\ history \in Record /\ FlowsOnce BY DEF CInv, ChannelTypes
<1>2. /\ gone \subseteq Chan!Pending
      /\ flow' = [flow EXCEPT !.invites = @ \ gone, !.states = @ \ gone, !.alarm = gone # Chan!Pending]
      /\ UNCHANGED <<setting, call, twitch, history, Chan!coordinatorVars>> BY DEF Chan!coordinatorAlarm
<1>3. /\ flow' \in OAuth /\ flow'.begun = flow.begun /\ flow'.invites = flow.invites \ gone
      /\ flow'.states = flow.states \ gone /\ flow'.alarm = (gone # Chan!Pending) BY <1>1,<1>2 DEF OAuth
<1>4. FlowsOnce' BY <1>1,<1>2,<1>3 DEF FlowsOnce, Chan!Pending
<1> QED BY <1>2,<1>3,<1>4, FlowOnly

-----------------------------------------------------------------------------
(* The tokens of a code                                                     *)

LEMMA ExchangedIs ==
  ASSUME CInv, NEW f \in Flows, Chan!Exchanged(f), history' = history
  PROVE  flow' \in OAuth /\ FlowsOnce'
<1>1. flow \in OAuth /\ FlowsOnce BY DEF CInv, ChannelTypes
<1>2. /\ flow' \in OAuth /\ flow'.begun = flow.begun /\ flow'.invites = flow.invites
      /\ flow'.states = flow.states /\ flow'.alarm = flow.alarm BY <1>1 DEF OAuth, Chan!Exchanged
<1> QED BY <1>1,<1>2 DEF FlowsOnce, Chan!Pending

LEMMA IssuedIs ==
  ASSUME ChannelSettings, ChannelTypes, Held, twitch.next \in Tokens, twitch' = Chan!Issued(twitch.next), history' = history
  PROVE  /\ twitch' \in Outside /\ TokensMoved /\ twitch'.subs = twitch.subs /\ twitch'.next = twitch.next + 1
         /\ twitch.next \in twitch'.refreshable
<1>1. /\ twitch.next \in Nat \ {0} /\ twitch.next + 1 \in Nat \ {0} /\ twitch.next < twitch.next + 1
      /\ \A t \in twitch.live \cup twitch.refreshable : t # 0 /\ t < twitch.next /\ t < twitch.next + 1
 BY NextToken
<1>2. /\ twitch' \in Outside /\ twitch'.subs = twitch.subs /\ twitch'.next = twitch.next + 1
      /\ twitch'.live = twitch.live \cup {twitch.next} /\ twitch'.refreshable = twitch.refreshable \cup {twitch.next}
 BY <1>1 DEF ChannelTypes, Outside, Chan!Issued
<1> QED BY <1>1,<1>2 DEF TokensMoved

LEMMA SameCalls ==
  ASSUME ChannelSettings, ChannelTypes, Held, TokensMoved, twitch' \in Outside, UNCHANGED <<auth, call>>
  PROVE  Held'
<1>1. AlarmKeeps BY DEF AlarmKeeps, Chan!Busy, Chan!Step
<1>2. \A c \in Chan!Callers : call'[c].auth.token < twitch'.next /\ call'[c].read < twitch'.next BY StillIssued
<1> QED BY <1>1,<1>2, HeldMoves

\* A code exchanged: what the coordinator and Twitch did, and what the object is left with.
LEMMA ExchangeTogether ==
  ASSUME CInv, NEW f \in Flows, Chan!Exchanged(f), twitch' \in Outside, twitch'.subs = twitch.subs,
         call' \in [Chan!Callers -> Handler], Handlers', Held', UNCHANGED <<setting, history, Chan!coordinatorVars>>
  PROVE  CInv'
<1>1. flow' \in OAuth /\ FlowsOnce' BY ExchangedIs
<1>2. ChannelTypes' BY <1>1 DEF CInv, ChannelTypes, Chan!coordinatorVars, Chan!managerVars
<1>3. Manager' BY SameManager DEF CInv, Manager, Chan!managerVars, Chan!coordinatorVars
<1> QED BY <1>1,<1>2,<1>3, Together

LEMMA GrantKeeps ==
  ASSUME ChannelSettings, CInv, NEW f \in Flows, NEW o \in Chan!Outcomes, Chan!issueGrant(f, o)
  PROVE  CInv'
<1>1. ChannelTypes /\ Handlers /\ Held /\ twitch \in Outside BY DEF CInv, ChannelTypes
<1>2. Chan!Exchanged(f) /\ UNCHANGED <<setting, call, history, Chan!coordinatorVars>> BY DEF Chan!issueGrant
<1>3. twitch' \in Outside /\ TokensMoved /\ twitch'.subs = twitch.subs
 <2>1. CASE o # "lost" BY <1>1,<1>2,<2>1 DEF Chan!issueGrant, TokensMoved, Held, Issue, Outside
 <2>2. CASE o = "lost" BY <1>1,<1>2,<2>2, IssuedIs DEF Chan!issueGrant
 <2> QED BY <2>1,<2>2
<1>4. Handlers' BY <1>1,<1>2, SameHandlers DEF Chan!coordinatorVars
<1>5. Held' BY <1>1,<1>2,<1>3, SameCalls DEF Chan!coordinatorVars
<1> QED BY <1>1,<1>2,<1>3,<1>4,<1>5, ExchangeTogether DEF ChannelTypes

LEMMA AuthorizeKeeps ==
  ASSUME ChannelSettings, CInv, NEW f \in Flows, NEW o \in Chan!Outcomes, Chan!authorize(f, o)
  PROVE  CInv'
<1> DEFINE n == twitch.next
           a == [Chan!NoAuth EXCEPT !.status = "authorized", !.token = n, !.completion = setting.flows[f] = "linking"]
           todo == <<"configure", "register">> \o Chan!Provision(a)
<1>1. ChannelTypes /\ Handlers /\ Held /\ twitch \in Outside BY DEF CInv, ChannelTypes
<1>2. Chan!Exchanged(f) /\ UNCHANGED <<setting, history, Chan!coordinatorVars>> BY DEF Chan!authorize
<1>3. CASE o = "failed"
 <2>1. UNCHANGED <<call, twitch>> BY <1>3 DEF Chan!authorize
 <2>2. twitch' \in Outside /\ twitch'.subs = twitch.subs BY <1>1,<2>1
 <2>3. TokensMoved BY <1>1,<1>2,<2>1 DEF TokensMoved, Held, Issue, Outside
 <2>4. Handlers' BY <1>1,<1>2,<2>1, SameHandlers DEF Chan!coordinatorVars
 <2>5. Held' BY <1>1,<1>2,<2>1,<2>2,<2>3, SameCalls DEF Chan!coordinatorVars
 <2> QED BY <1>1,<1>2,<2>1,<2>2,<2>4,<2>5, ExchangeTogether DEF ChannelTypes
<1>4. CASE o = "lost"
 <2>1. n \in Tokens /\ twitch' = Chan!Issued(n) /\ call' = call BY <1>4 DEF Chan!authorize
 <2>2. twitch' \in Outside /\ TokensMoved /\ twitch'.subs = twitch.subs BY <1>1,<1>2,<2>1, IssuedIs
 <2>3. Handlers' BY <1>1,<1>2,<2>1, SameHandlers DEF Chan!coordinatorVars
 <2>4. Held' BY <1>1,<1>2,<2>1,<2>2, SameCalls DEF Chan!coordinatorVars
 <2> QED BY <1>1,<1>2,<2>1,<2>2,<2>3,<2>4, ExchangeTogether DEF ChannelTypes
<1>5. CASE o = "done"
 <2>1. n \in Tokens /\ twitch' = Chan!Issued(n) /\ ~Chan!Busy("authorize") /\ Chan!Start("authorize", a, todo)
  BY <1>5 DEF Chan!authorize
 <2>2. /\ twitch' \in Outside /\ TokensMoved /\ twitch'.subs = twitch.subs /\ twitch'.next = n + 1
       /\ n \in twitch'.refreshable BY <1>1,<1>2,<2>1, IssuedIs
 <2>3. n \in Nat \ {0} /\ n < n + 1 /\ \A x \in Token : x < n => x # n BY <1>1,<2>1, NextToken
 <2>4. a \in Chan!AuthRecords /\ Bound(a) /\ a.token = n
  BY <2>1,<2>3 DEF Chan!NoAuth, Chan!AuthRecords, Chan!Statuses, Bound
 <2>5. Stores(todo, OnSteps) BY <2>4, Plans
 <2>6. todo \in Seq(OnSteps) /\ todo # <<>> BY <2>5 DEF Stores
 <2>7. todo \in Seq(CallSteps) BY <2>6, StepsAre
 <2> HIDE DEF a, todo
 <2>8. Planned("authorize", Begun(a, todo)) BY <2>4,<2>5 DEF Planned, Begun
 <2>9. "alarm" \in Chan!Callers /\ "authorize" \in Chan!Callers BY DEF Chan!Callers
 <2>10. /\ call' \in [Chan!Callers -> Handler] /\ \A d \in Chan!Callers : Planned(d, call'[d])
        /\ \A d \in Chan!Callers : d # "authorize" => call'[d] = call[d] /\ SameWork(d)
        /\ call'["authorize"].auth = a /\ call'["authorize"].todo = todo /\ call'["authorize"].read = n
  BY <1>1,<2>1,<2>4,<2>6,<2>7,<2>8,<2>9, Starts
 <2>11. auth' = auth /\ authAlarm' = authAlarm /\ call'["alarm"] = call["alarm"]
  BY <1>2,<2>9,<2>10 DEF Chan!coordinatorVars
 <2>12. Handlers' BY <1>1,<2>10,<2>11 DEF Handlers, Chan!Busy
 <2>13. Held'
  <3>1. /\ auth.token \in Token /\ auth.token < n
        /\ \A d \in Chan!Callers : call[d].auth.token \in Token /\ call[d].auth.token < n
                                   /\ call[d].read \in Token /\ call[d].read < n
   BY <1>1 DEF ChannelTypes, Chan!AuthRecords, Handler, Token, Held, Issue
  <3>2. \A t : Usable(t) => NextUsable(t) BY <2>2 DEF Usable, NextUsable, TokensMoved
  <3>3. NextIssued(auth'.token) /\ \A d \in Chan!Callers : NextIssued(call[d].auth.token) /\ NextIssued(call[d].read)
   BY <1>1,<2>2,<2>11, StillIssued DEF NextIssued
  <3>4. NextIssued(n) /\ NextUsable(n) BY <2>2,<2>3 DEF NextIssued, NextUsable
  <3>5. \A d \in Chan!Callers : NextIssued(call'[d].auth.token) /\ NextIssued(call'[d].read)
   BY <2>4,<2>9,<2>10,<3>3,<3>4
  <3>6. NextUsable(auth'.token) \/ (Refreshed' /\ auth'.token = call'["alarm"].read)
   BY <1>1,<2>11,<3>2 DEF Held, Refreshed, Chan!Busy
  <3>7. \A d \in {"authorize", "alarm"} : NextUsable(call'[d].auth.token)
   BY <1>1,<2>4,<2>10,<2>11,<3>2,<3>4 DEF Held
  <3>8. n \notin {auth'.token, call'["alarm"].auth.token, call'["alarm"].read} BY <2>3,<2>9,<2>11,<3>1
  <3>9. Chan!Step("alarm", "revalidate")' => call'["alarm"].auth.token \in twitch'.live \cup history'.ended
   BY <1>1,<1>2,<2>2,<2>11 DEF Held, Chan!Step, Chan!Busy, TokensMoved
  <3>10. ~history'.unjust /\ \A t \in twitch'.live \cup twitch'.refreshable : t # 0 /\ NextIssued(t)
   BY <1>1,<2>2 DEF Held, TokensMoved, NextIssued
  <3> QED BY <2>4,<2>10,<3>3,<3>5,<3>6,<3>7,<3>8,<3>9,<3>10, NextHeld
 <2> QED BY <1>2,<2>2,<2>10,<2>12,<2>13, ExchangeTogether
<1> QED BY <1>3,<1>4,<1>5 DEF Chan!Outcomes

-----------------------------------------------------------------------------
(* Twitch                                                                   *)

\* Nothing is subscribed by itself.
NoneCreated == \A k \in Types : /\ twitch'.subs[k] \in {{}, {"healthy"}, {"stale"}}
                                /\ twitch'.subs[k] # {} => twitch.subs[k] # {}

LEMMA SubscriptionsShrink ==
  ASSUME ChannelSettings, ChannelTypes, Subscribed, UNCHANGED <<setting, config, channelAlarm, run, queue>>, NoneCreated
  PROVE  Subscribed'
<1>1. Chan!Kinds' = Chan!Kinds BY DEF Chan!Kinds
<1>2. \A todo : Orderly(todo) => Orderly(todo)'
 <2>1. ASSUME NEW todo, Orderly(todo), NEW j \in DOMAIN todo, todo[j][1] = "create"
       PROVE  /\ todo[j][2] \in Chan!Kinds
              /\ twitch'.subs[todo[j][2]] = {} \/ Deletes(todo, todo[j][2], j - 1)
              /\ \A n \in DOMAIN todo : n > j => todo[n][2] # todo[j][2]
  <3>1. /\ todo[j][2] \in Chan!Kinds /\ (twitch.subs[todo[j][2]] = {} \/ Deletes(todo, todo[j][2], j - 1))
        /\ \A n \in DOMAIN todo : n > j => todo[n][2] # todo[j][2] BY <2>1 DEF Orderly
  <3>2. Chan!Kinds \subseteq Types BY Constants DEF Chan!Kinds, ChannelTypes
  <3> QED BY <3>1,<3>2 DEF NoneCreated
 <2> QED BY <1>1,<2>1 DEF Orderly, Deletes
<1>3. \A todo : Emptying(todo) => Emptying(todo)' BY DEF Emptying, Deletes, NoneCreated
<1>4. NoneLeft => NoneLeft' BY DEF NoneLeft, NoneCreated
<1>5. ASSUME NEW i \in DOMAIN queue, queue[i].listed
      PROVE  IF queue[i].kind = "ensure" THEN Orderly(queue[i].todo)' ELSE Emptying(queue[i].todo)'
 BY <1>2,<1>3,<1>5 DEF Subscribed
<1>6. \A k \in Types : twitch'.subs[k] \in {{}, {"healthy"}, {"stale"}} /\ (twitch'.subs[k] # {} => k \in Chan!Kinds')
 BY <1>1 DEF NoneCreated, Subscribed
<1> QED BY <1>4,<1>5,<1>6 DEF Subscribed

LEMMA TwitchAlone ==
  ASSUME ChannelSettings, CInv, UNCHANGED <<setting, flow, auth, authAlarm, call, Chan!managerVars>>, twitch' \in Outside,
         history' \in Record, history'.uses = history.uses, history'.overwritten = history.overwritten, NoneCreated, Held'
  PROVE  CInv'
<1>1. ChannelTypes' BY DEF CInv, ChannelTypes, Chan!managerVars
<1>2. Handlers' BY SameHandlers DEF CInv
<1>3. FlowsOnce' BY SameFlows DEF CInv
<1>4. Desired' BY DEF CInv, Desired, Chan!managerVars
<1>5. Queued' BY DEF CInv, Queued, Wanted, Chan!managerVars
<1>6. Subscribed' BY SubscriptionsShrink DEF CInv, Chan!managerVars
<1> QED BY <1>1,<1>2,<1>3,<1>4,<1>5,<1>6 DEF CInv

LEMMA SubscriptionKeeps ==
  ASSUME ChannelSettings, CInv, NEW k \in Types, Chan!SubscriptionFails(k) \/ Chan!SubscriptionForgotten(k)
  PROVE  CInv'
<1>1. ChannelTypes /\ Held /\ twitch \in Outside /\ history \in Record /\ Subscribed BY DEF CInv, ChannelTypes
<1>2. UNCHANGED <<setting, flow, auth, authAlarm, call, Chan!managerVars, history>>
 BY DEF Chan!SubscriptionFails, Chan!SubscriptionForgotten
<1>3. /\ twitch' \in Outside /\ twitch'.live = twitch.live /\ twitch'.refreshable = twitch.refreshable
      /\ twitch'.next = twitch.next
      /\ \E new \in {{}, {"stale"}} : twitch.subs[k] # {} /\ twitch'.subs = [twitch.subs EXCEPT ![k] = new]
 <2>1. CASE Chan!SubscriptionFails(k)
  <3>1. /\ twitch' = [twitch EXCEPT !.subs[k] = {"stale"}, !.notices = @ \cup {"failed"}]
        /\ twitch.subs[k] # {} BY <2>1 DEF Chan!SubscriptionFails, Chan!Healthy
  <3>2. /\ twitch' \in Outside /\ twitch'.live = twitch.live /\ twitch'.refreshable = twitch.refreshable
        /\ twitch'.next = twitch.next /\ twitch'.subs = [twitch.subs EXCEPT ![k] = {"stale"}]
   BY <1>1,<3>1 DEF Outside
  <3> QED BY <3>1,<3>2
 <2>2. CASE Chan!SubscriptionForgotten(k)
  <3>1. /\ twitch' = [twitch EXCEPT !.subs[k] = @ \ {"stale"}] /\ "stale" \in twitch.subs[k]
   BY <2>2 DEF Chan!SubscriptionForgotten
  <3>2. twitch.subs[k] \ {"stale"} = {}
   <4>1. twitch.subs[k] \in {{}, {"healthy"}, {"stale"}} BY <1>1 DEF Subscribed
   <4> QED BY <3>1,<4>1
  <3>3. /\ twitch' \in Outside /\ twitch'.live = twitch.live /\ twitch'.refreshable = twitch.refreshable
        /\ twitch'.next = twitch.next /\ twitch'.subs = [twitch.subs EXCEPT ![k] = {}]
   BY <1>1,<3>1,<3>2 DEF Outside
  <3> QED BY <3>1,<3>3
 <2> QED BY <2>1,<2>2
<1>4. NoneCreated
 <2>1. PICK new \in {{}, {"stale"}} : twitch.subs[k] # {} /\ twitch'.subs = [twitch.subs EXCEPT ![k] = new]
  BY <1>3
 <2>2. twitch.subs \in [Types -> SUBSET {"healthy", "stale"}] BY <1>1 DEF Outside
 <2> QED BY <1>1,<2>1,<2>2 DEF NoneCreated, Subscribed
<1>5. TokensKept BY <1>2,<1>3, UntouchedKept DEF Untouched
<1>6. Held' BY <1>1,<1>2,<1>3,<1>5, SameHeld
<1> QED BY <1>1,<1>2,<1>3,<1>4,<1>6, TwitchAlone

LEMMA UserRevokesKeeps ==
  ASSUME ChannelSettings, CInv, NEW noticed \in BOOLEAN, Chan!UserRevokes(noticed)
  PROVE  CInv'
<1> DEFINE new == IF Chan!Healthy("chat") THEN {"stale"} ELSE twitch.subs["chat"]
           told == IF noticed THEN twitch.notices \cup {"revoked"} ELSE twitch.notices
           gone == history.ended \cup twitch.live \cup twitch.refreshable
<1>1. ChannelTypes /\ Held /\ twitch \in Outside /\ history \in Record /\ Subscribed BY DEF CInv, ChannelTypes
<1>2. /\ twitch' = [twitch EXCEPT !.live = {}, !.refreshable = {}, !.subs["chat"] = new, !.notices = told]
      /\ Chan!Note([ended |-> gone])
      /\ UNCHANGED <<setting, flow, auth, authAlarm, call, Chan!managerVars>> BY DEF Chan!UserRevokes
<1>3. "chat" \in Types BY <1>1, Constants DEF ChannelTypes
<1>4. new \in SUBSET {"healthy", "stale"} /\ told \in SUBSET {"failed", "revoked"} /\ gone \in SUBSET Nat
 BY <1>1,<1>3 DEF Outside, Record
<1>5. new \in {{}, {"healthy"}, {"stale"}} /\ (new # {} => twitch.subs["chat"] # {})
 BY <1>1,<1>3 DEF Subscribed, Chan!Healthy
<1> HIDE DEF new, told, gone
<1>6. /\ twitch' \in Outside /\ twitch'.live = {} /\ twitch'.refreshable = {} /\ twitch'.next = twitch.next
      /\ twitch'.subs = [twitch.subs EXCEPT !["chat"] = new] BY <1>1,<1>2,<1>4 DEF Outside
<1>7. /\ history' \in Record /\ history'.ended = gone /\ history'.unjust = history.unjust
      /\ history'.uses = history.uses /\ history'.overwritten = history.overwritten
 <2>1. history' = [history EXCEPT !.ended = gone] /\ history' \in Record BY <1>1,<1>2,<1>4, NoteEnded
 <2> QED BY <1>1,<2>1 DEF Record
<1>8. TokensKept BY <1>6,<1>7 DEF TokensKept, gone
<1>9. Held' BY <1>1,<1>2,<1>6,<1>8, SameHeld
<1>10. NoneCreated
 <2>1. twitch.subs \in [Types -> SUBSET {"healthy", "stale"}] BY <1>1 DEF Outside
 <2> QED BY <1>1,<1>5,<1>6,<2>1 DEF NoneCreated, Subscribed
<1> QED BY <1>2,<1>6,<1>7,<1>9,<1>10, TwitchAlone

LEMMA TokenExpiresKeeps ==
  ASSUME ChannelSettings, CInv, NEW t \in Tokens, Chan!TokenExpires(t)
  PROVE  CInv'
<1> DEFINE gone == IF Chan!Step("alarm", "revalidate") /\ call["alarm"].auth.token = t THEN {t} ELSE {}
<1>1. ChannelTypes /\ Held /\ twitch \in Outside /\ history \in Record /\ Subscribed BY DEF CInv, ChannelTypes
<1>2. /\ twitch' = [twitch EXCEPT !.live = @ \ {t}] /\ Chan!Note([ended |-> history.ended \cup gone])
      /\ UNCHANGED <<setting, flow, auth, authAlarm, call, Chan!managerVars>> BY DEF Chan!TokenExpires
<1>3. history.ended \cup gone \in SUBSET Nat BY <1>1, TokensAre DEF Record
<1>4. Chan!Step("alarm", "revalidate") => call["alarm"].auth.token \in (twitch.live \ {t}) \cup (history.ended \cup gone)
 BY <1>1 DEF Held
<1> HIDE DEF gone
<1>5. /\ twitch' \in Outside /\ twitch'.live = twitch.live \ {t} /\ twitch'.refreshable = twitch.refreshable
      /\ twitch'.next = twitch.next /\ twitch'.subs = twitch.subs BY <1>1,<1>2 DEF Outside
<1>6. /\ history' \in Record /\ history'.ended = history.ended \cup gone /\ history'.unjust = history.unjust
      /\ history'.uses = history.uses /\ history'.overwritten = history.overwritten
 <2>1. history' = [history EXCEPT !.ended = history.ended \cup gone] /\ history' \in Record
  BY <1>1,<1>2,<1>3, NoteEnded
 <2> QED BY <1>1,<2>1 DEF Record
<1>7. Held'
 <2>1. \A x : Usable(x) => NextUsable(x) BY <1>5,<1>6 DEF Usable, NextUsable
 <2>2. \A x : NextIssued(x) <=> Issue(x) BY <1>5 DEF NextIssued, Issue
 <2>3. auth' = auth /\ call' = call /\ (Refreshed' <=> Refreshed)
       /\ (Chan!Step("alarm", "revalidate")' <=> Chan!Step("alarm", "revalidate"))
  BY <1>2 DEF Refreshed, Chan!Busy, Chan!Step
 <2>4. Chan!Step("alarm", "revalidate")' => call'["alarm"].auth.token \in twitch'.live \cup history'.ended
  BY <1>4,<1>5,<1>6,<2>3
 <2>5. /\ \A x \in twitch'.live \cup twitch'.refreshable : x # 0 /\ NextIssued(x)
       /\ NextIssued(auth'.token) /\ \A d \in Chan!Callers : NextIssued(call'[d].auth.token) /\ NextIssued(call'[d].read)
  BY <1>1,<1>5,<2>2,<2>3 DEF Held
 <2>6. NextUsable(auth'.token) \/ (Refreshed' /\ auth'.token = call'["alarm"].read) BY <1>1,<2>1,<2>3 DEF Held
 <2>7. \A d \in {"authorize", "alarm"} : NextUsable(call'[d].auth.token) BY <1>1,<2>1,<2>3 DEF Held
 <2>8. call'["authorize"].auth.token # 0 =>
         call'["authorize"].auth.token \notin {auth'.token, call'["alarm"].auth.token, call'["alarm"].read}
  BY <1>1,<2>3 DEF Held
 <2>9. ~history'.unjust BY <1>1,<1>6 DEF Held
 <2> QED BY <2>4,<2>5,<2>6,<2>7,<2>8,<2>9, NextHeld
<1>8. NoneCreated BY <1>1,<1>5 DEF NoneCreated, Subscribed
<1> QED BY <1>2,<1>5,<1>6,<1>7,<1>8, TwitchAlone

LEMMA FailedNoticeKeeps ==
  ASSUME ChannelSettings, CInv, NEW same \in BOOLEAN, NEW o \in Chan!Outcomes, Chan!failedNotice(same, o)
  PROVE  CInv'
<1>1. ChannelTypes /\ Handlers /\ Held /\ FlowsOnce /\ Manager /\ twitch \in Outside
 BY DEF CInv, ChannelTypes, Manager
<1>2. /\ twitch' = IF o = "done" THEN [twitch EXCEPT !.notices = @ \ {"failed"}] ELSE twitch
      /\ UNCHANGED <<setting, flow, auth, authAlarm, call, run, queue, history>> BY DEF Chan!failedNotice
<1>3. /\ twitch' \in Outside /\ twitch'.live = twitch.live /\ twitch'.refreshable = twitch.refreshable
      /\ twitch'.next = twitch.next /\ twitch'.subs = twitch.subs BY <1>1,<1>2 DEF Outside
<1>4. ManagerTypes' /\ Manager'
 <2>1. CASE o = "failed"
  <3>1. UNCHANGED <<config, recovery, channelAlarm>> BY <2>1 DEF Chan!failedNotice
  <3> QED BY <1>1,<1>2,<1>3,<3>1, SameManager DEF Manager, ManagerTypes, ChannelTypes
 <2>2. CASE o # "failed"
  <3>1. Chan!queueRecovery(same) BY <2>2 DEF Chan!failedNotice
  <3> QED BY <1>1,<1>2,<1>3,<3>1, RecoveryIs
 <2> QED BY <2>1,<2>2
<1>5. TokensKept BY <1>2,<1>3, UntouchedKept DEF Untouched
<1>6. Held' BY <1>1,<1>2,<1>3,<1>5, SameHeld
<1>7. Handlers' BY <1>1,<1>2, SameHandlers
<1>8. FlowsOnce' BY <1>1,<1>2, SameFlows
<1>9. ChannelTypes' BY <1>1,<1>2,<1>3,<1>4 DEF ChannelTypes, ManagerTypes
<1> QED BY <1>4,<1>6,<1>7,<1>8,<1>9, Together

-----------------------------------------------------------------------------
(* The changes an operation asks of Twitch                                  *)

LEMMA Concatenated ==
  ASSUME NEW S, NEW s \in Seq(S), NEW t \in Seq(S)
  PROVE  /\ s \o t \in Seq(S) /\ Len(s \o t) = Len(s) + Len(t)
         /\ \A j \in DOMAIN s : (s \o t)[j] = s[j] /\ j \in DOMAIN (s \o t)
         /\ \A j \in DOMAIN t : (s \o t)[Len(s) + j] = t[j] /\ Len(s) + j \in DOMAIN (s \o t)
         /\ \A j \in DOMAIN (s \o t) : \/ j \in DOMAIN s /\ (s \o t)[j] = s[j]
                                       \/ j > Len(s) /\ j - Len(s) \in DOMAIN t /\ (s \o t)[j] = t[j - Len(s)]
OBVIOUS

About(s, k) == \A j \in DOMAIN s : s[j][2] = k

LEMMA OrderlyTogether ==
  ASSUME NEW k, NEW l, k # l, NEW s \in Seq(Change), NEW t \in Seq(Change),
         About(s, k), About(t, l), Orderly(s), Orderly(t)
  PROVE  Orderly(s \o t)
<1> DEFINE u == s \o t
<1>1. /\ u \in Seq(Change) /\ Len(u) = Len(s) + Len(t) /\ Len(s) \in Nat /\ Len(t) \in Nat
      /\ \A j \in DOMAIN s : u[j] = s[j] /\ j \in DOMAIN u
      /\ \A j \in DOMAIN t : u[Len(s) + j] = t[j] /\ Len(s) + j \in DOMAIN u
      /\ \A j \in DOMAIN u : \/ j \in DOMAIN s /\ u[j] = s[j]
                             \/ j > Len(s) /\ j - Len(s) \in DOMAIN t /\ u[j] = t[j - Len(s)] BY Concatenated
<1>2. DOMAIN s = 1 .. Len(s) /\ DOMAIN t = 1 .. Len(t) /\ DOMAIN u = 1 .. Len(u) BY <1>1
<1> HIDE DEF u
<1>3. ASSUME NEW j \in DOMAIN u, u[j][1] = "create"
      PROVE  /\ u[j][2] \in Chan!Kinds /\ (twitch.subs[u[j][2]] = {} \/ Deletes(u, u[j][2], j - 1))
             /\ \A n \in DOMAIN u : n > j => u[n][2] # u[j][2]
 <2>1. CASE j \in DOMAIN s /\ u[j] = s[j]
  <3>1. /\ s[j][2] \in Chan!Kinds /\ (twitch.subs[s[j][2]] = {} \/ Deletes(s, s[j][2], j - 1))
        /\ \A n \in DOMAIN s : n > j => s[n][2] # s[j][2] BY <1>3,<2>1 DEF Orderly
  <3>2. Deletes(s, s[j][2], j - 1) => Deletes(u, s[j][2], j - 1)
   <4>1. ASSUME NEW n \in 1 .. j - 1, s[n][1] = "delete", s[n][2] = s[j][2]
         PROVE  u[n][1] = "delete" /\ u[n][2] = s[j][2]
    <5>1. n \in DOMAIN s BY <1>1,<1>2,<2>1
    <5> QED BY <1>1,<4>1,<5>1
   <4> QED BY <4>1 DEF Deletes
  <3>3. ASSUME NEW n \in DOMAIN u, n > j PROVE u[n][2] # s[j][2]
   <4>1. CASE n \in DOMAIN s /\ u[n] = s[n] BY <3>1,<3>3,<4>1
   <4>2. CASE n - Len(s) \in DOMAIN t /\ u[n] = t[n - Len(s)] BY <2>1,<4>2 DEF About
   <4> QED BY <1>1,<3>3,<4>1,<4>2
  <3> QED BY <2>1,<3>1,<3>2,<3>3
 <2>2. CASE j > Len(s) /\ j - Len(s) \in DOMAIN t /\ u[j] = t[j - Len(s)]
  <3> DEFINE i == j - Len(s)
  <3>1. /\ t[i][2] \in Chan!Kinds /\ (twitch.subs[t[i][2]] = {} \/ Deletes(t, t[i][2], i - 1))
        /\ \A n \in DOMAIN t : n > i => t[n][2] # t[i][2] BY <1>3,<2>2 DEF Orderly
  <3>2. Deletes(t, t[i][2], i - 1) => Deletes(u, t[i][2], j - 1)
   <4>1. ASSUME NEW n \in 1 .. i - 1, t[n][1] = "delete", t[n][2] = t[i][2]
         PROVE  Len(s) + n \in 1 .. j - 1 /\ u[Len(s) + n][1] = "delete" /\ u[Len(s) + n][2] = t[i][2]
    <5>1. n \in DOMAIN t /\ Len(s) + n \in 1 .. j - 1 BY <1>1,<1>2,<2>2
    <5> QED BY <1>1,<4>1,<5>1
   <4> QED BY <4>1 DEF Deletes
  <3>3. ASSUME NEW n \in DOMAIN u, n > j PROVE u[n][2] # t[i][2]
   <4>1. n - Len(s) \in DOMAIN t /\ u[n] = t[n - Len(s)] /\ n - Len(s) > i BY <1>1,<1>2,<2>2,<3>3
   <4> QED BY <3>1,<4>1
  <3> QED BY <2>2,<3>1,<3>2,<3>3
 <2> QED BY <1>1,<2>1,<2>2
<1> QED BY <1>3 DEF Orderly, u

\* What is asked about one subscription.
LEMMA ChangesAre ==
  ASSUME ChannelTypes, Subscribed, NEW k \in Types
  PROVE  /\ Chan!Changes("ensure", k) \in Seq(Change) /\ About(Chan!Changes("ensure", k), k)
         /\ Chan!Changes("remove", k) \in Seq(Change)
         /\ k \in Chan!Kinds => Orderly(Chan!Changes("ensure", k))
         /\ \A j \in DOMAIN Chan!Changes("remove", k) : Chan!Changes("remove", k)[j][1] = "delete"
         /\ twitch.subs[k] # {} => Deletes(Chan!Changes("remove", k), k, Len(Chan!Changes("remove", k)))
<1> DEFINE none == <<>>
           make == <<<<"create", k, "healthy">>>>
           drop(x) == <<<<"delete", k, x>>>>
           both == <<<<"delete", k, "stale">>, <<"create", k, "healthy">>>>
<1>1. twitch.subs[k] \in {{}, {"healthy"}, {"stale"}} BY DEF Subscribed
<1>2. /\ none \o none = none /\ none \o make = make /\ none \o drop("stale") = drop("stale")
      /\ drop("healthy") \o none = drop("healthy") /\ drop("stale") \o make = both
      /\ drop("stale") \o none = drop("stale") /\ make \o none = make
 <2>1. \A x : <<x>> \o <<>> = <<x>> /\ <<>> \o <<x>> = <<x>> OBVIOUS
 <2>2. ASSUME NEW x, NEW y PROVE <<x>> \o <<y>> = <<x, y>>
  <3> DEFINE u == <<x>> \o <<y>>
             v == <<x, y>>
  <3>1. u \in Seq({x, y}) /\ Len(u) = 2 /\ u[1] = x /\ u[2] = y
   <4>1. <<x>> \in Seq({x, y}) /\ <<y>> \in Seq({x, y}) OBVIOUS
   <4> QED BY <4>1
  <3>2. v \in Seq({x, y}) /\ Len(v) = 2 /\ v[1] = x /\ v[2] = y OBVIOUS
  <3> HIDE DEF u, v
  <3>3. DOMAIN u = 1 .. 2 /\ DOMAIN v = 1 .. 2 BY <3>1,<3>2
  <3>4. u = [i \in 1 .. 2 |-> u[i]] /\ v = [i \in 1 .. 2 |-> v[i]] BY <3>1,<3>2,<3>3
  <3>5. \A i \in 1 .. 2 : u[i] = v[i] BY <3>1,<3>2
  <3>6. u = v BY <3>4,<3>5
  <3> QED BY <3>6 DEF u, v
 <2>3. <<>> \o <<>> = <<>> OBVIOUS
 <2> QED BY <2>1,<2>2,<2>3
<1>3. /\ <<"create", k, "healthy">> \in Change /\ <<"delete", k, "healthy">> \in Change
      /\ <<"delete", k, "stale">> \in Change BY DEF Change
<1>4. /\ make \in Seq(Change) /\ both \in Seq(Change) /\ none \in Seq(Change)
      /\ drop("healthy") \in Seq(Change) /\ drop("stale") \in Seq(Change) BY <1>3
<1>5. About(none, k) /\ About(make, k) /\ About(both, k) BY DEF About
<1>6. CASE twitch.subs[k] = {}
 <2>1. Chan!Changes("ensure", k) = make /\ Chan!Changes("remove", k) = none
  BY <1>2,<1>6 DEF Chan!Changes, Chan!ensureSubscriptions, Chan!removeSubscriptions, Chan!Deletions, Chan!If,
     Chan!Healthy
 <2>2. k \in Chan!Kinds => Orderly(make)
  <3>1. DOMAIN make = {1} /\ make[1][1] = "create" /\ make[1][2] = k OBVIOUS
  <3> HIDE DEF make
  <3> QED BY <1>6,<3>1 DEF Orderly
 <2>3. DOMAIN none = {} OBVIOUS
 <2> HIDE DEF none, make, drop, both
 <2> QED BY <1>4,<1>5,<1>6,<2>1,<2>2,<2>3
<1>7. CASE twitch.subs[k] = {"healthy"}
 <2>1. Chan!Changes("ensure", k) = none /\ Chan!Changes("remove", k) = drop("healthy")
  BY <1>2,<1>7 DEF Chan!Changes, Chan!ensureSubscriptions, Chan!removeSubscriptions, Chan!Deletions, Chan!If,
     Chan!Healthy
 <2>2. Orderly(none) BY DEF Orderly
 <2>3. /\ DOMAIN drop("healthy") = {1} /\ Len(drop("healthy")) = 1
       /\ drop("healthy")[1][1] = "delete" /\ drop("healthy")[1][2] = k OBVIOUS
 <2> HIDE DEF none, make, drop, both
 <2>4. Deletes(drop("healthy"), k, Len(drop("healthy"))) BY <2>3 DEF Deletes
 <2> QED BY <1>4,<1>5,<2>1,<2>2,<2>3,<2>4
<1>8. CASE twitch.subs[k] = {"stale"}
 <2>1. Chan!Changes("ensure", k) = both /\ Chan!Changes("remove", k) = drop("stale")
  BY <1>2,<1>8 DEF Chan!Changes, Chan!ensureSubscriptions, Chan!removeSubscriptions, Chan!Deletions, Chan!If,
     Chan!Healthy
 <2>2. k \in Chan!Kinds => Orderly(both)
  <3>1. /\ DOMAIN both = {1, 2} /\ both[1][1] = "delete" /\ both[1][2] = k
        /\ both[2][1] = "create" /\ both[2][2] = k OBVIOUS
  <3> HIDE DEF both
  <3>2. Deletes(both, k, 2 - 1) BY <3>1 DEF Deletes
  <3> QED BY <3>1,<3>2 DEF Orderly
 <2>3. /\ DOMAIN drop("stale") = {1} /\ Len(drop("stale")) = 1
       /\ drop("stale")[1][1] = "delete" /\ drop("stale")[1][2] = k OBVIOUS
 <2> HIDE DEF none, make, drop, both
 <2>4. Deletes(drop("stale"), k, Len(drop("stale"))) BY <2>3 DEF Deletes
 <2> QED BY <1>4,<1>5,<2>1,<2>2,<2>3,<2>4
<1> QED BY <1>1,<1>6,<1>7,<1>8

LEMMA MutationsAre ==
  ASSUME ChannelSettings, ChannelTypes, Subscribed
  PROVE  /\ Chan!Mutations("ensure") \in Seq(Change) /\ Orderly(Chan!Mutations("ensure"))
         /\ Chan!Mutations("remove") \in Seq(Change) /\ Emptying(Chan!Mutations("remove"))
<1>1. setting.kinds \in {<<"chat">>} \cup {<<"chat", k>> : k \in Types \ {"chat"}} /\ "chat" \in Types
 BY Constants DEF ChannelTypes
<1>2. CASE setting.kinds = <<"chat">>
 <2>1. Len(setting.kinds) # 2 /\ setting.kinds[1] = "chat" /\ Chan!Kinds = {"chat"} BY <1>2 DEF Chan!Kinds
 <2>2. \A S, s : s \in Seq(S) => s \o <<>> = s OBVIOUS
 <2>3. Chan!Mutations("ensure") = Chan!Changes("ensure", "chat") /\ Chan!Mutations("remove") = Chan!Changes("remove", "chat")
  BY <1>1,<2>1,<2>2, ChangesAre DEF Chan!Mutations
 <2>4. \A k \in Types : twitch.subs[k] # {} => k = "chat" BY <2>1 DEF Subscribed
 <2> QED BY <1>1,<2>1,<2>3,<2>4, ChangesAre DEF Emptying
<1>3. ASSUME NEW l \in Types \ {"chat"}, setting.kinds = <<"chat", l>>
      PROVE  /\ Chan!Mutations("ensure") \in Seq(Change) /\ Orderly(Chan!Mutations("ensure"))
             /\ Chan!Mutations("remove") \in Seq(Change) /\ Emptying(Chan!Mutations("remove"))
 <2>1. Len(setting.kinds) = 2 /\ setting.kinds[1] = "chat" /\ setting.kinds[2] = l /\ Chan!Kinds = {"chat", l}
  BY <1>3 DEF Chan!Kinds
 <2>2. /\ Chan!Mutations("ensure") = Chan!Changes("ensure", "chat") \o Chan!Changes("ensure", l)
       /\ Chan!Mutations("remove") = Chan!Changes("remove", "chat") \o Chan!Changes("remove", l)
  BY <2>1 DEF Chan!Mutations
 <2> DEFINE s == Chan!Changes("remove", "chat")
            t == Chan!Changes("remove", l)
            u == s \o t
 <2>3. /\ s \in Seq(Change) /\ t \in Seq(Change)
       /\ \A j \in DOMAIN s : s[j][1] = "delete"
       /\ \A j \in DOMAIN t : t[j][1] = "delete"
       /\ twitch.subs["chat"] # {} => Deletes(s, "chat", Len(s))
       /\ twitch.subs[l] # {} => Deletes(t, l, Len(t)) BY <1>1, ChangesAre
 <2> HIDE DEF s, t
 <2>4. /\ u \in Seq(Change) /\ Len(u) = Len(s) + Len(t) /\ Len(s) \in Nat /\ Len(t) \in Nat
       /\ \A j \in DOMAIN s : u[j] = s[j] /\ j \in DOMAIN u
       /\ \A j \in DOMAIN t : u[Len(s) + j] = t[j] /\ Len(s) + j \in DOMAIN u
       /\ \A j \in DOMAIN u : \/ j \in DOMAIN s /\ u[j] = s[j]
                              \/ j > Len(s) /\ j - Len(s) \in DOMAIN t /\ u[j] = t[j - Len(s)]
  BY <2>3, Concatenated
 <2>5. DOMAIN s = 1 .. Len(s) /\ DOMAIN t = 1 .. Len(t) /\ DOMAIN u = 1 .. Len(u) BY <2>3,<2>4
 <2> HIDE DEF u
 <2>6. \A j \in DOMAIN u : u[j][1] = "delete" BY <2>3,<2>4
 <2>7. ASSUME NEW k, Deletes(s, k, Len(s)) PROVE Deletes(u, k, Len(u))
  <3>1. PICK n \in 1 .. Len(s) : s[n][1] = "delete" /\ s[n][2] = k BY <2>7 DEF Deletes
  <3>2. n \in 1 .. Len(u) /\ u[n] = s[n] BY <2>4,<2>5,<3>1
  <3> QED BY <3>1,<3>2 DEF Deletes
 <2>8. ASSUME NEW k, Deletes(t, k, Len(t)) PROVE Deletes(u, k, Len(u))
  <3>1. PICK n \in 1 .. Len(t) : t[n][1] = "delete" /\ t[n][2] = k BY <2>8 DEF Deletes
  <3>2. Len(s) + n \in 1 .. Len(u) /\ u[Len(s) + n] = t[n] BY <2>4,<2>5,<3>1
  <3> QED BY <3>1,<3>2 DEF Deletes
 <2>9. \A k \in Types : twitch.subs[k] # {} => k \in {"chat", l} BY <2>1 DEF Subscribed
 <2>10. Emptying(u) BY <2>3,<2>6,<2>7,<2>8,<2>9 DEF Emptying
 <2>11. Chan!Mutations("ensure") \in Seq(Change) /\ Orderly(Chan!Mutations("ensure"))
  <3> DEFINE e == Chan!Changes("ensure", "chat")
             f == Chan!Changes("ensure", l)
  <3>1. /\ e \in Seq(Change) /\ f \in Seq(Change) /\ About(e, "chat") /\ About(f, l)
        /\ Orderly(e) /\ Orderly(f) /\ "chat" # l BY <1>1,<2>1, ChangesAre
  <3> HIDE DEF e, f
  <3>2. e \o f \in Seq(Change) BY <3>1
  <3>3. Orderly(e \o f) BY <3>1, OrderlyTogether
  <3> QED BY <2>2,<3>2,<3>3 DEF e, f
 <2> QED BY <2>2,<2>4,<2>10,<2>11 DEF u, s, t
<1> QED BY <1>1,<1>2,<1>3

-----------------------------------------------------------------------------
(* The alarm of the manager                                                 *)

\* A step of the manager and the service alone.
LEMMA ManagerAlone ==
  ASSUME ChannelSettings, CInv, UNCHANGED <<setting, flow, auth, authAlarm, call>>, ManagerTypes', run' \in Run,
         queue' \in Seq(Service), twitch' \in Outside, history' \in Record, Untouched,
         history'.uses = history.uses, Desired', Queued', Subscribed'
  PROVE  CInv'
<1>1. ChannelTypes' BY DEF CInv, ChannelTypes, ManagerTypes
<1>2. Handlers' BY SameHandlers DEF CInv
<1>3. FlowsOnce' BY SameFlows DEF CInv
<1>4. Held' BY SameHeld, UntouchedKept DEF CInv
<1> QED BY <1>1,<1>2,<1>3,<1>4 DEF CInv

\* What Orderly and Emptying will say of what is left.
NextOrderly(todo) ==
  \A j \in DOMAIN todo :
    todo[j][1] = "create" =>
      /\ todo[j][2] \in Chan!Kinds' /\ (twitch'.subs[todo[j][2]] = {} \/ Deletes(todo, todo[j][2], j - 1))
      /\ \A n \in DOMAIN todo : n > j => todo[n][2] # todo[j][2]
NextEmptying(todo) ==
  /\ \A j \in DOMAIN todo : todo[j][1] = "delete"
  /\ \A k \in Types : twitch'.subs[k] # {} => Deletes(todo, k, Len(todo))

LEMMA NextSubscribed ==
  ASSUME \A k \in Types : twitch'.subs[k] \in {{}, {"healthy"}, {"stale"}} /\ (twitch'.subs[k] # {} => k \in Chan!Kinds'),
         \A i \in DOMAIN queue' : queue'[i].listed =>
            IF queue'[i].kind = "ensure" THEN NextOrderly(queue'[i].todo) ELSE NextEmptying(queue'[i].todo),
         run'.step = "write" /\ run'.config.state = "disabled" => NoneLeft',
         config'.last = "deconfigured" =>
           config'.state = "disabled" /\ ~channelAlarm' /\ run'.step = "idle" /\ queue' = <<>> /\ NoneLeft'
  PROVE  Subscribed'
BY DEF Subscribed, NextOrderly, NextEmptying, Orderly, Emptying, Deletes

LEMMA SameLists ==
  ASSUME setting' = setting, twitch'.subs = twitch.subs
  PROVE  /\ Chan!Kinds' = Chan!Kinds /\ (NoneLeft' <=> NoneLeft)
         /\ \A todo : (NextOrderly(todo) <=> Orderly(todo)) /\ (NextEmptying(todo) <=> Emptying(todo))
<1>1. Chan!Kinds' = Chan!Kinds /\ (NoneLeft' <=> NoneLeft) BY DEF Chan!Kinds, NoneLeft
<1> QED BY <1>1 DEF Orderly, Emptying, NextOrderly, NextEmptying

\* What the manager writes while no operation is queued.
LEMMA Written ==
  ASSUME ChannelTypes, Desired, Queued, run.step \in {"register", "write", "failed"}
  PROVE  /\ queue = <<>> /\ DOMAIN queue = {} /\ run.config \in Chan!Configs /\ run.config.last # "deconfigured"
         /\ run.config.state \in {"enabled", "disabled"} /\ run.result \in {"none", "healthy", "unknown"}
         /\ run.recovery \in BOOLEAN /\ recovery \in BOOLEAN
<1>1. queue = <<>> /\ run \in Run /\ recovery \in BOOLEAN BY DEF Queued, ChannelTypes
<1>2. run.config.state # "none" /\ run.config.last # "deconfigured" BY DEF Desired
<1> QED BY <1>1,<1>2 DEF Run, Chan!Configs

\* The alarm ends: its configuration is stored.
LEMMA AlarmWrites ==
  ASSUME ChannelSettings, CInv, UNCHANGED <<queue, Chan!outside, auth, authAlarm, call>>,
         run.step \in {"write", "failed"}, run' = Chan!NoRun,
         ManagerTypes', Chan!Note([overwritten |-> history.overwritten \/ Chan!Stale]),
         config'.state = "enabled" => channelAlarm',
         recovery' => config'.state = "enabled" \/ (config'.state = "disabled" /\ config'.last = "error"
                                                    /\ (history.overwritten \/ Chan!Stale)),
         config'.last = "deconfigured" => config'.state = "disabled" /\ ~channelAlarm' /\ NoneLeft
  PROVE  CInv'
<1>1. ChannelTypes /\ Desired /\ Queued /\ Subscribed /\ history \in Record /\ twitch \in Outside
 BY DEF CInv, ChannelTypes
<1>2. queue = <<>> /\ DOMAIN queue = {} BY <1>1, Written
<1>3. /\ history' \in Record /\ history'.overwritten = (history.overwritten \/ Chan!Stale)
      /\ history'.ended = history.ended /\ history'.unjust = history.unjust /\ history'.uses = history.uses
 <2>1. (history.overwritten \/ Chan!Stale) \in BOOLEAN BY <1>1 DEF Record, Chan!Stale
 <2>2. history' = [history EXCEPT !.overwritten = history.overwritten \/ Chan!Stale] /\ history' \in Record
  BY <1>1,<2>1, NoteOverwritten
 <2> QED BY <1>1,<2>2 DEF Record
<1>4. /\ Chan!NoRun \in Run /\ Chan!NoRun.step = "idle" /\ Chan!NoRun.recovery = FALSE /\ Chan!NoRun.config.state = "none"
      /\ Chan!NoRun.config.last = "none" BY EmptyRecords DEF Chan!NoRun, Chan!NoConfig
<1>5. Desired' BY <1>3,<1>4 DEF Desired
<1>6. Queued' BY <1>2,<1>4 DEF Queued
<1>7. Subscribed'
 <2>1. setting' = setting /\ twitch' = twitch BY DEF Chan!outside
 <2>2. Chan!Kinds' = Chan!Kinds /\ (NoneLeft' <=> NoneLeft) BY <2>1, SameLists
 <2>3. \A k \in Types : twitch'.subs[k] \in {{}, {"healthy"}, {"stale"}} /\ (twitch'.subs[k] # {} => k \in Chan!Kinds')
  BY <1>1,<2>1,<2>2 DEF Subscribed
 <2> QED BY <1>2,<1>4,<2>2,<2>3 DEF Subscribed
<1>8. Untouched BY <1>3 DEF Untouched, Chan!outside
<1>9. queue' \in Seq(Service) /\ twitch' \in Outside /\ UNCHANGED <<setting, flow, auth, authAlarm, call>>
 BY <1>1 DEF Chan!outside, ChannelTypes
<1>10. run' \in Run BY <1>4
<1> QED BY <1>3,<1>5,<1>6,<1>7,<1>8,<1>9,<1>10, ManagerAlone

LEMMA SettlesKeeps ==
  ASSUME ChannelSettings, CInv, Chan!alarmSettles
  PROVE  CInv'
<1>1. ChannelTypes /\ Desired /\ Queued /\ Subscribed BY DEF CInv
<1>2. /\ run.step = "write" /\ run' = Chan!NoRun /\ Chan!Note([overwritten |-> history.overwritten \/ Chan!Stale])
      /\ UNCHANGED <<queue, Chan!outside, auth, authAlarm, call>> BY DEF Chan!alarmSettles
<1>3. /\ run.config \in Chan!Configs /\ run.config.last # "deconfigured" /\ run.config.state \in {"enabled", "disabled"}
      /\ run.result \in {"none", "healthy", "unknown"} /\ run.recovery \in BOOLEAN /\ recovery \in BOOLEAN
 BY <1>1,<1>2, Written
<1>4. CASE run.config.state = "disabled"
 <2>1. config' = [run.config EXCEPT !.last = "deconfigured"] /\ recovery' = FALSE /\ channelAlarm' = FALSE
  BY <1>2,<1>4 DEF Chan!alarmSettles
 <2>2. config' \in Chan!Configs /\ config'.state = "disabled" /\ config'.last = "deconfigured"
  BY <1>3,<1>4,<2>1 DEF Chan!Configs
 <2>3. NoneLeft BY <1>1,<1>2,<1>4 DEF Subscribed
 <2>4. ManagerTypes' BY <2>1,<2>2 DEF ManagerTypes
 <2> QED BY <1>2,<2>1,<2>2,<2>3,<2>4, AlarmWrites
<1>5. CASE run.config.state # "disabled"
 <2>1. config' = [run.config EXCEPT !.last = "settled", !.status = run.result]
       /\ recovery' = (recovery /\ ~run.recovery) /\ channelAlarm' = TRUE BY <1>2,<1>5 DEF Chan!alarmSettles
 <2>2. config' \in Chan!Configs /\ config'.state = "enabled" /\ config'.last = "settled"
  BY <1>3,<1>5,<2>1 DEF Chan!Configs
 <2>3. ManagerTypes' BY <1>3,<2>1,<2>2 DEF ManagerTypes
 <2> QED BY <1>2,<2>1,<2>2,<2>3, AlarmWrites
<1> QED BY <1>4,<1>5

LEMMA RetriesKeeps ==
  ASSUME ChannelSettings, CInv, Chan!alarmRetries
  PROVE  CInv'
<1>1. ChannelTypes /\ Desired /\ Queued /\ Subscribed BY DEF CInv
<1>2. /\ run.step = "failed" /\ run' = Chan!NoRun /\ Chan!Note([overwritten |-> history.overwritten \/ Chan!Stale])
      /\ config' = [run.config EXCEPT !.last = "error"] /\ recovery' = (recovery \/ run.recovery) /\ channelAlarm' = TRUE
      /\ UNCHANGED <<queue, Chan!outside, auth, authAlarm, call>> BY DEF Chan!alarmRetries
<1>3. /\ run.config \in Chan!Configs /\ run.config.state \in {"enabled", "disabled"}
      /\ run.recovery \in BOOLEAN /\ recovery \in BOOLEAN BY <1>1,<1>2, Written
<1>4. config' \in Chan!Configs /\ config'.state = run.config.state /\ config'.last = "error"
 BY <1>2,<1>3 DEF Chan!Configs
<1>5. ManagerTypes' BY <1>2,<1>3,<1>4 DEF ManagerTypes
<1>6. recovery' => config'.state = "enabled" \/ (config'.state = "disabled" /\ config'.last = "error"
                                                  /\ (history.overwritten \/ Chan!Stale))
 <2>1. CASE recovery BY <1>1,<1>3,<1>4,<2>1 DEF Desired, Chan!Stale
 <2>2. CASE run.recovery BY <1>1,<1>3,<1>4,<2>2 DEF Desired, Chan!Stale
 <2> QED BY <1>2,<2>1,<2>2
<1> QED BY <1>2,<1>4,<1>5,<1>6, AlarmWrites

LEMMA RegistersKeeps ==
  ASSUME ChannelSettings, CInv, NEW o \in Chan!Outcomes, Chan!alarmRegisters(o)
  PROVE  CInv'
<1> DEFINE over == history.overwritten \/ (o # "failed" /\ Chan!Stale)
           step == IF o = "done" THEN "write" ELSE "failed"
<1>1. ChannelTypes /\ Desired /\ Queued /\ Subscribed /\ history \in Record /\ twitch \in Outside /\ run \in Run
 BY DEF CInv, ChannelTypes
<1>2. /\ run.step = "register" /\ run' = [run EXCEPT !.step = step] /\ Chan!Note([overwritten |-> over])
      /\ UNCHANGED <<auth, authAlarm, call, config, recovery, channelAlarm, queue, Chan!outside>>
 BY DEF Chan!alarmRegisters
<1>3. queue = <<>> /\ DOMAIN queue = {} BY <1>1,<1>2, Written
<1>4. over \in BOOLEAN /\ (history.overwritten => over) BY <1>1 DEF Record, Chan!Stale
<1> HIDE DEF over
<1>5. /\ history' \in Record /\ history'.overwritten = over
      /\ history'.ended = history.ended /\ history'.unjust = history.unjust /\ history'.uses = history.uses
 <2>1. history' = [history EXCEPT !.overwritten = over] /\ history' \in Record BY <1>1,<1>2,<1>4, NoteOverwritten
 <2> QED BY <1>1,<2>1 DEF Record
<1>6. step \in {"write", "failed"} OBVIOUS
<1> HIDE DEF step
<1>7. /\ run' \in Run /\ run'.step = step /\ run'.config = run.config /\ run'.recovery = run.recovery
 BY <1>1,<1>2,<1>6 DEF Run
<1>8. run.config.state = "enabled" BY <1>1,<1>2 DEF Desired
<1>9. Desired' BY <1>1,<1>2,<1>4,<1>5,<1>6,<1>7,<1>8 DEF Desired
<1>10. Queued' BY <1>2,<1>3,<1>6,<1>7 DEF Queued
<1>11. Subscribed'
 <2>1. setting' = setting /\ twitch' = twitch BY <1>2 DEF Chan!outside
 <2>2. Chan!Kinds' = Chan!Kinds BY <2>1, SameLists
 <2>3. \A k \in Types : twitch'.subs[k] \in {{}, {"healthy"}, {"stale"}} /\ (twitch'.subs[k] # {} => k \in Chan!Kinds')
  BY <1>1,<2>1,<2>2 DEF Subscribed
 <2>4. config'.last # "deconfigured" BY <1>1,<1>2 DEF Subscribed
 <2> QED BY <1>2,<1>3,<1>7,<1>8,<2>3,<2>4 DEF Subscribed
<1>12. Untouched /\ ManagerTypes' BY <1>1,<1>2,<1>5 DEF Untouched, Chan!outside, ManagerTypes, ChannelTypes
<1>13. queue' \in Seq(Service) /\ twitch' \in Outside /\ UNCHANGED <<setting, flow, auth, authAlarm, call>>
 BY <1>1,<1>2 DEF Chan!outside, ChannelTypes
<1> QED BY <1>5,<1>7,<1>9,<1>10,<1>11,<1>12,<1>13, ManagerAlone

LEMMA BeginsKeeps ==
  ASSUME ChannelSettings, CInv, Chan!alarmBegins
  PROVE  CInv'
<1> DEFINE kind == IF config.state = "disabled" THEN "remove" ELSE "ensure"
           op == Chan!Operation(kind, TRUE)
           r == [Chan!NoRun EXCEPT !.step = "service", !.config = config, !.recovery = recovery]
<1>1. /\ ChannelTypes /\ Desired /\ Queued /\ Subscribed /\ history \in Record /\ twitch \in Outside
      /\ queue \in Seq(Service) /\ config \in Chan!Configs /\ recovery \in BOOLEAN BY DEF CInv, ChannelTypes
<1>2. /\ channelAlarm /\ run.step = "idle" /\ config.state # "none" /\ channelAlarm' = FALSE /\ run' = r /\ queue' = Append(queue, op)
      /\ UNCHANGED <<auth, authAlarm, call, config, recovery, history, Chan!outside>> BY DEF Chan!alarmBegins
<1>3. r \in Run /\ r.step = "service" /\ r.config = config /\ r.recovery = recovery BY <1>1 DEF Run, Chan!NoRun
<1>4. <<>> \in Seq(Change) OBVIOUS
<1>5. op \in Service /\ op.waiting = TRUE /\ op.listed = FALSE /\ op.todo = <<>> /\ op.kind = kind
 BY <1>4 DEF Chan!Operation, Service
<1> HIDE DEF op, r
<1>6. /\ queue' \in Seq(Service) /\ Len(queue') = Len(queue) + 1 /\ queue'[Len(queue) + 1] = op /\ queue' # <<>>
      /\ \A i \in DOMAIN queue' : (i \in DOMAIN queue /\ queue'[i] = queue[i]) \/ i = Len(queue) + 1
      /\ Len(queue) \in Nat
      /\ DOMAIN queue = 1 .. Len(queue) BY <1>1,<1>2,<1>5
<1>7. \A i \in DOMAIN queue : ~queue[i].waiting
 <2>1. ASSUME NEW i \in DOMAIN queue, queue[i].waiting PROVE FALSE
  <3>1. i = Len(queue) BY <1>1,<2>1 DEF Queued
  <3>2. queue # <<>> BY <2>1
  <3> QED BY <1>1,<1>2,<2>1,<3>1,<3>2 DEF Queued
 <2> QED BY <2>1
<1>8. config.last # "deconfigured" BY <1>1,<1>2 DEF Subscribed
<1>9. Desired' BY <1>1,<1>2,<1>3,<1>8 DEF Desired
<1>10. Queued'
 <2>1. Wanted' = kind BY <1>2,<1>3 DEF Wanted
 <2>2. ASSUME NEW i \in DOMAIN queue'
       PROVE  /\ queue'[i].waiting => i = Len(queue') /\ queue'[i].kind = Wanted'
              /\ ~queue'[i].listed => queue'[i].todo = <<>>
              /\ i # 1 => ~queue'[i].listed
  <3>1. CASE i \in DOMAIN queue /\ queue'[i] = queue[i] BY <1>1,<1>7,<3>1 DEF Queued
  <3>2. CASE i = Len(queue) + 1 BY <1>5,<1>6,<2>1,<3>2
  <3> QED BY <1>6,<3>1,<3>2
 <2>3. run'.step = "service" /\ queue' # <<>> /\ queue'[Len(queue')].waiting BY <1>2,<1>3,<1>5,<1>6
 <2> QED BY <2>2,<2>3 DEF Queued
<1>11. Subscribed'
 <2>1. setting' = setting /\ twitch' = twitch BY <1>2 DEF Chan!outside
 <2>2. Chan!Kinds' = Chan!Kinds /\ \A todo : (NextOrderly(todo) <=> Orderly(todo)) /\ (NextEmptying(todo) <=> Emptying(todo))
  BY <2>1, SameLists
 <2>3. \A k \in Types : twitch'.subs[k] \in {{}, {"healthy"}, {"stale"}} /\ (twitch'.subs[k] # {} => k \in Chan!Kinds')
  BY <1>1,<2>1,<2>2 DEF Subscribed
 <2>4. ASSUME NEW i \in DOMAIN queue', queue'[i].listed
       PROVE  IF queue'[i].kind = "ensure" THEN NextOrderly(queue'[i].todo) ELSE NextEmptying(queue'[i].todo)
  <3>1. i \in DOMAIN queue /\ queue'[i] = queue[i] BY <1>5,<1>6,<2>4
  <3> QED BY <1>1,<2>2,<2>4,<3>1 DEF Subscribed
 <2>5. config'.last # "deconfigured" /\ run'.step # "write" BY <1>2,<1>3,<1>8
 <2> QED BY <2>3,<2>4,<2>5, NextSubscribed
<1>12. Untouched /\ ManagerTypes' BY <1>1,<1>2 DEF Untouched, Chan!outside, ManagerTypes, ChannelTypes
<1>13. twitch' \in Outside /\ history' \in Record /\ history'.uses = history.uses
       /\ UNCHANGED <<setting, flow, auth, authAlarm, call>> /\ run' \in Run BY <1>1,<1>2,<1>3 DEF Chan!outside
<1> QED BY <1>6,<1>9,<1>10,<1>11,<1>12,<1>13, ManagerAlone

-----------------------------------------------------------------------------
(* The service                                                              *)

LEMMA FirstRemoved ==
  ASSUME NEW S, NEW s \in Seq(S), s # <<>>
  PROVE  Chan!RemoveAt(s, 1) = Tail(s)
<1>1. SubSeq(s, 1, 1 - 1) = <<>>
 <2>1. 1 - 1 = 0 OBVIOUS
 <2>2. SubSeq(s, 1, 0) = <<>> BY SubSeqEmpty
 <2> QED BY <2>1,<2>2
<1>2. SubSeq(s, 1 + 1, Len(s)) = Tail(s) OBVIOUS
<1>3. \A t \in Seq(S) : <<>> \o t = t OBVIOUS
<1>4. Tail(s) \in Seq(S) OBVIOUS
<1> QED BY <1>1,<1>2,<1>3,<1>4 DEF Chan!RemoveAt

LEMMA RunningIs ==
  ASSUME ChannelTypes, NEW i \in Chan!Running
  PROVE  i = 1 /\ queue # <<>> /\ 1 \in DOMAIN queue /\ queue[1] \in Service
BY DEF Chan!Running, ChannelTypes

\* The first operation ends, and answers a caller that waits.
LEMMA AnswerIs ==
  ASSUME ChannelTypes, Desired, Queued, queue # <<>>, NEW step \in {"register", "write", "failed"}, Chan!Answer(1, step),
         step = "register" => queue[1].kind = "ensure", UNCHANGED <<config, recovery, channelAlarm, history>>
  PROVE  /\ queue' \in Seq(Service) /\ run' \in Run /\ Desired' /\ Queued'
         /\ \A i \in DOMAIN queue' : ~queue'[i].listed
         /\ run' = run \/ (run'.step = step /\ run'.config = run.config /\ queue[1].waiting /\ queue[1].kind = Wanted)
<1>1. queue \in Seq(Service) /\ run \in Run /\ queue[1] \in Service /\ 1 \in DOMAIN queue BY DEF ChannelTypes
<1>2. /\ queue' = Tail(queue)
      /\ run' = IF queue[1].waiting THEN [run EXCEPT !.step = step, !.result = queue[1].status] ELSE run
 <2>1. Chan!RemoveAt(queue, 1) = Tail(queue) BY <1>1, FirstRemoved
 <2> QED BY <2>1 DEF Chan!Answer
<1>3. /\ queue' \in Seq(Service) /\ Len(queue) \in Nat \ {0} /\ Len(queue') = Len(queue) - 1
      /\ \A i \in DOMAIN queue' : queue'[i] = queue[i + 1] /\ i + 1 \in DOMAIN queue /\ i \in Nat /\ i + 1 # 1
      /\ (queue' = <<>> <=> Len(queue) = 1)
 <2>1. Tail(queue) \in Seq(Service) /\ Len(Tail(queue)) = Len(queue) - 1 /\ Len(queue) \in Nat \ {0} BY <1>1
 <2>2. DOMAIN Tail(queue) = 1 .. Len(queue) - 1 /\ DOMAIN queue = 1 .. Len(queue) BY <1>1,<2>1
 <2>3. \A i \in 1 .. Len(queue) - 1 : Tail(queue)[i] = queue[i + 1] BY <1>1
 <2>4. \A i \in 1 .. Len(queue) - 1 : i + 1 \in 1 .. Len(queue) /\ i \in Nat /\ i + 1 # 1 BY <2>1
 <2>5. Tail(queue) = <<>> <=> Len(queue) = 1
  <3> DEFINE t == Tail(queue)
  <3>1. t \in Seq(Service) /\ Len(t) = Len(queue) - 1 /\ Len(queue) \in Nat BY <2>1
  <3> HIDE DEF t
  <3>2. t = <<>> <=> Len(t) = 0 BY <3>1, EmptySeq
  <3> QED BY <3>1,<3>2 DEF t
 <2> QED BY <1>2,<2>1,<2>2,<2>3,<2>4,<2>5
<1>4. \A i \in DOMAIN queue' : ~queue'[i].listed /\ queue'[i].todo = <<>> BY <1>3 DEF Queued
<1>5. CASE queue[1].waiting
 <2>1. Len(queue) = 1 /\ queue[1].kind = Wanted /\ queue' = <<>> BY <1>1,<1>3,<1>5 DEF Queued
 <2>2. run' = [run EXCEPT !.step = step, !.result = queue[1].status] /\ queue[1].status \in {"none", "healthy", "unknown"}
  BY <1>1,<1>2,<1>5 DEF Service
 <2>3. run' \in Run /\ run'.step = step /\ run'.config = run.config /\ run'.recovery = run.recovery
  BY <1>1,<2>2 DEF Run
 <2>4. run.step = "service" BY <1>5,<2>1 DEF Queued
 <2>5. step = "register" => run.config.state = "enabled"
  <3>1. run.config.state \in {"none", "enabled", "disabled"} BY <1>1 DEF Run, Chan!Configs
  <3> QED BY <2>1,<2>4,<3>1 DEF Desired, Wanted
 <2>6. Desired' BY <2>3,<2>4,<2>5 DEF Desired
 <2>7. DOMAIN queue' = {} BY <2>1
 <2>8. Queued' BY <2>1,<2>3,<2>7 DEF Queued
 <2> QED BY <1>3,<1>4,<1>5,<2>1,<2>3,<2>6,<2>8
<1>6. CASE ~queue[1].waiting
 <2>1. run' = run BY <1>2,<1>6
 <2>2. Desired' BY <2>1 DEF Desired
 <2>3. Wanted' = Wanted BY <2>1 DEF Wanted
 <2>4. \A i \in DOMAIN queue' : queue'[i].waiting => i = Len(queue') /\ queue'[i].kind = Wanted'
  BY <1>3,<2>3 DEF Queued
 <2>5. run.step = "service" => queue' # <<>> /\ queue'[Len(queue')].waiting
  <3>1. ASSUME run.step = "service" PROVE queue' # <<>> /\ queue'[Len(queue')].waiting
   <4>1. queue[Len(queue)].waiting /\ Len(queue) # 1 BY <1>6,<3>1 DEF Queued
   <4>2. queue' # <<>> BY <1>3,<4>1
   <4>3. Len(queue') \in DOMAIN queue' /\ Len(queue') + 1 = Len(queue) BY <1>3,<4>2
   <4> QED BY <1>3,<4>1,<4>2,<4>3
  <3> QED BY <3>1
 <2>6. queue' # <<>> /\ queue'[Len(queue')].waiting => run.step = "service"
  <3>1. ASSUME queue' # <<>>, queue'[Len(queue')].waiting PROVE run.step = "service"
   <4>1. Len(queue') \in DOMAIN queue' /\ Len(queue') + 1 = Len(queue) BY <1>3,<3>1
   <4> QED BY <1>3,<3>1,<4>1 DEF Queued
  <3> QED BY <3>1
 <2>7. Queued' BY <1>4,<2>1,<2>4,<2>5,<2>6 DEF Queued
 <2> QED BY <1>1,<1>3,<1>4,<2>1,<2>2,<2>7
<1> QED BY <1>5,<1>6

\* An operation has begun or ended, and the subscriptions of the channel are as they were.
LEMMA ServiceAlone ==
  ASSUME ChannelSettings, CInv, UNCHANGED <<auth, authAlarm, call, config, recovery, channelAlarm, history, Chan!outside>>,
         run' \in Run, queue' \in Seq(Service), Desired', Queued', Subscribed'
  PROVE  CInv'
<1>1. Untouched /\ ManagerTypes' /\ history' \in Record /\ twitch' \in Outside /\ history'.uses = history.uses
 BY DEF CInv, Untouched, Chan!outside, ManagerTypes, ChannelTypes
<1> QED BY <1>1, ManagerAlone DEF Chan!outside

LEMMA MatchingKeeps ==
  ASSUME ChannelSettings, CInv, NEW i \in Chan!Running, NEW o \in Chan!Outcomes, Chan!matchingSubscriptions(i, o)
  PROVE  CInv'
<1>1. /\ ChannelTypes /\ Desired /\ Queued /\ Subscribed /\ queue \in Seq(Service) /\ run \in Run
 BY DEF CInv, ChannelTypes
<1>2. i = 1 /\ queue # <<>> /\ 1 \in DOMAIN queue /\ queue[1] \in Service BY <1>1, RunningIs
<1>3. ~queue[1].listed /\ UNCHANGED <<auth, authAlarm, call, config, recovery, channelAlarm, history, Chan!outside>>
 BY <1>2 DEF Chan!matchingSubscriptions
<1>4. setting' = setting /\ twitch' = twitch BY <1>3 DEF Chan!outside
<1>5. /\ Chan!Kinds' = Chan!Kinds /\ (NoneLeft' <=> NoneLeft)
      /\ \A todo : (NextOrderly(todo) <=> Orderly(todo)) /\ (NextEmptying(todo) <=> Emptying(todo))
 BY <1>4, SameLists
<1>6. \A k \in Types : twitch'.subs[k] \in {{}, {"healthy"}, {"stale"}} /\ (twitch'.subs[k] # {} => k \in Chan!Kinds')
 BY <1>1,<1>4,<1>5 DEF Subscribed
<1>7. config'.last # "deconfigured" BY <1>1,<1>2,<1>3 DEF Subscribed
<1>8. CASE o = "done"
 <2> DEFINE todo == Chan!Mutations(queue[1].kind)
            op == [queue[1] EXCEPT !.listed = TRUE, !.todo = todo, !.status = "healthy"]
 <2>1. queue' = [queue EXCEPT ![1] = op] /\ run' = run BY <1>2,<1>8 DEF Chan!matchingSubscriptions
 <2>2. queue[1].kind \in {"ensure", "remove"} BY <1>2 DEF Service
 <2>3. todo \in Seq(Change) /\ IF queue[1].kind = "ensure" THEN Orderly(todo) ELSE Emptying(todo)
  BY <1>1,<2>2, MutationsAre
 <2> HIDE DEF todo
 <2>4. op \in Service /\ op.kind = queue[1].kind /\ op.waiting = queue[1].waiting /\ op.listed = TRUE /\ op.todo = todo
  BY <1>2,<2>3 DEF Service
 <2> HIDE DEF op
 <2>5. /\ queue' \in Seq(Service) /\ Len(queue') = Len(queue) /\ DOMAIN queue' = DOMAIN queue /\ queue' # <<>>
       /\ queue'[1] = op /\ \A j \in DOMAIN queue : j # 1 => queue'[j] = queue[j] BY <1>1,<1>2,<2>1,<2>4
 <2>6. \A j \in DOMAIN queue : queue'[j].waiting = queue[j].waiting /\ queue'[j].kind = queue[j].kind BY <2>4,<2>5
 <2>7. Desired' BY <1>1,<1>3,<2>1 DEF Desired
 <2>8. Queued'
  <3>1. Wanted' = Wanted BY <2>1 DEF Wanted
  <3>2. Len(queue) \in DOMAIN queue BY <1>1,<1>2
  <3>3. \A j \in DOMAIN queue' : queue'[j].waiting => j = Len(queue') /\ queue'[j].kind = Wanted'
   BY <1>1,<2>5,<2>6,<3>1 DEF Queued
  <3>4. run'.step = "service" <=> queue' # <<>> /\ queue'[Len(queue')].waiting
   BY <1>1,<1>2,<2>1,<2>5,<2>6,<3>2 DEF Queued
  <3>5. run'.step \in {"idle", "service"} BY <1>1,<1>2,<2>1 DEF Queued
  <3>6. \A j \in DOMAIN queue' : (~queue'[j].listed => queue'[j].todo = <<>>) /\ (j # 1 => ~queue'[j].listed)
   BY <1>1,<2>4,<2>5 DEF Queued
  <3> QED BY <3>3,<3>4,<3>5,<3>6 DEF Queued
 <2>9. ASSUME NEW j \in DOMAIN queue', queue'[j].listed
       PROVE  IF queue'[j].kind = "ensure" THEN NextOrderly(queue'[j].todo) ELSE NextEmptying(queue'[j].todo)
  <3>1. j = 1 BY <1>1,<2>5,<2>9 DEF Queued
  <3> QED BY <1>5,<2>3,<2>4,<2>5,<3>1
 <2>10. run'.step # "write" BY <1>1,<1>2,<2>1 DEF Queued
 <2>11. Subscribed' BY <1>6,<1>7,<2>9,<2>10, NextSubscribed
 <2> QED BY <1>1,<1>3,<2>1,<2>5,<2>7,<2>8,<2>11, ServiceAlone
<1>9. CASE o # "done"
 <2>1. Chan!Answer(1, "failed") BY <1>2,<1>9 DEF Chan!matchingSubscriptions
 <2>2. /\ queue' \in Seq(Service) /\ run' \in Run /\ Desired' /\ Queued'
       /\ \A j \in DOMAIN queue' : ~queue'[j].listed
       /\ run' = run \/ (run'.step = "failed" /\ run'.config = run.config /\ queue[1].waiting /\ queue[1].kind = Wanted)
  BY <1>1,<1>2,<1>3,<2>1, AnswerIs
 <2>3. run'.step # "write" BY <1>1,<1>2,<2>2 DEF Queued
 <2>4. Subscribed' BY <1>6,<1>7,<2>2,<2>3, NextSubscribed
 <2> QED BY <1>3,<2>2,<2>4, ServiceAlone
<1> QED BY <1>8,<1>9

LEMMA AnswersKeeps ==
  ASSUME ChannelSettings, CInv, NEW i \in Chan!Running, Chan!serviceAnswers(i)
  PROVE  CInv'
<1> DEFINE step == IF queue[1].kind = "ensure" THEN "register" ELSE "write"
<1>1. /\ ChannelTypes /\ Desired /\ Queued /\ Subscribed /\ queue \in Seq(Service) /\ run \in Run
 BY DEF CInv, ChannelTypes
<1>2. i = 1 /\ queue # <<>> /\ 1 \in DOMAIN queue /\ queue[1] \in Service BY <1>1, RunningIs
<1>3. /\ queue[1].listed /\ queue[1].todo = <<>> /\ Chan!Answer(1, step)
      /\ UNCHANGED <<auth, authAlarm, call, config, recovery, channelAlarm, history, Chan!outside>>
 BY <1>2 DEF Chan!serviceAnswers
<1>4. setting' = setting /\ twitch' = twitch BY <1>3 DEF Chan!outside
<1>5. Chan!Kinds' = Chan!Kinds /\ (NoneLeft' <=> NoneLeft) BY <1>4, SameLists
<1>6. \A k \in Types : twitch'.subs[k] \in {{}, {"healthy"}, {"stale"}} /\ (twitch'.subs[k] # {} => k \in Chan!Kinds')
 BY <1>1,<1>4,<1>5 DEF Subscribed
<1>7. step \in {"register", "write", "failed"} /\ (step = "register" => queue[1].kind = "ensure")
      /\ (step = "write" => queue[1].kind # "ensure") OBVIOUS
<1> HIDE DEF step
<1>8. /\ queue' \in Seq(Service) /\ run' \in Run /\ Desired' /\ Queued'
      /\ \A j \in DOMAIN queue' : ~queue'[j].listed
      /\ run' = run \/ (run'.step = step /\ run'.config = run.config /\ queue[1].waiting /\ queue[1].kind = Wanted)
 BY <1>1,<1>2,<1>3,<1>7, AnswerIs
<1>9. queue[1].kind # "ensure" => NoneLeft
 <2>1. ASSUME queue[1].kind # "ensure", NEW k \in Types, twitch.subs[k] # {} PROVE FALSE
  <3>1. Deletes(<<>>, k, Len(<<>>)) BY <1>1,<1>2,<1>3,<2>1 DEF Subscribed, Emptying
  <3>2. Len(<<>>) = 0 OBVIOUS
  <3>3. 1 .. 0 = {} OBVIOUS
  <3> QED BY <3>1,<3>2,<3>3 DEF Deletes
 <2> QED BY <2>1 DEF NoneLeft
<1>10. run'.step = "write" => NoneLeft' BY <1>1,<1>2,<1>5,<1>7,<1>8,<1>9 DEF Queued
<1>11. config'.last # "deconfigured" BY <1>1,<1>2,<1>3 DEF Subscribed
<1>12. Subscribed' BY <1>6,<1>8,<1>10,<1>11, NextSubscribed
<1> QED BY <1>3,<1>8,<1>12, ServiceAlone

LEMMA ManagerRestartsKeeps ==
  ASSUME ChannelSettings, CInv, Chan!managerRestarts
  PROVE  CInv'
<1>1. /\ ChannelTypes /\ Desired /\ Queued /\ Subscribed /\ queue \in Seq(Service) /\ twitch \in Outside
      /\ config \in Chan!Configs /\ recovery \in BOOLEAN /\ history \in Record BY DEF CInv, ChannelTypes
<1>2. /\ run.step # "idle" /\ run' = Chan!NoRun /\ channelAlarm' = TRUE
      /\ queue' = [i \in DOMAIN queue |-> [queue[i] EXCEPT !.waiting = FALSE]]
      /\ UNCHANGED <<auth, authAlarm, call, config, recovery, history, Chan!outside>> BY DEF Chan!managerRestarts
<1>3. /\ Chan!NoRun \in Run /\ Chan!NoRun.step = "idle" /\ Chan!NoRun.recovery = FALSE /\ Chan!NoRun.config.state = "none"
      /\ Chan!NoRun.config.last = "none" BY EmptyRecords DEF Chan!NoRun, Chan!NoConfig
<1>4. \A i \in DOMAIN queue : queue[i] \in Service BY <1>1
<1>5. /\ DOMAIN queue' = DOMAIN queue
      /\ \A i \in DOMAIN queue : /\ queue'[i] \in Service /\ queue'[i].waiting = FALSE /\ queue'[i].kind = queue[i].kind
                                 /\ queue'[i].listed = queue[i].listed /\ queue'[i].todo = queue[i].todo
 BY <1>2,<1>4 DEF Service
<1>6. queue' \in Seq(Service) /\ Len(queue') = Len(queue) /\ (queue' = <<>> <=> queue = <<>>)
 <2>1. DOMAIN queue = 1 .. Len(queue) /\ Len(queue) \in Nat BY <1>1
 <2>2. queue' \in [1 .. Len(queue) -> Service] BY <1>2,<1>5,<2>1
 <2>3. queue' \in Seq(Service) BY <2>1,<2>2
 <2> QED BY <1>1,<1>5,<2>1,<2>3
<1>7. Desired' BY <1>1,<1>2,<1>3 DEF Desired
<1>8. Queued'
 <2>1. ~(queue' # <<>> /\ queue'[Len(queue')].waiting)
  <3>1. queue' # <<>> => Len(queue') \in DOMAIN queue' BY <1>6
  <3> QED BY <1>5,<3>1
 <2>2. \A i \in DOMAIN queue' : ~queue'[i].waiting /\ (~queue'[i].listed => queue'[i].todo = <<>>)
                                /\ (i # 1 => ~queue'[i].listed) BY <1>1,<1>5 DEF Queued
 <2>3. run'.step = "idle" BY <1>2,<1>3
 <2> QED BY <2>1,<2>2,<2>3 DEF Queued
<1>9. Subscribed'
 <2>1. setting' = setting /\ twitch' = twitch BY <1>2 DEF Chan!outside
 <2>2. Chan!Kinds' = Chan!Kinds /\ \A todo : (NextOrderly(todo) <=> Orderly(todo)) /\ (NextEmptying(todo) <=> Emptying(todo))
  BY <2>1, SameLists
 <2>3. \A k \in Types : twitch'.subs[k] \in {{}, {"healthy"}, {"stale"}} /\ (twitch'.subs[k] # {} => k \in Chan!Kinds')
  BY <1>1,<2>1,<2>2 DEF Subscribed
 <2>4. \A i \in DOMAIN queue' : queue'[i].listed =>
         IF queue'[i].kind = "ensure" THEN NextOrderly(queue'[i].todo) ELSE NextEmptying(queue'[i].todo)
  BY <1>1,<1>5,<2>2 DEF Subscribed
 <2>5. config'.last # "deconfigured" /\ run'.step # "write" BY <1>1,<1>2,<1>3 DEF Subscribed
 <2> QED BY <2>3,<2>4,<2>5, NextSubscribed
<1>10. Untouched /\ ManagerTypes' /\ twitch' \in Outside /\ history' \in Record /\ history'.uses = history.uses
       /\ run' \in Run BY <1>1,<1>2,<1>3 DEF Untouched, Chan!outside, ManagerTypes
<1>11. UNCHANGED <<setting, flow, auth, authAlarm, call>> BY <1>2 DEF Chan!outside
<1> QED BY <1>6,<1>7,<1>8,<1>9,<1>10,<1>11, ManagerAlone

LEMMA ServiceRestartsKeeps ==
  ASSUME ChannelSettings, CInv, Chan!serviceRestarts
  PROVE  CInv'
<1>1. /\ ChannelTypes /\ Desired /\ Queued /\ Subscribed /\ run \in Run /\ twitch \in Outside
 BY DEF CInv, ChannelTypes
<1>2. /\ queue # <<>> /\ queue' = <<>>
      /\ run' = IF run.step = "service" THEN [run EXCEPT !.step = "failed"] ELSE run
      /\ UNCHANGED <<auth, authAlarm, call, config, recovery, channelAlarm, history, Chan!outside>>
 BY DEF Chan!serviceRestarts
<1>3. queue' \in Seq(Service) /\ DOMAIN queue' = {} BY <1>2
<1>4. /\ run' \in Run /\ run'.config = run.config /\ run'.recovery = run.recovery
      /\ run'.step = IF run.step = "service" THEN "failed" ELSE run.step
      /\ run.step # "service" => run' = run BY <1>1,<1>2 DEF Run
<1>5. run.step \in {"idle", "service"} BY <1>1,<1>2 DEF Queued
<1>6. Desired' BY <1>1,<1>2,<1>4,<1>5 DEF Desired
<1>7. Queued' BY <1>2,<1>3,<1>4,<1>5 DEF Queued
<1>8. Subscribed'
 <2>1. setting' = setting /\ twitch' = twitch BY <1>2 DEF Chan!outside
 <2>2. Chan!Kinds' = Chan!Kinds BY <2>1, SameLists
 <2>3. \A k \in Types : twitch'.subs[k] \in {{}, {"healthy"}, {"stale"}} /\ (twitch'.subs[k] # {} => k \in Chan!Kinds')
  BY <1>1,<2>1,<2>2 DEF Subscribed
 <2>4. config'.last # "deconfigured" /\ run'.step # "write" BY <1>1,<1>2,<1>4,<1>5 DEF Subscribed
 <2> QED BY <1>3,<2>3,<2>4, NextSubscribed
<1> QED BY <1>2,<1>3,<1>4,<1>6,<1>7,<1>8, ServiceAlone

\* What is left when the first change is made.
LEMMA TailFacts ==
  ASSUME NEW S, NEW todo \in Seq(S), todo # <<>>
  PROVE  /\ Tail(todo) \in Seq(S) /\ Head(todo) = todo[1] /\ todo[1] \in S /\ 1 \in DOMAIN todo
         /\ Len(todo) \in Nat \ {0} /\ Len(Tail(todo)) = Len(todo) - 1 /\ DOMAIN todo = 1 .. Len(todo)
         /\ DOMAIN Tail(todo) = 1 .. Len(todo) - 1
         /\ \A j \in DOMAIN Tail(todo) : Tail(todo)[j] = todo[j + 1] /\ j + 1 \in DOMAIN todo
<1>1. /\ Tail(todo) \in Seq(S) /\ Head(todo) = todo[1] /\ todo[1] \in S /\ Len(todo) \in Nat \ {0}
      /\ Len(Tail(todo)) = Len(todo) - 1 OBVIOUS
<1>2. DOMAIN todo = 1 .. Len(todo) /\ DOMAIN Tail(todo) = 1 .. Len(todo) - 1 BY <1>1
<1>3. \A j \in 1 .. Len(todo) - 1 : Tail(todo)[j] = todo[j + 1] OBVIOUS
<1> QED BY <1>1,<1>2,<1>3

LEMMA TailDeletes ==
  ASSUME NEW S, NEW todo \in Seq(S), todo # <<>>, NEW k, NEW m \in Nat, m < Len(todo),
         Deletes(todo, k, m + 1)
  PROVE  (todo[1][1] = "delete" /\ todo[1][2] = k) \/ Deletes(Tail(todo), k, m)
<1>1. /\ Len(todo) \in Nat \ {0} /\ DOMAIN Tail(todo) = 1 .. Len(todo) - 1
      /\ \A j \in DOMAIN Tail(todo) : Tail(todo)[j] = todo[j + 1] BY TailFacts
<1>2. PICK n \in 1 .. m + 1 : todo[n][1] = "delete" /\ todo[n][2] = k BY DEF Deletes
<1>3. CASE n = 1 BY <1>2,<1>3
<1>4. CASE n # 1
 <2>1. n - 1 \in 1 .. m /\ n - 1 \in DOMAIN Tail(todo) /\ (n - 1) + 1 = n BY <1>1,<1>2,<1>4
 <2>2. Tail(todo)[n - 1] = todo[n] BY <1>1,<2>1
 <2> QED BY <1>2,<2>1,<2>2 DEF Deletes
<1> QED BY <1>3,<1>4

\* The first change was made, and a subscription deleted is none.
FirstMade(todo, new) ==
  /\ Chan!Kinds' = Chan!Kinds /\ twitch'.subs = [twitch.subs EXCEPT ![todo[1][2]] = new]
  /\ todo[1][1] = "delete" => new = {}

LEMMA TailOrderly ==
  ASSUME ChannelTypes, NEW todo \in Seq(Change), todo # <<>>, Orderly(todo), NEW new, FirstMade(todo, new)
  PROVE  NextOrderly(Tail(todo))
<1>1. /\ todo[1] \in Change /\ 1 \in DOMAIN todo /\ Len(todo) \in Nat \ {0} /\ DOMAIN todo = 1 .. Len(todo)
      /\ DOMAIN Tail(todo) = 1 .. Len(todo) - 1
      /\ \A j \in DOMAIN Tail(todo) : Tail(todo)[j] = todo[j + 1] /\ j + 1 \in DOMAIN todo BY TailFacts
<1>2. twitch.subs \in [Types -> SUBSET {"healthy", "stale"}] /\ todo[1][2] \in Types
      /\ todo[1][1] \in {"delete", "create"} BY <1>1 DEF ChannelTypes, Outside, Change
<1> DEFINE t == Tail(todo)
<1>3. ASSUME NEW j \in DOMAIN t, t[j][1] = "create"
      PROVE  /\ t[j][2] \in Chan!Kinds' /\ (twitch'.subs[t[j][2]] = {} \/ Deletes(t, t[j][2], j - 1))
             /\ \A n \in DOMAIN t : n > j => t[n][2] # t[j][2]
 <2>1. t[j] = todo[j + 1] /\ j + 1 \in DOMAIN todo /\ j \in Nat /\ j > 0 /\ j + 1 > 1 /\ (j + 1) - 1 = j BY <1>1
 <2> DEFINE k == todo[j + 1][2]
 <2>2. /\ k \in Chan!Kinds /\ (twitch.subs[k] = {} \/ Deletes(todo, k, j))
       /\ \A n \in DOMAIN todo : n > j + 1 => todo[n][2] # k BY <1>3,<2>1 DEF Orderly
 <2>3. k \in Types
  <3>1. todo[j + 1] \in Change BY <2>1
  <3> QED BY <3>1 DEF Change
 <2>4. todo[1][1] = "create" => todo[1][2] # k BY <1>1,<2>1 DEF Orderly
 <2>5. CASE todo[1][2] = k
  <3>1. twitch'.subs[k] = {} BY <1>2,<2>3,<2>4,<2>5 DEF FirstMade
  <3>2. \A n \in DOMAIN t : n > j => t[n][2] # k BY <1>1,<2>1,<2>2
  <3> QED BY <2>1,<2>2,<3>1,<3>2 DEF FirstMade
 <2>6. CASE todo[1][2] # k
  <3>1. twitch'.subs[k] = twitch.subs[k] BY <1>2,<2>3,<2>6 DEF FirstMade
  <3>2. Deletes(todo, k, j) => Deletes(t, k, j - 1)
   <4>1. ASSUME Deletes(todo, k, j) PROVE Deletes(t, k, j - 1)
    <5>1. j - 1 \in Nat /\ j - 1 < Len(todo) /\ (j - 1) + 1 = j BY <1>1,<2>1
    <5>2. Deletes(todo, k, (j - 1) + 1) BY <4>1,<5>1
    <5> HIDE DEF k
    <5> QED BY <2>6,<5>1,<5>2, TailDeletes
   <4> QED BY <4>1
  <3>3. \A n \in DOMAIN t : n > j => t[n][2] # k BY <1>1,<2>1,<2>2
  <3> QED BY <2>1,<2>2,<3>1,<3>2,<3>3 DEF FirstMade
 <2> QED BY <2>5,<2>6
<1> HIDE DEF t
<1>4. NextOrderly(t) BY <1>3 DEF NextOrderly
<1> QED BY <1>4 DEF t

LEMMA TailEmptying ==
  ASSUME ChannelTypes, NEW todo \in Seq(Change), todo # <<>>, Emptying(todo), NEW new, FirstMade(todo, new)
  PROVE  NextEmptying(Tail(todo))
<1>1. /\ todo[1] \in Change /\ 1 \in DOMAIN todo /\ Len(todo) \in Nat \ {0} /\ Len(Tail(todo)) = Len(todo) - 1
      /\ \A j \in DOMAIN Tail(todo) : Tail(todo)[j] = todo[j + 1] /\ j + 1 \in DOMAIN todo BY TailFacts
<1>2. twitch.subs \in [Types -> SUBSET {"healthy", "stale"}] /\ todo[1][2] \in Types
 BY <1>1 DEF ChannelTypes, Outside, Change
<1>3. todo[1][1] = "delete" /\ \A j \in DOMAIN Tail(todo) : Tail(todo)[j][1] = "delete" BY <1>1 DEF Emptying
<1>4. ASSUME NEW k \in Types, twitch'.subs[k] # {} PROVE Deletes(Tail(todo), k, Len(Tail(todo)))
 <2>1. k # todo[1][2] /\ twitch'.subs[k] = twitch.subs[k] BY <1>2,<1>3,<1>4 DEF FirstMade
 <2>2. Deletes(todo, k, Len(todo)) BY <1>4,<2>1 DEF Emptying
 <2>3. Len(todo) - 1 \in Nat /\ Len(todo) - 1 < Len(todo) /\ (Len(todo) - 1) + 1 = Len(todo) BY <1>1
 <2>4. Deletes(todo, k, (Len(todo) - 1) + 1) BY <2>2,<2>3
 <2> QED BY <1>1,<2>1,<2>3,<2>4, TailDeletes
<1> QED BY <1>3,<1>4 DEF NextEmptying

LEMMA MutatesKeeps ==
  ASSUME ChannelSettings, CInv, NEW i \in Chan!Running, NEW o \in Chan!Outcomes, Chan!serviceMutates(i, o)
  PROVE  CInv'
<1> DEFINE todo == queue[1].todo
           change == Head(todo)
           k == change[2]
           exists == change[3] \in twitch.subs[k]
           fails == o # "done" \/ (change[1] = "delete" /\ ~exists)
           made == IF change[1] = "delete" THEN twitch.subs[k] \ {change[3]} ELSE twitch.subs[k] \cup {"healthy"}
           new == IF o = "failed" THEN twitch.subs[k] ELSE made
           status == IF change[1] = "create" /\ exists /\ k = setting.kinds[1] THEN "unknown" ELSE queue[1].status
           op == [queue[1] EXCEPT !.todo = Tail(todo), !.status = status]
<1>1. /\ ChannelTypes /\ Desired /\ Queued /\ Subscribed /\ queue \in Seq(Service) /\ run \in Run
      /\ twitch \in Outside BY DEF CInv, ChannelTypes
<1>2. i = 1 /\ queue # <<>> /\ 1 \in DOMAIN queue /\ queue[1] \in Service BY <1>1, RunningIs
<1>3. /\ todo # <<>>
      /\ twitch' = IF o = "failed" THEN twitch ELSE [twitch EXCEPT !.subs[k] = made]
      /\ fails => Chan!Answer(1, "failed")
      /\ ~fails => queue' = [queue EXCEPT ![1] = op] /\ run' = run
      /\ UNCHANGED <<setting, flow, auth, authAlarm, call, config, recovery, channelAlarm, history>>
 <2>1. /\ todo # <<>>
       /\ twitch' = IF o = "failed" THEN twitch ELSE [twitch EXCEPT !.subs[k] = made]
       /\ fails => Chan!Answer(1, "failed")
       /\ UNCHANGED <<setting, flow, auth, authAlarm, call, config, recovery, channelAlarm, history>>
  BY <1>2 DEF Chan!serviceMutates
 <2>2. ~fails => queue' = [queue EXCEPT ![1].todo = Tail(@),
                              ![1].status = IF change[1] = "create" /\ exists /\ k = setting.kinds[1]
                                            THEN "unknown" ELSE @]
                 /\ run' = run BY <1>2 DEF Chan!serviceMutates
 <2>3. [queue EXCEPT ![1].todo = Tail(@), ![1].status = IF change[1] = "create" /\ exists /\ k = setting.kinds[1]
                                                        THEN "unknown" ELSE @] = [queue EXCEPT ![1] = op]
  BY <1>1,<1>2
 <2> QED BY <2>1,<2>2,<2>3
<1>4. /\ todo \in Seq(Change) /\ change = todo[1] /\ change \in Change /\ Tail(todo) \in Seq(Change)
      /\ 1 \in DOMAIN todo
 <2>1. todo \in Seq(Change) BY <1>2 DEF Service
 <2> QED BY <1>3,<2>1, TailFacts
<1>5. queue[1].listed /\ IF queue[1].kind = "ensure" THEN Orderly(todo) ELSE Emptying(todo)
 BY <1>1,<1>2,<1>3 DEF Queued, Subscribed
<1>6. k \in Types /\ change[1] \in {"delete", "create"} /\ change[3] \in {"healthy", "stale"} BY <1>4 DEF Change
<1>7. twitch.subs[k] \in {{}, {"healthy"}, {"stale"}} /\ (twitch.subs[k] # {} => k \in Chan!Kinds)
 BY <1>1,<1>6 DEF Subscribed
<1>8. change[1] = "create" => twitch.subs[k] = {} /\ k \in Chan!Kinds
 <2>1. ASSUME change[1] = "create" PROVE twitch.subs[k] = {} /\ k \in Chan!Kinds
  <3>1. Orderly(todo) BY <1>4,<1>5,<2>1 DEF Emptying
  <3>2. ~Deletes(todo, k, 1 - 1)
   <4>1. 1 .. 1 - 1 = {} OBVIOUS
   <4> QED BY <4>1 DEF Deletes
  <3>3. k \in Chan!Kinds /\ (twitch.subs[k] = {} \/ Deletes(todo, k, 1 - 1)) BY <1>4,<2>1,<3>1 DEF Orderly
  <3> QED BY <3>2,<3>3
 <2> QED BY <2>1
<1>9. new \in {{}, {"healthy"}, {"stale"}} /\ (new # {} => k \in Chan!Kinds)
      /\ (~fails /\ change[1] = "delete" => new = {}) BY <1>6,<1>7,<1>8
<1>10. /\ twitch' \in Outside /\ twitch'.live = twitch.live /\ twitch'.refreshable = twitch.refreshable
       /\ twitch'.next = twitch.next /\ twitch'.subs = [twitch.subs EXCEPT ![k] = new]
 <2>1. twitch.subs \in [Types -> SUBSET {"healthy", "stale"}] BY <1>1 DEF Outside
 <2>2. new \in SUBSET {"healthy", "stale"} BY <1>9
 <2>3. CASE o = "failed"
  <3>1. twitch' = twitch /\ new = twitch.subs[k] BY <1>3,<2>3
  <3>2. [twitch.subs EXCEPT ![k] = twitch.subs[k]] = twitch.subs BY <2>1
  <3> QED BY <1>1,<3>1,<3>2
 <2>4. CASE o # "failed"
  <3>1. new = made BY <2>4
  <3> HIDE DEF new, made
  <3> QED BY <1>1,<1>3,<1>6,<2>1,<2>2,<2>4,<3>1 DEF Outside
 <2> QED BY <2>3,<2>4
<1>11. Chan!Kinds' = Chan!Kinds BY <1>3 DEF Chan!Kinds
<1>12. \A l \in Types : twitch'.subs[l] \in {{}, {"healthy"}, {"stale"}} /\ (twitch'.subs[l] # {} => l \in Chan!Kinds')
 <2>1. twitch.subs \in [Types -> SUBSET {"healthy", "stale"}] BY <1>1 DEF Outside
 <2> HIDE DEF new, k
 <2> QED BY <1>1,<1>6,<1>9,<1>10,<1>11,<2>1 DEF Subscribed
<1>13. config'.last # "deconfigured" /\ run.step \in {"idle", "service"} BY <1>1,<1>2,<1>3 DEF Subscribed, Queued
<1>14. Untouched /\ ManagerTypes' /\ history' \in Record /\ history'.uses = history.uses
 BY <1>1,<1>3,<1>10 DEF Untouched, ManagerTypes, ChannelTypes
<1>15. CASE fails
 <2>1. Chan!Answer(1, "failed") BY <1>3,<1>15
 <2>2. /\ queue' \in Seq(Service) /\ run' \in Run /\ Desired' /\ Queued'
       /\ \A j \in DOMAIN queue' : ~queue'[j].listed
       /\ run' = run \/ (run'.step = "failed" /\ run'.config = run.config /\ queue[1].waiting /\ queue[1].kind = Wanted)
  BY <1>1,<1>2,<1>3,<2>1, AnswerIs
 <2>3. run'.step # "write" BY <1>13,<2>2
 <2>4. Subscribed' BY <1>12,<1>13,<2>2,<2>3, NextSubscribed
 <2> QED BY <1>3,<1>10,<1>14,<2>2,<2>4, ManagerAlone
<1>16. CASE ~fails
 <2>1. queue' = [queue EXCEPT ![1] = op] /\ run' = run BY <1>3,<1>16
 <2>2. FirstMade(todo, new) BY <1>4,<1>9,<1>10,<1>11,<1>16 DEF FirstMade
 <2>3. status \in {"none", "healthy", "unknown"} BY <1>2 DEF Service
 <2> HIDE DEF status, new, todo, fails
 <2>4. op \in Service /\ op.kind = queue[1].kind /\ op.waiting = queue[1].waiting /\ op.listed = queue[1].listed
       /\ op.todo = Tail(todo) BY <1>2,<1>4,<2>3 DEF Service
 <2> HIDE DEF op
 <2>5. /\ queue' \in Seq(Service) /\ Len(queue') = Len(queue) /\ DOMAIN queue' = DOMAIN queue /\ queue' # <<>>
       /\ queue'[1] = op /\ \A j \in DOMAIN queue : j # 1 => queue'[j] = queue[j] BY <1>1,<1>2,<2>1,<2>4
 <2>6. \A j \in DOMAIN queue : queue'[j].waiting = queue[j].waiting /\ queue'[j].kind = queue[j].kind BY <2>4,<2>5
 <2>7. Desired' BY <1>1,<1>3,<2>1 DEF Desired
 <2>8. Queued'
  <3>1. Wanted' = Wanted BY <2>1 DEF Wanted
  <3>2. Len(queue) \in DOMAIN queue BY <1>1,<1>2
  <3>3. \A j \in DOMAIN queue' : queue'[j].waiting => j = Len(queue') /\ queue'[j].kind = Wanted'
   BY <1>1,<2>5,<2>6,<3>1 DEF Queued
  <3>4. run'.step = "service" <=> queue' # <<>> /\ queue'[Len(queue')].waiting
   BY <1>1,<1>2,<2>1,<2>5,<2>6,<3>2 DEF Queued
  <3>5. \A j \in DOMAIN queue' : (~queue'[j].listed => queue'[j].todo = <<>>) /\ (j # 1 => ~queue'[j].listed)
   BY <1>1,<1>5,<2>4,<2>5 DEF Queued
  <3> QED BY <1>13,<2>1,<3>3,<3>4,<3>5 DEF Queued
 <2>9. ASSUME NEW j \in DOMAIN queue', queue'[j].listed
       PROVE  IF queue'[j].kind = "ensure" THEN NextOrderly(queue'[j].todo) ELSE NextEmptying(queue'[j].todo)
  <3>1. j = 1 BY <1>1,<2>5,<2>9 DEF Queued
  <3>2. IF queue[1].kind = "ensure" THEN NextOrderly(Tail(todo)) ELSE NextEmptying(Tail(todo))
   BY <1>1,<1>3,<1>4,<1>5,<2>2, TailOrderly, TailEmptying
  <3> QED BY <2>4,<2>5,<3>1,<3>2
 <2>10. run'.step # "write" BY <1>13,<2>1
 <2>11. Subscribed' BY <1>12,<1>13,<2>9,<2>10, NextSubscribed
 <2> QED BY <1>1,<1>3,<1>10,<1>14,<2>1,<2>5,<2>7,<2>8,<2>11, ManagerAlone
<1> QED BY <1>15,<1>16

-----------------------------------------------------------------------------
(* Every step keeps the invariant                                           *)

LEMMA InitHolds == Chan!Init => CInv
<1> SUFFICES ASSUME Chan!Init PROVE CInv OBVIOUS
<1>1. /\ setting \in Settings
      /\ flow = [begun |-> {}, invites |-> {}, states |-> {}, exchanging |-> {}, alarm |-> FALSE]
      /\ auth = Chan!NoAuth /\ authAlarm = FALSE /\ call = [c \in Chan!Callers |-> Chan!Idle]
      /\ config = Chan!NoConfig /\ recovery = FALSE /\ channelAlarm = FALSE /\ run = Chan!NoRun /\ queue = <<>>
      /\ twitch = [subs |-> [k \in Types |-> {}], notices |-> {}, live |-> {}, refreshable |-> {}, next |-> 1]
      /\ history = [asked |-> "none", overwritten |-> FALSE, crossed |-> FALSE, torn |-> FALSE,
                    unjust |-> FALSE, ended |-> {}, uses |-> [f \in Flows |-> 0]] BY DEF Chan!Init
<1>2. /\ Chan!NoAuth \in Chan!AuthRecords /\ Fitting(Chan!NoAuth) /\ ~Chan!Due(Chan!NoAuth)
      /\ Chan!Idle \in Handler /\ Chan!Idle.todo = <<>> /\ Chan!Idle.auth.token = 0 /\ Chan!Idle.read = 0
      /\ Chan!NoConfig \in Chan!Configs /\ Chan!NoRun \in Run BY EmptyRecords
<1>3. \A c \in Chan!Callers : call[c] = Chan!Idle BY <1>1
<1>4. "alarm" \in Chan!Callers /\ "authorize" \in Chan!Callers BY DEF Chan!Callers
<1>5. ChannelTypes
 <2>1. history \in Record /\ twitch \in Outside /\ flow \in OAuth BY <1>1 DEF Record, Outside, OAuth
 <2>2. <<>> \in Seq(Service) OBVIOUS
 <2>3. call \in [Chan!Callers -> Handler] BY <1>1,<1>2
 <2> QED BY <1>1,<1>2,<2>1,<2>2,<2>3 DEF ChannelTypes
<1>6. Handlers BY <1>1,<1>2,<1>3 DEF Handlers, Planned
<1>7. Chan!NoAuth.token = 0 BY DEF Chan!NoAuth
<1>8. Held
 <2>1. /\ twitch.live = {} /\ twitch.refreshable = {} /\ twitch.next = 1 /\ history.unjust = FALSE BY <1>1
 <2>2. ~Chan!Step("alarm", "revalidate") BY <1>2,<1>3,<1>4 DEF Chan!Step, Chan!Busy
 <2>3. Issue(0) /\ Usable(0) BY <2>1 DEF Issue, Usable
 <2> QED BY <1>1,<1>2,<1>3,<1>4,<1>7,<2>1,<2>2,<2>3 DEF Held
<1>9. FlowsOnce BY <1>1 DEF FlowsOnce, Chan!Pending
<1>10. Chan!NoRun.step = "idle" /\ Chan!NoRun.recovery = FALSE /\ Chan!NoConfig.state = "none" /\ Chan!NoConfig.last = "none"
       /\ Chan!NoRun.config = Chan!NoConfig BY DEF Chan!NoRun, Chan!NoConfig
<1>11. Desired BY <1>1,<1>10 DEF Desired
<1>12. DOMAIN queue = {} BY <1>1
<1>13. Queued BY <1>1,<1>10,<1>12 DEF Queued
<1>14. Subscribed BY <1>1,<1>10,<1>12 DEF Subscribed
<1> QED BY <1>5,<1>6,<1>8,<1>9,<1>11,<1>13,<1>14 DEF CInv

LEMMA StutterKeeps ==
  ASSUME ChannelSettings, CInv, UNCHANGED Chan!vars
  PROVE  CInv'
<1>1. UNCHANGED <<auth, authAlarm, call, config, recovery, channelAlarm, run, queue, history, setting, flow, twitch>>
 BY DEF Chan!vars
<1>2. TokensKept /\ Handlers' /\ call' \in [Chan!Callers -> Handler]
 BY <1>1, UntouchedKept, SameHandlers DEF CInv, ChannelTypes, Untouched
<1>3. Held' BY <1>1,<1>2, SameHeld DEF CInv, ChannelTypes
<1> QED BY <1>1,<1>2,<1>3, CallElsewhere DEF Chan!managerVars, Chan!outside

LEMMA CallStepKeeps ==
  ASSUME ChannelSettings, CInv, NEW c \in Chan!Callers, NEW o \in Chan!Outcomes, Chan!CallStep(c, o)
  PROVE  CInv'
BY ConfigureKeeps, RegisterKeeps, DeconfigureKeeps, UnregisterKeeps, VerifyKeeps, DeactivateKeeps, RevokeKeeps DEF
  Chan!CallStep

LEMMA NextKeeps == ASSUME ChannelSettings PROVE CInv /\ [Chan!Next]_(Chan!vars) => CInv'
<1> SUFFICES ASSUME CInv, [Chan!Next]_(Chan!vars) PROVE CInv' OBVIOUS
<1>1. ASSUME NEW o \in Chan!Outcomes, Chan!ValidationStep(o) PROVE CInv'
 BY <1>1, ValidateKeeps, RefreshKeeps, RevalidateKeeps DEF Chan!ValidationStep
<1>2. CASE \E o \in Chan!Outcomes, i \in Chan!Running : Chan!matchingSubscriptions(i, o) BY <1>2, MatchingKeeps
<1>3. CASE \E o \in Chan!Outcomes, i \in Chan!Running : Chan!serviceMutates(i, o) BY <1>3, MutatesKeeps
<1>4. ASSUME NEW o \in Chan!Outcomes, Chan!ManagerStep(o) PROVE CInv'
 BY <1>2,<1>3,<1>4, RegistersKeeps DEF Chan!ManagerStep
<1>5. CASE \E o \in Chan!Outcomes, same \in BOOLEAN : Chan!failedNotice(same, o) BY <1>5, FailedNoticeKeeps
<1>6. CASE \E o \in Chan!Outcomes, f \in Flows : Chan!FlowStep(f, o)
 BY <1>6, AuthorizeKeeps, GrantKeeps DEF Chan!FlowStep
<1>7. CASE \E c \in Chan!Callers : Chan!put(c) BY <1>7, PutKeeps
<1>8. CASE Chan!revoked \/ Chan!authAlarmBegins \/ Chan!refreshRejected
 BY <1>8, RevokedKeeps, AuthAlarmKeeps, RejectedKeeps
<1>9. CASE Chan!alarmBegins \/ Chan!alarmSettles \/ Chan!alarmRetries
 BY <1>9, BeginsKeeps, SettlesKeeps, RetriesKeeps
<1>10. CASE \E i \in Chan!Running : Chan!serviceAnswers(i) BY <1>10, AnswersKeeps
<1>11. CASE \E gone \in SUBSET Flows : Chan!coordinatorAlarm(gone) BY <1>11, ExpiryKeeps
<1>12. CASE Chan!Requests
 <2>1. CASE Chan!disconnect \/ Chan!configureTwitchChannel \/ Chan!deconfigureTwitchChannel
  BY <2>1, DisconnectKeeps, OperatorKeeps
 <2>2. ASSUME NEW f \in Flows, Chan!createInvitation(f) \/ Chan!startOAuth(f) \/ Chan!startGrantOAuth(f)
                               \/ Chan!finishOAuth(f) \/ Chan!finishGrantOAuth(f)
       PROVE  CInv' BY <2>2, InvitationKeeps, OpensKeep, CalledKeeps DEF Chan!finishOAuth, Chan!finishGrantOAuth
 <2> QED BY <1>12,<2>1,<2>2 DEF Chan!Requests
<1>13. CASE Chan!Environment
 <2>1. ASSUME NEW k \in Types, Chan!SubscriptionFails(k) \/ Chan!SubscriptionForgotten(k) PROVE CInv'
  BY <2>1, SubscriptionKeeps
 <2>2. ASSUME NEW t \in Tokens, Chan!TokenExpires(t) PROVE CInv' BY <2>2, TokenExpiresKeeps
 <2>3. ASSUME NEW noticed \in BOOLEAN, Chan!UserRevokes(noticed) PROVE CInv' BY <2>3, UserRevokesKeeps
 <2> QED BY <1>13,<2>1,<2>2,<2>3 DEF Chan!Environment
<1>14. CASE Chan!Crash BY <1>14, ManagerRestartsKeeps, ServiceRestartsKeeps, AuthRestartsKeeps DEF Chan!Crash
<1>15. CASE UNCHANGED Chan!vars BY <1>15, StutterKeeps
<1>16. CASE \E o \in Chan!Outcomes, c \in Chan!Callers : Chan!CallStep(c, o) BY <1>16, CallStepKeeps
<1> QED BY <1>1,<1>4,<1>5,<1>6,<1>7,<1>8,<1>9,<1>10,<1>11,<1>12,<1>13,<1>14,<1>15,<1>16 DEF Chan!Next

LEMMA AlwaysInvariant == ASSUME ChannelSettings PROVE Chan!Spec => []CInv
BY InitHolds, NextKeeps, PTL DEF Chan!Spec

\* The variables keep their types, and the work still due belongs to the status it is for: of the
\* authorization object, the manager, its service and the coordinator.
THEOREM ChannelTypeCorrect == ASSUME ChannelSettings PROVE Chan!Spec => []Chan!TypeOK
<1>1. CInv => Chan!TypeOK
 <2> SUFFICES ASSUME CInv PROVE Chan!TypeOK OBVIOUS
 <2>1. ChannelTypes /\ Handlers /\ Held /\ FlowsOnce /\ Desired /\ Queued /\ Subscribed BY DEF CInv
 <2>2. /\ auth \in Chan!AuthRecords /\ config \in Chan!Configs /\ run \in Run /\ twitch \in Outside
       /\ \A c \in Chan!Callers : call[c].auth \in Chan!AuthRecords
       /\ queue \in Seq(Service) BY <2>1 DEF ChannelTypes, Handler
 <2>3. /\ auth.status # "authorized" => ~auth.provisioning /\ ~auth.completion /\ auth.token = 0
       /\ auth.status \in {"none", "authorized"} => ~auth.deconfiguration /\ ~auth.deactivation
  BY <2>1 DEF Handlers, Fitting, Bound, Released, Chan!NoAuth
 <2>4. twitch.refreshable \cup twitch.live \subseteq 1 .. (twitch.next - 1)
  <3>1. \A t \in twitch.live \cup twitch.refreshable : t \in Nat /\ t # 0 /\ t < twitch.next
   BY <2>1,<2>2 DEF Held, Issue, Outside
  <3>2. twitch.next \in Nat BY <2>2 DEF Outside
  <3> QED BY <3>1,<3>2
 <2>5. run.step = "service" <=> \E i \in DOMAIN queue : queue[i].waiting
  <3>1. queue # <<>> => Len(queue) \in DOMAIN queue BY <2>2
  <3>2. \A i \in DOMAIN queue : queue # <<>> OBVIOUS
  <3> QED BY <2>1,<3>1,<3>2 DEF Queued
 <2>6. run.config \in Chan!Configs /\ run.step \in {"idle", "service", "register", "write", "failed"}
  BY <2>2 DEF Run
 <2>7. twitch.subs \in [Types -> SUBSET {"healthy", "stale"}] BY <2>2 DEF Outside
 <2>8. Chan!Due(auth) => authAlarm \/ Chan!Busy("alarm") BY <2>1 DEF Handlers
 <2>9. /\ recovery => config.state = "enabled" \/ history.overwritten
       /\ config.state = "enabled" => channelAlarm \/ run.step # "idle" BY <2>1 DEF Desired
 <2>10. Chan!Pending # {} => flow.alarm BY <2>1 DEF FlowsOnce
 <2> QED BY <2>2,<2>3,<2>4,<2>5,<2>6,<2>7,<2>8,<2>9,<2>10 DEF Chan!TypeOK
<1> QED BY <1>1, AlwaysInvariant, PTL

\* An invitation and an OAuth state authorize once; a channel is found in need of a new authorization
\* only when its tokens were ended; and what the manager reports as deconfigured has no subscription.
THEOREM PromisesAlwaysKept == ASSUME ChannelSettings PROVE Chan!Spec => []Chan!PromisesKept
<1>1. CInv => Chan!PromisesKept BY DEF CInv, FlowsOnce, Held, Subscribed, NoneLeft, Chan!PromisesKept
<1> QED BY <1>1, AlwaysInvariant, PTL
=============================================================================

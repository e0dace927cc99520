-------------------------- MODULE StateEventCommit --------------------------
(***************************************************************************)
(* One state event operation of src/src/state-events: its origin (the      *)
(* GroupConfig object that prepared it), the realms that may own it, and   *)
(* the registry that admits it only under the current binding.             *)
(*                                                                         *)
(* Every action is the code between two waits for another object.  A call  *)
(* to an owner is in three steps, the send, Serve (the owner's             *)
(* transaction) and the caller's next step.  A caller that stops waiting   *)
(* (a timeout, an error, an eviction) may leave its call behind in stray,  *)
(* to be served at any later time or never.                                *)
(* Time counts from the creation of the source event (sourceCreatedAtMs).  *)
(***************************************************************************)
EXTENDS Integers, Sequences, FiniteSets

CONSTANTS
  Realms,        \* physical owners (route.key)
  Callers,       \* requests at the origin object
  Kinds,         \* kinds of operations: "group_local" (the origin owns it), "effective_shareable"
  maxAttempts,
  sourceLifetime, receiptRetention,     \* in ticks
  MaxRevision,   \* bound: binding changes
  Settings       \* bounds: the requesters, the losses (failed calls, timeouts, evictions), the ticks

ASSUME RealmsAssumption == Realms # {} /\ "none" \notin Realms
ASSUME LimitsAssumption ==
  /\ Kinds \subseteq {"group_local", "effective_shareable"} /\ Kinds # {}
  /\ maxAttempts \in Nat \ {0}
  /\ sourceLifetime \in Nat \ {0} /\ receiptRetention \in Nat
  /\ MaxRevision \in Nat
  /\ Settings \subseteq [requesters : SUBSET Callers, losses : Nat, time : Nat]
\* Pruning is sound because a receipt outlives the right to commit.
ASSUME RetentionAssumption == receiptRetention >= sourceLifetime

VARIABLES
  setting,      \* the bounds this behaviour was given
  kind,         \* route.kind, declared with the operation
  now,
  origin,       \* origin:<sourceKey> in the group's state_event_records
  owners,       \* owner:<operationId> in each realm's state_event_records
  retiring,     \* outbox rows whose delivery ended and whose origin is not told
  callers,      \* the requests running at the origin
  binding,      \* the registry's binding of the group: the realm, its revision
  barrier,      \* the registry's state_event_commit_barriers row
  requests,     \* commit requests waiting for the registry's queue
  job,          \* the operation that holds the queue (withBindingAuthority)
  stray,        \* calls on their way to an owner that nobody waits for
  applied,      \* history: the attempts whose mutation was applied, in order
  losses

vars == <<setting, kind, now, origin, owners, retiring, callers, binding, barrier, requests,
          job, stray, applied, losses>>

Never == -1                  \* prune_at_ms IS NULL
Latest(a, b) == IF a > b THEN a ELSE b
Fresh == now < sourceLifetime                                 \* assertFresh
GroupLocal == kind = "group_local"

Routes == [realm : Realms, revision : 0 .. MaxRevision]
NoRoute == [realm |-> "none", revision |-> 0]
Attempts == [epoch : 1 .. maxAttempts, route : Routes]
NoAttempt == [epoch |-> 0, route |-> NoRoute]
Receipts == [attempt : Attempts, at : 0 .. setting.time]
NoReceipt == [attempt |-> NoAttempt, at |-> 0]

Absent == [state |-> "absent", attempt |-> NoAttempt, preparedAt |-> 0,
           receipt |-> NoReceipt, ownerConfirmed |-> FALSE, pruneAt |-> Never]
NoRow == [fencedThrough |-> 0, receipt |-> NoReceipt, pendingDelivery |-> FALSE,
          originConfirmed |-> FALSE, pruneAt |-> Never]

\* A caller of an owner: what it asked, about which attempt, and the answer.
NoCall == [kind |-> "none", attempt |-> NoAttempt, reply |-> [state |-> "none", receipt |-> NoReceipt]]
Ask(method, a) == [NoCall EXCEPT !.kind = method, !.attempt = a]

\* A request at the origin.  record is its copy of the origin record, route
\* the one its Worker resolved; told is what the Worker learnt of the outcome.
Quiet == [pc |-> "idle", op |-> "lookup", route |-> NoRoute, record |-> Absent,
          call |-> NoCall, told |-> "none"]
Free == [pc |-> "idle", by |-> "none", attempt |-> NoAttempt, resolves |-> "none",
         call |-> NoCall]

-----------------------------------------------------------------------------
\* The owner: storage.js.  Each operator gives the rows and replies that a
\* call about attempt a can leave at an owner whose row is o,
\* and whether it applied the mutation.
ownerValue(o, a) ==
  [state |-> IF o.receipt # NoReceipt
             THEN IF o.pendingDelivery THEN "committed" ELSE "terminal"
             ELSE IF o.fencedThrough >= a.epoch THEN "fenced" ELSE "absent",
   receipt |-> o.receipt]

Committed(reply) == reply.state \in {"committed", "terminal"}
Refusal(state) == [state |-> state, receipt |-> NoReceipt]
Leaves(row, reply) == [row |-> row, reply |-> reply, applies |-> FALSE]
Applies(row, a) == [row |-> row, reply |-> ownerValue(row, a), applies |-> TRUE]

lookupStateEventOwner(o, a) == {Leaves(o, ownerValue(o, a))}

\* Fault: the fence is answered and not stored.
fenceStateEventOwner_FaultForgotten(o, a) ==
  {Leaves(o, IF o.receipt # NoReceipt THEN ownerValue(o, a) ELSE Refusal("fenced"))}

fenceStateEventOwner(o, a) ==
  IF o.receipt # NoReceipt THEN lookupStateEventOwner(o, a)
  ELSE {Leaves([o EXCEPT !.fencedThrough = Latest(@, a.epoch),
                         !.pruneAt = Latest(now + receiptRetention, sourceLifetime)],
               Refusal("fenced"))}

\* Fault: delivery alone lets the receipt be pruned.
RetirementTime_FaultUnconfirmed(o) ==
  IF ~o.pendingDelivery THEN Latest(o.receipt.at + receiptRetention, now) ELSE Never

RetirementTime(o) ==
  IF o.originConfirmed /\ ~o.pendingDelivery
  THEN Latest(o.receipt.at + receiptRetention, now) ELSE Never

confirmStateEventOwner(o, a) ==
  IF o.receipt = NoReceipt THEN {Leaves(o, Refusal("error"))}
  ELSE LET row == [o EXCEPT !.originConfirmed = TRUE]
       IN  {Leaves([row EXCEPT !.pruneAt = RetirementTime(row)], ownerValue(row, a))}

\* The commit; the realm may also refuse it (frozen, undeclared, at capacity)
\* with a 4xx ("rejected") or fail (a call that fails after this is CallFails).
commitStateEventAtOwner(o, a) ==
  IF Committed(ownerValue(o, a)) THEN lookupStateEventOwner(o, a)
  ELSE IF ownerValue(o, a).state = "fenced" THEN lookupStateEventOwner(o, a)
  ELSE {Leaves(o, Refusal("rejected"))}
       \cup (IF ~Fresh THEN {}
             ELSE LET row == [NoRow EXCEPT !.receipt = [attempt |-> a, at |-> now],
                                           !.pendingDelivery = TRUE]
                  IN  {Applies(row, a)})

Outcomes(method, a) ==
  LET o == owners[a.route.realm]
  IN CASE method = "lookup"  -> lookupStateEventOwner(o, a)
       [] method = "fence"   -> fenceStateEventOwner(o, a)
       [] method = "confirm" -> confirmStateEventOwner(o, a)
       [] method = "commit"  -> commitStateEventAtOwner(o, a)

\* The owner's transaction, from its old row to x.row.
Transact(a, x) ==
  /\ owners' = [owners EXCEPT ![a.route.realm] = x.row]
  /\ applied' = IF x.applies THEN Append(applied, a) ELSE applied

Waiting(call) == call.kind # "none" /\ call.reply.state = "none"
Answered(call) == call.kind # "none" /\ call.reply.state # "none"

\* A call nobody waits for any more may still arrive, unless it was served
\* already.  A late lookup has no effect.
Abandoned(calls) == {[kind |-> c.kind, attempt |-> c.attempt] :
                     c \in {d \in calls : Waiting(d) /\ d.kind # "lookup"}}
-----------------------------------------------------------------------------
\* The origin: storage.js and recovery.js.
\* Fault: the origin is overwritten whatever attempt it names by now.
Current_FaultAny(record) == TRUE

\* sameAttempt compares epoch, token and route; a token is drawn with each
\* new epoch.
Current(record) == origin.attempt = record.attempt

finalizeStateEventOrigin(record, receipt, terminal) ==
  IF origin.state = "absent" \/ ~Current(record) \/ (origin.state = "committed" /\ ~terminal)
  THEN origin
  ELSE [origin EXCEPT !.state = "committed", !.receipt = receipt,
                      !.pruneAt = IF terminal THEN Latest(origin.preparedAt, receipt.at) + receiptRetention
                                  ELSE Never]

markStateEventOriginConfirmed(record) ==
  IF origin.state = "committed" /\ Current(record)
  THEN [origin EXCEPT !.ownerConfirmed = TRUE] ELSE origin

expireStateEventOrigin(record) ==
  IF origin.state = "prepared" /\ Current(record)
  THEN [origin EXCEPT !.state = "expired", !.pruneAt = origin.preparedAt + receiptRetention]
  ELSE origin

\* What the handler of caller c does next: wait for an owner, or answer.  The
\* relay forgets its retirement request once it hears that it succeeded.
Await(c, pc, record, method) ==
  /\ callers' = [callers EXCEPT ![c].pc = pc, ![c].record = record,
                                ![c].call = Ask(method, record.attempt)]
  /\ UNCHANGED retiring
Answer(c, told) ==
  /\ callers' = [callers EXCEPT ![c] = [Quiet EXCEPT !.told = told]]
  /\ retiring' \in {retiring} \cup
       (IF callers[c].op = "retire" /\ told = "committed"
        THEN {retiring \ {callers[c].route.realm}} ELSE {})

\* confirmed() in recovery.js (again: shared-publication.js): cache a receipt the owner returned (unless the
\* origin has no room, which leaves the locator), then acknowledge it.
CacheReceipt(c, record, receipt, terminal, again) ==
  LET cached == finalizeStateEventOrigin(record, receipt, terminal)
  IN \/ /\ origin' = cached
        /\ IF cached.state = "committed" /\ (again \/ ~cached.ownerConfirmed)
           THEN Await(c, "confirm", record, "confirm") ELSE Answer(c, "committed")
     \/ /\ cached # origin
        /\ Answer(c, "committed") /\ UNCHANGED origin

confirmed(c, record, receipt, terminal) == CacheReceipt(c, record, receipt, terminal, FALSE)

\* A committed origin, found by recover() or repin().
AlreadyCommitted(c) ==
  /\ origin.state = "committed"
  /\ confirmed(c, origin, origin.receipt, FALSE)

\* commitPreparedSharedStateEvent, or commitLocalStateEvent, with the record
\* the handler holds; the first checks it against the stored one.
Submit(c, record) ==
  \/ /\ GroupLocal
     /\ callers' = [callers EXCEPT ![c] = [@ EXCEPT !.pc = "local", !.record = record, !.call = NoCall]]
     /\ UNCHANGED <<origin, retiring, requests>>
  \/ /\ ~GroupLocal /\ (origin.state \in {"absent", "expired"} \/ ~Current(record))
     /\ Answer(c, IF Current(record) /\ origin.state = "expired" THEN "expired" ELSE "error")
     /\ UNCHANGED <<origin, requests>>
  \/ /\ ~GroupLocal /\ Current(record) /\ AlreadyCommitted(c) /\ UNCHANGED requests
  \/ /\ ~GroupLocal /\ Current(record) /\ origin.state = "prepared"
     /\ requests' = requests \cup {[by |-> c, attempt |-> record.attempt]}
     /\ callers' = [callers EXCEPT ![c] = [@ EXCEPT !.pc = "registry", !.record = record, !.call = NoCall]]
     /\ UNCHANGED <<origin, retiring>>

\* Fault: the attempt limit is off by one.
RepinStart_FaultOffByOne(c) ==
  /\ UNCHANGED requests
  /\ \/ AlreadyCommitted(c)
     \/ /\ origin.state # "committed" /\ UNCHANGED origin
        /\ IF origin.state # "prepared"
           THEN Answer(c, IF origin.state = "expired" THEN "expired" ELSE "error")
           ELSE IF origin.attempt.epoch > maxAttempts THEN Await(c, "limit", origin, "lookup")
           ELSE Await(c, "repin", origin, "fence")

\* repin() of the stored record: it reads it again, then fences its owner.
RepinStart(c) ==
  /\ UNCHANGED requests
  /\ \/ AlreadyCommitted(c)
     \/ /\ origin.state # "committed" /\ UNCHANGED origin
        /\ IF origin.state # "prepared"
           THEN Answer(c, IF origin.state = "expired" THEN "expired" ELSE "error")
           ELSE IF origin.attempt.epoch >= maxAttempts THEN Await(c, "limit", origin, "lookup")
           ELSE Await(c, "repin", origin, "fence")

\* handleStateEventCommand once recovery found no outcome.
Proceed(c, saved) ==
  \/ callers[c].op = "lookup" /\ Answer(c, "none") /\ UNCHANGED <<origin, requests>>
  \/ callers[c].op = "repin" /\ saved.state = "absent"
     /\ Answer(c, "error") /\ UNCHANGED <<origin, requests>>
  \/ /\ callers[c].op = "invoke" /\ saved.state = "absent"
     /\ callers' = [callers EXCEPT ![c] = [@ EXCEPT !.pc = "prepare", !.call = NoCall]]
     /\ UNCHANGED <<origin, requests, retiring>>
  \/ callers[c].op = "invoke" /\ saved.state = "prepared" /\ Submit(c, saved)
  \/ callers[c].op = "repin" /\ saved.state = "prepared" /\ RepinStart(c)

Elsewhere == <<setting, kind, now, binding, job, barrier, losses>>
Untouched == <<Elsewhere, owners, applied, stray>>
-----------------------------------------------------------------------------
\* The requests.  A Worker looks the operation up, or resolves its route and
\* invokes it; after a changed binding it invokes again with a new route.  The
\* relay asks the origin to retire what it delivered.
Start(c, op) ==
  /\ c \in setting.requesters /\ callers[c].pc = "idle"
  /\ op = "repin" => callers[c].told = "refused"
  /\ \E r \in {[realm |-> w, revision |-> 0] : w \in retiring} \cup {binding} :
       /\ op = "retire" => r.realm \in retiring
       /\ op # "retire" => r = binding
       /\ callers' = [callers EXCEPT ![c] = [Quiet EXCEPT !.pc = "sent", !.op = op, !.route = r]]
  /\ UNCHANGED <<Untouched, origin, retiring, requests>>

\* handleStateEventCommand: recover() first.
Recover(c) ==
  /\ callers[c].pc = "sent" /\ callers[c].op # "retire"
  /\ \/ origin.state = "absent" /\ Proceed(c, Absent)
     \/ origin.state = "expired" /\ Answer(c, "expired") /\ UNCHANGED <<origin, requests>>
     \/ AlreadyCommitted(c) /\ UNCHANGED requests
     \/ origin.state = "prepared" /\ Await(c, "recover", origin, "lookup") /\ UNCHANGED <<origin, requests>>
  /\ UNCHANGED Untouched

\* handleStateEventOriginRetirement.
RetireOrigin(c) ==
  /\ callers[c].pc = "sent" /\ callers[c].op = "retire"
  /\ \/ origin.state = "absent" /\ Answer(c, "committed") /\ UNCHANGED origin
     \/ /\ origin.state = "committed" /\ origin.ownerConfirmed
        /\ origin.attempt.route.realm = callers[c].route.realm
        /\ origin' = finalizeStateEventOrigin(origin, origin.receipt, TRUE)
        /\ Answer(c, "committed")
     \/ /\ origin.state # "absent" /\ UNCHANGED origin
        /\ origin.ownerConfirmed => origin.attempt.route.realm # callers[c].route.realm
        /\ IF origin.attempt.route.realm # callers[c].route.realm \/ origin.state = "expired"
           THEN Answer(c, "error") ELSE Await(c, "retire", origin, "lookup")
  /\ UNCHANGED <<Untouched, requests>>

\* The answer to recover()'s lookup.  Past its lifetime the origin is retired.
Recovered(c) ==
  LET h == callers[c] IN
  /\ h.pc = "recover" /\ Answered(h.call)
  /\ \/ h.call.reply.state = "error" /\ Answer(c, "error") /\ UNCHANGED <<origin, requests>>
     \/ /\ Committed(h.call.reply) /\ UNCHANGED requests
        /\ confirmed(c, h.record, h.call.reply.receipt, h.call.reply.state = "terminal")
     \/ /\ h.call.reply.state \in {"absent", "fenced"}
        /\ \/ Fresh /\ Proceed(c, h.record)
           \/ ~Fresh /\ origin.state = "absent" /\ Proceed(c, Absent)
           \/ ~Fresh /\ origin.state = "expired" /\ Answer(c, "expired") /\ UNCHANGED <<origin, requests>>
           \/ /\ ~Fresh /\ origin.state \in {"prepared", "committed"}
              /\ Await(c, "retire", origin, "lookup") /\ UNCHANGED <<origin, requests>>
  /\ UNCHANGED Untouched

\* retire(): the lookup, and what absence means for a committed origin.
RetireLookedUp(c) ==
  LET h == callers[c]  reply == h.call.reply IN
  /\ h.pc = "retire" /\ Answered(h.call)
  /\ \/ Committed(reply) /\ confirmed(c, h.record, reply.receipt, reply.state = "terminal")
     \/ /\ h.record.state = "committed" /\ reply.state = "absent"
        /\ confirmed(c, h.record, h.record.receipt, TRUE)
     \/ /\ \/ reply.state = "error"
           \/ h.record.state = "committed" /\ reply.state = "fenced"
           \/ h.record.state = "prepared" /\ reply.state \in {"absent", "fenced"} /\ Fresh
        /\ Answer(c, "error") /\ UNCHANGED origin
     \/ /\ h.record.state = "prepared" /\ reply.state \in {"absent", "fenced"} /\ ~Fresh
        /\ Await(c, "expire", h.record, "fence") /\ UNCHANGED origin
  /\ UNCHANGED <<Untouched, requests>>

\* retire(): after the fence the origin expires.
Expire(c) ==
  LET h == callers[c]  reply == h.call.reply IN
  /\ h.pc = "expire" /\ Answered(h.call)
  /\ \/ Committed(reply) /\ confirmed(c, h.record, reply.receipt, reply.state = "terminal")
     \/ reply.state = "error" /\ Answer(c, "error") /\ UNCHANGED origin
     \/ /\ reply.state = "fenced"
        /\ origin' = expireStateEventOrigin(h.record)
        /\ Answer(c, CASE origin'.state = "expired" -> "expired"
                       [] origin'.state = "committed" -> "committed"
                       [] OTHER -> "error")
  /\ UNCHANGED <<Untouched, requests>>

\* prepareStateEventOrigin, after the request was hashed: the first wins.
Prepare(c) ==
  /\ callers[c].pc = "prepare"
  /\ \/ /\ origin.state = "absent" /\ Fresh
        /\ LET record == [Absent EXCEPT !.state = "prepared", !.preparedAt = now,
                            !.attempt = [epoch |-> 1, route |-> callers[c].route]]
           IN  /\ origin' = record
               /\ callers' = [callers EXCEPT ![c].pc = IF GroupLocal THEN "local" ELSE "registry",
                                             ![c].record = record]
               /\ requests' = IF GroupLocal THEN requests
                              ELSE requests \cup {[by |-> c, attempt |-> record.attempt]}
               /\ UNCHANGED retiring
     \/ /\ origin.state = "absent" /\ ~Fresh
        /\ Answer(c, "error") /\ UNCHANGED <<origin, requests>>
     \/ origin.state = "expired" /\ Answer(c, "expired") /\ UNCHANGED <<origin, requests>>
     \/ origin.state = "committed" /\ Answer(c, "committed") /\ UNCHANGED <<origin, requests>>
     \/ origin.state = "prepared" /\ Submit(c, origin)
  /\ UNCHANGED Untouched

\* repin() at the attempt limit only looks the outcome up.
AtLimit(c) ==
  LET h == callers[c]  reply == h.call.reply IN
  /\ h.pc = "limit" /\ Answered(h.call)
  /\ \/ Committed(reply) /\ confirmed(c, h.record, reply.receipt, reply.state = "terminal")
     \/ ~Committed(reply) /\ Answer(c, "error") /\ UNCHANGED origin
  /\ UNCHANGED <<Untouched, requests>>

\* repin() after the fence: repinStateEventOrigin is a compare-and-swap, and
\* whatever record results is submitted.
repinStateEventOrigin(c) ==
  LET h == callers[c]  reply == h.call.reply
      record == [origin EXCEPT !.attempt = [epoch |-> @.epoch + 1, route |-> h.route]]
  IN
  /\ h.pc = "repin" /\ Answered(h.call)
  /\ \/ /\ Committed(reply) /\ UNCHANGED requests
        /\ confirmed(c, h.record, reply.receipt, reply.state = "terminal")
     \/ reply.state = "error" /\ Answer(c, "error") /\ UNCHANGED <<origin, requests>>
     \/ /\ reply.state = "fenced"
        /\ \/ origin.state = "absent" /\ Answer(c, "error") /\ UNCHANGED <<origin, requests>>
           \/ origin.state = "committed" /\ Answer(c, "committed") /\ UNCHANGED <<origin, requests>>
           \/ /\ origin.state = "expired" \/ (origin.state = "prepared" /\ Current(h.record) /\ ~Fresh)
              /\ Answer(c, "expired") /\ UNCHANGED <<origin, requests>>
           \/ origin.state = "prepared" /\ ~Current(h.record) /\ Submit(c, origin)
           \/ /\ origin.state = "prepared" /\ Current(h.record) /\ Fresh
              /\ origin' = record
              /\ requests' = requests \cup {[by |-> c, attempt |-> record.attempt]}
              /\ callers' = [callers EXCEPT ![c] = [@ EXCEPT !.pc = "registry", !.record = record, !.call = NoCall]]
              /\ UNCHANGED retiring
  /\ UNCHANGED Untouched

\* The owner acknowledged the cached receipt, or did not.
OwnerConfirmed(c) ==
  LET h == callers[c] IN
  /\ h.pc = "confirm" /\ Answered(h.call)
  /\ origin' = IF Committed(h.call.reply) THEN markStateEventOriginConfirmed(h.record) ELSE origin
  /\ Answer(c, "committed")
  /\ UNCHANGED <<Untouched, requests>>

\* commitLocalStateEvent: origin and owner records in one transaction.
commitLocalStateEvent(c) ==
  LET h == callers[c]  a == h.record.attempt  o == owners[a.route.realm] IN
  /\ h.pc = "local"
  /\ \/ /\ ownerValue(o, a).state # "absent"
        /\ Answer(c, IF Committed(ownerValue(o, a)) THEN "committed" ELSE "error")
        /\ UNCHANGED <<origin, owners, applied>>
     \/ /\ ownerValue(o, a).state = "absent"
        /\ \E x \in commitStateEventAtOwner(o, a) :
             IF ~Committed(x.reply) \/ origin.state # "prepared" \/ ~Current(h.record)
             THEN Answer(c, "error") /\ UNCHANGED <<origin, owners, applied>>
             ELSE /\ Answer(c, "committed")
                  /\ \/ /\ origin' = [finalizeStateEventOrigin(h.record, x.reply.receipt, FALSE)
                                        EXCEPT !.ownerConfirmed = TRUE]
                        /\ \E y \in confirmStateEventOwner(x.row, a) :
                             Transact(a, [y EXCEPT !.applies = TRUE])
                     \/ Transact(a, x) /\ UNCHANGED origin
  /\ UNCHANGED <<Elsewhere, stray, requests>>

\* commitPreparedSharedStateEvent after the registry's answer.
RegistryAnswered(c) ==
  LET h == callers[c]  reply == h.call.reply IN
  /\ h.pc = "registry" /\ Answered(h.call)
  /\ \/ Committed(reply) /\ CacheReceipt(c, h.record, reply.receipt, FALSE, TRUE)
     \/ ~Committed(reply) /\ Answer(c, reply.state) /\ UNCHANGED origin
  /\ UNCHANGED <<Untouched, requests>>

OriginStep(c) ==
  \/ \E op \in {"lookup", "invoke", "repin", "retire"} : Start(c, op)
  \/ Recover(c) \/ RetireOrigin(c) \/ Recovered(c) \/ RetireLookedUp(c) \/ Expire(c)
  \/ Prepare(c) \/ AtLimit(c) \/ repinStateEventOrigin(c) \/ OwnerConfirmed(c)
  \/ commitLocalStateEvent(c) \/ RegistryAnswered(c)
-----------------------------------------------------------------------------
\* The registry: binding-authority.js.  One operation at a time holds the
\* queue, across its calls.
Origin == <<setting, kind, now, origin, retiring, applied, owners, stray, losses>>

\* The commit request's answer, for a request whose caller still waits.
Reply(by, reply) ==
  callers' = IF by = "nobody" THEN callers
             ELSE [callers EXCEPT ![by].call = [Ask("registry", callers[by].record.attempt)
                                                  EXCEPT !.reply = reply]]
Finish(reply) == job' = Free /\ Reply(job.by, reply)
Hold(pc, call) == job' = [job EXCEPT !.pc = pc, !.call = call] /\ UNCHANGED callers

\* The binding is compared with the attempt's route: a stale attempt is fenced,
\* a current one gets a durable barrier before the realm is called.
Admit(j) ==
  /\ UNCHANGED callers
  /\ \/ /\ j.attempt.route # binding
        /\ job' = [j EXCEPT !.pc = "stale", !.call = Ask("fence", j.attempt)]
     \/ /\ j.attempt.route = binding
        /\ job' = [j EXCEPT !.pc = "commit", !.call = Ask("commit", j.attempt)]

BarrierAfterAdmit(a) == IF a.route = binding THEN a ELSE NoAttempt

\* commitWithStateEventBindingAuthority takes the queue.
CommitTakesQueue(q) ==
  LET j == [Free EXCEPT !.by = q.by, !.attempt = q.attempt] IN
  /\ job.pc = "idle" /\ q \in requests
  /\ requests' = requests \ {q}
  /\ \/ /\ barrier = NoAttempt
        /\ Admit(j) /\ barrier' = BarrierAfterAdmit(q.attempt)
     \/ /\ barrier.epoch > q.attempt.epoch
        /\ Reply(q.by, Refusal("error")) /\ UNCHANGED <<job, barrier>>
     \/ /\ barrier # NoAttempt /\ barrier.epoch <= q.attempt.epoch
        /\ job' = [j EXCEPT !.pc = "lookup", !.resolves = "commit", !.call = Ask("lookup", barrier)]
        /\ UNCHANGED <<callers, barrier>>
  /\ UNCHANGED <<Origin, binding>>

\* A lifecycle operation of the group: recoverLifecycleStateEvents first.  It
\* may give the group another realm, always under a new revision.
Rebind == /\ binding.revision < MaxRevision
          /\ \E r \in Realms : binding' = [realm |-> r, revision |-> binding.revision + 1]

\* Fault: a lifecycle operation passes the barrier.
LifecycleTakesQueue_FaultPasses ==
  job.pc = "idle" /\ ~GroupLocal /\ Rebind /\ UNCHANGED <<Origin, callers, requests, barrier, job>>

LifecycleTakesQueue ==
  /\ job.pc = "idle" /\ ~GroupLocal
  /\ \/ barrier = NoAttempt /\ Rebind /\ UNCHANGED job
     \/ /\ barrier # NoAttempt
        /\ job' = [Free EXCEPT !.pc = "lookup", !.by = "nobody", !.resolves = "lifecycle",
                               !.call = Ask("lookup", barrier)]
        /\ UNCHANGED binding
  /\ UNCHANGED <<Origin, callers, requests, barrier>>

\* Fault: an absent commit is waited for, not fenced.
ResolveLookedUp_FaultWaits ==
  /\ job.pc = "lookup" /\ Answered(job.call)
  /\ job.call.reply.state \in {"absent", "fenced"}
  /\ Finish(Refusal("error"))
  /\ UNCHANGED <<Origin, requests, barrier, binding>>

\* resolveStateEventBarrier: the lookup, then the fence.
ResolveLookedUp ==
  /\ job.pc = "lookup" /\ Answered(job.call)
  /\ job.call.reply.state \in {"absent", "fenced"}
  /\ Hold("fence", Ask("fence", job.call.attempt))
  /\ UNCHANGED <<Origin, requests, barrier, binding>>

\* resolveStateEventBarrier: the owner decided.  The barrier goes, and the
\* operation that needed it continues.
Resolved ==
  LET reply == job.call.reply IN
  /\ Answered(job.call)
  /\ \/ job.pc = "lookup" /\ Committed(reply)
     \/ job.pc = "fence" /\ (Committed(reply) \/ reply.state = "fenced")
  /\ \/ /\ job.resolves = "lifecycle" /\ barrier' = NoAttempt
        /\ job' = Free /\ (Rebind \/ UNCHANGED binding) /\ UNCHANGED callers
     \/ /\ job.resolves # "lifecycle" /\ Committed(reply) /\ barrier' = NoAttempt
        /\ Finish(reply) /\ UNCHANGED binding
     \/ /\ job.resolves = "commit" /\ ~Committed(reply) /\ UNCHANGED binding
        /\ IF job.call.attempt.epoch = job.attempt.epoch
           THEN Finish(Refusal("refused")) /\ barrier' = NoAttempt
           ELSE Admit([job EXCEPT !.resolves = "none"]) /\ barrier' = BarrierAfterAdmit(job.attempt)
     \/ /\ job.resolves \in {"rejected", "refused"} /\ ~Committed(reply) /\ barrier' = NoAttempt
        /\ Finish(Refusal(IF job.resolves = "refused" THEN "refused" ELSE "error"))
        /\ UNCHANGED binding
  /\ UNCHANGED <<Origin, requests>>

\* The fence of an attempt whose binding is no longer current (binding_changed).
StaleFenced ==
  LET reply == job.call.reply IN
  /\ job.pc = "stale" /\ Answered(job.call) /\ reply.state # "error"
  /\ Finish(IF Committed(reply) THEN reply ELSE Refusal("refused"))
  /\ UNCHANGED <<Origin, requests, barrier, binding>>

\* The realm's answer to the commit: a receipt clears the barrier, a definite
\* refusal is resolved before it is passed on.
CommitAnswered ==
  LET reply == job.call.reply IN
  /\ job.pc = "commit" /\ Answered(job.call)
  /\ \/ Committed(reply) /\ Finish(reply) /\ barrier' = NoAttempt
     \/ /\ reply.state \in {"rejected", "fenced"} /\ UNCHANGED <<callers, barrier>>
        /\ job' = [job EXCEPT !.pc = "lookup", !.call = Ask("lookup", job.attempt),
                     !.resolves = IF reply.state = "fenced" THEN "refused" ELSE "rejected"]
  /\ UNCHANGED <<Origin, requests, binding>>

\* Fault: the barrier is cleared although the outcome is unknown.
OutcomeUnknown_FaultCleared ==
  /\ job.pc # "idle" /\ Answered(job.call) /\ job.call.reply.state = "error"
  /\ Finish(Refusal("error")) /\ barrier' = NoAttempt
  /\ UNCHANGED <<Origin, requests, binding>>

\* A failed call ends the operation (outcome_unknown); the barrier stays.
OutcomeUnknown ==
  /\ job.pc # "idle" /\ Answered(job.call) /\ job.call.reply.state = "error"
  /\ Finish(Refusal("error"))
  /\ UNCHANGED <<Origin, requests, barrier, binding>>

RegistryStep ==
  \/ (\E q \in requests : CommitTakesQueue(q)) \/ LifecycleTakesQueue
  \/ ResolveLookedUp \/ Resolved \/ StaleFenced \/ CommitAnswered \/ OutcomeUnknown
-----------------------------------------------------------------------------
\* The owners: a call arrives, for its caller or for nobody.
Owner == <<setting, kind, now, origin, retiring, binding, barrier, requests, losses>>

ServeOrigin(c) ==
  /\ callers[c].call.kind # "registry" /\ Waiting(callers[c].call)
  /\ \E x \in Outcomes(callers[c].call.kind, callers[c].call.attempt) :
       /\ Transact(callers[c].call.attempt, x)
       /\ callers' = [callers EXCEPT ![c].call.reply = x.reply]
  /\ UNCHANGED <<Owner, job, stray>>

ServeRegistry ==
  /\ Waiting(job.call)
  /\ \E x \in Outcomes(job.call.kind, job.call.attempt) :
       /\ Transact(job.call.attempt, x)
       /\ job' = [job EXCEPT !.call.reply = x.reply]
  /\ UNCHANGED <<Owner, callers, stray>>

ServeStray(s) ==
  /\ \E x \in Outcomes(s.kind, s.attempt) : Transact(s.attempt, x)
  /\ stray' = stray \ {s}
  /\ UNCHANGED <<Owner, callers, job>>

\* The relay settled the event of realm r: retireStoredStateEventOwner.
retireStoredStateEventOwner(r) ==
  LET row == [owners[r] EXCEPT !.pendingDelivery = FALSE] IN
  /\ owners[r].receipt # NoReceipt /\ owners[r].pendingDelivery
  /\ owners' = [owners EXCEPT ![r] = [row EXCEPT !.pruneAt = RetirementTime(row)]]
  /\ IF GroupLocal
     THEN /\ origin' = IF origin.state = "committed"
                       THEN finalizeStateEventOrigin(origin, row.receipt, TRUE) ELSE origin
          /\ UNCHANGED retiring
     ELSE retiring' = retiring \cup {r} /\ UNCHANGED origin
  /\ UNCHANGED <<setting, kind, now, callers, binding, barrier, requests, job, stray, applied, losses>>

\* prune(), in the transactions of this and of any other operation.
Due(row) == row.pruneAt # Never /\ row.pruneAt <= now
prune ==
  /\ \/ Due(origin) /\ origin' = Absent /\ UNCHANGED owners
     \/ /\ UNCHANGED origin
        /\ \E r \in Realms : Due(owners[r]) /\ owners' = [owners EXCEPT ![r] = NoRow]
  /\ UNCHANGED <<setting, kind, now, retiring, callers, binding, barrier, requests, job, stray, applied, losses>>

\* A call fails or times out, before or after it was served.
CallFails ==
  /\ losses < setting.losses /\ losses' = losses + 1
  /\ \/ /\ job.call.kind # "none" /\ job.call.reply.state # "error"
        /\ stray' = stray \cup Abandoned({job.call})
        /\ job' = [job EXCEPT !.call.reply = Refusal("error")]
        /\ UNCHANGED callers
     \/ \E c \in Callers :
          /\ callers[c].call.kind \notin {"none", "registry"} /\ callers[c].call.reply.state # "error"
          /\ stray' = stray \cup Abandoned({callers[c].call})
          /\ callers' = [callers EXCEPT ![c].call.reply = Refusal("error")]
          /\ UNCHANGED job
  /\ UNCHANGED <<setting, kind, now, origin, owners, retiring, binding, barrier, requests, applied>>

\* The origin object is evicted; its requests to the registry go on.
OriginEvicted ==
  /\ losses < setting.losses /\ losses' = losses + 1
  /\ stray' = stray \cup Abandoned({callers[c].call : c \in Callers})
  /\ callers' = [c \in Callers |-> IF callers[c].pc = "idle" THEN callers[c]
                                   ELSE [Quiet EXCEPT !.told = "error"]]
  /\ requests' = {[q EXCEPT !.by = "nobody"] : q \in requests}
  /\ job' = IF job.pc = "idle" THEN job ELSE [job EXCEPT !.by = "nobody"]
  /\ UNCHANGED <<setting, kind, now, origin, owners, retiring, binding, barrier, applied>>

\* The registry is evicted: the queue is lost, the barrier is not.
RegistryEvicted ==
  /\ losses < setting.losses /\ losses' = losses + 1
  /\ stray' = stray \cup Abandoned({job.call})
  /\ job' = Free /\ requests' = {}
  /\ callers' = [c \in Callers |-> IF callers[c].pc # "registry" \/ Answered(callers[c].call) THEN callers[c]
                   ELSE [callers[c] EXCEPT !.call = [Ask("registry", @.attempt) EXCEPT !.reply = Refusal("error")]]]
  /\ UNCHANGED <<setting, kind, now, origin, owners, retiring, binding, barrier, applied>>

Tick == now < setting.time /\ now' = now + 1
        /\ UNCHANGED <<setting, kind, origin, owners, retiring, callers, binding, barrier, requests, job, stray, applied, losses>>
-----------------------------------------------------------------------------
Init ==
  /\ setting \in Settings
  /\ kind \in Kinds /\ now = 0 /\ origin = Absent /\ owners = [r \in Realms |-> NoRow]
  /\ retiring = {} /\ callers = [c \in Callers |-> Quiet]
  /\ binding = [realm |-> CHOOSE r \in Realms : TRUE, revision |-> 0]
  /\ barrier = NoAttempt /\ requests = {} /\ job = Free
  /\ stray = {} /\ applied = <<>> /\ losses = 0

OwnerStep ==
  \/ (\E c \in Callers : ServeOrigin(c)) \/ ServeRegistry
  \/ (\E s \in stray : ServeStray(s))
  \/ (\E r \in Realms : retireStoredStateEventOwner(r)) \/ prune

Next == (\E c \in Callers : OriginStep(c)) \/ RegistryStep \/ OwnerStep
        \/ CallFails \/ OriginEvicted \/ RegistryEvicted \/ Tick

Spec == Init /\ [][Next]_vars

\* Fairness: calls of the registry are served or fail, its code goes on, and a
\* lifecycle operation that could not pass is tried again (the registry's
\* alarm retries revocations) and, the queue being first come first served,
\* gets its turn.
FairSpec == Spec /\ WF_vars(ServeRegistry)
                 /\ WF_vars(ResolveLookedUp \/ Resolved \/ StaleFenced \/ CommitAnswered \/ OutcomeUnknown)
                 /\ SF_vars(LifecycleTakesQueue)
-----------------------------------------------------------------------------
Calls == [kind : {"lookup", "fence", "confirm", "commit"}, attempt : Attempts]

\* The rows and what is in memory have their types.
TypeOK ==
  /\ setting \in Settings
  /\ kind \in Kinds /\ now \in 0 .. setting.time /\ losses \in 0 .. setting.losses
  /\ origin.state \in {"absent", "prepared", "committed", "expired"}
  /\ origin.attempt \in Attempts \cup {NoAttempt}
  /\ \A r \in Realms : owners[r].receipt \in Receipts \cup {NoReceipt}
                       /\ owners[r].fencedThrough \in 0 .. maxAttempts
  /\ retiring \subseteq Realms
  /\ \A c \in Callers : callers[c].told \in {"none", "committed", "refused", "expired", "error"}
  /\ binding \in Routes /\ barrier \in Attempts \cup {NoAttempt}
  /\ requests \subseteq [by : Callers \cup {"nobody"}, attempt : Attempts]
  /\ stray \subseteq Calls

\* The operation's mutation is applied at most once, over all realms, attempts,
\* retries, repins, lost answers and late calls (fenceStateEventOwner before
\* repinStateEventOrigin, and no receipt pruned while its source is fresh).
AppliedOnce == Len(applied) <= 1

\* A mutation is applied only while the attempt's route is the group's current
\* binding: a lifecycle operation does not pass a commit in flight
\* (resolveStateEventBarrier), and neither does a call that was given up.
AppliedUnderCurrentBinding ==
  applied' # applied => GroupLocal \/ applied'[Len(applied')].route = binding

\* Whoever asks the origin can learn that the mutation was applied: until the
\* origin itself has cached the receipt, its record names the attempt that was
\* applied and the owner still keeps the receipt.
LocatorFindsReceipt ==
  applied # <<>> /\ origin.state = "prepared" =>
    /\ origin.attempt = applied[1]
    /\ owners[origin.attempt.route.realm].receipt.attempt = applied[1]

\* Before its retention ends no applied operation looks unknown to its origin.
\* An origin that gave up never sees its operation applied, before or later.
OriginTellsTruth ==
  /\ origin.state = "expired" => applied = <<>>
  /\ origin.state = "committed" => applied = <<origin.receipt.attempt>>
  /\ origin.state = "absent" /\ Fresh => applied = <<>>

\* A Worker is told "committed" only of an applied mutation, and "expired"
\* only of one that is not applied and never will be.
AnswersAreFinal ==
  \A c \in Callers : /\ callers[c].told = "committed" => applied # <<>>
                     /\ callers[c].told = "expired" => applied = <<>>

\* The mutation is applied at most once, and whoever asks or was told knows what became
\* of it.
OutcomeKnown == AppliedOnce /\ LocatorFindsReceipt /\ OriginTellsTruth /\ AnswersAreFinal

\* A commit call that an owner would still honour is covered: the registry is
\* waiting for it, or the durable barrier names it, so a rebinding meets it.
NoUnguardedCommit ==
  \A s \in stray :
    s.kind = "commit" /\ Fresh /\ ownerValue(owners[s.attempt.route.realm], s.attempt).state = "absent"
      => barrier = s.attempt

\* Neither a commit in flight nor one that was given up is passed by a rebinding.
CommitsGuarded == [][NoUnguardedCommit' /\ AppliedUnderCurrentBinding]_vars

\* A commit of unknown outcome does not block the group's lifecycle for ever:
\* its barrier is resolved.
BarrierResolved == barrier # NoAttempt ~> barrier = NoAttempt
=============================================================================

---------------------------- MODULE EffectLedger ----------------------------
(***************************************************************************)
(* What the integration coordinator promises its callers, without alarms,  *)
(* leases, retries or requests in flight: an execution enters the ledger   *)
(* whole, each of its effects ends delivered or failed, a delivered effect *)
(* is final, a failed one may be rearmed by an operator, and only an       *)
(* execution that has settled is forgotten.  The status shown to callers   *)
(* is at every moment the summary of the effects.                          *)
(***************************************************************************)
EXTENDS Naturals

CONSTANTS Events,      \* source event ids
          Keys,        \* effect idempotency keys
          Requests     \* normalized executions: [event |-> .., keys |-> ..]

NoRequest == [event |-> "none", keys |-> {}]

VARIABLES accepted,    \* accepted[ev]: the execution recorded for ev
          owner,       \* owner[k]: the source event effect k belongs to
          outcome,     \* outcome[k]: where effect k stands
          status       \* status[ev]: the execution status callers read

vars == <<accepted, owner, outcome, status>>

Summary(ev, own, out) ==
  IF \E k \in Keys : own[k] = ev /\ out[k] = "outstanding" THEN "pending"
  ELSE IF \E k \in Keys : own[k] = ev /\ out[k] = "failed"
       THEN "completed_with_failures" ELSE "completed"

Settled == {ev \in Events : status[ev] \in {"completed", "completed_with_failures"}}

Init == /\ accepted = [ev \in Events |-> NoRequest]
        /\ owner = [k \in Keys |-> "none"]
        /\ outcome = [k \in Keys |-> "absent"]
        /\ status = [ev \in Events |-> "absent"]

\* The statuses after the effects changed: a recorded execution's status is
\* recomputed, an absent one stays absent.
Recomputed == [ev \in Events |-> IF accepted'[ev] = NoRequest THEN "absent"
                                 ELSE Summary(ev, owner', outcome')]

Accept(r) ==
  /\ accepted[r.event] = NoRequest
  /\ \A k \in r.keys : outcome[k] = "absent"
  /\ accepted' = [accepted EXCEPT ![r.event] = r]
  /\ owner' = [k \in Keys |-> IF k \in r.keys THEN r.event ELSE owner[k]]
  /\ outcome' = [k \in Keys |-> IF k \in r.keys THEN "outstanding" ELSE outcome[k]]
  /\ status' = Recomputed

Deliver(k) ==
  /\ outcome[k] = "outstanding"
  /\ outcome' = [outcome EXCEPT ![k] = "delivered"]
  /\ UNCHANGED <<accepted, owner>>
  /\ status' = Recomputed

Fail(K) ==
  /\ \A k \in K : outcome[k] = "outstanding"
  /\ outcome' = [k \in Keys |-> IF k \in K THEN "failed" ELSE outcome[k]]
  /\ UNCHANGED <<accepted, owner>>
  /\ status' = Recomputed

Rearm(k) ==
  /\ outcome[k] = "failed"
  /\ outcome' = [outcome EXCEPT ![k] = "outstanding"]
  /\ UNCHANGED <<accepted, owner>>
  /\ status' = Recomputed

Forget(E) ==
  /\ E \subseteq Settled
  /\ accepted' = [ev \in Events |-> IF ev \in E THEN NoRequest ELSE accepted[ev]]
  /\ owner' = [k \in Keys |-> IF owner[k] \in E THEN "none" ELSE owner[k]]
  /\ outcome' = [k \in Keys |-> IF owner[k] \in E THEN "absent" ELSE outcome[k]]
  /\ status' = [ev \in Events |-> IF ev \in E THEN "absent" ELSE status[ev]]

Next == \/ \E r \in Requests : Accept(r)
        \/ \E k \in Keys : Deliver(k) \/ Rearm(k)
        \/ \E K \in SUBSET Keys : Fail(K)
        \/ \E E \in SUBSET Events : Forget(E)

Spec == Init /\ [][Next]_vars
=============================================================================

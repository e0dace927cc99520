------------------------------ MODULE FeatureStore ------------------------------
(***************************************************************************)
(* What a feature is promised of its shared state, wherever the state      *)
(* lives and however often it moves: one store, in which every call takes  *)
(* effect at most once, at one moment between its request and its answer.  *)
(* The store may close for a while or for ever, and may be filled while    *)
(* nobody has written to it.                                               *)
(***************************************************************************)
EXTENDS Integers

CONSTANTS
  Callers,
  Operations, \* what may be asked: the kind, the key and an argument
  Plain,     \* the keys of plain values
  Counters,  \* the keys of bounded counters
  Initial,   \* the value a counter starts from
  Most,      \* the largest integer a value takes
  Nothing    \* no value

VARIABLES
  store,   \* what a read of each key answers
  calls,   \* the call each caller has made
  status,  \* "open", "sealed" or "archived"
  fresh,   \* nothing was ever written or filled in
  excused  \* the promise was broken in a way the implementation declares

vars == <<store, calls, status, fresh, excused>>

Keys == Plain \cup Counters
Stores == [Keys -> (0..Most) \cup {Nothing}]
Idle == [pc |-> "idle"]

Number(value) == IF value = Nothing THEN 0 ELSE value
Clamp(n) == IF n < 0 THEN 0 ELSE IF n > Most THEN Most ELSE n

Changed(op, old) ==
  CASE op.kind = "get" -> old
    [] op.kind \in {"set", "assign"} -> op.arg
    [] op.kind = "delete" -> Nothing
    [] op.kind = "increment" -> Number(old) + op.arg
    [] op.kind = "add" -> Clamp(old + op.arg)
    [] op.kind = "reset" -> Initial

Answer(op, old) ==
  IF op.kind = "delete" THEN (IF old = Nothing THEN 0 ELSE 1) ELSE Changed(op, old)

-----------------------------------------------------------------------------

Init ==
  /\ store \in Stores /\ calls = [c \in Callers |-> Idle]
  /\ status \in {"open", "sealed", "archived"} /\ fresh \in BOOLEAN /\ excused = FALSE

Ask(c) ==
  /\ calls[c] = Idle
  /\ \E op \in Operations : calls' = [calls EXCEPT ![c] = [pc |-> "asked", op |-> op]]
  /\ UNCHANGED <<store, status, fresh, excused>>

Apply(c) ==
  LET op == calls[c].op  old == store[op.key] IN
  /\ calls[c].pc = "asked"
  /\ op.kind # "get" => status = "open"
  /\ store' = [store EXCEPT ![op.key] = Changed(op, old)]
  /\ calls' = [calls EXCEPT ![c] = [pc |-> "answered", op |-> op, answer |-> Answer(op, old)]]
  /\ fresh' \in {fresh, FALSE} /\ (store' # store => ~fresh')
  /\ UNCHANGED <<status, excused>>

\* A call is refused, fails, or was answered and is over.
End(c) ==
  /\ calls[c] # Idle
  /\ \E gone \in SUBSET Callers :
       c \in gone /\ calls' = [d \in Callers |-> IF d \in gone THEN Idle ELSE calls[d]]
  /\ UNCHANGED <<store, status, fresh, excused>>

\* A snapshot or an empty state is put into a store nobody has used.
Fill ==
  /\ fresh /\ status = "open" /\ fresh' = FALSE /\ store' \in Stores
  /\ UNCHANGED <<calls, status, excused>>

Touch == fresh' = FALSE /\ UNCHANGED <<store, calls, status, excused>>

Close == status = "open" /\ status' \in {"sealed", "archived"} /\ UNCHANGED <<store, calls, fresh, excused>>
Reopen == status = "sealed" /\ status' \in {"open", "archived"} /\ UNCHANGED <<store, calls, fresh, excused>>

Excuse == excused'

Next ==
  \/ \E c \in Callers : Ask(c) \/ Apply(c) \/ End(c)
  \/ Fill \/ Touch \/ Close \/ Reopen \/ Excuse

Spec == Init /\ [][Next]_vars

=============================================================================

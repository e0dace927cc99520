------------------------- MODULE InboxAndQueryProofs -------------------------
(***************************************************************************)
(* Proofs about the EventSub inbox, for every set of messages, contents    *)
(* and drains and every value of the limits and durations; and, in the     *)
(* second half, about the observer of live queries (Obs), for every set of *)
(* pages and queries and every setting. Neither part uses the other.       *)
(*                                                                         *)
(* A turn of drain() is proved in two halves: what it does to the row its  *)
(* handler was called for (or to rows whose lease is over), which leaves   *)
(* the drain free, and then the claim of another row or its return.        *)
(*                                                                         *)
(* A step of the observer is proved page by page: the page it is about, a  *)
(* page of which only rows go (OthersKept), and a page that is away        *)
(* (AwayPage).  A row may move in the ways RowMoves names, and with them a *)
(* query stays in order (QueryStays); publishing appends one event to the  *)
(* flow of results to a page (FlowsOn), a message takes one off it         *)
(* (AcknowledgedFlow).                                                     *)
(***************************************************************************)
EXTENDS EventSubInbox, FiniteSetTheorems, TLAPS

USE NamesAssumption

-----------------------------------------------------------------------------
(* The inductive invariant, for rows rs, drains dr and an order bf           *)

Flying(dr, m) == {d \in Drains : dr[d].message = m}
\* The attempts in progress whose failure would still be retried.
Early(dr, m) == {d \in Flying(dr, m) : dr[d].attempts < MAX_DELIVERY_ATTEMPTS}
\* The attempts to come whose failure would still be retried.
Ahead(n) == IF n < MAX_DELIVERY_ATTEMPTS THEN MAX_DELIVERY_ATTEMPTS - 1 - n ELSE 0
Asks(row) == IF row.status \in Waiting THEN 1 ELSE 0
\* Drain d is between two handlers.
Freed(dr, d) == [dr EXCEPT ![d] = NoDrain]
\* Drain d waits for the handler of what it claimed.
Busy(dr, d, claim) == [dr EXCEPT ![d] = claim]

Types(rs, dr, bf) ==
  /\ rs \in [Ids -> Row] /\ dr \in [Drains -> Drain] /\ bf \in SUBSET (Ids \X Ids)
  /\ \A d \in Drains : IF dr[d].message = "none" THEN dr[d] = NoDrain ELSE dr[d].attempts > 0

\* A row is new, was attempted, or is settled.
RowFine(row) ==
  /\ row.status = "absent" => row = NoRow
  /\ row.status = "pending" => row.attempts = 0 /\ row.wait = 0
  /\ row.attempts = 0 => row.status \in {"absent", "pending"}
  /\ row.expired => row.status \in Settled

\* The row of an attempt in progress is there, and is not pruned.
Held(rs, dr) ==
  \A d \in Drains, m \in Ids :
    dr[d].message = m => rs[m].status \notin {"absent", "pending"} /\ ~rs[m].expired

Ordered(rs, bf) ==
  \A p \in bf : /\ rs[p[1]].status # "absent" /\ rs[p[2]].status # "absent"
                /\ rs[p[2]].attempts > 0 => rs[p[1]].attempts > 0

\* An attempt that may yet be retried is paid for by the limit, another one by
\* a lease that ran out.
Counted(rs, dr, m) ==
  /\ Cardinality(Flying(dr, m)) + Asks(rs[m]) + rs[m].runs <= 1 + rs[m].recovered
  /\ rs[m].attempts + Asks(rs[m]) + Ahead(rs[m].attempts) + Cardinality(Early(dr, m))
       <= MAX_DELIVERY_ATTEMPTS + rs[m].recovered

Tables(rs, dr, bf) ==
  /\ Types(rs, dr, bf) /\ Held(rs, dr) /\ Ordered(rs, bf)
  /\ \A m \in Ids : RowFine(rs[m]) /\ Counted(rs, dr, m)

Timers == /\ alarm \in Nat \cup {NoAlarm} /\ crashes \in 0 .. MaxCrashes /\ slow \in 0 .. MaxSlow
          /\ newest \in SUBSET Ids

IInv == Tables(rows, drains, before) /\ Timers /\ NoStrandedMessage

-----------------------------------------------------------------------------
(* Sets of drains                                                            *)

LEMMA DrainsFinite == IsFiniteSet(Drains) /\ AlarmDrain \in Drains /\ RequestDrains \subseteq Drains
<1>1. IsFiniteSet({AlarmDrain}) BY FS_Singleton
<1> QED BY <1>1, DrainsAssumption, FS_Union DEF Drains

\* The sets counted are finite.
LEMMA CountsAreNat ==
  ASSUME NEW dr, NEW m
  PROVE  /\ IsFiniteSet(Flying(dr, m)) /\ IsFiniteSet(Early(dr, m))
         /\ Cardinality(Flying(dr, m)) \in Nat /\ Cardinality(Early(dr, m)) \in Nat
<1>1. Flying(dr, m) \subseteq Drains /\ Early(dr, m) \subseteq Drains BY DEF Flying, Early
<1>2. IsFiniteSet(Flying(dr, m)) /\ IsFiniteSet(Early(dr, m)) BY <1>1, DrainsFinite, FS_Subset
<1> QED BY <1>2, FS_CardinalityType

\* A drain that is free is no longer counted for its message, and for no other
\* message is anything changed.
LEMMA FreedCounts ==
  ASSUME NEW dr \in [Drains -> Drain], NEW d \in Drains, NEW m \in Ids
  PROVE  /\ dr[d].message = m =>
              /\ Cardinality(Flying(Freed(dr, d), m)) = Cardinality(Flying(dr, m)) - 1
              /\ dr[d].attempts < MAX_DELIVERY_ATTEMPTS =>
                   Cardinality(Early(Freed(dr, d), m)) = Cardinality(Early(dr, m)) - 1
              /\ Cardinality(Early(Freed(dr, d), m)) <= Cardinality(Early(dr, m))
         /\ dr[d].message # m => /\ Flying(Freed(dr, d), m) = Flying(dr, m)
                                 /\ Early(Freed(dr, d), m) = Early(dr, m)
<1> DEFINE dn == Freed(dr, d)
<1>1. m # "none" /\ dn[d].message = "none" /\ \A e \in Drains : e # d => dn[e] = dr[e] BY DEF NoDrain, Freed
<1>2. Flying(dn, m) = Flying(dr, m) \ {d} /\ Early(dn, m) = Early(dr, m) \ {d} BY <1>1 DEF Flying, Early
<1> HIDE DEF dn
<1>3. CASE dr[d].message = m
 <2>1. d \in Flying(dr, m) /\ (dr[d].attempts < MAX_DELIVERY_ATTEMPTS => d \in Early(dr, m))
  BY <1>3 DEF Flying, Early
 <2>2. Cardinality(Flying(dr, m) \ {d}) = Cardinality(Flying(dr, m)) - 1 BY <2>1, CountsAreNat, FS_RemoveElement
 <2>3. Cardinality(Early(dn, m)) = IF d \in Early(dr, m) THEN Cardinality(Early(dr, m)) - 1
                                                          ELSE Cardinality(Early(dr, m))
  BY <1>2, CountsAreNat, FS_RemoveElement
 <2>4. Cardinality(Early(dn, m)) <= Cardinality(Early(dr, m)) BY <2>3, CountsAreNat
 <2> QED BY <1>2,<1>3,<2>1,<2>2,<2>3,<2>4 DEF dn
<1>4. CASE dr[d].message # m
 <2>1. d \notin Flying(dr, m) /\ d \notin Early(dr, m) BY <1>4 DEF Flying, Early
 <2> QED BY <1>4,<1>2,<2>1 DEF dn
<1> QED BY <1>3,<1>4

\* A free drain that claims a message is counted for it.
LEMMA Claimed ==
  ASSUME NEW dr \in [Drains -> Drain], NEW d \in Drains, dr[d].message = "none",
         NEW claim \in Drain, NEW m \in Ids
  PROVE  /\ claim.message = m =>
              /\ Cardinality(Flying(Busy(dr, d, claim), m)) = Cardinality(Flying(dr, m)) + 1
              /\ Cardinality(Early(Busy(dr, d, claim), m)) =
                   Cardinality(Early(dr, m)) + (IF claim.attempts < MAX_DELIVERY_ATTEMPTS THEN 1 ELSE 0)
         /\ claim.message # m => /\ Flying(Busy(dr, d, claim), m) = Flying(dr, m)
                                 /\ Early(Busy(dr, d, claim), m) = Early(dr, m)
<1> DEFINE dn == Busy(dr, d, claim)
<1>1. m # "none" /\ dn[d] = claim /\ (\A e \in Drains : e # d => dn[e] = dr[e])
      /\ d \notin Flying(dr, m) /\ d \notin Early(dr, m) BY DEF Flying, Early, Busy
<1>2. CASE claim.message = m
 <2>1. Flying(dn, m) = Flying(dr, m) \cup {d} BY <1>1,<1>2 DEF Flying
 <2>2. Early(dn, m) = IF claim.attempts < MAX_DELIVERY_ATTEMPTS THEN Early(dr, m) \cup {d} ELSE Early(dr, m)
  BY <1>1,<1>2 DEF Flying, Early
 <2>3. /\ Cardinality(Flying(dr, m) \cup {d}) = Cardinality(Flying(dr, m)) + 1
       /\ Cardinality(Early(dr, m) \cup {d}) = Cardinality(Early(dr, m)) + 1 BY <1>1, CountsAreNat, FS_AddElement
 <2>4. Cardinality(Early(dr, m)) + 0 = Cardinality(Early(dr, m)) BY CountsAreNat
 <2> QED BY <1>2,<2>1,<2>2,<2>3,<2>4
<1>3. CASE claim.message # m BY <1>1,<1>3 DEF Flying, Early
<1> QED BY <1>2,<1>3

-----------------------------------------------------------------------------
(* The first half of a turn                                                  *)

\* A row may change while it keeps its attempts, if it stays in order with
\* the drains and pays for what it asks; the order of rows is not disturbed.
LEMMA RowChanges ==
  ASSUME NEW rs, NEW dr, NEW bf, Tables(rs, dr, bf),
         NEW dn, Types(rs, dn, bf), NEW m \in Ids, NEW row \in Row,
         RowFine(row), row.attempts = rs[m].attempts, row.status # "absent", rs[m].status # "absent",
         \A d \in Drains : dn[d].message # "none" => dn[d] = dr[d],
         \A d \in Drains : dn[d].message = m => row.status # "pending" /\ ~row.expired,
         Counted([rs EXCEPT ![m] = row], dn, m),
         \A x \in Ids \ {m} : Flying(dn, x) = Flying(dr, x) /\ Early(dn, x) = Early(dr, x)
  PROVE  Tables([rs EXCEPT ![m] = row], dn, bf)
<1> DEFINE rn == [rs EXCEPT ![m] = row]
<1>1. rn \in [Ids -> Row] /\ rn[m] = row /\ \A x \in Ids \ {m} : rn[x] = rs[x] BY DEF Tables, Types
<1>2. Types(rn, dn, bf) BY <1>1 DEF Types
<1>3. Held(rn, dn)
 <2> SUFFICES ASSUME NEW d \in Drains, NEW x \in Ids, dn[d].message = x
              PROVE  rn[x].status \notin {"absent", "pending"} /\ ~rn[x].expired BY DEF Held
 <2>1. CASE x = m BY <2>1,<1>1
 <2>2. CASE x # m BY <2>2,<1>1 DEF Tables, Held
 <2> QED BY <2>1,<2>2
<1>4. Ordered(rn, bf)
 <2> SUFFICES ASSUME NEW p \in bf
              PROVE  /\ rn[p[1]].status # "absent" /\ rn[p[2]].status # "absent"
                     /\ rn[p[2]].attempts > 0 => rn[p[1]].attempts > 0 BY DEF Ordered
 <2>1. p[1] \in Ids /\ p[2] \in Ids BY DEF Tables, Types
 <2>2. /\ rs[p[1]].status # "absent" /\ rs[p[2]].status # "absent"
       /\ rs[p[2]].attempts > 0 => rs[p[1]].attempts > 0 BY DEF Tables, Ordered
 <2> QED BY <2>1,<2>2,<1>1
<1>5. ASSUME NEW x \in Ids PROVE RowFine(rn[x]) /\ Counted(rn, dn, x)
 <2>1. CASE x = m BY <2>1,<1>1
 <2>2. CASE x # m BY <2>2,<1>1 DEF Tables, Counted
 <2> QED BY <2>1,<2>2
<1> QED BY <1>2,<1>3,<1>4,<1>5 DEF Tables

\* The types of the parts of a row, and of what is counted from it.
LEMMA RowParts ==
  ASSUME NEW row \in Row
  PROVE  /\ row.status \in {"absent", "pending", "retry_wait", "attempting", "completed", "dead_letter"}
         /\ row.attempts \in Nat /\ row.wait \in Nat /\ row.runs \in Nat /\ row.recovered \in Nat
         /\ row.expired \in BOOLEAN /\ Asks(row) \in Nat /\ Ahead(row.attempts) \in Nat
<1>1. MAX_DELIVERY_ATTEMPTS \in Nat BY LimitsAssumption
<1> QED BY <1>1 DEF Row, Outstanding, Waiting, Settled, Asks, Ahead

\* recoverExpiredAttempts: the lease that ran out pays for the next attempt.
LEMMA Recovered ==
  ASSUME NEW rs, NEW dr, NEW bf, Tables(rs, dr, bf)
  PROVE  Tables(recoverExpiredAttempts(rs), dr, bf)
<1> DEFINE rn == recoverExpiredAttempts(rs)
           again(m) == rs[m].status = "attempting" /\ rs[m].wait = 0
<1>1. ASSUME NEW m \in Ids
      PROVE  /\ rs[m] \in Row
             /\ again(m) => rn[m] = [rs[m] EXCEPT !.status = "retry_wait", !.recovered = rs[m].recovered + 1]
             /\ ~again(m) => rn[m] = rs[m] BY DEF recoverExpiredAttempts, Tables, Types
<1>2. ASSUME NEW m \in Ids
      PROVE  /\ rn[m] \in Row /\ rn[m].attempts = rs[m].attempts /\ rn[m].expired = rs[m].expired
             /\ rn[m].runs = rs[m].runs
             /\ rn[m].status = "absent" <=> rs[m].status = "absent"
             /\ rn[m].status = "pending" <=> rs[m].status = "pending"
             /\ again(m) => rn[m].status = "retry_wait" /\ rn[m].recovered = rs[m].recovered + 1
 <2>1. CASE again(m)
  <3> DEFINE row == [rs[m] EXCEPT !.status = "retry_wait", !.recovered = rs[m].recovered + 1]
  <3>1. rs[m] \in Row /\ rn[m] = row /\ rs[m].status = "attempting" BY <1>1,<2>1
  <3>a. rs[m].recovered + 1 \in Nat /\ "retry_wait" \in Outstanding BY <3>1, RowParts DEF Outstanding, Waiting
  <3>2. /\ row \in Row /\ row.attempts = rs[m].attempts /\ row.expired = rs[m].expired
        /\ row.runs = rs[m].runs /\ row.status = "retry_wait" /\ row.recovered = rs[m].recovered + 1
   BY <3>1,<3>a DEF Row
  <3> QED BY <3>1,<3>2
 <2>2. CASE ~again(m) BY <1>1,<2>2
 <2> QED BY <2>1,<2>2
<1>3. Types(rn, dr, bf) BY <1>2 DEF recoverExpiredAttempts, Tables, Types
<1>4. Held(rn, dr) BY <1>2 DEF Tables, Held
<1>5. Ordered(rn, bf)
 <2> SUFFICES ASSUME NEW p \in bf
              PROVE  /\ rn[p[1]].status # "absent" /\ rn[p[2]].status # "absent"
                     /\ rn[p[2]].attempts > 0 => rn[p[1]].attempts > 0 BY DEF Ordered
 <2>1. p[1] \in Ids /\ p[2] \in Ids BY DEF Tables, Types
 <2> QED BY <2>1,<1>2 DEF Tables, Ordered
<1>6. ASSUME NEW m \in Ids PROVE RowFine(rn[m]) /\ Counted(rn, dr, m)
 <2>1. RowFine(rs[m]) /\ Counted(rs, dr, m) /\ rs[m] \in Row BY <1>1 DEF Tables
 <2>2. CASE again(m)
  <3>1. RowFine(rn[m]) BY <2>1,<2>2,<1>2 DEF RowFine, Settled
  <3>2. Asks(rs[m]) = 0 /\ Asks(rn[m]) = 1 BY <2>2,<1>2 DEF Asks, Waiting
  <3>3. /\ rs[m].attempts \in Nat /\ rs[m].runs \in Nat /\ rs[m].recovered \in Nat
        /\ Ahead(rs[m].attempts) \in Nat /\ Cardinality(Flying(dr, m)) \in Nat /\ Cardinality(Early(dr, m)) \in Nat
   BY <2>1, RowParts, CountsAreNat
  <3>4. rn[m].attempts = rs[m].attempts /\ rn[m].runs = rs[m].runs /\ rn[m].recovered = rs[m].recovered + 1
   BY <2>2,<1>2
  <3>5. MAX_DELIVERY_ATTEMPTS \in Nat BY LimitsAssumption
  <3>6. Counted(rn, dr, m)
   <4> DEFINE f == Cardinality(Flying(dr, m))  e == Cardinality(Early(dr, m))  ahead == Ahead(rs[m].attempts)
   <4>1. f + rs[m].runs <= 1 + rs[m].recovered /\ rs[m].attempts + ahead + e <= MAX_DELIVERY_ATTEMPTS + rs[m].recovered
    BY <2>1,<3>2,<3>3,<3>5 DEF Counted
   <4>2. Ahead(rn[m].attempts) = ahead BY <3>4
   <4> HIDE DEF rn, f, e, ahead
   <4>3. /\ f + 1 + rn[m].runs <= 1 + rn[m].recovered
         /\ rn[m].attempts + 1 + ahead + e <= MAX_DELIVERY_ATTEMPTS + rn[m].recovered
    BY <4>1,<3>3,<3>4,<3>5 DEF f, e, ahead
   <4> QED BY <4>2,<4>3,<3>2 DEF Counted, f, e
  <3> QED BY <3>1,<3>6
 <2>3. CASE ~again(m) BY <2>1,<2>3,<1>1 DEF Counted
 <2> QED BY <2>2,<2>3
<1> QED BY <1>3,<1>4,<1>5,<1>6 DEF Tables

\* complete() and fail() release the drain: what the handler did is counted
\* for the row, whatever the row had become.
LEMMA ReleasedRow ==
  ASSUME NEW rs, NEW dr, NEW bf, Tables(rs, dr, bf), NEW d \in Drains, dr[d].message # "none"
  PROVE  /\ dr \in [Drains -> Drain] /\ dr[d].message \in Ids /\ dr[d].attempts \in Nat \ {0}
         /\ rs \in [Ids -> Row] /\ rs[dr[d].message].status \notin {"absent", "pending"}
         /\ ~rs[dr[d].message].expired /\ rs[dr[d].message].attempts > 0
         /\ Types(rs, Freed(dr, d), bf)
         /\ \A e \in Drains : Freed(dr, d)[e].message # "none" => Freed(dr, d)[e] = dr[e]
<1> DEFINE m == dr[d].message
<1>1. dr \in [Drains -> Drain] /\ rs \in [Ids -> Row] /\ m \in Ids /\ dr[d].attempts \in Nat \ {0} /\ NoDrain \in Drain
 BY LimitsAssumption DEF Tables, Types, Drain, NoDrain
<1>2. rs[m] \in Row /\ RowFine(rs[m]) /\ rs[m].status \notin {"absent", "pending"} /\ ~rs[m].expired
 BY <1>1 DEF Tables, Held
<1>3. rs[m].attempts > 0 BY <1>2, RowParts DEF RowFine
<1>4. \A e \in Drains : IF e = d THEN Freed(dr, d)[e] = NoDrain ELSE Freed(dr, d)[e] = dr[e] BY <1>1 DEF Freed
<1>5. Types(rs, Freed(dr, d), bf)
 <2>1. Freed(dr, d) \in [Drains -> Drain] BY <1>1 DEF Freed
 <2> QED BY <2>1,<1>4 DEF Tables, Types, NoDrain
<1>6. \A e \in Drains : Freed(dr, d)[e].message # "none" => Freed(dr, d)[e] = dr[e] BY <1>4 DEF NoDrain
<1> QED BY <1>1,<1>2,<1>3,<1>5,<1>6

\* The arithmetic of a release: one attempt less in progress pays for a return,
\* for nothing, or for another request of an attempt that is still early.
LEMMA ReleasePays ==
  ASSUME NEW f \in Nat, NEW e \in Nat, NEW fn \in Nat, NEW en \in Nat, NEW runs \in Nat, NEW recovered \in Nat,
         NEW attempts \in Nat, NEW ahead \in Nat, NEW limit \in Nat, NEW asks \in Nat, NEW asksn, NEW runsn,
         NEW early \in BOOLEAN,
         fn = f - 1, en <= e, early => en = e - 1,
         f + asks + runs <= 1 + recovered, attempts + asks + ahead + e <= limit + recovered,
         \/ runsn = runs + 1 /\ asksn = 0
         \/ runsn = runs /\ asksn = 0
         \/ runsn = runs /\ asksn = 1 /\ early
  PROVE  fn + asksn + runsn <= 1 + recovered /\ attempts + asksn + ahead + en <= limit + recovered
OBVIOUS

\* What the row may take on when the drain is released.
LEMMA ReleasedCounts ==
  ASSUME NEW rs, NEW dr, NEW bf, Tables(rs, dr, bf), NEW d \in Drains, dr[d].message # "none",
         NEW row \in Row, row.attempts = rs[dr[d].message].attempts,
         row.recovered = rs[dr[d].message].recovered,
         \/ row.runs = rs[dr[d].message].runs + 1 /\ Asks(row) = 0
         \/ row.runs = rs[dr[d].message].runs /\ Asks(row) = 0
         \/ /\ row.runs = rs[dr[d].message].runs /\ Asks(row) = 1
            /\ dr[d].attempts < MAX_DELIVERY_ATTEMPTS
  PROVE  /\ Counted([rs EXCEPT ![dr[d].message] = row], Freed(dr, d), dr[d].message)
         /\ \A x \in Ids \ {dr[d].message} : /\ Flying(Freed(dr, d), x) = Flying(dr, x)
                                             /\ Early(Freed(dr, d), x) = Early(dr, x)
<1> DEFINE m == dr[d].message
           f == Cardinality(Flying(dr, m))  fn == Cardinality(Flying(Freed(dr, d), m))
           e == Cardinality(Early(dr, m))   en == Cardinality(Early(Freed(dr, d), m))
           old == rs[m]
<1>1. dr \in [Drains -> Drain] /\ m \in Ids /\ dr[d].attempts \in Nat /\ rs \in [Ids -> Row] BY ReleasedRow
<1>2. old \in Row /\ Counted(rs, dr, m) BY <1>1 DEF Tables
<1>3. f \in Nat /\ fn \in Nat /\ e \in Nat /\ en \in Nat BY CountsAreNat
<1>4. fn = f - 1 /\ en <= e /\ (dr[d].attempts < MAX_DELIVERY_ATTEMPTS => en = e - 1) BY <1>1, FreedCounts
<1>5. /\ old.attempts \in Nat /\ old.runs \in Nat /\ old.recovered \in Nat
      /\ Asks(old) \in Nat /\ Ahead(old.attempts) \in Nat BY <1>2, RowParts
<1>6. f + Asks(old) + old.runs <= 1 + old.recovered
      /\ old.attempts + Asks(old) + Ahead(old.attempts) + e <= MAX_DELIVERY_ATTEMPTS + old.recovered
 BY <1>2 DEF Counted
<1> HIDE DEF f, fn, e, en
<1>7. /\ fn + Asks(row) + row.runs <= 1 + old.recovered
      /\ old.attempts + Asks(row) + Ahead(old.attempts) + en <= MAX_DELIVERY_ATTEMPTS + old.recovered
 <2> DEFINE early == dr[d].attempts < MAX_DELIVERY_ATTEMPTS
 <2>1. MAX_DELIVERY_ATTEMPTS \in Nat /\ early \in BOOLEAN BY LimitsAssumption
 <2> HIDE DEF early
 <2>2. early => en = e - 1 BY <1>4 DEF early
 <2>3. \/ row.runs = old.runs + 1 /\ Asks(row) = 0
       \/ row.runs = old.runs /\ Asks(row) = 0
       \/ row.runs = old.runs /\ Asks(row) = 1 /\ early BY DEF early
 <2> HIDE DEF old
 <2> QED BY <1>3,<1>4,<1>5,<1>6,<2>1,<2>2,<2>3, ReleasePays
<1>8. Counted([rs EXCEPT ![m] = row], Freed(dr, d), m) BY <1>1,<1>7 DEF Counted, fn, en
<1>9. \A x \in Ids \ {m} : Flying(Freed(dr, d), x) = Flying(dr, x) /\ Early(Freed(dr, d), x) = Early(dr, x)
 BY <1>1, FreedCounts
<1> QED BY <1>8,<1>9

\* Releasing the drain with a row that pays for what it asks.
LEMMA Releases ==
  ASSUME NEW rs, NEW dr, NEW bf, Tables(rs, dr, bf), NEW d \in Drains, dr[d].message # "none",
         NEW row \in Row, row.attempts = rs[dr[d].message].attempts, ~row.expired,
         row.recovered = rs[dr[d].message].recovered, row.status \notin {"absent", "pending"},
         \/ row.runs = rs[dr[d].message].runs + 1 /\ Asks(row) = 0
         \/ row.runs = rs[dr[d].message].runs /\ Asks(row) = 0
         \/ /\ row.runs = rs[dr[d].message].runs /\ Asks(row) = 1
            /\ dr[d].attempts < MAX_DELIVERY_ATTEMPTS
  PROVE  Tables([rs EXCEPT ![dr[d].message] = row], Freed(dr, d), bf)
<1> DEFINE m == dr[d].message
<1>1. /\ m \in Ids /\ rs[m].status # "absent" /\ rs[m].attempts > 0 /\ Types(rs, Freed(dr, d), bf)
      /\ \A e \in Drains : Freed(dr, d)[e].message # "none" => Freed(dr, d)[e] = dr[e] BY ReleasedRow
<1>2. RowFine(row) BY <1>1, RowParts DEF RowFine
<1>3. /\ Counted([rs EXCEPT ![m] = row], Freed(dr, d), m)
      /\ \A x \in Ids \ {m} : Flying(Freed(dr, d), x) = Flying(dr, x) /\ Early(Freed(dr, d), x) = Early(dr, x)
 BY ReleasedCounts
<1>4. row.status # "absent" /\ row.status # "pending" OBVIOUS
<1> HIDE DEF m
<1>5. Tables([rs EXCEPT ![m] = row], Freed(dr, d), bf) BY <1>1,<1>2,<1>3,<1>4, RowChanges DEF m
<1> QED BY <1>5 DEF m

LEMMA Completed ==
  ASSUME NEW rs, NEW dr, NEW bf, Tables(rs, dr, bf), NEW d \in Drains, dr[d].message # "none"
  PROVE  Tables(complete(rs, dr[d].message), Freed(dr, d), bf)
<1> DEFINE m == dr[d].message
           row == [rs[m] EXCEPT !.status = "completed", !.wait = 0, !.expired = FALSE, !.runs = rs[m].runs + 1]
<1>1. m \in Ids /\ rs \in [Ids -> Row] /\ rs[m] \in Row BY ReleasedRow
<1>a. rs[m].runs + 1 \in Nat /\ "completed" \in Settled BY <1>1, RowParts DEF Settled
<1>2. row \in Row /\ row.status = "completed" /\ ~row.expired /\ row.attempts = rs[m].attempts
      /\ row.runs = rs[m].runs + 1 /\ row.recovered = rs[m].recovered BY <1>1,<1>a DEF Row
<1>3. complete(rs, m) = [rs EXCEPT ![m] = row] BY <1>1 DEF complete, Row
<1> HIDE DEF row
<1>4. Asks(row) = 0 BY <1>2 DEF Asks, Waiting
<1> QED BY <1>2,<1>3,<1>4, Releases

LEMMA Failed ==
  ASSUME NEW rs, NEW dr, NEW bf, Tables(rs, dr, bf), NEW d \in Drains, dr[d].message # "none",
         NEW retryable \in BOOLEAN
  PROVE  Tables(fail(rs, dr[d], retryable), Freed(dr, d), bf)
<1> DEFINE m == dr[d].message
           terminal == Terminal(dr[d], retryable)
           wait == IF terminal THEN 0 ELSE RetryDelay(dr[d].attempts)
           row == [rs[m] EXCEPT !.status = IF terminal THEN "dead_letter" ELSE "retry_wait",
                                !.wait = wait, !.expired = FALSE]
<1>1. m \in Ids /\ rs \in [Ids -> Row] /\ rs[m] \in Row /\ dr[d].attempts \in Nat \ {0} BY ReleasedRow
<1>2. terminal \in BOOLEAN /\ (~terminal => dr[d].attempts < MAX_DELIVERY_ATTEMPTS)
 BY <1>1, LimitsAssumption DEF Terminal
<1>3. wait \in Nat
 <2>1. RetryDelay(dr[d].attempts) \in Nat BY <1>1, LimitsAssumption DEF RetryDelay
 <2> QED BY <2>1
<1> HIDE DEF terminal, wait
<1>4. row \in Row /\ row.status = (IF terminal THEN "dead_letter" ELSE "retry_wait") /\ ~row.expired
      /\ row.attempts = rs[m].attempts /\ row.runs = rs[m].runs /\ row.recovered = rs[m].recovered
 BY <1>1,<1>3 DEF Row, Settled, Outstanding, Waiting
<1>5. fail(rs, dr[d], retryable) = [rs EXCEPT ![m] = row] BY <1>1 DEF fail, Row, wait, terminal
<1> HIDE DEF row
<1>6. Asks(row) = IF terminal THEN 0 ELSE 1 BY <1>2,<1>4 DEF Asks, Waiting
<1>7. row.status \notin {"absent", "pending"} BY <1>4
<1> QED BY <1>2,<1>4,<1>5,<1>6,<1>7, Releases

-----------------------------------------------------------------------------
(* The second half of a turn: claim or return                                *)

\* A claim asks for one attempt less and has one more in progress.
LEMMA ClaimPays ==
  ASSUME NEW n \in Nat, NEW limit \in Nat \ {0}, NEW e \in Nat, NEW en,
         en = e + (IF n + 1 < limit THEN 1 ELSE 0)
  PROVE  n + 1 + (IF n + 1 < limit THEN limit - 1 - (n + 1) ELSE 0) + en
           = n + 1 + (IF n < limit THEN limit - 1 - n ELSE 0) + e
<1>1. CASE n + 1 < limit BY <1>1
<1>2. CASE ~(n + 1 < limit) BY <1>2
<1> QED BY <1>1,<1>2

Taken(rs, m) == [rs EXCEPT ![m].status = "attempting", ![m].wait = ATTEMPT_LEASE, ![m].attempts = NextAttempt(rs[m])]
Hold(rs, m, n) == [message |-> m, attempts |-> NextAttempt(rs[m]), processed |-> n + 1]

\* claimNext: the first of the due messages, so every message before it has
\* been tried.
LEMMA Claims ==
  ASSUME NEW rs, NEW dr, Tables(rs, dr, before), NEW d \in Drains, dr[d].message = "none",
         NEW n \in 0 .. DRAIN_BATCH_SIZE, MoreFits(n), NEW m \in Ids, First(m, rs)
  PROVE  Tables(Taken(rs, m), Busy(dr, d, Hold(rs, m, n)), before)
<1> DEFINE rn == Taken(rs, m)  dn == Busy(dr, d, Hold(rs, m, n))
<1>1. dr \in [Drains -> Drain] /\ rs \in [Ids -> Row] /\ before \in SUBSET (Ids \X Ids) BY DEF Tables, Types
<1>2. rs[m] \in Row /\ RowFine(rs[m]) /\ Counted(rs, dr, m) /\ rs[m].status \in Waiting
 BY <1>1 DEF Tables, First, Due
<1>3. /\ rs[m].attempts \in Nat /\ rs[m].runs \in Nat /\ rs[m].recovered \in Nat /\ rs[m].expired \in BOOLEAN
      /\ NextAttempt(rs[m]) = rs[m].attempts + 1 /\ ATTEMPT_LEASE \in Nat /\ MAX_DELIVERY_ATTEMPTS \in Nat \ {0}
 BY <1>2, RowParts, LimitsAssumption DEF NextAttempt
<1>4. /\ rn \in [Ids -> Row] /\ \A x \in Ids \ {m} : rn[x] = rs[x]
      /\ rn[m].status = "attempting" /\ rn[m].attempts = rs[m].attempts + 1 /\ rn[m].runs = rs[m].runs
      /\ rn[m].recovered = rs[m].recovered /\ rn[m].expired = rs[m].expired
 <2>1. "attempting" \in Outstanding /\ rs[m].attempts + 1 \in Nat BY <1>3 DEF Outstanding
 <2>2. [rs[m] EXCEPT !.status = "attempting", !.wait = ATTEMPT_LEASE, !.attempts = NextAttempt(rs[m])] \in Row
  BY <1>2,<1>3,<2>1 DEF Row
 <2>3. rn = [rs EXCEPT ![m] = [rs[m] EXCEPT !.status = "attempting", !.wait = ATTEMPT_LEASE,
                                            !.attempts = NextAttempt(rs[m])]] BY <1>1,<1>2 DEF Taken, Row
 <2> QED BY <1>1,<1>2,<1>3,<2>2,<2>3 DEF Row
<1>5. Hold(rs, m, n) \in Drain /\ Hold(rs, m, n).message = m /\ Hold(rs, m, n).attempts = rs[m].attempts + 1
 BY <1>3, LimitsAssumption DEF Hold, Drain, MoreFits
<1>6. dn \in [Drains -> Drain] /\ dn[d] = Hold(rs, m, n) /\ \A e \in Drains \ {d} : dn[e] = dr[e]
 BY <1>1,<1>5 DEF Busy
<1>7. ~rs[m].expired BY <1>2 DEF RowFine, Settled, Waiting
<1> HIDE DEF rn, dn
<1>8. Types(rn, dn, before)
 <2>1. \A e \in Drains : IF dn[e].message = "none" THEN dn[e] = NoDrain ELSE dn[e].attempts > 0
  BY <1>3,<1>5,<1>6 DEF Tables, Types
 <2> QED BY <1>1,<1>4,<1>6,<2>1 DEF Types
<1>9. Held(rn, dn)
 <2> SUFFICES ASSUME NEW e \in Drains, NEW x \in Ids, dn[e].message = x
              PROVE  rn[x].status \notin {"absent", "pending"} /\ ~rn[x].expired BY DEF Held
 <2>1. CASE x = m BY <2>1,<1>4,<1>7
 <2>2. CASE x # m BY <2>2,<1>4,<1>5,<1>6 DEF Tables, Held
 <2> QED BY <2>1,<2>2
<1>10. Ordered(rn, before)
 <2> SUFFICES ASSUME NEW p \in before
              PROVE  /\ rn[p[1]].status # "absent" /\ rn[p[2]].status # "absent"
                     /\ rn[p[2]].attempts > 0 => rn[p[1]].attempts > 0 BY DEF Ordered
 <2>1. p[1] \in Ids /\ p[2] \in Ids /\ p = <<p[1], p[2]>> BY <1>1
 <2>2. /\ rs[p[1]].status # "absent" /\ rs[p[2]].status # "absent"
       /\ rs[p[2]].attempts > 0 => rs[p[1]].attempts > 0 BY DEF Tables, Ordered
 <2>3. CASE p[1] = m BY <2>1,<2>2,<2>3,<1>3,<1>4
 <2>4. CASE p[1] # m /\ p[2] # m BY <2>1,<2>2,<2>4,<1>4
 <2>5. CASE p[1] # m /\ p[2] = m
  <3>1. rs[p[1]].attempts # 0
   <4> SUFFICES ASSUME rs[p[1]].attempts = 0 PROVE FALSE OBVIOUS
   <4>1. RowFine(rs[p[1]]) BY <2>1 DEF Tables
   <4>2. rs[p[1]].status = "pending" /\ rs[p[1]].wait = 0 BY <2>2,<4>1 DEF RowFine
   <4>3. p[1] \in Due(rs) BY <2>1,<4>2 DEF Due, Waiting
   <4> QED BY <2>1,<2>5,<4>3 DEF First
  <3>2. rs[p[1]].attempts \in Nat BY <2>1,<1>1, RowParts
  <3> QED BY <2>1,<2>2,<2>5,<3>1,<3>2,<1>4
 <2> QED BY <2>3,<2>4,<2>5
<1>11. ASSUME NEW x \in Ids PROVE RowFine(rn[x]) /\ Counted(rn, dn, x)
 <2>1. CASE x # m
  <3>1. Flying(dn, x) = Flying(dr, x) /\ Early(dn, x) = Early(dr, x) BY <2>1,<1>1,<1>5, Claimed DEF dn
  <3> QED BY <2>1,<3>1,<1>4 DEF Tables, Counted
 <2>2. CASE x = m
  <3> DEFINE f == Cardinality(Flying(dr, m))  e == Cardinality(Early(dr, m))
             fn == Cardinality(Flying(dn, m))  en == Cardinality(Early(dn, m))
  <3>1. fn = f + 1 /\ en = e + (IF rs[m].attempts + 1 < MAX_DELIVERY_ATTEMPTS THEN 1 ELSE 0)
   BY <1>1,<1>5, Claimed DEF dn
  <3>2. f \in Nat /\ e \in Nat BY CountsAreNat
  <3>3. Asks(rs[m]) = 1 /\ Asks(rn[m]) = 0 BY <1>2,<1>4 DEF Asks, Waiting
  <3>4. /\ f + 1 + rs[m].runs <= 1 + rs[m].recovered
        /\ rs[m].attempts + 1 + Ahead(rs[m].attempts) + e <= MAX_DELIVERY_ATTEMPTS + rs[m].recovered
   BY <1>2,<3>3 DEF Counted
  <3> HIDE DEF f, e, fn, en
  <3>5. rs[m].attempts + 1 + Ahead(rs[m].attempts + 1) + en = rs[m].attempts + 1 + Ahead(rs[m].attempts) + e
   BY <1>3,<3>1,<3>2, ClaimPays DEF Ahead
  <3>6. Ahead(rs[m].attempts + 1) \in Nat BY <1>3 DEF Ahead
  <3>7. /\ fn + 0 + rs[m].runs <= 1 + rs[m].recovered
        /\ rs[m].attempts + 1 + 0 + Ahead(rs[m].attempts + 1) + en <= MAX_DELIVERY_ATTEMPTS + rs[m].recovered
   BY <1>3,<3>1,<3>2,<3>4,<3>5,<3>6
  <3>8. Counted(rn, dn, m) BY <1>4,<3>3,<3>7 DEF Counted, fn, en
  <3>9. RowFine(rn[m]) BY <1>3,<1>4,<1>7 DEF RowFine
  <3> QED BY <2>2,<3>8,<3>9
 <2> QED BY <2>1,<2>2
<1> QED BY <1>8,<1>9,<1>10,<1>11 DEF Tables, rn, dn

\* Nothing is in progress for a row without a message, which asks for nothing.
LEMMA NoRowFine ==
  /\ NoRow \in Row /\ RowFine(NoRow) /\ Asks(NoRow) = 0 /\ NoRow.attempts = 0 /\ NoRow.runs = 0
  /\ NoRow.recovered = 0 /\ NoRow.status = "absent" /\ ~NoRow.expired
BY DEF NoRow, Row, RowFine, Asks, Waiting

LEMMA RowIsNew ==
  ASSUME NEW row \in Row, row.status = "absent", row.body = "none", row.attempts = 0, row.wait = 0,
         ~row.expired, row.runs = 0, row.recovered = 0
  PROVE  row = NoRow
BY DEF Row, NoRow

\* With no attempt in progress a row that was not tried pays for one.
LEMMA FreshCounted ==
  ASSUME NEW rs, NEW dr, NEW m, \A d \in Drains : dr[d].message # m,
         rs[m].attempts = 0, rs[m].runs = 0, rs[m].recovered = 0
  PROVE  Counted(rs, dr, m)
<1>1. Flying(dr, m) = {} /\ Early(dr, m) = {} BY DEF Flying, Early
<1>2. Cardinality(Flying(dr, m)) = 0 /\ Cardinality(Early(dr, m)) = 0 BY <1>1, FS_EmptySet
<1>3. MAX_DELIVERY_ATTEMPTS \in Nat \ {0} /\ Asks(rs[m]) \in {0, 1} BY LimitsAssumption DEF Asks
<1>4. Ahead(rs[m].attempts) = MAX_DELIVERY_ATTEMPTS - 1 BY <1>3 DEF Ahead
<1> QED BY <1>2,<1>3,<1>4 DEF Counted

\* prune removes settled rows nothing is in progress for.
LEMMA Prunes ==
  ASSUME NEW rs, NEW dr, Tables(rs, dr, before)
  PROVE  Tables(prune(rs), dr, kept(rs))
<1> DEFINE rn == prune(rs)
<1>1. dr \in [Drains -> Drain] /\ rs \in [Ids -> Row] /\ before \in SUBSET (Ids \X Ids) BY DEF Tables, Types
<1>2. rn \in [Ids -> Row] /\ \A m \in Ids : rn[m] = IF rs[m].expired THEN NoRow ELSE rs[m]
 BY <1>1, NoRowFine DEF prune
<1> HIDE DEF rn
<1>3. Types(rn, dr, kept(rs)) BY <1>1,<1>2 DEF Tables, Types, kept
<1>4. Held(rn, dr) BY <1>2 DEF Tables, Held
<1>5. Ordered(rn, kept(rs))
 <2> SUFFICES ASSUME NEW p \in kept(rs)
              PROVE  /\ rn[p[1]].status # "absent" /\ rn[p[2]].status # "absent"
                     /\ rn[p[2]].attempts > 0 => rn[p[1]].attempts > 0 BY DEF Ordered
 <2>1. p \in before /\ ~rs[p[1]].expired /\ ~rs[p[2]].expired /\ p[1] \in Ids /\ p[2] \in Ids BY <1>1 DEF kept
 <2> QED BY <2>1,<1>2 DEF Tables, Ordered
<1>6. ASSUME NEW m \in Ids PROVE RowFine(rn[m]) /\ Counted(rn, dr, m)
 <2>1. CASE rs[m].expired
  <3>1. \A d \in Drains : dr[d].message # m BY <2>1 DEF Tables, Held
  <3> QED BY <2>1,<3>1,<1>2, NoRowFine, FreshCounted
 <2>2. CASE ~rs[m].expired BY <2>2,<1>2 DEF Tables, Counted
 <2> QED BY <2>1,<2>2
<1> QED BY <1>3,<1>4,<1>5,<1>6 DEF Tables, rn

\* A recorded message comes after every row of an earlier time.
LEMMA Inserts ==
  ASSUME NEW rs, NEW dr, NEW bf, Tables(rs, dr, bf), NEW id \in Ids, rs[id].status = "absent", NEW body \in Bodies,
         NEW ties
  PROVE  Tables(Inserted(rs, id, body), dr, bf \cup Behind(rs, ties, id))
<1> DEFINE rn == Inserted(rs, id, body)  row == [NoRow EXCEPT !.status = "pending", !.body = body]
<1>1. dr \in [Drains -> Drain] /\ rs \in [Ids -> Row] /\ bf \in SUBSET (Ids \X Ids) BY DEF Tables, Types
<1>2. /\ row \in Row /\ row.status = "pending" /\ row.attempts = 0 /\ row.wait = 0 /\ row.runs = 0
      /\ row.recovered = 0 /\ ~row.expired BY DEF NoRow, Row, Outstanding, Waiting
<1> HIDE DEF row
<1>3. rn \in [Ids -> Row] /\ rn[id] = row /\ \A m \in Ids \ {id} : rn[m] = rs[m] BY <1>1,<1>2 DEF Inserted, row
<1> HIDE DEF rn
<1>4. Types(rn, dr, bf \cup Behind(rs, ties, id)) BY <1>1,<1>3 DEF Tables, Types, Behind
<1>5. \A d \in Drains : dr[d].message # id BY DEF Tables, Held
<1>6. Held(rn, dr) BY <1>3,<1>5 DEF Tables, Held
<1>7. Ordered(rn, bf \cup Behind(rs, ties, id))
 <2> SUFFICES ASSUME NEW p \in bf \cup Behind(rs, ties, id)
              PROVE  /\ rn[p[1]].status # "absent" /\ rn[p[2]].status # "absent"
                     /\ rn[p[2]].attempts > 0 => rn[p[1]].attempts > 0 BY DEF Ordered
 <2>1. CASE p \in bf
  <3>1. /\ p[1] \in Ids /\ p[2] \in Ids /\ rs[p[1]].status # "absent" /\ rs[p[2]].status # "absent"
        /\ rs[p[2]].attempts > 0 => rs[p[1]].attempts > 0 BY <1>1,<2>1 DEF Tables, Ordered
  <3> QED BY <3>1,<1>3
 <2>2. CASE p \in Behind(rs, ties, id)
  <3>1. p[2] = id /\ p[1] \in Ids \ {id} /\ rs[p[1]].status # "absent" BY <2>2 DEF Behind
  <3> QED BY <3>1,<1>2,<1>3
 <2> QED BY <2>1,<2>2
<1>8. ASSUME NEW m \in Ids PROVE RowFine(rn[m]) /\ Counted(rn, dr, m)
 <2>1. CASE m = id
  <3>1. Counted(rn, dr, m) BY <2>1,<1>2,<1>3,<1>5, FreshCounted
  <3> QED BY <2>1,<3>1,<1>2,<1>3 DEF RowFine
 <2>2. CASE m # id BY <2>2,<1>3 DEF Tables, Counted
 <2> QED BY <2>1,<2>2
<1> QED BY <1>4,<1>6,<1>7,<1>8 DEF Tables, rn

-----------------------------------------------------------------------------
(* The alarm                                                                 *)

Wakes(rs, at) ==
  \A m \in Open(rs) : at # NoAlarm /\ (at <= rs[m].wait \/ at <= ATTEMPT_LEASE)

LEMMA Rescheduled ==
  ASSUME NEW rs \in [Ids -> Row], scheduleNextAlarm(rs)
  PROVE  alarm' \in Nat \cup {NoAlarm} /\ Wakes(rs, alarm')
<1>1. CASE Open(rs) = {} BY <1>1 DEF scheduleNextAlarm, Wakes
<1>2. CASE Open(rs) # {}
 <2>1. PICK first \in Open(rs) : /\ \A m \in Open(rs) : rs[first].wait <= rs[m].wait
                                 /\ alarm' = rs[first].wait BY <1>2 DEF scheduleNextAlarm
 <2>2. alarm' \in Nat BY <2>1, RowParts DEF Open
 <2> QED BY <2>1,<2>2 DEF Wakes, NoAlarm
<1> QED BY <1>1,<1>2

\* The alarm of a claim or of an enqueue is within one lease.
LEMMA SoonEnough ==
  ASSUME NEW rs, NEW at \in {ATTEMPT_LEASE, ENQUEUE_WAKE}
  PROVE  at \in Nat /\ Wakes(rs, at)
BY LimitsAssumption DEF Wakes, NoAlarm

\* One turn of drain()'s loop, from rows and drains that are in order.
LEMMA Turns ==
  ASSUME NEW d \in Drains, NEW rs, NEW n \in 0 .. DRAIN_BATCH_SIZE,
         Tables(rs, Freed(drains, d), before), drains \in [Drains -> Drain], Turn(d, rs, n)
  PROVE  Tables(rows', drains', before') /\ alarm' \in Nat \cup {NoAlarm} /\ Wakes(rows', alarm') /\ newest' = newest
<1>1. Freed(drains, d)[d].message = "none" /\ NoDrain \in Drain BY LimitsAssumption DEF Freed, NoDrain, Drain
<1>2. ASSUME NEW m \in Ids, Claim(d, rs, n, m)
      PROVE  Tables(rows', drains', before') /\ alarm' = ATTEMPT_LEASE
 <2>1. Tables(Taken(rs, m), Busy(Freed(drains, d), d, Hold(rs, m, n)), before) BY <1>1,<1>2, Claims DEF Claim
 <2>2. rows' = Taken(rs, m) /\ before' = before /\ alarm' = ATTEMPT_LEASE BY <1>2 DEF Claim, Taken
 <2>3. drains' = Busy(Freed(drains, d), d, Hold(rs, m, n)) BY <1>2 DEF Claim, Busy, Freed, Hold
 <2> QED BY <2>1,<2>2,<2>3
<1>3. ASSUME Return(d, rs, n)
      PROVE  Tables(rows', drains', before') /\ scheduleNextAlarm(rows')
 <2>1. Tables(prune(rs), Freed(drains, d), kept(rs)) BY Prunes
 <2> QED BY <1>3,<2>1 DEF Return, Freed
<1>4. CASE \E m \in Ids : Claim(d, rs, n, m) BY <1>2,<1>4, SoonEnough DEF Claim
<1>5. CASE Return(d, rs, n)
 <2>1. rows' \in [Ids -> Row] BY <1>3,<1>5 DEF Tables, Types
 <2> QED BY <1>3,<1>5,<2>1, Rescheduled DEF Return
<1> QED BY <1>4,<1>5 DEF Turn

-----------------------------------------------------------------------------
(* Every step keeps the invariant                                            *)

LEMMA InitInv == Init => IInv
<1> SUFFICES ASSUME Init PROVE IInv OBVIOUS
<1>1. drains \in [Drains -> Drain] /\ \A d \in Drains : drains[d] = NoDrain /\ drains[d].message = "none"
 BY LimitsAssumption DEF Init, NoDrain, Drain
<1>2. rows \in [Ids -> Row] /\ before = {} /\ \A m \in Ids : rows[m] = NoRow BY NoRowFine DEF Init
<1>3. Types(rows, drains, before) BY <1>1,<1>2 DEF Types
<1>4. Held(rows, drains) /\ Ordered(rows, before) BY <1>1,<1>2 DEF Held, Ordered
<1>5. \A m \in Ids : RowFine(rows[m]) /\ Counted(rows, drains, m) BY <1>1,<1>2, NoRowFine, FreshCounted
<1>6. Timers /\ NoStrandedMessage
 BY <1>2, NoRowFine, LimitsAssumption DEF Init, Timers, NoStrandedMessage, Open, Outstanding, Waiting
<1> QED BY <1>3,<1>4,<1>5,<1>6 DEF IInv, Tables

\* Every step that is a turn of drain() keeps it.
LEMMA TurnInv ==
  ASSUME IInv, NEW d \in Drains, NEW rs, NEW n \in 0 .. DRAIN_BATCH_SIZE,
         Tables(rs, Freed(drains, d), before), Turn(d, rs, n), UNCHANGED <<crashes, slow>>
  PROVE  IInv'
<1>1. drains \in [Drains -> Drain] BY DEF IInv, Tables, Types
<1>2. Tables(rows', drains', before') /\ alarm' \in Nat \cup {NoAlarm} /\ Wakes(rows', alarm')
      /\ newest' = newest BY <1>1, Turns
<1>3. Timers' BY <1>2 DEF IInv, Timers
<1> QED BY <1>2,<1>3 DEF IInv, NoStrandedMessage, Wakes

LEMMA StartInv ==
  ASSUME IInv, NEW d \in Drains, drains[d] = NoDrain,
         Turn(d, recoverExpiredAttempts(rows), 0), UNCHANGED <<crashes, slow>>
  PROVE  IInv'
<1>1. Freed(drains, d) = drains BY DEF Freed, IInv, Tables, Types
<1>2. Tables(recoverExpiredAttempts(rows), Freed(drains, d), before) BY <1>1, Recovered DEF IInv
<1>3. 0 \in 0 .. DRAIN_BATCH_SIZE BY LimitsAssumption
<1> QED BY <1>2,<1>3, TurnInv

LEMMA HandlerInv ==
  ASSUME IInv, NEW d \in Drains, HandlerEnds(d)
  PROVE  IInv'
<1>1. drains[d].processed \in 0 .. DRAIN_BATCH_SIZE BY DEF IInv, Tables, Types, Drain
<1>2. CASE HandlerReturns(d)
 <2>1. Tables(complete(rows, drains[d].message), Freed(drains, d), before)
  BY <1>2, Completed DEF HandlerReturns, IInv
 <2> QED BY <1>1,<1>2,<2>1, TurnInv DEF HandlerReturns
<1>3. ASSUME NEW retryable \in BOOLEAN, HandlerThrows(d, retryable)
      PROVE  IInv'
 <2>1. Tables(fail(rows, drains[d], retryable), Freed(drains, d), before) BY <1>3, Failed DEF HandlerThrows, IInv
 <2> QED BY <1>1,<1>3,<2>1, TurnInv DEF HandlerThrows
<1> QED BY <1>2,<1>3 DEF HandlerEnds

LEMMA EnqueueInv ==
  ASSUME IInv, NEW id \in Ids, NEW body \in Bodies, enqueue(id, body)
  PROVE  IInv'
<1> DEFINE rs == prune(rows)
<1>1. Tables(rs, drains, kept(rows)) /\ rs \in [Ids -> Row] BY Prunes DEF IInv, Tables, Types
<1>2. UNCHANGED <<drains, crashes, slow>> BY DEF enqueue
<1> HIDE DEF rs
<1>3. ASSUME Tables(rows', drains, before'), alarm' \in Nat \cup {NoAlarm}, Wakes(rows', alarm'),
             newest' \in SUBSET Ids
      PROVE  IInv' BY <1>2,<1>3 DEF IInv, Timers, NoStrandedMessage, Wakes
<1>4. CASE rs[id].status = "absent" /\ rows' = Inserted(rs, id, body)
           /\ Received(rs, id) /\ alarm' = ENQUEUE_WAKE
 <2>1. PICK ties \in {newest, {}} : before' = kept(rows) \cup Behind(rs, ties, id) /\ newest' = ties \cup {id}
  BY <1>4 DEF Received
 <2> QED BY <1>1,<1>3,<1>4,<2>1, Inserts, SoonEnough DEF IInv, Timers
<1>5. CASE SameContent(rs, id, body) /\ rows' = [rs EXCEPT ![id].body = body] /\ before' = kept(rows)
           /\ UNCHANGED newest /\ (scheduleNextAlarm(rs) \/ alarm' = ENQUEUE_WAKE)
 <2>1. rows' = rs BY <1>1,<1>5 DEF SameContent, Row
 <2>2. alarm' \in Nat \cup {NoAlarm} /\ Wakes(rs, alarm') BY <1>1,<1>5, Rescheduled, SoonEnough
 <2> QED BY <1>1,<1>3,<1>5,<2>1,<2>2 DEF IInv, Timers
<1>6. CASE alarm' = ENQUEUE_WAKE /\ UNCHANGED <<rows, before, newest>> BY <1>3,<1>6, SoonEnough DEF IInv, Timers
<1> QED BY <1>4,<1>5,<1>6 DEF enqueue, rs

\* A drain that is lost is not counted any more.
LEMMA CrashInv == ASSUME IInv, Crash PROVE IInv'
<1>1. drains' = [d \in Drains |-> NoDrain] /\ UNCHANGED <<rows, before>> BY DEF Crash
<1>2. Types(rows, drains', before) BY <1>1, LimitsAssumption DEF IInv, Tables, Types, NoDrain, Drain
<1>3. Held(rows, drains') /\ Ordered(rows, before) BY <1>1 DEF IInv, Tables, Held, NoDrain
<1>4. ASSUME NEW m \in Ids PROVE RowFine(rows[m]) /\ Counted(rows, drains', m)
 <2> DEFINE f == Cardinality(Flying(drains, m))  e == Cardinality(Early(drains, m))  row == rows[m]
 <2>1. Flying(drains', m) = {} /\ Early(drains', m) = {} BY <1>1 DEF Flying, Early, NoDrain
 <2>2. Cardinality(Flying(drains', m)) = 0 /\ Cardinality(Early(drains', m)) = 0 BY <2>1, FS_EmptySet
 <2>3. f \in Nat /\ e \in Nat /\ row \in Row /\ MAX_DELIVERY_ATTEMPTS \in Nat
  BY CountsAreNat, LimitsAssumption DEF IInv, Tables, Types
 <2>4. /\ row.attempts \in Nat /\ row.runs \in Nat /\ row.recovered \in Nat
       /\ Asks(row) \in Nat /\ Ahead(row.attempts) \in Nat BY <2>3, RowParts
 <2>5. f + Asks(row) + row.runs <= 1 + row.recovered
       /\ row.attempts + Asks(row) + Ahead(row.attempts) + e <= MAX_DELIVERY_ATTEMPTS + row.recovered
  BY DEF IInv, Tables, Counted
 <2> HIDE DEF f, e, row
 <2>6. 0 + Asks(row) + row.runs <= 1 + row.recovered
       /\ row.attempts + Asks(row) + Ahead(row.attempts) + 0 <= MAX_DELIVERY_ATTEMPTS + row.recovered
  BY <2>3,<2>4,<2>5
 <2>7. Counted(rows, drains', m) BY <2>2,<2>6 DEF Counted, row
 <2> QED BY <2>7 DEF IInv, Tables
<1>5. Timers' BY LimitsAssumption DEF Crash, IInv, Timers
<1>6. NoStrandedMessage'
 <2>1. alarm \in Nat \cup {NoAlarm} /\ (alarm' = 0 \/ alarm' = alarm) BY DEF Crash, IInv, Timers
 <2>2. ASSUME NEW m \in Open(rows) PROVE rows[m].wait \in Nat BY <2>2, RowParts DEF IInv, Tables, Types, Open
 <2> QED BY <1>1,<2>1,<2>2 DEF IInv, NoStrandedMessage, Open, NoAlarm
<1> QED BY <1>1,<1>2,<1>3,<1>4,<1>5,<1>6 DEF IInv, Tables

\* Time passes for every row alike, and only settled rows grow old.
LEMMA TickInv == ASSUME IInv, Tick PROVE IInv'
<1>1. PICK aged \in SUBSET Aging :
        rows' = [m \in Ids |-> [rows[m] EXCEPT !.wait = Down(rows[m].wait),
                                              !.expired = rows[m].expired \/ m \in aged]] BY DEF Tick
<1>2. UNCHANGED <<before, drains, crashes>> /\ newest' = {} /\ alarm' = Down(alarm) /\ slow' = slow + Cardinality(Outlived)
      /\ slow + Cardinality(Outlived) <= MaxSlow BY DEF Tick
<1>3. ASSUME NEW m \in Ids
      PROVE  /\ rows'[m] \in Row /\ rows[m] \in Row
             /\ rows'[m] = [rows[m] EXCEPT !.wait = Down(rows[m].wait), !.expired = rows[m].expired \/ m \in aged]
             /\ Down(rows[m].wait) \in Nat /\ RowFine(rows[m])
 <2>1. rows[m] \in Row /\ RowFine(rows[m]) BY DEF IInv, Tables, Types
 <2>2. Down(rows[m].wait) \in Nat /\ rows[m].expired \in BOOLEAN BY <2>1, RowParts DEF Down
 <2>3. (rows[m].expired \/ m \in aged) \in BOOLEAN OBVIOUS
 <2> QED BY <1>1,<2>1,<2>2,<2>3 DEF Row
<1>4. ASSUME NEW m \in Ids
      PROVE  /\ rows'[m].status = rows[m].status /\ rows'[m].attempts = rows[m].attempts
             /\ rows'[m].runs = rows[m].runs /\ rows'[m].recovered = rows[m].recovered
             /\ rows'[m].body = rows[m].body
             /\ rows'[m].wait = Down(rows[m].wait) /\ (rows'[m].expired <=> (rows[m].expired \/ m \in aged))
 BY <1>3 DEF Row
<1>5. ASSUME NEW m \in aged
      PROVE  rows[m].status \in Settled /\ \A d \in Drains : drains[d].message # m BY <1>5 DEF Aging, InFlight
<1>6. Types(rows', drains', before') BY <1>1,<1>2,<1>3 DEF IInv, Tables, Types
<1>7. Held(rows', drains') BY <1>2,<1>4,<1>5 DEF IInv, Tables, Held
<1>8. Ordered(rows', before')
 <2> SUFFICES ASSUME NEW p \in before
              PROVE  /\ rows'[p[1]].status # "absent" /\ rows'[p[2]].status # "absent"
                     /\ rows'[p[2]].attempts > 0 => rows'[p[1]].attempts > 0 BY <1>2 DEF Ordered
 <2>1. p[1] \in Ids /\ p[2] \in Ids BY DEF IInv, Tables, Types
 <2> QED BY <2>1,<1>4 DEF IInv, Tables, Ordered
<1>9. ASSUME NEW m \in Ids PROVE RowFine(rows'[m]) /\ Counted(rows', drains', m)
 <2>1. RowFine(rows'[m])
  <3>1. CASE rows[m].status = "absent"
   <4>1. rows[m] = NoRow /\ m \notin aged BY <3>1,<1>3,<1>5 DEF RowFine, Settled
   <4>2. rows'[m] = NoRow
    <5>1. rows'[m].wait = 0 BY <4>1,<1>4 DEF NoRow, Down
    <5>2. /\ rows'[m].status = "absent" /\ rows'[m].body = "none" /\ rows'[m].attempts = 0
          /\ ~rows'[m].expired /\ rows'[m].runs = 0 /\ rows'[m].recovered = 0 BY <4>1,<1>4 DEF NoRow
    <5> QED BY <5>1,<5>2,<1>3, RowIsNew
   <4> QED BY <4>2, NoRowFine
  <3>2. CASE rows[m].status # "absent"
   <4>1. rows'[m].expired => rows[m].status \in Settled BY <1>3,<1>4,<1>5 DEF RowFine
   <4>2. rows[m].wait = 0 => rows'[m].wait = 0 BY <1>4 DEF Down
   <4>3. RowFine(rows[m]) /\ rows'[m].status = rows[m].status /\ rows'[m].attempts = rows[m].attempts
         /\ rows'[m].wait = Down(rows[m].wait) BY <1>3,<1>4
   <4>4. rows'[m].status = "pending" => rows'[m].attempts = 0 /\ rows'[m].wait = 0 BY <4>2,<4>3 DEF RowFine
   <4>5. rows'[m].attempts = 0 => rows'[m].status \in {"absent", "pending"} BY <4>3 DEF RowFine
   <4>6. rows'[m].expired => rows'[m].status \in Settled BY <4>1,<4>3
   <4> QED BY <3>2,<4>3,<4>4,<4>5,<4>6 DEF RowFine
  <3> QED BY <3>1,<3>2
 <2>2. Counted(rows', drains', m) BY <1>2,<1>4 DEF IInv, Tables, Counted, Asks
 <2> QED BY <2>1,<2>2
<1>10. Timers'
 <2> DEFINE claimed == [d \in Drains |-> drains[d].message]
            messages == {claimed[d] : d \in Drains}
 <2>1. Outlived \subseteq messages BY DEF Outlived, InFlight
 <2>2. claimed \in Surjection(Drains, messages) BY DEF Surjection
 <2> HIDE DEF claimed, messages
 <2>3. Cardinality(Outlived) \in Nat BY <2>1,<2>2, DrainsFinite, FS_Surjection, FS_Subset, FS_CardinalityType
 <2>4. slow' \in 0 .. MaxSlow BY <1>2,<2>3, LimitsAssumption DEF IInv, Timers
 <2> QED BY <1>2,<2>4 DEF IInv, Timers, Down, NoAlarm
<1>11. NoStrandedMessage'
 <2> SUFFICES ASSUME NEW m \in Open(rows)
              PROVE  alarm' # NoAlarm /\ (alarm' <= rows'[m].wait \/ alarm' <= ATTEMPT_LEASE)
  BY <1>4 DEF NoStrandedMessage, Open
 <2>1. m \in Ids /\ rows[m].wait \in Nat /\ rows'[m].wait = Down(rows[m].wait) BY <1>3,<1>4, RowParts DEF Open
 <2>2. alarm \in Nat \cup {NoAlarm} /\ alarm # NoAlarm /\ (alarm <= rows[m].wait \/ alarm <= ATTEMPT_LEASE)
  BY DEF IInv, Timers, NoStrandedMessage
 <2> QED BY <2>1,<2>2,<1>2, LimitsAssumption DEF Down, NoAlarm
<1> QED BY <1>2,<1>6,<1>7,<1>8,<1>9,<1>10,<1>11 DEF IInv, Tables

-----------------------------------------------------------------------------
(* The invariant and what follows from it                                    *)

LEMMA NextInv == IInv /\ [Next]_vars => IInv'
<1> SUFFICES ASSUME IInv, [Next]_vars PROVE IInv' OBVIOUS
<1>1. ASSUME NEW id \in Ids, NEW body \in Bodies, enqueue(id, body) PROVE IInv' BY <1>1, EnqueueInv
<1>2. ASSUME NEW d \in RequestDrains, RequestDrainStarts(d) PROVE IInv'
 BY <1>2, StartInv, DrainsFinite DEF RequestDrainStarts
<1>3. CASE AlarmFires BY <1>3, StartInv, DrainsFinite DEF AlarmFires
<1>4. ASSUME NEW d \in Drains, HandlerEnds(d) PROVE IInv' BY <1>4, HandlerInv
<1>5. CASE Crash BY <1>5, CrashInv
<1>6. CASE Tick BY <1>6, TickInv
<1>7. CASE UNCHANGED vars
 BY <1>7 DEF vars, IInv, Tables, Types, Held, Ordered, Counted, Timers, NoStrandedMessage, Open
<1> QED BY <1>1,<1>2,<1>3,<1>4,<1>5,<1>6,<1>7 DEF Next

LEMMA InvTypes == IInv => TypeOK
BY DEF IInv, Tables, Types, Timers, TypeOK

\* The invariant is stronger than what the runs check of every state.
LEMMA InvExplains == IInv => HandlingExplained
<1> SUFFICES ASSUME IInv PROVE HandlingExplained OBVIOUS
<1>1. ASSUME NEW m \in Ids
      PROVE  /\ Cardinality(InFlight(m)) + (IF rows[m].status \in Waiting THEN 1 ELSE 0)
                  + rows[m].runs <= 1 + rows[m].recovered
             /\ rows[m].attempts <= MAX_DELIVERY_ATTEMPTS + rows[m].recovered
 <2>1. InFlight(m) = Flying(drains, m) /\ Asks(rows[m]) = IF rows[m].status \in Waiting THEN 1 ELSE 0
  BY DEF InFlight, Flying, Asks
 <2>2. Counted(rows, drains, m) /\ rows[m] \in Row BY DEF IInv, Tables, Types
 <2>3. /\ rows[m].attempts \in Nat /\ rows[m].recovered \in Nat /\ Asks(rows[m]) \in Nat
       /\ Ahead(rows[m].attempts) \in Nat /\ Cardinality(Early(drains, m)) \in Nat BY <2>2, RowParts, CountsAreNat
 <2>4. rows[m].attempts + Asks(rows[m]) + Ahead(rows[m].attempts) + Cardinality(Early(drains, m))
         <= MAX_DELIVERY_ATTEMPTS + rows[m].recovered BY <2>2 DEF Counted
 <2>5. MAX_DELIVERY_ATTEMPTS \in Nat BY LimitsAssumption
 <2>6. rows[m].attempts <= MAX_DELIVERY_ATTEMPTS + rows[m].recovered BY <2>3,<2>4,<2>5
 <2> QED BY <2>1,<2>2,<2>6 DEF Counted
<1>2. FirstAttemptsInOrder BY DEF IInv, Tables, Ordered, FirstAttemptsInOrder
<1> QED BY <1>1,<1>2 DEF IInv, HandlingExplained, HandledOncePerLease, AttemptsExplained

\* A turn claims a row that waits and prunes an expired one: a settled row
\* that the first half of the turn left alone stays, or is pruned.
LEMMA TurnSettled ==
  ASSUME NEW rs \in [Ids -> Row], NEW d, NEW n, NEW m \in Ids, rows[m].status \in Settled,
         rs[m].status = rows[m].status, rs[m].expired = rows[m].expired, Turn(d, rs, n)
  PROVE  rows'[m].status = rows[m].status \/ rows[m].expired
<1>1. ASSUME NEW x \in Ids, Claim(d, rs, n, x)
      PROVE  rows'[m] = rs[m]
 <2>1. x # m BY <1>1 DEF Claim, First, Due, Waiting, Settled
 <2> QED BY <1>1,<2>1 DEF Claim
<1>2. CASE Return(d, rs, n) BY <1>2 DEF Return, prune
<1> QED BY <1>1,<1>2 DEF Turn

\* No step reopens a settled message that no attempt is in progress of.
LEMMA NextSettled == IInv /\ [Next]_vars => SettledStays
<1> SUFFICES ASSUME IInv, [Next]_vars, NEW m \in Ids, rows[m].status \in Settled, InFlight(m) = {}
             PROVE  rows'[m].status = rows[m].status \/ rows[m].expired BY DEF SettledStays
<1>1. rows \in [Ids -> Row] /\ \A d \in Drains : drains[d].message # m BY DEF InFlight, IInv, Tables, Types
<1>2. ASSUME NEW id \in Ids, NEW body \in Bodies, enqueue(id, body)
      PROVE  rows'[m].status = rows[m].status \/ rows[m].expired
 <2> SUFFICES ASSUME ~rows[m].expired PROVE rows'[m].status = rows[m].status OBVIOUS
 <2>1. prune(rows)[m] = rows[m] /\ rows[m].status # "absent" /\ prune(rows) \in [Ids -> Row]
  BY <1>1, NoRowFine DEF prune, Settled
 <2>2. CASE prune(rows)[id].status = "absent" /\ rows' = Inserted(prune(rows), id, body) BY <2>1,<2>2 DEF Inserted
 <2>3. CASE rows' = [prune(rows) EXCEPT ![id].body = body]
  <3>1. CASE id = m BY <2>1,<2>3,<3>1 DEF Row
  <3> QED BY <2>1,<2>3,<3>1
 <2>4. CASE UNCHANGED rows BY <2>4
 <2> QED BY <1>2,<2>2,<2>3,<2>4 DEF enqueue
<1>3. ASSUME NEW d, Turn(d, recoverExpiredAttempts(rows), 0)
      PROVE  rows'[m].status = rows[m].status \/ rows[m].expired
 <2>1. recoverExpiredAttempts(rows)[m] = rows[m] BY DEF recoverExpiredAttempts, Settled
 <2>2. recoverExpiredAttempts(rows) \in [Ids -> Row] BY Recovered DEF IInv, Tables, Types
 <2> QED BY <1>3,<2>1,<2>2, TurnSettled
<1>4. ASSUME NEW d \in Drains, HandlerEnds(d)
      PROVE  rows'[m].status = rows[m].status \/ rows[m].expired
 <2>1. CASE HandlerReturns(d)
  <3>1. complete(rows, drains[d].message)[m] = rows[m] BY <1>1 DEF complete
  <3>2. complete(rows, drains[d].message) \in [Ids -> Row]
   BY <2>1, Completed DEF HandlerReturns, IInv, Tables, Types
  <3> QED BY <2>1,<3>1,<3>2, TurnSettled DEF HandlerReturns
 <2>2. ASSUME NEW retryable \in BOOLEAN, HandlerThrows(d, retryable)
       PROVE  rows'[m].status = rows[m].status \/ rows[m].expired
  <3>1. fail(rows, drains[d], retryable)[m] = rows[m] BY <1>1 DEF fail
  <3>2. fail(rows, drains[d], retryable) \in [Ids -> Row] BY <2>2, Failed DEF HandlerThrows, IInv, Tables, Types
  <3> QED BY <2>2,<3>1,<3>2, TurnSettled DEF HandlerThrows
 <2> QED BY <1>4,<2>1,<2>2 DEF HandlerEnds
<1>5. CASE Crash BY <1>5 DEF Crash
<1>6. CASE Tick
 <2>1. rows'[m].status = rows[m].status
  <3>1. PICK aged \in SUBSET Aging :
          rows' = [x \in Ids |-> [rows[x] EXCEPT !.wait = Down(rows[x].wait),
                                                !.expired = rows[x].expired \/ x \in aged]] BY <1>6 DEF Tick
  <3>2. rows[m] \in Row BY <1>1
  <3> QED BY <3>1,<3>2 DEF Row
 <2> QED BY <2>1
<1>7. CASE UNCHANGED vars BY <1>7 DEF vars
<1> QED BY <1>2,<1>3,<1>4,<1>5,<1>6,<1>7 DEF Next, RequestDrainStarts, AlarmFires

\* The inductive invariant holds in every state the inbox reaches.
THEOREM Inductive == Spec => []IInv
BY InitInv, NextInv, PTL DEF Spec

\* The columns of eventsub_inbox, the alarm and the copies the drains hold
\* keep their types (eventsub-inbox.js:81-107).
THEOREM TypeCorrect == Spec => []TypeOK
BY Inductive, InvTypes, PTL

\* At any time an outstanding message has an alarm, its handler returned at
\* most once more than its lease ran out, its attempts stay in bounds, and
\* first attempts keep the order of arrival.
THEOREM AlwaysExplained == Spec => []HandlingExplained
BY Inductive, InvExplains, PTL

\* However drains overlap, crash and outlive their leases, a message's
\* history stays explained by its row, and a settled message is not reopened.
THEOREM MessagesAlwaysAccounted == Spec => MessagesAccounted
<1>1. HandlingExplained' /\ SettledStays => [HandlingExplained' /\ SettledStays]_vars OBVIOUS
<1> QED BY <1>1, Inductive, InvExplains, NextSettled, PTL DEF Spec, MessagesAccounted

-----------------------------------------------------------------------------
(* The observer of live queries                                             *)

CONSTANTS Pages, Keys, Attempts, Settings
VARIABLES setting, source, bound, grant, row, edge, seen, ev, observerAlarm, sub, reg, link, page, late,
          det, faults, history

HIDE NamesAssumption

Obs == INSTANCE StateQueryObserver WITH alarm <- observerAlarm

\* SettingsAssumption of StateQueryObserver, a hypothesis of the theorems about it.
QuerySettings ==
  /\ Attempts \in Nat \ {0}
  /\ Settings \subseteq [pages : SUBSET Pages, keys : SUBSET Keys, commits : Nat,
                         moves : BOOLEAN, revokes : BOOLEAN, losses : Nat, delays : Nat]

-----------------------------------------------------------------------------
(* The invariant *)

Names == Obs!Edges \cup {"transitioning", "unavailable", "ended", "nothing", ""}
Value == Names \X Nat
Result == [val : Value, seq : Nat]
Results == UNION {[ks -> Result] : ks \in SUBSET Keys}
Revisions == UNION {[es -> Nat] : es \in SUBSET Obs!Edges}
Edge == [state : {"none", "active", "detaching"}, expected : Nat, stray : BOOLEAN]
Detach == [pc : {"idle", "gone", "asks", "answered"}, expected : Nat, revision : Nat]
Source == [rev : Nat, watch : BOOLEAN, out : BOOLEAN]
QueryRow == [state : {"none", "active", "denied"}, val : Value, seq : Nat, pending : BOOLEAN,
             edges : SUBSET Obs!Edges]
Evaluation == [pc : {"idle", "read", "binding", "attach"}, val : Value, exp : Revisions,
               todo : SUBSET Obs!Edges, fresh : SUBSET Obs!Edges, bad : BOOLEAN, tries : Nat]
Alarm == [pc : {"idle", "renew", "drain"}, todo : SUBSET Obs!Queries, done : SUBSET Obs!Queries]
Telling == [Keys -> [seq : Nat, bind : Names]]
Subscription == [lease : {"absent", "fresh", "due", "over"}, told : Telling]
Registration == [on : BOOLEAN, got : Results]
Event == [kind : {"none", "update", "snapshot", "status"}, results : Results]
Setting == [pages : SUBSET Pages, keys : SUBSET Keys, commits : Nat, moves : BOOLEAN,
            revokes : BOOLEAN, losses : Nat, delays : Nat]
Link == [flight : Event, backlog : Event, gap : BOOLEAN]
Client == [state : {"offline", "joining", "live", "ended"}, shown : [Keys -> Result]]

OutsideTypes == /\ setting \in Settings \cap Setting /\ source \in [Obs!Edges -> Source]
                /\ bound \in Obs!Realms \cup {"moving"} /\ seen \in [Obs!Edges -> Nat] /\ det \in [Obs!Edges -> Detach]
                /\ grant \in [revoked : BOOLEAN, out : BOOLEAN, barred : BOOLEAN]
                /\ faults \in [losses : Nat, delays : Nat]
TableTypes == /\ row \in [Obs!Queries -> QueryRow] /\ edge \in [Obs!Edges -> Edge] /\ observerAlarm \in Alarm
              /\ ev \in [Obs!Queries \X Obs!Users -> Evaluation]
PageTypes == /\ sub \in [Pages -> Subscription] /\ reg \in [Pages -> Registration]
             /\ link \in [Pages -> Link] /\ page \in [Pages -> Client]
             /\ late \subseteq Pages /\ history \in [lost : SUBSET Pages, removed : SUBSET Pages]
OTypes == OutsideTypes /\ TableTypes /\ PageTypes

\* A row that is not there is empty; one that is has a number, and only one in use refers
\* to edges, which have rows of their own.
RowOf(r) == /\ r.state = "none" => r = Obs!NoRow
            /\ r.state # "none" => r.seq # 0
            /\ r.state # "active" => r.edges = {}
Anchored(table, edges) == \A e \in Obs!Edges : edges[e].state = "active" => edges[e].stray \/ e \in Obs!Used(table)
ObserverTables ==
  /\ \A q \in Obs!Queries : RowOf(row[q]) /\ \A e \in row[q].edges : edge[e].state # "none"
  /\ Anchored(row, edge)
  /\ \A e \in Obs!Edges : source[e].out => source[e].watch

\* The alarm evaluates between its claim and its end, and knows no query then that it renewed;
\* it can bring a denied query back only when the observer knows of the revocation.
Evaluating(q) == ev[<<q, "alarm">>].pc # "idle"
Alarms ==
  /\ observerAlarm.pc # "renew" => observerAlarm.done = {}
  /\ \A q \in Obs!Queries : Evaluating(q) => observerAlarm.pc = "drain" /\ (row[q].state = "denied" => grant.barred)

\* A registration runs while its page joins, under a fresh lease, one query after the other.
Joins(p) ==
  /\ page[p].state = "joining" <=> reg[p].on
  /\ IF reg[p].on THEN sub[p].lease = "fresh" ELSE reg[p] = Obs!NoReg
  /\ \A k \in Keys : ev[<<<<p, k>>, "register">>].pc # "idle" =>
        /\ reg[p].on /\ k \notin DOMAIN reg[p].got
        /\ \A n \in Keys : ev[<<<<p, n>>, "register">>].pc # "idle" => n = k
LinkOf(l) ==
  /\ l.flight.kind = "none" => l = Obs!NoLink
  /\ l.backlog.kind = "none" => l.backlog = Obs!NoEvent
  /\ l.backlog.kind # "snapshot"
  /\ l.gap => l.backlog.kind = "none"
SocketOf(p) ==
  /\ LinkOf(link[p])
  /\ link[p] # Obs!NoLink => page[p].state = "live"
  /\ page[p].state = "live" => sub[p].lease # "absent"
  /\ sub[p].lease = "absent" => sub[p].told = Obs!Untold
PagesTrue == \A p \in Pages : Joins(p) /\ SocketOf(p)

\* What the subscription counts as told is no newer than the row; and a row that went while
\* the alarm evaluates it does not come back, since the lease is over.
Present(p) == page[p].state \in {"live", "joining"} /\ p \notin history.removed
ToldCounted(p, k) ==
  Present(p) =>
    /\ sub[p].told[k].seq # 0 <=> page[p].state = "live" \/ k \in DOMAIN reg[p].got
    /\ row[<<p, k>>].state # "none" => sub[p].told[k].seq <= row[<<p, k>>].seq
    /\ (sub[p].told[k].seq # 0 /\ row[<<p, k>>].state = "none" /\ Evaluating(<<p, k>>)) =>
         sub[p].lease = "over"

\* A result that carries the number of the row is what the row holds.
Same(r, v) == r.state = "active" /\ v.seq = r.seq => v = Obs!Public(r)
NotBeyond(r, v) == r.state # "none" => v.seq <= r.seq /\ Same(r, v)
Gets(p, k) ==
  (Present(p) /\ reg[p].on /\ k \in DOMAIN reg[p].got) =>
    /\ row[<<p, k>>].state # "none" /\ reg[p].got[k].seq # 0
    /\ ~grant.barred => NotBeyond(row[<<p, k>>], reg[p].got[k])

\* What the page shows, what is in flight and what waits behind it follow each other, and the
\* last of them is what the row held when it was told; unless the page is to be told of an end, or
\* fetches everything anew.
Ending(l) == "status" \in {l.flight.kind, l.backlog.kind}
Follows(old, new) == old.seq <= new.seq /\ (old.seq = new.seq => new = old)
After(event, k, old) == IF k \in DOMAIN event.results THEN event.results[k] ELSE old
InHand(l, k, shown) == After(l.flight, k, shown)
Last(l, k, shown) == After(l.backlog, k, InHand(l, k, shown))
UpToDate(l, k, shown, told, r) ==
  /\ Follows(InHand(l, k, shown), Last(l, k, shown))
  /\ told.seq <= Last(l, k, shown).seq /\ NotBeyond(r, Last(l, k, shown))
FlowOf(l, k, shown, told, r) ==
  \/ l.flight.kind = "status"
  \/ /\ IF l.flight.kind = "snapshot" THEN k \in DOMAIN l.flight.results
                                      ELSE Follows(shown, InHand(l, k, shown))
     /\ InHand(l, k, shown).seq # 0
     /\ Ending(l) \/ l.gap \/ UpToDate(l, k, shown, told, r)
Served(p) == page[p].state = "live" /\ p \notin history.lost \cup history.removed
Flows(p, k) ==
  Served(p) => FlowOf(link[p], k, page[p].shown[k], sub[p].told[k], row[<<p, k>>])
Revives(p, k) ==
  Served(p) /\ row[<<p, k>>].state = "denied" /\ Evaluating(<<p, k>>) => Ending(link[p]) \/ link[p].gap

QueryOf(p, k) == ToldCounted(p, k) /\ Gets(p, k) /\ Flows(p, k) /\ Revives(p, k)
QueriesTrue == \A p \in Pages, k \in setting.keys : QueryOf(p, k)

OInv == OTypes /\ ObserverTables /\ Alarms /\ PagesTrue /\ QueriesTrue

-----------------------------------------------------------------------------
(* Values, results and events                                               *)

LEMMA Constants ==
  ASSUME setting \in Setting
  PROVE  setting.pages \subseteq Pages /\ setting.keys \subseteq Keys
BY DEF Setting

LEMMA ConstantValues ==
  /\ Obs!Transitioning \in Value /\ Obs!Unavailable \in Value /\ Obs!Ended \in Value /\ Obs!Nothing \in Value
  /\ "" \in Names
BY DEF Value, Names, Obs!Transitioning, Obs!Unavailable, Obs!Ended, Obs!Nothing

LEMMA EmptyResults == <<>> \in Results /\ <<>> \in Revisions /\ DOMAIN <<>> = {}
<1>1. <<>> \in [{} -> Result] /\ <<>> \in [{} -> Nat] /\ DOMAIN <<>> = {} OBVIOUS
<1>2. {} \in SUBSET Keys /\ {} \in SUBSET Obs!Edges OBVIOUS
<1> QED BY <1>1,<1>2 DEF Results, Revisions

\* A partial function of results, by its domain.
LEMMA ResultsIs ==
  ASSUME NEW f
  PROVE  f \in Results <=> /\ DOMAIN f \subseteq Keys /\ f = [k \in DOMAIN f |-> f[k]]
                           /\ \A k \in DOMAIN f : f[k] \in Result
<1>1. ASSUME f \in Results
      PROVE  DOMAIN f \subseteq Keys /\ f = [k \in DOMAIN f |-> f[k]] /\ \A k \in DOMAIN f : f[k] \in Result
 <2>1. PICK ks \in SUBSET Keys : f \in [ks -> Result] BY <1>1 DEF Results
 <2> QED BY <2>1
<1>2. ASSUME DOMAIN f \subseteq Keys, f = [k \in DOMAIN f |-> f[k]], \A k \in DOMAIN f : f[k] \in Result
      PROVE  f \in Results
 <2>1. f \in [DOMAIN f -> Result] BY <1>2
 <2> QED BY <2>1,<1>2 DEF Results
<1> QED BY <1>1,<1>2

LEMMA MergedResults ==
  ASSUME NEW f \in Results, NEW g \in Results
  PROVE  /\ Obs!latestResults(f, g) \in Results
         /\ DOMAIN Obs!latestResults(f, g) = DOMAIN f \cup DOMAIN g
         /\ \A k \in DOMAIN f \cup DOMAIN g :
              Obs!latestResults(f, g)[k] = IF k \in DOMAIN g THEN g[k] ELSE f[k]
<1>1. DOMAIN f \cup DOMAIN g \subseteq Keys
      /\ \A k \in DOMAIN f \cup DOMAIN g : (IF k \in DOMAIN g THEN g[k] ELSE f[k]) \in Result BY ResultsIs
<1>2. Obs!latestResults(f, g) \in [DOMAIN f \cup DOMAIN g -> Result] BY <1>1 DEF Obs!latestResults
<1> QED BY <1>1,<1>2 DEF Results, Obs!latestResults

LEMMA OneResult ==
  ASSUME NEW k \in Keys, NEW r \in Result
  PROVE  [n \in {k} |-> r] \in Results
<1>1. [n \in {k} |-> r] \in [{k} -> Result] /\ {k} \in SUBSET Keys OBVIOUS
<1> QED BY <1>1 DEF Results

LEMMA Records ==
  /\ Obs!NoRow \in QueryRow /\ RowOf(Obs!NoRow) /\ Obs!NoEval \in Evaluation /\ Obs!NoAlarm \in Alarm /\ Obs!NoReg \in Registration
  /\ Obs!NoEvent \in Event /\ Obs!NoLink \in Link /\ Obs!Untold \in Telling /\ Obs!Gone \in Subscription
  /\ Obs!Blank \in [Keys -> Result] /\ \A n \in Nat : Obs!Reads(n) \in Evaluation
<1>1. Obs!NoRow \in QueryRow /\ RowOf(Obs!NoRow) BY ConstantValues DEF Obs!NoRow, QueryRow, RowOf
<1>2. Obs!NoEval \in Evaluation /\ \A n \in Nat : Obs!Reads(n) \in Evaluation
 BY ConstantValues, EmptyResults DEF Obs!NoEval, Evaluation, Obs!Reads
<1>3. Obs!NoAlarm \in Alarm BY DEF Obs!NoAlarm, Alarm
<1>4. Obs!NoReg \in Registration /\ Obs!NoEvent \in Event
 BY EmptyResults DEF Obs!NoReg, Registration, Obs!NoEvent, Event
<1>5. Obs!NoLink \in Link BY <1>4 DEF Obs!NoLink, Link
<1>6. Obs!Untold \in Telling BY ConstantValues DEF Obs!Untold, Telling
<1>7. Obs!Gone \in Subscription BY <1>6 DEF Obs!Gone, Subscription
<1>8. Obs!Blank \in [Keys -> Result] BY ConstantValues DEF Obs!Blank, Result
<1> QED BY <1>1,<1>2,<1>3,<1>4,<1>5,<1>6,<1>7,<1>8

LEMMA PublicIs ==
  ASSUME NEW r \in QueryRow
  PROVE  Obs!Public(r) \in Result /\ Obs!Public(r).seq = r.seq
BY ConstantValues DEF Obs!Public, Result, QueryRow

-----------------------------------------------------------------------------
(* The tables                                                               *)

\* Rows and edges of which every edge a row refers to has a row.
Linked(table, edges) ==
  /\ table \in [Obs!Queries -> QueryRow] /\ edges \in [Obs!Edges -> Edge]
  /\ \A q \in Obs!Queries : RowOf(table[q]) /\ \A e \in table[q].edges : edges[e].state # "none"

\* A handler's last step leaves the tables in order, whatever rows it found, if it looks for
\* orphans or they were in order before.
LEMMA ObserveIs ==
  ASSUME NEW table, NEW edges, NEW alive, NEW gives, Linked(table, edges), Obs!Observe(gives, table, edges, alive),
         gives \/ Anchored(table, edges)
  PROVE  /\ Linked(row', edge')
         /\ \A q \in Obs!Queries : row'[q] = IF q \in alive THEN table[q] ELSE Obs!NoRow
         /\ Anchored(row', edge')
<1>1. \A q \in Obs!Queries : row'[q] = IF q \in alive THEN table[q] ELSE Obs!NoRow
 BY DEF Obs!Observe, Obs!pruneExpiredQueries
<1>2. row' \in [Obs!Queries -> QueryRow] /\ \A q \in Obs!Queries : RowOf(row'[q])
 <2>1. \A q \in Obs!Queries : (IF q \in alive THEN table[q] ELSE Obs!NoRow) \in QueryRow BY Records DEF Linked
 <2>2. row' \in [Obs!Queries -> QueryRow] BY <2>1 DEF Obs!Observe, Obs!pruneExpiredQueries
 <2> QED BY <2>2,<1>1, Records DEF Linked
<1>3. ASSUME edge' = Obs!markOrphanSources(row', edges)
      PROVE  /\ edge' \in [Obs!Edges -> Edge] /\ Anchored(row', edge')
             /\ \A e \in Obs!Edges : edges[e].state # "none" => edge'[e].state # "none"
 <2>1. \A e \in Obs!Edges : edges[e] \in Edge /\ [edges[e] EXCEPT !.state = "detaching"] \in Edge BY DEF Linked, Edge
 <2>2. edge' = [e \in Obs!Edges |-> IF edges[e].state = "active" /\ e \notin Obs!Used(row')
                                    THEN [edges[e] EXCEPT !.state = "detaching"] ELSE edges[e]]
  BY <1>3 DEF Obs!markOrphanSources
 <2>3. edge' \in [Obs!Edges -> Edge] BY <2>1,<2>2
 <2>4. ASSUME NEW e \in Obs!Edges
       PROVE  /\ edge'[e].state = "active" => e \in Obs!Used(row')
              /\ edges[e].state # "none" => edge'[e].state # "none"
  <3>1. edge'[e] = IF edges[e].state = "active" /\ e \notin Obs!Used(row')
                   THEN [edges[e] EXCEPT !.state = "detaching"] ELSE edges[e] BY <2>2
  <3>2. [edges[e] EXCEPT !.state = "detaching"].state = "detaching"
   <4>1. edges[e] = [state |-> edges[e].state, expected |-> edges[e].expected, stray |-> edges[e].stray] BY <2>1 DEF Edge
   <4> QED BY <4>1
  <3>3. CASE edges[e].state = "active" /\ e \notin Obs!Used(row') BY <3>1,<3>2,<3>3
  <3>4. CASE ~(edges[e].state = "active" /\ e \notin Obs!Used(row')) BY <3>1,<3>4
  <3> QED BY <3>3,<3>4
 <2> QED BY <2>3,<2>4 DEF Anchored
<1>4. edge' \in [Obs!Edges -> Edge] /\ Anchored(row', edge') /\ \A e \in Obs!Edges : edges[e].state # "none" => edge'[e].state # "none"
 <2>1. row' = Obs!pruneExpiredQueries(table, alive) /\ edge' = IF gives \/ row' # table THEN Obs!markOrphanSources(row', edges) ELSE edges
  BY DEF Obs!Observe
 <2>2. CASE gives \/ row' # table BY <2>1,<2>2,<1>3
 <2>3. CASE ~(gives \/ row' # table) BY <2>1,<2>3 DEF Linked
 <2> QED BY <2>2,<2>3
<1>5. ASSUME NEW q \in Obs!Queries, NEW e \in row'[q].edges PROVE edge'[e].state # "none"
 <2>1. CASE q \in alive
  <3>1. row'[q] = table[q] /\ table[q] \in QueryRow BY <1>1,<2>1 DEF Linked
  <3>2. e \in Obs!Edges /\ e \in table[q].edges BY <3>1,<1>5 DEF QueryRow
  <3>3. edges[e].state # "none" BY <3>2 DEF Linked
  <3> QED BY <3>2,<3>3,<1>4
 <2>2. CASE q \notin alive BY <1>1,<2>2,<1>5 DEF Obs!NoRow
 <2> QED BY <2>1,<2>2
<1> QED BY <1>1,<1>2,<1>4,<1>5 DEF Linked

LEMMA TablesLinked ==
  ASSUME OTypes, ObserverTables
  PROVE  Linked(row, edge)
BY DEF OTypes, TableTypes, ObserverTables, Linked

\* Rows that refer to the edges they referred to leave no orphan.
LEMMA SameEdges ==
  ASSUME ObserverTables, NEW table, \A q \in Obs!Queries : table[q].edges = row[q].edges
  PROVE  Anchored(table, edge)
<1>1. Obs!Used(table) = Obs!Used(row) BY DEF Obs!Used
<1> QED BY <1>1 DEF ObserverTables, Anchored

\* Rows that refer to no edges but what they referred to.
LEMMA LinkedRows ==
  ASSUME NEW table, NEW edges, NEW edges2, Linked(table, edges), NEW rows2 \in [Obs!Queries -> QueryRow],
         edges2 \in [Obs!Edges -> Edge],
         \A e \in Obs!Edges : edges[e].state # "none" => edges2[e].state # "none",
         \A q \in Obs!Queries : RowOf(rows2[q]) /\ rows2[q].edges \subseteq table[q].edges
  PROVE  Linked(rows2, edges2)
<1>1. ASSUME NEW q \in Obs!Queries, NEW e \in rows2[q].edges PROVE edges2[e].state # "none"
 BY <1>1 DEF Linked, QueryRow
<1> QED BY <1>1 DEF Linked

LEMMA RetryIs ==
  ASSUME NEW r \in QueryRow, RowOf(r)
  PROVE  /\ Obs!retryQuery(r) \in QueryRow /\ RowOf(Obs!retryQuery(r)) /\ Obs!retryQuery(r).edges = r.edges
         /\ Obs!retryQuery(r).state = r.state /\ Obs!retryQuery(r).seq = r.seq /\ Obs!retryQuery(r).val = r.val
         /\ r.state = "active" => [r EXCEPT !.pending = TRUE] = Obs!retryQuery(r)
BY DEF Obs!retryQuery, QueryRow, RowOf, Obs!NoRow

LEMMA DenyIs ==
  ASSUME NEW r \in QueryRow, RowOf(r)
  PROVE  /\ Obs!denyQuery(r) \in QueryRow /\ RowOf(Obs!denyQuery(r)) /\ Obs!denyQuery(r).edges \subseteq r.edges
         /\ Obs!denyQuery(r).seq = r.seq /\ Obs!denyQuery(r).val = r.val
         /\ Obs!denyQuery(r).state = IF r.state = "none" THEN "none" ELSE "denied"
BY DEF Obs!denyQuery, QueryRow, RowOf, Obs!NoRow

LEMMA StoredIs ==
  ASSUME NEW r \in QueryRow, RowOf(r), NEW val \in Value, NEW es, es \subseteq Obs!Edges
  PROVE  LET s == [Obs!Stored(r, val) EXCEPT !.edges = es]
         IN /\ s \in QueryRow /\ RowOf(s) /\ s.state = "active" /\ s.edges = es /\ s.val = val
            /\ s.seq # 0 /\ r.seq <= s.seq
            /\ (s.seq = r.seq => r.val = val)
<1> DEFINE n == IF r.state = "none" THEN 1 ELSE IF r.val = val THEN r.seq ELSE r.seq + 1
<1>1. n \in Nat /\ n # 0 /\ r.seq <= n /\ (n = r.seq => r.val = val) BY DEF QueryRow, RowOf, Obs!NoRow
<1>2. Obs!Stored(r, val) = [Obs!NoRow EXCEPT !.state = "active", !.val = val, !.pending = val = Obs!Unavailable, !.seq = n]
 BY Zenon DEF Obs!Stored
<1> HIDE DEF n
<1>3. PICK b \in BOOLEAN : b = (val = Obs!Unavailable) OBVIOUS
<1>4. Obs!Stored(r, val) = [Obs!NoRow EXCEPT !.state = "active", !.val = val, !.pending = b, !.seq = n]
 BY <1>2,<1>3, Zenon
<1>5. Obs!NoRow \in QueryRow BY Records
<1>6. [Obs!Stored(r, val) EXCEPT !.edges = es] \in QueryRow BY <1>1,<1>4,<1>5 DEF QueryRow
<1>7. /\ [Obs!Stored(r, val) EXCEPT !.edges = es].state = "active"
      /\ [Obs!Stored(r, val) EXCEPT !.edges = es].val = val
      /\ [Obs!Stored(r, val) EXCEPT !.edges = es].seq = n
      /\ [Obs!Stored(r, val) EXCEPT !.edges = es].edges = es BY <1>4,<1>5 DEF QueryRow
<1> QED BY <1>1,<1>6,<1>7 DEF RowOf

\* Rows without those of some pages.
LEMMA WithoutIs ==
  ASSUME NEW table, NEW edges, Linked(table, edges), NEW qs
  PROVE  /\ Linked(Obs!Without(table, qs), edges)
         /\ \A q \in Obs!Queries : Obs!Without(table, qs)[q] = IF q \in qs THEN Obs!NoRow ELSE table[q]
<1>1. \A q \in Obs!Queries : Obs!Without(table, qs)[q] = IF q \in qs THEN Obs!NoRow ELSE table[q]
 BY DEF Obs!Without
<1>2. Obs!Without(table, qs) \in [Obs!Queries -> QueryRow]
 <2>1. \A q \in Obs!Queries : (IF q \in qs THEN Obs!NoRow ELSE table[q]) \in QueryRow BY Records DEF Linked
 <2> QED BY <2>1 DEF Obs!Without
<1>3. \A q \in Obs!Queries : RowOf(Obs!Without(table, qs)[q]) /\ Obs!Without(table, qs)[q].edges \subseteq table[q].edges
 BY <1>1, Records DEF Linked, Obs!NoRow
<1>4. edges \in [Obs!Edges -> Edge] BY DEF Linked
<1> QED BY <1>1,<1>2,<1>3,<1>4, LinkedRows

-----------------------------------------------------------------------------
(* Publishing to one page                                                   *)

LEMMA TellingIs ==
  ASSUME OTypes, NEW table \in [Obs!Queries -> QueryRow], NEW p \in Pages
  PROVE  /\ Obs!ToldAfter(p, table) \in Telling
         /\ \A k \in Keys : Obs!ToldAfter(p, table)[k] =
              IF k \in Obs!Changed(p, table) THEN Obs!Told(table[<<p, k>>], sub[p].told[k]) ELSE sub[p].told[k]
<1>1. sub[p].told \in Telling BY DEF OTypes, PageTypes, Subscription
<1>2. ASSUME NEW k \in Keys PROVE Obs!Told(table[<<p, k>>], sub[p].told[k]) \in [seq : Nat, bind : Names]
 <2>1. table[<<p, k>>] \in QueryRow BY DEF Obs!Queries
 <2>2. table[<<p, k>>].val[1] \in Names /\ table[<<p, k>>].seq \in Nat BY <2>1 DEF QueryRow, Value
 <2> QED BY <1>1,<2>2 DEF Obs!Told, Telling
<1>3. \A k \in Keys : (IF k \in Obs!Changed(p, table) THEN Obs!Told(table[<<p, k>>], sub[p].told[k])
                       ELSE sub[p].told[k]) \in [seq : Nat, bind : Names] BY <1>1,<1>2 DEF Telling
<1>4. Obs!ToldAfter(p, table) \in Telling BY <1>3 DEF Obs!ToldAfter, Telling
<1> QED BY <1>4 DEF Obs!ToldAfter

LEMMA EventIs ==
  ASSUME OTypes, NEW table \in [Obs!Queries -> QueryRow], NEW p \in Pages
  PROVE  LET event == Obs!EventFor(p, table)
         IN /\ event \in Event /\ event.kind \in {"status", "update"}
            /\ DOMAIN event.results = Obs!Changed(p, table)
            /\ \A k \in Obs!Changed(p, table) : /\ event.results[k] = Obs!Public(table[<<p, k>>])
                                                /\ table[<<p, k>>].state # "active" => event.kind = "status"
<1>1. Obs!Changed(p, table) \subseteq Keys BY Constants DEF OTypes, OutsideTypes, Obs!Changed
<1>2. \A k \in Obs!Changed(p, table) : Obs!Public(table[<<p, k>>]) \in Result BY <1>1, PublicIs DEF Obs!Queries
<1>3. [k \in Obs!Changed(p, table) |-> Obs!Public(table[<<p, k>>])] \in Results
 <2>1. [k \in Obs!Changed(p, table) |-> Obs!Public(table[<<p, k>>])] \in [Obs!Changed(p, table) -> Result] BY <1>2
 <2> QED BY <1>1,<2>1 DEF Results
<1> QED BY <1>3 DEF Obs!EventFor, Event

\* The three things that may happen to an event.
Sent(l, event, m) == m = [Obs!NoLink EXCEPT !.flight = event]
Voided(l, m) == m = [flight |-> l.flight, backlog |-> Obs!NoEvent, gap |-> TRUE]
Merged(l, event, m) ==
  /\ m.flight = l.flight /\ ~m.gap /\ ~l.gap
  /\ m.backlog.kind = IF "status" \in {event.kind, l.backlog.kind} THEN "status" ELSE "update"
  /\ m.backlog.results = Obs!latestResults(l.backlog.results, event.results)

LEMMA SendIs ==
  ASSUME NEW l \in Link, LinkOf(l), NEW event \in Event, event.kind \in {"status", "update"}, NEW moved
  PROVE  LET m == Obs!sendSocketEvent(l, event, moved)
         IN /\ m \in Link /\ LinkOf(m)
            /\ \/ l.flight.kind = "none" /\ Sent(l, event, m)
               \/ l.flight.kind # "none" /\ Voided(l, m)
               \/ l.flight.kind # "none" /\ Merged(l, event, m)
<1> DEFINE m == Obs!sendSocketEvent(l, event, moved)
<1>1. CASE l.flight.kind = "none"
 <2>1. l = Obs!NoLink BY <1>1 DEF LinkOf
 <2>2. m = [Obs!NoLink EXCEPT !.flight = event] BY <1>1,<2>1 DEF Obs!sendSocketEvent
 <2>3. m \in Link BY <2>2, Records DEF Link
 <2>4. m.flight = event /\ m.backlog = Obs!NoEvent /\ m.gap = FALSE BY <2>2 DEF Obs!NoLink
 <2> QED BY <1>1,<2>2,<2>3,<2>4 DEF LinkOf, Sent, Obs!NoEvent
<1>2. CASE l.flight.kind # "none" /\ (l.gap \/ (moved /\ l.backlog.kind # "none"))
 <2>1. m = [l EXCEPT !.gap = TRUE, !.backlog = Obs!NoEvent] BY <1>2 DEF Obs!sendSocketEvent
 <2>2. m = [flight |-> l.flight, backlog |-> Obs!NoEvent, gap |-> TRUE] BY <2>1 DEF Link
 <2>3. m \in Link BY <2>2, Records DEF Link
 <2>4. LinkOf(m) BY <1>2,<2>2 DEF LinkOf, Obs!NoEvent
 <2> QED BY <1>2,<2>2,<2>3,<2>4 DEF Voided
<1>3. CASE l.flight.kind # "none" /\ ~(l.gap \/ (moved /\ l.backlog.kind # "none"))
 <2> DEFINE kind == IF "status" \in {event.kind, l.backlog.kind} THEN "status" ELSE "update"
            results == Obs!latestResults(l.backlog.results, event.results)
            next == [kind |-> kind, results |-> results]
 <2>1. m = [l EXCEPT !.backlog = next] BY <1>3, Zenon DEF Obs!sendSocketEvent
 <2>2. results \in Results BY MergedResults DEF Link, Event
 <2>3. next \in Event /\ next.kind = kind /\ next.results = results
  <3>1. kind \in {"status", "update"} OBVIOUS
  <3> HIDE DEF kind, results
  <3> QED BY <2>2,<3>1 DEF Event
 <2>4. kind \in {"status", "update"} OBVIOUS
 <2> HIDE DEF next, kind, results
 <2>5. m \in Link /\ m.flight = l.flight /\ m.gap = l.gap /\ m.backlog = next BY <2>1,<2>3 DEF Link
 <2>6. LinkOf(m) BY <1>3,<2>3,<2>4,<2>5, Records DEF LinkOf, Obs!NoLink, Obs!NoEvent
 <2>7. Merged(l, event, m)
  <3>1. l.gap \in BOOLEAN BY DEF Link
  <3> QED BY <1>3,<2>3,<2>5,<3>1 DEF Merged, kind, results
 <2> QED BY <1>3,<2>5,<2>6,<2>7
<1> HIDE DEF m
<1>4. QED BY <1>1,<1>2,<1>3 DEF m

\* Results follow each other through an event.
LEMMA FollowsOn ==
  ASSUME NEW a \in Result, NEW b \in Result, NEW c \in Result, Follows(a, b), Follows(b, c)
  PROVE  Follows(a, c)
BY DEF Follows, Result

LEMMA AfterIs ==
  ASSUME NEW event \in Event, NEW k, NEW old \in Result
  PROVE  After(event, k, old) \in Result
<1>1. \A x \in DOMAIN event.results : event.results[x] \in Result BY ResultsIs DEF Event
<1> QED BY <1>1 DEF After

LEMMA NothingAfter == ASSUME NEW k, NEW old PROVE After(Obs!NoEvent, k, old) = old
BY EmptyResults DEF After, Obs!NoEvent

\* What one event does to the flow of a query: r is its row before, r2 the row published.
LEMMA FlowsOn ==
  ASSUME NEW l \in Link, LinkOf(l), NEW event \in Event, event.kind \in {"status", "update"}, NEW moved,
         NEW k, NEW shown \in Result, NEW r \in QueryRow, RowOf(r), NEW r2 \in QueryRow, NEW told, NEW told2,
         told.seq \in Nat, FlowOf(l, k, shown, told, r), r2.state = "active" => r2 = r,
         k \in DOMAIN event.results =>
           /\ event.results[k] = Obs!Public(r2) /\ (r2.state = "active" => told2.seq = r2.seq)
           /\ r2.state # "active" => event.kind = "status",
         k \notin DOMAIN event.results => r2.state = "active" /\ told2 = told
  PROVE  LET m == Obs!sendSocketEvent(l, event, moved)
         IN /\ FlowOf(m, k, shown, told2, r2)
            /\ r2.state # "active" => Ending(m) \/ m.gap
<1> DEFINE m == Obs!sendSocketEvent(l, event, moved)
           x == InHand(l, k, shown)
           y == Last(l, k, shown)
<1>1. /\ m \in Link /\ LinkOf(m)
      /\ \/ l.flight.kind = "none" /\ Sent(l, event, m)
         \/ l.flight.kind # "none" /\ Voided(l, m)
         \/ l.flight.kind # "none" /\ Merged(l, event, m) BY SendIs
<1>2. x \in Result /\ y \in Result BY AfterIs DEF Link, InHand, Last
<1> HIDE DEF m
<1>3. SUFFICES FlowOf(m, k, shown, told2, r2) /\ (r2.state # "active" => Ending(m) \/ m.gap) BY DEF m
<1>4. CASE event.kind # "status" /\ k \in DOMAIN event.results
 <2>1. r2 = r /\ r.state = "active" /\ event.results[k] = Obs!Public(r) /\ told2.seq = r.seq BY <1>4
 <2>2. Obs!Public(r) \in Result /\ Obs!Public(r).seq = r.seq /\ r.seq # 0 /\ r.seq \in Nat
  BY PublicIs, <2>1 DEF RowOf, QueryRow
 <2>3. NotBeyond(r, Obs!Public(r)) BY <2>2 DEF NotBeyond, Same
 <2>4. ASSUME NEW z \in Result, NotBeyond(r, z) PROVE Follows(z, Obs!Public(r))
  BY <2>1,<2>2,<2>4 DEF NotBeyond, Same, Follows, Result
 <2>5. CASE l.flight.kind = "none" /\ Sent(l, event, m)
  <3>1. l = Obs!NoLink /\ x = shown /\ y = shown BY <2>5, NothingAfter DEF LinkOf, InHand, Last, Obs!NoLink
  <3>2. ~Ending(l) /\ ~l.gap /\ l.flight.kind # "status" BY <3>1 DEF Obs!NoLink, Obs!NoEvent, Ending
  <3>3. NotBeyond(r, shown) BY <3>1,<3>2 DEF FlowOf, UpToDate
  <3>4. m.flight = event /\ m.backlog = Obs!NoEvent /\ m.gap = FALSE BY <2>5 DEF Sent, Obs!NoLink
  <3>5. InHand(m, k, shown) = Obs!Public(r) /\ Last(m, k, shown) = Obs!Public(r)
   BY <3>4,<1>4,<2>1, NothingAfter DEF InHand, Last, After
  <3>6. Follows(Obs!Public(r), Obs!Public(r)) BY <2>2,<2>3,<2>4
  <3>7. UpToDate(m, k, shown, told2, r) BY <3>5,<3>6,<2>1,<2>2,<2>3 DEF UpToDate
  <3>8. m.flight.kind = "update" BY <3>4,<1>4
  <3> QED BY <3>5,<3>7,<3>8,<2>1,<2>2,<2>4,<3>3 DEF FlowOf
 <2>6. CASE l.flight.kind # "none" /\ Voided(l, m)
  <3>1. m.flight = l.flight /\ m.gap = TRUE BY <2>6 DEF Voided
  <3> QED BY <3>1,<2>1 DEF FlowOf, InHand
 <2>7. CASE l.flight.kind # "none" /\ Merged(l, event, m)
  <3>1. m.flight = l.flight /\ ~m.gap /\ ~l.gap BY <2>7 DEF Merged
  <3>2. InHand(m, k, shown) = x BY <3>1 DEF InHand
  <3>3. Last(m, k, shown) = Obs!Public(r)
   <4>2. m.backlog.results = Obs!latestResults(l.backlog.results, event.results) BY <2>7 DEF Merged
   <4>3. k \in DOMAIN m.backlog.results /\ m.backlog.results[k] = event.results[k]
    BY <1>4,<4>2 DEF Obs!latestResults
   <4> QED BY <4>3,<2>1 DEF Last, After
  <3>4. ASSUME ~Ending(m), l.flight.kind # "status" PROVE UpToDate(m, k, shown, told2, r)
   <4>1. l.backlog.kind # "status" BY <3>4,<2>7 DEF Merged, Ending
   <4>2. UpToDate(l, k, shown, told, r) BY <3>1,<3>4,<4>1 DEF FlowOf, Ending
   <4>3. Follows(x, y) /\ NotBeyond(r, y) BY <4>2 DEF UpToDate
   <4>4. Follows(x, Obs!Public(r)) BY <4>3,<2>4,<1>2,<2>2, FollowsOn
   <4> QED BY <4>4,<3>2,<3>3,<2>1,<2>2,<2>3 DEF UpToDate
  <3> QED BY <3>1,<3>2,<3>4,<2>1 DEF FlowOf
 <2> QED BY <1>1,<2>5,<2>6,<2>7
<1>5. CASE event.kind # "status" /\ k \notin DOMAIN event.results
 <2>1. r2 = r /\ told2 = told BY <1>5
 <2>2. CASE l.flight.kind = "none" /\ Sent(l, event, m)
  <3>1. l = Obs!NoLink /\ x = shown /\ y = shown BY <2>2, NothingAfter DEF LinkOf, InHand, Last, Obs!NoLink
  <3>2. m.flight = event /\ m.backlog = Obs!NoEvent /\ m.gap = FALSE BY <2>2 DEF Sent, Obs!NoLink
  <3>3. InHand(m, k, shown) = shown /\ Last(m, k, shown) = shown
   BY <3>2,<1>5, NothingAfter DEF InHand, Last, After
  <3>4. ~Ending(l) /\ ~l.gap /\ l.flight.kind \notin {"status", "snapshot"}
   BY <3>1 DEF Obs!NoLink, Obs!NoEvent, Ending
  <3>5. UpToDate(l, k, shown, told, r) /\ Follows(shown, shown) /\ shown.seq # 0 BY <3>1,<3>4 DEF FlowOf
  <3>6. UpToDate(m, k, shown, told, r) BY <3>1,<3>3,<3>5 DEF UpToDate
  <3>7. m.flight.kind = "update" BY <3>2,<1>5
  <3> QED BY <3>3,<3>5,<3>6,<3>7,<2>1,<1>5 DEF FlowOf
 <2>3. CASE l.flight.kind # "none" /\ Voided(l, m)
  <3>1. m.flight = l.flight /\ m.gap = TRUE BY <2>3 DEF Voided
  <3> QED BY <3>1,<2>1 DEF FlowOf, InHand
 <2>4. CASE l.flight.kind # "none" /\ Merged(l, event, m)
  <3>1. m.flight = l.flight /\ ~m.gap /\ ~l.gap BY <2>4 DEF Merged
  <3>2. InHand(m, k, shown) = x BY <3>1 DEF InHand
  <3>3. Last(m, k, shown) = y
   <4>2. m.backlog.results = Obs!latestResults(l.backlog.results, event.results) BY <2>4 DEF Merged
   <4>3. /\ k \in DOMAIN m.backlog.results <=> k \in DOMAIN l.backlog.results
         /\ k \in DOMAIN l.backlog.results => m.backlog.results[k] = l.backlog.results[k]
    BY <1>5,<4>2 DEF Obs!latestResults
   <4> QED BY <4>3,<3>2 DEF Last, After
  <3>4. ASSUME ~Ending(m), l.flight.kind # "status" PROVE UpToDate(m, k, shown, told2, r)
   <4>1. l.backlog.kind # "status" BY <3>4,<2>4 DEF Merged, Ending
   <4>2. UpToDate(l, k, shown, told, r) BY <3>1,<3>4,<4>1 DEF FlowOf, Ending
   <4> QED BY <4>2,<3>2,<3>3,<2>1 DEF UpToDate
  <3> QED BY <3>1,<3>2,<3>4,<2>1,<1>5 DEF FlowOf
 <2> QED BY <1>1,<2>2,<2>3,<2>4
<1>6. CASE event.kind = "status"
 <2>1. CASE l.flight.kind = "none" /\ Sent(l, event, m)
  <3>1. m.flight = event BY <2>1 DEF Sent, Obs!NoLink
  <3> QED BY <3>1,<1>6 DEF FlowOf, Ending
 <2>2. CASE l.flight.kind # "none" /\ Voided(l, m)
  <3>1. m.flight = l.flight /\ m.gap = TRUE BY <2>2 DEF Voided
  <3> QED BY <3>1 DEF FlowOf, InHand
 <2>3. CASE l.flight.kind # "none" /\ Merged(l, event, m)
  <3>1. m.flight = l.flight /\ m.backlog.kind = "status" BY <2>3,<1>6 DEF Merged
  <3> QED BY <3>1 DEF FlowOf, InHand, Ending
 <2> QED BY <1>1,<2>1,<2>2,<2>3
<1> QED BY <1>4,<1>5,<1>6

\* Publishing to one page: its link, what it counts as told, and the flow of each of its queries.
\* The rows published are those there are, or these denied.
Publishable(table) ==
  /\ table \in [Obs!Queries -> QueryRow]
  /\ \A q \in Obs!Queries : table[q].state = "active" => table[q] = row[q]
LEMMA PublishLinks ==
  ASSUME OTypes, PagesTrue, NEW table, Publishable(table), NEW p \in Pages
  PROVE  Obs!LinkAfter(p, table) \in Link /\ LinkOf(Obs!LinkAfter(p, table))
         /\ (Obs!LinkAfter(p, table) # Obs!NoLink => page[p].state = "live")
<1>1. link[p] \in Link /\ LinkOf(link[p]) /\ (link[p] # Obs!NoLink => page[p].state = "live")
 BY DEF OTypes, PageTypes, PagesTrue, SocketOf
<1>2. Obs!EventFor(p, table) \in Event /\ Obs!EventFor(p, table).kind \in {"status", "update"}
 BY EventIs DEF Publishable
<1>3. /\ Obs!sendSocketEvent(link[p], Obs!EventFor(p, table), Obs!Moved(p, table)) \in Link
      /\ LinkOf(Obs!sendSocketEvent(link[p], Obs!EventFor(p, table), Obs!Moved(p, table))) BY <1>1,<1>2, SendIs
<1> QED BY <1>1,<1>3 DEF Obs!LinkAfter

LEMMA PublishFlows ==
  ASSUME OTypes, ObserverTables, PagesTrue, QueriesTrue, NEW table, Publishable(table), NEW p \in Pages,
         NEW k \in setting.keys, Served(p)
  PROVE  /\ FlowOf(Obs!LinkAfter(p, table), k, page[p].shown[k], Obs!ToldAfter(p, table)[k], table[<<p, k>>])
         /\ table[<<p, k>>].state # "active" => Ending(Obs!LinkAfter(p, table)) \/ Obs!LinkAfter(p, table).gap
<1> DEFINE r == row[<<p, k>>]
           r2 == table[<<p, k>>]
           told == sub[p].told[k]
           told2 == Obs!ToldAfter(p, table)[k]
           shown == page[p].shown[k]
           event == Obs!EventFor(p, table)
<1>1. k \in Keys /\ <<p, k>> \in Obs!Queries BY Constants DEF OTypes, OutsideTypes, Obs!Queries
<1>2. r \in QueryRow /\ RowOf(r) /\ r2 \in QueryRow /\ (r2.state = "active" => r2 = r)
 BY <1>1 DEF OTypes, TableTypes, ObserverTables, Publishable
<1>3. told.seq \in Nat /\ shown \in Result BY <1>1 DEF OTypes, PageTypes, Subscription, Telling, Client
<1>4. link[p] \in Link /\ LinkOf(link[p]) BY DEF OTypes, PageTypes, PagesTrue, SocketOf
<1>5. FlowOf(link[p], k, shown, told, r) /\ told.seq # 0
 BY DEF QueriesTrue, QueryOf, Flows, ToldCounted, Served, Present
<1>6. told2 = IF k \in Obs!Changed(p, table) THEN Obs!Told(r2, told) ELSE told BY <1>1, TellingIs DEF Publishable
<1>7. k \notin Obs!Changed(p, table) => r2.state = "active" BY <1>5 DEF Obs!Changed
<1>8. CASE Obs!Changed(p, table) = {}
 <2>1. Obs!LinkAfter(p, table) = link[p] /\ r2.state = "active" /\ r2 = r /\ told2 = told
  BY <1>8,<1>2,<1>6,<1>7 DEF Obs!LinkAfter
 <2> QED BY <2>1,<1>5
<1>9. CASE Obs!Changed(p, table) # {}
 <2>1. Obs!LinkAfter(p, table) = Obs!sendSocketEvent(link[p], event, Obs!Moved(p, table))
  BY <1>9 DEF Obs!LinkAfter, Served
 <2>2. /\ event \in Event /\ event.kind \in {"status", "update"} /\ DOMAIN event.results = Obs!Changed(p, table)
       /\ k \in Obs!Changed(p, table) =>
            event.results[k] = Obs!Public(r2) /\ (r2.state # "active" => event.kind = "status")
  BY EventIs DEF Publishable
 <2>3. k \in Obs!Changed(p, table) /\ r2.state = "active" => told2.seq = r2.seq BY <1>6 DEF Obs!Told
 <2>4. k \notin Obs!Changed(p, table) => told2 = told BY <1>6
 <2> HIDE DEF r, r2, told, told2, shown, event
 <2>5. /\ FlowOf(Obs!sendSocketEvent(link[p], event, Obs!Moved(p, table)), k, shown, told2, r2)
       /\ r2.state # "active" => Ending(Obs!sendSocketEvent(link[p], event, Obs!Moved(p, table)))
                                 \/ Obs!sendSocketEvent(link[p], event, Obs!Moved(p, table)).gap
  BY <1>2,<1>3,<1>4,<1>5,<1>7,<2>2,<2>3,<2>4, FlowsOn
 <2>6. /\ FlowOf(Obs!LinkAfter(p, table), k, shown, told2, r2)
       /\ r2.state # "active" => Ending(Obs!LinkAfter(p, table)) \/ Obs!LinkAfter(p, table).gap
  BY <2>1,<2>5, Zenon
 <2> QED BY <2>6 DEF r2, told2, shown
<1> QED BY <1>8,<1>9

-----------------------------------------------------------------------------
(* What a step leaves alone                                                 *)

SamePage(p) == /\ page'[p] = page[p] /\ link'[p] = link[p] /\ reg'[p] = reg[p]
               /\ sub'[p].told = sub[p].told
               /\ p \in history'.lost <=> p \in history.lost
               /\ p \in history'.removed <=> p \in history.removed

\* A row goes only when its lease is over, keeps its number or gets a higher one, and is brought
\* back into use only by the alarm's evaluation.
RowMoves(q) ==
  \/ row'[q].state = "none" /\ (row[q].state # "none" => q \notin Obs!Alive)
  \/ /\ row[q].state # "none" /\ row'[q].state # "none" /\ row[q].seq <= row'[q].seq
     /\ (row'[q].seq = row[q].seq /\ row'[q].state = "active") =>
          row'[q].val = row[q].val /\ (row[q].state = "active" \/ Evaluating(q))
EvaluationMoves(q) ==
  Evaluating(q)' => /\ row'[q].state = "active" \/ Evaluating(q)
                    /\ row'[q].state = "denied" => row[q].state = "denied"
                    /\ sub[q[1]].lease = "over" => sub'[q[1]].lease = "over"

LEMMA SameRow == ASSUME OTypes, NEW q \in Obs!Queries, row'[q] = row[q] PROVE RowMoves(q)
BY DEF OTypes, TableTypes, QueryRow, RowMoves

LEMMA QueryFacts ==
  ASSUME OTypes, NEW p \in Pages, NEW k \in setting.keys
  PROVE  /\ k \in Keys /\ <<p, k>> \in Obs!Queries /\ <<p, k>>[1] = p /\ <<p, k>>[2] = k
         /\ row[<<p, k>>] \in QueryRow /\ sub[p] \in Subscription /\ sub[p].told[k].seq \in Nat
         /\ link[p] \in Link /\ page[p].shown[k] \in Result /\ page[p] \in Client
         /\ \A n \in DOMAIN reg[p].got : reg[p].got[n] \in Result /\ n \in Keys
<1>1. k \in Keys /\ <<p, k>> \in Obs!Queries BY Constants DEF OTypes, OutsideTypes, Obs!Queries
<1>2. reg[p].got \in Results BY DEF OTypes, PageTypes, Registration
<1>3. \A n \in DOMAIN reg[p].got : reg[p].got[n] \in Result /\ n \in Keys BY <1>2, ResultsIs
<1> QED BY <1>1,<1>3 DEF OTypes, TableTypes, PageTypes, Subscription, Telling, Client

\* A row that moves stays in step with what is behind it.
LEMMA BehindStays ==
  ASSUME NEW r \in QueryRow, NEW r2 \in QueryRow, NEW v \in Result, r.state # "none", r.seq <= r2.seq,
         NotBeyond(r, v),
         r2.seq = r.seq /\ r2.state = "active" => r2.val = r.val /\ r.state = "active"
  PROVE  NotBeyond(r2, v)
<1>1. v.seq <= r.seq /\ v.seq \in Nat /\ r.seq \in Nat /\ r2.seq \in Nat BY DEF NotBeyond, QueryRow, Result
<1>2. v.seq <= r2.seq BY <1>1
<1>3. ASSUME r2.state = "active", v.seq = r2.seq PROVE v = Obs!Public(r2)
 <2>1. r2.seq = r.seq BY <1>1,<1>3
 <2>2. v = Obs!Public(r) BY <2>1,<1>3 DEF NotBeyond, Same
 <2> QED BY <2>1,<2>2,<1>3 DEF Obs!Public
<1> QED BY <1>2,<1>3 DEF NotBeyond, Same

LEMMA QueryStays ==
  ASSUME OTypes, OTypes', Alarms, PagesTrue, NEW p \in Pages, NEW k \in setting.keys,
         k \in setting'.keys, QueryOf(p, k),
         grant.barred => grant'.barred, SamePage(p), RowMoves(<<p, k>>), EvaluationMoves(<<p, k>>)
  PROVE  QueryOf(p, k)'
<1> DEFINE q == <<p, k>>
           r == row[q]
           r2 == row'[q]
<1>1. /\ k \in Keys /\ q \in Obs!Queries /\ q[1] = p /\ r \in QueryRow /\ sub[p] \in Subscription /\ sub[p].told[k].seq \in Nat
      /\ page[p].shown[k] \in Result /\ link[p] \in Link BY QueryFacts
<1>2. r2 \in QueryRow BY <1>1 DEF OTypes, TableTypes
<1>3. (Present(p)' <=> Present(p)) /\ (Served(p)' <=> Served(p)) BY DEF Present, Served, SamePage
<1>4. reg[p].on => sub[p].lease = "fresh" BY DEF PagesTrue, Joins
<1>5. sub[p].told[k].seq # 0 => sub[p].lease # "absent"
 <2>1. Obs!Untold[k].seq = 0 BY <1>1 DEF Obs!Untold
 <2> HIDE DEF q, r, r2
 <2> QED BY <2>1, Zenon DEF PagesTrue, SocketOf
<1>6. ASSUME q \notin Obs!Alive PROVE sub[p].lease \in {"absent", "over"} BY <1>1,<1>6 DEF Obs!Alive, Subscription
<1> HIDE DEF q, r, r2
<1>7. CASE r2.state = "none" /\ (r.state # "none" => q \notin Obs!Alive)
 <2>1. ToldCounted(p, k)'
  <3>1. ASSUME Present(p)' PROVE sub'[p].told[k].seq # 0 <=> page'[p].state = "live" \/ k \in DOMAIN reg'[p].got
   BY <1>3,<3>1 DEF QueryOf, ToldCounted, SamePage
  <3>2. ASSUME Present(p)', sub'[p].told[k].seq # 0, Evaluating(q)' PROVE sub'[p].lease = "over"
   <4>1. Evaluating(q) /\ (sub[p].lease = "over" => sub'[p].lease = "over")
    BY <3>2,<1>7,<1>1 DEF EvaluationMoves, q, r2
   <4>2. CASE r.state = "none" BY <4>1,<4>2,<1>3,<3>2 DEF QueryOf, ToldCounted, SamePage, q, r
   <4>3. CASE r.state # "none" BY <4>1,<4>3,<1>5,<1>6,<1>7,<3>2 DEF SamePage
   <4> QED BY <4>2,<4>3
  <3> QED BY <3>1,<3>2,<1>7 DEF ToldCounted, q, r2
 <2>2. Gets(p, k)'
  <3>1. ASSUME Present(p), reg[p].on, k \in DOMAIN reg[p].got PROVE FALSE
   <4>1. r.state # "none" BY <3>1 DEF QueryOf, Gets, q, r
   <4> QED BY <4>1,<1>4,<1>6,<1>7,<3>1
  <3> QED BY <3>1,<1>3 DEF Gets, SamePage
 <2>3. Flows(p, k)'
  <3>1. ASSUME Served(p)
        PROVE  FlowOf(link[p], k, page[p].shown[k], sub[p].told[k], r2)
   <4>1. FlowOf(link[p], k, page[p].shown[k], sub[p].told[k], r) BY <3>1 DEF QueryOf, Flows, q, r
   <4>2. NotBeyond(r2, Last(link[p], k, page[p].shown[k])) BY <1>7 DEF NotBeyond
   <4> QED BY <4>1,<4>2 DEF FlowOf, UpToDate
  <3> QED BY <3>1,<1>3 DEF Flows, SamePage, q, r2
 <2>4. Revives(p, k)' BY <1>7 DEF Revives, q, r2
 <2> QED BY <2>1,<2>2,<2>3,<2>4 DEF QueryOf
<1>8. CASE /\ r.state # "none" /\ r2.state # "none" /\ r.seq <= r2.seq
           /\ (r2.seq = r.seq /\ r2.state = "active") =>
                r2.val = r.val /\ (r.state = "active" \/ Evaluating(q))
 <2>0. r.state # "active" /\ Evaluating(q) => r.state = "denied" /\ grant.barred
  BY <1>1,<1>8 DEF Alarms, QueryRow, r
 <2>1. ToldCounted(p, k)'
  <3>1. ASSUME Present(p)' PROVE sub'[p].told[k].seq # 0 <=> page'[p].state = "live" \/ k \in DOMAIN reg'[p].got
   BY <1>3,<3>1 DEF QueryOf, ToldCounted, SamePage
  <3>2. ASSUME Present(p)' PROVE sub'[p].told[k].seq <= r2.seq
   <4>1. sub[p].told[k].seq <= r.seq BY <3>2,<1>3,<1>8 DEF QueryOf, ToldCounted, q, r
   <4> QED BY <4>1,<1>1,<1>2,<1>8 DEF QueryRow, SamePage
  <3> QED BY <3>1,<3>2,<1>8 DEF ToldCounted, q, r2
 <2>2. Gets(p, k)'
  <3>1. ASSUME Present(p), reg[p].on, k \in DOMAIN reg[p].got
        PROVE  reg[p].got[k].seq # 0 /\ (~grant'.barred => NotBeyond(r2, reg[p].got[k]))
   <4>1. reg[p].got[k].seq # 0 /\ (~grant.barred => NotBeyond(r, reg[p].got[k])) BY <3>1 DEF QueryOf, Gets, q, r
   <4>2. ~grant'.barred => ~grant.barred OBVIOUS
   <4>3. reg[p].got[k] \in Result BY <3>1, QueryFacts
   <4> QED BY <4>1,<4>2,<4>3,<1>1,<1>2,<1>8,<2>0, BehindStays
  <3> QED BY <3>1,<1>3,<1>8 DEF Gets, SamePage, q, r2
 <2>3. Flows(p, k)'
  <3>1. ASSUME Served(p)
        PROVE  FlowOf(link[p], k, page[p].shown[k], sub[p].told[k], r2)
   <4>1. FlowOf(link[p], k, page[p].shown[k], sub[p].told[k], r) BY <3>1 DEF QueryOf, Flows, q, r
   <4>2. CASE Ending(link[p]) \/ link[p].gap BY <4>1,<4>2 DEF FlowOf
   <4>3. CASE ~(Ending(link[p]) \/ link[p].gap)
    <5>1. r.state # "active" => ~Evaluating(q) BY <4>3,<3>1,<2>0 DEF QueryOf, Revives, q, r
    <5>2. Last(link[p], k, page[p].shown[k]) \in Result BY <1>1, AfterIs DEF Last, InHand, Link
    <5>3. ASSUME NotBeyond(r, Last(link[p], k, page[p].shown[k]))
          PROVE  NotBeyond(r2, Last(link[p], k, page[p].shown[k])) BY <5>1,<5>2,<5>3,<1>1,<1>2,<1>8, BehindStays
    <5> QED BY <4>1,<4>3,<5>3 DEF FlowOf, UpToDate
   <4> QED BY <4>2,<4>3
  <3> QED BY <3>1,<1>3 DEF Flows, SamePage, q, r2
 <2>4. Revives(p, k)'
  <3>1. ASSUME Served(p), r2.state = "denied", Evaluating(q)' PROVE Ending(link[p]) \/ link[p].gap
   <4>1. Evaluating(q) /\ r.state = "denied" BY <3>1 DEF EvaluationMoves, q, r, r2
   <4> QED BY <4>1,<3>1 DEF QueryOf, Revives, q, r
  <3> QED BY <3>1,<1>3 DEF Revives, SamePage, q, r2
 <2> QED BY <2>1,<2>2,<2>3,<2>4 DEF QueryOf
<1> QED BY <1>7,<1>8 DEF RowMoves, q, r, r2

\* A page that is neither joining nor live is owed nothing.
LEMMA QueryAway ==
  ASSUME NEW p, NEW k, page'[p].state \notin {"live", "joining"}
  PROVE  QueryOf(p, k)'
BY DEF QueryOf, ToldCounted, Gets, Flows, Revives, Present, Served

LEMMA PageStays ==
  ASSUME PagesTrue, NEW p \in Pages, SamePage(p), reg[p].on => sub'[p].lease = "fresh",
         sub'[p].lease = "absent" => sub[p].lease = "absent",
         \A k \in Keys : ev'[<<<<p, k>>, "register">>].pc # "idle" => ev[<<<<p, k>>, "register">>].pc # "idle"
  PROVE  Joins(p)' /\ SocketOf(p)'
BY DEF PagesTrue, Joins, SocketOf, SamePage

\* No result of the query has been given to the page.
Unowed(p, k) == ~Present(p) \/ (page[p].state = "joining" /\ k \notin DOMAIN reg[p].got)
LEMMA QueryUnowed ==
  ASSUME PagesTrue, NEW p \in Pages, NEW k \in Keys, QueryOf(p, k), SamePage(p), Unowed(p, k),
         OTypes'
  PROVE  QueryOf(p, k)'
<1>1. CASE ~Present(p) BY <1>1 DEF Present, QueryOf, ToldCounted, Gets, Flows, Revives, Served, SamePage
<1>2. CASE Present(p) /\ page[p].state = "joining" /\ k \notin DOMAIN reg[p].got
 <2>1. sub[p].told[k].seq = 0 BY <1>2 DEF QueryOf, ToldCounted
 <2>2. row'[<<p, k>>].seq \in Nat
  <3>1. <<p, k>> \in Obs!Queries BY DEF Obs!Queries
  <3> QED BY <3>1 DEF OTypes, TableTypes, QueryRow
 <2>3. sub'[p].told[k].seq = 0 /\ page'[p].state = "joining" /\ k \notin DOMAIN reg'[p].got
  BY <2>1,<1>2 DEF SamePage
 <2>4. ToldCounted(p, k)' BY <2>2,<2>3 DEF ToldCounted
 <2> QED BY <2>3,<2>4 DEF QueryOf, Gets, Flows, Revives, Served
<1> QED BY <1>1,<1>2 DEF Unowed

\* A page the step leaves alone, whatever becomes of the rows.
LEMMA PageKept ==
  ASSUME OInv, OTypes', setting' = setting, grant.barred => grant'.barred,
         NEW p \in Pages, SamePage(p),
         reg[p].on => sub'[p].lease = "fresh", sub'[p].lease = "absent" => sub[p].lease = "absent",
         \A k \in Keys : ev'[<<<<p, k>>, "register">>].pc # "idle" => ev[<<<<p, k>>, "register">>].pc # "idle",
         \A k \in setting.keys : (RowMoves(<<p, k>>) /\ EvaluationMoves(<<p, k>>)) \/ Unowed(p, k)
  PROVE  Joins(p)' /\ SocketOf(p)' /\ \A k \in setting'.keys : QueryOf(p, k)'
<1>1. Joins(p)' /\ SocketOf(p)' BY PageStays DEF OInv
<1>2. ASSUME NEW k \in setting.keys PROVE QueryOf(p, k)'
 <2>1. QueryOf(p, k) BY DEF OInv, QueriesTrue
 <2>2. CASE RowMoves(<<p, k>>) /\ EvaluationMoves(<<p, k>>) BY <2>1,<2>2, QueryStays DEF OInv
 <2>3. CASE Unowed(p, k) BY <2>1,<2>3, QueryUnowed, QueryFacts DEF OInv
 <2> QED BY <1>2,<2>2,<2>3
<1> QED BY <1>1,<1>2

LEMMA AlarmsStay ==
  ASSUME Alarms, observerAlarm' = observerAlarm,
         \A q \in Obs!Queries : Evaluating(q)' =>
            Evaluating(q) /\ (row'[q].state = "denied" => row[q].state = "denied" \/ grant'.barred),
         grant.barred => grant'.barred
  PROVE  Alarms'
BY DEF Alarms

Fewer == \A q \in Obs!Queries, by \in Obs!Users : ev'[<<q, by>>].pc # "idle" => ev[<<q, by>>].pc # "idle"
Barring == grant.barred => grant'.barred

\* Steps that leave rows and pages alone.
LEMMA Untouched ==
  ASSUME OInv, OTypes', ObserverTables', setting' = setting,
         UNCHANGED <<row, observerAlarm, sub, reg, link, page, history>>,
         Barring, Fewer
  PROVE  OInv'
<1>1. \A q \in Obs!Queries : Evaluating(q)' => Evaluating(q) BY DEF Fewer, Obs!Users, Evaluating
<1>2. Alarms' BY <1>1, AlarmsStay DEF OInv, Barring
<1>3. ASSUME NEW p \in Pages PROVE Joins(p)' /\ SocketOf(p)' /\ \A k \in setting'.keys : QueryOf(p, k)'
 <2>1. SamePage(p) /\ (reg[p].on => sub'[p].lease = "fresh") BY DEF SamePage, OInv, PagesTrue, Joins
 <2>2. ASSUME NEW k \in setting.keys PROVE RowMoves(<<p, k>>) /\ EvaluationMoves(<<p, k>>)
  <3>1. <<p, k>> \in Obs!Queries BY QueryFacts DEF OInv
  <3> QED BY <1>1,<3>1, SameRow DEF OInv, EvaluationMoves
 <2>3. \A k \in Keys : <<p, k>> \in Obs!Queries BY DEF Obs!Queries
 <2>4. \A k \in Keys : ev'[<<<<p, k>>, "register">>].pc # "idle" => ev[<<<<p, k>>, "register">>].pc # "idle"
  BY <2>3 DEF Fewer, Obs!Users
 <2>5. sub'[p].lease = "absent" => sub[p].lease = "absent" OBVIOUS
 <2> QED BY <2>1,<2>2,<2>4,<2>5, PageKept DEF Barring
<1> QED BY <1>2,<1>3 DEF OInv, PagesTrue, QueriesTrue

\* A row a handler found, and what it makes of it before the queries whose lease is over go.
Moving(table, q) ==
  /\ \/ row[q].state = "none" /\ table[q].state = "none"
     \/ q \notin Obs!Alive
     \/ /\ row[q].state # "none" /\ table[q].state # "none" /\ row[q].seq <= table[q].seq
        /\ (table[q].seq = row[q].seq /\ table[q].state = "active") =>
             table[q].val = row[q].val /\ (row[q].state = "active" \/ Evaluating(q))
  /\ Evaluating(q)' => Evaluating(q) /\ (table[q].state = "denied" => row[q].state = "denied")
LEMMA ObservedMoves ==
  ASSUME NEW q \in Obs!Queries, NEW table, row'[q] = IF q \in Obs!Alive THEN table[q] ELSE Obs!NoRow,
         Moving(table, q),
         sub'[q[1]].lease = sub[q[1]].lease
  PROVE  /\ RowMoves(q) /\ EvaluationMoves(q)
         /\ Evaluating(q)' => Evaluating(q) /\ (row'[q].state = "denied" => row[q].state = "denied")
BY DEF Moving, RowMoves, EvaluationMoves, Obs!NoRow

\* Steps that leave the pages alone, but not the rows.
LEMMA Touched ==
  ASSUME OInv, OTypes', \A e \in Obs!Edges : source'[e].out => source'[e].watch,
         setting' = setting, UNCHANGED <<observerAlarm, sub, reg, link, page, history>>, Barring, Fewer,
         NEW table, NEW edges, NEW gives, Linked(table, edges), Obs!Observe(gives, table, edges, Obs!Alive),
         gives \/ Anchored(table, edges),
         \A p \in Pages, k \in Keys : Evaluating(<<p, k>>)' =>
            Evaluating(<<p, k>>) /\ (table[<<p, k>>].state = "denied" => row[<<p, k>>].state = "denied"),
         \A p \in Pages, k \in setting.keys : Moving(table, <<p, k>>) \/ Unowed(p, k)
  PROVE  OInv'
<1>1. /\ \A q \in Obs!Queries : row'[q] = IF q \in Obs!Alive THEN table[q] ELSE Obs!NoRow
      /\ ObserverTables' BY ObserveIs DEF Linked, ObserverTables
<1>2. Alarms'
 <2>1. ASSUME NEW q \in Obs!Queries, Evaluating(q)'
       PROVE  Evaluating(q) /\ (row'[q].state = "denied" => row[q].state = "denied" \/ grant'.barred)
  <3>1. PICK p \in Pages, k \in Keys : q = <<p, k>> BY DEF Obs!Queries
  <3>2. row'[q].state = "denied" => table[q].state = "denied" BY <1>1 DEF Obs!NoRow
  <3> QED BY <2>1,<3>1,<3>2
 <2> QED BY <2>1, AlarmsStay DEF OInv, Barring
<1>3. ASSUME NEW p \in Pages PROVE Joins(p)' /\ SocketOf(p)' /\ \A k \in setting'.keys : QueryOf(p, k)'
 <2>1. SamePage(p) /\ (reg[p].on => sub'[p].lease = "fresh") BY DEF SamePage, OInv, PagesTrue, Joins
 <2>2. ASSUME NEW k \in setting.keys, ~Unowed(p, k) PROVE RowMoves(<<p, k>>) /\ EvaluationMoves(<<p, k>>)
  <3>1. <<p, k>> \in Obs!Queries BY QueryFacts DEF OInv
  <3>2. Moving(table, <<p, k>>) BY <2>2
  <3> QED BY <3>1,<3>2,<1>1, ObservedMoves
 <2>3. \A k \in Keys : <<p, k>> \in Obs!Queries BY DEF Obs!Queries
 <2>4. \A k \in Keys : ev'[<<<<p, k>>, "register">>].pc # "idle" => ev[<<<<p, k>>, "register">>].pc # "idle"
  BY <2>3 DEF Fewer, Obs!Users
 <2>5. sub'[p].lease = "absent" => sub[p].lease = "absent" OBVIOUS
 <2> QED BY <2>1,<2>2,<2>4,<2>5, PageKept DEF Barring
<1> QED BY <1>1,<1>2,<1>3 DEF OInv, PagesTrue, QueriesTrue

-----------------------------------------------------------------------------
(* The sources and the grant                                                *)

Heard(s) == s.out => s.watch
LEMMA SourceIs ==
  ASSUME NEW s \in Source, Heard(s)
  PROVE  /\ [s EXCEPT !.watch = TRUE] \in Source /\ Heard([s EXCEPT !.watch = TRUE])
         /\ [s EXCEPT !.out = FALSE] \in Source /\ Heard([s EXCEPT !.out = FALSE])
         /\ [s EXCEPT !.watch = FALSE, !.out = FALSE] \in Source
         /\ Heard([s EXCEPT !.watch = FALSE, !.out = FALSE])
<1>1. /\ [s EXCEPT !.watch = TRUE].watch = TRUE /\ [s EXCEPT !.out = FALSE].out = FALSE
      /\ [s EXCEPT !.watch = FALSE, !.out = FALSE].out = FALSE BY DEF Source
<1>2. [s EXCEPT !.watch = TRUE] \in Source /\ [s EXCEPT !.out = FALSE] \in Source BY DEF Source
<1>3. [s EXCEPT !.watch = FALSE, !.out = FALSE] \in Source BY DEF Source
<1> QED BY <1>1,<1>2,<1>3 DEF Heard

Sources(s) == s \in [Obs!Edges -> Source] /\ \A e \in Obs!Edges : Heard(s[e])
LEMMA OneSource ==
  ASSUME NEW s, Sources(s), NEW e \in Obs!Edges, NEW r, r \in Source, Heard(r)
  PROVE  Sources([s EXCEPT ![e] = r])
BY DEF Sources

LEMMA SourcesNow == ASSUME OTypes, ObserverTables PROVE Sources(source)
BY DEF OTypes, OutsideTypes, ObserverTables, Sources, Heard

LEMMA BumpIs == ASSUME NEW s, Sources(s), NEW e \in Obs!Edges PROVE Sources(Obs!Bump(s, e))
<1> DEFINE r == s[e]
<1>1. r \in Source /\ Heard(r) BY DEF Sources
<1>2. PICK b \in BOOLEAN : b = (r.out \/ r.watch) BY <1>1 DEF Source
<1>3. Obs!Bump(s, e) = [s EXCEPT ![e] = [r EXCEPT !.rev = @ + 1, !.out = b]]
 <2>1. Obs!Bump(s, e) = [s EXCEPT ![e] = [s[e] EXCEPT !.rev = @ + 1, !.out = @ \/ s[e].watch]] BY DEF Obs!Bump
 <2> QED BY <2>1,<1>2, Zenon
<1> HIDE DEF r
<1> DEFINE n == r.rev + 1
           t == [r EXCEPT !.rev = n, !.out = b]
<1>4. n \in Nat BY <1>1 DEF Source
<1>5. Obs!Bump(s, e) = [s EXCEPT ![e] = t] BY <1>3
<1> HIDE DEF n
<1>6. t \in Source /\ t.out = b /\ t.watch = r.watch BY <1>1,<1>4 DEF Source
<1>7. b => r.watch BY <1>1,<1>2 DEF Heard
<1> HIDE DEF t
<1>8. Heard(t) BY <1>6,<1>7 DEF Heard
<1>9. Sources([s EXCEPT ![e] = t]) BY <1>6,<1>8, OneSource
<1> QED BY <1>5,<1>9, Zenon

\* Everything but the sources, the binding and the grant stays.
LEMMA OutsideMoves ==
  ASSUME OInv, Sources(source'), bound' \in Obs!Realms \cup {"moving"},
         grant' \in [revoked : BOOLEAN, out : BOOLEAN, barred : BOOLEAN], det' \in [Obs!Edges -> Detach], Barring,
         UNCHANGED <<setting, row, edge, seen, ev, observerAlarm, sub, reg, link, page, late, faults,
                     history>>
  PROVE  OInv'
<1>1. OTypes' BY DEF OInv, OTypes, OutsideTypes, TableTypes, PageTypes, Sources
<1>2. ObserverTables' BY DEF OInv, ObserverTables, Anchored, Sources, Heard
<1>3. Fewer BY DEF Fewer
<1> QED BY <1>1,<1>2,<1>3, Untouched

LEMMA CommitKeeps ==
  ASSUME OInv, NEW e \in Obs!Edges, Obs!Commit(e)
  PROVE  OInv'
<1>1. Sources(source') BY SourcesNow, BumpIs DEF OInv, Obs!Commit
<1> QED BY <1>1, OutsideMoves DEF OInv, OTypes, OutsideTypes, Obs!Commit, Barring

LEMMA BindingKeeps ==
  ASSUME OInv, Obs!BindingLeaves \/ Obs!BindingArrives
  PROVE  OInv'
<1>1. Sources(source') BY SourcesNow, BumpIs DEF OInv, Obs!BindingLeaves, Obs!BindingArrives, Obs!Edges
<1>2. bound' \in Obs!Realms \cup {"moving"} BY DEF Obs!BindingLeaves, Obs!BindingArrives, Obs!Realms
<1> QED BY <1>1,<1>2, OutsideMoves
           DEF OInv, OTypes, OutsideTypes, Obs!BindingLeaves, Obs!BindingArrives,
               Barring

LEMMA UnwatchIs ==
  ASSUME OTypes, ObserverTables, NEW e \in Obs!Edges
  PROVE  Sources(Obs!Unwatch(e))
<1>1. source[e] \in Source /\ Heard(source[e]) BY SourcesNow DEF Sources
<1> QED BY <1>1, SourcesNow, SourceIs, OneSource DEF Obs!Unwatch, Obs!Unwatched

LEMMA WatchLapsesKeeps ==
  ASSUME OInv, NEW e \in Obs!Edges, Obs!WatchLapses(e)
  PROVE  OInv'
<1>1. Sources(source') BY UnwatchIs DEF OInv, Obs!WatchLapses
<1> QED BY <1>1, OutsideMoves
           DEF OInv, OTypes, OutsideTypes, Obs!WatchLapses, Barring

LEMMA RevokeKeeps == ASSUME OInv, Obs!revokeGrant PROVE OInv'
<1>1. Sources(source') BY SourcesNow DEF OInv, Obs!revokeGrant
<1>2. grant' \in [revoked : BOOLEAN, out : BOOLEAN, barred : BOOLEAN] /\ grant'.barred = grant.barred
 BY DEF OInv, OTypes, OutsideTypes, Obs!revokeGrant
<1> QED BY <1>1,<1>2, OutsideMoves
           DEF OInv, OTypes, OutsideTypes, Obs!revokeGrant, Barring

\* One lost call more.
LEMMA FaultIs == ASSUME OTypes, Obs!Fault PROVE faults' \in [losses : Nat, delays : Nat]
BY DEF OTypes, OutsideTypes, Obs!Fault

\* Rows of which only what is pending changes.
PendingOnly(table) ==
  /\ table \in [Obs!Queries -> QueryRow]
  /\ \A q \in Obs!Queries : table[q] \in {row[q], Obs!retryQuery(row[q])}
LEMMA PendingMoves ==
  ASSUME OTypes, ObserverTables, Fewer, NEW table, PendingOnly(table)
  PROVE  /\ Linked(table, edge) /\ Anchored(table, edge)
         /\ \A p \in Pages, k \in Keys : Evaluating(<<p, k>>)' =>
            Evaluating(<<p, k>>) /\ (table[<<p, k>>].state = "denied" => row[<<p, k>>].state = "denied")
         /\ \A p \in Pages, k \in setting.keys : Moving(table, <<p, k>>)
<1>1. \A q \in Obs!Queries : row[q] \in QueryRow /\ RowOf(row[q]) BY DEF OTypes, TableTypes, ObserverTables
<1>2. ASSUME NEW q \in Obs!Queries
      PROVE  /\ table[q].edges = row[q].edges /\ table[q].state = row[q].state /\ table[q].seq = row[q].seq
             /\ table[q].val = row[q].val /\ RowOf(table[q]) BY <1>1, RetryIs DEF PendingOnly
<1>3. Linked(table, edge) /\ Anchored(table, edge)
 BY <1>2, TablesLinked, LinkedRows, SameEdges DEF PendingOnly, OTypes, TableTypes
<1>4. ASSUME NEW q \in Obs!Queries
      PROVE  Moving(table, q) /\ (Evaluating(q)' => Evaluating(q))
 <2>1. Evaluating(q)' => Evaluating(q) BY DEF Fewer, Obs!Users, Evaluating
 <2>2. row[q].seq \in Nat /\ row[q].state \in {"none", "active", "denied"} BY <1>1 DEF QueryRow
 <2> QED BY <2>1,<2>2,<1>2 DEF Moving
<1>5. \A p \in Pages, k \in Keys : <<p, k>> \in Obs!Queries BY DEF Obs!Queries
<1>6. setting.keys \subseteq Keys BY Constants DEF OTypes, OutsideTypes
<1> QED BY <1>2,<1>3,<1>4,<1>5,<1>6

LEMMA ReceiveKeeps ==
  ASSUME OInv, NEW e \in Obs!Edges, Obs!receiveNotification(e)
  PROVE  OInv'
<1> DEFINE table == Obs!invalidateForNotification(e)
<1>1. Fewer /\ Barring BY DEF Obs!receiveNotification, Fewer, Barring
<1>2. PendingOnly(table)
 <2>1. \A q \in Obs!Queries : row[q] \in QueryRow /\ RowOf(row[q]) BY DEF OInv, OTypes, TableTypes, ObserverTables
 <2>2. ASSUME NEW q \in Obs!Queries, e \in row[q].edges PROVE [row[q] EXCEPT !.pending = TRUE] = Obs!retryQuery(row[q])
  <3>1. row[q].state = "active" BY <2>1,<2>2 DEF RowOf
  <3> QED BY <3>1,<2>1, RetryIs
 <2>3. \A q \in Obs!Queries : table[q] \in {row[q], Obs!retryQuery(row[q])}
  BY <2>2 DEF Obs!invalidateForNotification
 <2>4. \A q \in Obs!Queries : table[q] \in QueryRow BY <2>1,<2>3, RetryIs
 <2> QED BY <2>3,<2>4 DEF PendingOnly, Obs!invalidateForNotification
<1>3. Linked(table, edge) /\ Anchored(table, edge) BY <1>1,<1>2, PendingMoves DEF OInv
<1>4. Sources(source')
 <2>1. source[e] \in Source /\ Heard(source[e]) BY SourcesNow DEF OInv, Sources
 <2>2. source' = source \/ source' = [source EXCEPT ![e] = [source[e] EXCEPT !.out = FALSE]]
  BY DEF Obs!receiveNotification, Obs!deliverOne
 <2>3. [source[e] EXCEPT !.out = FALSE] \in Source /\ Heard([source[e] EXCEPT !.out = FALSE]) BY <2>1, SourceIs
 <2>4. Sources(source) /\ Sources([source EXCEPT ![e] = [source[e] EXCEPT !.out = FALSE]])
  BY <2>3, SourcesNow, OneSource DEF OInv
 <2> QED BY <2>2,<2>4
<1>5. Obs!Observe(FALSE, table, edge, Obs!Alive) BY DEF Obs!receiveNotification
<1>6. OTypes'
 <2>1. Linked(row', edge') BY <1>3,<1>5, ObserveIs
 <2>2. seen' \in [Obs!Edges -> Nat]
  BY SourcesNow DEF OInv, OTypes, OutsideTypes, Obs!receiveNotification, Sources, Source
 <2>3. faults' \in [losses : Nat, delays : Nat]
  BY FaultIs DEF OInv, OTypes, OutsideTypes, Obs!receiveNotification, Obs!deliverOne
 <2> QED BY <2>1,<2>2,<2>3,<1>4
     DEF OInv, OTypes, OutsideTypes, TableTypes, PageTypes, Obs!receiveNotification, Linked, Sources
<1>7. \A f \in Obs!Edges : source'[f].out => source'[f].watch BY <1>4 DEF Sources, Heard
<1>8. setting' = setting /\ UNCHANGED <<observerAlarm, sub, reg, link, page, history>>
 BY DEF Obs!receiveNotification
<1> HIDE DEF table
<1> QED BY <1>1,<1>2,<1>3,<1>5,<1>6,<1>7,<1>8, PendingMoves, Touched DEF OInv

\* The calls of a detach, and the look at the row between them.
LEMMA CallKeeps ==
  ASSUME OInv, NEW e \in Obs!Edges, Obs!cleanupDetachedSources(e) \/ Obs!reattach(e)
  PROVE  OInv'
<1>1. Sources(source')
 <2>1. source[e] \in Source /\ Heard(source[e]) BY SourcesNow DEF OInv, Sources
 <2>2. Sources(Obs!Watched(e)) BY <2>1, SourcesNow, SourceIs, OneSource DEF OInv, Obs!Watched
 <2> QED BY <2>2, UnwatchIs DEF OInv, Obs!cleanupDetachedSources, Obs!reattach
<1>2. det' \in [Obs!Edges -> Detach]
 <2>1. det \in [Obs!Edges -> Detach] /\ source[e].rev \in Nat BY SourcesNow DEF OInv, OTypes, OutsideTypes, Sources, Source
 <2> QED BY <2>1 DEF Obs!cleanupDetachedSources, Obs!reattach, Detach
<1> QED BY <1>1,<1>2, OutsideMoves
        DEF OInv, OTypes, OutsideTypes, Obs!cleanupDetachedSources, Obs!reattach, Barring

LEMMA NoDetachIs == Obs!NoDetach \in Detach BY DEF Obs!NoDetach, Detach

LEMMA ExamineKeeps ==
  ASSUME OInv, NEW e \in Obs!Edges, Obs!examine(e) \/ Obs!detachFails(e)
  PROVE  OInv'
<1>1. /\ Fewer /\ Barring /\ setting' = setting
      /\ UNCHANGED <<source, row, ev, bound, grant, seen, late, observerAlarm, sub, reg, link, page, history>>
 BY DEF Obs!examine, Obs!detachFails, Fewer, Barring
<1>2. edge \in [Obs!Edges -> Edge] /\ Obs!NoEdge \in Edge /\ Obs!NoEdge.state = "none" /\ edge[e].expected \in Nat
 BY DEF OInv, OTypes, TableTypes, Edge, Obs!NoEdge
<1>3. det' \in [Obs!Edges -> Detach]
 <2>1. [Obs!NoDetach EXCEPT !.pc = "asks", !.expected = edge[e].expected] \in Detach
  BY <1>2 DEF Obs!NoDetach, Detach
 <2>2. det \in [Obs!Edges -> Detach] BY DEF OInv, OTypes, OutsideTypes
 <2> HIDE DEF Obs!NoDetach
 <2> QED BY <2>1,<2>2, NoDetachIs DEF Obs!examine, Obs!detachFails
<1>4. faults' \in [losses : Nat, delays : Nat]
 BY FaultIs DEF OInv, OTypes, OutsideTypes, Obs!examine, Obs!detachFails
<1>5. edge' = edge \/ (edge' = [edge EXCEPT ![e] = Obs!NoEdge] /\ e \notin Obs!Used(row))
 BY DEF Obs!examine, Obs!detachFails
<1>6. edge' \in [Obs!Edges -> Edge] BY <1>2,<1>5
<1>7. ObserverTables'
 <2>1. CASE edge' = edge BY <2>1,<1>1 DEF OInv, ObserverTables, Anchored
 <2>2. CASE edge' = [edge EXCEPT ![e] = Obs!NoEdge] /\ e \notin Obs!Used(row)
  <3>1. \A q \in Obs!Queries : e \notin row[q].edges /\ row[q].edges \subseteq Obs!Edges
   BY <2>2 DEF Obs!Used, OInv, OTypes, TableTypes, QueryRow
  <3>2. \A f \in Obs!Edges : edge'[f] = IF f = e THEN Obs!NoEdge ELSE edge[f] BY <2>2,<1>2
  <3>3. Anchored(row, edge)' BY <3>2,<1>1,<1>2 DEF OInv, ObserverTables, Anchored, Obs!Used
  <3>4. \A q \in Obs!Queries : RowOf(row[q])' /\ \A f \in row'[q].edges : edge'[f].state # "none"
   BY <3>1,<3>2,<1>1 DEF OInv, ObserverTables, RowOf
  <3> QED BY <3>3,<3>4,<1>1 DEF OInv, ObserverTables
 <2> QED BY <2>1,<2>2,<1>5
<1>8. OTypes' BY <1>1,<1>3,<1>4,<1>6 DEF OInv, OTypes, OutsideTypes, TableTypes, PageTypes
<1> QED BY <1>1,<1>7,<1>8, Untouched

LEMMA DetachKeeps ==
  ASSUME OInv, NEW e \in Obs!Edges, Obs!detach(e)
  PROVE  OInv'
<1> DEFINE table == [q \in Obs!Queries |-> IF q \in Obs!Reattached(e) THEN [row[q] EXCEPT !.pending = TRUE] ELSE row[q]]
           active == [state |-> "active", expected |-> det[e].revision, stray |-> e \notin Obs!Used(row)]
           edges == [edge EXCEPT ![e] = active]
<1>1. /\ Fewer /\ Barring /\ setting' = setting
      /\ UNCHANGED <<source, bound, grant, seen, late, ev, faults, observerAlarm, sub, reg, link, page, history>>
      /\ det' = [det EXCEPT ![e] = Obs!NoDetach] /\ Obs!Observe(FALSE, table, edges, Obs!Alive)
 BY DEF Obs!detach, Fewer, Barring
<1>2. PendingOnly(table)
 <2>1. \A q \in Obs!Queries : row[q] \in QueryRow /\ RowOf(row[q]) BY DEF OInv, OTypes, TableTypes, ObserverTables
 <2>2. ASSUME NEW q \in Obs!Reattached(e)
       PROVE  q \in Obs!Queries /\ [row[q] EXCEPT !.pending = TRUE] = Obs!retryQuery(row[q])
  <3>1. q \in Obs!Queries /\ e \in row[q].edges BY DEF Obs!Reattached
  <3>2. row[q].state = "active" BY <3>1,<2>1 DEF RowOf
  <3> QED BY <3>1,<3>2,<2>1, RetryIs
 <2>3. \A q \in Obs!Queries : table[q] \in {row[q], Obs!retryQuery(row[q])} BY <2>2
 <2>4. \A q \in Obs!Queries : table[q] \in QueryRow BY <2>1,<2>3, RetryIs
 <2> QED BY <2>3,<2>4 DEF PendingOnly
<1>3. det \in [Obs!Edges -> Detach] /\ edge \in [Obs!Edges -> Edge] /\ det[e].revision \in Nat
 BY DEF OInv, OTypes, OutsideTypes, TableTypes, Detach
<1>4. active \in Edge /\ active.state = "active" /\ (active.stray \/ e \in Obs!Used(row))
 <2>1. PICK b \in BOOLEAN : b = (e \notin Obs!Used(row)) OBVIOUS
 <2>2. active = [state |-> "active", expected |-> det[e].revision, stray |-> b] BY <2>1
 <2> HIDE DEF active
 <2> QED BY <2>1,<2>2,<1>3 DEF Edge
<1> HIDE DEF table, active
<1>5. edges \in [Obs!Edges -> Edge] /\ \A f \in Obs!Edges : edges[f] = IF f = e THEN active ELSE edge[f] BY <1>3,<1>4
<1> HIDE DEF edges
<1>6. Linked(table, edge) /\ Anchored(table, edge) BY <1>1,<1>2, PendingMoves DEF OInv
<1>7. Linked(table, edges)
 <2>1. \A f \in Obs!Edges : edge[f].state # "none" => edges[f].state # "none" BY <1>4,<1>5
 <2>2. table \in [Obs!Queries -> QueryRow] /\ \A q \in Obs!Queries : RowOf(table[q]) /\ table[q].edges \subseteq table[q].edges
  BY <1>6 DEF Linked
 <2> QED BY <1>5,<1>6,<2>1,<2>2, LinkedRows
<1>8. Anchored(table, edges)
 <2>1. \A q \in Obs!Queries : row[q] \in QueryRow /\ RowOf(row[q]) BY DEF OInv, OTypes, TableTypes, ObserverTables
 <2>2. \A q \in Obs!Queries : table[q].edges = row[q].edges BY <2>1,<1>2, RetryIs DEF PendingOnly
 <2>3. Obs!Used(table) = Obs!Used(row) BY <2>2 DEF Obs!Used
 <2> QED BY <2>3,<1>4,<1>5,<1>6 DEF Anchored
<1>9. OTypes'
 <2>1. Linked(row', edge') BY <1>1,<1>7,<1>8, ObserveIs
 <2>2. det' \in [Obs!Edges -> Detach] BY <1>1,<1>3, NoDetachIs
 <2> QED BY <2>1,<2>2,<1>1 DEF OInv, OTypes, OutsideTypes, TableTypes, PageTypes, Linked
<1>10. \A f \in Obs!Edges : source'[f].out => source'[f].watch BY <1>1 DEF OInv, ObserverTables
<1> QED BY <1>1,<1>2,<1>7,<1>8,<1>9,<1>10, PendingMoves, Touched DEF OInv

-----------------------------------------------------------------------------
(* Evaluations                                                              *)

\* One evaluation becomes another.
LEMMA BecomesIs ==
  ASSUME OTypes, NEW q \in Obs!Queries, NEW by \in Obs!Users, NEW record \in Evaluation,
         Obs!Becomes(q, by, record)
  PROVE  /\ ev' \in [Obs!Queries \X Obs!Users -> Evaluation]
         /\ \A q2 \in Obs!Queries, by2 \in Obs!Users :
              ev'[<<q2, by2>>] = IF q2 = q /\ by2 = by THEN record ELSE ev[<<q2, by2>>]
         /\ (ev[<<q, by>>].pc # "idle" \/ record.pc = "idle") => Fewer
<1>1. ev \in [Obs!Queries \X Obs!Users -> Evaluation] /\ <<q, by>> \in Obs!Queries \X Obs!Users
 BY DEF OTypes, TableTypes
<1>2. ev' = [ev EXCEPT ![<<q, by>>] = record] BY DEF Obs!Becomes
<1>3. \A q2 \in Obs!Queries, by2 \in Obs!Users :
        ev'[<<q2, by2>>] = IF q2 = q /\ by2 = by THEN record ELSE ev[<<q2, by2>>] BY <1>1,<1>2
<1> QED BY <1>1,<1>2,<1>3 DEF Fewer

LEMMA ReadsIs == ASSUME NEW n \in Nat PROVE Obs!Reads(n).pc = "read" /\ Obs!Reads(n) \in Evaluation
BY Records DEF Obs!Reads, Obs!NoEval

LEMMA AttachingIs ==
  ASSUME NEW evaluation \in Evaluation, NEW val \in Value, NEW exp \in Revisions
  PROVE  Obs!Attaching(evaluation, val, exp) \in Evaluation /\ Obs!Attaching(evaluation, val, exp).pc = "attach"
<1>1. DOMAIN exp \subseteq Obs!Edges BY DEF Revisions
<1> DEFINE fresh == {e \in DOMAIN exp : edge[e].state = "none"}
           todo == DOMAIN exp
<1>2. fresh \subseteq Obs!Edges /\ todo \subseteq Obs!Edges BY <1>1
<1>3. Obs!Attaching(evaluation, val, exp) =
        [evaluation EXCEPT !.pc = "attach", !.val = val, !.exp = exp, !.todo = todo, !.fresh = fresh, !.bad = FALSE]
 BY DEF Obs!Attaching
<1> HIDE DEF fresh, todo
<1> QED BY <1>2,<1>3 DEF Evaluation

LEMMA RevisionsIs ==
  ASSUME OTypes, NEW es \in SUBSET Obs!Edges
  PROVE  [e \in es |-> source[e].rev] \in Revisions
<1>1. \A e \in es : source[e].rev \in Nat BY DEF OTypes, OutsideTypes, Source
<1>2. [e \in es |-> source[e].rev] \in [es -> Nat] BY <1>1
<1> QED BY <1>2 DEF Revisions

LEMMA ReadingIs ==
  ASSUME OTypes, NEW k
  PROVE  Obs!Current(k) \in Value /\ (Obs!Ready(Obs!Current(k)) => Obs!Reading(k) \in Revisions)
<1>1. CASE k # "shared"
 <2>1. source["local"].rev \in Nat /\ "local" \in Obs!Edges /\ {"local"} \in SUBSET Obs!Edges
  BY DEF OTypes, OutsideTypes, Source, Obs!Edges
 <2>2. Obs!Reading(k) = [e \in {"local"} |-> source[e].rev] BY <1>1 DEF Obs!Reading
 <2> QED BY <1>1,<2>1,<2>2, RevisionsIs DEF Obs!Current, Value, Names
<1>2. CASE k = "shared" /\ bound = "moving"
 BY <1>2, ConstantValues DEF Obs!Current, Obs!Ready, Obs!Transitioning, Obs!Realms
<1>3. CASE k = "shared" /\ bound # "moving"
 <2>1. bound \in Obs!Edges /\ {bound, "binding"} \in SUBSET Obs!Edges BY <1>3 DEF OTypes, OutsideTypes, Obs!Edges
 <2>2. source[bound].rev \in Nat BY <2>1 DEF OTypes, OutsideTypes, Source
 <2>3. Obs!Reading(k) = [e \in {bound, "binding"} |-> source[e].rev] BY <1>3 DEF Obs!Reading
 <2> QED BY <1>3,<2>1,<2>2,<2>3, RevisionsIs DEF Obs!Current, Value, Names
<1> QED BY <1>1,<1>2,<1>3

\* A step of an evaluation that goes on: it changes nothing but the sources and itself.
LEMMA EvaluationGoesOn ==
  ASSUME OInv, NEW q \in Obs!Queries, NEW by \in Obs!Users, ev[<<q, by>>].pc # "idle",
         NEW record \in Evaluation, Obs!Becomes(q, by, record), Sources(source'),
         faults' \in [losses : Nat, delays : Nat],
         UNCHANGED <<setting, bound, grant, row, edge, seen, observerAlarm, sub, reg, link, page, late,
                     det, history>>
  PROVE  OInv'
<1>1. ev' \in [Obs!Queries \X Obs!Users -> Evaluation] /\ Fewer BY BecomesIs DEF OInv
<1>2. OTypes' BY <1>1 DEF OInv, OTypes, OutsideTypes, TableTypes, PageTypes, Sources
<1>3. ObserverTables' BY DEF OInv, ObserverTables, Anchored, Sources, Heard
<1> QED BY <1>1,<1>2,<1>3, Untouched DEF Barring

LEMMA EvaluationIs ==
  ASSUME OTypes, NEW q \in Obs!Queries, NEW by \in Obs!Users
  PROVE  ev[<<q, by>>] \in Evaluation
BY DEF OTypes, TableTypes

LEMMA AuthorizedKeeps ==
  ASSUME OInv, NEW q \in Obs!Queries, NEW by \in Obs!Users, Obs!authorizedEvaluation(q, by)
  PROVE  OInv'
<1>1. ev[<<q, by>>] \in Evaluation /\ ev[<<q, by>>].pc = "read" BY EvaluationIs DEF OInv, Obs!authorizedEvaluation
<1>2. PICK val \in {Obs!Current(q[2]), Obs!Unavailable} : Obs!AfterReading(q, by, val)
 BY DEF Obs!authorizedEvaluation
<1>3. val \in Value /\ (Obs!Ready(val) => Obs!Reading(q[2]) \in Revisions)
 <2>1. ~Obs!Ready(Obs!Unavailable) BY DEF Obs!Ready, Obs!Unavailable, Obs!Realms
 <2> QED BY <1>2,<2>1, ReadingIs, ConstantValues DEF OInv
<1>4. PICK record \in Evaluation : Obs!Becomes(q, by, record)
 <2>1. CASE Obs!Ready(val)
  <3>1. Obs!Attaching(ev[<<q, by>>], val, Obs!Reading(q[2])) \in Evaluation BY <1>1,<1>3,<2>1, AttachingIs
  <3> QED BY <3>1,<2>1,<1>2 DEF Obs!AfterReading
 <2>2. CASE ~Obs!Ready(val) /\ q[2] = "shared"
  <3>1. [ev[<<q, by>>] EXCEPT !.pc = "binding", !.val = val] \in Evaluation BY <1>1,<1>3 DEF Evaluation
  <3> QED BY <3>1,<2>2,<1>2 DEF Obs!AfterReading
 <2>3. CASE ~Obs!Ready(val) /\ q[2] # "shared"
  <3>1. Obs!Attaching(ev[<<q, by>>], val, <<>>) \in Evaluation BY <1>1,<1>3, AttachingIs, EmptyResults
  <3> QED BY <3>1,<2>3,<1>2 DEF Obs!AfterReading
 <2> QED BY <2>1,<2>2,<2>3
<1>5. faults' \in [losses : Nat, delays : Nat] BY FaultIs DEF OInv, OTypes, OutsideTypes, Obs!authorizedEvaluation
<1>6. Sources(source') BY SourcesNow DEF OInv, Obs!authorizedEvaluation
<1>7. UNCHANGED <<setting, bound, grant, row, edge, seen, observerAlarm, sub, reg, link, page, late, det, history>>
 BY DEF Obs!authorizedEvaluation
<1> QED BY <1>1,<1>4,<1>5,<1>6,<1>7, EvaluationGoesOn

LEMMA BindingReadKeeps ==
  ASSUME OInv, NEW q \in Obs!Queries, NEW by \in Obs!Users, Obs!bindingDescriptorsForPlan(q, by)
  PROVE  OInv'
<1>1. ev[<<q, by>>] \in Evaluation /\ ev[<<q, by>>].pc = "binding"
 BY EvaluationIs DEF OInv, Obs!bindingDescriptorsForPlan
<1> DEFINE record == Obs!Attaching(ev[<<q, by>>], ev[<<q, by>>].val, [e \in {"binding"} |-> source["binding"].rev])
<1>2. record \in Evaluation
 <2>1. [e \in {"binding"} |-> source[e].rev] \in Revisions BY RevisionsIs DEF OInv, Obs!Edges
 <2>2. [e \in {"binding"} |-> source[e].rev] = [e \in {"binding"} |-> source["binding"].rev] OBVIOUS
 <2>3. ev[<<q, by>>].val \in Value BY <1>1 DEF Evaluation
 <2> QED BY <1>1,<2>1,<2>2,<2>3, AttachingIs
<1>3. Obs!Becomes(q, by, record) BY DEF Obs!bindingDescriptorsForPlan
<1>4. faults' \in [losses : Nat, delays : Nat] BY DEF OInv, OTypes, OutsideTypes, Obs!bindingDescriptorsForPlan
<1>5. Sources(source') BY SourcesNow DEF OInv, Obs!bindingDescriptorsForPlan
<1>6. UNCHANGED <<setting, bound, grant, row, edge, seen, observerAlarm, sub, reg, link, page, late, det, history>>
 BY DEF Obs!bindingDescriptorsForPlan
<1> HIDE DEF record
<1> QED BY <1>1,<1>2,<1>3,<1>4,<1>5,<1>6, EvaluationGoesOn

LEMMA RegisterKeeps ==
  ASSUME OInv, NEW q \in Obs!Queries, NEW by \in Obs!Users, NEW e \in Obs!Edges,
         Obs!registerDescriptor(q, by, e)
  PROVE  OInv'
<1> DEFINE old == ev[<<q, by>>]
<1>1. old \in Evaluation /\ old.pc = "attach" BY EvaluationIs DEF OInv, Obs!registerDescriptor
<1>2. PICK bad \in BOOLEAN : bad = (old.bad \/ source[e].rev # old.exp[e])
 <2>1. old.bad \in BOOLEAN BY <1>1 DEF Evaluation
 <2> QED BY <2>1
<1>3. Obs!Becomes(q, by, [old EXCEPT !.bad = bad, !.todo = @ \ {e}]) BY <1>2, Zenon DEF Obs!registerDescriptor
<1> DEFINE todo == old.todo \ {e}
           record == [old EXCEPT !.bad = bad, !.todo = todo]
<1>4. record \in Evaluation
 <2>1. todo \subseteq Obs!Edges BY <1>1 DEF Evaluation
 <2> HIDE DEF todo
 <2> QED BY <1>1,<2>1 DEF Evaluation
<1>5. Obs!Becomes(q, by, record) BY <1>3
<1>6. faults' \in [losses : Nat, delays : Nat] BY DEF OInv, OTypes, OutsideTypes, Obs!registerDescriptor
<1>7. Sources(source')
 <2>1. source[e] \in Source /\ Heard(source[e]) BY SourcesNow DEF OInv, Sources
 <2>2. source' = [source EXCEPT ![e] = [source[e] EXCEPT !.watch = TRUE]]
  BY DEF Obs!registerDescriptor, Obs!Watched
 <2>3. [source[e] EXCEPT !.watch = TRUE] \in Source /\ Heard([source[e] EXCEPT !.watch = TRUE]) BY <2>1, SourceIs
 <2> QED BY <2>2,<2>3, SourcesNow, OneSource DEF OInv
<1>8. UNCHANGED <<setting, bound, grant, row, edge, seen, observerAlarm, sub, reg, link, page, late, det, history>>
 BY DEF Obs!registerDescriptor
<1> HIDE DEF record
<1> QED BY <1>1,<1>4,<1>5,<1>6,<1>7,<1>8, EvaluationGoesOn

\* A page the step leaves alone, while the rows of others may go.
LEMMA OtherPage ==
  ASSUME OInv, OTypes', setting' = setting, Barring, NEW p \in Pages, SamePage(p),
         sub'[p].lease = sub[p].lease,
         \A k \in Keys : row'[<<p, k>>] = IF <<p, k>> \in Obs!Alive THEN row[<<p, k>>] ELSE Obs!NoRow,
         \A k \in Keys, by \in Obs!Users : ev'[<<<<p, k>>, by>>].pc # "idle" => ev[<<<<p, k>>, by>>].pc # "idle"
  PROVE  Joins(p)' /\ SocketOf(p)' /\ \A k \in setting'.keys : QueryOf(p, k)'
<1>1. ASSUME NEW k \in setting.keys PROVE RowMoves(<<p, k>>) /\ EvaluationMoves(<<p, k>>)
 <2>1. k \in Keys /\ <<p, k>> \in Obs!Queries /\ <<p, k>>[1] = p BY QueryFacts DEF OInv
 <2>2. row'[<<p, k>>] = row[<<p, k>>] \/ (<<p, k>> \notin Obs!Alive /\ row'[<<p, k>>] = Obs!NoRow) BY <2>1
 <2>3. RowMoves(<<p, k>>) BY <2>1,<2>2, SameRow DEF OInv, RowMoves, Obs!NoRow
 <2>4. Evaluating(<<p, k>>)' => Evaluating(<<p, k>>) BY <2>1 DEF Evaluating, Obs!Users
 <2>5. row'[<<p, k>>].state = "denied" => row[<<p, k>>].state = "denied" BY <2>2 DEF Obs!NoRow
 <2> QED BY <2>1,<2>3,<2>4,<2>5 DEF EvaluationMoves
<1>2. reg[p].on => sub'[p].lease = "fresh" BY DEF OInv, PagesTrue, Joins
<1>3. \A k \in Keys : ev'[<<<<p, k>>, "register">>].pc # "idle" => ev[<<<<p, k>>, "register">>].pc # "idle"
 BY DEF Obs!Users
<1> QED BY <1>1,<1>2,<1>3, PageKept DEF Barring

\* A page that is away, whose registration is over.
LEMMA AwayPage ==
  ASSUME NEW p, page'[p].state \in {"offline", "ended"}, reg'[p] = Obs!NoReg, link'[p] = Obs!NoLink,
         sub'[p].lease = "absent" => sub'[p].told = Obs!Untold,
         \A k \in Keys : ev'[<<<<p, k>>, "register">>].pc = "idle"
  PROVE  Joins(p)' /\ SocketOf(p)' /\ \A k \in setting'.keys : QueryOf(p, k)'
<1>1. LinkOf(Obs!NoLink) BY DEF LinkOf, Obs!NoLink, Obs!NoEvent
<1>2. \A k \in setting'.keys : QueryOf(p, k)' BY QueryAway
<1>3. Joins(p)' BY DEF Joins, Obs!NoReg
<1> QED BY <1>1,<1>2,<1>3 DEF SocketOf

LEMMA JoiningFacts ==
  ASSUME OInv, NEW p \in Pages, NEW k \in Keys, ev[<<<<p, k>>, "register">>].pc # "idle"
  PROVE  /\ reg[p].on /\ page[p].state = "joining" /\ link[p] = Obs!NoLink /\ sub[p].lease = "fresh"
         /\ k \notin DOMAIN reg[p].got
         /\ \A n \in Keys : ev[<<<<p, n>>, "register">>].pc # "idle" => n = k
BY DEF OInv, PagesTrue, Joins, SocketOf

\* The registration gives up: only its own page and rows are touched.
LEMMA RegistrationEnds ==
  ASSUME OInv, OutsideTypes', Sources(source'), Barring, NEW p \in Pages, NEW k \in Keys,
         ev[<<<<p, k>>, "register">>].pc # "idle", Obs!Becomes(<<p, k>>, "register", Obs!NoEval),
         NEW then \in {"offline", "ended"}, NEW edges, Linked(row, edges),
         NEW stored, stored \/ edges = edge, Obs!RegistrationFails(p, then, stored, edges),
         UNCHANGED <<setting, observerAlarm, link, history, late>>
  PROVE  OInv'
<1> DEFINE table == Obs!Without(row, Obs!RowsOf({p}))
<1>1. /\ reg[p].on /\ page[p].state = "joining" /\ link[p] = Obs!NoLink
      /\ \A n \in Keys : ev[<<<<p, n>>, "register">>].pc # "idle" => n = k BY JoiningFacts
<1>2. Linked(table, edges) /\ \A q \in Obs!Queries : table[q] = IF q \in Obs!RowsOf({p}) THEN Obs!NoRow ELSE row[q]
 BY WithoutIs
<1> HIDE DEF table
<1>3. /\ Linked(row', edge') /\ Anchored(row', edge')
      /\ \A q \in Obs!Queries : row'[q] = IF q \in Obs!Alive THEN table[q] ELSE Obs!NoRow
 <2>1. Obs!Observe(stored \/ Obs!RowsOf({p}) # {}, table, edges, Obs!Alive) BY DEF Obs!RegistrationFails, table
 <2>2. (stored \/ Obs!RowsOf({p}) # {}) \/ Anchored(table, edges) BY <1>2, SameEdges DEF OInv
 <2> QED BY <2>1,<2>2,<1>2, ObserveIs
<1>4. /\ ev' \in [Obs!Queries \X Obs!Users -> Evaluation] /\ Fewer
      /\ \A q \in Obs!Queries, by \in Obs!Users :
           ev'[<<q, by>>] = IF q = <<p, k>> /\ by = "register" THEN Obs!NoEval ELSE ev[<<q, by>>]
 <2> DEFINE c == <<p, k>>
 <2>1. c \in Obs!Queries /\ "register" \in Obs!Users /\ Obs!NoEval \in Evaluation /\ Obs!NoEval.pc = "idle" /\ OTypes
  BY Records DEF OInv, Obs!Queries, Obs!Users, Obs!NoEval
 <2>2. Obs!Becomes(c, "register", Obs!NoEval) OBVIOUS
 <2> HIDE DEF c
 <2>3. ev[<<c, "register">>].pc # "idle" \/ Obs!NoEval.pc = "idle" BY <2>1
 <2>4. ev' \in [Obs!Queries \X Obs!Users -> Evaluation] BY <2>1,<2>2, BecomesIs
 <2>5. Fewer BY <2>1,<2>2,<2>3, BecomesIs
 <2>6. \A q \in Obs!Queries, by \in Obs!Users :
         ev'[<<q, by>>] = IF q = c /\ by = "register" THEN Obs!NoEval ELSE ev[<<q, by>>]
  <3>1. ev \in [Obs!Queries \X Obs!Users -> Evaluation] /\ ev' = [ev EXCEPT ![<<c, "register">>] = Obs!NoEval]
   BY <2>1,<2>2 DEF OTypes, TableTypes, Obs!Becomes
  <3> QED BY <2>1,<3>1
 <2> QED BY <2>4,<2>5,<2>6 DEF c
<1>5. /\ reg' = [reg EXCEPT ![p] = Obs!NoReg] /\ page' = [page EXCEPT ![p].state = then]
      /\ sub' = [sub EXCEPT ![p] = [lease |-> "over", told |-> Obs!Untold]] BY DEF Obs!RegistrationFails
<1>6. OTypes'
 <2>1. reg' \in [Pages -> Registration] BY <1>5, Records DEF OInv, OTypes, PageTypes
 <2>2. page' \in [Pages -> Client] BY <1>5 DEF OInv, OTypes, PageTypes, Client
 <2>3. sub' \in [Pages -> Subscription] BY <1>5, Records DEF OInv, OTypes, PageTypes, Subscription
 <2> QED BY <2>1,<2>2,<2>3,<1>3,<1>4
            DEF OInv, OTypes, TableTypes, PageTypes, Linked
<1>7. ObserverTables' BY <1>3 DEF ObserverTables, Linked, Sources, Heard
<1>8. \A q \in Obs!Queries : row'[q].state = "denied" => row[q].state = "denied" BY <1>2,<1>3 DEF Obs!NoRow
<1>9. Alarms'
 <2>1. \A q \in Obs!Queries : Evaluating(q)' => Evaluating(q) BY <1>4 DEF Fewer, Obs!Users, Evaluating
 <2> QED BY <2>1,<1>8, AlarmsStay DEF OInv, Barring
<1>10. ASSUME NEW s \in Pages PROVE Joins(s)' /\ SocketOf(s)' /\ \A n \in setting'.keys : QueryOf(s, n)'
 <2>1. CASE s = p
  <3>1. page'[p].state = then /\ reg'[p] = Obs!NoReg /\ sub'[p].lease = "over"
   BY <1>5 DEF OInv, OTypes, PageTypes, Client
  <3>2. \A n \in Keys : ev'[<<<<p, n>>, "register">>].pc = "idle"
   <4>1. \A n \in Keys : <<p, n>> \in Obs!Queries /\ (<<p, n>> = <<p, k>> <=> n = k) BY DEF Obs!Queries
   <4>2. Obs!NoEval.pc = "idle" BY DEF Obs!NoEval
   <4> QED BY <4>1,<4>2,<1>1,<1>4 DEF Obs!Users
  <3> QED BY <2>1,<3>1,<3>2,<1>1, AwayPage
 <2>2. CASE s # p
  <3>1. page'[s] = page[s] /\ reg'[s] = reg[s] /\ sub'[s] = sub[s] BY <2>2,<1>5 DEF OInv, OTypes, PageTypes
  <3>2. \A n \in Keys : <<s, n>> \in Obs!Queries /\ <<s, n>> \notin Obs!RowsOf({p})
   BY <2>2 DEF Obs!Queries, Obs!RowsOf
  <3>3. \A n \in Keys : row'[<<s, n>>] = IF <<s, n>> \in Obs!Alive THEN row[<<s, n>>] ELSE Obs!NoRow
   BY <3>2,<1>2,<1>3
  <3>4. \A n \in Keys, by \in Obs!Users : ev'[<<<<s, n>>, by>>].pc # "idle" => ev[<<<<s, n>>, by>>].pc # "idle"
   BY <3>2,<1>4 DEF Fewer
  <3> QED BY <3>1,<3>3,<3>4,<1>6, OtherPage DEF SamePage
 <2> QED BY <2>1,<2>2
<1> QED BY <1>6,<1>7,<1>9,<1>10 DEF OInv, PagesTrue, QueriesTrue

\* An evaluation of the alarm ends; the row of its query is tried again later, or denied.
LEMMA AlarmEvaluationEnds ==
  ASSUME OInv, OutsideTypes', Sources(source'), Barring, NEW q \in Obs!Queries,
         ev[<<q, "alarm">>].pc # "idle",
         Obs!Becomes(q, "alarm", Obs!NoEval), NEW then \in {Obs!retryQuery(row[q]), Obs!denyQuery(row[q])},
         NEW denied, denied \/ then = Obs!retryQuery(row[q]), Obs!Observe(denied, [row EXCEPT ![q] = then], edge, Obs!Alive),
         UNCHANGED <<setting, observerAlarm, sub, reg, link, page, late, history>>
  PROVE  OInv'
<1> DEFINE table == [row EXCEPT ![q] = then]
<1>1. row \in [Obs!Queries -> QueryRow] /\ \A q2 \in Obs!Queries : row[q2] \in QueryRow /\ RowOf(row[q2])
 BY DEF OInv, OTypes, TableTypes, ObserverTables
<1>2. /\ then \in QueryRow /\ RowOf(then) /\ then.edges \subseteq row[q].edges /\ then.seq = row[q].seq
      /\ then.val = row[q].val /\ (then.state = "none" <=> row[q].state = "none")
      /\ then.state = "active" => row[q].state = "active" BY <1>1, RetryIs, DenyIs
<1>3. \A q2 \in Obs!Queries : table[q2] = IF q2 = q THEN then ELSE row[q2] BY <1>1
<1>4. table \in [Obs!Queries -> QueryRow] BY <1>1,<1>2
<1> HIDE DEF table
<1>5. Linked(table, edge)
 <2>1. \A q2 \in Obs!Queries : RowOf(table[q2]) /\ table[q2].edges \subseteq row[q2].edges BY <1>1,<1>2,<1>3
 <2> QED BY <2>1,<1>4, TablesLinked, LinkedRows DEF OInv, OTypes, TableTypes
<1>6. Obs!Observe(denied, table, edge, Obs!Alive) /\ (denied \/ Anchored(table, edge))
 <2>1. then = Obs!retryQuery(row[q]) => \A q2 \in Obs!Queries : table[q2].edges = row[q2].edges BY <1>1,<1>3, RetryIs
 <2> QED BY <2>1, SameEdges DEF OInv, table
<1>7. /\ ev' \in [Obs!Queries \X Obs!Users -> Evaluation] /\ Fewer /\ ~Evaluating(q)'
      /\ \A q2 \in Obs!Queries : Evaluating(q2)' => Evaluating(q2) /\ q2 # q
 <2>1. /\ ev' \in [Obs!Queries \X Obs!Users -> Evaluation] /\ Fewer
       /\ \A q2 \in Obs!Queries, by2 \in Obs!Users :
            ev'[<<q2, by2>>] = IF q2 = q /\ by2 = "alarm" THEN Obs!NoEval ELSE ev[<<q2, by2>>]
  BY BecomesIs, Records DEF OInv, Obs!Users, Obs!NoEval
 <2>2. \A q2 \in Obs!Queries : Evaluating(q2)' => Evaluating(q2) BY <2>1 DEF Fewer, Evaluating, Obs!Users
 <2>3. ~Evaluating(q)'
  <3>1. ev'[<<q, "alarm">>] = Obs!NoEval /\ Obs!NoEval.pc = "idle" BY <2>1 DEF Obs!Users, Obs!NoEval
  <3> QED BY <3>1 DEF Evaluating
 <2> QED BY <2>1,<2>2,<2>3
<1>8. OTypes' BY <1>5,<1>6,<1>7, ObserveIs DEF OInv, OTypes, TableTypes, PageTypes, Linked
<1>9. ASSUME NEW q2 \in Obs!Queries
      PROVE  /\ Moving(table, q2)
             /\ Evaluating(q2)' => Evaluating(q2) /\ (table[q2].state = "denied" => row[q2].state = "denied")
 <2>1. row[q2].seq \in Nat BY <1>1 DEF QueryRow
 <2> QED BY <2>1,<1>2,<1>3,<1>7 DEF Moving
<1>10. (\A p \in Pages, k \in Keys : <<p, k>> \in Obs!Queries) /\ setting.keys \subseteq Keys
 BY Constants DEF OInv, OTypes, OutsideTypes, Obs!Queries
<1>11. \A e \in Obs!Edges : source'[e].out => source'[e].watch BY DEF Sources, Heard
<1>12. /\ \A p \in Pages, k \in Keys : Evaluating(<<p, k>>)' =>
            Evaluating(<<p, k>>) /\ (table[<<p, k>>].state = "denied" => row[<<p, k>>].state = "denied")
       /\ \A p \in Pages, k \in setting.keys : Moving(table, <<p, k>>) BY <1>9,<1>10
<1> QED BY <1>5,<1>6,<1>7,<1>8,<1>11,<1>12, Touched

LEMMA EvaluationFailsKeeps ==
  ASSUME OInv, OutsideTypes', Sources(source'), Barring, NEW q \in Obs!Queries,
         NEW by \in Obs!Users,
         ev[<<q, by>>].pc # "idle", Obs!EvaluationFails(q, by), UNCHANGED <<setting, observerAlarm, link, history, late>>
  PROVE  OInv'
<1>1. CASE by = "register"
 <2>1. PICK p \in Pages, k \in Keys : q = <<p, k>> BY DEF Obs!Queries
 <2>2. Obs!RegistrationFails(p, "offline", FALSE, edge) /\ Obs!Becomes(<<p, k>>, "register", Obs!NoEval)
  BY <1>1,<2>1 DEF Obs!EvaluationFails
 <2>3. Linked(row, edge) BY TablesLinked DEF OInv
 <2> QED BY <1>1,<2>1,<2>2,<2>3, RegistrationEnds
<1>2. CASE by = "alarm"
 <2>1. /\ Obs!Becomes(q, "alarm", Obs!NoEval) /\ Obs!Observe(FALSE, [row EXCEPT ![q] = Obs!retryQuery(row[q])], edge, Obs!Alive)
       /\ UNCHANGED <<sub, reg, page>> BY <1>2 DEF Obs!EvaluationFails
 <2> QED BY <1>2,<2>1, AlarmEvaluationEnds
<1> QED BY <1>1,<1>2 DEF Obs!Users

LEMMA RefusedKeeps ==
  ASSUME OInv, NEW q \in Obs!Queries, NEW by \in Obs!Users, Obs!refused(q, by)
  PROVE  OInv'
<1>1. /\ Obs!Becomes(q, by, Obs!NoEval) /\ ev[<<q, by>>].pc # "idle" /\ Barring
      /\ UNCHANGED <<setting, source, bound, grant, seen, observerAlarm, link, late, det, faults,
                     history>> BY DEF Obs!refused, Barring
<1>2. OutsideTypes' /\ Sources(source') BY <1>1, SourcesNow DEF OInv, OTypes, OutsideTypes
<1>3. CASE by = "register"
 <2>1. PICK p \in Pages, k \in Keys : q = <<p, k>> BY DEF Obs!Queries
 <2>2. Obs!RegistrationFails(p, "ended", FALSE, edge) BY <1>3,<2>1 DEF Obs!refused
 <2>3. Linked(row, edge) BY TablesLinked DEF OInv
 <2> QED BY <1>1,<1>2,<1>3,<2>1,<2>2,<2>3, RegistrationEnds
<1>4. CASE by = "alarm"
 <2>1. Obs!Observe(TRUE, [row EXCEPT ![q] = Obs!denyQuery(row[q])], edge, Obs!Alive) /\ UNCHANGED <<sub, reg, page>>
  BY <1>4 DEF Obs!refused
 <2> QED BY <1>1,<1>2,<1>4,<2>1, AlarmEvaluationEnds
<1> QED BY <1>3,<1>4 DEF Obs!Users

LEMMA AgainKeeps ==
  ASSUME OInv, NEW q \in Obs!Queries, NEW by \in Obs!Users, Obs!again(q, by)
  PROVE  OInv'
<1>1. /\ ev[<<q, by>>] \in Evaluation /\ ev[<<q, by>>].pc # "idle" /\ source' = Obs!unregisterDescriptor(q, by)
      /\ UNCHANGED <<setting, bound, grant, seen, observerAlarm, link, late, det, faults, history>>
 BY EvaluationIs DEF OInv, Obs!again
<1>2. Sources(source')
 <2>1. \A e \in Obs!Edges : source[e] \in Source /\ Heard(source[e]) BY SourcesNow DEF OInv, Sources
 <2>2. \A e \in Obs!Edges : Obs!Unwatched(e) \in Source /\ Heard(Obs!Unwatched(e))
  BY <2>1, SourceIs DEF Obs!Unwatched
 <2>3. source' = [e \in Obs!Edges |-> IF e \in ev[<<q, by>>].fresh THEN Obs!Unwatched(e) ELSE source[e]]
  BY <1>1 DEF Obs!unregisterDescriptor
 <2>4. \A e \in Obs!Edges : source'[e] \in Source /\ Heard(source'[e]) BY <2>1,<2>2,<2>3
 <2> QED BY <2>3,<2>4 DEF Sources
<1>3. OutsideTypes' /\ Barring BY <1>1,<1>2 DEF OInv, OTypes, OutsideTypes, Sources, Barring
<1>4. CASE ev[<<q, by>>].tries < Attempts
 <2>1. Obs!Becomes(q, by, Obs!Reads(ev[<<q, by>>].tries + 1)) /\ UNCHANGED <<row, edge, sub, reg, page>>
  BY <1>4 DEF Obs!again
 <2>2. Obs!Reads(ev[<<q, by>>].tries + 1) \in Evaluation BY <1>1, ReadsIs DEF Evaluation
 <2>3. faults' \in [losses : Nat, delays : Nat] BY <1>3 DEF OutsideTypes
 <2> QED BY <1>1,<1>2,<2>1,<2>2,<2>3, EvaluationGoesOn
<1>5. CASE ~(ev[<<q, by>>].tries < Attempts)
 <2>1. Obs!EvaluationFails(q, by) BY <1>5 DEF Obs!again
 <2> QED BY <1>1,<1>2,<1>3,<2>1, EvaluationFailsKeeps
<1> QED BY <1>4,<1>5

LEMMA CallFailsKeeps ==
  ASSUME OInv, NEW q \in Obs!Queries, NEW by \in Obs!Users, Obs!callFails(q, by)
  PROVE  OInv'
<1>1. /\ ev[<<q, by>>].pc # "idle" /\ Obs!EvaluationFails(q, by) /\ Barring
      /\ UNCHANGED <<setting, source, bound, grant, seen, observerAlarm, link, late, det, history>>
 BY DEF Obs!callFails, Barring
<1>2. faults' \in [losses : Nat, delays : Nat] BY FaultIs DEF OInv, Obs!callFails
<1>3. OutsideTypes' /\ Sources(source') BY <1>1,<1>2, SourcesNow DEF OInv, OTypes, OutsideTypes
<1> QED BY <1>1,<1>3, EvaluationFailsKeeps

-----------------------------------------------------------------------------
(* Storing a result                                                         *)

LEMMA ExpectedIs ==
  ASSUME OTypes, NEW exp \in Revisions
  PROVE  /\ DOMAIN exp \subseteq Obs!Edges /\ Obs!Expected(exp) \in [Obs!Edges -> Edge]
         /\ \A e \in Obs!Edges : edge[e].state # "none" => Obs!Expected(exp)[e].state # "none"
         /\ \A e \in DOMAIN exp : Obs!Expected(exp)[e].state = "active"
<1>1. DOMAIN exp \subseteq Obs!Edges /\ \A e \in DOMAIN exp : exp[e] \in Nat
 <2>1. PICK es \in SUBSET Obs!Edges : exp \in [es -> Nat] BY DEF Revisions
 <2> QED BY <2>1
<1>2. \A e \in Obs!Edges : edge[e] \in Edge BY DEF OTypes, TableTypes
<1>3. \A e \in Obs!Edges : Obs!Expected(exp)[e] =
        IF e \in DOMAIN exp THEN [Obs!NoEdge EXCEPT !.state = "active", !.expected = exp[e]] ELSE edge[e] BY DEF Obs!Expected
<1>4. \A e \in DOMAIN exp : /\ [Obs!NoEdge EXCEPT !.state = "active", !.expected = exp[e]] \in Edge
                             /\ [Obs!NoEdge EXCEPT !.state = "active", !.expected = exp[e]].state = "active"
 BY <1>1 DEF Edge, Obs!NoEdge
<1>5. \A e \in Obs!Edges : Obs!Expected(exp)[e] \in Edge BY <1>2,<1>3,<1>4
<1>6. Obs!Expected(exp) \in [Obs!Edges -> Edge] BY <1>5 DEF Obs!Expected
<1> QED BY <1>1,<1>3,<1>4,<1>6

\* The row an evaluation stores, and the tables with it.
Storing(q, by) == [Obs!Stored(row[q], ev[<<q, by>>].val) EXCEPT !.edges = DOMAIN ev[<<q, by>>].exp]
StoredRows(q, by) == [row EXCEPT ![q] = Storing(q, by)]

LEMMA StoringIs ==
  ASSUME OTypes, ObserverTables, NEW q \in Obs!Queries, NEW by \in Obs!Users
  PROVE  /\ Storing(q, by) \in QueryRow /\ RowOf(Storing(q, by)) /\ Storing(q, by).state = "active"
         /\ Storing(q, by).seq # 0 /\ row[q].seq <= Storing(q, by).seq
         /\ Storing(q, by).seq = row[q].seq => row[q].val = Storing(q, by).val
         /\ \A q2 \in Obs!Queries : StoredRows(q, by)[q2] = IF q2 = q THEN Storing(q, by) ELSE row[q2]
         /\ Linked(StoredRows(q, by), Obs!Expected(ev[<<q, by>>].exp))
         /\ Linked(row, Obs!Expected(ev[<<q, by>>].exp))
<1> DEFINE exp == ev[<<q, by>>].exp
           r == Storing(q, by)
<1>1. exp \in Revisions /\ ev[<<q, by>>].val \in Value BY EvaluationIs DEF Evaluation
<1>2. /\ DOMAIN exp \subseteq Obs!Edges /\ Obs!Expected(exp) \in [Obs!Edges -> Edge]
      /\ \A e \in Obs!Edges : edge[e].state # "none" => Obs!Expected(exp)[e].state # "none"
      /\ \A e \in DOMAIN exp : Obs!Expected(exp)[e].state = "active" BY <1>1, ExpectedIs
<1>3. row \in [Obs!Queries -> QueryRow] /\ \A q2 \in Obs!Queries : row[q2] \in QueryRow /\ RowOf(row[q2])
 BY DEF OTypes, TableTypes, ObserverTables
<1>4. /\ r \in QueryRow /\ RowOf(r) /\ r.state = "active" /\ r.edges = DOMAIN exp
      /\ r.seq # 0 /\ row[q].seq <= r.seq /\ (r.seq = row[q].seq => row[q].val = r.val)
 <2> DEFINE old == row[q]
            val == ev[<<q, by>>].val
            es == DOMAIN exp
            s == [Obs!Stored(old, val) EXCEPT !.edges = es]
 <2>1. old \in QueryRow /\ RowOf(old) /\ val \in Value /\ es \subseteq Obs!Edges BY <1>1,<1>2,<1>3
 <2> HIDE DEF old, val, es
 <2>2. /\ s \in QueryRow /\ RowOf(s) /\ s.state = "active" /\ s.edges = es /\ s.val = val
       /\ s.seq # 0 /\ old.seq <= s.seq /\ (s.seq = old.seq => old.val = val) BY <2>1, StoredIs
 <2> QED BY <2>2 DEF Storing, old, val, es
<1>5. Linked(row, Obs!Expected(exp)) BY <1>2,<1>3, TablesLinked, LinkedRows
<1> HIDE DEF exp, r
<1>6. \A q2 \in Obs!Queries : StoredRows(q, by)[q2] = IF q2 = q THEN r ELSE row[q2] BY <1>3 DEF StoredRows, r
<1>7. StoredRows(q, by) \in [Obs!Queries -> QueryRow] BY <1>3,<1>4 DEF StoredRows, r
<1>8. ASSUME NEW q2 \in Obs!Queries
      PROVE  /\ RowOf(StoredRows(q, by)[q2])
             /\ \A e \in StoredRows(q, by)[q2].edges : Obs!Expected(exp)[e].state # "none"
 <2>1. CASE q2 = q BY <2>1,<1>2,<1>4,<1>6
 <2>2. CASE q2 # q BY <2>2,<1>3,<1>5,<1>6 DEF Linked
 <2> QED BY <2>1,<2>2
<1>9. Linked(StoredRows(q, by), Obs!Expected(exp)) BY <1>2,<1>7,<1>8 DEF Linked
<1> QED BY <1>4,<1>5,<1>6,<1>9 DEF exp, r

\* The alarm's evaluation stores: the row is there, or its lease is over, or its page is told nothing.
LEMMA AlarmStores ==
  ASSUME OInv, NEW q \in Obs!Queries, Obs!storeEvaluation(q, "alarm")
  PROVE  OInv'
<1> DEFINE table == StoredRows(q, "alarm")
           edges == Obs!Expected(ev[<<q, "alarm">>].exp)
           r == Storing(q, "alarm")
<1>1. /\ Evaluating(q) /\ Obs!Observe(TRUE, table, edges, Obs!Alive) /\ Obs!Becomes(q, "alarm", Obs!NoEval) /\ Barring
      /\ UNCHANGED <<setting, source, bound, grant, seen, observerAlarm, sub, reg, link, page, late,
                     det, faults, history>> BY DEF Obs!storeEvaluation, StoredRows, Storing, Evaluating, Barring
<1>2. /\ r \in QueryRow /\ r.state = "active" /\ row[q].seq <= r.seq /\ (r.seq = row[q].seq => row[q].val = r.val)
      /\ \A q2 \in Obs!Queries : table[q2] = IF q2 = q THEN r ELSE row[q2]
      /\ Linked(table, edges) BY StoringIs DEF OInv, Obs!Users
<1> HIDE DEF table, edges, r
<1>3. /\ ev' \in [Obs!Queries \X Obs!Users -> Evaluation] /\ Fewer
      /\ \A q2 \in Obs!Queries : Evaluating(q2)' => Evaluating(q2) /\ q2 # q
 <2>1. /\ ev' \in [Obs!Queries \X Obs!Users -> Evaluation] /\ Fewer
       /\ \A q2 \in Obs!Queries, by2 \in Obs!Users :
            ev'[<<q2, by2>>] = IF q2 = q /\ by2 = "alarm" THEN Obs!NoEval ELSE ev[<<q2, by2>>]
  BY <1>1, BecomesIs, Records DEF OInv, Obs!Users, Obs!NoEval
 <2>2. \A q2 \in Obs!Queries : Evaluating(q2)' => Evaluating(q2) BY <2>1 DEF Fewer, Evaluating, Obs!Users
 <2>3. ~Evaluating(q)'
  <3>1. ev'[<<q, "alarm">>] = Obs!NoEval /\ Obs!NoEval.pc = "idle" BY <2>1 DEF Obs!Users, Obs!NoEval
  <3> QED BY <3>1 DEF Evaluating
 <2> QED BY <2>1,<2>2,<2>3
<1>4. OTypes'
 <2>1. Linked(row', edge') BY <1>1,<1>2, ObserveIs
 <2>2. OutsideTypes' BY <1>1 DEF OInv, OTypes, OutsideTypes
 <2> QED BY <2>1,<2>2,<1>1,<1>3 DEF OInv, OTypes, TableTypes, PageTypes, Linked
<1>5. \A q2 \in Obs!Queries : row[q2] \in QueryRow /\ RowOf(row[q2])
 BY DEF OInv, OTypes, TableTypes, ObserverTables
<1>6. observerAlarm.done = {} BY <1>1 DEF OInv, Alarms
<1>7. ASSUME NEW p \in Pages, NEW k \in setting.keys PROVE Moving(table, <<p, k>>) \/ Unowed(p, k)
 <2>1. /\ k \in Keys /\ <<p, k>> \in Obs!Queries /\ <<p, k>>[1] = p /\ sub[p].told[k].seq \in Nat
       /\ page[p] \in Client BY QueryFacts DEF OInv
 <2>2. CASE <<p, k>> # q
  <3>1. table[<<p, k>>] = row[<<p, k>>] /\ row[<<p, k>>].seq \in Nat BY <2>1,<2>2,<1>2,<1>5 DEF QueryRow
  <3> QED BY <3>1,<2>1,<1>3 DEF Moving
 <2>3. CASE <<p, k>> = q /\ row[q].state # "none" BY <2>1,<2>3,<1>1,<1>2,<1>3 DEF Moving
 <2>4. CASE <<p, k>> = q /\ row[q].state = "none"
  <3>1. ToldCounted(p, k) BY DEF OInv, QueriesTrue, QueryOf
  <3>2. CASE Present(p) /\ sub[p].told[k].seq # 0
   <4>1. sub[p].lease = "over" BY <3>1,<3>2,<2>4,<1>1 DEF ToldCounted
   <4>2. <<p, k>> \notin Obs!Alive BY <4>1,<2>1,<1>6 DEF Obs!Alive
   <4> QED BY <4>2,<2>4,<1>3 DEF Moving
  <3>3. CASE ~Present(p) \/ sub[p].told[k].seq = 0 BY <3>1,<3>3 DEF ToldCounted, Unowed, Present
  <3> QED BY <3>2,<3>3
 <2> QED BY <2>2,<2>3,<2>4
<1>8. \A p \in Pages, k \in Keys : Evaluating(<<p, k>>)' =>
        Evaluating(<<p, k>>) /\ (table[<<p, k>>].state = "denied" => row[<<p, k>>].state = "denied")
 <2>1. \A q2 \in Obs!Queries : Evaluating(q2)' =>
         Evaluating(q2) /\ (table[q2].state = "denied" => row[q2].state = "denied") BY <1>2,<1>3
 <2> QED BY <2>1 DEF Obs!Queries
<1>9. \A e \in Obs!Edges : source'[e].out => source'[e].watch BY <1>1 DEF OInv, ObserverTables
<1> QED BY <1>1,<1>2,<1>3,<1>4,<1>7,<1>8,<1>9, Touched

\* What a registration holds once one more query is attached, and its two ends.
GotWith(p, k, r) == Obs!latestResults(reg[p].got, [n \in {k} |-> Obs!Public(r)])
ToldWith(p, k, r) == [sub[p].told EXCEPT ![k] = [seq |-> r.seq, bind |-> r.val[1]]]
GoesOn(p, got) ==
  /\ page'[p].state = "joining" /\ reg'[p].on /\ reg'[p].got = got /\ link'[p] = link[p] /\ history' = history
Completes(p, got, told) ==
  /\ page'[p].state = "live" /\ reg'[p] = Obs!NoReg /\ DOMAIN got = setting.keys
  /\ link'[p] = [Obs!NoLink EXCEPT !.flight = [kind |-> "snapshot", results |-> got]]
  /\ history'.removed = history.removed
  /\ p \notin history'.lost => \A n \in setting.keys : told[n].seq = got[n].seq

LEMMA GotWithIs ==
  ASSUME OTypes, NEW p \in Pages, NEW k \in Keys, NEW r \in QueryRow
  PROVE  /\ GotWith(p, k, r) \in Results /\ DOMAIN GotWith(p, k, r) = DOMAIN reg[p].got \cup {k}
         /\ GotWith(p, k, r)[k] = Obs!Public(r)
         /\ \A n \in DOMAIN reg[p].got : n # k => GotWith(p, k, r)[n] = reg[p].got[n]
<1> DEFINE one == [n \in {k} |-> Obs!Public(r)]
<1>1. reg[p].got \in Results BY DEF OTypes, PageTypes, Registration
<1>2. one \in Results /\ DOMAIN one = {k} /\ one[k] = Obs!Public(r) BY PublicIs, OneResult
<1>3. GotWith(p, k, r) = Obs!latestResults(reg[p].got, one) BY Zenon DEF GotWith
<1> HIDE DEF one
<1>4. /\ Obs!latestResults(reg[p].got, one) \in Results
      /\ DOMAIN Obs!latestResults(reg[p].got, one) = DOMAIN reg[p].got \cup {k}
      /\ \A n \in DOMAIN reg[p].got \cup {k} :
           Obs!latestResults(reg[p].got, one)[n] = IF n \in {k} THEN one[n] ELSE reg[p].got[n]
 BY <1>1,<1>2, MergedResults
<1> QED BY <1>2,<1>3,<1>4

LEMMA ToldWithIs ==
  ASSUME OTypes, NEW p \in Pages, NEW k \in Keys, NEW r \in QueryRow
  PROVE  /\ ToldWith(p, k, r) \in Telling /\ ToldWith(p, k, r)[k].seq = r.seq
         /\ \A n \in Keys : n # k => ToldWith(p, k, r)[n] = sub[p].told[n]
<1>1. sub[p].told \in Telling BY DEF OTypes, PageTypes, Subscription
<1> DEFINE new == [seq |-> r.seq, bind |-> r.val[1]]
<1>2. new \in [seq : Nat, bind : Names] /\ new.seq = r.seq BY DEF QueryRow, Value
<1>3. ToldWith(p, k, r) = [sub[p].told EXCEPT ![k] = new] BY DEF ToldWith
<1> HIDE DEF new
<1> QED BY <1>1,<1>2,<1>3 DEF Telling

LEMMA RegisteredQuery ==
  ASSUME OInv, NEW p \in Pages, NEW k \in setting.keys, NEW n \in setting.keys,
         NEW r \in QueryRow, RowOf(r),
         r.state = "active", ~grant.barred, grant' = grant, page[p].state = "joining", reg[p].on,
         k \notin DOMAIN reg[p].got,
         sub'[p].told = ToldWith(p, k, r), row'[<<p, n>>] = IF n = k THEN r ELSE row[<<p, n>>],
         Evaluating(<<p, n>>)' => Evaluating(<<p, n>>),
         GoesOn(p, GotWith(p, k, r)) \/ Completes(p, GotWith(p, k, r), ToldWith(p, k, r))
  PROVE  QueryOf(p, n)'
<1> DEFINE got == GotWith(p, k, r)
           told == ToldWith(p, k, r)
           old == row[<<p, n>>]
           new == row'[<<p, n>>]
<1>1. /\ n \in Keys /\ k \in Keys /\ <<p, n>> \in Obs!Queries /\ old \in QueryRow
      /\ \A m \in DOMAIN reg[p].got : reg[p].got[m] \in Result /\ m \in Keys BY QueryFacts DEF OInv
<1>2. /\ got \in Results /\ DOMAIN got = DOMAIN reg[p].got \cup {k} /\ got[k] = Obs!Public(r)
      /\ \A m \in DOMAIN reg[p].got : m # k => got[m] = reg[p].got[m]
      /\ told[k].seq = r.seq /\ \A m \in Keys : m # k => told[m] = sub[p].told[m]
 <2>1. OTypes BY DEF OInv
 <2>2. /\ GotWith(p, k, r) \in Results /\ DOMAIN GotWith(p, k, r) = DOMAIN reg[p].got \cup {k}
       /\ GotWith(p, k, r)[k] = Obs!Public(r)
       /\ \A m \in DOMAIN reg[p].got : m # k => GotWith(p, k, r)[m] = reg[p].got[m] BY <1>1,<2>1, GotWithIs
 <2>3. /\ ToldWith(p, k, r)[k].seq = r.seq
       /\ \A m \in Keys : m # k => ToldWith(p, k, r)[m] = sub[p].told[m] BY <1>1,<2>1, ToldWithIs
 <2> QED BY <2>2,<2>3
<1>3. Obs!Public(r) \in Result /\ Obs!Public(r).seq = r.seq /\ r.seq # 0 /\ r.seq \in Nat
 BY PublicIs DEF RowOf, QueryRow
<1>4. NotBeyond(r, Obs!Public(r)) BY <1>3 DEF NotBeyond, Same
<1>5. QueryOf(p, n) BY DEF OInv, QueriesTrue
<1>6. Present(p)' => Present(p) BY DEF Present, GoesOn, Completes
<1>7. new = IF n = k THEN r ELSE old OBVIOUS
<1>8. new.state = "denied" => ~Evaluating(<<p, n>>)'
 <2>1. Evaluating(<<p, n>>) => old.state # "denied" BY <1>1 DEF OInv, Alarms
 <2> QED BY <2>1,<1>7
<1>9. ASSUME Present(p) PROVE sub[p].told[n].seq # 0 <=> n \in DOMAIN reg[p].got
 BY <1>5,<1>9 DEF QueryOf, ToldCounted
<1>10. ASSUME Present(p), n \in DOMAIN got
       PROVE  /\ got[n].seq # 0 /\ NotBeyond(new, got[n]) /\ got[n] \in Result
              /\ told[n].seq # 0 /\ new.state # "none" /\ told[n].seq <= new.seq
 <2>1. CASE n = k BY <2>1,<1>2,<1>3,<1>4,<1>7
 <2>2. CASE n # k
  <3>1. n \in DOMAIN reg[p].got /\ got[n] = reg[p].got[n] /\ told[n] = sub[p].told[n] /\ new = old
   BY <2>2,<1>1,<1>2,<1>7,<1>10
  <3>2. Gets(p, n) /\ ToldCounted(p, n) BY <1>5 DEF QueryOf
  <3> HIDE DEF got, told, old, new
  <3>3. old.state # "none" /\ got[n].seq # 0 /\ NotBeyond(old, got[n]) BY <3>1,<3>2,<1>10 DEF Gets, old
  <3>4. sub[p].told[n].seq # 0 /\ sub[p].told[n].seq <= old.seq BY <3>1,<3>2,<3>3,<1>9,<1>10 DEF ToldCounted, old
  <3> QED BY <3>1,<3>3,<3>4,<1>1
 <2> QED BY <2>1,<2>2
<1>11. ASSUME Present(p), n \notin DOMAIN got PROVE told[n].seq = 0 /\ new = old BY <1>1,<1>2,<1>7,<1>9,<1>11
<1> HIDE DEF got, told, old, new
<1>12. CASE GoesOn(p, got)
 <2>1. ToldCounted(p, n)'
  <3>1. page'[p].state # "live" /\ reg'[p].got = got /\ sub'[p].told = told BY <1>12 DEF GoesOn, told
  <3>2. ASSUME Present(p), n \in DOMAIN got PROVE ToldCounted(p, n)' BY <3>1,<3>2,<1>10 DEF ToldCounted, new
  <3>3. ASSUME Present(p), n \notin DOMAIN got PROVE ToldCounted(p, n)'
   <4>1. told[n].seq = 0 /\ new.seq \in Nat BY <3>3,<1>1,<1>11 DEF QueryRow
   <4> QED BY <4>1,<3>1,<3>3 DEF ToldCounted, new
  <3> QED BY <3>2,<3>3,<1>6 DEF ToldCounted
 <2>2. Gets(p, n)'
  <3>1. reg'[p].got = got BY <1>12 DEF GoesOn
  <3> QED BY <3>1,<1>6,<1>10 DEF Gets, new
 <2>3. ~Served(p)' BY <1>12 DEF GoesOn, Served
 <2> QED BY <2>1,<2>2,<2>3 DEF QueryOf, Flows, Revives
<1>13. CASE Completes(p, got, told)
 <2> DEFINE event == [kind |-> "snapshot", results |-> got]
            m == [Obs!NoLink EXCEPT !.flight = event]
            shown == page'[p].shown[n]
 <2>1. /\ page'[p].state = "live" /\ reg'[p] = Obs!NoReg /\ n \in DOMAIN got /\ link'[p] = m
       /\ history'.removed = history.removed /\ sub'[p].told = told
       /\ p \notin history'.lost => told[n].seq = got[n].seq BY <1>13 DEF Completes, told
 <2>2. ToldCounted(p, n)' BY <2>1,<1>6,<1>10 DEF ToldCounted, new
 <2>3. Gets(p, n)' BY <2>1 DEF Gets, Obs!NoReg
 <2>4. Revives(p, n)' BY <1>8 DEF Revives, new
 <2>5. m.flight = event /\ m.backlog = Obs!NoEvent /\ m.gap = FALSE /\ event.kind = "snapshot" /\ event.results = got
  BY DEF Obs!NoLink
 <2> HIDE DEF event, m, shown
 <2>6. InHand(m, n, shown) = got[n] /\ Last(m, n, shown) = got[n]
  BY <2>1,<2>5, NothingAfter DEF InHand, Last, After
 <2>7. Flows(p, n)'
  <3>1. ASSUME Served(p)' PROVE FlowOf(m, n, shown, told[n], new)
   <4>1. Present(p) BY <3>1,<1>6 DEF Served, Present
   <4>2. got[n].seq # 0 /\ NotBeyond(new, got[n]) /\ got[n] \in Result /\ told[n].seq = got[n].seq
    BY <4>1,<1>10,<2>1,<3>1 DEF Served
   <4>3. UpToDate(m, n, shown, told[n], new) BY <2>6,<4>2 DEF UpToDate, Follows, Result
   <4> QED BY <2>1,<2>5,<2>6,<4>2,<4>3 DEF FlowOf
  <3> QED BY <3>1,<2>1 DEF Flows, shown, new
 <2> QED BY <2>2,<2>3,<2>4,<2>7 DEF QueryOf
<1> QED BY <1>12,<1>13 DEF got, told

\* What the registration of page p leaves, when q was attached: the rest of the pages untouched.
Attached(p, got, told) ==
  /\ ev' \in [Obs!Queries \X Obs!Users -> Evaluation] /\ PageTypes'
  /\ \A q \in Obs!Queries : ev'[<<q, "alarm">>] = ev[<<q, "alarm">>]
  /\ \A s \in Pages, n \in Keys : s # p => ev'[<<<<s, n>>, "register">>] = ev[<<<<s, n>>, "register">>]
  /\ \A s \in Pages : s # p => /\ page'[s] = page[s] /\ link'[s] = link[s] /\ reg'[s] = reg[s] /\ sub'[s] = sub[s]
                               /\ s \in history'.lost <=> s \in history.lost
                               /\ s \in history'.removed <=> s \in history.removed
  /\ sub'[p].told = told /\ sub'[p].lease = sub[p].lease
  /\ Joins(p)' /\ SocketOf(p)'
  /\ GoesOn(p, got) \/ Completes(p, got, told)

\* The next query of the registration is read.
LEMMA NextAttached ==
  ASSUME OInv, NEW p \in Pages, NEW k \in setting.keys, NEW r \in QueryRow,
         ev[<<<<p, k>>, "register">>].pc # "idle",
         NEW n \in setting.keys \ DOMAIN GotWith(p, k, r), late' = late,
         sub' = [sub EXCEPT ![p].told = ToldWith(p, k, r)],
         ev' = [ev EXCEPT ![<<<<p, k>>, "register">>] = Obs!NoEval, ![<<<<p, n>>, "register">>] = Obs!Reads(1)],
         reg' = [reg EXCEPT ![p].got = GotWith(p, k, r)], UNCHANGED <<link, page, history>>
  PROVE  Attached(p, GotWith(p, k, r), ToldWith(p, k, r))
<1> DEFINE got == GotWith(p, k, r)
           told == ToldWith(p, k, r)
<1>1. k \in Keys /\ n \in Keys /\ OTypes BY QueryFacts DEF OInv
<1>2. got \in Results /\ told \in Telling
 <2>1. GotWith(p, k, r) \in Results /\ ToldWith(p, k, r) \in Telling BY <1>1, GotWithIs, ToldWithIs
 <2> QED BY <2>1
<1>3. /\ reg[p].on /\ page[p].state = "joining" /\ link[p] = Obs!NoLink /\ sub[p].lease = "fresh"
      /\ \A m \in Keys : ev[<<<<p, m>>, "register">>].pc # "idle" => m = k BY <1>1, JoiningFacts
<1>4. Obs!Reads(1) \in Evaluation /\ Obs!NoEval \in Evaluation /\ Obs!NoEval.pc = "idle"
 BY ReadsIs, Records DEF Obs!NoEval
<1>5. ev \in [Obs!Queries \X Obs!Users -> Evaluation] BY <1>1 DEF OTypes, TableTypes
<1>6. n \notin DOMAIN got OBVIOUS
<1> HIDE DEF got, told
<1>7. \A q \in Obs!Queries, by \in Obs!Users :
        ev'[<<q, by>>] = IF q = <<p, n>> /\ by = "register" THEN Obs!Reads(1)
                         ELSE IF q = <<p, k>> /\ by = "register" THEN Obs!NoEval ELSE ev[<<q, by>>] BY <1>5
<1>8. ev' \in [Obs!Queries \X Obs!Users -> Evaluation] BY <1>4,<1>5
<1>9. /\ \A q \in Obs!Queries : ev'[<<q, "alarm">>] = ev[<<q, "alarm">>]
      /\ \A s \in Pages, m \in Keys : s # p => ev'[<<<<s, m>>, "register">>] = ev[<<<<s, m>>, "register">>]
      /\ \A m \in Keys : ev'[<<<<p, m>>, "register">>].pc # "idle" => m = n
 <2>1. \A s \in Pages, m \in Keys : <<s, m>> \in Obs!Queries BY DEF Obs!Queries
 <2>2. \A q \in Obs!Queries : ev'[<<q, "alarm">>] = ev[<<q, "alarm">>] BY <1>7 DEF Obs!Users
 <2>3. \A s \in Pages, m \in Keys : s # p => ev'[<<<<s, m>>, "register">>] = ev[<<<<s, m>>, "register">>]
  BY <2>1,<1>7 DEF Obs!Users
 <2>4. ASSUME NEW m \in Keys, m # n PROVE ev'[<<<<p, m>>, "register">>].pc = "idle"
  <3>1. CASE m = k BY <3>1,<2>1,<2>4,<1>1,<1>4,<1>7 DEF Obs!Users
  <3>2. CASE m # k
   <4>1. <<p, m>> # <<p, n>> /\ <<p, m>> # <<p, k>> /\ <<p, m>> \in Obs!Queries BY <3>2,<2>1,<2>4
   <4>2. ev'[<<<<p, m>>, "register">>] = ev[<<<<p, m>>, "register">>] BY <4>1,<1>7 DEF Obs!Users
   <4> QED BY <4>2,<3>2,<1>3
  <3> QED BY <3>1,<3>2
 <2> QED BY <2>2,<2>3,<2>4
<1>10. sub \in [Pages -> Subscription] /\ reg \in [Pages -> Registration] BY <1>1 DEF OTypes, PageTypes
<1>11. sub' = [sub EXCEPT ![p].told = told] /\ reg' = [reg EXCEPT ![p].got = got] BY DEF told, got
<1>12. /\ sub' \in [Pages -> Subscription] /\ sub'[p].told = told /\ sub'[p].lease = sub[p].lease
       /\ \A s \in Pages : s # p => sub'[s] = sub[s] BY <1>2,<1>10,<1>11 DEF Subscription
<1>13. /\ reg' \in [Pages -> Registration] /\ reg'[p].got = got /\ reg'[p].on = reg[p].on
       /\ \A s \in Pages : s # p => reg'[s] = reg[s] BY <1>2,<1>10,<1>11 DEF Registration
<1>14. PageTypes' BY <1>1,<1>12,<1>13 DEF OTypes, PageTypes
<1>15. Joins(p)' BY <1>3,<1>6,<1>9,<1>12,<1>13 DEF Joins
<1>16. SocketOf(p)' BY <1>3,<1>12 DEF OInv, PagesTrue, SocketOf
<1>17. GoesOn(p, got) BY <1>3,<1>13 DEF GoesOn
<1>18. Attached(p, got, told) BY <1>8,<1>9,<1>12,<1>13,<1>14,<1>15,<1>16,<1>17 DEF Attached
<1> QED BY <1>18 DEF got, told

\* The last one: the page goes live with a snapshot of all.
LEMMA AllAttached ==
  ASSUME OInv, NEW p \in Pages, NEW k \in setting.keys, NEW r \in QueryRow,
         ev[<<<<p, k>>, "register">>].pc # "idle",
         DOMAIN GotWith(p, k, r) = setting.keys, late' = late,
         sub' = [sub EXCEPT ![p].told = ToldWith(p, k, r)],
         ev' = [ev EXCEPT ![<<<<p, k>>, "register">>] = Obs!NoEval],
         reg' = [reg EXCEPT ![p] = Obs!NoReg], page' = [page EXCEPT ![p].state = "live"],
         link' = [link EXCEPT ![p].flight = [kind |-> "snapshot", results |-> GotWith(p, k, r)]],
         history' = [history EXCEPT !.lost =
           IF \E n \in setting.keys : ToldWith(p, k, r)[n].seq # GotWith(p, k, r)[n].seq THEN @ \cup {p} ELSE @]
  PROVE  Attached(p, GotWith(p, k, r), ToldWith(p, k, r))
<1> DEFINE got == GotWith(p, k, r)
           told == ToldWith(p, k, r)
           event == [kind |-> "snapshot", results |-> got]
           m == [Obs!NoLink EXCEPT !.flight = event]
<1>1. k \in Keys /\ OTypes BY QueryFacts DEF OInv
<1>2. got \in Results /\ told \in Telling
 <2>1. GotWith(p, k, r) \in Results /\ ToldWith(p, k, r) \in Telling BY <1>1, GotWithIs, ToldWithIs
 <2> QED BY <2>1
<1>3. /\ reg[p].on /\ page[p].state = "joining" /\ link[p] = Obs!NoLink /\ sub[p].lease = "fresh"
      /\ \A n \in Keys : ev[<<<<p, n>>, "register">>].pc # "idle" => n = k BY <1>1, JoiningFacts
<1>4. Obs!NoEval \in Evaluation /\ Obs!NoEval.pc = "idle" /\ Obs!NoLink \in Link /\ Obs!NoReg \in Registration
 BY Records DEF Obs!NoEval
<1>5. ev \in [Obs!Queries \X Obs!Users -> Evaluation] BY <1>1 DEF OTypes, TableTypes
<1>6. DOMAIN got = setting.keys OBVIOUS
<1>7. /\ history'.removed = history.removed
      /\ history'.lost = history.lost \/ history'.lost = history.lost \cup {p}
      /\ p \notin history'.lost => \A n \in setting.keys : told[n].seq = got[n].seq
      /\ history' \in [lost : SUBSET Pages, removed : SUBSET Pages]
 <2>1. history \in [lost : SUBSET Pages, removed : SUBSET Pages] BY <1>1 DEF OTypes, PageTypes
 <2>2. history' = [history EXCEPT !.lost = IF \E n \in setting.keys : told[n].seq # got[n].seq
                                           THEN history.lost \cup {p} ELSE history.lost] OBVIOUS
 <2> HIDE DEF got, told
 <2>3. CASE \E n \in setting.keys : told[n].seq # got[n].seq
  <3>1. history' = [history EXCEPT !.lost = history.lost \cup {p}] BY <2>2,<2>3
  <3> QED BY <3>1,<2>1
 <2>4. CASE ~\E n \in setting.keys : told[n].seq # got[n].seq
  <3>1. history' = [history EXCEPT !.lost = history.lost] BY <2>2,<2>4
  <3> QED BY <3>1,<2>1,<2>4
 <2> QED BY <2>3,<2>4
<1>8. link' = [link EXCEPT ![p].flight = event] OBVIOUS
<1> HIDE DEF got, told
<1>9. event \in Event /\ event.kind = "snapshot" BY <1>2 DEF Event
<1> HIDE DEF event
<1>10. m \in Link /\ LinkOf(m) /\ m # Obs!NoLink
 <2>1. m \in Link /\ m.flight = event /\ m.backlog = Obs!NoEvent /\ m.gap = FALSE
  BY <1>4,<1>9 DEF Link, Obs!NoLink
 <2>2. Obs!NoLink.flight.kind = "none" /\ Obs!NoEvent.kind = "none" BY DEF Obs!NoLink, Obs!NoEvent
 <2> QED BY <2>1,<2>2,<1>9 DEF LinkOf
<1>11. /\ link' \in [Pages -> Link] /\ link'[p] = m /\ \A s \in Pages : s # p => link'[s] = link[s]
 <2>1. link \in [Pages -> Link] BY <1>1 DEF OTypes, PageTypes
 <2>2. link' = [link EXCEPT ![p] = m] BY <2>1,<1>3,<1>8
 <2> QED BY <2>1,<2>2,<1>10
<1>12. \A q \in Obs!Queries, by \in Obs!Users :
         ev'[<<q, by>>] = IF q = <<p, k>> /\ by = "register" THEN Obs!NoEval ELSE ev[<<q, by>>] BY <1>5
<1>13. ev' \in [Obs!Queries \X Obs!Users -> Evaluation] BY <1>4,<1>5
<1>14. /\ \A q \in Obs!Queries : ev'[<<q, "alarm">>] = ev[<<q, "alarm">>]
       /\ \A s \in Pages, n \in Keys : s # p => ev'[<<<<s, n>>, "register">>] = ev[<<<<s, n>>, "register">>]
       /\ \A n \in Keys : ev'[<<<<p, n>>, "register">>].pc = "idle"
 <2>1. \A s \in Pages, n \in Keys : <<s, n>> \in Obs!Queries BY DEF Obs!Queries
 <2>2. \A q \in Obs!Queries : ev'[<<q, "alarm">>] = ev[<<q, "alarm">>] BY <1>12 DEF Obs!Users
 <2>3. \A s \in Pages, n \in Keys : s # p => ev'[<<<<s, n>>, "register">>] = ev[<<<<s, n>>, "register">>]
  BY <2>1,<1>12 DEF Obs!Users
 <2>4. ASSUME NEW n \in Keys PROVE ev'[<<<<p, n>>, "register">>].pc = "idle"
  <3>1. CASE n = k BY <3>1,<2>1,<1>4,<1>12 DEF Obs!Users
  <3>2. CASE n # k BY <3>2,<2>1,<1>3,<1>12 DEF Obs!Users
  <3> QED BY <3>1,<3>2
 <2> QED BY <2>2,<2>3,<2>4
<1>15. sub' = [sub EXCEPT ![p].told = told] /\ sub \in [Pages -> Subscription] BY <1>1 DEF told, OTypes, PageTypes
<1>16. /\ sub' \in [Pages -> Subscription] /\ sub'[p].told = told /\ sub'[p].lease = sub[p].lease
       /\ \A s \in Pages : s # p => sub'[s] = sub[s] BY <1>2,<1>15 DEF Subscription
<1>17. /\ reg' \in [Pages -> Registration] /\ reg'[p] = Obs!NoReg /\ \A s \in Pages : s # p => reg'[s] = reg[s]
 BY <1>1,<1>4 DEF OTypes, PageTypes
<1>18. /\ page' \in [Pages -> Client] /\ page'[p].state = "live" /\ \A s \in Pages : s # p => page'[s] = page[s]
 BY <1>1 DEF OTypes, PageTypes, Client
<1>19. PageTypes' BY <1>1,<1>7,<1>11,<1>16,<1>17,<1>18 DEF OTypes, PageTypes
<1>20. Joins(p)' BY <1>14,<1>17,<1>18 DEF Joins, Obs!NoReg
<1>21. SocketOf(p)' BY <1>3,<1>10,<1>11,<1>16,<1>18 DEF SocketOf
<1>22. Completes(p, got, told) BY <1>6,<1>7,<1>11,<1>17,<1>18 DEF Completes, event
<1>23. \A s \in Pages : s # p => /\ s \in history'.lost <=> s \in history.lost
                                 /\ s \in history'.removed <=> s \in history.removed BY <1>7
<1>24. Attached(p, got, told) BY <1>11,<1>13,<1>14,<1>16,<1>17,<1>18,<1>19,<1>20,<1>21,<1>22,<1>23 DEF Attached
<1> QED BY <1>24 DEF got, told

LEMMA RegisterStores ==
  ASSUME OInv, NEW p \in Pages, NEW k \in setting.keys,
         Obs!storeEvaluation(<<p, k>>, "register"), ~grant.barred
  PROVE  OInv'
<1> DEFINE q == <<p, k>>
           r == Storing(q, "register")
           table == StoredRows(q, "register")
           edges == Obs!Expected(ev[<<q, "register">>].exp)
<1>1. k \in Keys /\ q \in Obs!Queries /\ q[1] = p /\ q[2] = k /\ OTypes /\ ObserverTables BY QueryFacts DEF OInv
<1>2. /\ ev[<<q, "register">>].pc = "attach" /\ Obs!Observe(TRUE, table, edges, Obs!Alive) /\ Obs!registered(p, k, r)
      /\ UNCHANGED <<setting, source, bound, grant, seen, observerAlarm, late, det, faults>>
 BY DEF Obs!storeEvaluation, StoredRows, Storing
<1>3. /\ r \in QueryRow /\ RowOf(r) /\ r.state = "active" /\ Linked(table, edges)
      /\ \A q2 \in Obs!Queries : table[q2] = IF q2 = q THEN r ELSE row[q2] BY <1>1, StoringIs DEF Obs!Users
<1> HIDE DEF table, edges, r
<1>4. /\ reg[p].on /\ page[p].state = "joining" /\ sub[p].lease = "fresh" /\ k \notin DOMAIN reg[p].got
 BY <1>1,<1>2, JoiningFacts
<1>5. Attached(p, GotWith(p, k, r), ToldWith(p, k, r))
 <2>1. sub' = [sub EXCEPT ![p].told = ToldWith(p, k, r)] BY <1>2 DEF Obs!registered, ToldWith
 <2>2. CASE DOMAIN GotWith(p, k, r) # setting.keys
  <3>1. PICK n \in setting.keys \ DOMAIN GotWith(p, k, r) :
          ev' = [ev EXCEPT ![<<<<p, k>>, "register">>] = Obs!NoEval, ![<<<<p, n>>, "register">>] = Obs!Reads(1)]
   BY <2>2,<1>2 DEF Obs!registered, GotWith
  <3>2. reg' = [reg EXCEPT ![p].got = GotWith(p, k, r)] /\ UNCHANGED <<link, page, history>>
   BY <2>2,<1>2 DEF Obs!registered, GotWith
  <3>3. late' = late /\ ev[<<<<p, k>>, "register">>].pc # "idle" BY <1>2
  <3> QED BY <2>1,<3>1,<3>2,<3>3,<1>3, NextAttached
 <2>3. CASE DOMAIN GotWith(p, k, r) = setting.keys
  <3>1. /\ ev' = [ev EXCEPT ![<<<<p, k>>, "register">>] = Obs!NoEval]
        /\ reg' = [reg EXCEPT ![p] = Obs!NoReg] /\ page' = [page EXCEPT ![p].state = "live"]
        /\ link' = [link EXCEPT ![p].flight = [kind |-> "snapshot", results |-> GotWith(p, k, r)]]
   BY <2>3,<1>2 DEF Obs!registered, GotWith
  <3>2. history' = [history EXCEPT !.lost =
          IF \E n \in setting.keys : ToldWith(p, k, r)[n].seq # GotWith(p, k, r)[n].seq THEN @ \cup {p} ELSE @]
   BY <2>3,<1>2 DEF Obs!registered, GotWith, ToldWith
  <3>3. late' = late /\ ev[<<<<p, k>>, "register">>].pc # "idle" BY <1>2
  <3> QED BY <2>1,<2>3,<3>1,<3>2,<3>3,<1>3, AllAttached
 <2> QED BY <2>2,<2>3
<1>6. /\ Linked(row', edge') /\ Anchored(row', edge')
      /\ \A q2 \in Obs!Queries : row'[q2] = IF q2 \in Obs!Alive THEN table[q2] ELSE Obs!NoRow
 BY <1>2,<1>3, ObserveIs
<1>7. OutsideTypes' /\ Sources(source') BY <1>1,<1>2, SourcesNow DEF OTypes, OutsideTypes
<1>8. OTypes' BY <1>1,<1>2,<1>5,<1>6,<1>7 DEF OTypes, TableTypes, Attached, Linked
<1>9. ObserverTables' BY <1>6,<1>7 DEF ObserverTables, Linked, Sources, Heard
<1>10. \A q2 \in Obs!Queries : Evaluating(q2)' => Evaluating(q2) BY <1>5 DEF Attached, Evaluating
<1>11. Alarms'
 <2>1. \A q2 \in Obs!Queries : row'[q2].state = "denied" => row[q2].state = "denied" BY <1>3,<1>6 DEF Obs!NoRow
 <2> QED BY <2>1,<1>2,<1>10, AlarmsStay DEF OInv
<1>12. ASSUME NEW s \in Pages PROVE Joins(s)' /\ SocketOf(s)' /\ \A n \in setting'.keys : QueryOf(s, n)'
 <2>1. CASE s = p
  <3>1. ASSUME NEW n \in setting.keys PROVE QueryOf(p, n)'
   <4>1. n \in Keys /\ <<p, n>> \in Obs!Queries /\ <<p, n>>[1] = p BY QueryFacts, <1>1
   <4>2. <<p, n>> \in Obs!Alive BY <4>1,<1>4 DEF Obs!Alive
   <4>3. row'[<<p, n>>] = IF n = k THEN r ELSE row[<<p, n>>] BY <4>1,<4>2,<1>3,<1>6
   <4>4. Evaluating(<<p, n>>)' => Evaluating(<<p, n>>) BY <4>1,<1>10
   <4>5. /\ sub'[p].told = ToldWith(p, k, r)
         /\ GoesOn(p, GotWith(p, k, r)) \/ Completes(p, GotWith(p, k, r), ToldWith(p, k, r)) BY <1>5 DEF Attached
   <4>6. grant' = grant BY <1>2
   <4> QED BY <4>3,<4>4,<4>5,<4>6,<1>3,<1>4, RegisteredQuery
  <3> QED BY <2>1,<3>1,<1>2,<1>5 DEF Attached
 <2>2. CASE s # p
  <3>1. SamePage(s) /\ sub'[s].lease = sub[s].lease BY <2>2,<1>5 DEF Attached, SamePage
  <3>2. \A n \in Keys : <<s, n>> \in Obs!Queries /\ <<s, n>> # q BY <2>2 DEF Obs!Queries
  <3>3. \A n \in Keys : row'[<<s, n>>] = IF <<s, n>> \in Obs!Alive THEN row[<<s, n>>] ELSE Obs!NoRow
   BY <3>2,<1>3,<1>6
  <3>4. \A n \in Keys, by \in Obs!Users : ev'[<<<<s, n>>, by>>].pc # "idle" => ev[<<<<s, n>>, by>>].pc # "idle"
   BY <2>2,<3>2,<1>5 DEF Attached, Obs!Users
  <3>5. setting' = setting /\ Barring BY <1>2 DEF Barring
  <3> QED BY <3>1,<3>3,<3>4,<3>5,<1>8, OtherPage
 <2> QED BY <2>1,<2>2
<1> QED BY <1>8,<1>9,<1>11,<1>12 DEF OInv, PagesTrue, QueriesTrue

LEMMA RegisterDenied ==
  ASSUME OInv, NEW p \in Pages, NEW k \in Keys, Obs!storeEvaluation(<<p, k>>, "register"),
         grant.barred
  PROVE  OInv'
<1> DEFINE q == <<p, k>>
           edges == Obs!Expected(ev[<<q, "register">>].exp)
<1>1. q \in Obs!Queries /\ q[1] = p /\ OTypes /\ ObserverTables BY DEF OInv, Obs!Queries
<1>2. /\ ev[<<q, "register">>].pc # "idle" /\ Obs!Becomes(q, "register", Obs!NoEval)
      /\ Obs!RegistrationFails(p, "ended", TRUE, edges)
      /\ UNCHANGED <<setting, source, bound, grant, seen, observerAlarm, link, late, det, faults,
                     history>> BY <1>1 DEF Obs!storeEvaluation
<1>3. Linked(row, edges) BY <1>1, StoringIs DEF Obs!Users
<1>4. OutsideTypes' /\ Sources(source') /\ Barring BY <1>1,<1>2, SourcesNow DEF OTypes, OutsideTypes, Barring
<1> HIDE DEF edges
<1> QED BY <1>2,<1>3,<1>4, RegistrationEnds

LEMMA StoreKeeps ==
  ASSUME OInv, NEW q \in Obs!Asked, q \in Obs!Queries, NEW by \in Obs!Users,
         Obs!storeEvaluation(q, by)
  PROVE  OInv'
<1>1. PICK p \in Pages, k \in Keys : q = <<p, k>> BY DEF Obs!Queries
<1>2. k \in setting.keys BY <1>1 DEF Obs!Asked
<1> QED BY <1>1,<1>2, AlarmStores, RegisterStores, RegisterDenied DEF Obs!Users

-----------------------------------------------------------------------------
(* Publishing to all pages                                                  *)

\* The rows published for page p: those there are, or these denied, and none whose lease is over.
PublishedRows(p, table) ==
  /\ Publishable(table)
  /\ \A k \in Keys :
       /\ RowOf(table[<<p, k>>])
       /\ table[<<p, k>>].state = "none" => row[<<p, k>>].state = "none" \/ <<p, k>> \notin Obs!Alive
       /\ table[<<p, k>>].state # "none" =>
            row[<<p, k>>].state # "none" /\ table[<<p, k>>].seq = row[<<p, k>>].seq
       /\ row'[<<p, k>>] = IF <<p, k>> \in Obs!Alive THEN table[<<p, k>>] ELSE Obs!NoRow
       /\ grant'.barred \/ <<p, k>> \notin Obs!Alive \/ table[<<p, k>>] = row[<<p, k>>]
PublishedPage(p, table) ==
  /\ sub'[p] = [sub[p] EXCEPT !.told = Obs!ToldAfter(p, table)] /\ link'[p] = Obs!LinkAfter(p, table)
  /\ page'[p] = page[p] /\ reg'[p] = reg[p]
  /\ p \in history'.lost <=> p \in history.lost
  /\ p \in history'.removed <=> p \in history.removed

LEMMA PublishedQuery ==
  ASSUME OInv, OTypes', Barring, NEW p \in Pages, NEW table, PublishedRows(p, table),
         PublishedPage(p, table),
         NEW k \in setting.keys, Evaluating(<<p, k>>)' => Evaluating(<<p, k>>)
  PROVE  QueryOf(p, k)'
<1> DEFINE q == <<p, k>>
           r == row[q]
           r2 == table[q]
           new == row'[q]
           told == sub[p].told[k]
           told2 == Obs!ToldAfter(p, table)[k]
           shown == page[p].shown[k]
           m == Obs!LinkAfter(p, table)
<1>1. /\ k \in Keys /\ q \in Obs!Queries /\ q[1] = p /\ r \in QueryRow /\ sub[p] \in Subscription /\ told.seq \in Nat
      /\ OTypes /\ ObserverTables BY QueryFacts DEF OInv
<1>2. /\ Publishable(table) /\ RowOf(r2) /\ (r2.state = "none" => r.state = "none" \/ q \notin Obs!Alive)
      /\ r2.state # "none" => r.state # "none" /\ r2.seq = r.seq
      /\ new = IF q \in Obs!Alive THEN r2 ELSE Obs!NoRow
      /\ grant'.barred \/ q \notin Obs!Alive \/ r2 = r BY <1>1 DEF PublishedRows
<1>3. r2 \in QueryRow /\ new \in QueryRow BY <1>1,<1>2 DEF Publishable, OTypes, TableTypes
<1>4. sub'[p].told[k] = told2 /\ sub'[p].lease = sub[p].lease BY <1>1 DEF PublishedPage, Subscription
<1>5. told2 = IF k \in Obs!Changed(p, table) THEN Obs!Told(r2, told) ELSE told
 BY <1>1,<1>2, TellingIs DEF Publishable
<1>6. (Present(p)' <=> Present(p)) /\ (Served(p)' <=> Served(p)) BY DEF Present, Served, PublishedPage
<1>7. QueryOf(p, k) BY DEF OInv, QueriesTrue
<1>8. told.seq # 0 => sub[p].lease # "absent"
 <2>1. Obs!Untold[k].seq = 0 BY <1>1 DEF Obs!Untold
 <2> HIDE DEF q, r, r2, new, told2, shown, m
 <2> QED BY <2>1 DEF OInv, PagesTrue, SocketOf
<1>9. q \notin Obs!Alive => sub[p].lease \in {"absent", "over"} BY <1>1 DEF Obs!Alive, Subscription
<1>10. reg[p].on => q \in Obs!Alive BY <1>9 DEF OInv, PagesTrue, Joins
<1>11. k \in Obs!Changed(p, table) => told.seq # 0 BY DEF Obs!Changed
<1>12. Obs!NoRow.state = "none" BY DEF Obs!NoRow
<1> HIDE DEF q, r, r2, new, told, told2, shown, m
<1>13. told2.seq # 0 <=> told.seq # 0 BY <1>2,<1>5,<1>11 DEF Obs!Told, RowOf
<1>14. ToldCounted(p, k)'
 <2>1. ASSUME Present(p) PROVE sub[p].told[k].seq # 0 <=> page[p].state = "live" \/ k \in DOMAIN reg[p].got
  BY <2>1,<1>7 DEF QueryOf, ToldCounted
 <2>2. ASSUME Present(p), new.state # "none" PROVE told2.seq <= new.seq
  <3>1. new = r2 /\ r.state # "none" /\ r2.seq = r.seq BY <2>2,<1>2,<1>12
  <3>2. told.seq <= r.seq BY <2>2,<3>1,<1>7 DEF QueryOf, ToldCounted, told, r, q
  <3>3. CASE k \in Obs!Changed(p, table) BY <3>1,<3>3,<2>2,<1>3,<1>5 DEF Obs!Told, QueryRow
  <3>4. CASE k \notin Obs!Changed(p, table) BY <3>1,<3>2,<3>4,<1>5
  <3> QED BY <3>3,<3>4
 <2>3. ASSUME Present(p), told.seq # 0, new.state = "none", Evaluating(q)' PROVE sub[p].lease = "over"
  <3>1. CASE q \in Obs!Alive
   <4>1. r.state = "none" BY <3>1,<2>3,<1>2
   <4> QED BY <4>1,<2>3,<1>7 DEF QueryOf, ToldCounted, told, r, q
  <3>2. CASE q \notin Obs!Alive BY <3>2,<2>3,<1>8,<1>9
  <3> QED BY <3>1,<3>2
 <2>4. page'[p] = page[p] /\ reg'[p] = reg[p] BY DEF PublishedPage
 <2> QED BY <2>1,<2>2,<2>3,<2>4,<1>4,<1>6,<1>13 DEF ToldCounted, told, new, q
<1>15. Gets(p, k)'
 <2>1. ASSUME Present(p), reg[p].on, k \in DOMAIN reg[p].got
       PROVE  new.state # "none" /\ reg[p].got[k].seq # 0 /\ (~grant'.barred => NotBeyond(new, reg[p].got[k]))
  <3>1. r.state # "none" /\ reg[p].got[k].seq # 0 /\ (~grant.barred => NotBeyond(r, reg[p].got[k]))
   BY <2>1,<1>7 DEF QueryOf, Gets, r, q
  <3>2. q \in Obs!Alive /\ new = r2 /\ r2.state # "none" BY <2>1,<3>1,<1>2,<1>10
  <3> QED BY <3>1,<3>2,<1>2 DEF Barring
 <2>2. reg'[p] = reg[p] BY DEF PublishedPage
 <2> QED BY <2>1,<2>2,<1>6 DEF Gets, new, q
<1>16. ASSUME Served(p) PROVE FlowOf(m, k, shown, told2, new) /\ (new.state = "denied" => Ending(m) \/ m.gap)
 <2>1. FlowOf(m, k, shown, told2, r2) /\ (r2.state # "active" => Ending(m) \/ m.gap)
  BY <1>1,<1>2,<1>16, PublishFlows DEF OInv, m, shown, told2, r2, q
 <2>2. CASE new = r2 BY <2>1,<2>2
 <2>3. CASE new = Obs!NoRow
  <3>1. NotBeyond(new, Last(m, k, shown)) BY <2>3,<1>12 DEF NotBeyond
  <3> QED BY <2>1,<2>3,<3>1,<1>12 DEF FlowOf, UpToDate
 <2> QED BY <2>2,<2>3,<1>2
<1>17. Flows(p, k)' /\ Revives(p, k)'
 <2>1. link'[p] = m /\ page'[p].shown[k] = shown BY DEF PublishedPage, m, shown
 <2>2. Flows(p, k)' BY <2>1,<1>4,<1>6,<1>16 DEF Flows, new, q
 <2>3. Revives(p, k)' BY <2>1,<1>6,<1>16 DEF Revives, new, q
 <2> QED BY <2>2,<2>3
<1> QED BY <1>14,<1>15,<1>17 DEF QueryOf

LEMMA PublishedTo ==
  ASSUME OInv, OTypes', setting' = setting, Barring, NEW p \in Pages, NEW table,
         PublishedRows(p, table),
         PublishedPage(p, table),
         \A k \in Keys, by \in Obs!Users : ev'[<<<<p, k>>, by>>].pc # "idle" => ev[<<<<p, k>>, by>>].pc # "idle"
  PROVE  Joins(p)' /\ SocketOf(p)' /\ \A k \in setting'.keys : QueryOf(p, k)'
<1>1. ASSUME NEW k \in setting.keys PROVE QueryOf(p, k)'
 <2>1. k \in Keys BY QueryFacts DEF OInv
 <2>2. Evaluating(<<p, k>>)' => Evaluating(<<p, k>>) BY <2>1 DEF Evaluating, Obs!Users
 <2> QED BY <2>2, PublishedQuery
<1>2. sub[p] \in Subscription BY DEF OInv, OTypes, PageTypes
<1>3. sub'[p].lease = sub[p].lease /\ sub'[p].told = Obs!ToldAfter(p, table)
 BY <1>2 DEF PublishedPage, Subscription
<1>4. Joins(p)'
 <2>1. \A k \in Keys : ev'[<<<<p, k>>, "register">>].pc # "idle" => ev[<<<<p, k>>, "register">>].pc # "idle"
  BY DEF Obs!Users
 <2>2. page'[p] = page[p] /\ reg'[p] = reg[p] BY DEF PublishedPage
 <2> QED BY <2>1,<2>2,<1>3 DEF OInv, PagesTrue, Joins
<1>5. ASSUME sub[p].told = Obs!Untold PROVE Obs!ToldAfter(p, table) = Obs!Untold
 <2>1. \A k \in Keys : Obs!Untold[k].seq = 0 BY DEF Obs!Untold
 <2>2. setting.keys \subseteq Keys BY Constants DEF OInv, OTypes, OutsideTypes
 <2>3. \A k \in Keys : k \notin Obs!Changed(p, table) BY <1>5,<2>1,<2>2 DEF Obs!Changed
 <2>4. Obs!ToldAfter(p, table) = [k \in Keys |-> Obs!Untold[k]] BY <1>5,<2>3 DEF Obs!ToldAfter
 <2> QED BY <2>4 DEF Obs!Untold
<1>6. SocketOf(p)'
 <2>1. /\ LinkOf(Obs!LinkAfter(p, table)) /\ (Obs!LinkAfter(p, table) # Obs!NoLink => page[p].state = "live")
  BY PublishLinks DEF OInv, PublishedRows
 <2>2. page'[p] = page[p] /\ link'[p] = Obs!LinkAfter(p, table) BY DEF PublishedPage
 <2> QED BY <2>1,<2>2,<1>3,<1>5 DEF OInv, PagesTrue, SocketOf
<1> QED BY <1>1,<1>4,<1>6

\* What is told and sent when rows are published to the pages.
LEMMA PublishTypes ==
  ASSUME OInv, NEW table, Publishable(table), NEW p \in Pages
  PROVE  /\ [sub[p] EXCEPT !.told = Obs!ToldAfter(p, table)] \in Subscription
         /\ Obs!LinkAfter(p, table) \in Link
<1>1. sub[p] \in Subscription /\ OTypes BY DEF OInv, OTypes, PageTypes
<1>2. Obs!ToldAfter(p, table) \in Telling BY <1>1, TellingIs DEF Publishable
<1>3. Obs!LinkAfter(p, table) \in Link BY PublishLinks DEF OInv
<1> QED BY <1>1,<1>2,<1>3 DEF Subscription

LEMMA DeniedIs ==
  ASSUME OInv
  PROVE  /\ Publishable(Obs!invalidateLiveQueriesForGrant) /\ Linked(Obs!invalidateLiveQueriesForGrant, edge)
         /\ \A q \in Obs!Queries : /\ Obs!invalidateLiveQueriesForGrant[q] = Obs!denyQuery(row[q])
                                   /\ RowOf(Obs!invalidateLiveQueriesForGrant[q])
                                   /\ Obs!invalidateLiveQueriesForGrant[q].seq = row[q].seq
                                   /\ Obs!invalidateLiveQueriesForGrant[q].state # "none" <=> row[q].state # "none"
<1>1. row \in [Obs!Queries -> QueryRow] /\ \A q \in Obs!Queries : row[q] \in QueryRow /\ RowOf(row[q])
 BY DEF OInv, OTypes, TableTypes, ObserverTables
<1>2. \A q \in Obs!Queries : Obs!invalidateLiveQueriesForGrant[q] = Obs!denyQuery(row[q])
 BY DEF Obs!invalidateLiveQueriesForGrant
<1>3. \A q \in Obs!Queries : /\ Obs!denyQuery(row[q]) \in QueryRow /\ RowOf(Obs!denyQuery(row[q]))
                             /\ Obs!denyQuery(row[q]).edges \subseteq row[q].edges /\ Obs!denyQuery(row[q]).seq = row[q].seq
                             /\ Obs!denyQuery(row[q]).state = IF row[q].state = "none" THEN "none" ELSE "denied"
 BY <1>1, DenyIs
<1>4. Obs!invalidateLiveQueriesForGrant \in [Obs!Queries -> QueryRow]
 BY <1>3 DEF Obs!invalidateLiveQueriesForGrant
<1>5. \A q \in Obs!Queries : RowOf(Obs!invalidateLiveQueriesForGrant[q])
                             /\ Obs!invalidateLiveQueriesForGrant[q].edges \subseteq row[q].edges BY <1>2,<1>3
<1>6. Linked(Obs!invalidateLiveQueriesForGrant, edge)
 BY <1>4,<1>5, TablesLinked, LinkedRows DEF OInv, OTypes, TableTypes
<1>7. Publishable(Obs!invalidateLiveQueriesForGrant) BY <1>2,<1>3,<1>4 DEF Publishable
<1> QED BY <1>2,<1>3,<1>6,<1>7

LEMMA GrantKeeps == ASSUME OInv, Obs!deliverGrantInvalidation PROVE OInv'
<1> DEFINE table == Obs!invalidateLiveQueriesForGrant
<1>1. /\ Publishable(table) /\ Linked(table, edge)
      /\ \A q \in Obs!Queries : /\ RowOf(table[q]) /\ table[q].seq = row[q].seq
                                /\ table[q].state # "none" <=> row[q].state # "none" BY DeniedIs
<1>2. /\ sub' = [p \in Pages |-> [sub[p] EXCEPT !.told = Obs!ToldAfter(p, table)]]
      /\ link' = [p \in Pages |-> Obs!LinkAfter(p, table)] /\ Obs!Observe(table # row, table, edge, Obs!Alive)
      /\ UNCHANGED <<setting, source, bound, seen, ev, observerAlarm, reg, page, late, det, history>>
 BY DEF Obs!deliverGrantInvalidation, Obs!invalidateStateQueryGrant
<1>3. /\ grant' \in [revoked : BOOLEAN, out : BOOLEAN, barred : BOOLEAN] /\ grant'.barred
      /\ faults' \in [losses : Nat, delays : Nat]
 <2>1. grant \in [revoked : BOOLEAN, out : BOOLEAN, barred : BOOLEAN] /\ OTypes BY DEF OInv, OTypes, OutsideTypes
 <2>2. faults' \in [losses : Nat, delays : Nat]
  BY <2>1, FaultIs DEF OTypes, OutsideTypes, Obs!deliverGrantInvalidation
 <2>3. \/ grant' = [grant EXCEPT !.out = FALSE, !.barred = TRUE]
       \/ grant' = [grant EXCEPT !.barred = TRUE] BY DEF Obs!deliverGrantInvalidation
 <2> QED BY <2>1,<2>2,<2>3
<1> HIDE DEF table
<1>4. /\ Linked(row', edge') /\ Anchored(row', edge')
      /\ \A q \in Obs!Queries : row'[q] = IF q \in Obs!Alive THEN table[q] ELSE Obs!NoRow BY <1>1,<1>2, SameEdges, ObserveIs DEF OInv
<1>5. sub' \in [Pages -> Subscription] /\ link' \in [Pages -> Link] BY <1>1,<1>2, PublishTypes
<1>6. OutsideTypes' /\ Sources(source') BY <1>2,<1>3, SourcesNow DEF OInv, OTypes, OutsideTypes
<1>7. OTypes' BY <1>2,<1>4,<1>5,<1>6 DEF OInv, OTypes, TableTypes, PageTypes, Linked
<1>8. ObserverTables' BY <1>4,<1>6 DEF ObserverTables, Linked, Sources, Heard
<1>9. Alarms' BY <1>2,<1>3 DEF OInv, Alarms, Evaluating
<1>10. ASSUME NEW p \in Pages PROVE Joins(p)' /\ SocketOf(p)' /\ \A k \in setting'.keys : QueryOf(p, k)'
 <2>1. \A k \in Keys : <<p, k>> \in Obs!Queries BY DEF Obs!Queries
 <2>2. PublishedRows(p, table) BY <2>1,<1>1,<1>3,<1>4 DEF PublishedRows
 <2>3. PublishedPage(p, table) BY <1>2 DEF PublishedPage
 <2>4. setting' = setting /\ Barring
       /\ \A k \in Keys, by \in Obs!Users : ev'[<<<<p, k>>, by>>].pc # "idle" => ev[<<<<p, k>>, by>>].pc # "idle"
  BY <1>2,<1>3 DEF Barring
 <2> QED BY <2>2,<2>3,<2>4,<1>7, PublishedTo
<1> QED BY <1>7,<1>8,<1>9,<1>10 DEF OInv, PagesTrue, QueriesTrue

LEMMA PrunedIs ==
  ASSUME OInv
  PROVE  LET table == Obs!pruneExpiredQueries(row, Obs!Alive)
         IN /\ Publishable(table) /\ Linked(table, edge)
            /\ \A q \in Obs!Queries : table[q] = IF q \in Obs!Alive THEN row[q] ELSE Obs!NoRow
<1> DEFINE table == Obs!pruneExpiredQueries(row, Obs!Alive)
<1>1. row \in [Obs!Queries -> QueryRow] /\ \A q \in Obs!Queries : row[q] \in QueryRow /\ RowOf(row[q])
 BY DEF OInv, OTypes, TableTypes, ObserverTables
<1>2. \A q \in Obs!Queries : table[q] = IF q \in Obs!Alive THEN row[q] ELSE Obs!NoRow
 BY DEF Obs!pruneExpiredQueries
<1>3. \A q \in Obs!Queries : (IF q \in Obs!Alive THEN row[q] ELSE Obs!NoRow) \in QueryRow BY <1>1, Records
<1>4. table \in [Obs!Queries -> QueryRow] BY <1>3 DEF Obs!pruneExpiredQueries
<1>5. \A q \in Obs!Queries : RowOf(table[q]) /\ table[q].edges \subseteq row[q].edges
 BY <1>1,<1>2, Records DEF Obs!NoRow
<1> HIDE DEF table
<1>6. Linked(table, edge) BY <1>4,<1>5, TablesLinked, LinkedRows DEF OInv, OTypes, TableTypes
<1>7. Publishable(table) BY <1>2,<1>4 DEF Publishable, Obs!NoRow
<1> QED BY <1>2,<1>6,<1>7 DEF table

\* Pages whose lease is over: none of them joins.
LEMMA OverPage ==
  ASSUME OInv, NEW p \in Obs!Over
  PROVE  /\ p \in Pages /\ ~reg[p].on /\ reg[p] = Obs!NoReg /\ page[p].state # "joining"
         /\ \A k \in Keys : ev[<<<<p, k>>, "register">>].pc = "idle"
BY DEF OInv, PagesTrue, Joins, Obs!Over

LEMMA SweptIs ==
  ASSUME OInv
  PROVE  /\ Obs!Swept(page) \in [Pages -> Client]
         /\ \A p \in Pages : p \notin Obs!Over => Obs!Swept(page)[p] = page[p]
         /\ \A p \in Obs!Over : Obs!Swept(page)[p].state \in {"offline", "ended"}
<1>1. page \in [Pages -> Client] BY DEF OInv, OTypes, PageTypes
<1>2. \A p \in Pages : Obs!Swept(page)[p] = IF p \in Obs!Over /\ page[p].state = "live"
                                            THEN [page[p] EXCEPT !.state = "ended"] ELSE page[p] BY DEF Obs!Swept
<1>3. \A p \in Pages : page[p] \in Client /\ [page[p] EXCEPT !.state = "ended"] \in Client
                       /\ [page[p] EXCEPT !.state = "ended"].state = "ended" BY <1>1 DEF Client
<1>4. Obs!Swept(page) \in [Pages -> Client]
 <2>1. \A p \in Pages : (IF p \in Obs!Over /\ page[p].state = "live"
                         THEN [page[p] EXCEPT !.state = "ended"] ELSE page[p]) \in Client BY <1>3
 <2> QED BY <2>1 DEF Obs!Swept
<1>5. \A p \in Obs!Over : p \in Pages /\ page[p].state # "joining" BY OverPage
<1>6. \A p \in Obs!Over : Obs!Swept(page)[p].state \in {"offline", "ended"}
 <2>1. ASSUME NEW p \in Obs!Over PROVE Obs!Swept(page)[p].state \in {"offline", "ended"}
  <3>1. page[p].state \in {"offline", "live", "ended"} BY <1>3,<1>5 DEF Client
  <3> QED BY <3>1,<1>2,<1>3,<1>5
 <2> QED BY <2>1
<1> QED BY <1>2,<1>4,<1>6

LEMMA PublishKeeps ==
  ASSUME OInv, Obs!publishStateQueryStreamUpdates
  PROVE  OInv'
<1> DEFINE table == Obs!pruneExpiredQueries(row, Obs!Alive)
           left == Obs!Without(table, Obs!RowsOf(Obs!Over))
<1>1. /\ Publishable(table) /\ Linked(table, edge)
      /\ \A q \in Obs!Queries : table[q] = IF q \in Obs!Alive THEN row[q] ELSE Obs!NoRow BY PrunedIs
<1>2. /\ observerAlarm.pc = "drain" /\ (\A q \in Obs!Queries : ~Evaluating(q)) /\ observerAlarm' = Obs!NoAlarm
      /\ sub' = [p \in Pages |-> IF p \in Obs!Over THEN Obs!Gone ELSE [sub[p] EXCEPT !.told = Obs!ToldAfter(p, table)]]
      /\ link' = [p \in Pages |-> IF p \in Obs!Over THEN Obs!NoLink ELSE Obs!LinkAfter(p, table)]
      /\ page' = Obs!Swept(page) /\ Obs!Observe(table # row \/ Obs!RowsOf(Obs!Over) # {}, left, edge, Obs!Alive)
      /\ UNCHANGED <<setting, source, bound, grant, seen, ev, reg, late, det, faults, history>>
 BY DEF Obs!publishStateQueryStreamUpdates, Evaluating
<1> HIDE DEF table
<1>3. Linked(left, edge) /\ \A q \in Obs!Queries : left[q] = IF q \in Obs!RowsOf(Obs!Over) THEN Obs!NoRow ELSE table[q]
 BY <1>1, WithoutIs
<1> HIDE DEF left
<1>4. /\ Linked(row', edge') /\ Anchored(row', edge')
      /\ \A q \in Obs!Queries : row'[q] = IF q \in Obs!Alive THEN left[q] ELSE Obs!NoRow
 <2>1. (table # row \/ Obs!RowsOf(Obs!Over) # {}) \/ Anchored(left, edge) BY <1>3, SameEdges DEF OInv
 <2> QED BY <2>1,<1>2,<1>3, ObserveIs
<1>5. \A p \in Pages : /\ [sub[p] EXCEPT !.told = Obs!ToldAfter(p, table)] \in Subscription
                       /\ Obs!LinkAfter(p, table) \in Link BY <1>1, PublishTypes
<1>6. sub' \in [Pages -> Subscription] /\ link' \in [Pages -> Link] /\ page' \in [Pages -> Client]
 BY <1>2,<1>5, SweptIs, Records
<1>7. OutsideTypes' /\ Sources(source') BY <1>2, SourcesNow DEF OInv, OTypes, OutsideTypes
<1>8. OTypes' BY <1>2,<1>4,<1>6,<1>7, Records DEF OInv, OTypes, TableTypes, PageTypes, Linked
<1>9. ObserverTables' BY <1>4,<1>7 DEF ObserverTables, Linked, Sources, Heard
<1>10. Alarms' BY <1>2 DEF Alarms, Evaluating, Obs!NoAlarm
<1>11. ASSUME NEW p \in Pages PROVE Joins(p)' /\ SocketOf(p)' /\ \A k \in setting'.keys : QueryOf(p, k)'
 <2>1. \A k \in Keys : <<p, k>> \in Obs!Queries BY DEF Obs!Queries
 <2>2. CASE p \in Obs!Over
  <3>1. page'[p].state \in {"offline", "ended"} /\ reg'[p] = Obs!NoReg /\ link'[p] = Obs!NoLink
   BY <2>2,<1>2, OverPage, SweptIs
  <3>2. sub'[p].told = Obs!Untold BY <2>2,<1>2 DEF Obs!Gone
  <3>3. \A k \in Keys : ev'[<<<<p, k>>, "register">>].pc = "idle" BY <2>2,<1>2, OverPage
  <3> QED BY <3>1,<3>2,<3>3, AwayPage
 <2>3. CASE p \notin Obs!Over
  <3>1. \A k \in Keys : <<p, k>> \notin Obs!RowsOf(Obs!Over) BY <2>3 DEF Obs!RowsOf
  <3>2. /\ \A k \in Keys : row'[<<p, k>>] = IF <<p, k>> \in Obs!Alive THEN table[<<p, k>>] ELSE Obs!NoRow
        /\ \A k \in Keys : table[<<p, k>>] = IF <<p, k>> \in Obs!Alive THEN row[<<p, k>>] ELSE Obs!NoRow
   BY <2>1,<3>1,<1>1,<1>3,<1>4
  <3>3. \A k \in Keys : RowOf(table[<<p, k>>]) BY <2>1,<1>1 DEF Linked
  <3>4. PublishedRows(p, table)
   <4>1. Obs!NoRow.state = "none" BY DEF Obs!NoRow
   <4>2. ASSUME NEW k \in Keys
         PROVE  /\ table[<<p, k>>].state = "none" => row[<<p, k>>].state = "none" \/ <<p, k>> \notin Obs!Alive
                /\ table[<<p, k>>].state # "none" => table[<<p, k>>] = row[<<p, k>>]
                /\ <<p, k>> \notin Obs!Alive \/ table[<<p, k>>] = row[<<p, k>>] BY <3>2,<4>1
   <4> QED BY <3>2,<3>3,<4>2,<1>1 DEF PublishedRows
  <3>5. PublishedPage(p, table) BY <2>3,<1>2, SweptIs DEF PublishedPage
  <3>6. setting' = setting /\ Barring
        /\ \A k \in Keys, by \in Obs!Users : ev'[<<<<p, k>>, by>>].pc # "idle" => ev[<<<<p, k>>, by>>].pc # "idle"
   BY <1>2 DEF Barring
  <3> QED BY <3>4,<3>5,<3>6,<1>8, PublishedTo
 <2> QED BY <2>2,<2>3
<1> QED BY <1>8,<1>9,<1>10,<1>11 DEF OInv, PagesTrue, QueriesTrue

-----------------------------------------------------------------------------
(* Sockets and leases                                                       *)

\* One page goes away: the rest of the pages and the evaluations stay.
LEMMA OthersKept ==
  ASSUME OInv, OTypes', setting' = setting, Barring, NEW p \in Pages,
         page'[p] = page[p], link'[p] = link[p],
         reg'[p] = reg[p], sub'[p] = sub[p],
         p \in history'.lost <=> p \in history.lost, p \in history'.removed <=> p \in history.removed,
         \A k \in Keys : row'[<<p, k>>] = IF <<p, k>> \in Obs!Alive THEN row[<<p, k>>] ELSE Obs!NoRow,
         \A k \in Keys, by \in Obs!Users : ev'[<<<<p, k>>, by>>].pc # "idle" => ev[<<<<p, k>>, by>>].pc # "idle"
  PROVE  Joins(p)' /\ SocketOf(p)' /\ \A k \in setting'.keys : QueryOf(p, k)'
<1>1. SamePage(p) /\ sub'[p].lease = sub[p].lease BY DEF SamePage
<1> QED BY <1>1, OtherPage

\* Rows of some pages go; no row is denied by that.
LEMMA RowsGo ==
  ASSUME OInv, NEW ps, Obs!removeSubscriptionQueries(ps)
  PROVE  /\ Linked(row', edge') /\ Anchored(row', edge')
         /\ \A q \in Obs!Queries : row'[q].state = "denied" => row[q].state = "denied"
         /\ \A p \in Pages, k \in Keys : p \notin ps =>
              row'[<<p, k>>] = IF <<p, k>> \in Obs!Alive THEN row[<<p, k>>] ELSE Obs!NoRow
<1> DEFINE left == Obs!Without(row, Obs!RowsOf(ps))
<1>1. Linked(left, edge) /\ \A q \in Obs!Queries : left[q] = IF q \in Obs!RowsOf(ps) THEN Obs!NoRow ELSE row[q]
 BY TablesLinked, WithoutIs DEF OInv
<1>2. Obs!Observe(Obs!RowsOf(ps) # {}, left, edge, Obs!Alive) /\ (Obs!RowsOf(ps) # {} \/ Anchored(left, edge))
 BY <1>1, SameEdges DEF OInv, Obs!removeSubscriptionQueries
<1> HIDE DEF left
<1>3. /\ Linked(row', edge') /\ Anchored(row', edge')
      /\ \A q \in Obs!Queries : row'[q] = IF q \in Obs!Alive THEN left[q] ELSE Obs!NoRow BY <1>1,<1>2, ObserveIs
<1>4. \A q \in Obs!Queries : row'[q].state = "denied" => row[q].state = "denied" BY <1>1,<1>3 DEF Obs!NoRow
<1>5. ASSUME NEW p \in Pages, NEW k \in Keys, p \notin ps
      PROVE  row'[<<p, k>>] = IF <<p, k>> \in Obs!Alive THEN row[<<p, k>>] ELSE Obs!NoRow
 <2>1. <<p, k>> \in Obs!Queries /\ <<p, k>> \notin Obs!RowsOf(ps) BY <1>5 DEF Obs!Queries, Obs!RowsOf
 <2> QED BY <2>1,<1>1,<1>3
<1> QED BY <1>3,<1>4,<1>5

\* A page connects when access is over.
LEMMA ConnectRefused ==
  ASSUME OInv, NEW p \in Pages, Obs!connect(p), grant.revoked
  PROVE  OInv'
<1>1. /\ page[p].state = "offline" /\ ~reg[p].on /\ page' = [page EXCEPT ![p].state = "ended"]
      /\ UNCHANGED <<row, edge, ev, sub, reg, link, history>>
      /\ UNCHANGED <<setting, source, bound, grant, seen, observerAlarm, late, det, faults>> BY DEF Obs!connect
<1>2. /\ page' \in [Pages -> Client] /\ page'[p].state = "ended" /\ \A s \in Pages : s # p => page'[s] = page[s]
 BY <1>1 DEF OInv, OTypes, PageTypes, Client
<1>3. OTypes' BY <1>1,<1>2 DEF OInv, OTypes, OutsideTypes, TableTypes, PageTypes
<1>4. ObserverTables' /\ Alarms' BY <1>1 DEF OInv, ObserverTables, Anchored, Alarms, Evaluating
<1>5. ASSUME NEW s \in Pages PROVE Joins(s)' /\ SocketOf(s)' /\ \A n \in setting'.keys : QueryOf(s, n)'
 <2>1. Joins(s) /\ SocketOf(s) /\ \A n \in setting.keys : QueryOf(s, n) BY DEF OInv, PagesTrue, QueriesTrue
 <2>2. CASE s = p
  <3>1. reg'[p] = Obs!NoReg /\ link'[p] = Obs!NoLink /\ \A n \in Keys : ev'[<<<<p, n>>, "register">>].pc = "idle"
   BY <2>1,<2>2,<1>1 DEF Joins, SocketOf
  <3>2. sub'[p].lease = "absent" => sub'[p].told = Obs!Untold BY <2>1,<2>2,<1>1 DEF SocketOf
  <3> QED BY <2>2,<3>1,<3>2,<1>2, AwayPage
 <2>3. CASE s # p
  BY <2>1,<2>3,<1>1,<1>2 DEF Joins, SocketOf, QueryOf, ToldCounted, Gets, Flows, Revives, Present, Served,
     Evaluating
 <2> QED BY <2>2,<2>3
<1> QED BY <1>3,<1>4,<1>5 DEF OInv, PagesTrue, QueriesTrue

\* A page connects: its registration begins, and subscriptions whose lease is over go.
LEMMA ConnectGranted ==
  ASSUME OInv, NEW p \in Pages, Obs!connect(p), ~grant.revoked
  PROVE  OInv'
<1>1. /\ page[p].state = "offline" /\ ~reg[p].on /\ page' = [Obs!Swept(page) EXCEPT ![p].state = "joining"]
      /\ sub' = [s \in Pages |-> IF s = p THEN [lease |-> "fresh", told |-> Obs!Untold]
                                 ELSE IF s \in Obs!Over THEN Obs!Gone ELSE sub[s]]
      /\ link' = [s \in Pages |-> IF s \in Obs!Over \cup {p} THEN Obs!NoLink ELSE link[s]]
      /\ reg' = [reg EXCEPT ![p].on = TRUE]
      /\ history' = [lost |-> history.lost \ {p}, removed |-> history.removed \ {p}]
      /\ Obs!removeSubscriptionQueries(Obs!Over \cup {p})
      /\ UNCHANGED <<setting, source, bound, grant, seen, observerAlarm, late, det, faults>> BY DEF Obs!connect
<1>2. PICK k \in setting.keys : ev' = [ev EXCEPT ![<<<<p, k>>, "register">>] = Obs!Reads(1)] BY DEF Obs!connect
<1>3. k \in Keys /\ OTypes /\ <<p, k>> \in Obs!Queries BY <1>2, QueryFacts DEF OInv
<1>4. Joins(p) /\ SocketOf(p) BY DEF OInv, PagesTrue
<1>5. reg[p] = Obs!NoReg /\ \A n \in Keys : ev[<<<<p, n>>, "register">>].pc = "idle" BY <1>1,<1>4 DEF Joins
<1>6. /\ ev' \in [Obs!Queries \X Obs!Users -> Evaluation]
      /\ \A q \in Obs!Queries, by \in Obs!Users :
           ev'[<<q, by>>] = IF q = <<p, k>> /\ by = "register" THEN Obs!Reads(1) ELSE ev[<<q, by>>]
 <2>1. ev \in [Obs!Queries \X Obs!Users -> Evaluation] /\ Obs!Reads(1) \in Evaluation
  BY <1>3, ReadsIs DEF OTypes, TableTypes
 <2> QED BY <2>1,<1>2,<1>3
<1>7. /\ \A q \in Obs!Queries : ev'[<<q, "alarm">>] = ev[<<q, "alarm">>]
      /\ \A s \in Pages, n \in Keys : s # p => ev'[<<<<s, n>>, "register">>] = ev[<<<<s, n>>, "register">>]
      /\ \A n \in Keys : ev'[<<<<p, n>>, "register">>].pc # "idle" => n = k
 <2>1. \A s \in Pages, n \in Keys : <<s, n>> \in Obs!Queries BY DEF Obs!Queries
 <2>2. \A q \in Obs!Queries : ev'[<<q, "alarm">>] = ev[<<q, "alarm">>] BY <1>6 DEF Obs!Users
 <2>3. \A s \in Pages, n \in Keys : s # p => ev'[<<<<s, n>>, "register">>] = ev[<<<<s, n>>, "register">>]
  BY <2>1,<1>6 DEF Obs!Users
 <2>4. ASSUME NEW n \in Keys, n # k PROVE ev'[<<<<p, n>>, "register">>].pc = "idle"
  <3>1. <<p, n>> # <<p, k>> /\ <<p, n>> \in Obs!Queries BY <2>1,<2>4
  <3>2. ev'[<<<<p, n>>, "register">>] = ev[<<<<p, n>>, "register">>] BY <3>1,<1>6 DEF Obs!Users
  <3> QED BY <3>2,<1>5
 <2> QED BY <2>2,<2>3,<2>4
<1>8. /\ Linked(row', edge') /\ Anchored(row', edge')
      /\ \A q \in Obs!Queries : row'[q].state = "denied" => row[q].state = "denied"
      /\ \A s \in Pages, n \in Keys : s \notin Obs!Over \cup {p} =>
           row'[<<s, n>>] = IF <<s, n>> \in Obs!Alive THEN row[<<s, n>>] ELSE Obs!NoRow BY <1>1, RowsGo
<1>9. /\ page' \in [Pages -> Client] /\ page'[p].state = "joining"
      /\ \A s \in Pages : s # p => page'[s] = Obs!Swept(page)[s] BY <1>1, SweptIs DEF Client
<1>10. /\ reg' \in [Pages -> Registration] /\ reg'[p].on /\ reg'[p].got = <<>>
       /\ \A s \in Pages : s # p => reg'[s] = reg[s]
 <2>1. reg \in [Pages -> Registration] BY <1>3 DEF OTypes, PageTypes
 <2>2. [Obs!NoReg EXCEPT !.on = TRUE] \in Registration BY Records DEF Registration
 <2>3. [Obs!NoReg EXCEPT !.on = TRUE].on = TRUE /\ [Obs!NoReg EXCEPT !.on = TRUE].got = <<>> BY DEF Obs!NoReg
 <2>4. reg' = [reg EXCEPT ![p] = [Obs!NoReg EXCEPT !.on = TRUE]] BY <2>1,<1>1,<1>5
 <2> QED BY <2>1,<2>2,<2>3,<2>4
<1>11. /\ sub' \in [Pages -> Subscription] /\ sub'[p].lease = "fresh" /\ sub'[p].told = Obs!Untold
       /\ \A s \in Pages : s # p => sub'[s] = IF s \in Obs!Over THEN Obs!Gone ELSE sub[s]
 <2>1. [lease |-> "fresh", told |-> Obs!Untold] \in Subscription BY Records DEF Subscription
 <2> QED BY <2>1,<1>1,<1>3, Records DEF OTypes, PageTypes
<1>12. /\ link' \in [Pages -> Link] /\ link'[p] = Obs!NoLink
       /\ \A s \in Pages : s # p => link'[s] = IF s \in Obs!Over THEN Obs!NoLink ELSE link[s]
 BY <1>1,<1>3, Records DEF OTypes, PageTypes
<1>13. history' \in [lost : SUBSET Pages, removed : SUBSET Pages] BY <1>1,<1>3 DEF OTypes, PageTypes
<1>14. OutsideTypes' /\ Sources(source') BY <1>1, SourcesNow DEF OInv, OTypes, OutsideTypes
<1>15. OTypes' BY <1>1,<1>3,<1>6,<1>8,<1>9,<1>10,<1>11,<1>12,<1>13,<1>14 DEF OTypes, TableTypes, PageTypes, Linked
<1>16. ObserverTables' BY <1>8,<1>14 DEF ObserverTables, Linked, Sources, Heard
<1>17. Alarms' BY <1>1,<1>7,<1>8 DEF OInv, Alarms, Evaluating
<1>18. ASSUME NEW s \in Pages PROVE Joins(s)' /\ SocketOf(s)' /\ \A n \in setting'.keys : QueryOf(s, n)'
 <2>1. CASE s = p
  <3>1. Joins(p)' BY <1>7,<1>9,<1>10,<1>11, EmptyResults DEF Joins
  <3>2. SocketOf(p)' BY <1>9,<1>11,<1>12 DEF SocketOf, LinkOf, Obs!NoLink, Obs!NoEvent
  <3>3. ASSUME NEW n \in setting.keys PROVE QueryOf(p, n)'
   <4>1. n \in Keys /\ <<p, n>> \in Obs!Queries BY <1>3, QueryFacts
   <4>2. sub'[p].told[n].seq = 0 /\ row'[<<p, n>>].seq \in Nat
    <5>1. Obs!Untold[n].seq = 0 BY <4>1 DEF Obs!Untold
    <5>2. row'[<<p, n>>] \in QueryRow BY <4>1,<1>8 DEF Linked
    <5> QED BY <5>1,<5>2,<1>11 DEF QueryRow
   <4>3. n \notin DOMAIN reg'[p].got /\ page'[p].state = "joining" BY <1>9,<1>10, EmptyResults
   <4> QED BY <4>2,<4>3 DEF QueryOf, ToldCounted, Gets, Flows, Revives, Served
  <3> QED BY <2>1,<3>1,<3>2,<3>3,<1>1
 <2>2. CASE s # p /\ s \in Obs!Over
  <3>1. page'[s].state \in {"offline", "ended"} /\ reg'[s] = Obs!NoReg /\ link'[s] = Obs!NoLink
   BY <2>2,<1>9,<1>10,<1>12, OverPage, SweptIs
  <3>2. sub'[s].told = Obs!Untold BY <2>2,<1>11 DEF Obs!Gone
  <3>3. \A n \in Keys : ev'[<<<<s, n>>, "register">>].pc = "idle" BY <2>2,<1>7, OverPage
  <3> QED BY <3>1,<3>2,<3>3, AwayPage
 <2>3. CASE s # p /\ s \notin Obs!Over
  <3>1. /\ page'[s] = page[s] /\ reg'[s] = reg[s] /\ link'[s] = link[s] /\ sub'[s] = sub[s]
        /\ s \in history'.lost <=> s \in history.lost
        /\ s \in history'.removed <=> s \in history.removed BY <2>3,<1>1,<1>9,<1>10,<1>11,<1>12, SweptIs
  <3>2. \A n \in Keys, by \in Obs!Users : ev'[<<<<s, n>>, by>>].pc # "idle" => ev[<<<<s, n>>, by>>].pc # "idle"
   <4>1. \A n \in Keys : <<s, n>> \in Obs!Queries BY DEF Obs!Queries
   <4> QED BY <4>1,<2>3,<1>7 DEF Obs!Users
  <3>3. setting' = setting /\ Barring BY <1>1 DEF Barring
  <3> QED BY <2>3,<3>1,<3>2,<3>3,<1>8,<1>15, OthersKept
 <2> QED BY <2>1,<2>2,<2>3
<1> QED BY <1>15,<1>16,<1>17,<1>18 DEF OInv, PagesTrue, QueriesTrue

\* Steps of the alarm and of time: leases and rows may move, the pages stay.
LEMMA PagesKept ==
  ASSUME OInv, OTypes', ObserverTables', Alarms', setting' = setting, Barring,
         UNCHANGED <<page, link, reg, history>>,
         \A p \in Pages : /\ sub'[p].told = sub[p].told /\ (reg[p].on => sub'[p].lease = "fresh")
                          /\ sub'[p].lease = "absent" => sub[p].lease = "absent",

                 \A p \in Pages, k \in Keys : ev'[<<<<p, k>>, "register">>].pc # "idle" => ev[<<<<p, k>>, "register">>].pc # "idle",
         \A q \in Obs!Queries : RowMoves(q) /\ EvaluationMoves(q)
  PROVE  OInv'
<1>1. ASSUME NEW p \in Pages PROVE Joins(p)' /\ SocketOf(p)' /\ \A k \in setting'.keys : QueryOf(p, k)'
 <2>1. SamePage(p) BY DEF SamePage
 <2>2. \A k \in setting.keys : RowMoves(<<p, k>>) /\ EvaluationMoves(<<p, k>>) BY QueryFacts DEF OInv
 <2> QED BY <2>1,<2>2, PageKept DEF Barring
<1> QED BY <1>1 DEF OInv, PagesTrue, QueriesTrue

\* Time passes on one subscription.
LEMMA ExpiresKeeps ==
  ASSUME OInv, NEW p \in Pages, NEW then \in {"due", "over"}, ~reg[p].on,
         sub[p].lease \in {"fresh", "due"},
         Obs!Expires(p, then), faults' \in [losses : Nat, delays : Nat],
         UNCHANGED <<setting, source, bound, grant, row, edge, seen, ev, observerAlarm, reg, link,
                     page, late, det, history>>
  PROVE  OInv'
<1> DEFINE new == [sub EXCEPT ![p].lease = then]
<1>1. /\ new \in [Pages -> Subscription] /\ new[p].lease = then
      /\ \A s \in Pages : new[s].told = sub[s].told /\ (s # p => new[s] = sub[s])
 <2>1. sub \in [Pages -> Subscription] /\ then \in {"absent", "fresh", "due", "over"}
  BY DEF OInv, OTypes, PageTypes
 <2> QED BY <2>1 DEF Subscription
<1>2. sub' = new BY DEF Obs!Expires
<1> HIDE DEF new
<1>3. OTypes' BY <1>1,<1>2 DEF OInv, OTypes, OutsideTypes, TableTypes, PageTypes
<1>4. ObserverTables' /\ Alarms' /\ Barring BY DEF OInv, ObserverTables, Alarms, Evaluating, Barring
<1>5. \A s \in Pages : /\ sub'[s].told = sub[s].told /\ (reg[s].on => sub'[s].lease = "fresh")
                       /\ sub'[s].lease = "absent" => sub[s].lease = "absent"
 BY <1>1,<1>2 DEF OInv, PagesTrue, Joins
<1>6. ASSUME NEW q \in Obs!Queries PROVE RowMoves(q) /\ EvaluationMoves(q)
 <2>1. q[1] \in Pages BY DEF Obs!Queries
 <2>2. sub[q[1]].lease = "over" => sub'[q[1]].lease = "over" BY <2>1,<1>1,<1>2
 <2> QED BY <2>2, SameRow DEF OInv, EvaluationMoves, Evaluating
<1> QED BY <1>3,<1>4,<1>5,<1>6, PagesKept

LEMMA LeaseAgesKeeps ==
  ASSUME OInv, NEW p \in Pages, Obs!LeaseAges(p) \/ Obs!AlarmComesLate(p)
  PROVE  OInv'
<1>1. faults' \in [losses : Nat, delays : Nat]
 BY DEF OInv, OTypes, OutsideTypes, Obs!LeaseAges, Obs!AlarmComesLate
<1>2. ~reg[p].on /\ sub[p].lease \in {"fresh", "due"} /\ (Obs!Expires(p, "due") \/ Obs!Expires(p, "over"))
 BY DEF Obs!LeaseAges, Obs!AlarmComesLate
<1>3. UNCHANGED <<setting, source, bound, grant, row, edge, seen, ev, observerAlarm, reg, link, page, late, det, history>>
 BY DEF Obs!LeaseAges, Obs!AlarmComesLate
<1> QED BY <1>1,<1>2,<1>3, ExpiresKeeps

LEMMA AlarmFiresKeeps == ASSUME OInv, Obs!alarmFires PROVE OInv'
<1>1. /\ observerAlarm.pc = "idle"
      /\ observerAlarm' = [Obs!NoAlarm EXCEPT !.pc = "renew", !.todo = UNION {Obs!Listed(p) : p \in Obs!NeedsRenewal}]
      /\ sub' = [p \in Pages |-> IF p \in Obs!NeedsRenewal /\ Obs!Listed(p) = {}
                                 THEN [sub[p] EXCEPT !.lease = "fresh"] ELSE sub[p]]
      /\ UNCHANGED <<setting, source, bound, grant, row, edge, seen, ev, reg, link, page, late, det,
                     faults, history>> BY DEF Obs!alarmFires
<1>2. observerAlarm' \in Alarm /\ observerAlarm'.pc = "renew"
 <2>1. UNION {Obs!Listed(p) : p \in Obs!NeedsRenewal} \subseteq Obs!Queries
  <3>1. setting.keys \subseteq Keys BY Constants DEF OInv, OTypes, OutsideTypes
  <3> QED BY <3>1 DEF Obs!Listed, Obs!Mine, Obs!NeedsRenewal, Obs!Queries
 <2> DEFINE todo == UNION {Obs!Listed(p) : p \in Obs!NeedsRenewal}
 <2>2. observerAlarm' = [Obs!NoAlarm EXCEPT !.pc = "renew", !.todo = todo] BY <1>1
 <2>3. todo \in SUBSET Obs!Queries BY <2>1
 <2> HIDE DEF todo
 <2> QED BY <2>2,<2>3, Records DEF Alarm
<1>3. \A p \in Pages : sub[p] \in Subscription /\ [sub[p] EXCEPT !.lease = "fresh"] \in Subscription
                       /\ [sub[p] EXCEPT !.lease = "fresh"].told = sub[p].told
                       /\ [sub[p] EXCEPT !.lease = "fresh"].lease = "fresh"
 BY DEF OInv, OTypes, PageTypes, Subscription
<1>4. /\ sub' \in [Pages -> Subscription]
      /\ \A p \in Pages : /\ sub'[p].told = sub[p].told
                          /\ sub'[p].lease = "fresh" \/ sub'[p].lease = sub[p].lease BY <1>1,<1>3
<1>5. OTypes' BY <1>1,<1>2,<1>4 DEF OInv, OTypes, OutsideTypes, TableTypes, PageTypes
<1>6. \A q \in Obs!Queries : ~Evaluating(q) BY <1>1 DEF OInv, Alarms
<1>7. ObserverTables' /\ Alarms' /\ Barring
 BY <1>1,<1>2,<1>6 DEF OInv, ObserverTables, Alarms, Evaluating, Barring
<1>8. \A q \in Obs!Queries : RowMoves(q) /\ EvaluationMoves(q)
 BY <1>1,<1>6, SameRow DEF OInv, EvaluationMoves, Evaluating
<1>9. \A p \in Pages : /\ sub'[p].told = sub[p].told /\ (reg[p].on => sub'[p].lease = "fresh")
                       /\ sub'[p].lease = "absent" => sub[p].lease = "absent" BY <1>4 DEF OInv, PagesTrue, Joins
<1> QED BY <1>1,<1>5,<1>7,<1>8,<1>9, PagesKept

LEMMA RenewalFailsKeeps ==
  ASSUME OInv, NEW q \in Obs!Queries, Obs!renewalFails(q)
  PROVE  OInv'
<1>1. /\ observerAlarm.pc = "renew" /\ observerAlarm' = [observerAlarm EXCEPT !.todo = @ \ Obs!Mine(q[1])]
      /\ UNCHANGED <<setting, source, bound, grant, row, edge, seen, ev, sub, reg, link, page, late,
                     det, history>> BY DEF Obs!renewalFails
<1>2. faults' \in [losses : Nat, delays : Nat] BY FaultIs DEF OInv, OTypes, OutsideTypes, Obs!renewalFails
<1>3. observerAlarm' \in Alarm /\ observerAlarm'.pc = observerAlarm.pc /\ observerAlarm'.done = observerAlarm.done
 BY <1>1 DEF OInv, OTypes, TableTypes, Alarm
<1>4. OTypes' BY <1>1,<1>2,<1>3 DEF OInv, OTypes, OutsideTypes, TableTypes, PageTypes
<1>5. ObserverTables' /\ Alarms' /\ Barring BY <1>1,<1>3 DEF OInv, ObserverTables, Alarms, Evaluating, Barring
<1>6. \A s \in Obs!Queries : RowMoves(s) /\ EvaluationMoves(s)
 BY <1>1, SameRow DEF OInv, EvaluationMoves, Evaluating
<1>7. \A p \in Pages : reg[p].on => sub'[p].lease = "fresh" BY <1>1 DEF OInv, PagesTrue, Joins
<1> QED BY <1>1,<1>4,<1>5,<1>6,<1>7, PagesKept

LEMMA RenewKeeps ==
  ASSUME OInv, NEW q \in Obs!Queries, Obs!renewLiveStateQuery(q)
  PROVE  OInv'
<1> DEFINE es == {e \in row[q].edges : edge[e].state = "active"}
           table == IF Obs!Mismatched(es) THEN [row EXCEPT ![q].pending = TRUE] ELSE row
           p == q[1]
<1>1. /\ observerAlarm.pc = "renew" /\ row[q].state = "active"
      /\ source' = [e \in Obs!Edges |-> [source[e] EXCEPT !.watch = @ \/ e \in es]]
      /\ observerAlarm' = [observerAlarm EXCEPT !.todo = @ \ {q}, !.done = @ \cup {q}]
      /\ sub' = [sub EXCEPT ![p].lease = "fresh"] \/ sub' = sub
      /\ Obs!Observe(FALSE, table, edge, Obs!Alive \cup {q})
      /\ UNCHANGED <<setting, bound, grant, seen, ev, reg, link, page, late, det, faults, history>>
 BY DEF Obs!renewLiveStateQuery
<1>2. PendingOnly(table)
 <2>1. row \in [Obs!Queries -> QueryRow] /\ \A s \in Obs!Queries : row[s] \in QueryRow /\ RowOf(row[s])
  BY DEF OInv, OTypes, TableTypes, ObserverTables
 <2>2. [row[q] EXCEPT !.pending = TRUE] = Obs!retryQuery(row[q]) /\ Obs!retryQuery(row[q]) \in QueryRow
  BY <2>1,<1>1, RetryIs
 <2>3. table = row \/ table = [row EXCEPT ![q] = Obs!retryQuery(row[q])] BY <2>2
 <2> HIDE DEF table
 <2> QED BY <2>1,<2>2,<2>3 DEF PendingOnly
<1> HIDE DEF es, table
<1>3. Fewer BY <1>1 DEF Fewer
<1>4. Linked(table, edge) /\ Anchored(table, edge) BY <1>2,<1>3, PendingMoves DEF OInv
<1>5. /\ Linked(row', edge') /\ Anchored(row', edge')
      /\ \A s \in Obs!Queries : row'[s] = IF s \in Obs!Alive \cup {q} THEN table[s] ELSE Obs!NoRow
 BY <1>1,<1>4, ObserveIs
<1>6. Sources(source')
 <2>1. \A e \in Obs!Edges : source[e] \in Source /\ Heard(source[e]) BY SourcesNow DEF OInv, Sources
 <2>2. ASSUME NEW e \in Obs!Edges PROVE source'[e] \in Source /\ Heard(source'[e])
  <3>1. source[e] \in Source /\ Heard(source[e]) BY <2>1
  <3>2. PICK b \in BOOLEAN : b = (source[e].watch \/ e \in es) OBVIOUS
  <3>3. source'[e] = [source[e] EXCEPT !.watch = source[e].watch \/ e \in es] BY <1>1
  <3>4. source'[e] = [source[e] EXCEPT !.watch = b] BY <3>2,<3>3, Zenon
  <3>5. /\ [source[e] EXCEPT !.watch = b] \in Source /\ [source[e] EXCEPT !.watch = b].watch = b
        /\ [source[e] EXCEPT !.watch = b].out = source[e].out BY <3>1 DEF Source
  <3>6. source[e].watch => b BY <3>2
  <3> QED BY <3>1,<3>4,<3>5,<3>6 DEF Heard
 <2>3. source' = [e \in Obs!Edges |-> source'[e]] BY <1>1
 <2>4. source' \in [Obs!Edges -> Source] BY <2>2,<2>3
 <2> QED BY <2>2,<2>4 DEF Sources
<1>7. observerAlarm' \in Alarm /\ observerAlarm'.pc = "renew"
 <2>1. observerAlarm \in Alarm BY DEF OInv, OTypes, TableTypes
 <2> QED BY <2>1,<1>1 DEF Alarm
<1>8. p \in Pages BY DEF Obs!Queries
<1> HIDE DEF p
<1>9. /\ sub' \in [Pages -> Subscription]
      /\ \A s \in Pages : /\ sub'[s].told = sub[s].told
                          /\ sub'[s].lease = "fresh" \/ sub'[s].lease = sub[s].lease
 <2>1. sub \in [Pages -> Subscription] BY DEF OInv, OTypes, PageTypes
 <2>2. CASE sub' = sub BY <2>1,<2>2
 <2>3. CASE sub' = [sub EXCEPT ![p].lease = "fresh"] BY <2>1,<2>3,<1>8 DEF Subscription
 <2> QED BY <2>2,<2>3,<1>1
<1>10. OTypes' BY <1>1,<1>5,<1>6,<1>7,<1>9 DEF OInv, OTypes, OutsideTypes, TableTypes, PageTypes, Linked, Sources
<1>11. ObserverTables' BY <1>5,<1>6 DEF ObserverTables, Linked, Sources, Heard
<1>12. \A s \in Obs!Queries : ~Evaluating(s) BY <1>1 DEF OInv, Alarms
<1>13. Alarms' /\ Barring BY <1>1,<1>7,<1>12 DEF Alarms, Evaluating, Barring
<1>14. ASSUME NEW s \in Obs!Queries PROVE RowMoves(s) /\ EvaluationMoves(s)
 <2>1. row[s] \in QueryRow /\ RowOf(row[s]) /\ table[s] \in {row[s], Obs!retryQuery(row[s])}
  BY <1>2 DEF PendingOnly, OInv, OTypes, TableTypes, ObserverTables
 <2>2. table[s].state = row[s].state /\ table[s].seq = row[s].seq /\ table[s].val = row[s].val BY <2>1, RetryIs
 <2>3. row[s].seq \in Nat BY <2>1 DEF QueryRow
 <2>4. RowMoves(s)
  <3>1. CASE s \in Obs!Alive \cup {q}
   <4>1. row'[s] = table[s] BY <3>1,<1>5
   <4> QED BY <4>1,<2>2,<2>3 DEF RowMoves
  <3>2. CASE s \notin Obs!Alive \cup {q} BY <3>2,<1>5 DEF RowMoves, Obs!NoRow
  <3> QED BY <3>1,<3>2
 <2> QED BY <2>4,<1>1,<1>12 DEF EvaluationMoves, Evaluating
<1>15. \A s \in Pages : /\ sub'[s].told = sub[s].told /\ (reg[s].on => sub'[s].lease = "fresh")
                        /\ sub'[s].lease = "absent" => sub[s].lease = "absent" BY <1>9 DEF OInv, PagesTrue, Joins
<1> QED BY <1>1,<1>10,<1>11,<1>13,<1>14,<1>15, PagesKept

LEMMA ClaimKeeps == ASSUME OInv, Obs!claimDueQueries PROVE OInv'
<1> DEFINE due == Obs!Pending \cap Obs!Alive
<1>1. /\ observerAlarm.pc = "renew" /\ Obs!Observe(FALSE, row, edge, Obs!Alive)
      /\ observerAlarm' = [observerAlarm EXCEPT !.pc = "drain", !.done = {}]
      /\ ev' = [c \in Obs!Queries \X Obs!Users |-> IF c[2] = "alarm" /\ c[1] \in due THEN Obs!Reads(1) ELSE ev[c]]
      /\ UNCHANGED <<setting, source, bound, grant, seen, sub, reg, link, page, late, det, faults,
                     history>> BY DEF Obs!claimDueQueries
<1> HIDE DEF due
<1>2. /\ Linked(row', edge') /\ Anchored(row', edge')
      /\ \A q \in Obs!Queries : row'[q] = IF q \in Obs!Alive THEN row[q] ELSE Obs!NoRow
 BY <1>1, TablesLinked, ObserveIs DEF OInv, ObserverTables
<1>3. /\ ev' \in [Obs!Queries \X Obs!Users -> Evaluation]
      /\ \A q \in Obs!Queries : ev'[<<q, "register">>] = ev[<<q, "register">>]
      /\ \A q \in Obs!Queries : ev'[<<q, "alarm">>] = IF q \in due THEN Obs!Reads(1) ELSE ev[<<q, "alarm">>]
 <2>1. \A c \in Obs!Queries \X Obs!Users : ev[c] \in Evaluation BY DEF OInv, OTypes, TableTypes
 <2>2. ev' \in [Obs!Queries \X Obs!Users -> Evaluation] BY <2>1,<1>1, ReadsIs
 <2> QED BY <2>2,<1>1 DEF Obs!Users
<1>4. \A q \in Obs!Queries : ~Evaluating(q) BY <1>1 DEF OInv, Alarms
<1>5. ASSUME NEW q \in Obs!Queries, Evaluating(q)' PROVE row'[q].state = "active"
 <2>1. q \in due BY <1>3,<1>4,<1>5 DEF Evaluating
 <2> QED BY <2>1,<1>2 DEF due, Obs!Pending
<1>6. observerAlarm' \in Alarm /\ observerAlarm'.pc = "drain" /\ observerAlarm'.done = {}
 BY <1>1 DEF OInv, OTypes, TableTypes, Alarm
<1>7. OutsideTypes' /\ Sources(source') BY <1>1, SourcesNow DEF OInv, OTypes, OutsideTypes
<1>8. OTypes' BY <1>1,<1>2,<1>3,<1>6,<1>7 DEF OInv, OTypes, TableTypes, PageTypes, Linked
<1>9. ObserverTables' BY <1>2,<1>7 DEF ObserverTables, Linked, Sources, Heard
<1>10. Alarms' BY <1>5,<1>6 DEF Alarms
<1>11. ASSUME NEW q \in Obs!Queries PROVE RowMoves(q) /\ EvaluationMoves(q)
 <2>1. RowMoves(q)
  <3>1. CASE q \in Obs!Alive BY <3>1,<1>2, SameRow DEF OInv
  <3>2. CASE q \notin Obs!Alive BY <3>2,<1>2 DEF RowMoves, Obs!NoRow
  <3> QED BY <3>1,<3>2
 <2> QED BY <2>1,<1>1,<1>5 DEF EvaluationMoves
<1>12. \A p \in Pages, k \in Keys : ev'[<<<<p, k>>, "register">>].pc # "idle" => ev[<<<<p, k>>, "register">>].pc # "idle"
 <2>1. \A p \in Pages, k \in Keys : <<p, k>> \in Obs!Queries BY DEF Obs!Queries
 <2> QED BY <2>1,<1>3
<1>13. (\A p \in Pages : reg[p].on => sub'[p].lease = "fresh") /\ Barring
 BY <1>1 DEF OInv, PagesTrue, Joins, Barring
<1> QED BY <1>1,<1>8,<1>9,<1>10,<1>11,<1>12,<1>13, PagesKept

-----------------------------------------------------------------------------
(* Pages and their sockets                                                  *)

\* A page of which nothing changes.
LEMMA StillPage ==
  ASSUME OInv, NEW s \in Pages, page'[s] = page[s], link'[s] = link[s],
         UNCHANGED <<setting, grant, row, ev, sub, reg, history>>
  PROVE  Joins(s)' /\ SocketOf(s)' /\ \A n \in setting'.keys : QueryOf(s, n)'
<1>1. Joins(s) /\ SocketOf(s) /\ \A n \in setting.keys : QueryOf(s, n) BY DEF OInv, PagesTrue, QueriesTrue
<1> QED BY <1>1
           DEF Joins, SocketOf, QueryOf, ToldCounted, Gets, Flows, Revives, Present, Served, Evaluating

\* A live page has registered.
LEMMA LivePage ==
  ASSUME OInv, NEW p \in Pages, page[p].state = "live"
  PROVE  /\ reg[p] = Obs!NoReg /\ sub[p].lease # "absent" /\ LinkOf(link[p])
         /\ \A n \in Keys : ev[<<<<p, n>>, "register">>].pc = "idle"
BY DEF OInv, PagesTrue, Joins, SocketOf

\* A page with an event in flight is live.
LEMMA LinkedPage ==
  ASSUME OInv, NEW p \in Pages, link[p] # Obs!NoLink
  PROVE  page[p].state = "live"
BY DEF OInv, PagesTrue, SocketOf

\* One page goes away by itself: the tables stay.
LEMMA PageLeaves ==
  ASSUME OInv, NEW p \in Pages, page[p].state = "live", NEW then \in {"offline", "ended"},
         Obs!Showing(p, then, Obs!Blank),
         link' = [link EXCEPT ![p] = Obs!NoLink], late' \subseteq Pages,
         faults' \in [losses : Nat, delays : Nat],
         UNCHANGED <<setting, source, bound, grant, row, edge, seen, ev, observerAlarm, sub, reg, det,
                     history>>
  PROVE  OInv'
<1> DEFINE client == [state |-> then, shown |-> Obs!Blank]
<1>1. client \in Client /\ client.state = then BY Records DEF Client
<1>2. page' = [page EXCEPT ![p] = client] BY DEF Obs!Showing
<1> HIDE DEF client
<1>3. /\ page' \in [Pages -> Client] /\ page'[p] = client /\ \A s \in Pages : s # p => page'[s] = page[s]
      /\ link' \in [Pages -> Link] /\ link'[p] = Obs!NoLink /\ \A s \in Pages : s # p => link'[s] = link[s]
 BY <1>1,<1>2, Records DEF OInv, OTypes, PageTypes
<1>4. OTypes' BY <1>3 DEF OInv, OTypes, OutsideTypes, TableTypes, PageTypes
<1>5. ObserverTables' /\ Alarms' BY DEF OInv, ObserverTables, Alarms, Evaluating
<1>6. ASSUME NEW s \in Pages PROVE Joins(s)' /\ SocketOf(s)' /\ \A n \in setting'.keys : QueryOf(s, n)'
 <2>1. CASE s = p
  <3>1. reg'[p] = Obs!NoReg /\ sub'[p].lease # "absent" /\ \A n \in Keys : ev'[<<<<p, n>>, "register">>].pc = "idle"
   BY LivePage
  <3> QED BY <2>1,<3>1,<1>1,<1>3, AwayPage
 <2>2. CASE s # p BY <2>2,<1>3, StillPage
 <2> QED BY <2>1,<2>2
<1> QED BY <1>4,<1>5,<1>6 DEF OInv, PagesTrue, QueriesTrue

LEMMA CloseKeeps == ASSUME OInv, NEW p \in Pages, Obs!onClose(p) PROVE OInv'
<1>1. /\ page[p].state = "live" /\ Obs!Showing(p, "offline", Obs!Blank)
      /\ link' = [link EXCEPT ![p] = Obs!NoLink] /\ late' = late \cup {p}
      /\ UNCHANGED <<setting, source, bound, grant, row, edge, seen, ev, observerAlarm, sub, reg, det,
                     history>> BY DEF Obs!onClose
<1>2. faults' \in [losses : Nat, delays : Nat] BY FaultIs DEF OInv, Obs!onClose
<1>3. late' \subseteq Pages BY <1>1 DEF OInv, OTypes, PageTypes
<1> QED BY <1>1,<1>2,<1>3, PageLeaves

LEMMA PruneKeeps ==
  ASSUME OInv, NEW p \in Pages, Obs!pruneHistory(p)
  PROVE  OInv'
<1> DEFINE m == [link[p] EXCEPT !.backlog = Obs!NoEvent, !.gap = TRUE]
<1>1. /\ link[p].backlog.kind # "none" /\ link' = [link EXCEPT ![p].backlog = Obs!NoEvent, ![p].gap = TRUE]
      /\ UNCHANGED <<setting, source, bound, grant, row, edge, seen, ev, observerAlarm, sub, reg, page,
                     late, det, faults, history>> BY DEF Obs!pruneHistory
<1>2. m \in Link /\ m.flight = link[p].flight /\ m.backlog = Obs!NoEvent /\ m.gap
 <2>1. link[p] \in Link /\ Obs!NoEvent \in Event BY Records DEF OInv, OTypes, PageTypes
 <2> QED BY <2>1 DEF Link
<1>3. link' = [link EXCEPT ![p] = m]
 <2>1. link \in [Pages -> Link] BY DEF OInv, OTypes, PageTypes
 <2> QED BY <2>1,<1>1
<1> HIDE DEF m
<1>4. link' \in [Pages -> Link] /\ link'[p] = m /\ \A s \in Pages : s # p => link'[s] = link[s]
 BY <1>2,<1>3 DEF OInv, OTypes, PageTypes
<1>5. OTypes' BY <1>1,<1>4 DEF OInv, OTypes, OutsideTypes, TableTypes, PageTypes
<1>6. ObserverTables' /\ Alarms' BY <1>1 DEF OInv, ObserverTables, Alarms, Evaluating
<1>7. link[p] # Obs!NoLink /\ Obs!NoEvent.kind = "none" BY <1>1 DEF Obs!NoLink, Obs!NoEvent
<1>8. link[p].flight.kind # "none" /\ page[p].state = "live" BY <1>7, LinkedPage, LivePage DEF LinkOf
<1>9. Joins(p)' /\ SocketOf(p)' BY <1>1,<1>2,<1>4,<1>7,<1>8 DEF OInv, PagesTrue, Joins, SocketOf, LinkOf
<1>10. ASSUME NEW k \in setting'.keys PROVE QueryOf(p, k)'
 <2>1. QueryOf(p, k) BY <1>1 DEF OInv, QueriesTrue
 <2>2. ToldCounted(p, k)' /\ Gets(p, k)' BY <2>1,<1>1 DEF QueryOf, ToldCounted, Gets, Present, Evaluating
 <2>3. Revives(p, k)' BY <1>2,<1>4 DEF Revives
 <2>4. Flows(p, k)'
  <3>1. \A shown : InHand(link'[p], k, shown) = InHand(link[p], k, shown) BY <1>2,<1>4 DEF InHand
  <3> QED BY <2>1,<3>1,<1>1,<1>2,<1>4 DEF QueryOf, Flows, Served, FlowOf
 <2> QED BY <2>2,<2>3,<2>4 DEF QueryOf
<1>11. ASSUME NEW s \in Pages PROVE Joins(s)' /\ SocketOf(s)' /\ \A n \in setting'.keys : QueryOf(s, n)'
 BY <1>1,<1>4,<1>9,<1>10, StillPage
<1> QED BY <1>5,<1>6,<1>11 DEF OInv, PagesTrue, QueriesTrue

\* The observer handles the close of a socket.
LEMMA SocketClosedKeeps ==
  ASSUME OInv, NEW p \in Pages, Obs!webSocketClose(p)
  PROVE  OInv'
<1>1. /\ late' = late \ {p} /\ Obs!closeStateQueryStream(p)
      /\ UNCHANGED <<setting, source, bound, grant, seen, ev, observerAlarm, reg, link, page, det,
                     faults>> BY DEF Obs!webSocketClose
<1>2. CASE page[p].state = "live"
 <2>1. UNCHANGED <<row, edge, sub, history>> BY <1>1,<1>2 DEF Obs!closeStateQueryStream
 <2>2. OTypes' BY <2>1,<1>1 DEF OInv, OTypes, OutsideTypes, TableTypes, PageTypes
 <2>3. ObserverTables' /\ Barring /\ Fewer BY <2>1,<1>1 DEF OInv, ObserverTables, Anchored, Barring, Fewer
 <2> QED BY <2>1,<2>2,<2>3,<1>1, Untouched
<1>3. CASE page[p].state # "live"
 <2>1. /\ Obs!removeSubscriptionQueries({p}) /\ sub' = [sub EXCEPT ![p].told = Obs!Untold]
       /\ history' = IF ~reg[p].on THEN history ELSE [history EXCEPT !.removed = @ \cup {p}]
  BY <1>1,<1>3 DEF Obs!closeStateQueryStream
 <2>2. /\ Linked(row', edge') /\ Anchored(row', edge')
       /\ \A q \in Obs!Queries : row'[q].state = "denied" => row[q].state = "denied"
       /\ \A s \in Pages, n \in Keys : s # p =>
            row'[<<s, n>>] = IF <<s, n>> \in Obs!Alive THEN row[<<s, n>>] ELSE Obs!NoRow BY <2>1, RowsGo
 <2>3. /\ sub' \in [Pages -> Subscription] /\ sub'[p].told = Obs!Untold /\ sub'[p].lease = sub[p].lease
       /\ \A s \in Pages : s # p => sub'[s] = sub[s]
  <3>1. sub \in [Pages -> Subscription] /\ Obs!Untold \in Telling BY Records DEF OInv, OTypes, PageTypes
  <3> HIDE DEF Obs!Untold
  <3> QED BY <2>1,<3>1 DEF Subscription
 <2>4. /\ history' \in [lost : SUBSET Pages, removed : SUBSET Pages]
       /\ \A s \in Pages : s # p => (s \in history'.lost <=> s \in history.lost)
                                    /\ (s \in history'.removed <=> s \in history.removed)
       /\ reg[p].on => p \in history'.removed BY <2>1 DEF OInv, OTypes, PageTypes
 <2>5. OutsideTypes' /\ Sources(source') BY <1>1, SourcesNow DEF OInv, OTypes, OutsideTypes
 <2>6. late' \subseteq Pages /\ ev' \in [Obs!Queries \X Obs!Users -> Evaluation] /\ observerAlarm' \in Alarm
  BY <1>1 DEF OInv, OTypes, TableTypes, PageTypes
 <2>7. OTypes' BY <2>2,<2>3,<2>4,<2>5,<2>6,<1>1 DEF OInv, OTypes, TableTypes, PageTypes, Linked
 <2>8. ObserverTables' BY <2>2,<2>5 DEF ObserverTables, Linked, Sources, Heard
 <2>9. Alarms' BY <2>2,<1>1, AlarmsStay DEF OInv, Evaluating
 <2>10. Joins(p) /\ SocketOf(p) BY DEF OInv, PagesTrue
 <2>11. Joins(p)' /\ SocketOf(p)' /\ \A n \in setting'.keys : QueryOf(p, n)'
  <3>1. CASE reg[p].on
   <4>1. Joins(p)' /\ SocketOf(p)' BY <2>3,<2>10,<1>1 DEF Joins, SocketOf
   <4>2. \A n \in setting'.keys : QueryOf(p, n)'
    BY <3>1,<2>4,<1>1,<1>3 DEF QueryOf, ToldCounted, Gets, Flows, Revives, Present, Served
   <4> QED BY <4>1,<4>2
  <3>2. CASE ~reg[p].on
   <4>1. page[p] \in Client BY DEF OInv, OTypes, PageTypes
   <4>2. page'[p].state \in {"offline", "ended"} /\ reg'[p] = Obs!NoReg /\ link'[p] = Obs!NoLink
    BY <4>1,<3>2,<2>10,<1>1,<1>3 DEF Joins, SocketOf, Client
   <4>3. \A n \in Keys : ev'[<<<<p, n>>, "register">>].pc = "idle" BY <3>2,<2>10,<1>1 DEF Joins
   <4> QED BY <4>2,<4>3,<2>3, AwayPage
  <3> QED BY <3>1,<3>2
 <2>12. ASSUME NEW s \in Pages, s # p PROVE Joins(s)' /\ SocketOf(s)' /\ \A n \in setting'.keys : QueryOf(s, n)'
  <3>1. Barring BY <1>1 DEF Barring
  <3> QED BY <2>12,<3>1,<2>2,<2>3,<2>4,<2>7,<1>1, OthersKept
 <2> QED BY <2>7,<2>8,<2>9,<2>11,<2>12 DEF OInv, PagesTrue, QueriesTrue
<1> QED BY <1>2,<1>3

\* The observer is evicted: no handler and no socket is left.
LEMMA RestartKeeps == ASSUME OInv, Obs!Restart PROVE OInv'
<1>1. /\ Obs!Fault /\ observerAlarm' = Obs!NoAlarm /\ det' = [e \in Obs!Edges |-> Obs!NoDetach] /\ late' = {}
      /\ ev' = [c \in Obs!Queries \X Obs!Users |-> Obs!NoEval]
      /\ reg' = [p \in Pages |-> Obs!NoReg] /\ link' = [p \in Pages |-> Obs!NoLink]
      /\ page' = [p \in Pages |-> IF page[p].state \in {"live", "joining"}
                                  THEN [state |-> "offline", shown |-> Obs!Blank] ELSE page[p]]
      /\ UNCHANGED <<setting, source, bound, grant, row, edge, seen, sub, history>> BY DEF Obs!Restart
<1>2. faults' \in [losses : Nat, delays : Nat] BY <1>1, FaultIs DEF OInv
<1>3. /\ page' \in [Pages -> Client] /\ \A p \in Pages : page'[p].state \in {"offline", "ended"}
 <2>1. \A p \in Pages : page[p] \in Client BY DEF OInv, OTypes, PageTypes
 <2>2. [state |-> "offline", shown |-> Obs!Blank] \in Client BY Records DEF Client
 <2> DEFINE client == [state |-> "offline", shown |-> Obs!Blank]
 <2>3. client \in Client /\ client.state = "offline" BY <2>2
 <2>4. page' = [p \in Pages |-> IF page[p].state \in {"live", "joining"} THEN client ELSE page[p]] BY <1>1
 <2> HIDE DEF client
 <2>5. page' \in [Pages -> Client] BY <2>1,<2>3,<2>4
 <2>6. ASSUME NEW p \in Pages PROVE page'[p].state \in {"offline", "ended"}
  <3>1. page[p].state \in {"offline", "joining", "live", "ended"} BY <2>1 DEF Client
  <3> QED BY <3>1,<2>3,<2>4
 <2> QED BY <2>5,<2>6
<1>4. ev' \in [Obs!Queries \X Obs!Users -> Evaluation] /\ \A q \in Obs!Queries, by \in Obs!Users : ev'[<<q, by>>].pc = "idle"
 <2>1. Obs!NoEval \in Evaluation /\ Obs!NoEval.pc = "idle" BY Records DEF Obs!NoEval
 <2> HIDE DEF Obs!NoEval
 <2> QED BY <2>1,<1>1
<1>5. reg' \in [Pages -> Registration] /\ link' \in [Pages -> Link] BY <1>1, Records
<1>6. observerAlarm' \in Alarm /\ observerAlarm'.done = {} BY <1>1, Records DEF Obs!NoAlarm
<1>7. OTypes' BY <1>1,<1>2,<1>3,<1>4,<1>5,<1>6, NoDetachIs DEF OInv, OTypes, OutsideTypes, TableTypes, PageTypes
<1>8. ObserverTables' BY <1>1 DEF OInv, ObserverTables, Anchored
<1>9. Alarms' BY <1>4,<1>6 DEF Alarms, Evaluating, Obs!Users
<1>10. ASSUME NEW p \in Pages PROVE Joins(p)' /\ SocketOf(p)' /\ \A n \in setting'.keys : QueryOf(p, n)'
 <2>1. reg'[p] = Obs!NoReg /\ link'[p] = Obs!NoLink BY <1>1
 <2>2. sub'[p].lease = "absent" => sub'[p].told = Obs!Untold BY <1>1 DEF OInv, PagesTrue, SocketOf
 <2>3. \A n \in Keys : ev'[<<<<p, n>>, "register">>].pc = "idle" BY <1>4 DEF Obs!Queries, Obs!Users
 <2> QED BY <2>1,<2>2,<2>3,<1>3, AwayPage
<1> QED BY <1>7,<1>8,<1>9,<1>10 DEF OInv, PagesTrue, QueriesTrue

-----------------------------------------------------------------------------
(* A page shows what it was sent, and is sent what comes after              *)

\* Showing an event leaves what was in hand.
LEMMA AcceptIs ==
  ASSUME OTypes, NEW p \in Pages, NEW event \in Event
  PROVE  /\ Obs!acceptEvent(p, event) \in [Keys -> Result]
         /\ \A k \in Keys : Obs!acceptEvent(p, event)[k] =
              LET old == IF event.kind = "snapshot" THEN Obs!Blank[k] ELSE page[p].shown[k]
              IN IF k \in DOMAIN event.results /\ event.results[k].seq > old.seq THEN event.results[k] ELSE old
<1> DEFINE old == IF event.kind = "snapshot" THEN Obs!Blank ELSE page[p].shown
<1>1. old \in [Keys -> Result] BY Records DEF OTypes, PageTypes, Client
<1>2. event.results \in Results BY DEF Event
<1>3. \A k \in DOMAIN event.results : event.results[k] \in Result BY <1>2, ResultsIs
<1>4. Obs!acceptEvent(p, event) =
        [k \in Keys |-> IF k \in DOMAIN event.results /\ event.results[k].seq > old[k].seq
                        THEN event.results[k] ELSE old[k]] BY DEF Obs!acceptEvent
<1>5. \A k \in Keys : old[k] = IF event.kind = "snapshot" THEN Obs!Blank[k] ELSE page[p].shown[k] OBVIOUS
<1> HIDE DEF old
<1>6. \A k \in Keys : (IF k \in DOMAIN event.results /\ event.results[k].seq > old[k].seq
                       THEN event.results[k] ELSE old[k]) \in Result BY <1>1,<1>3
<1> QED BY <1>4,<1>5,<1>6

LEMMA ShowsInHand ==
  ASSUME OInv, NEW p \in Pages, NEW k \in setting.keys, Served(p),
         link[p].flight.kind \in {"update", "snapshot"}
  PROVE  /\ Obs!acceptEvent(p, link[p].flight)[k] = InHand(link[p], k, page[p].shown[k])
         /\ InHand(link[p], k, page[p].shown[k]).seq # 0
         /\ Ending(link[p]) \/ link[p].gap
            \/ UpToDate(link[p], k, page[p].shown[k], sub[p].told[k], row[<<p, k>>])
<1> DEFINE event == link[p].flight
           shown == page[p].shown[k]
<1>1. k \in Keys /\ shown \in Result /\ link[p] \in Link /\ OTypes BY QueryFacts DEF OInv
<1>2. event \in Event /\ event.results \in Results BY <1>1 DEF Link, Event
<1>3. FlowOf(link[p], k, shown, sub[p].told[k], row[<<p, k>>]) BY DEF OInv, QueriesTrue, QueryOf, Flows
<1>4. InHand(link[p], k, shown) = After(event, k, shown) BY DEF InHand
<1>5. /\ IF event.kind = "snapshot" THEN k \in DOMAIN event.results ELSE Follows(shown, After(event, k, shown))
      /\ After(event, k, shown).seq # 0
      /\ Ending(link[p]) \/ link[p].gap
            \/ UpToDate(link[p], k, page[p].shown[k], sub[p].told[k], row[<<p, k>>]) BY <1>3,<1>4 DEF FlowOf
<1>6. Obs!acceptEvent(p, event)[k] =
        LET old == IF event.kind = "snapshot" THEN Obs!Blank[k] ELSE shown
        IN IF k \in DOMAIN event.results /\ event.results[k].seq > old.seq THEN event.results[k] ELSE old
 BY <1>1,<1>2, AcceptIs
<1> HIDE DEF event, shown
<1>7. Obs!Blank[k].seq = 0 BY <1>1 DEF Obs!Blank
<1>8. \A n \in DOMAIN event.results : event.results[n].seq \in Nat BY <1>2, ResultsIs DEF Result
<1>9. Obs!acceptEvent(p, event)[k] = After(event, k, shown)
 <2>1. CASE event.kind = "snapshot" BY <2>1,<1>5,<1>6,<1>7,<1>8 DEF After
 <2>2. CASE event.kind # "snapshot"
  <3>1. shown.seq \in Nat BY <1>1 DEF Result
  <3> QED BY <2>2,<3>1,<1>5,<1>6,<1>8 DEF After, Follows
 <2> QED BY <2>1,<2>2
<1> QED BY <1>4,<1>5,<1>9 DEF event, shown

\* A snapshot in place of the history has all that was told.
LEMMA ReplacementIs ==
  ASSUME OInv, NEW p \in Pages
  PROVE  LET event == Obs!replacementSnapshot(p)
         IN /\ event \in Event /\ event.kind \in {"status", "snapshot"}
            /\ (page[p].state = "live" /\ p \notin history.removed) =>
                 \A k \in setting.keys :
                   /\ k \in DOMAIN event.results /\ event.results[k] = Obs!Public(row[<<p, k>>])
                   /\ row[<<p, k>>].state # "active" => event.kind = "status"
<1> DEFINE ks == {k \in setting.keys : sub[p].told[k].seq # 0}
           results == [k \in ks |-> Obs!Public(row[<<p, k>>])]
           event == Obs!replacementSnapshot(p)
<1>1. /\ event.kind = IF \E k \in ks : row[<<p, k>>].state # "active" THEN "status" ELSE "snapshot"
      /\ event.results = results /\ event = [kind |-> event.kind, results |-> event.results]
 BY DEF Obs!replacementSnapshot
<1> HIDE DEF event
<1>2. setting.keys \subseteq Keys BY Constants DEF OInv, OTypes, OutsideTypes
<1>3. \A k \in ks : k \in Keys /\ row[<<p, k>>] \in QueryRow BY <1>2, QueryFacts DEF OInv
<1>4. \A k \in ks : Obs!Public(row[<<p, k>>]) \in Result BY <1>3, PublicIs
<1>5. DOMAIN results = ks /\ \A k \in ks : results[k] = Obs!Public(row[<<p, k>>]) OBVIOUS
<1>6. results = [k \in DOMAIN results |-> results[k]] OBVIOUS
<1>7. ASSUME page[p].state = "live", p \notin history.removed PROVE ks = setting.keys
 <2>1. \A k \in setting.keys : ToldCounted(p, k) BY DEF OInv, QueriesTrue, QueryOf
 <2> QED BY <2>1,<1>7 DEF ToldCounted, Present
<1> HIDE DEF results, ks
<1>8. results \in Results BY <1>2,<1>3,<1>4,<1>5,<1>6, ResultsIs
<1>9. event.kind \in {"status", "snapshot"} BY <1>1
<1>10. event \in Event BY <1>1,<1>8,<1>9 DEF Event
<1> QED BY <1>1,<1>5,<1>7,<1>9,<1>10 DEF event

\* What comes after the acknowledged event.
LEMMA NextEvent ==
  ASSUME OInv, NEW p \in Pages, sub[p].lease # "absent"
  PROVE  /\ Obs!eventAfterSequence(p) = IF link[p].gap THEN Obs!replacementSnapshot(p) ELSE link[p].backlog
         /\ Obs!eventAfterSequence(p) \in Event
         /\ Obs!eventAfterSequence(p).kind = "none" => Obs!eventAfterSequence(p) = Obs!NoEvent
<1>1. link[p] \in Link /\ LinkOf(link[p]) BY DEF OInv, OTypes, PageTypes, PagesTrue, SocketOf
<1>2. Obs!eventAfterSequence(p) = IF link[p].gap THEN Obs!replacementSnapshot(p) ELSE link[p].backlog
 BY DEF Obs!eventAfterSequence
<1>3. Obs!replacementSnapshot(p) \in Event /\ Obs!replacementSnapshot(p).kind # "none" BY ReplacementIs
<1> QED BY <1>1,<1>2,<1>3 DEF Link, LinkOf

LEMMA FlightIs ==
  ASSUME NEW event \in Event, event.kind = "none" => event = Obs!NoEvent
  PROVE  [Obs!NoLink EXCEPT !.flight = event] \in Link /\ LinkOf([Obs!NoLink EXCEPT !.flight = event])
<1> DEFINE m == [Obs!NoLink EXCEPT !.flight = event]
<1>1. m \in Link /\ Obs!NoEvent.kind = "none" BY Records DEF Link, Obs!NoEvent
<1>2. m.flight = event /\ m.backlog = Obs!NoEvent /\ ~m.gap BY DEF Obs!NoLink
<1>3. event = Obs!NoEvent => m = Obs!NoLink
 <2>1. Obs!NoLink = [flight |-> Obs!NoEvent, backlog |-> Obs!NoEvent, gap |-> FALSE] BY DEF Obs!NoLink
 <2>2. Obs!NoLink \in Link BY Records
 <2>3. m = [flight |-> event, backlog |-> Obs!NoLink.backlog, gap |-> Obs!NoLink.gap] BY <2>2 DEF Link
 <2>4. Obs!NoLink.backlog = Obs!NoEvent /\ Obs!NoLink.gap = FALSE BY <2>1
 <2> HIDE DEF m
 <2> QED BY <2>1,<2>3,<2>4
<1> HIDE DEF m
<1>4. LinkOf(m) BY <1>1,<1>2,<1>3 DEF LinkOf
<1> QED BY <1>1,<1>4 DEF m

\* The flow of a query after the acknowledgement.
LEMMA AcknowledgedFlow ==
  ASSUME OInv, NEW p \in Pages, NEW k \in setting.keys, Served(p),
         link[p].flight.kind \in {"update", "snapshot"}
  PROVE  LET m == [Obs!NoLink EXCEPT !.flight = Obs!eventAfterSequence(p)]
         IN /\ FlowOf(m, k, Obs!acceptEvent(p, link[p].flight)[k], sub[p].told[k], row[<<p, k>>])
            /\ (row[<<p, k>>].state = "denied" /\ Evaluating(<<p, k>>)) => Ending(m) \/ m.gap
<1> DEFINE event == Obs!eventAfterSequence(p)
           m == [Obs!NoLink EXCEPT !.flight = event]
           shown == Obs!acceptEvent(p, link[p].flight)[k]
           r == row[<<p, k>>]
           told == sub[p].told[k]
           l == link[p]
<1>1. /\ shown = InHand(l, k, page[p].shown[k]) /\ shown.seq # 0
      /\ Ending(l) \/ l.gap \/ UpToDate(l, k, page[p].shown[k], told, r) BY ShowsInHand
<1>2. /\ event = IF l.gap THEN Obs!replacementSnapshot(p) ELSE l.backlog
      /\ event \in Event /\ (event.kind = "none" => event = Obs!NoEvent) BY NextEvent, LivePage DEF Served
<1>3. m.flight = event /\ m.backlog = Obs!NoEvent /\ ~m.gap BY DEF Obs!NoLink
<1>4. /\ l \in Link /\ LinkOf(l) /\ k \in Keys /\ page[p].shown[k] \in Result /\ r \in QueryRow /\ RowOf(r)
      /\ told.seq \in Nat /\ ToldCounted(p, k) /\ Present(p)
 BY QueryFacts DEF OInv, PagesTrue, SocketOf, ObserverTables, QueriesTrue, QueryOf, Served, Present
<1>5. l.flight \in Event /\ InHand(l, k, page[p].shown[k]) \in Result BY <1>4, AfterIs DEF Link, InHand
<1>6. shown \in Result BY <1>1,<1>5
<1>7. (r.state = "denied" /\ Evaluating(<<p, k>>)) => Ending(l) \/ l.gap
 BY DEF OInv, QueriesTrue, QueryOf, Revives
<1>8. /\ p \notin history.removed /\ page[p].state = "live"
      /\ l.flight.kind # "status" /\ l.flight.kind # "none" BY DEF Served
<1>9. /\ Obs!replacementSnapshot(p).kind \in {"status", "snapshot"}
      /\ k \in DOMAIN Obs!replacementSnapshot(p).results /\ Obs!replacementSnapshot(p).results[k] = Obs!Public(r)
      /\ r.state # "active" => Obs!replacementSnapshot(p).kind = "status" BY <1>8, ReplacementIs
<1> HIDE DEF event, m, shown, r, told, l
<1>10. InHand(m, k, shown) = After(event, k, shown) /\ Last(m, k, shown) = After(event, k, shown)
 BY <1>3, NothingAfter DEF InHand, Last
<1>11. Obs!Public(r).seq = r.seq /\ Obs!Public(r) \in Result BY <1>4, PublicIs
<1>12. CASE event.kind = "status" BY <1>3,<1>12 DEF FlowOf, Ending, m, shown, r, told, l, event
<1>13. CASE l.gap /\ event.kind # "status"
 <2>1. event.kind = "snapshot" /\ r.state = "active" /\ k \in DOMAIN event.results /\ event.results[k] = Obs!Public(r)
  BY <1>2,<1>9,<1>13
 <2>2. InHand(m, k, shown) = Obs!Public(r) /\ Last(m, k, shown) = Obs!Public(r) BY <2>1,<1>10 DEF After
 <2>3. r.seq # 0 /\ told.seq <= r.seq BY <2>1,<1>4 DEF RowOf, ToldCounted, r, told
 <2>4. r.seq \in Nat BY <1>4 DEF QueryRow
 <2>5. UpToDate(m, k, shown, told, r) BY <2>2,<2>3,<2>4,<1>11 DEF UpToDate, Follows, NotBeyond, Same
 <2>6. FlowOf(m, k, shown, told, r) BY <2>1,<2>2,<2>3,<2>5,<1>3,<1>11 DEF FlowOf
 <2> QED BY <2>1,<2>6 DEF m, shown, r, told, l, event
<1>14. CASE ~l.gap /\ event.kind # "status"
 <2>1. event = l.backlog /\ ~Ending(l) /\ event.kind # "snapshot" BY <1>2,<1>4,<1>8,<1>14 DEF Ending, LinkOf
 <2>2. UpToDate(l, k, page[p].shown[k], told, r) BY <2>1,<1>1,<1>14
 <2>3. Last(l, k, page[p].shown[k]) = After(event, k, shown) BY <2>1,<1>1 DEF Last
 <2>4. /\ Follows(shown, After(event, k, shown)) /\ told.seq <= After(event, k, shown).seq
       /\ NotBeyond(r, After(event, k, shown)) BY <2>2,<2>3,<1>1 DEF UpToDate
 <2>5. After(event, k, shown) \in Result BY <1>2,<1>6, AfterIs
 <2>6. After(event, k, shown).seq # 0 BY <2>4,<2>5,<1>1,<1>6 DEF Follows, Result
 <2>7. UpToDate(m, k, shown, told, r) BY <2>4,<2>5,<1>10 DEF UpToDate, Follows, Result
 <2>8. FlowOf(m, k, shown, told, r) BY <2>1,<2>4,<2>6,<2>7,<1>3,<1>10 DEF FlowOf
 <2>9. ~(r.state = "denied" /\ Evaluating(<<p, k>>)) BY <2>1,<1>7,<1>14
 <2> QED BY <2>8,<2>9 DEF m, shown, r, told, l, event
<1> QED BY <1>12,<1>13,<1>14

LEMMA MessageKeeps ==
  ASSUME OInv, NEW p \in Pages, Obs!onMessage(p)
  PROVE  OInv'
<1>1. /\ link[p].flight.kind # "none"
      /\ UNCHANGED <<setting, source, bound, grant, row, edge, seen, ev, observerAlarm, sub, reg, det,
                     faults, history>> BY DEF Obs!onMessage
<1>2. link[p] # Obs!NoLink BY <1>1 DEF Obs!NoLink, Obs!NoEvent
<1>3. page[p].state = "live" /\ reg[p] = Obs!NoReg /\ sub[p].lease # "absent" /\ OTypes
 BY <1>2, LinkedPage, LivePage DEF OInv
<1>4. CASE link[p].flight.kind = "status"
 <2>1. Obs!Showing(p, "ended", Obs!Blank) /\ link' = [link EXCEPT ![p] = Obs!NoLink] /\ late' = late \cup {p}
  BY <1>4 DEF Obs!onMessage
 <2>2. late' \subseteq Pages /\ faults' \in [losses : Nat, delays : Nat]
  BY <2>1,<1>1,<1>3 DEF OTypes, PageTypes, OutsideTypes
 <2> QED BY <2>1,<2>2,<1>1,<1>3, PageLeaves
<1>5. CASE link[p].flight.kind # "status"
 <2> DEFINE m == [Obs!NoLink EXCEPT !.flight = Obs!eventAfterSequence(p)]
            shown == Obs!acceptEvent(p, link[p].flight)
            client == [state |-> "live", shown |-> shown]
 <2>1. page' = [page EXCEPT ![p] = client] /\ link' = [link EXCEPT ![p] = m] /\ late' = late
  BY <1>5 DEF Obs!onMessage, Obs!Showing
 <2>2. link[p] \in Link /\ link[p].flight \in Event /\ link[p].flight.kind \in {"update", "snapshot"}
  BY <1>1,<1>3,<1>5 DEF OTypes, PageTypes, Link, Event
 <2>3. client \in Client /\ client.state = "live" /\ client.shown = shown BY <2>2,<1>3, AcceptIs DEF Client
 <2>4. /\ Obs!eventAfterSequence(p) \in Event
       /\ Obs!eventAfterSequence(p).kind = "none" => Obs!eventAfterSequence(p) = Obs!NoEvent BY <1>3, NextEvent
 <2>5. m \in Link /\ LinkOf(m) BY <2>4, FlightIs
 <2> HIDE DEF m, client
 <2>6. /\ page' \in [Pages -> Client] /\ page'[p] = client /\ \A s \in Pages : s # p => page'[s] = page[s]
       /\ link' \in [Pages -> Link] /\ link'[p] = m /\ \A s \in Pages : s # p => link'[s] = link[s]
  BY <2>1,<2>3,<2>5,<1>3 DEF OTypes, PageTypes
 <2>7. OTypes' BY <2>1,<2>6,<1>1,<1>3 DEF OTypes, OutsideTypes, TableTypes, PageTypes
 <2>8. ObserverTables' /\ Alarms' BY <1>1 DEF OInv, ObserverTables, Alarms, Evaluating
 <2>9. Joins(p)' /\ SocketOf(p)' BY <2>3,<2>5,<2>6,<1>1,<1>3 DEF OInv, PagesTrue, Joins, SocketOf
 <2>10. ASSUME NEW k \in setting'.keys PROVE QueryOf(p, k)'
  <3>1. k \in setting.keys /\ QueryOf(p, k) BY <1>1 DEF OInv, QueriesTrue
  <3>2. ToldCounted(p, k)' /\ Gets(p, k)'
   BY <2>3,<2>6,<3>1,<1>1,<1>3 DEF QueryOf, ToldCounted, Gets, Present, Evaluating
  <3>3. Served(p)' => Served(p) BY <1>1,<1>3 DEF Served
  <3>4. Served(p) => /\ FlowOf(m, k, shown[k], sub[p].told[k], row[<<p, k>>])
                     /\ (row[<<p, k>>].state = "denied" /\ Evaluating(<<p, k>>)) => Ending(m) \/ m.gap
   BY <2>2,<3>1, AcknowledgedFlow DEF m
  <3> HIDE DEF shown
  <3>5. Flows(p, k)' /\ Revives(p, k)' BY <2>3,<2>6,<3>3,<3>4,<1>1 DEF Flows, Revives, Evaluating
  <3> QED BY <3>2,<3>5 DEF QueryOf
 <2>11. ASSUME NEW s \in Pages PROVE Joins(s)' /\ SocketOf(s)' /\ \A n \in setting'.keys : QueryOf(s, n)'
  BY <2>6,<2>9,<2>10,<1>1, StillPage
 <2> QED BY <2>7,<2>8,<2>11 DEF OInv, PagesTrue, QueriesTrue
<1> QED BY <1>4,<1>5

-----------------------------------------------------------------------------
(* The theorems                                                             *)

LEMMA InitIInv == ASSUME QuerySettings, Obs!Init PROVE OInv
<1>1. setting \in Settings \cap Setting BY DEF QuerySettings, Obs!Init, Setting
<1>2. source \in [Obs!Edges -> Source] /\ \A e \in Obs!Edges : ~source[e].out BY DEF Obs!Init, Source
<1>3. OutsideTypes BY <1>1,<1>2, NoDetachIs DEF Obs!Init, OutsideTypes, Obs!Realms
<1>4. row \in [Obs!Queries -> QueryRow] /\ \A q \in Obs!Queries : row[q] = Obs!NoRow BY Records DEF Obs!Init
<1>5. edge \in [Obs!Edges -> Edge] /\ \A e \in Obs!Edges : edge[e].state = "none" BY DEF Obs!Init, Edge, Obs!NoEdge
<1>6. /\ ev \in [Obs!Queries \X Obs!Users -> Evaluation]
      /\ \A q \in Obs!Queries, by \in Obs!Users : ev[<<q, by>>].pc = "idle"
 <2>1. Obs!NoEval \in Evaluation /\ Obs!NoEval.pc = "idle" BY Records DEF Obs!NoEval
 <2> HIDE DEF Obs!NoEval
 <2> QED BY <2>1 DEF Obs!Init
<1>7. observerAlarm \in Alarm /\ observerAlarm.done = {} BY Records DEF Obs!Init, Obs!NoAlarm
<1>8. TableTypes BY <1>4,<1>5,<1>6,<1>7 DEF TableTypes
<1>9. /\ page \in [Pages -> Client] /\ \A p \in Pages : page[p].state = "offline" BY Records DEF Obs!Init, Client
<1>10. PageTypes BY <1>9, Records DEF Obs!Init, PageTypes
<1>11. ObserverTables
 <2>1. RowOf(Obs!NoRow) /\ Obs!NoRow.edges = {} BY Records DEF Obs!NoRow
 <2>2. \A q \in Obs!Queries : RowOf(row[q]) /\ row[q].edges = {} BY <1>4,<2>1
 <2> QED BY <2>2,<1>2,<1>5 DEF ObserverTables, Anchored
<1>12. Alarms BY <1>6,<1>7 DEF Alarms, Evaluating, Obs!Users
<1>13. ASSUME NEW p \in Pages PROVE Joins(p) /\ SocketOf(p) /\ \A k \in setting.keys : QueryOf(p, k)
 <2>1. reg[p] = Obs!NoReg /\ link[p] = Obs!NoLink /\ sub[p].told = Obs!Untold /\ page[p].state = "offline"
  BY <1>9 DEF Obs!Init, Obs!Gone
 <2>2. \A n \in Keys : ev[<<<<p, n>>, "register">>].pc = "idle" BY <1>6 DEF Obs!Queries, Obs!Users
 <2>3. Joins(p) BY <2>1,<2>2 DEF Joins, Obs!NoReg
 <2>4. SocketOf(p) BY <2>1 DEF SocketOf, LinkOf, Obs!NoLink, Obs!NoEvent
 <2>5. \A k \in setting.keys : QueryOf(p, k)
  BY <2>1 DEF QueryOf, ToldCounted, Gets, Flows, Revives, Present, Served
 <2> QED BY <2>3,<2>4,<2>5
<1> QED BY <1>3,<1>8,<1>10,<1>11,<1>12,<1>13
           DEF OInv, OTypes, PagesTrue, QueriesTrue

LEMMA EvaluatesKeeps ==
  ASSUME OInv, NEW q \in Obs!Asked, NEW by \in Obs!Users, Obs!Evaluates(q, by)
  PROVE  OInv'
<1>1. q \in Obs!Queries BY Constants DEF OInv, OTypes, OutsideTypes, Obs!Asked, Obs!Queries
<1>2. CASE Obs!authorizedEvaluation(q, by) BY <1>1,<1>2, AuthorizedKeeps
<1>3. CASE Obs!refused(q, by) BY <1>1,<1>3, RefusedKeeps
<1>4. CASE Obs!bindingDescriptorsForPlan(q, by) BY <1>1,<1>4, BindingReadKeeps
<1>5. ASSUME NEW e \in Obs!Edges, Obs!registerDescriptor(q, by, e) PROVE OInv' BY <1>1,<1>5, RegisterKeeps
<1>6. CASE Obs!again(q, by) BY <1>1,<1>6, AgainKeeps
<1>7. CASE Obs!callFails(q, by) BY <1>1,<1>7, CallFailsKeeps
<1>8. CASE Obs!storeEvaluation(q, by) BY <1>1,<1>8, StoreKeeps
<1> QED BY <1>2,<1>3,<1>4,<1>5,<1>6,<1>7,<1>8 DEF Obs!Evaluates

LEMMA AlarmRunsKeeps == ASSUME OInv, Obs!AlarmRuns PROVE OInv'
<1>1. CASE Obs!alarmFires BY <1>1, AlarmFiresKeeps
<1>2. CASE Obs!claimDueQueries BY <1>2, ClaimKeeps
<1>3. CASE Obs!publishStateQueryStreamUpdates BY <1>3, PublishKeeps
<1>4. ASSUME NEW q \in Obs!Asked, Obs!renewLiveStateQuery(q) \/ Obs!renewalFails(q) PROVE OInv'
 <2>1. q \in Obs!Queries BY Constants DEF OInv, OTypes, OutsideTypes, Obs!Asked, Obs!Queries
 <2> QED BY <1>4,<2>1, RenewKeeps, RenewalFailsKeeps
<1> QED BY <1>1,<1>2,<1>3,<1>4 DEF Obs!AlarmRuns

LEMMA ProceedsKeeps == ASSUME OInv, Obs!Proceeds PROVE OInv'
<1>1. CASE Obs!BindingArrives BY <1>1, BindingKeeps
<1>2. CASE Obs!deliverGrantInvalidation BY <1>2, GrantKeeps
<1>3. ASSUME NEW e \in Obs!Edges, Obs!receiveNotification(e) \/ Obs!WatchLapses(e) \/ Obs!Detaches(e)
      PROVE  OInv' BY <1>3, ReceiveKeeps, WatchLapsesKeeps, CallKeeps, ExamineKeeps, DetachKeeps DEF Obs!Detaches
<1>4. ASSUME NEW p \in setting.pages, Obs!connect(p) \/ Obs!onMessage(p) \/ Obs!webSocketClose(p) PROVE OInv'
 <2>1. p \in Pages BY Constants DEF OInv, OTypes, OutsideTypes
 <2> QED BY <1>4,<2>1, ConnectRefused, ConnectGranted, MessageKeeps, SocketClosedKeeps
<1>5. ASSUME NEW q \in Obs!Asked, NEW by \in Obs!Users, Obs!Evaluates(q, by) PROVE OInv' BY <1>5, EvaluatesKeeps
<1> QED BY <1>1,<1>2,<1>3,<1>4,<1>5 DEF Obs!Proceeds

LEMMA StutterKeeps == ASSUME OInv, UNCHANGED Obs!vars PROVE OInv'
<1>1. OTypes' /\ ObserverTables'
 BY DEF Obs!vars, OInv, OTypes, OutsideTypes, TableTypes, PageTypes, ObserverTables, Anchored
<1>2. Barring /\ Fewer BY DEF Obs!vars, Barring, Fewer
<1>3. UNCHANGED <<setting, row, observerAlarm, sub, reg, link, page, history>> BY DEF Obs!vars
<1> QED BY <1>1,<1>2,<1>3, Untouched

LEMMA NextIInv == ASSUME OInv, [Obs!Next]_(Obs!vars) PROVE OInv'
<1>1. CASE Obs!Proceeds BY <1>1, ProceedsKeeps
<1>2. CASE Obs!AlarmRuns BY <1>2, AlarmRunsKeeps
<1>3. ASSUME NEW e \in Obs!Edges, Obs!Commit(e) PROVE OInv' BY <1>3, CommitKeeps
<1>4. CASE Obs!BindingLeaves BY <1>4, BindingKeeps
<1>5. CASE Obs!revokeGrant BY <1>5, RevokeKeeps
<1>6. CASE Obs!Restart BY <1>6, RestartKeeps
<1>7. ASSUME NEW p \in setting.pages, Obs!pruneHistory(p) \/ Obs!onClose(p) \/ Obs!LeaseAges(p) \/ Obs!AlarmComesLate(p)
      PROVE  OInv'
 <2>1. p \in Pages BY Constants DEF OInv, OTypes, OutsideTypes
 <2> QED BY <1>7,<2>1, PruneKeeps, CloseKeeps, LeaseAgesKeeps
<1>8. CASE UNCHANGED Obs!vars BY <1>8, StutterKeeps
<1> QED BY <1>1,<1>2,<1>3,<1>4,<1>5,<1>6,<1>7,<1>8 DEF Obs!Next

LEMMA SoundTypes == ASSUME OInv PROVE Obs!TypeOK
<1>1. /\ setting \in Settings /\ bound \in Obs!Realms \cup {"moving"}
      /\ grant \in [revoked : BOOLEAN, out : BOOLEAN, barred : BOOLEAN]
      /\ source \in [Obs!Edges -> [rev : Nat, watch : BOOLEAN, out : BOOLEAN]]
      /\ edge \in [Obs!Edges -> [state : {"none", "active", "detaching"}, expected : Nat, stray : BOOLEAN]]
 BY DEF OInv, OTypes, OutsideTypes, TableTypes, Source, Edge
<1>2. \A q \in Obs!Queries : /\ row[q].state \in {"none", "active", "denied"}
                             /\ \A e \in row[q].edges : edge[e].state # "none"
                             /\ row[q].state # "active" => row[q].edges = {}
 BY DEF OInv, OTypes, TableTypes, QueryRow, ObserverTables, RowOf
<1>3. \A e \in Obs!Edges : /\ edge[e].state = "active" => edge[e].stray \/ e \in Obs!Used(row)
                           /\ source[e].out => source[e].watch BY DEF OInv, ObserverTables, Anchored
<1>4. \A p \in Pages : /\ page[p].state = "joining" <=> reg[p].on
                       /\ link[p] # Obs!NoLink => page[p].state = "live" /\ link[p].flight # Obs!NoEvent
                       /\ page[p].state = "live" => sub[p].lease # "absent"
 BY DEF OInv, PagesTrue, Joins, SocketOf, LinkOf, Obs!NoEvent
<1> QED BY <1>1,<1>2,<1>3,<1>4 DEF Obs!TypeOK

LEMMA SoundPages == ASSUME OInv PROVE Obs!NothingUnsaid
<1> SUFFICES ASSUME NEW p \in setting.pages, NEW k \in setting.keys,
                    page[p].state = "live", link[p] = Obs!NoLink, p \notin history.lost \cup history.removed,
                    row[<<p, k>>].state = "active", row[<<p, k>>].seq = sub[p].told[k].seq
             PROVE  page[p].shown[k] = Obs!Public(row[<<p, k>>]) BY DEF Obs!NothingUnsaid
<1> DEFINE shown == page[p].shown[k]
           r == row[<<p, k>>]
<1>1. p \in Pages BY Constants DEF OInv, OTypes, OutsideTypes
<1>2. shown \in Result /\ r \in QueryRow /\ sub[p].told[k].seq \in Nat BY <1>1, QueryFacts DEF OInv
<1>3. FlowOf(Obs!NoLink, k, shown, sub[p].told[k], r) BY <1>1 DEF OInv, QueriesTrue, QueryOf, Flows, Served
<1>4. /\ Obs!NoLink.flight = Obs!NoEvent /\ Obs!NoLink.backlog = Obs!NoEvent /\ ~Obs!NoLink.gap /\ Obs!NoEvent.kind = "none"
 BY DEF Obs!NoLink, Obs!NoEvent
<1>5. InHand(Obs!NoLink, k, shown) = shown /\ Last(Obs!NoLink, k, shown) = shown
 BY <1>4, NothingAfter DEF InHand, Last
<1>6. UpToDate(Obs!NoLink, k, shown, sub[p].told[k], r) BY <1>3,<1>4 DEF FlowOf, Ending
<1> HIDE DEF shown, r
<1>7. sub[p].told[k].seq <= shown.seq /\ NotBeyond(r, shown) BY <1>5,<1>6 DEF UpToDate
<1>8. r.state = "active" /\ r.seq = sub[p].told[k].seq BY DEF r
<1>9. shown.seq \in Nat /\ r.seq \in Nat BY <1>2 DEF Result, QueryRow
<1>10. shown = Obs!Public(r) BY <1>7,<1>8,<1>9 DEF NotBeyond, Same
<1> QED BY <1>10 DEF shown, r

\* The types of all parts, and the agreement of the tables, the registrations and the sockets.
THEOREM ObserverTypeCorrect == ASSUME QuerySettings PROVE Obs!Spec => []Obs!TypeOK
<1>1. Obs!Init => OInv BY InitIInv
<1>2. OInv /\ [Obs!Next]_(Obs!vars) => OInv' BY NextIInv
<1>3. OInv => Obs!TypeOK BY SoundTypes
<1> QED BY <1>1,<1>2,<1>3, PTL DEF Obs!Spec

\* A page with nothing in flight shows what its subscription counts as told.
THEOREM NothingStaysUnsaid == ASSUME QuerySettings PROVE Obs!Spec => []Obs!NothingUnsaid
<1>1. Obs!Init => OInv BY InitIInv
<1>2. OInv /\ [Obs!Next]_(Obs!vars) => OInv' BY NextIInv
<1>3. OInv => Obs!NothingUnsaid BY SoundPages
<1> QED BY <1>1,<1>2,<1>3, PTL DEF Obs!Spec

=============================================================================

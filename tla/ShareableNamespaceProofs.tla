---------------------- MODULE ShareableNamespaceProofs ----------------------
(***************************************************************************)
(* Proofs about one namespace of shared state: its tables agree, the       *)
(* version it shows names one content, and through the adoption of the     *)
(* legacy state and every transition it is the store FeatureStore promises.*)
(*                                                                         *)
(* The operations on values come first, once for the realm and for the     *)
(* coordinator; then the inductive invariant, action by action; then the   *)
(* refinement, which rests on both.                                        *)
(***************************************************************************)
EXTENDS ShareableNamespace, FiniteSetTheorems, TLAPS

-----------------------------------------------------------------------------
(* Operations on values                                                      *)

\* What a reader sees: a counter without an entry has its initial value.
Seen(vals) == [k \in Keys |-> IF k \in Counters /\ vals[k] = Nothing THEN Initial ELSE vals[k]]

DataOp(op) == Sayable(op) /\ op.kind \in DataKinds

\* A result that keeps the types, marks every change, stays within the room,
\* and does and answers what the store promises.
Good(r, op, room, result) ==
  /\ result.vals \in Values /\ result.named \in SUBSET Keys /\ result.touched \in BOOLEAN
  /\ ~result.touched => result.vals = r.vals /\ result.named = r.named
  /\ \/ Entries(result.vals) \subseteq Entries(r.vals)
     \/ room /\ Entries(result.vals) \subseteq Entries(r.vals) \cup {op.key}
  /\ result.ok =>
       /\ Seen(result.vals) = [Seen(r.vals) EXCEPT ![op.key] = Store!Changed(op, Seen(r.vals)[op.key])]
       /\ result.answer = Store!Answer(op, Seen(r.vals)[op.key])

LEMMA Constants ==
  /\ Most \in Nat /\ Initial \in 0..Most /\ Nothing \notin Int /\ Plain \cap Counters = {}
  /\ Keys = Plain \cup Counters /\ IsFiniteSet(Keys)
BY NamespaceAssumption DEF Keys

\* Putting a value, or nothing, under a key changes what is seen of that key.
LEMMA PutKey ==
  ASSUME NEW vals \in Values, NEW key \in Keys, NEW value \in (0..Most) \cup {Nothing}
  PROVE  LET new == [vals EXCEPT ![key] = value] IN
         /\ new \in Values
         /\ Seen(new) = [Seen(vals) EXCEPT ![key] = IF key \in Counters /\ value = Nothing THEN Initial ELSE value]
         /\ Entries(new) \subseteq Entries(vals) \cup {key}
         /\ vals[key] # Nothing \/ value = Nothing => Entries(new) \subseteq Entries(vals)
BY DEF Values, Seen, Entries

\* An operation that leaves the values as they are leaves what is seen.
LEMMA SeenStays ==
  ASSUME NEW vals \in Values, NEW key \in Keys
  PROVE  Seen(vals) = [Seen(vals) EXCEPT ![key] = Seen(vals)[key]]
BY DEF Seen

LEMMA ClampRange == ASSUME NEW n \in Int PROVE Clamp(n) \in 0..Most
BY Constants DEF Clamp

LEMMA GetGood ==
  ASSUME NEW r, r.vals \in Values, r.named \in SUBSET Keys, NEW op, DataOp(op), NEW room \in BOOLEAN, op.kind = "get"
  PROVE  Good(r, op, room, Same(r, IF op.key \in Counters THEN Current(r, op.key) ELSE r.vals[op.key]))
<1>1. op.key \in Keys BY DEF DataOp, Sayable
<1>2. Store!Answer(op, Seen(r.vals)[op.key]) = Seen(r.vals)[op.key]
      /\ Store!Changed(op, Seen(r.vals)[op.key]) = Seen(r.vals)[op.key] BY DEF Store!Answer, Store!Changed
<1>3. Seen(r.vals)[op.key] = IF op.key \in Counters THEN Current(r, op.key) ELSE r.vals[op.key]
 BY <1>1 DEF Seen, Current
<1> QED BY <1>1,<1>2,<1>3, SeenStays DEF Good, Same, Result

LEMMA SetGood ==
  ASSUME NEW r, r.vals \in Values, r.named \in SUBSET Keys, NEW op, DataOp(op), NEW room \in BOOLEAN, op.kind = "set"
  PROVE  Good(r, op, room, SetValue(r, op, room))
<1>1. op.key \in Plain /\ op.key \in Keys /\ op.key \notin Counters /\ op.arg \in 0..Most
 BY Constants DEF DataOp, Sayable
<1>2. Store!Answer(op, Seen(r.vals)[op.key]) = op.arg /\ Store!Changed(op, Seen(r.vals)[op.key]) = op.arg
 BY DEF Store!Answer, Store!Changed
<1>3. Seen(r.vals)[op.key] = r.vals[op.key] BY <1>1 DEF Seen
<1>4. CASE r.vals[op.key] = op.arg BY <1>1,<1>2,<1>3,<1>4, SeenStays DEF Good, SetValue, Same, Result
<1>5. CASE r.vals[op.key] # op.arg BY <1>1,<1>2,<1>5, PutKey DEF Good, SetValue, Stored, Result
<1> QED BY <1>4,<1>5

LEMMA DeleteGood ==
  ASSUME NEW r, r.vals \in Values, r.named \in SUBSET Keys, NEW op, DataOp(op), NEW room \in BOOLEAN, op.kind = "delete"
  PROVE  Good(r, op, room, DeleteValue(r, op))
<1>1. op.key \in Plain /\ op.key \in Keys /\ op.key \notin Counters BY Constants DEF DataOp, Sayable
<1>2. Seen(r.vals)[op.key] = r.vals[op.key] BY <1>1 DEF Seen
<1>3. /\ Store!Answer(op, Seen(r.vals)[op.key]) = IF r.vals[op.key] = Nothing THEN 0 ELSE 1
      /\ Store!Changed(op, Seen(r.vals)[op.key]) = Nothing BY <1>2 DEF Store!Answer, Store!Changed
<1>4. CASE r.vals[op.key] = Nothing BY <1>1,<1>2,<1>3,<1>4, SeenStays DEF Good, DeleteValue, Same, Result
<1>5. CASE r.vals[op.key] # Nothing
 <2> DEFINE new == [r.vals EXCEPT ![op.key] = Nothing]
 <2>1. /\ new \in Values /\ Entries(new) \subseteq Entries(r.vals)
       /\ Seen(new) = [Seen(r.vals) EXCEPT ![op.key] = Nothing] BY <1>1, PutKey
 <2>2. DeleteValue(r, op) = Result(r, TRUE, TRUE, new, r.named, 1) BY <1>5 DEF DeleteValue
 <2> HIDE DEF new
 <2> QED BY <1>3,<1>5,<2>1,<2>2 DEF Good, Result
<1> QED BY <1>4,<1>5

LEMMA IncrementGood ==
  ASSUME NEW r, r.vals \in Values, r.named \in SUBSET Keys, NEW op, DataOp(op), NEW room \in BOOLEAN, op.kind = "increment"
  PROVE  Good(r, op, room, Increment(r, op, room))
<1>1. op.key \in Plain /\ op.key \in Keys /\ op.key \notin Counters /\ op.arg \in Nat
 BY Constants DEF DataOp, Sayable
<1>2. Seen(r.vals)[op.key] = r.vals[op.key] /\ r.vals[op.key] \in (0..Most) \cup {Nothing}
 BY <1>1 DEF Seen, Values
<1> DEFINE value == Current(r, op.key) + op.arg
<1>3. value \in Nat BY <1>1,<1>2, Constants DEF Current
<1>4. Store!Answer(op, Seen(r.vals)[op.key]) = value /\ Store!Changed(op, Seen(r.vals)[op.key]) = value
 BY <1>1,<1>2 DEF Store!Answer, Store!Changed, Store!Number, Current
<1>5. CASE value > Most BY <1>1,<1>5 DEF Good, Increment, Refused, Result
<1>6. CASE ~(value > Most)
 <2>1. value \in 0..Most BY <1>3,<1>6, Constants
 <2> HIDE DEF value
 <2>2. Good(r, op, room, Stored(r, op.key, value, r.named, room))
  BY <1>1,<1>4,<2>1, PutKey DEF Good, Stored, Result
 <2> QED BY <1>6,<2>2 DEF Increment, value
<1> QED BY <1>5,<1>6

LEMMA ResetGood ==
  ASSUME NEW r, r.vals \in Values, r.named \in SUBSET Keys, NEW op, DataOp(op), NEW room \in BOOLEAN, op.kind = "reset"
  PROVE  Good(r, op, room, ResetCounter(r, op))
<1>1. op.key \in Counters /\ op.key \in Keys BY Constants DEF DataOp, Sayable
<1>2. Store!Answer(op, Seen(r.vals)[op.key]) = Initial /\ Store!Changed(op, Seen(r.vals)[op.key]) = Initial
 BY DEF Store!Answer, Store!Changed
<1>3. CASE r.vals[op.key] = Nothing
 <2>1. Seen(r.vals)[op.key] = Initial BY <1>1,<1>3 DEF Seen
 <2> QED BY <1>1,<1>2,<1>3,<2>1, SeenStays DEF Good, ResetCounter, Same, Result
<1>4. CASE r.vals[op.key] # Nothing BY <1>1,<1>2,<1>4, PutKey DEF Good, ResetCounter, Result
<1> QED BY <1>3,<1>4

\* Counting to a value: the store's assign, add and reset are counts.
LEMMA CountGood ==
  ASSUME NEW r, r.vals \in Values, r.named \in SUBSET Keys, NEW op, DataOp(op), NEW room \in BOOLEAN,
         op.kind \in {"assign", "add", "reset"}
  PROVE  Good(r, op, room, CountTo(r, op, NextCount(r, op), room))
<1>1. op.key \in Counters /\ op.key \in Keys BY Constants DEF DataOp, Sayable
<1>2. Seen(r.vals)[op.key] = Current(r, op.key) /\ Current(r, op.key) \in 0..Most
 BY <1>1, Constants DEF Seen, Current, Values
<1> DEFINE value == NextCount(r, op)
           named == IF op.label THEN r.named \cup {op.key} ELSE r.named
<1>3. value \in 0..Most
 <2>1. CASE op.kind = "assign" BY <2>1 DEF NextCount, DataOp, Sayable
 <2>2. CASE op.kind = "add"
  <3>1. op.arg \in Int BY <2>2 DEF DataOp, Sayable
  <3>2. Current(r, op.key) + op.arg \in Int BY <3>1,<1>2, Constants
  <3> QED BY <2>2,<3>2, ClampRange DEF NextCount
 <2>3. CASE op.kind = "reset" BY <2>3, Constants DEF NextCount
 <2> QED BY <2>1,<2>2,<2>3
<1>4. Store!Answer(op, Seen(r.vals)[op.key]) = value /\ Store!Changed(op, Seen(r.vals)[op.key]) = value
 BY <1>2 DEF Store!Answer, Store!Changed, Store!Clamp, Clamp, NextCount
<1>5. named \in SUBSET Keys /\ value # Nothing BY <1>1,<1>3, Constants
<1> HIDE DEF value, named
<1>6. CASE r.vals[op.key] = Nothing /\ value = Initial
 <2>1. Seen(r.vals)[op.key] = value BY <1>1,<1>6 DEF Seen
 <2>2. Good(r, op, room, Same(r, value)) BY <1>1,<1>4,<2>1, SeenStays DEF Good, Same, Result
 <2> QED BY <2>2,<1>5,<1>6 DEF CountTo, value
<1>7. CASE ~(r.vals[op.key] = Nothing /\ value = Initial) /\ r.vals[op.key] = value
 <2>1. Seen(r.vals)[op.key] = value BY <1>1,<1>3,<1>7, Constants DEF Seen
 <2>2. Good(r, op, room, Result(r, TRUE, named # r.named, r.vals, named, value))
  BY <1>1,<1>4,<1>5,<2>1, SeenStays DEF Good, Result
 <2> QED BY <2>2,<1>7 DEF CountTo, value, named
<1>8. CASE ~(r.vals[op.key] = Nothing /\ value = Initial) /\ r.vals[op.key] # value
 <2>1. value # Nothing BY <1>3, Constants
 <2>2. Good(r, op, room, Stored(r, op.key, value, named, room))
  BY <1>1,<1>3,<1>4,<1>5,<2>1, PutKey DEF Good, Stored, Result
 <2> QED BY <2>2,<1>8 DEF CountTo, value, named
<1> QED BY <1>6,<1>7,<1>8

\* Whatever the realm is asked of its values, the result is good.
LEMMA RealmGood ==
  ASSUME NEW r, r.vals \in Values, r.named \in SUBSET Keys, NEW op, DataOp(op)
  PROVE  Good(r, op, Room(r.vals), RealmResult(op, r))
<1>1. Room(r.vals) \in BOOLEAN BY DEF Room
<1>2. op.kind \in {"get", "set", "delete", "increment", "assign", "add", "reset"} BY DEF DataOp, DataKinds
<1> QED BY <1>1,<1>2, GetGood, SetGood, DeleteGood, IncrementGood, ResetGood, CountGood DEF RealmResult

\* The same for the coordinator, which never refuses for lack of room here.
LEMMA LegacyGood ==
  ASSUME legacy.vals \in Values, legacy.named \in SUBSET Keys, NEW op, DataOp(op), op.at = "legacy"
  PROVE  Good(legacy, op, TRUE, LegacyResult(op))
<1>1. op.kind \in {"set", "delete", "increment", "assign", "add", "reset"} BY DEF DataOp, DataKinds, Sayable
<1>2. op.key \in Counters <=> op.kind \in {"assign", "add", "reset"} BY <1>1, Constants DEF DataOp, Sayable
<1> QED BY <1>1,<1>2, SetGood, DeleteGood, IncrementGood, CountGood DEF LegacyResult

-----------------------------------------------------------------------------
(* The inductive invariant                                                   *)

Mine == setting.ops \cup [kind : {"get"}, at : {"realm"}, key : Keys]
Excused == history \cap {"late", "passed"} # {}
Waits(op) == op.kind \notin {"clone", "empty", "unwatch"}

\* The namespace: what was never written is empty, and a state that may still
\* be adopted is neither sealed nor archived.
RowInv ==
  /\ setting \in Settings /\ declared \in Nat /\ declared > 0
  /\ IsRow(row) /\ row.schema <= declared
  /\ Cardinality(Entries(row.vals)) <= setting.maxEntries
  /\ row.schema = 0 => row = NoRow
  /\ row.mv = 0 => Entries(row.vals) = {} /\ (setting.adopts => Writable)
  /\ \A m \in materials : row.mv > 0 /\ Replayed(m.key) = {m}

\* The coordinator: nothing writes to a state nobody may adopt.
LegacyInv ==
  /\ legacy \in [sealed : BOOLEAN, vals : Values, named : SUBSET Keys, rev : Nat]
  /\ (\A op \in setting.ops : op.at # "legacy") => legacy.rev = 0 /\ legacy.vals = setting.legacy

\* A call asks one of ops; one that joined waits for an adoption (busy); one that
\* runs found the namespace created (made), and adopted (done) if it waits for that.
CallFine(w, ops, busy, made, done) ==
  \/ w = Idle
  \/ /\ w.op \in ops
     /\ \/ w.pc \in {"sent", "hashing", "joined", "ready"} /\ w = [pc |-> w.pc, op |-> w.op]
        \/ w.pc = "answered" /\ w = [pc |-> w.pc, op |-> w.op, answer |-> w.answer] /\ w.op.kind \in DataKinds
     /\ w.pc = "hashing" => w.op.at = "legacy" /\ w.op.key \in Counters
     /\ w.pc = "joined" => w.op.at = "realm" /\ busy
     /\ w.pc = "ready" => w.op.at = "realm" /\ made /\ (Waits(w.op) => done)

Busy == adopting.pc # "none"
Made == row.schema > 0

CallsInv ==
  /\ call = [c \in Callers |-> call[c]]
  /\ \A c \in Callers : CallFine(call[c], Mine, Busy, Made, ~Unadopted)

\* The adoption: it carries what the coordinator sealed, and its outcome
\* stands once the realm has a version.
AdoptInv ==
  /\ \/ adopting = NotAdopting \/ adopting = [pc |-> "asked"] \/ adopting = [pc |-> "filled"]
     \/ adopting.pc = "sealed" /\ adopting = [pc |-> "sealed", content |-> adopting.content]
                               /\ adopting.content \in Contents
  /\ adopting.pc # "none" => Unadopted /\ row.schema > 0
  /\ adopting.pc = "sealed" => legacy.sealed /\ (adopting.content.vals = legacy.vals \/ Excused)
  /\ adopting.pc = "filled" => legacy.sealed /\ Replayed(LegacyKey) # {} /\ row.mv > 0
  /\ adoption \in {"none", "adopted", "already_materialized"}
  /\ adoption = "adopted" => legacy.sealed /\ Replayed(LegacyKey) # {}
  /\ adoption # "none" => row.mv > 0

IInv == RowInv /\ LegacyInv /\ CallsInv /\ AdoptInv

\* The facts about the chosen setting.
LEMMA SettingFacts ==
  ASSUME setting \in Settings
  PROVE  /\ IsRow(setting.row) /\ setting.row.schema <= 1 /\ (setting.row.schema = 0 => setting.row = NoRow)
         /\ setting.row.mv = 0 => /\ Entries(setting.row.vals) = {}
                                  /\ setting.adopts => setting.row.frozen = Nothing /\ setting.row.seal = Nothing
         /\ setting.maxEntries \in Nat /\ Cardinality(Entries(setting.row.vals)) <= setting.maxEntries
         /\ setting.legacy \in Values
BY SettingsAssumption

\* What is asked is sayable; who asks for legacy state may adopt it, and who
\* fills a namespace has none.
LEMMA AskedFacts ==
  ASSUME setting \in Settings, NEW op \in Mine
  PROVE  /\ Sayable(op)
         /\ op.at = "legacy" => setting.adopts /\ op \in setting.ops
         /\ op.kind \in {"clone", "empty"} =>
              setting.legacy = NoValues /\ \A other \in setting.ops : other.at # "legacy"
<1>1. CASE op \in setting.ops BY <1>1, SettingsAssumption
<1>2. CASE op \in [kind : {"get"}, at : {"realm"}, key : Keys] BY <1>2 DEF Sayable
<1> QED BY <1>1,<1>2 DEF Mine

\* A kind of operation tells where it is asked and of which values.
LEMMA Kinds ==
  ASSUME NEW op, Sayable(op)
  PROVE  /\ op.kind \notin DataKinds => op.at = "realm"
         /\ op.at \in Places
         /\ op.kind \in DataKinds => DataOp(op)
         /\ op.kind \notin {"clone", "empty", "unwatch"} <=> Waits(op)
         /\ op.kind \in DataKinds => Waits(op)
         /\ op.kind = "clone" => op.content \in Contents
         /\ op.at \in {"commit", "legacy"} => op.kind \in DataKinds
BY DEF Sayable, DataKinds, Places, DataOp, Waits

LEMMA EntriesFinite ==
  ASSUME NEW vals
  PROVE  IsFiniteSet(Entries(vals)) /\ Cardinality(Entries(vals)) \in Nat /\ Entries(vals) \subseteq Keys
<1>1. Entries(vals) \subseteq Keys BY DEF Entries
<1> QED BY <1>1, Constants, FS_Subset, FS_CardinalityType

LEMMA EmptyFacts == /\ NoValues \in Values /\ Entries(NoValues) = {} /\ Empty \in Contents
                    /\ \A vals \in Values : Entries(vals) = {} => vals = NoValues
BY DEF NoValues, Values, Entries, Empty, Contents

\* A row put together, its parts, and what an update of one of them leaves.
Made6(schema, mv, frozen, seal, vals, named) ==
  [schema |-> schema, mv |-> mv, frozen |-> frozen, seal |-> seal, vals |-> vals, named |-> named]

Whole(r) == r = Made6(r.schema, r.mv, r.frozen, r.seal, r.vals, r.named)

LEMMA RowParts ==
  ASSUME NEW r, IsRow(r)
  PROVE  /\ r.schema \in Nat /\ r.mv \in Nat /\ r.vals \in Values /\ r.named \in SUBSET Keys
         /\ Whole(r)
BY DEF IsRow, Made6, Whole

LEMMA MadeParts ==
  ASSUME NEW schema, NEW mv, NEW frozen, NEW seal, NEW vals, NEW named, NEW r,
         r = Made6(schema, mv, frozen, seal, vals, named)
  PROVE  /\ r.schema = schema /\ r.mv = mv /\ r.frozen = frozen /\ r.seal = seal /\ r.vals = vals /\ r.named = named
         /\ Whole(r)
BY DEF Made6, Whole

LEMMA UpdateMark ==
  ASSUME NEW r, Whole(r), NEW a
  PROVE  /\ [r EXCEPT !.seal = a] = Made6(r.schema, r.mv, r.frozen, a, r.vals, r.named)
         /\ [r EXCEPT !.frozen = a] = Made6(r.schema, r.mv, a, r.seal, r.vals, r.named)
BY DEF Made6, Whole

LEMMA UpdateVersion ==
  ASSUME NEW r, Whole(r), NEW a, NEW b
  PROVE  [r EXCEPT !.schema = a, !.mv = b] = Made6(a, b, r.frozen, r.seal, r.vals, r.named)
<1> DEFINE x == [r EXCEPT !.schema = a, !.mv = b]
<1>1. DOMAIN x = {"schema", "mv", "frozen", "seal", "vals", "named"} BY DEF Made6, Whole
<1>2. x.schema = a /\ x.mv = b /\ x.frozen = r.frozen /\ x.seal = r.seal /\ x.vals = r.vals /\ x.named = r.named
 BY DEF Made6, Whole
<1>3. x = [k \in DOMAIN x |-> x[k]] OBVIOUS
<1> HIDE DEF x
<1>4. Made6(a, b, r.frozen, r.seal, r.vals, r.named) = x BY <1>1,<1>2,<1>3 DEF Made6
<1> QED BY <1>4 DEF x

LEMMA UpdateContent ==
  ASSUME NEW r, Whole(r), NEW a, NEW b, NEW c, NEW x, x = [r EXCEPT !.vals = a, !.named = b, !.mv = c]
  PROVE  x = Made6(r.schema, c, r.frozen, r.seal, a, b)
<1>1. DOMAIN x = {"schema", "mv", "frozen", "seal", "vals", "named"} BY DEF Made6, Whole
<1>2. x.schema = r.schema /\ x.mv = c /\ x.frozen = r.frozen /\ x.seal = r.seal /\ x.vals = a /\ x.named = b
 BY DEF Made6, Whole
<1>3. x = [k \in DOMAIN x |-> x[k]] OBVIOUS
<1> QED BY <1>1,<1>2,<1>3 DEF Made6

\* The values change within what is declared, and the version with them.
LEMMA RowChanges ==
  ASSUME RowInv, NEW vals \in Values, NEW named \in SUBSET Keys, NEW schema \in Nat, NEW mv \in Nat,
         row' = Made6(schema, mv, row.frozen, row.seal, vals, named),
         setting' = setting, declared' = declared, schema <= declared, schema > 0,
         Cardinality(Entries(vals)) <= setting.maxEntries,
         mv >= row.mv, mv = row.mv => vals = row.vals,
         \A m \in materials' : mv > 0 /\ Replayed(m.key)' = {m}
  PROVE  RowInv'
<1>1. IsRow(row) BY DEF RowInv
<1>2. /\ row'.schema = schema /\ row'.mv = mv /\ row'.frozen = row.frozen /\ row'.seal = row.seal
      /\ row'.vals = vals /\ row'.named = named BY MadeParts
<1>3. IsRow(row') BY <1>2 DEF IsRow, Made6
<1>4. mv = 0 => row.mv = 0 /\ vals = row.vals BY <1>1, RowParts
<1>5. row.mv = 0 => Entries(row.vals) = {} /\ (setting.adopts => Writable) BY DEF RowInv
<1>6. mv = 0 => Entries(vals) = {} /\ (setting.adopts => Writable') BY <1>2,<1>4,<1>5 DEF Writable
<1> QED BY <1>2,<1>3,<1>6 DEF RowInv

-----------------------------------------------------------------------------
(* Steps                                                                     *)

\* What no step undoes.
Grows ==
  /\ setting' = setting /\ history \subseteq history'
  /\ row.schema > 0 => row'.schema > 0
  /\ row.mv > 0 => row'.mv > 0
  /\ materials \subseteq materials'
  /\ legacy.sealed => legacy'.sealed
  /\ legacy'.vals = legacy.vals \/ Excused' \/ ~legacy.sealed
  /\ adoption # "none" => adoption' = adoption

\* The calls, when each is as it was, or over, or did as its kind may.
LEMMA CallsStay ==
  ASSUME CallsInv, Grows, call' = [c \in Callers |-> call'[c]],
         \A c \in Callers :
           \/ call'[c] = call[c] /\ (call[c].pc = "joined" => Busy')
           \/ CallFine(call'[c], Mine, Busy', Made', ~Unadopted')
  PROVE  CallsInv'
<1>1. Mine' = Mine /\ (Made => Made') /\ (~Unadopted => ~Unadopted') BY DEF Grows, Mine, Made, Unadopted
<1>3. ASSUME NEW c \in Callers, call'[c] = call[c], call[c].pc = "joined" => Busy'
      PROVE  CallFine(call'[c], Mine, Busy', Made', ~Unadopted')
 <2>1. CallFine(call[c], Mine, Busy, Made, ~Unadopted) BY DEF CallsInv
 <2> QED BY <1>1,<1>3,<2>1 DEF CallFine
<1> QED BY <1>1,<1>3 DEF CallsInv

LEMMA OneCall ==
  ASSUME CallsInv, Grows, NEW c \in Callers, NEW w, call' = [call EXCEPT ![c] = w],
         CallFine(w, Mine, Busy', Made', ~Unadopted'), adopting' = adopting \/ Busy'
  PROVE  CallsInv'
<1>1. call' = [d \in Callers |-> IF d = c THEN w ELSE call[d]] /\ call' = [d \in Callers |-> call'[d]]
 BY DEF CallsInv
<1>2. ASSUME NEW d \in Callers, d # c
      PROVE  call'[d] = call[d] /\ (call[d].pc = "joined" => Busy')
 <2>1. CallFine(call[d], Mine, Busy, Made, ~Unadopted) BY DEF CallsInv
 <2>2. call[d].pc = "joined" => Busy BY <2>1 DEF CallFine, Idle
 <2> QED BY <1>1,<1>2,<2>2 DEF Busy
<1>3. CallFine(call'[c], Mine, Busy', Made', ~Unadopted') BY <1>1
<1> QED BY <1>1,<1>2,<1>3, CallsStay

LEMMA CallsDropped ==
  ASSUME CallsInv, Grows, NEW S, call' = Dropping(S, call), adopting' = adopting \/ Joined \subseteq S
  PROVE  CallsInv'
<1>1. call' = [d \in Callers |-> call'[d]] /\ \A d \in Callers : call'[d] = IF d \in S THEN Idle ELSE call[d]
 BY DEF Dropping
<1>2. ASSUME NEW d \in Callers, d \notin S
      PROVE  call'[d] = call[d] /\ (call[d].pc = "joined" => Busy')
 <2>1. CallFine(call[d], Mine, Busy, Made, ~Unadopted) BY DEF CallsInv
 <2>2. call[d].pc = "joined" => Busy /\ d \in Joined BY <2>1 DEF CallFine, Idle, Joined
 <2> QED BY <1>1,<1>2,<2>2 DEF Busy
<1>3. ASSUME NEW d \in Callers, d \in S
      PROVE  CallFine(call'[d], Mine, Busy', Made', ~Unadopted') BY <1>1,<1>3 DEF CallFine
<1> QED BY <1>1,<1>2,<1>3, CallsStay

\* A call in progress, whole and after it is given another place.
LEMMA CallParts ==
  ASSUME CallsInv, NEW c \in Callers, call[c].pc # "idle"
  PROVE  /\ call[c].op \in Mine
         /\ call[c].pc # "answered" => call[c] = [pc |-> call[c].pc, op |-> call[c].op]
         /\ call[c].pc \in {"sent", "hashing", "joined", "ready", "answered"}
         /\ call[c].pc = "hashing" => call[c].op.at = "legacy" /\ call[c].op.key \in Counters
         /\ call[c].pc = "joined" => call[c].op.at = "realm" /\ Busy
         /\ call[c].pc = "ready" => call[c].op.at = "realm" /\ Made /\ (Waits(call[c].op) => ~Unadopted)
         /\ call[c].pc = "answered" => call[c].op.kind \in DataKinds
<1>1. CallFine(call[c], Mine, Busy, Made, ~Unadopted) /\ call[c] # Idle BY DEF CallsInv, Idle
<1> QED BY <1>1 DEF CallFine

LEMMA Moved ==
  ASSUME CallsInv, NEW c \in Callers, call[c].pc \notin {"idle", "answered"}, NEW pc, To(c, pc)
  PROVE  call' = [call EXCEPT ![c] = [pc |-> pc, op |-> call[c].op]]
<1>1. call[c] = [pc |-> call[c].pc, op |-> call[c].op] /\ call = [d \in Callers |-> call[d]]
 BY CallParts DEF CallsInv
<1>2. [call[c] EXCEPT !.pc = pc] = [pc |-> pc, op |-> call[c].op] BY <1>1
<1> QED BY <1>1,<1>2 DEF To

LEMMA RowStays == ASSUME RowInv, UNCHANGED <<setting, declared, row, materials>> PROVE RowInv'
BY DEF RowInv, Replayed, Writable

LEMMA LegacyStays == ASSUME LegacyInv, UNCHANGED <<setting, legacy>> PROVE LegacyInv'
BY DEF LegacyInv

\* The adoption goes on, or is forgotten, while its outcome stays open.
LEMMA AdoptStays ==
  ASSUME AdoptInv, Grows, adopting' \in {adopting, NotAdopting}, adoption' = adoption
  PROVE  AdoptInv'
<1>1. NotAdopting.pc = "none" BY DEF NotAdopting
<1>2. Unadopted' = Unadopted BY DEF Grows, Unadopted
<1>3. \A key : Replayed(key) # {} => Replayed(key)' # {} BY DEF Grows, Replayed
<1>4. Excused => Excused' BY DEF Grows, Excused
<1>5. legacy.sealed => legacy'.sealed /\ (legacy'.vals = legacy.vals \/ Excused') BY DEF Grows
<1>6. CASE adopting' = NotAdopting BY <1>1,<1>3,<1>5,<1>6 DEF AdoptInv, Grows
<1>7. CASE adopting' = adopting BY <1>2,<1>3,<1>4,<1>5,<1>7 DEF AdoptInv, Grows
<1> QED BY <1>6,<1>7

\* A request creates the namespace, or upgrades it and advances its version.
LEMMA EnsuredParts ==
  ASSUME RowInv
  PROVE  /\ Whole(Ensured)
         /\ Ensured.schema = declared /\ Ensured.mv = IF Upgrades THEN row.mv + 1 ELSE row.mv
         /\ Ensured.vals = row.vals /\ Ensured.named = row.named
         /\ Ensured.frozen = row.frozen /\ Ensured.seal = row.seal
         /\ Ensured.mv \in Nat /\ Ensured.mv >= row.mv
<1>1. row.mv \in Nat /\ Whole(row) BY RowParts DEF RowInv
<1> DEFINE mv == IF Upgrades THEN row.mv + 1 ELSE row.mv
<1>2. Ensured = [row EXCEPT !.schema = declared, !.mv = mv] BY DEF Ensured
<1>3. mv \in Nat /\ mv >= row.mv BY <1>1
<1> HIDE DEF mv
<1>4. Ensured = Made6(declared, mv, row.frozen, row.seal, row.vals, row.named) BY <1>1,<1>2, UpdateVersion
<1> QED BY <1>3,<1>4, MadeParts DEF mv

LEMMA EnsuredInv ==
  ASSUME RowInv, row' = Ensured, UNCHANGED <<setting, declared, materials>>
  PROVE  RowInv' /\ row'.schema > 0 /\ (row.mv > 0 => row'.mv > 0)
<1>1. row.vals \in Values /\ row.named \in SUBSET Keys /\ row.mv \in Nat BY RowParts DEF RowInv
<1>2. /\ row'.mv \in Nat /\ row'.mv >= row.mv /\ row'.schema = declared
      /\ row' = Made6(declared, row'.mv, row.frozen, row.seal, row.vals, row.named) BY EnsuredParts DEF Whole
<1>3. \A m \in materials' : row'.mv > 0 /\ Replayed(m.key)' = {m} BY <1>1,<1>2 DEF RowInv, Replayed
<1>4. declared \in Nat /\ declared > 0 /\ declared <= declared /\ Cardinality(Entries(row.vals)) <= setting.maxEntries
 BY DEF RowInv
<1>5. RowInv' BY <1>1,<1>2,<1>3,<1>4, RowChanges
<1> QED BY <1>1,<1>2,<1>4,<1>5

\* The result of an operation, put into r.
LEMMA AppliedParts ==
  ASSUME NEW r, Whole(r), NEW result, NEW touched
  PROVE  Applied(r, result, touched) = Made6(r.schema, IF touched THEN r.mv + 1 ELSE r.mv, r.frozen, r.seal,
                                             result.vals, result.named)
<1> DEFINE mv == IF touched THEN r.mv + 1 ELSE r.mv
<1>1. Applied(r, result, touched) = [r EXCEPT !.vals = result.vals, !.named = result.named, !.mv = mv]
 BY DEF Applied
<1> DEFINE vals == result.vals  named == result.named
<1>2. Applied(r, result, touched) = [r EXCEPT !.vals = vals, !.named = named, !.mv = mv] BY <1>1
<1> HIDE DEF mv, vals, named
<1>3. Applied(r, result, touched) = Made6(r.schema, mv, r.frozen, r.seal, vals, named) BY <1>2, UpdateContent
<1> QED BY <1>3 DEF mv, vals, named

\* A good result keeps the namespace within what the feature declares.
LEMMA GoodFits ==
  ASSUME NEW r, NEW op, NEW result, Good(r, op, Room(r.vals), result), setting.maxEntries \in Nat,
         Cardinality(Entries(r.vals)) <= setting.maxEntries
  PROVE  Cardinality(Entries(result.vals)) <= setting.maxEntries
<1>1. IsFiniteSet(Entries(r.vals)) /\ Cardinality(Entries(r.vals)) \in Nat /\ Cardinality(Entries(result.vals)) \in Nat
 BY EntriesFinite
<1>2. CASE Entries(result.vals) \subseteq Entries(r.vals) BY <1>1,<1>2, FS_Subset
<1>3. CASE Room(r.vals) /\ Entries(result.vals) \subseteq Entries(r.vals) \cup {op.key}
 <2>1. Cardinality(Entries(r.vals)) < setting.maxEntries BY <1>3 DEF Room
 <2>2. /\ IsFiniteSet(Entries(r.vals) \cup {op.key})
       /\ Cardinality(Entries(r.vals) \cup {op.key}) <= Cardinality(Entries(r.vals)) + 1
       /\ Cardinality(Entries(r.vals) \cup {op.key}) \in Nat
  <3> DEFINE old == Entries(r.vals)
  <3> HIDE DEF old
  <3>1. IsFiniteSet(old) /\ Cardinality(old) \in Nat BY <1>1 DEF old
  <3>2. IsFiniteSet(old \cup {op.key})
        /\ Cardinality(old \cup {op.key}) = IF op.key \in old THEN Cardinality(old) ELSE Cardinality(old) + 1
   BY <3>1, FS_AddElement
  <3>3. Cardinality(old \cup {op.key}) <= Cardinality(old) + 1 /\ Cardinality(old \cup {op.key}) \in Nat
   BY <3>1,<3>2
  <3> QED BY <3>2,<3>3 DEF old
 <2>3. Cardinality(Entries(result.vals)) <= Cardinality(Entries(r.vals) \cup {op.key})
  <3> DEFINE more == Entries(r.vals) \cup {op.key}  new == Entries(result.vals)
  <3>1. IsFiniteSet(more) /\ new \in SUBSET more BY <1>3,<2>2
  <3> HIDE DEF more, new
  <3>2. Cardinality(new) <= Cardinality(more) BY <3>1, FS_Subset
  <3> QED BY <3>2 DEF more, new
 <2> QED BY <1>1,<2>1,<2>2,<2>3
<1> QED BY <1>2,<1>3 DEF Good

\* A good result, put into the namespace as it is or as a request ensured it.
LEMMA AppliedInv ==
  ASSUME RowInv, NEW r, (r = row /\ row.schema > 0) \/ r = Ensured, NEW op, NEW result, NEW touched \in BOOLEAN,
         Good(r, op, Room(r.vals), result), result.touched => touched,
         row' = Applied(r, result, touched), UNCHANGED <<setting, declared, materials>>
  PROVE  /\ RowInv' /\ row'.schema > 0 /\ (row.mv > 0 => row'.mv > 0)
         /\ row'.vals = result.vals /\ row'.named = result.named
         /\ row'.frozen = row.frozen /\ row'.seal = row.seal /\ row'.schema = r.schema
         /\ r.vals = row.vals /\ r.named = row.named /\ row'.mv >= row.mv /\ (touched => row'.mv > row.mv)
         /\ r = Ensured /\ Upgrades => row'.mv > row.mv
<1>1. /\ row.vals \in Values /\ row.named \in SUBSET Keys /\ row.mv \in Nat /\ row.schema \in Nat
      /\ Whole(row)
      /\ declared \in Nat /\ declared > 0 /\ IsRow(row)
      /\ row.schema <= declared /\ Cardinality(Entries(row.vals)) <= setting.maxEntries BY RowParts DEF RowInv
<1>2. /\ r.vals = row.vals /\ r.named = row.named /\ r.frozen = row.frozen /\ r.seal = row.seal
      /\ r.mv \in Nat /\ r.mv >= row.mv /\ r.schema \in Nat /\ r.schema > 0 /\ r.schema <= declared
      /\ Whole(r)
      /\ r = Ensured /\ Upgrades => r.mv > row.mv
 <2>1. CASE r = Ensured
  <3>1. declared <= declared BY <1>1
  <3>2. Upgrades => Ensured.mv > row.mv BY <1>1, EnsuredParts
  <3> QED BY <1>1,<2>1,<3>1,<3>2, EnsuredParts
 <2>2. CASE r = row /\ row.schema > 0 /\ r # Ensured BY <1>1,<2>2
 <2> QED BY <2>1,<2>2
<1> DEFINE mv == IF touched THEN r.mv + 1 ELSE r.mv
<1>3. mv \in Nat /\ mv >= row.mv /\ mv >= r.mv /\ (touched => mv > row.mv) BY <1>1,<1>2
<1>4. row' = Made6(r.schema, mv, row.frozen, row.seal, result.vals, result.named) BY <1>2, AppliedParts
<1>5. ~touched => mv = r.mv OBVIOUS
<1> HIDE DEF mv
<1>6. /\ result.vals \in Values /\ result.named \in SUBSET Keys
      /\ ~touched => result.vals = row.vals BY <1>2 DEF Good
<1>7. Cardinality(Entries(result.vals)) <= setting.maxEntries BY <1>1,<1>2, GoodFits, SettingFacts DEF RowInv
<1>8. \A m \in materials' : mv > 0 /\ Replayed(m.key)' = {m} BY <1>1,<1>3 DEF RowInv, Replayed
<1>9. mv = row.mv => result.vals = row.vals BY <1>1,<1>3,<1>6
<1>10. RowInv' BY <1>2,<1>3,<1>4,<1>6,<1>7,<1>8,<1>9, RowChanges
<1>11. /\ row'.schema = r.schema /\ row'.mv = mv /\ row'.vals = result.vals /\ row'.named = result.named
       /\ row'.frozen = row.frozen /\ row'.seal = row.seal BY <1>4, MadeParts
<1>12. (row.mv > 0 => mv > 0) /\ (r = Ensured /\ Upgrades => mv > row.mv) BY <1>1,<1>2,<1>3
<1> QED BY <1>2,<1>3,<1>10,<1>11,<1>12

\* A snapshot, or the empty state, fills a namespace that was never used.
LEMMA FillInv ==
  ASSUME RowInv, row.schema > 0, NEW key, NEW content \in Contents, Fillable(key, content), Fill(key, content),
         UNCHANGED <<setting, declared>>
  PROVE  /\ RowInv' /\ row'.schema > 0 /\ row'.mv > 0 /\ row'.vals = content.vals
         /\ row'.frozen = row.frozen /\ row'.seal = row.seal /\ row.mv = 0
         /\ materials \subseteq materials' /\ Replayed(key)' # {}
<1>1. /\ row.mv \in Nat /\ row.schema \in Nat /\ row.schema <= declared
      /\ Whole(row) BY RowParts DEF RowInv
<1>2. content.vals \in Values /\ content.named \in SUBSET Keys BY DEF Contents
<1>3. row.mv = 0 /\ Replayed(key) = {} /\ Cardinality(Entries(content.vals)) <= setting.maxEntries
 BY DEF Fillable, NeverUsed, Acceptable
<1>4. row' = Made6(row.schema, 1, row.frozen, row.seal, content.vals, content.named)
 <2>1. row' = [row EXCEPT !.vals = content.vals, !.named = content.named, !.mv = 1] BY <1>3 DEF Fill
 <2> DEFINE vals == content.vals  named == content.named
 <2>2. row' = [row EXCEPT !.vals = vals, !.named = named, !.mv = 1] BY <2>1
 <2> HIDE DEF vals, named
 <2>3. row' = Made6(row.schema, 1, row.frozen, row.seal, vals, named) BY <1>1,<2>2, UpdateContent
 <2> QED BY <2>3 DEF vals, named
<1>5. /\ row'.schema = row.schema /\ row'.mv = 1 /\ row'.vals = content.vals
      /\ row'.frozen = row.frozen /\ row'.seal = row.seal BY <1>4, MadeParts
<1> DEFINE new == [key |-> key, content |-> content]
<1>6. materials' = materials \cup {new} BY DEF Fill
<1>7. ASSUME NEW m \in materials' PROVE Replayed(m.key)' = {m}
 <2>1. CASE m \in materials
  <3>1. m.key # key BY <1>3,<2>1 DEF Replayed
  <3> QED BY <1>6,<2>1,<3>1 DEF RowInv, Replayed
 <2>2. CASE m = new BY <1>3,<1>6,<2>2 DEF Replayed
 <2> QED BY <1>6,<1>7,<2>1,<2>2
<1>8. RowInv'
 <2>1. \A m \in materials' : 1 > 0 /\ Replayed(m.key)' = {m} BY <1>7
 <2>2. 1 \in Nat /\ 1 >= row.mv /\ (1 = row.mv => content.vals = row.vals) BY <1>3
 <2> QED BY <1>1,<1>2,<1>3,<1>4,<2>1,<2>2, RowChanges
<1>9. Replayed(key)' # {}
 <2>1. new \in materials' /\ new.key = key BY <1>6
 <2> HIDE DEF new
 <2> QED BY <2>1 DEF Replayed
<1>10. materials \subseteq materials' /\ 1 > 0 BY <1>6
<1> QED BY <1>3,<1>5,<1>8,<1>9,<1>10

-----------------------------------------------------------------------------
(* The invariant is inductive                                                *)

LEMMA InitInv == Init => IInv
<1> SUFFICES ASSUME Init PROVE IInv OBVIOUS
<1>1. RowInv
 <2>1. declared = 1 /\ setting \in Settings /\ row = setting.row /\ materials = {} BY DEF Init
 <2> QED BY <2>1, SettingFacts DEF RowInv, Writable
<1>2. LegacyInv BY SettingFacts DEF Init, LegacyInv
<1>3. CallsInv BY DEF Init, CallsInv, CallFine
<1>4. AdoptInv BY DEF Init, AdoptInv, NotAdopting
<1> QED BY <1>1,<1>2,<1>3,<1>4 DEF IInv

\* Steps that leave the tables alone.
Quiet == UNCHANGED <<setting, row, adoption, materials, legacy>> /\ history \subseteq history'

LEMMA QuietGrows == ASSUME Quiet PROVE Grows
BY DEF Quiet, Grows

LEMMA QuietInv ==
  ASSUME IInv, Quiet, UNCHANGED declared, adopting' \in {adopting, NotAdopting}, CallsInv'
  PROVE  IInv'
<1>1. RowInv' /\ LegacyInv' BY RowStays, LegacyStays DEF IInv, Quiet
<1>2. AdoptInv' BY QuietGrows, AdoptStays DEF IInv, Quiet
<1> QED BY <1>1,<1>2 DEF IInv

LEMMA RefuseInv ==
  ASSUME CallsInv, Grows, NEW c \in Callers, Refuse(c), UNCHANGED adopting
  PROVE  CallsInv'
<1>1. CallFine(Idle, Mine, Busy', Made', ~Unadopted') BY DEF CallFine
<1> QED BY <1>1, OneCall DEF Refuse

LEMMA SendInv ==
  ASSUME IInv, NEW op \in Mine, Send(op), UNCHANGED <<setting, declared, row, adoption, materials, legacy, adopting, history>>
  PROVE  IInv'
<1>1. Quiet BY DEF Quiet
<1>2. PICK c \in Callers : call' = [call EXCEPT ![c] = [pc |-> "sent", op |-> op]] BY DEF Send
<1>3. CallFine([pc |-> "sent", op |-> op], Mine, Busy', Made', ~Unadopted') BY DEF CallFine
<1>4. CallsInv' BY <1>1,<1>2,<1>3, OneCall, QuietGrows DEF IInv
<1> QED BY <1>1,<1>4, QuietInv

LEMMA AskInv == ASSUME IInv, Ask \/ LookAgain PROVE IInv'
<1>1. CASE Ask
 <2>1. PICK op \in setting.ops : Send(op) BY <1>1 DEF Ask
 <2>2. op \in Mine BY DEF Mine
 <2> QED BY <1>1,<2>1,<2>2, SendInv DEF Ask
<1>2. CASE LookAgain
 <2>1. PICK k \in Keys : Send([kind |-> "get", at |-> "realm", key |-> k]) BY <1>2 DEF LookAgain
 <2>2. [kind |-> "get", at |-> "realm", key |-> k] \in Mine BY DEF Mine
 <2> QED BY <1>2,<2>1,<2>2, SendInv DEF LookAgain
<1> QED BY <1>1,<1>2

\* A call that ends, and leaves everything else.
LEMMA EndsInv ==
  ASSUME IInv, NEW c \in Callers, Return(c) \/ LegacyRefused(c) \/ CannotOpen(c) \/ NoTransition(c)
  PROVE  IInv'
<1>1. Quiet /\ Refuse(c) /\ UNCHANGED <<declared, adopting>>
 BY DEF Return, LegacyRefused, CannotOpen, NoTransition, Quiet
<1> QED BY <1>1, QuietGrows, RefuseInv, QuietInv DEF IInv

LEMMA HashesInv == ASSUME IInv, NEW c \in Callers, LegacyHashes(c) PROVE IInv'
<1>1. Quiet /\ UNCHANGED <<declared, adopting>> /\ To(c, "hashing") /\ call[c].pc = "sent" /\ call[c].op.at = "legacy"
      /\ call[c].op.key \in Counters BY DEF LegacyHashes, Quiet, Sent
<1>2. call' = [call EXCEPT ![c] = [pc |-> "hashing", op |-> call[c].op]] /\ call[c].op \in Mine
 BY <1>1, Moved, CallParts DEF IInv
<1>3. CallFine([pc |-> "hashing", op |-> call[c].op], Mine, Busy', Made', ~Unadopted') BY <1>1,<1>2 DEF CallFine
<1>4. CallsInv' BY <1>1,<1>2,<1>3, OneCall, QuietGrows DEF IInv
<1> QED BY <1>1,<1>4, QuietInv

\* The coordinator writes: after the seal, the excuse is noted.
LEMMA LegacyAppliedInv ==
  ASSUME IInv, NEW c \in Callers, LegacyApplied(c),
         call[c].pc \in {"sent", "hashing"}, call[c].op.at = "legacy"
  PROVE  /\ IInv' /\ DataOp(call[c].op) /\ setting.adopts
         /\ Good(legacy, call[c].op, TRUE, LegacyResult(call[c].op))
         /\ legacy'.vals = LegacyResult(call[c].op).vals /\ legacy'.named = LegacyResult(call[c].op).named
         /\ legacy.rev \in Nat
         /\ legacy'.rev = IF LegacyResult(call[c].op).touched THEN legacy.rev + 1 ELSE legacy.rev
<1> DEFINE op == call[c].op  result == LegacyResult(op)
           rev == IF result.touched THEN legacy.rev + 1 ELSE legacy.rev
<1>1. op \in Mine /\ DataOp(op) /\ setting.adopts /\ op \in setting.ops /\ op.at = "legacy"
 <2>1. op \in Mine /\ setting \in Settings BY CallParts DEF IInv, RowInv
 <2> QED BY <2>1, AskedFacts, Kinds
<1>2. /\ legacy \in [sealed : BOOLEAN, vals : Values, named : SUBSET Keys, rev : Nat]
      /\ legacy.vals \in Values /\ legacy.named \in SUBSET Keys /\ legacy.rev \in Nat BY DEF IInv, LegacyInv
<1>3. Good(legacy, op, TRUE, result) BY <1>1,<1>2, LegacyGood
<1>4. legacy' = [legacy EXCEPT !.vals = result.vals, !.named = result.named, !.rev = rev] BY DEF LegacyApplied
<1>5. result.vals \in Values /\ result.named \in SUBSET Keys /\ rev \in Nat BY <1>2,<1>3 DEF Good
<1>6. UNCHANGED <<setting, declared, row, adoption, materials, adopting, left>> BY DEF LegacyApplied
<1> HIDE DEF result, rev, op
<1>7. /\ legacy' \in [sealed : BOOLEAN, vals : Values, named : SUBSET Keys, rev : Nat]
      /\ legacy'.sealed = legacy.sealed /\ legacy'.vals = result.vals
      /\ legacy'.named = result.named /\ legacy'.rev = rev BY <1>2,<1>4,<1>5
<1>8. history \subseteq history' /\ (legacy.sealed => Excused') BY DEF LegacyApplied, Excused
<1>9. Grows BY <1>6,<1>7,<1>8 DEF Grows
<1>10. RowInv' /\ AdoptInv' BY <1>6,<1>9, RowStays, AdoptStays DEF IInv
<1>11. LegacyInv' BY <1>1,<1>6,<1>7 DEF LegacyInv
<1>12. CallsInv'
 <2>1. call' = [call EXCEPT ![c] = [pc |-> "answered", op |-> op, answer |-> result.answer]]
  BY DEF LegacyApplied, Answered, op, result
 <2>2. CallFine([pc |-> "answered", op |-> op, answer |-> result.answer], Mine, Busy', Made', ~Unadopted')
  BY <1>1 DEF CallFine, DataOp
 <2> QED BY <1>6,<1>9,<2>1,<2>2, OneCall DEF IInv
<1> QED BY <1>1,<1>2,<1>3,<1>7,<1>10,<1>11,<1>12 DEF IInv, op, result, rev

LEMMA LegacyInvStep ==
  ASSUME IInv, NEW c \in Callers, LegacyWrite(c) \/ LegacyCounts(c)
  PROVE  /\ LegacyApplied(c) /\ call[c].pc \in {"sent", "hashing"} /\ call[c].op.at = "legacy"
         /\ LegacyResult(call[c].op).ok \/ call[c].op.key \in Counters
         /\ IInv'
<1>1. CASE LegacyWrite(c) BY <1>1, LegacyAppliedInv DEF LegacyWrite, Sent
<1>2. CASE LegacyCounts(c)
 <2>1. /\ call[c].op.at = "legacy" /\ call[c].op.key \in Counters /\ call[c].pc = "hashing"
       /\ LegacyApplied(c) BY <1>2, CallParts DEF LegacyCounts, IInv
 <2> QED BY <2>1, LegacyAppliedInv
<1> QED BY <1>1,<1>2

LEMMA CoordinatorSealsInv == ASSUME IInv, CoordinatorSeals PROVE IInv'
<1>1. /\ adopting.pc = "asked" /\ legacy' = [legacy EXCEPT !.sealed = TRUE]
      /\ adopting' = [pc |-> "sealed", content |-> Content(legacy)]
      /\ UNCHANGED <<setting, declared, row, adoption, materials, call, left, history>> BY DEF CoordinatorSeals
<1>2. /\ legacy \in [sealed : BOOLEAN, vals : Values, named : SUBSET Keys, rev : Nat]
      /\ legacy.vals \in Values /\ legacy.named \in SUBSET Keys BY DEF IInv, LegacyInv
<1>3. /\ legacy' \in [sealed : BOOLEAN, vals : Values, named : SUBSET Keys, rev : Nat]
      /\ legacy'.sealed = TRUE /\ legacy'.vals = legacy.vals /\ legacy'.rev = legacy.rev BY <1>1,<1>2
<1>4. Content(legacy) \in Contents /\ Content(legacy).vals = legacy.vals BY <1>2 DEF Content, Contents
<1>5. Grows /\ Busy' BY <1>1,<1>3 DEF Grows, Busy
<1>6. RowInv' /\ LegacyInv' BY <1>1,<1>3, RowStays DEF IInv, LegacyInv
<1>7. CallsInv'
 <2>1. call' = [c \in Callers |-> call'[c]] /\ call' = call BY <1>1 DEF IInv, CallsInv
 <2> QED BY <1>5,<2>1, CallsStay DEF IInv
<1>8. AdoptInv'
 <2>1. Unadopted /\ Unadopted' /\ row'.schema > 0 BY <1>1 DEF IInv, AdoptInv, Unadopted
 <2>2. adopting' = [pc |-> "sealed", content |-> adopting'.content] /\ adopting'.pc = "sealed"
       /\ adopting'.content \in Contents /\ adopting'.content.vals = legacy'.vals BY <1>1,<1>3,<1>4
 <2>3. /\ adoption \in {"none", "adopted", "already_materialized"}
       /\ adoption = "adopted" => legacy.sealed /\ Replayed(LegacyKey) # {}
       /\ adoption # "none" => row.mv > 0 BY DEF IInv, AdoptInv
 <2>4. Replayed(LegacyKey)' = Replayed(LegacyKey) BY <1>1 DEF Replayed
 <2> QED BY <1>1,<1>3,<2>1,<2>2,<2>3,<2>4 DEF AdoptInv
<1> QED BY <1>6,<1>7,<1>8 DEF IInv

\* What a fill of the namespace does besides the row, by an adoption or a request.
LEMMA FillGrows ==
  ASSUME IInv, row.schema > 0, NEW key, NEW content \in Contents, Fillable(key, content), Fill(key, content),
         UNCHANGED <<setting, declared, adoption, legacy, history>>
  PROVE  Grows
<1>1. materials \subseteq materials' /\ row'.schema > 0 /\ row'.mv > 0 BY FillInv DEF IInv
<1> QED BY <1>1 DEF Grows

LEMMA AdoptionFillsInv == ASSUME IInv, AdoptionFills PROVE IInv'
<1>1. /\ adopting.pc = "sealed" /\ Fillable(LegacyKey, adopting.content) /\ Fill(LegacyKey, adopting.content)
      /\ adopting' = [pc |-> "filled"]
      /\ UNCHANGED <<setting, declared, adoption, legacy, call, left, history>> BY DEF AdoptionFills
<1>2. /\ adopting.content \in Contents /\ row.schema > 0 /\ Unadopted /\ legacy.sealed
 BY <1>1 DEF IInv, AdoptInv, NotAdopting
<1>3. /\ RowInv' /\ row'.schema > 0 /\ row'.mv > 0 /\ Replayed(LegacyKey)' # {} BY <1>1,<1>2, FillInv DEF IInv
<1>4. Grows /\ Busy' BY <1>1,<1>2, FillGrows DEF Busy
<1>5. LegacyInv' BY <1>1, LegacyStays DEF IInv
<1>6. CallsInv'
 <2>1. call' = [c \in Callers |-> call'[c]] /\ call' = call BY <1>1 DEF IInv, CallsInv
 <2> QED BY <1>4,<2>1, CallsStay DEF IInv
<1>7. AdoptInv' BY <1>1,<1>2,<1>3 DEF IInv, AdoptInv, Unadopted
<1> QED BY <1>3,<1>5,<1>6,<1>7 DEF IInv

LEMMA AdoptionEndsInv == ASSUME IInv, AdoptionEnds PROVE IInv'
<1>1. /\ adopting.pc = "filled" /\ adoption' = "adopted" /\ adopting' = NotAdopting
      /\ call' = [c \in Callers |-> IF c \in Joined THEN [call[c] EXCEPT !.pc = "ready"] ELSE call[c]]
      /\ UNCHANGED <<setting, declared, row, materials, legacy, left, history>> BY DEF AdoptionEnds
<1>2. /\ row.schema > 0 /\ Unadopted /\ legacy.sealed /\ Replayed(LegacyKey) # {} /\ row.mv > 0
 BY <1>1 DEF IInv, AdoptInv, NotAdopting
<1>3. RowInv' /\ LegacyInv' BY <1>1, RowStays, LegacyStays DEF IInv
<1>4. Grows /\ ~Unadopted' BY <1>1,<1>2 DEF Grows, Unadopted
<1>5. CallsInv'
 <2>1. call' = [c \in Callers |-> call'[c]] BY <1>1
 <2>2. ASSUME NEW c \in Callers, c \in Joined
       PROVE  CallFine(call'[c], Mine, Busy', Made', ~Unadopted')
  <3>1. call[c].pc = "joined" /\ call[c].pc # "idle" BY <2>2 DEF Joined
  <3>2. call[c].op \in Mine /\ call[c] = [pc |-> "joined", op |-> call[c].op] /\ call[c].op.at = "realm"
   BY <3>1, CallParts DEF IInv
  <3>3. call'[c] = [pc |-> "ready", op |-> call[c].op] BY <1>1,<2>2,<3>2
  <3>4. Made' BY <1>1,<1>2 DEF Made
  <3> QED BY <1>4,<3>2,<3>3,<3>4 DEF CallFine
 <2>3. ASSUME NEW c \in Callers, c \notin Joined
       PROVE  call'[c] = call[c] /\ call[c].pc # "joined" BY <1>1,<2>3 DEF Joined
 <2> QED BY <1>4,<2>1,<2>2,<2>3, CallsStay DEF IInv
<1>6. AdoptInv' BY <1>1,<1>2 DEF IInv, AdoptInv, NotAdopting, Replayed
<1> QED BY <1>3,<1>5,<1>6 DEF IInv

\* An adoption that stops, for whatever reason, drops those who joined it.
LEMMA StopsInv ==
  ASSUME IInv, AdoptionRefused \/ AdoptionCallFails \/ RealmEvicted \/ CoordinatorEvicted
  PROVE  IInv' /\ \E S : call' = Dropping(S, call)
<1>1. Quiet /\ UNCHANGED declared /\ adopting' \in {adopting, NotAdopting}
 BY DEF AdoptionRefused, AdoptionCallFails, AdoptionStops, RealmEvicted, CoordinatorEvicted, Quiet
<1>2. Joined \subseteq AtRealm
 <2> SUFFICES ASSUME NEW c \in Joined PROVE c \in AtRealm OBVIOUS
 <2>1. c \in Callers /\ call[c].pc = "joined" /\ call[c].pc # "idle" BY DEF Joined
 <2> QED BY <2>1, CallParts DEF IInv, AtRealm, Open
<1>3. PICK S : call' = Dropping(S, call) /\ (adopting' = adopting \/ Joined \subseteq S)
 BY <1>2 DEF AdoptionRefused, AdoptionCallFails, AdoptionStops, RealmEvicted, CoordinatorEvicted
<1>4. CallsInv' BY <1>1,<1>3, CallsDropped, QuietGrows DEF IInv
<1> QED BY <1>1,<1>3,<1>4, QuietInv

LEMMA DeployInv == ASSUME IInv, Deploy PROVE IInv' /\ call' = Dropping(Callers, call)
<1>1. /\ Quiet /\ adopting' = NotAdopting /\ declared' = declared + 1 /\ call' = Dropping(Callers, call)
      /\ UNCHANGED <<setting, row, materials, legacy, adoption>> BY DEF Deploy, Quiet
<1>2. RowInv'
 <2>1. declared' \in Nat /\ declared' > 0 /\ row'.schema <= declared' BY <1>1, RowParts DEF IInv, RowInv
 <2> QED BY <1>1,<2>1 DEF IInv, RowInv, Replayed, Writable
<1>3. LegacyInv' /\ AdoptInv' BY <1>1, QuietGrows, LegacyStays, AdoptStays DEF IInv
<1>4. CallsInv'
 <2>1. Joined \subseteq Callers BY DEF Joined
 <2> QED BY <1>1,<2>1, QuietGrows, CallsDropped DEF IInv
<1> QED BY <1>1,<1>2,<1>3,<1>4 DEF IInv

\* A request is received: it waits, or may run.
LEMMA ReceivesInv ==
  ASSUME IInv, NEW c \in Callers, Receives(c), adoption # "none" => adoption' = adoption
  PROVE  /\ RowInv' /\ LegacyInv' /\ Grows /\ Made' /\ call[c].op \in Mine /\ call[c].op.at = "realm"
         /\ \A pc : To(c, pc) => call' = [call EXCEPT ![c] = [pc |-> pc, op |-> call[c].op]]
<1>1. /\ call[c].pc = "sent" /\ call[c].op.at = "realm" /\ row' = Ensured /\ history' = Passed
      /\ UNCHANGED <<setting, declared, materials, legacy, left>> BY DEF Receives, Sent
<1>2. RowInv' /\ row'.schema > 0 /\ (row.mv > 0 => row'.mv > 0) BY <1>1, EnsuredInv DEF IInv
<1>3. LegacyInv' BY <1>1, LegacyStays DEF IInv
<1>4. history \subseteq history' BY <1>1 DEF Passed
<1>5. Grows BY <1>1,<1>2,<1>4 DEF Grows
<1>6. call[c].op \in Mine BY <1>1, CallParts DEF IInv
<1>7. \A pc : To(c, pc) => call' = [call EXCEPT ![c] = [pc |-> pc, op |-> call[c].op]] BY <1>1, Moved DEF IInv
<1> QED BY <1>1,<1>2,<1>3,<1>5,<1>6,<1>7 DEF Made

LEMMA AdmitsInv == ASSUME IInv, NEW c \in Callers, Admits(c) PROVE IInv'
<1>1. Receives(c) /\ ~WaitsForAdoption(call[c].op) /\ To(c, "ready") /\ UNCHANGED <<adoption, adopting>>
 BY DEF Admits
<1>2. /\ RowInv' /\ LegacyInv' /\ Grows /\ Made' /\ call[c].op \in Mine /\ call[c].op.at = "realm"
      /\ call' = [call EXCEPT ![c] = [pc |-> "ready", op |-> call[c].op]] BY <1>1, ReceivesInv
<1>3. Waits(call[c].op) => ~Unadopted' BY <1>1 DEF WaitsForAdoption, Waits, Unadopted, Receives
<1>4. CallFine([pc |-> "ready", op |-> call[c].op], Mine, Busy', Made', ~Unadopted') BY <1>2,<1>3 DEF CallFine
<1>5. CallsInv' /\ AdoptInv' BY <1>1,<1>2,<1>4, OneCall, AdoptStays DEF IInv
<1> QED BY <1>2,<1>5 DEF IInv

LEMMA JoinsInv == ASSUME IInv, NEW c \in Callers, JoinsAdoption(c) PROVE IInv'
<1>1. Receives(c) /\ adopting.pc # "none" /\ To(c, "joined") /\ UNCHANGED <<adoption, adopting>>
 BY DEF JoinsAdoption
<1>2. /\ RowInv' /\ LegacyInv' /\ Grows /\ Made' /\ call[c].op \in Mine /\ call[c].op.at = "realm"
      /\ call' = [call EXCEPT ![c] = [pc |-> "joined", op |-> call[c].op]] BY <1>1, ReceivesInv
<1>3. Busy' BY <1>1 DEF Busy
<1>4. CallFine([pc |-> "joined", op |-> call[c].op], Mine, Busy', Made', ~Unadopted') BY <1>2,<1>3 DEF CallFine
<1>5. CallsInv' /\ AdoptInv' BY <1>1,<1>2,<1>4, OneCall, AdoptStays DEF IInv
<1> QED BY <1>2,<1>5 DEF IInv

LEMMA StartsInv == ASSUME IInv, NEW c \in Callers, StartsAdoption(c) PROVE IInv'
<1>1. /\ Receives(c) /\ WaitsForAdoption(call[c].op) /\ adopting.pc = "none"
      /\ adopting' = [pc |-> "asked"] /\ To(c, "joined") /\ UNCHANGED adoption BY DEF StartsAdoption
<1>2. /\ RowInv' /\ LegacyInv' /\ Grows /\ Made' /\ call[c].op \in Mine /\ call[c].op.at = "realm"
      /\ call' = [call EXCEPT ![c] = [pc |-> "joined", op |-> call[c].op]] BY <1>1, ReceivesInv
<1>3. Busy' /\ Unadopted' /\ row'.schema > 0 BY <1>1,<1>2 DEF Busy, WaitsForAdoption, Unadopted, Receives, Made
<1>4. CallFine([pc |-> "joined", op |-> call[c].op], Mine, Busy', Made', ~Unadopted') BY <1>2,<1>3 DEF CallFine
<1>5. CallsInv' BY <1>2,<1>3,<1>4, OneCall DEF IInv
<1>6. AdoptInv' BY <1>1,<1>3 DEF AdoptInv, Unadopted
<1> QED BY <1>2,<1>5,<1>6 DEF IInv

LEMMA NothingInv == ASSUME IInv, NEW c \in Callers, NothingToAdopt(c) PROVE IInv'
<1>1. /\ Receives(c) /\ WaitsForAdoption(call[c].op) /\ adopting.pc = "none" /\ ~NeverUsed(row')
      /\ adoption' = "already_materialized" /\ To(c, "ready") /\ UNCHANGED adopting BY DEF NothingToAdopt
<1>2. Unadopted BY <1>1 DEF WaitsForAdoption
<1>3. /\ RowInv' /\ LegacyInv' /\ Grows /\ Made' /\ call[c].op \in Mine /\ call[c].op.at = "realm"
      /\ call' = [call EXCEPT ![c] = [pc |-> "ready", op |-> call[c].op]] BY <1>1,<1>2, ReceivesInv DEF Unadopted
<1>4. CallFine([pc |-> "ready", op |-> call[c].op], Mine, Busy', Made', ~Unadopted')
 BY <1>1,<1>3 DEF CallFine, Unadopted
<1>5. CallsInv' BY <1>1,<1>3,<1>4, OneCall DEF IInv
<1>6. row'.mv > 0
 <2>1. row'.mv \in Nat /\ (row'.mv = 0 => Entries(row'.vals) = {})
  <3>1. IsRow(row') BY <1>3 DEF RowInv
  <3>2. row'.mv = 0 => Entries(row'.vals) = {} BY <1>3 DEF RowInv
  <3> QED BY <3>1,<3>2, RowParts
 <2> QED BY <1>1,<2>1 DEF NeverUsed
<1>7. AdoptInv'
 <2>1. adopting = NotAdopting BY <1>1 DEF IInv, AdoptInv, NotAdopting
 <2> QED BY <1>1,<1>6,<2>1 DEF AdoptInv, NotAdopting
<1> QED BY <1>3,<1>5,<1>7 DEF IInv

\* A request on values that is applied, in r: the namespace as it is, or as a
\* combined operation ensured it.
Applies(c, r, touched) ==
  /\ call[c].op.kind \in DataKinds /\ call[c].pc \in {"sent", "ready"} /\ call[c].op.at \in {"realm", "commit"}
  /\ (r = row /\ row.schema > 0) \/ r = Ensured
  /\ touched \in BOOLEAN /\ (RealmResult(call[c].op, r).touched => touched)
  /\ ~Unadopted /\ (Mutates(call[c].op) => Writable) /\ RealmResult(call[c].op, r).ok
  /\ row' = Applied(r, RealmResult(call[c].op, r), touched)
  /\ Answered(c, RealmResult(call[c].op, r).answer)
  /\ UNCHANGED <<setting, declared, adoption, materials, legacy, adopting, left, history>>

LEMMA AppliesInv ==
  ASSUME IInv, NEW c \in Callers, NEW r, NEW touched, Applies(c, r, touched)
  PROVE  /\ IInv' /\ DataOp(call[c].op) /\ r.vals = row.vals
         /\ Good(r, call[c].op, Room(r.vals), RealmResult(call[c].op, r))
         /\ row'.vals = RealmResult(call[c].op, r).vals /\ row'.named = RealmResult(call[c].op, r).named
         /\ r.named = row.named /\ row'.frozen = row.frozen /\ row'.seal = row.seal /\ row'.schema = r.schema
         /\ row'.mv >= row.mv /\ (touched => row'.mv > row.mv) /\ (r = Ensured /\ Upgrades => row'.mv > row.mv)
<1> DEFINE op == call[c].op  result == RealmResult(op, r)
<1>1. /\ op.kind \in DataKinds /\ call[c].pc \in {"sent", "ready"}
      /\ (r = row /\ row.schema > 0) \/ r = Ensured
      /\ touched \in BOOLEAN /\ (result.touched => touched)
      /\ row' = Applied(r, result, touched)
      /\ call' = [call EXCEPT ![c] = [pc |-> "answered", op |-> op, answer |-> result.answer]]
      /\ UNCHANGED <<setting, declared, adoption, materials, legacy, adopting, left, history>>
 BY DEF Applies, Answered
<1>2. op \in Mine /\ DataOp(op)
 <2>1. op \in Mine /\ setting \in Settings BY <1>1, CallParts DEF IInv, RowInv
 <2> QED BY <1>1,<2>1, AskedFacts, Kinds
<1>3. row.vals \in Values /\ row.named \in SUBSET Keys /\ r.vals = row.vals /\ r.named = row.named
 BY <1>1, RowParts, EnsuredParts DEF IInv, RowInv
<1>4. Good(r, op, Room(r.vals), result) BY <1>2,<1>3, RealmGood
<1> HIDE DEF op, result
<1>5. /\ RowInv' /\ row'.schema > 0 /\ (row.mv > 0 => row'.mv > 0)
      /\ row'.vals = result.vals /\ row'.named = result.named
      /\ row'.frozen = row.frozen /\ row'.seal = row.seal /\ row'.schema = r.schema
      /\ row'.mv >= row.mv /\ (touched => row'.mv > row.mv)
      /\ r = Ensured /\ Upgrades => row'.mv > row.mv BY <1>1,<1>4, AppliedInv DEF IInv
<1>6. Grows BY <1>1,<1>5 DEF Grows
<1>7. CallFine([pc |-> "answered", op |-> op, answer |-> result.answer], Mine, Busy', Made', ~Unadopted')
 BY <1>1,<1>2 DEF CallFine
<1>8. CallsInv' /\ LegacyInv' /\ AdoptInv' BY <1>1,<1>6,<1>7, OneCall, LegacyStays, AdoptStays DEF IInv
<1> QED BY <1>2,<1>3,<1>4,<1>5,<1>8 DEF IInv, op, result

\* A request on values is applied, or it ends and nothing changes.
LEMMA DataCases ==
  ASSUME IInv, NEW c \in Callers, Data(c) \/ Commits(c)
  PROVE  \/ Refuse(c) /\ UNCHANGED <<setting, declared, row, adoption, materials, legacy, adopting, history>>
         \/ \E r, touched : Applies(c, r, touched)
<1> DEFINE op == call[c].op
<1>1. CASE Data(c)
 <2>1. call[c].pc = "ready" /\ op.kind \in DataKinds /\ Waits(op) BY <1>1 DEF Data, RunsData, DataKinds, Waits
 <2>2. op.at = "realm" /\ row.schema > 0 /\ ~Unadopted BY <2>1, CallParts DEF IInv, Made
 <2>3. CASE (Mutates(op) => Writable) /\ RealmResult(op, row).ok
  <3> DEFINE touched == RealmResult(op, row).touched
  <3>1. touched \in BOOLEAN
   <4>1. op \in Mine /\ setting \in Settings /\ IsRow(row) BY <2>1, CallParts DEF IInv, RowInv
   <4>2. DataOp(op) BY <2>1,<4>1, AskedFacts, Kinds
   <4>3. Good(row, op, Room(row.vals), RealmResult(op, row)) BY <4>1,<4>2, RowParts, RealmGood
   <4> QED BY <4>3 DEF Good
  <3>2. row' = Applied(row, RealmResult(op, row), touched) /\ Answered(c, RealmResult(op, row).answer)
   BY <1>1,<2>3 DEF Data
  <3>3. UNCHANGED <<setting, declared, adoption, materials, legacy, adopting, left, history>> BY <1>1 DEF Data
  <3> HIDE DEF touched
  <3>4. Applies(c, row, touched) BY <2>1,<2>2,<2>3,<3>1,<3>2,<3>3 DEF Applies, touched
  <3> QED BY <3>4
 <2>4. CASE ~((Mutates(op) => Writable) /\ RealmResult(op, row).ok) BY <1>1,<2>4 DEF Data
 <2> QED BY <2>3,<2>4
<1>2. CASE Commits(c)
 <2>1. call[c].pc = "sent" /\ op.at = "commit" BY <1>2 DEF Commits, Sent
 <2>2. op.kind \in DataKinds
  <3>1. op \in Mine /\ setting \in Settings BY <2>1, CallParts DEF IInv, RowInv
  <3> QED BY <2>1,<3>1, AskedFacts, Kinds
 <2>3. CASE Writable /\ ~Unadopted /\ Ensurable /\ RealmResult(op, Ensured).ok
  <3>1. row' = Applied(Ensured, RealmResult(op, Ensured), TRUE) /\ Answered(c, RealmResult(op, Ensured).answer)
        /\ UNCHANGED <<setting, declared, adoption, materials, legacy, adopting, left, history>>
   BY <1>2,<2>3 DEF Commits
  <3>2. Applies(c, Ensured, TRUE) BY <2>1,<2>2,<2>3,<3>1 DEF Applies
  <3> QED BY <3>2
 <2>4. CASE ~(Writable /\ ~Unadopted /\ Ensurable /\ RealmResult(op, Ensured).ok) BY <1>2,<2>4 DEF Commits
 <2> QED BY <2>3,<2>4
<1> QED BY <1>1,<1>2

LEMMA DataInv == ASSUME IInv, NEW c \in Callers, Data(c) \/ Commits(c) PROVE IInv'
<1>1. CASE Refuse(c) /\ UNCHANGED <<setting, declared, row, adoption, materials, legacy, adopting, history>>
 BY <1>1, QuietGrows, RefuseInv, QuietInv DEF IInv, Quiet
<1>2. ASSUME NEW r, NEW touched, Applies(c, r, touched) PROVE IInv' BY <1>2, AppliesInv
<1> QED BY <1>1,<1>2, DataCases

\* A transition marks the namespace, and leaves its contents.
LEMMA MarkInv ==
  ASSUME IInv, row.schema > 0, NEW frozen, NEW seal,
         row' = Made6(row.schema, row.mv, frozen, seal, row.vals, row.named),
         setting.adopts /\ row.mv = 0 => frozen = Nothing /\ seal = Nothing,
         Grows => CallsInv',
         UNCHANGED <<setting, declared, adoption, materials, legacy, adopting, history>>
  PROVE  IInv'
<1>1. /\ row'.schema = row.schema /\ row'.mv = row.mv /\ row'.frozen = frozen /\ row'.seal = seal
      /\ row'.vals = row.vals /\ row'.named = row.named BY MadeParts
<1>2. IsRow(row) /\ RowInv BY DEF IInv, RowInv
<1>3. IsRow(row') BY <1>1,<1>2, RowParts DEF IsRow, Made6
<1>4. row'.mv = 0 => Entries(row'.vals) = {} /\ (setting'.adopts => Writable') BY <1>1,<1>2 DEF RowInv, Writable
<1>5. RowInv' BY <1>1,<1>2,<1>3,<1>4 DEF RowInv, Replayed
<1>6. Grows BY <1>1 DEF Grows
<1>7. LegacyInv' /\ AdoptInv' BY <1>6, LegacyStays, AdoptStays DEF IInv
<1> QED BY <1>5,<1>6,<1>7 DEF IInv

\* What a transition, or the end of a seal's lease, does to the marks.
LEMMA TransitionCases ==
  ASSUME IInv, NEW c \in Callers, Transition(c)
  PROVE  /\ call[c].pc = "ready" /\ call[c].op.kind \in {"seal", "release", "freeze"}
         /\ row.schema > 0 /\ (setting.adopts => row.mv > 0)
         /\ \E frozen, seal :
              /\ row' = Made6(row.schema, row.mv, frozen, seal, row.vals, row.named)
              /\ \/ frozen = row.frozen
                 \/ row.frozen = Nothing /\ seal = row.seal
<1>1. call[c].pc = "ready" /\ call[c].op.kind \in {"seal", "release", "freeze"}
 BY DEF Transition, Seals, Releases, Freezes, Runs
<1>2. row.schema > 0 /\ (Waits(call[c].op) => ~Unadopted) BY <1>1, CallParts DEF IInv, Made
<1>3. setting.adopts => row.mv > 0 BY <1>1,<1>2 DEF Waits, Unadopted, IInv, AdoptInv
<1>4. Whole(row) BY RowParts DEF IInv, RowInv
<1> DEFINE id == call[c].op.id
<1>5. CASE row' = [row EXCEPT !.seal = id]
 <2>1. row' = Made6(row.schema, row.mv, row.frozen, id, row.vals, row.named) BY <1>4,<1>5, UpdateMark
 <2> QED BY <1>1,<1>2,<1>3,<2>1
<1>6. CASE row' = [row EXCEPT !.seal = Nothing]
 <2>1. row' = Made6(row.schema, row.mv, row.frozen, Nothing, row.vals, row.named) BY <1>4,<1>6, UpdateMark
 <2> QED BY <1>1,<1>2,<1>3,<2>1
<1>7. CASE row.frozen \in {Nothing, id} /\ row' = [row EXCEPT !.frozen = id]
 <2>1. row' = Made6(row.schema, row.mv, id, row.seal, row.vals, row.named) BY <1>4,<1>7, UpdateMark
 <2>2. row.frozen = Nothing \/ id = row.frozen BY <1>7
 <2> HIDE DEF id
 <2> QED BY <1>1,<1>2,<1>3,<2>1,<2>2
<1> QED BY <1>5,<1>6,<1>7 DEF Transition, Seals, Releases, Freezes

LEMMA TransitionInv == ASSUME IInv, NEW c \in Callers, Transition(c) PROVE IInv'
<1>1. PICK frozen, seal : row' = Made6(row.schema, row.mv, frozen, seal, row.vals, row.named) BY TransitionCases
<1>2. row.schema > 0 /\ ~(setting.adopts /\ row.mv = 0) BY TransitionCases
<1>3. Refuse(c) /\ UNCHANGED <<setting, declared, adoption, materials, legacy, adopting, left, history>>
 BY DEF Transition
<1>4. Grows => CallsInv' BY <1>3, RefuseInv DEF IInv
<1> QED BY <1>1,<1>2,<1>3,<1>4, MarkInv

LEMMA SealLapsesInv ==
  ASSUME IInv, SealLapses
  PROVE  /\ IInv' /\ row' = Made6(row.schema, row.mv, row.frozen, Nothing, row.vals, row.named)
<1>1. row.seal # Nothing /\ row' = [row EXCEPT !.seal = Nothing]
      /\ UNCHANGED <<setting, declared, adoption, materials, legacy, adopting, call, left, history>>
 BY DEF SealLapses
<1>2. IsRow(row) /\ Whole(row) /\ row.schema \in Nat BY RowParts DEF IInv, RowInv
<1>3. row' = Made6(row.schema, row.mv, row.frozen, Nothing, row.vals, row.named) BY <1>1,<1>2, UpdateMark
<1>4. row.schema > 0 /\ ~(setting.adopts /\ row.mv = 0) BY <1>1,<1>2 DEF IInv, RowInv, NoRow, Writable
<1>5. ASSUME Grows PROVE CallsInv'
 <2>1. call' = [c \in Callers |-> call'[c]] /\ Busy' = Busy /\ call' = call BY <1>1 DEF IInv, CallsInv, Busy
 <2>2. \A c \in Callers : call[c].pc = "joined" => Busy BY CallParts DEF IInv
 <2> QED BY <1>5,<2>1,<2>2, CallsStay DEF IInv
<1> QED BY <1>1,<1>3,<1>4,<1>5, MarkInv

\* A request to fill the namespace fills it, or changes nothing.
LEMMA MaterializesInv ==
  ASSUME IInv, NEW c \in Callers, Materializes(c)
  PROVE  /\ IInv' /\ call[c].op \in Mine /\ call[c].op.kind \in {"clone", "empty"} /\ Refuse(c)
         /\ UNCHANGED <<setting, declared, adoption, legacy, adopting, left, history>>
         /\ \/ UNCHANGED <<row, materials>>
            \/ /\ row'.mv > 0 /\ row.mv = 0 /\ Writable /\ row'.vals \in Values
               /\ row'.frozen = row.frozen /\ row'.seal = row.seal
<1> DEFINE op == call[c].op  content == IF op.kind = "empty" THEN Empty ELSE op.content
<1>1. /\ call[c].pc = "ready" /\ op.kind \in {"clone", "empty"} /\ Refuse(c)
      /\ UNCHANGED <<setting, declared, adoption, legacy, adopting, left, history>>
      /\ IF Fillable(op.id, content) THEN Fill(op.id, content) ELSE UNCHANGED <<row, materials>>
 BY DEF Materializes, Runs
<1>2. op \in Mine /\ row.schema > 0 /\ setting \in Settings BY <1>1, CallParts DEF IInv, Made, RowInv
<1>3. content \in Contents BY <1>1,<1>2, AskedFacts, Kinds, EmptyFacts
<1> DEFINE id == op.id
<1>4. CASE Fillable(id, content) /\ Fill(id, content)
 <2> HIDE DEF content, id
 <2>1. /\ RowInv' /\ row'.schema > 0 /\ row'.mv > 0 /\ row'.vals = content.vals
       /\ row'.frozen = row.frozen /\ row'.seal = row.seal /\ row.mv = 0 BY <1>1,<1>2,<1>3,<1>4, FillInv DEF IInv
 <2>2. Grows BY <1>1,<1>2,<1>3,<1>4, FillGrows
 <2>3. LegacyInv' /\ AdoptInv' /\ CallsInv' BY <1>1,<2>2, LegacyStays, AdoptStays, RefuseInv DEF IInv
 <2>4. Writable /\ content.vals \in Values BY <1>3,<1>4 DEF Fillable, Contents
 <2> QED BY <1>1,<1>2,<2>1,<2>3,<2>4 DEF IInv
<1>5. CASE UNCHANGED <<row, materials>>
 <2>1. IInv' BY <1>1,<1>5, QuietGrows, RefuseInv, QuietInv DEF IInv, Quiet
 <2> QED BY <1>1,<1>2,<1>5,<2>1
<1> QED BY <1>1,<1>4,<1>5

LEMMA NextInv == IInv /\ [Next]_vars => IInv'
<1> SUFFICES ASSUME IInv, [Next]_vars PROVE IInv' OBVIOUS
<1>1. CASE Ask \/ LookAgain BY <1>1, AskInv
<1>2. CASE Adopt BY <1>2, CoordinatorSealsInv, AdoptionFillsInv, AdoptionEndsInv, StopsInv DEF Adopt
<1>3. CASE AdoptionCallFails \/ RealmEvicted \/ CoordinatorEvicted BY <1>3, StopsInv
<1>4. ASSUME NEW c \in Callers, Handle(c) PROVE IInv'
 <2>1. CASE CannotOpen(c) \/ LegacyRefused(c) \/ Return(c) \/ NoTransition(c) BY <2>1, EndsInv
 <2>2. CASE Admits(c) \/ JoinsAdoption(c) \/ StartsAdoption(c) \/ NothingToAdopt(c)
  BY <2>2, AdmitsInv, JoinsInv, StartsInv, NothingInv
 <2>3. CASE Commits(c) \/ Data(c) BY <2>3, DataInv
 <2>4. CASE LegacyWrite(c) \/ LegacyCounts(c) BY <2>4, LegacyInvStep
 <2>5. CASE LegacyHashes(c) BY <2>5, HashesInv
 <2>6. CASE Transition(c) BY <2>6, TransitionInv
 <2>7. CASE Materializes(c) BY <2>7, MaterializesInv
 <2> QED BY <1>4,<2>1,<2>2,<2>3,<2>4,<2>5,<2>6,<2>7 DEF Handle, Receive, Run
<1>5. CASE SealLapses BY <1>5, SealLapsesInv
<1>6. CASE Deploy BY <1>6, DeployInv
<1>7. CASE UNCHANGED vars
 <2>1. Quiet /\ UNCHANGED <<declared, adopting, call>> BY <1>7 DEF vars, Quiet
 <2>2. CallsInv' BY <1>7 DEF vars, IInv, CallsInv, Mine, Busy, Made, Unadopted
 <2> QED BY <2>1,<2>2, QuietInv
<1> QED BY <1>1,<1>2,<1>3,<1>4,<1>5,<1>6,<1>7 DEF Next

\* What the run checks as the types follows from the invariant.
LEMMA InvTypes == IInv => TypeOK
<1> SUFFICES ASSUME IInv PROVE TypeOK OBVIOUS
<1>1. /\ setting \in Settings /\ declared \in Nat /\ IsRow(row) /\ row.schema <= declared
      /\ Cardinality(Entries(row.vals)) <= setting.maxEntries
      /\ row.schema = 0 => row = NoRow
      /\ \A m \in materials : row.mv > 0 /\ Replayed(m.key) = {m} BY DEF IInv, RowInv
<1>2. row.schema \in 0..declared /\ row.mv \in Nat /\ row.vals \in Values /\ row.named \subseteq Keys
 BY <1>1, RowParts
<1>3. /\ legacy.vals \in Values /\ legacy.named \subseteq Keys /\ legacy.sealed \in BOOLEAN /\ legacy.rev \in Nat
 BY DEF IInv, LegacyInv
<1>4. /\ adoption \in {"none", "adopted", "already_materialized"}
      /\ adoption = "adopted" => legacy.sealed /\ Replayed(LegacyKey) # {} BY DEF IInv, AdoptInv
<1>5. \A c \in Callers : call[c].pc = "joined" => adopting.pc # "none" BY CallParts DEF IInv, Busy
<1> QED BY <1>1,<1>2,<1>3,<1>4,<1>5 DEF TypeOK

\* The invariant holds in every state the namespace reaches.
THEOREM Inductive == Spec => []IInv
BY InitInv, NextInv, PTL DEF Spec

\* The tables of the realm and of the coordinator agree: a realm adopts what
\* its coordinator sealed, each materialization is recorded once, and the rows
\* stay within what the feature declares (realm.js:677, feature-storage.js:568).
THEOREM TypeCorrect == Spec => []TypeOK
BY Inductive, InvTypes, PTL

-----------------------------------------------------------------------------
(* The version names one content                                             *)

LEMMA NumbersKnown == ASSUME IInv PROVE row.mv \in Nat /\ legacy.rev \in Nat
BY RowParts DEF IInv, RowInv, LegacyInv

LEMMA RowKept ==
  ASSUME IInv, row' = row \/ \E frozen, seal : row' = Made6(row.schema, row.mv, frozen, seal, row.vals, row.named)
  PROVE  RowNamed
<1>1. row'.mv = row.mv /\ row'.schema = row.schema /\ row'.vals = row.vals /\ row'.named = row.named BY MadeParts
<1> QED BY <1>1, NumbersKnown DEF RowNamed, Content

LEMMA LegacyKept ==
  ASSUME IInv, legacy'.rev = legacy.rev, legacy'.vals = legacy.vals, legacy'.named = legacy.named
  PROVE  LegacyNamed
BY NumbersKnown DEF LegacyNamed, Content

\* Every request that upgrades the namespace advances its version.
LEMMA EnsuredNamed == ASSUME IInv, row' = Ensured PROVE RowNamed
<1>1. /\ row'.vals = row.vals /\ row'.named = row.named /\ row'.schema = declared
      /\ row'.mv = IF Upgrades THEN row.mv + 1 ELSE row.mv BY EnsuredParts DEF IInv
<1>2. row'.schema # row.schema /\ row.schema # 0 => Upgrades BY <1>1 DEF Upgrades
<1>3. Content(row') = Content(row) BY <1>1 DEF Content
<1> QED BY <1>1,<1>2,<1>3, NumbersKnown DEF RowNamed

LEMMA AppliesNamed == ASSUME IInv, NEW c \in Callers, NEW r, NEW touched, Applies(c, r, touched) PROVE RowNamed
<1>1. /\ r.vals = row.vals /\ r.named = row.named
      /\ Good(r, call[c].op, Room(r.vals), RealmResult(call[c].op, r))
      /\ row'.vals = RealmResult(call[c].op, r).vals /\ row'.named = RealmResult(call[c].op, r).named
      /\ row'.schema = r.schema
      /\ row'.mv >= row.mv /\ (touched => row'.mv > row.mv) /\ (r = Ensured /\ Upgrades => row'.mv > row.mv)
 BY AppliesInv
<1>2. (RealmResult(call[c].op, r).touched => touched) /\ (r = row \/ r = Ensured) BY DEF Applies
<1>3. ~touched => Content(row') = Content(row) BY <1>1,<1>2 DEF Good, Content
<1>4. row'.schema # row.schema /\ row.schema # 0 => r = Ensured /\ Upgrades
 BY <1>1,<1>2, EnsuredParts DEF Upgrades, IInv
<1> QED BY <1>1,<1>3,<1>4 DEF RowNamed

LEMMA LegacyAppliedNamed ==
  ASSUME IInv, NEW c \in Callers, LegacyWrite(c) \/ LegacyCounts(c)
  PROVE  LegacyNamed
<1>1. LegacyApplied(c) /\ call[c].pc \in {"sent", "hashing"} /\ call[c].op.at = "legacy" BY LegacyInvStep
<1> DEFINE result == LegacyResult(call[c].op)
<1>2. /\ Good(legacy, call[c].op, TRUE, result) /\ legacy'.vals = result.vals /\ legacy'.named = result.named
      /\ legacy.rev \in Nat /\ legacy'.rev = IF result.touched THEN legacy.rev + 1 ELSE legacy.rev
 BY <1>1, LegacyAppliedInv
<1> HIDE DEF result
<1>3. ~result.touched => Content(legacy') = Content(legacy) BY <1>2 DEF Good, Content
<1> QED BY <1>2,<1>3 DEF LegacyNamed

LEMMA NextNamed == IInv /\ [Next]_vars => RowNamed /\ LegacyNamed
<1> SUFFICES ASSUME IInv, [Next]_vars PROVE RowNamed /\ LegacyNamed OBVIOUS
<1>1. CASE UNCHANGED <<row, legacy>> BY <1>1, RowKept, LegacyKept
<1>2. CASE CoordinatorSeals
 <2>1. row' = row /\ legacy' = [legacy EXCEPT !.sealed = TRUE] BY <1>2 DEF CoordinatorSeals
 <2>2. legacy'.rev = legacy.rev /\ legacy'.vals = legacy.vals /\ legacy'.named = legacy.named
  BY <2>1 DEF IInv, LegacyInv
 <2> QED BY <2>1,<2>2, RowKept, LegacyKept
<1>3. CASE AdoptionFills
 <2>1. /\ Fillable(LegacyKey, adopting.content) /\ Fill(LegacyKey, adopting.content)
       /\ UNCHANGED <<setting, declared, legacy>> BY <1>3 DEF AdoptionFills
 <2>2. adopting.content \in Contents /\ row.schema > 0 BY <1>3 DEF AdoptionFills, IInv, AdoptInv, NotAdopting
 <2>3. row'.mv > 0 /\ row.mv = 0 BY <2>1,<2>2, FillInv DEF IInv
 <2>4. RowNamed
  <3>1. row'.mv \in Nat BY <1>3, AdoptionFillsInv, RowParts DEF IInv, RowInv
  <3> QED BY <2>3,<3>1 DEF RowNamed
 <2> QED BY <2>1,<2>4, LegacyKept
<1>4. ASSUME NEW c \in Callers, Handle(c) PROVE RowNamed /\ LegacyNamed
 <2>1. CASE CannotOpen(c) \/ LegacyRefused(c) \/ Return(c) \/ NoTransition(c) \/ LegacyHashes(c)
  <3>1. UNCHANGED <<row, legacy>> BY <2>1 DEF CannotOpen, LegacyRefused, Return, NoTransition, LegacyHashes
  <3> QED BY <3>1, RowKept, LegacyKept
 <2>2. CASE Receives(c) BY <2>2, EnsuredNamed, LegacyKept DEF Receives
 <2>3. CASE Commits(c) \/ Data(c)
  <3>1. legacy' = legacy BY <2>3 DEF Commits, Data
  <3>2. CASE UNCHANGED row BY <3>1,<3>2, RowKept, LegacyKept
  <3>3. ASSUME NEW r, NEW touched, Applies(c, r, touched) PROVE RowNamed BY <3>3, AppliesNamed
  <3> QED BY <2>3,<3>1,<3>2,<3>3, DataCases, LegacyKept
 <2>4. CASE LegacyWrite(c) \/ LegacyCounts(c)
  <3>1. row' = row BY <2>4 DEF LegacyWrite, LegacyCounts, LegacyApplied
  <3> QED BY <2>4,<3>1, RowKept, LegacyAppliedNamed
 <2>5. CASE Transition(c)
  <3>1. legacy' = legacy BY <2>5 DEF Transition
  <3> QED BY <2>5,<3>1, TransitionCases, RowKept, LegacyKept
 <2>6. CASE Materializes(c)
  <3>1. legacy' = legacy /\ (row' = row \/ (row'.mv > 0 /\ row.mv = 0)) /\ IInv' BY <2>6, MaterializesInv
  <3>2. row'.mv \in Nat BY <3>1, RowParts DEF IInv, RowInv
  <3>3. RowNamed BY <3>1,<3>2, RowKept DEF RowNamed
  <3> QED BY <3>1,<3>3, LegacyKept
 <2> QED BY <1>4,<2>1,<2>2,<2>3,<2>4,<2>5,<2>6
         DEF Handle, Receive, Run, Admits, JoinsAdoption, StartsAdoption, NothingToAdopt
<1>5. CASE SealLapses
 <2>1. legacy' = legacy BY <1>5 DEF SealLapses
 <2> QED BY <1>5,<2>1, SealLapsesInv, RowKept, LegacyKept
<1>6. Ask \/ LookAgain \/ AdoptionEnds \/ AdoptionRefused \/ AdoptionCallFails \/ RealmEvicted
        \/ CoordinatorEvicted \/ Deploy \/ UNCHANGED vars
      => UNCHANGED <<row, legacy>>
 BY DEF Ask, LookAgain, AdoptionEnds, AdoptionRefused, AdoptionCallFails, AdoptionStops, RealmEvicted,
    CoordinatorEvicted, Deploy, vars
<1> QED BY <1>1,<1>2,<1>3,<1>4,<1>5,<1>6 DEF Next, Adopt

\* The mutation version of the realm, and the revision of the coordinator,
\* never name two contents: no request changes the values, the names of their
\* subjects or the schema without advancing it (realm.js:677, :1094).
THEOREM ContentAlwaysNamed == Spec => VersionNamesContent
<1>1. RowNamed /\ LegacyNamed => [RowNamed /\ LegacyNamed]_vars OBVIOUS
<1> QED BY <1>1, Inductive, NextNamed, PTL DEF Spec, VersionNamesContent

-----------------------------------------------------------------------------
(* The namespace and its legacy state are one store                          *)

\* The variables of FeatureStore, as the namespace shows them.
View(w) ==
  IF w.pc = "idle" \/ w.op.kind \notin DataKinds THEN Idle
  ELSE IF w.pc = "answered" THEN w ELSE [pc |-> "asked", op |-> w.op]

StoreNow == Seen(Source)
CallsNow == [c \in Callers |-> View(call[c])]
Status(r) == IF r.frozen # Nothing THEN "archived" ELSE IF r.seal # Nothing THEN "sealed" ELSE "open"
StatusNow == Status(row)
FreshNow == row.mv = 0 /\ legacy.rev = 0 /\ setting.legacy = NoValues

\* The steps of FeatureStore, in those terms.
LEMMA StoreSteps ==
  /\ UNCHANGED <<StoreNow, CallsNow, StatusNow, FreshNow, Excused>> => UNCHANGED Store!vars
  /\ Excused' => Store!Next
  /\ FreshNow' = FALSE /\ UNCHANGED <<StoreNow, CallsNow, StatusNow, Excused>> => Store!Next
  /\ FreshNow /\ StatusNow = "open" /\ FreshNow' = FALSE /\ StoreNow' \in Values
       /\ UNCHANGED <<CallsNow, StatusNow, Excused>> => Store!Next
  /\ StatusNow = "open" /\ StatusNow' \in {"sealed", "archived"}
       /\ UNCHANGED <<StoreNow, CallsNow, FreshNow, Excused>> => Store!Next
  /\ StatusNow = "sealed" /\ StatusNow' \in {"open", "archived"}
       /\ UNCHANGED <<StoreNow, CallsNow, FreshNow, Excused>> => Store!Next
<1> DEFINE seen == [k \in Keys |-> IF k \in Counters /\ Source[k] = Nothing THEN Initial ELSE Source[k]]
           asked == [c \in Callers |-> IF ~IsData(c) THEN Idle
                                       ELSE IF call[c].pc = "answered" THEN call[c]
                                       ELSE [pc |-> "asked", op |-> call[c].op]]
<1>1. CallsNow = asked /\ CallsNow' = asked' BY DEF CallsNow, View, IsData, Open
<1>2. StoreNow = seen /\ StoreNow' = seen' BY DEF StoreNow, Seen
<1>3. StatusNow = (IF row.frozen # Nothing THEN "archived" ELSE IF row.seal # Nothing THEN "sealed" ELSE "open")
      /\ StatusNow' = (IF row.frozen # Nothing THEN "archived" ELSE IF row.seal # Nothing THEN "sealed" ELSE "open")'
 BY DEF StatusNow, Status
<1>4. Store!Stores = Values BY DEF Store!Stores, Store!Keys, Values, Keys
<1>5. UNCHANGED <<StoreNow, CallsNow, StatusNow, FreshNow, Excused>> => UNCHANGED Store!vars
 BY <1>1,<1>2,<1>3 DEF Store!vars, FreshNow, Excused
<1>6. Excused' => Store!Next BY DEF Store!Next, Store!Excuse, Excused
<1>7. FreshNow' = FALSE /\ UNCHANGED <<StoreNow, CallsNow, StatusNow, Excused>> => Store!Next
 BY <1>1,<1>2,<1>3 DEF Store!Next, Store!Touch, FreshNow, Excused
<1>8. FreshNow /\ StatusNow = "open" /\ FreshNow' = FALSE /\ StoreNow' \in Values
       /\ UNCHANGED <<CallsNow, StatusNow, Excused>> => Store!Next
 BY <1>1,<1>2,<1>3,<1>4 DEF Store!Next, Store!Fill, FreshNow, Excused
<1>9. StatusNow = "open" /\ StatusNow' \in {"sealed", "archived"}
       /\ UNCHANGED <<StoreNow, CallsNow, FreshNow, Excused>> => Store!Next
 BY <1>1,<1>2,<1>3 DEF Store!Next, Store!Close, FreshNow, Excused
<1>10. StatusNow = "sealed" /\ StatusNow' \in {"open", "archived"}
       /\ UNCHANGED <<StoreNow, CallsNow, FreshNow, Excused>> => Store!Next
 BY <1>1,<1>2,<1>3 DEF Store!Next, Store!Reopen, FreshNow, Excused
<1> HIDE DEF seen, asked
<1> QED BY <1>5,<1>6,<1>7,<1>8,<1>9,<1>10

\* A caller asks.
LEMMA StoreAsks ==
  ASSUME NEW c \in Callers, NEW op \in Ops, CallsNow[c] = Idle,
         CallsNow' = [CallsNow EXCEPT ![c] = [pc |-> "asked", op |-> op]],
         UNCHANGED <<StoreNow, StatusNow, FreshNow, Excused>>
  PROVE  Store!Next
<1> DEFINE asked == [d \in Callers |-> IF ~IsData(d) THEN Idle
                                       ELSE IF call[d].pc = "answered" THEN call[d]
                                       ELSE [pc |-> "asked", op |-> call[d].op]]
<1>1. CallsNow = asked /\ CallsNow' = asked' BY DEF CallsNow, View, IsData, Open
<1>2. Store!Ask(c) BY <1>1 DEF Store!Ask, Store!Idle, Idle, StoreNow, Seen, StatusNow, Status, FreshNow, Excused
<1> QED BY <1>2 DEF Store!Next

\* A call is answered.
LEMMA StoreApplies ==
  ASSUME NEW c \in Callers, NEW op, CallsNow[c] = [pc |-> "asked", op |-> op],
         op.kind # "get" => StatusNow = "open",
         StoreNow' = [StoreNow EXCEPT ![op.key] = Store!Changed(op, StoreNow[op.key])],
         CallsNow' = [CallsNow EXCEPT ![c] = [pc |-> "answered", op |-> op,
                                              answer |-> Store!Answer(op, StoreNow[op.key])]],
         FreshNow' \in {FreshNow, FALSE}, StoreNow' # StoreNow => ~FreshNow',
         UNCHANGED <<StatusNow, Excused>>
  PROVE  Store!Next
<1> DEFINE asked == [d \in Callers |-> IF ~IsData(d) THEN Idle
                                       ELSE IF call[d].pc = "answered" THEN call[d]
                                       ELSE [pc |-> "asked", op |-> call[d].op]]
           seen == [k \in Keys |-> IF k \in Counters /\ Source[k] = Nothing THEN Initial ELSE Source[k]]
<1>1. CallsNow = asked /\ CallsNow' = asked' BY DEF CallsNow, View, IsData, Open
<1>2. StoreNow = seen /\ StoreNow' = seen' BY DEF StoreNow, Seen
<1>3. asked[c].pc = "asked" /\ asked[c].op = op /\ seen[asked[c].op.key] = StoreNow[op.key] BY <1>1,<1>2
<1>4. asked[c].op.kind # "get" => StatusNow = "open" BY <1>3
<1>5. seen' = [seen EXCEPT ![asked[c].op.key] = Store!Changed(asked[c].op, seen[asked[c].op.key])] BY <1>2,<1>3
<1>6. asked' = [asked EXCEPT ![c] = [pc |-> "answered", op |-> asked[c].op,
                                     answer |-> Store!Answer(asked[c].op, seen[asked[c].op.key])]] BY <1>1,<1>3
<1>7. FreshNow' \in {FreshNow, FALSE} /\ (seen' # seen => ~FreshNow') BY <1>2
<1>8. Store!Apply(c) BY <1>3,<1>4,<1>5,<1>6,<1>7, Zenon DEF Store!Apply, StatusNow, Status, FreshNow, Excused
<1> QED BY <1>8 DEF Store!Next

\* Calls end, several at once when an object is evicted.
LEMMA StoreEnds ==
  ASSUME NEW c \in Callers, NEW S \in SUBSET Callers, c \in S, CallsNow[c] # Idle,
         CallsNow' = [d \in Callers |-> IF d \in S THEN Idle ELSE CallsNow[d]],
         UNCHANGED <<StoreNow, StatusNow, FreshNow, Excused>>
  PROVE  Store!Next
<1> DEFINE asked == [d \in Callers |-> IF ~IsData(d) THEN Idle
                                       ELSE IF call[d].pc = "answered" THEN call[d]
                                       ELSE [pc |-> "asked", op |-> call[d].op]]
<1>1. CallsNow = asked /\ CallsNow' = asked' BY DEF CallsNow, View, IsData, Open
<1>2. Store!End(c) BY <1>1 DEF Store!End, Store!Idle, Idle, StoreNow, Seen, StatusNow, Status, FreshNow, Excused
<1> QED BY <1>2 DEF Store!Next

\* What the steps of the namespace do to that store.
Shows == Store!Next \/ UNCHANGED Store!vars

LEMMA Steady ==
  ASSUME UNCHANGED <<StoreNow, CallsNow, StatusNow, Excused>>, FreshNow' => FreshNow
  PROVE  Shows
<1>1. FreshNow \in BOOLEAN /\ FreshNow' \in BOOLEAN BY DEF FreshNow
<1>2. FreshNow' = FreshNow \/ FreshNow' = FALSE BY <1>1
<1> QED BY <1>2, StoreSteps DEF Shows

LEMMA TablesStay ==
  ASSUME UNCHANGED <<setting, row, adoption, legacy>>, ~Excused, ~Excused'
  PROVE  UNCHANGED <<StoreNow, StatusNow, FreshNow, Excused>>
BY DEF StoreNow, Seen, Source, Unadopted, StatusNow, Status, FreshNow, Excused

LEMMA SeenTypes == ASSUME NEW vals \in Values PROVE Seen(vals) \in Values
BY Constants DEF Seen, Values

\* The source is the legacy state until something is in the namespace.
LEMMA Sources ==
  ASSUME IInv
  PROVE  /\ setting.adopts /\ row.mv = 0 => Source = legacy.vals /\ Unadopted /\ StatusNow = "open"
         /\ ~(setting.adopts /\ row.mv = 0) => Source = row.vals
         /\ row.mv > 0 => Source = row.vals
         /\ row.mv \in Nat /\ legacy.rev \in Nat /\ row.vals \in Values /\ legacy.vals \in Values
         /\ row.mv = 0 => row.vals = NoValues
<1>1. row.mv \in Nat /\ legacy.rev \in Nat /\ row.vals \in Values /\ legacy.vals \in Values
 BY NumbersKnown, RowParts DEF IInv, RowInv, LegacyInv
<1>2. row.mv = 0 => row.vals = NoValues /\ (setting.adopts => Writable) BY <1>1, EmptyFacts DEF IInv, RowInv
<1>3. row.mv = 0 => adoption = "none" BY <1>1 DEF IInv, AdoptInv
<1> QED BY <1>1,<1>2,<1>3 DEF Source, Unadopted, StatusNow, Status, Writable

\* A caller asks.
LEMMA SendShows ==
  ASSUME IInv, NEW op \in Mine, Send(op), UNCHANGED <<setting, row, adoption, legacy>>, ~Excused, ~Excused'
  PROVE  Shows
<1>1. PICK c \in Callers : ~Open(c) /\ call' = [call EXCEPT ![c] = [pc |-> "sent", op |-> op]] BY DEF Send
<1>2. call' = [d \in Callers |-> IF d = c THEN [pc |-> "sent", op |-> op] ELSE call[d]] BY <1>1 DEF IInv, CallsInv
<1>3. CallsNow[c] = Idle BY <1>1 DEF CallsNow, View, Open
<1>4. CASE op.kind \in DataKinds
 <2>1. CallsNow' = [CallsNow EXCEPT ![c] = [pc |-> "asked", op |-> op]] BY <1>2,<1>4 DEF CallsNow, View
 <2>2. op \in Ops
  <3>1. setting \in Settings BY DEF IInv, RowInv
  <3>2. setting.ops \in {s.ops : s \in Settings} BY <3>1
  <3>3. op \in setting.ops => op \in UNION {s.ops : s \in Settings} BY <3>2, Zenon
  <3>4. op \in setting.ops \/ op \in [kind : {"get"}, at : {"realm"}, key : Keys] BY DEF Mine
  <3> QED BY <3>3,<3>4 DEF Ops
 <2> QED BY <1>3,<2>1,<2>2, TablesStay, StoreAsks DEF Shows
<1>5. CASE op.kind \notin DataKinds
 <2>1. CallsNow' = CallsNow BY <1>1,<1>2,<1>5 DEF CallsNow, View, Open
 <2> QED BY <2>1, TablesStay, Steady
<1> QED BY <1>4,<1>5

\* Calls that are over.
LEMMA DropsShow ==
  ASSUME IInv, NEW S, call' = Dropping(S, call), UNCHANGED <<setting, row, adoption, legacy>>, ~Excused, ~Excused'
  PROVE  Shows
<1> DEFINE gone == S \cap Callers
<1>1. CallsNow' = [d \in Callers |-> IF d \in gone THEN Idle ELSE CallsNow[d]]
 BY DEF CallsNow, View, Dropping, Idle
<1>2. CASE \E c \in gone : CallsNow[c] # Idle BY <1>1,<1>2, TablesStay, StoreEnds DEF Shows
<1>3. CASE \A c \in gone : CallsNow[c] = Idle
 <2>1. CallsNow' = CallsNow BY <1>1,<1>3 DEF CallsNow
 <2> QED BY <2>1, TablesStay, Steady
<1> QED BY <1>2,<1>3

LEMMA RefuseDrops == ASSUME CallsInv, NEW c \in Callers, Refuse(c) PROVE call' = Dropping({c}, call)
BY DEF CallsInv, Refuse, Dropping

\* A call that moves on shows nothing.
LEMMA MovesSilent ==
  ASSUME IInv, NEW c \in Callers, call[c].pc \notin {"idle", "answered"}, NEW pc, pc \notin {"idle", "answered"},
         call' = [call EXCEPT ![c] = [pc |-> pc, op |-> call[c].op]]
  PROVE  CallsNow' = CallsNow
<1>1. call' = [d \in Callers |-> IF d = c THEN [pc |-> pc, op |-> call[c].op] ELSE call[d]] BY DEF IInv, CallsInv
<1> QED BY <1>1 DEF CallsNow, View

\* One that ends without having asked for a value shows nothing either.
LEMMA RefusesSilent ==
  ASSUME IInv, NEW c \in Callers, call[c].op.kind \notin DataKinds, Refuse(c)
  PROVE  CallsNow' = CallsNow
<1>1. call' = [d \in Callers |-> IF d = c THEN Idle ELSE call[d]] BY DEF IInv, CallsInv, Refuse
<1> QED BY <1>1 DEF CallsNow, View, Idle

\* A call that is answered.
LEMMA AnswersShow ==
  ASSUME IInv, NEW c \in Callers, call[c].pc \in {"sent", "hashing", "ready"}, call[c].op.kind \in DataKinds,
         NEW answer, Answered(c, answer)
  PROVE  /\ CallsNow[c] = [pc |-> "asked", op |-> call[c].op]
         /\ CallsNow' = [CallsNow EXCEPT ![c] = [pc |-> "answered", op |-> call[c].op, answer |-> answer]]
<1>1. call' = [d \in Callers |-> IF d = c THEN [pc |-> "answered", op |-> call[c].op, answer |-> answer] ELSE call[d]]
 BY DEF IInv, CallsInv, Answered
<1> QED BY <1>1 DEF CallsNow, View

\* A request is received: an upgrade may pass the legacy state over, which is
\* excused unless it is empty.
LEMMA ReceivesShows ==
  ASSUME IInv, NEW c \in Callers, Receives(c), CallsNow' = CallsNow, ~Excused',
         adoption' = adoption \/ row'.mv > 0
  PROVE  Shows
<1>1. /\ row' = Ensured /\ history' = Passed /\ UNCHANGED <<setting, legacy>> BY DEF Receives
<1>2. /\ row'.mv = (IF Upgrades THEN row.mv + 1 ELSE row.mv) /\ row'.vals = row.vals
      /\ row'.frozen = row.frozen /\ row'.seal = row.seal BY <1>1, EnsuredParts DEF IInv
<1>3. row.mv \in Nat /\ row'.mv \in Nat /\ (row'.mv = 0 => row.mv = 0) BY <1>2, Sources
<1>4. ~Excused BY <1>1 DEF Excused, Passed
<1>5. CASE setting.adopts /\ row.mv = 0 /\ row'.mv = 0
 <2>1. Source' = legacy.vals BY <1>1,<1>3,<1>5, Sources DEF Source, Unadopted
 <2> QED BY <1>1,<1>2,<1>4,<1>5,<2>1, Sources, Steady DEF StoreNow, Seen, StatusNow, Status, FreshNow, Excused
<1>6. CASE setting.adopts /\ row.mv = 0 /\ row'.mv > 0
 <2>1. Upgrades /\ Unadopted BY <1>2,<1>6, Sources
 <2>2. Entries(legacy.vals) = {} BY <1>1,<1>6,<2>1 DEF Passed, Excused
 <2>3. legacy.vals = NoValues /\ row.vals = NoValues BY <1>6,<2>2, EmptyFacts, Sources
 <2>4. Source' = Source BY <1>2,<1>6,<2>3, Sources DEF Source
 <2> QED BY <1>1,<1>2,<1>3,<1>4,<1>6,<2>4, Steady DEF StoreNow, Seen, StatusNow, Status, FreshNow, Excused
<1>7. CASE ~(setting.adopts /\ row.mv = 0)
 <2>1. Source' = Source BY <1>1,<1>2,<1>3,<1>7, Sources DEF Source, Unadopted
 <2> QED BY <1>1,<1>2,<1>3,<1>4,<1>7,<2>1, Steady DEF StoreNow, Seen, StatusNow, Status, FreshNow, Excused
<1> QED BY <1>3,<1>5,<1>6,<1>7

\* The adoption puts the legacy state where it is read from then on.
LEMMA AdoptionFillsShows == ASSUME IInv, AdoptionFills, ~Excused' PROVE Shows
<1>1. /\ adopting.pc = "sealed" /\ Fillable(LegacyKey, adopting.content) /\ Fill(LegacyKey, adopting.content)
      /\ UNCHANGED <<setting, declared, adoption, legacy, call, history>> BY DEF AdoptionFills
<1>2. /\ adopting.content \in Contents /\ row.schema > 0 /\ Unadopted /\ ~Excused
      /\ adopting.content.vals = legacy.vals BY <1>1 DEF IInv, AdoptInv, NotAdopting, Excused
<1>3. row'.mv > 0 /\ row.mv = 0 /\ row'.vals = legacy.vals /\ row'.frozen = row.frozen /\ row'.seal = row.seal
 BY <1>1,<1>2, FillInv DEF IInv
<1>4. Source' = Source BY <1>2,<1>3 DEF Source, Unadopted
<1> QED BY <1>1,<1>2,<1>3,<1>4, Steady DEF StoreNow, Seen, StatusNow, Status, FreshNow, Excused, CallsNow

\* Its outcome is recorded, and those who waited for it go on.
LEMMA AdoptionEndsShows == ASSUME IInv, AdoptionEnds, ~Excused' PROVE Shows
<1>1. /\ adopting.pc = "filled" /\ UNCHANGED <<setting, row, legacy, history>>
      /\ call' = [c \in Callers |-> IF c \in Joined THEN [call[c] EXCEPT !.pc = "ready"] ELSE call[c]]
 BY DEF AdoptionEnds
<1>2. row.mv > 0 BY <1>1 DEF IInv, AdoptInv, NotAdopting
<1>3. Source' = Source BY <1>1,<1>2, Sources DEF Source
<1>4. ASSUME NEW c \in Joined PROVE View(call'[c]) = View(call[c])
 <2>1. c \in Callers /\ call[c].pc = "joined" /\ call[c] = [pc |-> "joined", op |-> call[c].op]
  BY CallParts DEF IInv, Joined
 <2>2. call'[c] = [pc |-> "ready", op |-> call[c].op] BY <1>1,<2>1
 <2> QED BY <2>1,<2>2 DEF View
<1>5. CallsNow' = CallsNow BY <1>1,<1>4 DEF CallsNow
<1> QED BY <1>1,<1>3,<1>5, Steady DEF StoreNow, Seen, StatusNow, Status, FreshNow, Excused

\* The seal of the legacy state shows nothing.
LEMMA CoordinatorSealsShows == ASSUME IInv, CoordinatorSeals, ~Excused' PROVE Shows
<1>1. /\ legacy' = [legacy EXCEPT !.sealed = TRUE]
      /\ UNCHANGED <<setting, row, adoption, call, history>> BY DEF CoordinatorSeals
<1>2. legacy'.vals = legacy.vals /\ legacy'.rev = legacy.rev BY <1>1 DEF IInv, LegacyInv
<1> QED BY <1>1,<1>2, Steady
        DEF StoreNow, Seen, Source, Unadopted, StatusNow, Status, FreshNow, Excused, CallsNow

\* A write to the legacy state takes effect while the state is still the source.
LEMMA LegacyShows ==
  ASSUME IInv, NEW c \in Callers, LegacyWrite(c) \/ LegacyCounts(c), ~Excused'
  PROVE  Shows
<1> DEFINE op == call[c].op  result == LegacyResult(op)
<1>1. /\ LegacyApplied(c) /\ call[c].pc \in {"sent", "hashing"} /\ op.at = "legacy"
      /\ result.ok \/ op.key \in Counters BY LegacyInvStep
<1>2. /\ DataOp(op) /\ setting.adopts /\ Good(legacy, op, TRUE, result)
      /\ legacy'.vals = result.vals /\ legacy.rev \in Nat
      /\ legacy'.rev = IF result.touched THEN legacy.rev + 1 ELSE legacy.rev BY <1>1, LegacyAppliedInv
<1>3. ~legacy.sealed /\ ~(row.mv > 0) /\ ~Excused BY <1>1 DEF LegacyApplied, Excused
<1>4. row.mv = 0 /\ Source = legacy.vals /\ Unadopted /\ StatusNow = "open" BY <1>2,<1>3, Sources
<1>5. UNCHANGED <<setting, row, adoption>> /\ Answered(c, result.answer) BY <1>1 DEF LegacyApplied
<1>6. result.ok
 <2>1. CASE op.key \in Counters
  <3>1. op.kind \notin {"set", "delete", "increment"} BY <1>2,<2>1, Constants DEF DataOp, Sayable
  <3> QED BY <2>1,<3>1 DEF LegacyResult, CountTo, Same, Result, Stored
 <2> QED BY <1>1,<2>1
<1>7. op.kind \in DataKinds BY <1>2 DEF DataOp
<1>8. /\ CallsNow[c] = [pc |-> "asked", op |-> op]
      /\ CallsNow' = [CallsNow EXCEPT ![c] = [pc |-> "answered", op |-> op, answer |-> result.answer]]
 BY <1>1,<1>5,<1>7, AnswersShow
<1> HIDE DEF op, result
<1>9. Source' = result.vals BY <1>2,<1>4,<1>5 DEF Source, Unadopted
<1>10. /\ StoreNow' = [StoreNow EXCEPT ![op.key] = Store!Changed(op, StoreNow[op.key])]
       /\ result.answer = Store!Answer(op, StoreNow[op.key])
 <2>1. StoreNow = Seen(legacy.vals) /\ StoreNow' = Seen(result.vals) BY <1>4,<1>9 DEF StoreNow, Seen
 <2> QED BY <1>2,<1>6,<2>1 DEF Good
<1>11. FreshNow' \in {FreshNow, FALSE} /\ (StoreNow' # StoreNow => ~FreshNow')
 <2>1. CASE result.touched
  <3>1. legacy'.rev # 0 BY <1>2,<2>1
  <3> QED BY <3>1 DEF FreshNow
 <2>2. CASE ~result.touched
  <3>1. result.vals = legacy.vals /\ legacy'.rev = legacy.rev BY <1>2,<2>2 DEF Good
  <3> QED BY <1>4,<1>5,<1>9,<3>1 DEF FreshNow, StoreNow, Seen
 <2> QED BY <2>1,<2>2
<1>12. UNCHANGED <<StatusNow, Excused>> BY <1>3,<1>5 DEF StatusNow, Status, Excused
<1>13. Store!Next BY <1>4,<1>8,<1>10,<1>11,<1>12, StoreApplies
<1> QED BY <1>13 DEF Shows

\* A request on values takes effect in the namespace.
LEMMA AppliesShows ==
  ASSUME IInv, NEW c \in Callers, NEW r, NEW touched, Applies(c, r, touched), ~Excused'
  PROVE  Shows
<1> DEFINE op == call[c].op  result == RealmResult(op, r)
<1>1. /\ op.kind \in DataKinds /\ call[c].pc \in {"sent", "hashing", "ready"}
      /\ result.touched => touched
      /\ ~Unadopted /\ (Mutates(op) => Writable) /\ result.ok
      /\ Answered(c, result.answer)
      /\ UNCHANGED <<setting, adoption, legacy, history>> BY DEF Applies
<1>2. /\ Good(r, op, Room(r.vals), result) /\ r.vals = row.vals /\ row'.vals = result.vals
      /\ row'.frozen = row.frozen /\ row'.seal = row.seal
      /\ row'.mv >= row.mv /\ (touched => row'.mv > row.mv) /\ IInv' BY AppliesInv
<1>3. /\ CallsNow[c] = [pc |-> "asked", op |-> op]
      /\ CallsNow' = [CallsNow EXCEPT ![c] = [pc |-> "answered", op |-> op, answer |-> result.answer]]
 BY <1>1, AnswersShow
<1>4. op.kind # "get" => StatusNow = "open" BY <1>1 DEF Mutates, Writable, StatusNow, Status
<1> HIDE DEF op, result
<1>5. Source = row.vals /\ Source' = result.vals BY <1>1,<1>2 DEF Source, Unadopted
<1>6. /\ StoreNow' = [StoreNow EXCEPT ![op.key] = Store!Changed(op, StoreNow[op.key])]
      /\ result.answer = Store!Answer(op, StoreNow[op.key])
 <2>1. StoreNow = Seen(r.vals) /\ StoreNow' = Seen(result.vals) BY <1>2,<1>5 DEF StoreNow, Seen
 <2> QED BY <1>1,<1>2,<2>1 DEF Good
<1>7. row.mv \in Nat /\ row'.mv \in Nat BY <1>2, NumbersKnown DEF IInv, RowInv, IsRow
<1>8. FreshNow' \in {FreshNow, FALSE} /\ (StoreNow' # StoreNow => ~FreshNow')
 <2>1. CASE touched
  <3>1. row'.mv # 0 BY <1>2,<1>7,<2>1
  <3> QED BY <3>1 DEF FreshNow
 <2>2. CASE ~touched
  <3>1. result.vals = row.vals /\ (row'.mv = 0 => row.mv = 0) BY <1>1,<1>2,<1>7,<2>2 DEF Good
  <3>2. StoreNow' = StoreNow BY <1>5,<3>1 DEF StoreNow, Seen
  <3>3. FreshNow' => FreshNow BY <1>1,<3>1 DEF FreshNow
  <3> QED BY <3>2,<3>3 DEF FreshNow
 <2> QED BY <1>1,<2>1,<2>2 DEF Applies
<1>9. UNCHANGED <<StatusNow, Excused>> BY <1>1,<1>2 DEF StatusNow, Status, Excused
<1>10. Store!Next BY <1>3,<1>4,<1>6,<1>8,<1>9, StoreApplies
<1> QED BY <1>10 DEF Shows

\* A namespace nobody used is filled.
LEMMA MaterializesShows == ASSUME IInv, NEW c \in Callers, Materializes(c), ~Excused' PROVE Shows
<1>1. /\ call[c].op \in Mine /\ call[c].op.kind \in {"clone", "empty"} /\ Refuse(c)
      /\ UNCHANGED <<setting, adoption, legacy, history>>
      /\ \/ UNCHANGED <<row, materials>>
         \/ /\ row'.mv > 0 /\ row.mv = 0 /\ Writable /\ row'.vals \in Values
            /\ row'.frozen = row.frozen /\ row'.seal = row.seal BY MaterializesInv
<1>2. CallsNow' = CallsNow /\ UNCHANGED Excused /\ ~Excused BY <1>1, RefusesSilent DEF DataKinds, Excused
<1>3. CASE UNCHANGED row BY <1>1,<1>2,<1>3, TablesStay, Steady
<1>4. CASE row'.mv > 0 /\ row.mv = 0 /\ Writable /\ row'.vals \in Values
           /\ row'.frozen = row.frozen /\ row'.seal = row.seal
 <2>1. setting.legacy = NoValues /\ \A op \in setting.ops : op.at # "legacy" BY <1>1, AskedFacts DEF IInv, RowInv
 <2>2. FreshNow BY <1>4,<2>1 DEF IInv, LegacyInv, FreshNow
 <2>3. FreshNow' = FALSE BY <1>4 DEF FreshNow
 <2>4. StatusNow = "open" /\ StatusNow' = StatusNow BY <1>4 DEF Writable, StatusNow, Status
 <2>5. Source' = row'.vals BY <1>4 DEF Source
 <2>6. StoreNow' \in Values BY <1>4,<2>5, SeenTypes DEF StoreNow, Seen
 <2> QED BY <1>2,<2>2,<2>3,<2>4,<2>6, StoreSteps DEF Shows
<1> QED BY <1>1,<1>3,<1>4

\* A transition, or the end of a seal's lease, closes or opens the store.
LEMMA MarksShow ==
  ASSUME IInv, NEW frozen, NEW seal, row' = Made6(row.schema, row.mv, frozen, seal, row.vals, row.named),
         frozen = row.frozen \/ (row.frozen = Nothing /\ seal = row.seal), CallsNow' = CallsNow,
         UNCHANGED <<setting, adoption, legacy, history>>, ~Excused'
  PROVE  Shows
<1>1. /\ row'.mv = row.mv /\ row'.vals = row.vals /\ row'.frozen = frozen /\ row'.seal = seal BY MadeParts
<1>2. UNCHANGED <<StoreNow, FreshNow, Excused>> BY <1>1 DEF StoreNow, Seen, Source, Unadopted, FreshNow, Excused
<1>3. \/ StatusNow' = StatusNow
      \/ StatusNow = "open" /\ StatusNow' \in {"sealed", "archived"}
      \/ StatusNow = "sealed" /\ StatusNow' \in {"open", "archived"} BY <1>1 DEF StatusNow, Status
<1> QED BY <1>2,<1>3, StoreSteps DEF Shows

LEMMA NextShows == IInv /\ [Next]_vars => Shows
<1> SUFFICES ASSUME IInv, [Next]_vars PROVE Shows OBVIOUS
<1>1. CASE Excused' BY <1>1, StoreSteps DEF Shows
<1> SUFFICES ASSUME ~Excused' PROVE Shows BY <1>1
<1>2. CASE Ask \/ LookAgain
 <2>1. /\ UNCHANGED <<setting, row, adoption, legacy>> /\ ~Excused
       /\ \E op \in Mine : Send(op)
  <3>1. UNCHANGED <<setting, row, adoption, legacy, history>> BY <1>2 DEF Ask, LookAgain
  <3>2. ASSUME Ask PROVE \E op \in Mine : Send(op) BY <3>2 DEF Ask, Mine
  <3>3. ASSUME LookAgain PROVE \E op \in Mine : Send(op)
   <4>1. PICK k \in Keys : Send([kind |-> "get", at |-> "realm", key |-> k]) BY <3>3 DEF LookAgain
   <4>2. [kind |-> "get", at |-> "realm", key |-> k] \in Mine BY DEF Mine
   <4> QED BY <4>1,<4>2
  <3>4. \E op \in Mine : Send(op) BY <1>2,<3>2,<3>3
  <3> QED BY <3>1,<3>4 DEF Excused
 <2> QED BY <2>1, SendShows
<1>3. CASE CoordinatorSeals \/ AdoptionFills \/ AdoptionEnds
 BY <1>3, CoordinatorSealsShows, AdoptionFillsShows, AdoptionEndsShows
<1>4. CASE AdoptionRefused \/ AdoptionCallFails \/ RealmEvicted \/ CoordinatorEvicted \/ Deploy
 <2>1. UNCHANGED <<setting, row, adoption, legacy, history>>
  BY <1>4 DEF AdoptionRefused, AdoptionCallFails, AdoptionStops, RealmEvicted, CoordinatorEvicted, Deploy
 <2>2. \E S : call' = Dropping(S, call) BY <1>4, StopsInv, DeployInv
 <2>3. ~Excused BY <2>1 DEF Excused
 <2> QED BY <2>1,<2>2,<2>3, DropsShow
<1>5. ASSUME NEW c \in Callers, Handle(c) PROVE Shows
 <2>1. CASE CannotOpen(c) \/ LegacyRefused(c) \/ Return(c) \/ NoTransition(c)
  <3>1. UNCHANGED <<setting, row, adoption, legacy>> /\ Refuse(c) /\ history \subseteq history'
   BY <2>1 DEF CannotOpen, LegacyRefused, Return, NoTransition
  <3>2. call' = Dropping({c}, call) /\ ~Excused BY <3>1, RefuseDrops DEF IInv, Excused
  <3> QED BY <3>1,<3>2, DropsShow
 <2>2. CASE Admits(c) \/ JoinsAdoption(c) \/ StartsAdoption(c) \/ NothingToAdopt(c)
  <3>1. PICK pc \in {"ready", "joined"} : To(c, pc)
   BY <2>2 DEF Admits, JoinsAdoption, StartsAdoption, NothingToAdopt
  <3>2. Receives(c) /\ call[c].pc = "sent"
   BY <2>2 DEF Admits, JoinsAdoption, StartsAdoption, NothingToAdopt, Receives, Sent
  <3>3. call' = [call EXCEPT ![c] = [pc |-> pc, op |-> call[c].op]] BY <3>1,<3>2, Moved DEF IInv
  <3>4. CallsNow' = CallsNow BY <3>1,<3>2,<3>3, MovesSilent
  <3>5. adoption' = adoption \/ row'.mv > 0
   <4>1. CASE NothingToAdopt(c)
    <5>1. IInv' /\ adoption' # "none" BY <4>1, NothingInv DEF NothingToAdopt
    <5> QED BY <5>1 DEF IInv, AdoptInv
   <4> QED BY <2>2,<4>1 DEF Admits, JoinsAdoption, StartsAdoption
  <3> QED BY <3>2,<3>4,<3>5, ReceivesShows
 <2>3. CASE Commits(c) \/ Data(c)
  <3>1. CASE Refuse(c) /\ UNCHANGED <<setting, declared, row, adoption, materials, legacy, adopting, history>>
   <4>1. call' = Dropping({c}, call) /\ ~Excused BY <3>1, RefuseDrops DEF IInv, Excused
   <4> QED BY <3>1,<4>1, DropsShow
  <3>2. ASSUME NEW r, NEW touched, Applies(c, r, touched) PROVE Shows BY <3>2, AppliesShows
  <3> QED BY <2>3,<3>1,<3>2, DataCases
 <2>4. CASE LegacyWrite(c) \/ LegacyCounts(c) BY <2>4, LegacyShows
 <2>5. CASE LegacyHashes(c)
  <3>1. /\ UNCHANGED <<setting, row, adoption, legacy, history>> /\ To(c, "hashing") /\ call[c].pc = "sent"
   BY <2>5 DEF LegacyHashes, Sent
  <3>2. PICK pc \in {"hashing"} : To(c, pc) BY <3>1
  <3>3. call' = [call EXCEPT ![c] = [pc |-> pc, op |-> call[c].op]] BY <3>1,<3>2, Moved DEF IInv
  <3>4. CallsNow' = CallsNow /\ ~Excused BY <3>1,<3>2,<3>3, MovesSilent DEF Excused
  <3>5. UNCHANGED <<StoreNow, StatusNow, FreshNow, Excused>> BY <3>1,<3>4, TablesStay
  <3> QED BY <3>4,<3>5, Steady
 <2>6. CASE Transition(c)
  <3>1. PICK frozen, seal : /\ row' = Made6(row.schema, row.mv, frozen, seal, row.vals, row.named)
                            /\ frozen = row.frozen \/ (row.frozen = Nothing /\ seal = row.seal)
   BY <2>6, TransitionCases
  <3>2. Refuse(c) /\ UNCHANGED <<setting, adoption, legacy, history>> BY <2>6 DEF Transition
  <3>3. CallsNow' = CallsNow BY <2>6,<3>2, TransitionCases, RefusesSilent DEF DataKinds
  <3> QED BY <3>1,<3>2,<3>3, MarksShow
 <2>7. CASE Materializes(c) BY <2>7, MaterializesShows
 <2> QED BY <1>5,<2>1,<2>2,<2>3,<2>4,<2>5,<2>6,<2>7 DEF Handle, Receive, Run
<1>6. CASE SealLapses
 <2>1. row' = Made6(row.schema, row.mv, row.frozen, Nothing, row.vals, row.named) BY <1>6, SealLapsesInv
 <2>2. UNCHANGED <<setting, adoption, legacy, call, history>> BY <1>6 DEF SealLapses
 <2> QED BY <2>1,<2>2, MarksShow DEF CallsNow
<1>7. CASE UNCHANGED vars
 <2>1. UNCHANGED <<setting, row, adoption, legacy, call>> /\ ~Excused BY <1>7 DEF vars, Excused
 <2> QED BY <2>1, TablesStay, Steady DEF CallsNow
<1> QED BY <1>2,<1>3,<1>4,<1>5,<1>6,<1>7 DEF Next, Adopt

LEMMA InitShows == Init => Store!Init
<1> SUFFICES ASSUME Init PROVE Store!Init OBVIOUS
<1> DEFINE seen == [k \in Keys |-> IF k \in Counters /\ Source[k] = Nothing THEN Initial ELSE Source[k]]
           asked == [d \in Callers |-> IF ~IsData(d) THEN Idle
                                       ELSE IF call[d].pc = "answered" THEN call[d]
                                       ELSE [pc |-> "asked", op |-> call[d].op]]
<1>1. IInv BY InitInv
<1>2. seen \in Store!Stores
 <2>1. Source \in Values BY <1>1, Sources DEF Source
 <2>2. seen = Seen(Source) /\ Store!Stores = Values BY DEF Seen, Store!Stores, Store!Keys, Values, Keys
 <2> QED BY <2>1,<2>2, SeenTypes
<1>3. asked = [c \in Callers |-> Store!Idle] BY DEF Init, IsData, Open, Idle, Store!Idle
<1>4. history \cap {"late", "passed"} = {} BY DEF Init
<1> QED BY <1>2,<1>3,<1>4 DEF Store!Init

\* Through the adoption of the legacy state, upgrades, fills, seals and the
\* archive, whatever order requests, answers, failures and evictions come in,
\* a feature talks to one store: every read and write takes effect at most once
\* and at one moment, unless a write came late or the state was passed over
\* (realm.js:667-750, feature-storage.js:151-211).
THEOREM StoreImplemented == Spec => ImplementsStore
<1>1. IInv /\ [Next]_vars => [Store!Next]_(Store!vars) BY NextShows DEF Shows
<1> QED BY <1>1, InitShows, Inductive, PTL DEF Spec, ImplementsStore, Store!Spec

=============================================================================

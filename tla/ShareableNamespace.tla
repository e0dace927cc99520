--------------------------- MODULE ShareableNamespace ---------------------------
(***************************************************************************)
(* One namespace of a feature's shared state: its rows in the Durable      *)
(* Object of a realm, and the state the feature kept in the integration's  *)
(* coordinator before the namespace existed.                               *)
(*                                                                         *)
(* A request is received by the realm (the namespace is created or its     *)
(* schema upgraded), may have to wait until the legacy state was adopted,  *)
(* and then runs in one transaction.  Requests interleave at those waits;  *)
(* the adoption is one operation in memory, which requests join.           *)
(*                                                                         *)
(* Abstractions: a snapshot is its rows, which are its fingerprint too; a  *)
(* value is an integer; a feature's deploy changes its schema from version *)
(* 1 to 2; watchers' notifications and the events of a commit are those of *)
(* StateQueryObserver and StateEventCommit; the coordinator has room left. *)
(***************************************************************************)
EXTENDS Integers, FiniteSets

CONSTANTS
  Callers,   \* a set of numbers: the calls that may be open at once
  Plain,     \* the keys of plain values
  Counters,  \* the keys of bounded counters
  Initial,   \* the value a counter starts from
  Most,      \* the largest integer a value takes
  Nothing,   \* no value
  Settings   \* what may be asked, and the bounds

Keys == Plain \cup Counters

ASSUME NamespaceAssumption ==
  /\ Callers \subseteq Nat /\ Most \in Nat /\ Initial \in 0..Most
  /\ Nothing \notin Int /\ Plain \cap Counters = {} /\ IsFiniteSet(Keys)

VARIABLES
  setting,    \* the chosen member of Settings
  declared,   \* the schema version of the installed feature
  row,        \* the namespace and its values in the realm
  adoption,   \* the outcome in shareable_state_realm_legacy_adoptions
  materials,  \* shareable_state_realm_materializations: key and content
  legacy,     \* the feature's state in the coordinator
  adopting,   \* legacyAdoptions: the adoption in progress, in memory
  call,       \* what each call is doing
  left,       \* what is left of each bound
  history     \* what happened that the properties excuse

vars == <<setting, declared, row, adoption, materials, legacy, adopting, call, left, history>>

NoValues == [k \in Keys |-> Nothing]
NoRow == [schema |-> 0, mv |-> 0, frozen |-> Nothing, seal |-> Nothing, vals |-> NoValues, named |-> {}]
Idle == [pc |-> "idle"]
NotAdopting == [pc |-> "none"]

Entries(vals) == {k \in Keys : vals[k] # Nothing}
Content(r) == [vals |-> r.vals, named |-> {k \in r.named : r.vals[k] # Nothing}]
Empty == [vals |-> NoValues, named |-> {}]

Init ==
  /\ setting \in Settings
  /\ declared = 1
  /\ row = setting.row
  /\ adoption = "none" /\ materials = {}
  /\ legacy = [sealed |-> FALSE, vals |-> setting.legacy, named |-> {}, rev |-> 0]
  /\ adopting = NotAdopting
  /\ call = [c \in Callers |-> Idle]
  /\ left = setting.bounds
  /\ history = {}

-----------------------------------------------------------------------------
(* What an operation does to the rows: the parts both objects share          *)

\* Faulty: one entry too many.
Room_FaultOne(vals) == Cardinality(Entries(vals)) <= setting.maxEntries
Room(vals) == Cardinality(Entries(vals)) < setting.maxEntries

Result(r, ok, touched, vals, named, answer) ==
  [ok |-> ok, touched |-> touched, answer |-> answer,
   vals |-> IF ok THEN vals ELSE r.vals, named |-> IF ok THEN named ELSE r.named]

Same(r, answer) == Result(r, TRUE, FALSE, r.vals, r.named, answer)
Refused(r) == Result(r, FALSE, FALSE, r.vals, r.named, Nothing)
Stored(r, k, value, named, room) ==
  Result(r, r.vals[k] # Nothing \/ room, TRUE, [r.vals EXCEPT ![k] = value], named, value)

Clamp(n) == IF n < 0 THEN 0 ELSE IF n > Most THEN Most ELSE n
Current(r, k) ==
  IF r.vals[k] # Nothing THEN r.vals[k] ELSE IF k \in Counters THEN Initial ELSE 0

SetValue(r, op, room) ==
  IF r.vals[op.key] = op.arg THEN Same(r, op.arg) ELSE Stored(r, op.key, op.arg, r.named, room)

DeleteValue(r, op) ==
  IF r.vals[op.key] = Nothing THEN Same(r, 0)
  ELSE Result(r, TRUE, TRUE, [r.vals EXCEPT ![op.key] = Nothing], r.named, 1)

Increment(r, op, room) ==
  LET value == Current(r, op.key) + op.arg IN
  IF value > Most THEN Refused(r) ELSE Stored(r, op.key, value, r.named, room)

\* Faulty: a subject's name alone is not a change.
CountTo_FaultNameUnseen(r, op, value, room) ==
  LET named == IF op.label THEN r.named \cup {op.key} ELSE r.named IN
  CASE r.vals[op.key] = Nothing /\ value = Initial -> Same(r, value)
    [] r.vals[op.key] = value -> Result(r, TRUE, FALSE, r.vals, named, value)
    [] OTHER -> Stored(r, op.key, value, named, room)

\* A counter at its initial value gets no row of its own, and a labelled
\* request records the subject's name with the first value it stores.
CountTo(r, op, value, room) ==
  LET named == IF op.label THEN r.named \cup {op.key} ELSE r.named IN
  CASE r.vals[op.key] = Nothing /\ value = Initial -> Same(r, value)
    [] r.vals[op.key] = value -> Result(r, TRUE, named # r.named, r.vals, named, value)
    [] OTHER -> Stored(r, op.key, value, named, room)

NextCount(r, op) ==
  CASE op.kind = "assign" -> op.arg
    [] op.kind = "add" -> Clamp(Current(r, op.key) + op.arg)
    [] op.kind = "reset" -> Initial

LegacyResult(op) ==
  CASE op.kind = "set" -> SetValue(legacy, op, TRUE)
    [] op.kind = "delete" -> DeleteValue(legacy, op)
    [] op.kind = "increment" -> Increment(legacy, op, TRUE)
    [] op.key \in Counters -> CountTo(legacy, op, NextCount(legacy, op), TRUE)

\* The realm forgets a counter that is reset; the coordinator stores its
\* initial value.
ResetCounter(r, op) ==
  IF r.vals[op.key] = Nothing THEN Same(r, Initial)
  ELSE Result(r, TRUE, TRUE, [r.vals EXCEPT ![op.key] = Nothing], r.named \ {op.key}, Initial)

RealmResult(op, r) ==
  CASE op.kind = "get" -> Same(r, IF op.key \in Counters THEN Current(r, op.key) ELSE r.vals[op.key])
    [] op.kind = "set" -> SetValue(r, op, Room(r.vals))
    [] op.kind = "delete" -> DeleteValue(r, op)
    [] op.kind = "increment" -> Increment(r, op, Room(r.vals))
    [] op.kind = "reset" -> ResetCounter(r, op)
    [] op.kind \in {"assign", "add"} -> CountTo(r, op, NextCount(r, op), Room(r.vals))

-----------------------------------------------------------------------------
(* What may be asked                                                         *)

Values == [Keys -> (0..Most) \cup {Nothing}]
Contents == [vals : Values, named : SUBSET Keys]

Places == {"realm", "commit", "legacy"}
Sayable(op) ==
  \/ op.kind = "get" /\ op.at = "realm" /\ op.key \in Keys
  \/ op.kind = "set" /\ op.at \in Places /\ op.key \in Plain /\ op.arg \in 0..Most
  \/ op.kind = "delete" /\ op.at \in Places /\ op.key \in Plain
  \/ op.kind = "increment" /\ op.at \in Places /\ op.key \in Plain /\ op.arg \in Nat
  \/ op.kind = "assign" /\ op.at \in Places /\ op.key \in Counters /\ op.arg \in 0..Most
  \/ op.kind = "add" /\ op.at \in Places /\ op.key \in Counters /\ op.arg \in Int
  \/ op.kind = "reset" /\ op.at \in Places /\ op.key \in Counters
  \/ op.kind = "clone" /\ op.at = "realm" /\ op.content \in Contents
  \/ op.kind \in {"empty", "seal", "release", "freeze", "snapshot", "watch", "unwatch"} /\ op.at = "realm"

IsRow(r) == r \in [schema : Nat, mv : Nat, frozen : {r.frozen}, seal : {r.seal},
                   vals : Values, named : SUBSET Keys]

\* A namespace as the realm stores it.  Only a state an integration may still
\* adopt is written to, and only the realm of a new integration, or one without
\* a coordinator, is filled by the registry (registry.js:1184, :2193).
ASSUME SettingsAssumption ==
  \A s \in Settings :
    /\ IsRow(s.row) /\ s.row.schema <= 1 /\ (s.row.schema = 0 => s.row = NoRow)
    /\ s.row.mv = 0 => /\ Entries(s.row.vals) = {}
                       /\ s.adopts => s.row.frozen = Nothing /\ s.row.seal = Nothing
    /\ s.maxEntries \in Nat /\ Cardinality(Entries(s.row.vals)) <= s.maxEntries
    /\ s.legacy \in Values
    /\ \A op \in s.ops : /\ Sayable(op)
                         /\ op.at = "legacy" => s.adopts
                         /\ op.kind \in {"clone", "empty"} =>
                              s.legacy = NoValues /\ \A other \in s.ops : other.at # "legacy"

-----------------------------------------------------------------------------
(* Calls                                                                     *)

DataKinds == {"get", "set", "delete", "increment", "assign", "add", "reset"}
Mutates(op) == op.kind \in DataKinds \ {"get"}
Reads(op) == op.kind \in {"get", "snapshot"}
Open(c) == call[c].pc # "idle"
Sent(c, at) == call[c].pc = "sent" /\ call[c].op.at = at

To(c, pc) == call' = [call EXCEPT ![c].pc = pc]
Refuse(c) == call' = [call EXCEPT ![c] = Idle]
Answered(c, answer) ==
  call' = [call EXCEPT ![c] = [pc |-> "answered", op |-> call[c].op, answer |-> answer]]
Dropping(S, w) == [c \in Callers |-> IF c \in S THEN Idle ELSE w[c]]
Joined == {c \in Callers : call[c].pc = "joined"}

Send(op) ==
  \E c \in Callers :
    /\ ~Open(c) /\ \A d \in Callers : d < c => Open(d)
    /\ call' = [call EXCEPT ![c] = [pc |-> "sent", op |-> op]]

Ask ==
  /\ left.calls > 0 /\ left' = [left EXCEPT !.calls = @ - 1]
  /\ \E op \in setting.ops : Send(op)
  /\ UNCHANGED <<setting, declared, row, adoption, materials, legacy, adopting, history>>

\* Someone keeps looking at a realm whose legacy state is not adopted yet.
LookAgain ==
  /\ setting.adopts /\ adoption = "none" /\ \A c \in Callers : ~Open(c)
  /\ \E k \in Keys : Send([kind |-> "get", at |-> "realm", key |-> k])
  /\ UNCHANGED <<setting, declared, row, adoption, materials, legacy, adopting, left, history>>

Return(c) ==
  /\ call[c].pc = "answered" /\ Refuse(c)
  /\ UNCHANGED <<setting, declared, row, adoption, materials, legacy, adopting, left, history>>

-----------------------------------------------------------------------------
(* The coordinator: legacy state                                             *)

\* A write after the seal is lost; so is one to a state that was passed over.
LegacyApplied(c) ==
  LET result == LegacyResult(call[c].op) IN
  /\ legacy' = [legacy EXCEPT !.vals = result.vals, !.named = result.named,
                              !.rev = IF result.touched THEN @ + 1 ELSE @]
  /\ history' = history \cup (IF legacy.sealed THEN {"late"} ELSE IF row.mv > 0 THEN {"passed"} ELSE {})
  /\ Answered(c, result.answer)
  /\ UNCHANGED <<setting, declared, row, adoption, materials, adopting, left>>

LegacyRefused(c) ==
  /\ Sent(c, "legacy") /\ (legacy.sealed \/ ~LegacyResult(call[c].op).ok) /\ Refuse(c)
  /\ UNCHANGED <<setting, declared, row, adoption, materials, legacy, adopting, left, history>>

LegacyWrite(c) ==
  /\ Sent(c, "legacy") /\ ~legacy.sealed /\ LegacyResult(call[c].op).ok /\ call[c].op.key \in Plain
  /\ LegacyApplied(c)

\* The key of a counter is hashed between the check and the transaction.
LegacyHashes(c) ==
  /\ Sent(c, "legacy") /\ ~legacy.sealed /\ call[c].op.key \in Counters
  /\ To(c, "hashing")
  /\ UNCHANGED <<setting, declared, row, adoption, materials, legacy, adopting, left, history>>

LegacyCounts(c) == call[c].pc = "hashing" /\ LegacyApplied(c)

\* Faulty: the state is read and stays open.
CoordinatorSeals_FaultOpen ==
  /\ adopting.pc = "asked"
  /\ adopting' = [pc |-> "sealed", content |-> Content(legacy)]
  /\ UNCHANGED <<setting, declared, row, adoption, materials, legacy, call, left, history>>

\* The state is sealed and read in one transaction.
CoordinatorSeals ==
  /\ adopting.pc = "asked"
  /\ legacy' = [legacy EXCEPT !.sealed = TRUE]
  /\ adopting' = [pc |-> "sealed", content |-> Content(legacy)]
  /\ UNCHANGED <<setting, declared, row, adoption, materials, call, left, history>>

-----------------------------------------------------------------------------
(* The realm receives a request                                              *)

Unadopted == setting.adopts /\ adoption = "none"
Upgrades == row.schema \notin {0, declared}
Ensurable == ~Upgrades \/ (row.frozen = Nothing /\ setting.compatible)

Ensured ==
  [row EXCEPT !.schema = declared, !.mv = IF Upgrades THEN @ + 1 ELSE @]

\* An upgrade before the adoption passes the legacy state over.
Passed ==
  IF Upgrades /\ Unadopted /\ row.mv = 0 /\ Entries(legacy.vals) # {}
    THEN history \cup {"passed"} ELSE history

WaitsForAdoption(op) == op.kind \notin {"clone", "empty", "unwatch"} /\ Unadopted
NeverUsed(r) == r.mv = 0 /\ Entries(r.vals) = {}

Receives(c) ==
  /\ Sent(c, "realm") /\ Ensurable
  /\ row' = Ensured /\ history' = Passed
  /\ UNCHANGED <<setting, declared, materials, legacy, left>>

CannotOpen(c) ==
  /\ Sent(c, "realm") /\ ~Ensurable /\ Refuse(c)
  /\ history' = IF row.frozen # Nothing /\ Reads(call[c].op) THEN history \cup {"barred"} ELSE history
  /\ UNCHANGED <<setting, declared, row, adoption, materials, legacy, adopting, left>>

Admits(c) ==
  /\ Receives(c) /\ ~WaitsForAdoption(call[c].op)
  /\ To(c, "ready") /\ UNCHANGED <<adoption, adopting>>

JoinsAdoption(c) ==
  /\ Receives(c) /\ WaitsForAdoption(call[c].op) /\ adopting.pc # "none"
  /\ To(c, "joined") /\ UNCHANGED <<adoption, adopting>>

StartsAdoption(c) ==
  /\ Receives(c) /\ WaitsForAdoption(call[c].op) /\ adopting.pc = "none" /\ NeverUsed(row')
  /\ adopting' = [pc |-> "asked"] /\ To(c, "joined") /\ UNCHANGED adoption

\* Faulty: the outcome is not recorded.
NothingToAdopt_FaultUnrecorded(c) ==
  /\ Receives(c) /\ WaitsForAdoption(call[c].op) /\ adopting.pc = "none" /\ ~NeverUsed(row')
  /\ To(c, "ready") /\ UNCHANGED <<adoption, adopting>>

NothingToAdopt(c) ==
  /\ Receives(c) /\ WaitsForAdoption(call[c].op) /\ adopting.pc = "none" /\ ~NeverUsed(row')
  /\ adoption' = "already_materialized" /\ To(c, "ready") /\ UNCHANGED adopting

-----------------------------------------------------------------------------
(* Filling a fresh namespace, and the adoption of the legacy state           *)

Writable == row.frozen = Nothing /\ row.seal = Nothing
Replayed(key) == {m \in materials : m.key = key}
Acceptable(content) == Cardinality(Entries(content.vals)) <= setting.maxEntries

\* Faulty: a namespace in use is filled again.
Fillable_FaultUsed(key, content) ==
  /\ Acceptable(content) /\ Replayed(key) = {} /\ Writable

Fillable(key, content) ==
  /\ Acceptable(content) /\ Replayed(key) = {} /\ Writable /\ NeverUsed(row)

Fill(key, content) ==
  /\ row' = [row EXCEPT !.vals = content.vals, !.named = content.named, !.mv = @ + 1]
  /\ materials' = materials \cup {[key |-> key, content |-> content]}

LegacyKey == "legacy"

AdoptionFills ==
  /\ adopting.pc = "sealed" /\ Fillable(LegacyKey, adopting.content)
  /\ Fill(LegacyKey, adopting.content)
  /\ adopting' = [pc |-> "filled"]
  /\ UNCHANGED <<setting, declared, adoption, legacy, call, left, history>>

AdoptionEnds ==
  /\ adopting.pc = "filled"
  /\ adoption' = "adopted" /\ adopting' = NotAdopting
  /\ call' = [c \in Callers |-> IF c \in Joined THEN [call[c] EXCEPT !.pc = "ready"] ELSE call[c]]
  /\ UNCHANGED <<setting, declared, row, materials, legacy, left, history>>

\* Everyone who joined the adoption gets its failure, and it is forgotten.
AdoptionStops ==
  /\ adopting' = NotAdopting /\ call' = Dropping(Joined, call)
  /\ UNCHANGED <<setting, declared, row, adoption, materials, legacy, history>>

AdoptionRefused ==
  /\ adopting.pc = "sealed" /\ ~Fillable(LegacyKey, adopting.content)
  /\ AdoptionStops /\ UNCHANGED left

AdoptionCallFails ==
  /\ adopting.pc \in {"asked", "sealed"}
  /\ left.failures > 0 /\ left' = [left EXCEPT !.failures = @ - 1]
  /\ AdoptionStops

-----------------------------------------------------------------------------
(* The realm runs a request                                                  *)

Runs(c, kind) == call[c].pc = "ready" /\ call[c].op.kind = kind
RunsData(c) == call[c].pc = "ready" /\ call[c].op.kind \in DataKinds

Applied(r, result, touched) ==
  [r EXCEPT !.vals = result.vals, !.named = result.named, !.mv = IF touched THEN @ + 1 ELSE @]

Data(c) ==
  LET op == call[c].op  result == RealmResult(op, row) IN
  /\ RunsData(c)
  /\ IF (Mutates(op) => Writable) /\ result.ok
       THEN row' = Applied(row, result, result.touched) /\ Answered(c, result.answer)
       ELSE Refuse(c) /\ UNCHANGED row
  /\ UNCHANGED <<setting, declared, adoption, materials, legacy, adopting, left, history>>

\* A combined operation's mutation: one transaction, which neither waits for
\* the adoption nor starts it, and always advances the version.
Commits(c) ==
  LET op == call[c].op  result == RealmResult(op, Ensured) IN
  /\ Sent(c, "commit")
  /\ IF Writable /\ ~Unadopted /\ Ensurable /\ result.ok
       THEN row' = Applied(Ensured, result, TRUE) /\ Answered(c, result.answer)
       ELSE Refuse(c) /\ UNCHANGED row
  /\ UNCHANGED <<setting, declared, adoption, materials, legacy, adopting, left, history>>

Seals(c) ==
  /\ Runs(c, "seal") /\ row.seal \in {Nothing, call[c].op.id}
  /\ row' = [row EXCEPT !.seal = call[c].op.id]

Releases(c) ==
  /\ Runs(c, "release") /\ row.seal = call[c].op.id
  /\ row' = [row EXCEPT !.seal = Nothing]

Freezes(c) ==
  /\ Runs(c, "freeze") /\ row.frozen \in {Nothing, call[c].op.id}
  /\ row' = [row EXCEPT !.frozen = call[c].op.id]

Transition(c) ==
  /\ Seals(c) \/ Releases(c) \/ Freezes(c)
  /\ Refuse(c)
  /\ UNCHANGED <<setting, declared, adoption, materials, legacy, adopting, left, history>>

\* Another transition holds the namespace, or there is nothing to release; a
\* snapshot or a watcher changes nothing here.
NoTransition(c) ==
  /\ \/ Runs(c, "seal") /\ row.seal \notin {Nothing, call[c].op.id}
     \/ Runs(c, "release") /\ row.seal # call[c].op.id
     \/ Runs(c, "freeze") /\ row.frozen \notin {Nothing, call[c].op.id}
     \/ Runs(c, "snapshot") \/ Runs(c, "watch") \/ Runs(c, "unwatch")
  /\ Refuse(c)
  /\ UNCHANGED <<setting, declared, row, adoption, materials, legacy, adopting, left, history>>

\* A request repeated under its key finds what it did, another one is refused:
\* neither changes the namespace.
Materializes(c) ==
  LET op == call[c].op  content == IF op.kind = "empty" THEN Empty ELSE op.content IN
  /\ Runs(c, "clone") \/ Runs(c, "empty")
  /\ IF Fillable(op.id, content) THEN Fill(op.id, content) ELSE UNCHANGED <<row, materials>>
  /\ Refuse(c)
  /\ UNCHANGED <<setting, declared, adoption, legacy, adopting, left, history>>

Run(c) == Data(c) \/ Transition(c) \/ NoTransition(c) \/ Materializes(c)

-----------------------------------------------------------------------------
(* Outside                                                                   *)

SealLapses ==
  /\ row.seal # Nothing /\ row' = [row EXCEPT !.seal = Nothing]
  /\ UNCHANGED <<setting, declared, adoption, materials, legacy, adopting, call, left, history>>

AtRealm == {c \in Callers : Open(c) /\ call[c].op.at # "legacy"}
AtCoordinator == {c \in Callers : Open(c) /\ call[c].op.at = "legacy"}

RealmEvicted ==
  /\ left.evictions > 0 /\ left' = [left EXCEPT !.evictions = @ - 1]
  /\ call' = Dropping(AtRealm, call) /\ adopting' = NotAdopting
  /\ UNCHANGED <<setting, declared, row, adoption, materials, legacy, history>>

CoordinatorEvicted ==
  /\ left.evictions > 0 /\ left' = [left EXCEPT !.evictions = @ - 1]
  /\ IF adopting.pc = "asked"
       THEN adopting' = NotAdopting /\ call' = Dropping(AtCoordinator \cup Joined, call)
       ELSE call' = Dropping(AtCoordinator, call) /\ UNCHANGED adopting
  /\ UNCHANGED <<setting, declared, row, adoption, materials, legacy, history>>

\* A deploy replaces every object; the feature declares its next schema.
Deploy ==
  /\ left.deploys > 0 /\ left' = [left EXCEPT !.deploys = @ - 1]
  /\ declared' = declared + 1
  /\ call' = Dropping(Callers, call) /\ adopting' = NotAdopting
  /\ UNCHANGED <<setting, row, adoption, materials, legacy, history>>

Receive(c) ==
  \/ CannotOpen(c) \/ Admits(c) \/ JoinsAdoption(c) \/ StartsAdoption(c) \/ NothingToAdopt(c)
  \/ Commits(c) \/ LegacyRefused(c) \/ LegacyWrite(c) \/ LegacyHashes(c)

Handle(c) == Receive(c) \/ LegacyCounts(c) \/ Run(c) \/ Return(c)
Adopt == CoordinatorSeals \/ AdoptionFills \/ AdoptionEnds \/ AdoptionRefused

Next ==
  \/ Ask \/ LookAgain \/ Adopt \/ AdoptionCallFails
  \/ \E c \in Callers : Handle(c)
  \/ SealLapses \/ RealmEvicted \/ CoordinatorEvicted \/ Deploy

Spec == Init /\ [][Next]_vars

FairSpec ==
  /\ Spec /\ WF_vars(LookAgain) /\ WF_vars(Adopt)
  /\ \A c \in Callers : WF_vars(Handle(c))

-----------------------------------------------------------------------------
(* Properties                                                                *)

Ops == (UNION {s.ops : s \in Settings}) \cup [kind : {"get"}, at : {"realm"}, key : Keys]

\* The tables agree: a realm adopts what its coordinator sealed, at most once,
\* and holds no more entries than the feature declares.
TypeOK ==
  /\ setting \in Settings /\ declared \in Nat
  /\ row.schema \in 0..declared /\ row.mv \in Nat
  /\ row.vals \in Values /\ row.named \subseteq Keys
  /\ legacy.vals \in Values /\ legacy.named \subseteq Keys
  /\ legacy.sealed \in BOOLEAN /\ legacy.rev \in Nat
  /\ adoption \in {"none", "adopted", "already_materialized"}
  /\ Cardinality(Entries(row.vals)) <= setting.maxEntries
  /\ row.schema = 0 => row = NoRow
  /\ adoption = "adopted" => legacy.sealed /\ Replayed(LegacyKey) # {}
  /\ \A m \in materials : row.mv > 0 /\ Replayed(m.key) = {m}
  /\ \A c \in Callers : call[c].pc = "joined" => adopting.pc # "none"

RowNamed ==
  /\ row'.mv >= row.mv
  /\ (Content(row') # Content(row) \/ (row'.schema # row.schema /\ row.schema # 0)) => row'.mv > row.mv

LegacyNamed ==
  /\ legacy'.rev >= legacy.rev
  /\ Content(legacy') # Content(legacy) => legacy'.rev > legacy.rev

\* The version a watcher or a registry compares names one content: whatever
\* changes the values, their subjects or the schema advances it.
VersionNamesContent == [][RowNamed /\ LegacyNamed]_vars

\* The promise to features: one store, over the adoption and every transition.
Source == IF Unadopted /\ row.mv = 0 THEN legacy.vals ELSE row.vals
IsData(c) == Open(c) /\ call[c].op.kind \in DataKinds

Store == INSTANCE FeatureStore WITH
  Operations <- Ops,
  store <- [k \in Keys |-> IF k \in Counters /\ Source[k] = Nothing THEN Initial ELSE Source[k]],
  calls <- [c \in Callers |->
              IF ~IsData(c) THEN Idle
              ELSE IF call[c].pc = "answered" THEN call[c]
              ELSE [pc |-> "asked", op |-> call[c].op]],
  status <- IF row.frozen # Nothing THEN "archived" ELSE IF row.seal # Nothing THEN "sealed" ELSE "open",
  fresh <- row.mv = 0 /\ legacy.rev = 0 /\ setting.legacy = NoValues,
  excused <- history \cap {"late", "passed"} # {}

ImplementsStore == Store!Spec

\* Every request is answered or refused, and a realm someone looks at takes the
\* legacy state over, unless that does not fit what the feature declares.
Served ==
  /\ \A c \in Callers : Open(c) ~> ~Open(c)
  /\ setting.adopts ~> (adoption # "none" \/ ~Acceptable(Content(legacy)))

\* The archive of a revoked integration stays readable.
ArchiveStaysReadable == "barred" \notin history

=============================================================================

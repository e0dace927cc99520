-------------------------- MODULE StateEventRelayProofs --------------------------
(***************************************************************************)
(* Proofs about combined delivery, for every number of operations and      *)
(* every setting: the invariant of rows, attempts, appends and fences on   *)
(* their way, the registry's queue, the stream and a reset (IInv); and that*)
(* what the owner, the relay and the stream say of every operation agrees, *)
(* with the events in the order of their operations.                       *)
(***************************************************************************)
EXTENDS StateEventRelay, FiniteSetTheorems, SequenceTheorems, WellFoundedInduction, TLAPS

-----------------------------------------------------------------------------
(* The invariant *)

Answers == {"none", "appended", "terminal", "gap", "needs_reset", "full", "order", "discarded",
            "fenced", "unknown"}
Row == [state : Cleanup \cup Unresolved \cup {"none", "gone"}, tries : Nat, control : Nat,
        lease : {"none", "live", "lapsed"}, due : {Now, Never} \cup Ops, useful : BOOLEAN,
        confirmed : BOOLEAN, uncertain : BOOLEAN, probe : 0 .. 2, outcome : {"none", "appended", "gap"}]
Relayed == [blocked : BOOLEAN, gap : BOOLEAN, reset : Nat, phase : {"none", "prepared", "committed"},
            checkpoint : Nat, completed : Nat, epoch : Nat, registered : Nat, wake : Nat, sequence : Nat]
Cleaning == {"cleanup", "origin", "release", "delete"}
Worker == [step : {"idle", "interest", "registered", "waiting", "confirm", "outcome"} \cup Cleaning,
           try : Nat, reply : Answers, epoch : Nat, releases : Nat, last : BOOLEAN,
           stirred : BOOLEAN, probing : BOOLEAN]
Message == [to : {"registry", "stream"}, kind : {"append", "fence"}, op : Ops, try : Nat, call : Nat,
            head : BOOLEAN, early : BOOLEAN, late : BOOLEAN]
Call == [op : {0} \cup Ops, step : {"idle", "fence", "decide", "waiting"}, try : Nat, head : BOOLEAN,
         reply : Answers, fence : Answers, moving : BOOLEAN]
Binding == [moved : BOOLEAN, barrier : [Ops -> Nat], calls : Nat, at : Call]
Interest == [epoch : Nat, active : BOOLEAN, version : Nat, due : BOOLEAN]
Destination == [rec : [Ops -> {"none", "appended", "gap", "fenced"}], fences : [Ops -> SUBSET Nat],
                noted : SUBSET Ops, kept : SUBSET Ops, receipts : SUBSET Ops, gap : BOOLEAN, reset : Nat, checkpoint : Nat,
                interest : Interest]
Drain == [step : {"idle", "sent", "back"}, version : Nat, epoch : Nat, pending : BOOLEAN,
          lost : BOOLEAN, void : BOOLEAN]
Grant == [step : {"idle", "prepare", "mark", "commit", "local", "release", "clear", "done", "failed"},
          id : Nat, granted : BOOLEAN]
Past == [log : Seq(Ops), gapped : SUBSET Ops, acked : SUBSET Ops, lost : SUBSET Ops,
         dropped : SUBSET Ops, strays : SUBSET Ops, overwritten : SUBSET Ops]

SourceTypes == /\ setting \in Settings /\ rows \in [Ops -> Row] /\ source \in Relayed
               /\ workers \in [Ops -> Worker]
StreamTypes == /\ mail \in SUBSET Message /\ registry \in Binding /\ dest \in Destination
               /\ drainer \in Drain /\ consumer \in {"off", "checked", "on"}
OtherTypes == /\ reset \in Grant /\ expired \subseteq Ops /\ faults \in 0 .. setting.faults
              /\ history \in Past
Types == SourceTypes /\ StreamTypes /\ OtherTypes

\* How the event of an operation ended; and what is decided of the operation.
Ended == history.acked \cup history.lost \cup history.gapped \cup history.dropped
Decided == Logged \cup history.gapped \cup history.dropped

\* A row says nothing that did not happen at the stream.
Said(op, row) ==
  /\ row.outcome = "appended" => op \in Logged
  /\ row.outcome = "gap" => op \in history.gapped
  /\ row.state = "appended" => op \in Logged
  /\ row.state = "gap_recorded" => op \in history.gapped
  /\ row.state = "reset_discarded" => op \in history.dropped
  /\ row.state \in {"retiring", "gone"} => op \in Ended
Placed(op, row) ==
  /\ row.state = "none" <=> op > source.sequence
  /\ row.tries <= setting.total /\ row.control <= setting.total
RowsTrue == \A op \in Ops : Said(op, rows[op]) /\ Placed(op, rows[op])
Held(op) == rows[op].state \in Unresolved /\ rows[op].lease = "live"
OneLease == \A o, p \in Ops : Held(o) /\ Held(p) => o = p

\* An answer is true of the stream, and work on a row follows from what is known of it.
Truth(op, reply) ==
  /\ reply \in {"appended", "terminal"} => op \in Logged
  /\ reply = "terminal" => op \notin dest.kept
  /\ reply = "gap" => op \in history.gapped
Learned(op, w) ==
  /\ Truth(op, w.reply)
  /\ w.step \in Cleaning => op \in Ended
  /\ w.step = "outcome" => op \in Logged \cup Ended
Anchored(w, row) ==
  w.step # "idle" => /\ row.state \notin {"none", "gone"}
                     /\ w.probing \/ row.lease = "live"
WorkersTrue == \A op \in Ops : Learned(op, workers[op]) /\ Anchored(workers[op], rows[op])

\* No append of a closed operation is possible any more; a move may still ask for its outcome.
Resolved(op) == rows[op].state \notin Unresolved \cup {"none"}
Unasked(op) == /\ \A m \in mail : m.op = op => m.kind # "append"
               /\ registry.at.op = op => registry.at.moving
Closed(op) == Superseded(dest, op) \/ (Resolved(op) /\ Unasked(op))

\* What the stream recorded it keeps until nothing can ask for it again, unless a request
\* begun before writes over it.
RecordOf(op) ==
  /\ op \in dest.kept => op \in dest.receipts
  /\ dest.rec[op] = "appended" => op \in Logged
  /\ dest.rec[op] = "gap" => op \in history.gapped
  /\ op \in Logged => \/ dest.rec[op] = "appended" \/ op \in history.overwritten
                       \/ (op \in expired /\ Closed(op))
  /\ op \in history.gapped => op \in expired \/ registry.moved
  /\ op \in dest.noted /\ dest.rec[op] = "appended" => Superseded(dest, op) \/ Resolved(op)
RecordsTrue == dest.receipts = Logged /\ \A op \in Ops : RecordOf(op)
Known == /\ Logged \cup history.gapped \cup expired \subseteq 1 .. source.sequence
         /\ source.sequence <= Operations
EventsTrue ==
  /\ Logged \cap history.gapped \subseteq history.overwritten
  /\ history.acked \cup history.lost \subseteq Logged
  /\ Logged \subseteq dest.kept \cup history.acked \cup history.lost \cup history.dropped

\* An append that says it is the head is the head; and under a barrier that was
\* raised for it, or excluded.
Ahead(op) == \A o \in Ops : o < op => o \in Decided
Shut(m) == m.op \in dest.receipts \/ m.op \in expired \/ m.call \in dest.fences[m.op]
Guarded(m) ==
  m.to = "stream" /\ m.kind = "append" /\ setting.shared =>
    m.call # 0 /\ (registry.barrier[m.op] = m.call \/ Shut(m))
MessageOf(m) ==
  /\ m.op <= source.sequence
  /\ m.head => Ahead(m.op)
  /\ m.to = "registry" => setting.shared /\ m.kind = "append"
  /\ m.kind = "fence" => setting.shared
MessagesTrue == \A m \in mail : MessageOf(m) /\ Guarded(m)

\* The stream handles at most one request whose answer the registry still waits for.
Current(m) == m.to = "stream" /\ setting.shared /\ ~m.late
AwaitedBy(m, at) ==
  /\ m.op = at.op
  /\ m.kind = "append" => at.step = "waiting" /\ at.reply = "none"
  /\ m.kind = "fence" => at.step = "fence" /\ at.fence = "none" /\ m.call = registry.barrier[m.op]
CallsTrue ==
  \A m \in mail : Current(m) => /\ AwaitedBy(m, registry.at)
                                /\ \A n \in mail : Current(n) => n = m

CallOf(at) ==
  /\ at.op = 0 => at = NoCall
  /\ at.op # 0 => /\ at.step # "idle" /\ setting.shared /\ at.op <= source.sequence
                  /\ at.head => Ahead(at.op)
                  /\ at.step = "decide" => registry.barrier[at.op] = 0 /\ at.reply = "none"
                  /\ Truth(at.op, at.reply) /\ Truth(at.op, at.fence)
                  /\ at.fence # "none" => /\ at.step = "fence" /\ at.fence \in {"appended", "gap", "fenced"}
                                          /\ at.fence = "fenced" => registry.barrier[at.op] \in dest.fences[at.op]
                  /\ at.moving => at.step = "fence"
QueueTrue ==
  /\ CallOf(registry.at)
  /\ \A op \in Ops : registry.barrier[op] # 0 => setting.shared
  /\ registry.moved => /\ setting.shared /\ registry.at.step \in {"idle", "decide"}
                       /\ \A op \in Ops : registry.barrier[op] = 0

\* A reset covers every operation committed before it, and the stream takes none of them
\* from its fence on.
Granted == reset.granted /\ reset.step # "done"
ResetTrue ==
  /\ source.checkpoint <= source.sequence /\ dest.checkpoint <= source.checkpoint
  /\ source.reset # 0 => source.checkpoint = source.sequence
  /\ history.dropped \subseteq 1 .. dest.checkpoint
  /\ reset.step # "idle" \/ reset.granted => reset.id # 0
  /\ reset.step \in {"mark", "commit", "local"} => source.reset = reset.id
  /\ reset.step \in {"commit", "local"} => dest.checkpoint = source.checkpoint
  /\ reset.step = "local" => 1 .. source.checkpoint \subseteq history.dropped
  /\ (reset.step \in {"commit", "local", "release", "clear"} \/ Granted) => dest.reset = reset.id
  /\ reset.step \in {"release", "clear"} => reset.granted
  /\ Granted => dest.kept = {}

Facts == Known /\ EventsTrue /\ GapDeclared /\ NoneAfterMove /\ ResetIsFinal /\ InOrder

IInv == /\ Types /\ RowsTrue /\ OneLease /\ WorkersTrue /\ RecordsTrue
        /\ MessagesTrue /\ CallsTrue /\ QueueTrue /\ ResetTrue /\ Facts

-----------------------------------------------------------------------------
(* Sets of numbers, and the sequence of a set                               *)

\* A finite set has an element with a least part.
HasLeast(S, Part) == \E x \in S : \A y \in S : ~(Part[y] \subseteq Part[x] /\ Part[y] # Part[x])
LEMMA LeastPart ==
  ASSUME NEW S, IsFiniteSet(S), S # {}, NEW Part \in [S -> SUBSET S]
  PROVE  HasLeast(S, Part)
<1> DEFINE Parts == {Part[x] : x \in S}
           Order == StrictSubsetOrdering(S)
<1>1. IsWellFoundedOn(Order, FiniteSubsetsOf(S)) BY FS_StrictSubsetOrderingWellFounded
<1>2. Parts \subseteq FiniteSubsetsOf(S) /\ Parts # {} BY FS_Subset DEF FiniteSubsetsOf
<1>3. \E P \in Parts : \A Q \in Parts : ~(<<Q, P>> \in Order)
 <2> HIDE DEF Parts, Order
 <2> QED BY <1>1,<1>2, WFMin
<1>4. PICK x \in S : \A Q \in Parts : ~(<<Q, Part[x]>> \in Order) BY <1>3
<1>5. \A Q \in SUBSET S, P \in SUBSET S : <<Q, P>> \in Order <=> Q \subseteq P /\ Q # P
 BY DEF StrictSubsetOrdering
<1>6. ASSUME NEW y \in S PROVE ~(Part[y] \subseteq Part[x] /\ Part[y] # Part[x])
 <2>1. Part[y] \in Parts /\ Part[y] \in SUBSET S /\ Part[x] \in SUBSET S OBVIOUS
 <2>2. <<Part[y], Part[x]>> \notin Order BY <1>4,<2>1
 <2>3. PICK Q \in SUBSET S, P \in SUBSET S : Q = Part[y] /\ P = Part[x] BY <2>1
 <2> HIDE DEF Parts, Order
 <2>4. <<Q, P>> \notin Order BY <2>2,<2>3
 <2>5. ~(Q \subseteq P /\ Q # P) BY <1>5,<2>4
 <2> QED BY <2>3,<2>5
<1> QED BY <1>6 DEF HasLeast

\* FiniteSetsExt's Min and Max, as the code uses them
LEMMA MinOf ==
  ASSUME NEW S, IsFiniteSet(S), S \subseteq Nat, S # {}
  PROVE  Min(S) \in S /\ \A y \in S : Min(S) <= y
<1> DEFINE Below == [x \in S |-> {y \in S : y < x}]
<1>1. PICK x \in S : \A y \in S : ~(Below[y] \subseteq Below[x] /\ Below[y] # Below[x])
 <2>1. PICK Part \in [S -> SUBSET S] : Part = Below OBVIOUS
 <2>2. HasLeast(S, Part) BY LeastPart
 <2> QED BY <2>1,<2>2 DEF HasLeast
<1>2. ASSUME NEW y \in S, y < x PROVE FALSE
 <2>1. Below[y] \subseteq Below[x]
  <3>1. \A z \in S : z < y => z < x BY <1>2
  <3> QED BY <3>1
 <2>2. y \in Below[x] /\ y \notin Below[y] BY <1>2
 <2> QED BY <1>1,<2>1,<2>2
<1>3. \A y \in S : x <= y BY <1>2
<1> QED BY <1>3 DEF Min

LEMMA OpsFinite == IsFiniteSet(Ops) /\ Ops \subseteq Nat /\ 0 \notin Ops
BY OperationsAssumption, FS_Interval DEF Ops

LEMMA LeastOp == ASSUME NEW S, S \subseteq Ops, S # {} PROVE Min(S) \in S /\ \A o \in S : Min(S) <= o
<1>1. IsFiniteSet(S) /\ S \subseteq Nat BY OpsFinite, FS_Subset
<1> QED BY <1>1, MinOf

LEMMA MinOfTwo == ASSUME NEW a \in Nat, NEW b \in Nat PROVE Min({a, b}) \in {a, b}
<1>1. \E x \in {a, b} : \A y \in {a, b} : x =< y
 <2>1. CASE a <= b BY <2>1
 <2>2. CASE b <= a BY <2>2
 <2> QED BY <2>1,<2>2
<1> QED BY <1>1 DEF Min

LEMMA MaxOfTwo ==
  ASSUME NEW a \in Nat, NEW b \in Nat
  PROVE  Max({a, b}) \in {a, b} /\ a <= Max({a, b}) /\ b <= Max({a, b})
<1>1. \E x \in {a, b} : \A y \in {a, b} : x >= y
 <2>1. CASE a <= b BY <2>1
 <2>2. CASE b <= a BY <2>2
 <2> QED BY <2>1,<2>2
<1> QED BY <1>1 DEF Max

\* SequencesExt's sequence of a set of at most one element
LEMMA SequenceOfNone == SetToSeq({}) = <<>>
<1>1. Cardinality({}) = 0 BY FS_EmptySet
<1>2. 1 .. 0 = {} OBVIOUS
<1>3. \A f \in [{} -> {}] : f = <<>> OBVIOUS
<1>4. \E f \in [{} -> {}] : IsInjective(f)
 <2>1. <<>> \in [{} -> {}] /\ IsInjective(<<>>) BY DEF IsInjective
 <2> QED BY <2>1
<1> QED BY <1>1,<1>2,<1>3,<1>4 DEF SetToSeq

LEMMA SequenceOfOne == ASSUME NEW x PROVE SetToSeq({x}) = <<x>>
<1>1. Cardinality({x}) = 1 BY FS_Singleton
<1>2. 1 .. 1 = {1} OBVIOUS
<1>3. \A f \in [{1} -> {x}] : f = <<x>>
 <2> TAKE f \in [{1} -> {x}]
 <2>1. f = [i \in {1} |-> x] OBVIOUS
 <2>2. <<x>> = [i \in {1} |-> x] BY <1>2
 <2> QED BY <2>1,<2>2
<1>4. \E f \in [{1} -> {x}] : IsInjective(f)
 <2>1. [i \in {1} |-> x] \in [{1} -> {x}] /\ IsInjective([i \in {1} |-> x]) BY DEF IsInjective
 <2> QED BY <2>1
<1> QED BY <1>1,<1>2,<1>3,<1>4 DEF SetToSeq

-----------------------------------------------------------------------------
(* What the model's operators return                                        *)

LEMMA SettingTypes ==
  ASSUME setting \in Settings
  PROVE  /\ setting.shared \in BOOLEAN /\ setting.sameGrant \in BOOLEAN
         /\ setting.ops \in Ops /\ setting.capacity \in Nat
         /\ setting.automatic \in Nat /\ setting.total \in Nat /\ setting.faults \in Nat
         /\ setting.resets \in Nat
BY SettingsAssumption

\* Nothing that must be published first, or its row is undecided.
LEMMA EarliestIs ==
  ASSUME NEW op \in Ops
  PROVE  /\ Earliest(op) \in {0} \cup Ops
         /\ Earliest(op) = 0 => \A o \in Ops : o < op => rows[o].state \notin Unresolved
<1> DEFINE S == {o \in Ops : o < op /\ rows[o].state \in Unresolved}
<1>1. CASE S = {} BY <1>1 DEF Earliest
<1>2. CASE S # {}
 <2>1. Min(S) \in S BY <1>2, LeastOp
 <2>2. Earliest(op) = Min(S) BY <1>2 DEF Earliest
 <2> QED BY <2>1,<2>2, OpsFinite
<1> QED BY <1>1,<1>2

\* A row that only its schedule tells apart.
Alike(r, s) == r.state = s.state /\ r.outcome = s.outcome /\ r.tries = s.tries /\ r.control = s.control

LEMMA FinishDueIs ==
  ASSUME NEW op \in Ops, NEW row, NEW kind, NEW useful
  PROVE  FinishDue(row, op, kind, useful) \in {Now, Never} \cup Ops
BY DEF FinishDue

LEMMA FinishIs ==
  ASSUME NEW rs \in [Ops -> Row], NEW op \in Ops, NEW kind, NEW appending,
         workers \in [Ops -> Worker], setting \in Settings
  PROVE  /\ finish(rs, op, kind, appending) \in [Ops -> Row]
         /\ \A o \in Ops : /\ Alike(finish(rs, op, kind, appending)[o], rs[o])
                           /\ finish(rs, op, kind, appending)[o].lease = "live" => rs[o].lease = "live"
                           /\ o # op => finish(rs, op, kind, appending)[o].lease = rs[o].lease
<1> DEFINE useful == workers[op].stirred
           row == rs[op]
           done == [row EXCEPT !.lease = IF kind = "uncertain" THEN @ ELSE "none",
                          !.due = FinishDue(row, op, kind, useful),
                          !.useful = useful, !.uncertain = kind = "uncertain",
                          !.probe = IF Probes(row, kind, appending) THEN 1 ELSE @]
           later(o) == [rs[o] EXCEPT !.due = o]
<1>1. done \in Row /\ Alike(done, row) /\ (done.lease = "live" => row.lease = "live")
 <2>1. FinishDue(row, op, kind, useful) \in {Now, Never} \cup Ops BY FinishDueIs
 <2>2. useful \in BOOLEAN /\ row \in Row BY DEF Worker
 <2>3. done \in Row
  <3>1. PICK due \in {Now, Never} \cup Ops : due = FinishDue(row, op, kind, useful) BY <2>1
  <3>2. PICK unsure \in BOOLEAN : unsure = (kind = "uncertain") OBVIOUS
  <3>3. PICK probe \in 0 .. 2 : probe = IF Probes(row, kind, appending) THEN 1 ELSE row.probe BY <2>2 DEF Row
  <3>4. PICK lease \in {"none", "live", "lapsed"} : lease = IF kind = "uncertain" THEN row.lease ELSE "none"
   BY <2>2 DEF Row
  <3>5. done = [row EXCEPT !.lease = lease, !.due = due, !.useful = useful, !.uncertain = unsure,
                           !.probe = probe] BY <3>1,<3>2,<3>3,<3>4,<2>2 DEF Row
  <3>6. [row EXCEPT !.lease = lease, !.due = due, !.useful = useful, !.uncertain = unsure,
                    !.probe = probe] \in Row BY <2>2 DEF Row
  <3> QED BY <3>5,<3>6
 <2>4. Alike(done, row) /\ done.lease = IF kind = "uncertain" THEN row.lease ELSE "none" BY <2>2 DEF Row, Alike
 <2> QED BY <2>3,<2>4
<1>2. \A o \in Ops : later(o) \in Row /\ Alike(later(o), rs[o]) /\ later(o).lease = rs[o].lease BY DEF Row, Alike
<1>3. \A o \in Ops : Alike(rs[o], rs[o]) BY DEF Alike
<1>4. \A o \in Ops : \/ finish(rs, op, kind, appending)[o] = done /\ o = op
                     \/ finish(rs, op, kind, appending)[o] = later(o) /\ o # op
                     \/ finish(rs, op, kind, appending)[o] = rs[o] /\ o # op BY DEF finish
<1>5. finish(rs, op, kind, appending) = [o \in Ops |-> finish(rs, op, kind, appending)[o]] BY DEF finish
<1> HIDE DEF done, later
<1>6. ASSUME NEW o \in Ops
      PROVE  /\ finish(rs, op, kind, appending)[o] \in Row
             /\ Alike(finish(rs, op, kind, appending)[o], rs[o])
             /\ finish(rs, op, kind, appending)[o].lease = "live" => rs[o].lease = "live"
             /\ o # op => finish(rs, op, kind, appending)[o].lease = rs[o].lease BY <1>1,<1>2,<1>3,<1>4
<1> QED BY <1>5,<1>6

-----------------------------------------------------------------------------
(* What a step leaves alone                                                 *)

\* What has happened stays so, and what has left the stream does not come back.
Onward ==
  /\ setting' = setting /\ source.sequence <= source'.sequence
  /\ Logged \subseteq Logged' /\ Ended \subseteq Ended'
  /\ history.gapped \subseteq history'.gapped /\ history.dropped \subseteq history'.dropped
  /\ history.overwritten \subseteq history'.overwritten
  /\ \A op \in Logged : op \notin dest.kept => op \notin dest'.kept

LEMMA SaidStays ==
  ASSUME Onward, NEW op \in Ops, NEW row, Said(op, row)
  PROVE  Said(op, row)'
BY DEF Onward, Said

LEMMA LearnedStays ==
  ASSUME Onward, NEW op \in Ops, NEW w, Learned(op, w)
  PROVE  Learned(op, w)'
BY DEF Onward, Learned, Truth

LEMMA AheadStays ==
  ASSUME Onward, NEW op \in Ops, Ahead(op)
  PROVE  Ahead(op)'
BY DEF Onward, Ahead, Decided

LEMMA IdleLearned == ASSUME NEW op \in Ops PROVE Learned(op, Idle) /\ Learned(op, Idle)'
BY DEF Learned, Idle, Truth, Cleaning

\* The rows, when a step moves onward.
LEMMA RowsStay ==
  ASSUME Types, Onward, source'.sequence = source.sequence, RowsTrue,
         NEW op \in Ops, Alike(rows'[op], rows[op])
  PROVE  Said(op, rows[op])' /\ Placed(op, rows[op])' /\ (Resolved(op) <=> Resolved(op)')
<1>1. Said(op, rows[op])'
 <2>1. PICK row : row = rows[op] OBVIOUS
 <2>2. Said(op, row)' BY <2>1, SaidStays DEF RowsTrue
 <2> QED BY <2>1,<2>2 DEF Said, Alike
<1>2. Placed(op, rows[op])' BY DEF RowsTrue, Placed, Alike, Onward
<1> QED BY <1>1,<1>2 DEF Resolved, Alike

\* An attempt that goes on knowing what it knew.
SameWorker(v, w) == v.step = w.step /\ v.reply = w.reply /\ v.probing = w.probing
LEMMA WorkerStays ==
  ASSUME Onward, WorkersTrue, NEW op \in Ops, SameWorker(workers'[op], workers[op])
  PROVE  Learned(op, workers[op])'
<1>1. PICK w : w = workers[op] OBVIOUS
<1>2. Learned(op, w)' BY <1>1, LearnedStays DEF WorkersTrue
<1> QED BY <1>1,<1>2 DEF Learned, SameWorker, Truth

LEMMA AnchorStays ==
  ASSUME WorkersTrue, NEW op \in Ops, SameWorker(workers'[op], workers[op]),
         rows[op].state \notin {"none", "gone"} => rows'[op].state \notin {"none", "gone"},
         workers[op].step # "idle" => rows'[op].lease = rows[op].lease
  PROVE  Anchored(workers[op], rows[op])'
BY DEF WorkersTrue, Anchored, SameWorker

LEMMA IdleAnchored == ASSUME NEW row PROVE Anchored(Idle, row)
BY DEF Anchored, Idle

\* The parts of the stream that the facts speak of.  It may exclude a call, and note an
\* operation that is resolved.
SameStream ==
  /\ \A op \in Ops :
       /\ dest'.rec[op] = dest.rec[op] /\ dest.fences[op] \subseteq dest'.fences[op]
       /\ op \in dest'.noted => op \in dest.noted \/ Resolved(op)
  /\ dest'.kept = dest.kept /\ dest'.receipts = dest.receipts /\ dest'.gap = dest.gap
  /\ dest'.reset = dest.reset /\ dest'.checkpoint = dest.checkpoint

SameReset == /\ UNCHANGED reset
             /\ source'.sequence = source.sequence /\ source'.reset = source.reset
             /\ source'.checkpoint = source.checkpoint

LEMMA OnwardSame ==
  ASSUME Types, UNCHANGED <<setting, history>>, dest'.kept = dest.kept,
         source.sequence <= source'.sequence
  PROVE  Onward /\ Logged' = Logged /\ Ended' = Ended /\ Decided' = Decided
BY DEF Onward, Logged, Ended, Decided

LEMMA FactsSame ==
  ASSUME Types, Facts, UNCHANGED <<expired, history>>, SameStream,
         source.sequence <= source'.sequence, source'.sequence \in Nat, source'.sequence <= Operations
  PROVE  Facts'
<1>1. Logged' = Logged BY DEF Logged
<1>2. source.sequence \in Nat BY DEF Types, SourceTypes, Relayed
<1>3. Known' BY <1>1,<1>2 DEF Facts, Known
<1>4. EventsTrue' /\ GapDeclared' /\ NoneAfterMove' /\ ResetIsFinal'
 BY <1>1 DEF Facts, SameStream, EventsTrue, GapDeclared, NoneAfterMove, ResetIsFinal
<1>5. InOrder' BY <1>1 DEF Facts, InOrder, Increasing
<1> QED BY <1>3,<1>4,<1>5 DEF Facts

LEMMA RecordsSame ==
  ASSUME Types, RecordsTrue, UNCHANGED <<expired, history>>, SameStream, registry.moved => registry'.moved,
         \A op \in Ops : (Resolved(op) => Resolved(op)') /\ (Closed(op) => Closed(op)')
  PROVE  RecordsTrue'
<1>1. Logged' = Logged BY DEF Logged
<1>2. dest'.receipts = Logged' BY <1>1 DEF RecordsTrue, SameStream
<1>3. ASSUME NEW op \in Ops PROVE RecordOf(op)'
 <2>1. Superseded(dest, op) => Superseded(dest, op)' BY DEF SameStream, Superseded
 <2>2. RecordOf(op) /\ (Closed(op) => Closed(op)') /\ (Resolved(op) => Resolved(op)') BY DEF RecordsTrue
 <2>3. /\ dest'.kept = dest.kept /\ dest'.receipts = dest.receipts /\ dest'.rec[op] = dest.rec[op]
       /\ op \in dest'.noted => op \in dest.noted \/ Resolved(op) BY DEF SameStream
 <2> QED BY <1>1,<2>1,<2>2,<2>3 DEF RecordOf
<1> QED BY <1>2,<1>3 DEF RecordsTrue

\* Messages and the queue stay true while the stream moves onward and forgets nothing that
\* an append on its way may ask for.
Unsent(op) == (\A m \in mail : m.op # op) /\ registry.at.op # op
NoneForgotten ==
  /\ dest.receipts \subseteq dest'.receipts /\ expired \subseteq expired'
  /\ \A op \in Ops : Unsent(op) \/ dest.fences[op] \subseteq dest'.fences[op]

\* A request, whatever became of it while it was on its way.
Copied(n, m) == /\ n.to = m.to /\ n.kind = m.kind /\ n.op = m.op /\ n.try = m.try
                /\ n.call = m.call /\ n.head = m.head
LEMMA CopyStays ==
  ASSUME NEW m, NEW n, Copied(n, m), (MessageOf(m) /\ Guarded(m))'
  PROVE  (MessageOf(n) /\ Guarded(n))'
BY DEF Copied, MessageOf, Guarded, Shut

LEMMA MessageStays ==
  ASSUME Types, Onward, NoneForgotten, source'.sequence \in Nat,
         NEW m \in mail, MessageOf(m), Guarded(m), registry'.barrier[m.op] = registry.barrier[m.op]
  PROVE  MessageOf(m)' /\ Guarded(m)'
<1>1. m.op \in Ops /\ m.op \in Nat /\ source.sequence \in Nat
 BY OpsFinite DEF Message, Types, SourceTypes, StreamTypes, Relayed
<1>2. MessageOf(m)' BY <1>1, AheadStays DEF MessageOf, Onward
<1>3. Guarded(m)'
 <2>1. ~Unsent(m.op) BY DEF Unsent
 <2>2. Shut(m) => Shut(m)' BY <1>1,<2>1 DEF Shut, NoneForgotten
 <2> QED BY <1>1,<2>2 DEF Guarded, Onward
<1> QED BY <1>2,<1>3

LEMMA CallStays ==
  ASSUME Types, Onward, NoneForgotten, source'.sequence \in Nat, registry'.barrier = registry.barrier,
         NEW at, at = registry.at, CallOf(at)
  PROVE  CallOf(at)'
<1>1. source.sequence \in Nat /\ at.op \in {0} \cup Ops /\ Ops \subseteq Nat
 BY OpsFinite DEF Types, SourceTypes, StreamTypes, Relayed, Binding, Call
<1>2. CASE at.op = 0 BY <1>2 DEF CallOf
<1>3. CASE at.op # 0
 <2>1. at.op \in Ops BY <1>1,<1>3
 <2>2. Ahead(at.op) => Ahead(at.op)' BY <2>1, AheadStays
 <2>3. /\ Truth(at.op, at.reply) => Truth(at.op, at.reply)'
       /\ Truth(at.op, at.fence) => Truth(at.op, at.fence)' BY <2>1 DEF Truth, Onward
 <2>4. dest.fences[at.op] \subseteq dest'.fences[at.op]
  <3>1. ~Unsent(at.op) BY DEF Unsent
  <3> QED BY <2>1,<3>1 DEF NoneForgotten
 <2>5. setting' = setting /\ source.sequence <= source'.sequence BY DEF Onward
 <2>6. at.op <= source.sequence => at.op <= source'.sequence
  <3>1. at.op \in Nat BY <1>1,<2>1
  <3> QED BY <1>1,<2>5,<3>1
 <2>7. at.step # "idle" /\ setting'.shared /\ at.op <= source'.sequence /\ (at.head => Ahead(at.op)')
  BY <1>3,<2>2,<2>5,<2>6 DEF CallOf
 <2>8. at.step = "decide" => registry'.barrier[at.op] = 0 /\ at.reply = "none" BY <1>3 DEF CallOf
 <2>9. Truth(at.op, at.reply)' /\ Truth(at.op, at.fence)' BY <1>3,<2>3 DEF CallOf
 <2>10. /\ at.fence # "none" =>
             /\ at.step = "fence" /\ at.fence \in {"appended", "gap", "fenced"}
             /\ at.fence = "fenced" => registry'.barrier[at.op] \in dest'.fences[at.op]
        /\ at.moving => at.step = "fence" BY <1>3,<2>4 DEF CallOf
 <2> QED BY <1>3,<2>7,<2>8,<2>9,<2>10 DEF CallOf
<1> QED BY <1>2,<1>3

LEMMA QueueStays ==
  ASSUME Types, Onward, NoneForgotten, source'.sequence \in Nat, QueueTrue, UNCHANGED registry
  PROVE  QueueTrue'
<1>1. PICK at : at = registry.at /\ at = registry'.at OBVIOUS
<1>2. CallOf(at)' BY <1>1, CallStays DEF QueueTrue
<1>3. CallOf(registry.at)' BY <1>1,<1>2
<1> QED BY <1>3 DEF QueueTrue, Onward

LEMMA ResetSame ==
  ASSUME Types, ResetTrue, SameReset, UNCHANGED history, SameStream
  PROVE  ResetTrue'
BY DEF ResetTrue, SameReset, SameStream, Granted

ResolvedStay == \A op \in Ops : Resolved(op) => Resolved(op)'
ClosedStay == \A op \in Ops : Closed(op) => Closed(op)'

\* A step that leaves the stream and what happened alone.
LEMMA StillStep ==
  ASSUME IInv, Types', UNCHANGED <<setting, expired, history>>, SameStream, ResolvedStay, ClosedStay,
         source.sequence <= source'.sequence, source'.sequence <= Operations,
         registry.moved => registry'.moved,
         RowsTrue', OneLease', WorkersTrue', MessagesTrue', CallsTrue', QueueTrue', ResetTrue'
  PROVE  IInv'
<1>1. Types /\ RecordsTrue /\ Facts BY DEF IInv
<1>2. source'.sequence \in Nat BY DEF Types, SourceTypes, Relayed
<1>3. RecordsTrue' BY <1>1, RecordsSame DEF ResolvedStay, ClosedStay
<1>4. Facts' BY <1>1,<1>2, FactsSame
<1> QED BY <1>3,<1>4 DEF IInv

\* What a new message has to be; and, of the source, none is the registry's call.
NewMail ==
  \A m \in mail' : \/ \E n \in mail : Copied(m, n)
                   \/ /\ MessageOf(m)' /\ Guarded(m)'
                      /\ m.kind = "append" /\ Closed(m.op) => Superseded(dest, m.op)
SourceMail == \A m \in mail' : m \in mail \/ ~Current(m)

LEMMA CallsStay ==
  ASSUME CallsTrue, UNCHANGED <<setting, registry>>, SourceMail
  PROVE  CallsTrue'
BY DEF CallsTrue, SourceMail, Current, AwaitedBy

LEMMA MessagesStay ==
  ASSUME Types, MessagesTrue, Onward, NoneForgotten, source'.sequence \in Nat, NewMail,
         registry'.barrier = registry.barrier
  PROVE  MessagesTrue'
<1> SUFFICES ASSUME NEW m \in mail' PROVE (MessageOf(m) /\ Guarded(m))' BY DEF MessagesTrue
<1>1. CASE \E n \in mail : Copied(m, n)
 <2>1. PICK n \in mail : Copied(m, n) BY <1>1
 <2>2. (MessageOf(n) /\ Guarded(n))' BY MessageStays DEF MessagesTrue
 <2> QED BY <2>1,<2>2, CopyStays
<1>2. CASE ~\E n \in mail : Copied(m, n) BY <1>2 DEF NewMail
<1> QED BY <1>1,<1>2

\* The queue takes up no closed operation, but for a move.
CallKept == registry'.at.op = 0 \/ registry'.at.moving \/ ~Unasked(registry'.at.op)
LEMMA SameCall ==
  ASSUME registry'.at.op = registry.at.op, registry'.at.moving = registry.at.moving
  PROVE  CallKept
BY DEF CallKept, Unasked

LEMMA ClosedStays ==
  ASSUME dest'.checkpoint = dest.checkpoint, ResolvedStay, NewMail, CallKept
  PROVE  ClosedStay
<1> SUFFICES ASSUME NEW op \in Ops, Closed(op) PROVE Closed(op)' BY DEF ClosedStay
<1>1. CASE Superseded(dest, op) BY <1>1 DEF Closed, Superseded
<1>2. CASE ~Superseded(dest, op)
 <2>1. Resolved(op) /\ Unasked(op) BY <1>2 DEF Closed
 <2>2. \A m \in mail' : m.op = op => m.kind # "append" BY <2>1,<1>2 DEF NewMail, Unasked, Copied
 <2>3. registry'.at.op = op => registry'.at.moving BY <2>1, OpsFinite DEF CallKept
 <2> QED BY <2>1,<2>2,<2>3 DEF Closed, ResolvedStay, Unasked
<1> QED BY <1>1,<1>2

\* A step of the source, of a page or of a wakeup.
LEMMA SourceStep ==
  ASSUME IInv, Types', UNCHANGED <<setting, registry, expired, history>>, NewMail, SourceMail,
         SameStream, source.sequence <= source'.sequence, source'.sequence <= Operations,
         RowsTrue', OneLease', WorkersTrue', ResolvedStay, ResetTrue'
  PROVE  IInv'
<1>1. Types /\ MessagesTrue /\ CallsTrue /\ QueueTrue BY DEF IInv
<1>2. source'.sequence \in Nat BY DEF Types, SourceTypes, Relayed
<1>3. Onward BY <1>1, OnwardSame DEF SameStream
<1>4. NoneForgotten BY DEF NoneForgotten, SameStream
<1>5. MessagesTrue' BY <1>1,<1>2,<1>3,<1>4, MessagesStay
<1>6. QueueTrue' BY <1>1,<1>2,<1>3,<1>4, QueueStays
<1>7. ClosedStay BY SameCall, ClosedStays DEF SameStream
<1>8. CallsTrue' BY <1>1, CallsStay
<1> QED BY <1>5,<1>6,<1>7,<1>8, StillStep

-----------------------------------------------------------------------------
(* The rows and the attempts                                                *)

Attempts == /\ rows \in [Ops -> Row] /\ workers \in [Ops -> Worker]
            /\ RowsTrue /\ OneLease /\ WorkersTrue
Steady == Onward /\ source'.sequence = source.sequence

\* Rows that keep what they say, attempts of which one changes.
LEMMA AlikeStep ==
  ASSUME IInv, Steady, NEW op \in Ops, rows' \in [Ops -> Row], workers' \in [Ops -> Worker],
         \A o \in Ops : /\ Alike(rows'[o], rows[o])
                        /\ rows'[o].lease = "live" => rows[o].lease = "live"
                        /\ o # op => SameWorker(workers'[o], workers[o]) /\ rows'[o].lease = rows[o].lease,
         Learned(op, workers[op])', Anchored(workers[op], rows[op])'
  PROVE  Attempts' /\ ResolvedStay
<1>1. Types /\ RowsTrue /\ OneLease /\ WorkersTrue BY DEF IInv
<1>2. \A o \in Ops : Said(o, rows[o])' /\ Placed(o, rows[o])' /\ (Resolved(o) <=> Resolved(o)')
 BY <1>1, RowsStay DEF Steady
<1>3. OneLease' BY <1>1 DEF OneLease, Held, Alike
<1>4. ASSUME NEW o \in Ops PROVE Learned(o, workers[o])' /\ Anchored(workers[o], rows[o])'
 <2>1. CASE o = op BY <2>1
 <2>2. CASE o # op BY <2>2,<1>1, WorkerStays, AnchorStays DEF Steady, Alike
 <2> QED BY <2>1,<2>2
<1> QED BY <1>2,<1>3,<1>4 DEF Attempts, RowsTrue, WorkersTrue, ResolvedStay

\* An attempt ends.
LEMMA EndsStep ==
  ASSUME IInv, Steady, NEW op \in Ops, NEW rs \in [Ops -> Row], NEW kind, NEW appending,
         \A o \in Ops : Alike(rs[o], rows[o]) /\ rs[o].lease = rows[o].lease,
         Ends(rs, op, kind, appending)
  PROVE  Attempts' /\ ResolvedStay
<1>1. Types /\ setting \in Settings /\ rows \in [Ops -> Row] /\ workers \in [Ops -> Worker]
 BY DEF IInv, Types, SourceTypes
<1> DEFINE f == finish(rs, op, kind, appending)
<1>2. rows' = f /\ workers' = [workers EXCEPT ![op] = Idle] BY DEF Ends
<1>3. f \in [Ops -> Row] BY <1>1, FinishIs
<1>4. \A o \in Ops : /\ Alike(f[o], rs[o])
                     /\ f[o].lease = "live" => rs[o].lease = "live"
                     /\ o # op => f[o].lease = rs[o].lease BY <1>1, FinishIs
<1> HIDE DEF f
<1>5. workers' \in [Ops -> Worker] /\ workers'[op] = Idle BY <1>1,<1>2 DEF Idle, Worker, Answers
<1>6. \A o \in Ops : /\ Alike(rows'[o], rows[o])
                     /\ rows'[o].lease = "live" => rows[o].lease = "live"
                     /\ o # op => SameWorker(workers'[o], workers[o]) /\ rows'[o].lease = rows[o].lease
 <2> TAKE o \in Ops
 <2>1. Alike(f[o], rs[o]) /\ Alike(rs[o], rows[o]) BY <1>4
 <2>2. Alike(rows'[o], rows[o]) BY <2>1,<1>2 DEF Alike
 <2>3. (f[o].lease = "live" => rs[o].lease = "live") /\ (o # op => f[o].lease = rs[o].lease) BY <1>4
 <2>4. rows'[o] = f[o] /\ rs[o].lease = rows[o].lease BY <1>2
 <2>5. o # op => SameWorker(workers'[o], workers[o]) BY <1>1,<1>2 DEF SameWorker
 <2> QED BY <2>2,<2>3,<2>4,<2>5
<1>7. Learned(op, Idle)' /\ Anchored(Idle, rows'[op]) BY IdleLearned, IdleAnchored
<1>8. Learned(op, workers[op])' BY <1>5, IdleLearned DEF Learned, Truth
<1>9. Anchored(workers[op], rows[op])' BY <1>5,<1>7
<1> QED BY <1>2,<1>3,<1>5,<1>6,<1>8,<1>9, AlikeStep

\* An attempt goes on.
LEMMA GoesStep ==
  ASSUME IInv, Steady, NEW op \in Ops, NEW w \in Worker, Goes(op, w), UNCHANGED rows,
         Learned(op, w)', Anchored(w, rows[op])
  PROVE  Attempts' /\ ResolvedStay
<1>1. Types /\ rows \in [Ops -> Row] /\ workers \in [Ops -> Worker] BY DEF IInv, Types, SourceTypes
<1>2. workers' \in [Ops -> Worker] /\ workers'[op] = w BY <1>1 DEF Goes
<1>3. \A o \in Ops : /\ Alike(rows'[o], rows[o])
                     /\ rows'[o].lease = "live" => rows[o].lease = "live"
                     /\ o # op => SameWorker(workers'[o], workers[o]) /\ rows'[o].lease = rows[o].lease
 BY <1>1 DEF Alike, SameWorker, Goes
<1>4. Learned(op, workers[op])' BY <1>2 DEF Learned, Truth
<1>5. Anchored(workers[op], rows[op])' BY <1>2
<1> QED BY <1>1,<1>2,<1>3,<1>4,<1>5, AlikeStep

\* One more step of an attempt that knows enough for it.
LEMMA StepsStep ==
  ASSUME IInv, Steady, NEW op \in Ops, NEW step, Steps(op, step), UNCHANGED rows,
         workers[op].step # "idle",
         step \in {"interest", "registered", "waiting", "confirm", "outcome"} \cup Cleaning,
         step \in Cleaning => op \in Ended', step = "outcome" => op \in Logged' \cup Ended'
  PROVE  Attempts' /\ ResolvedStay
<1>1. PICK w : w = [workers[op] EXCEPT !.step = step] OBVIOUS
<1>2. workers[op] \in Worker /\ WorkersTrue BY DEF IInv, Types, SourceTypes
<1>3. w \in Worker /\ w.step = step /\ w.reply = workers[op].reply /\ w.probing = workers[op].probing
 BY <1>1,<1>2 DEF Worker
<1>4. Goes(op, w) BY <1>1 DEF Steps
<1>5. PICK v : v = workers[op] OBVIOUS
<1>6. Learned(op, v)' BY <1>2,<1>5, LearnedStays DEF Steady, WorkersTrue
<1>7. Learned(op, w)' BY <1>3,<1>5,<1>6 DEF Learned, Truth
<1>8. Anchored(w, rows[op]) BY <1>2,<1>3 DEF WorkersTrue, Anchored
<1> QED BY <1>3,<1>4,<1>7,<1>8, GoesStep

\* One row moves on, with its attempt.
LEMMA RowStep ==
  ASSUME IInv, Steady, NEW op \in Ops, NEW r \in Row, NEW w \in Worker,
         rows' = [rows EXCEPT ![op] = r], Goes(op, w),
         Said(op, r)', Placed(op, r)', Resolved(op) => r.state \notin Unresolved \cup {"none"},
         r.state \in Unresolved /\ r.lease = "live" => \A o \in Ops \ {op} : ~Held(o),
         Learned(op, w)', Anchored(w, r)
  PROVE  Attempts' /\ ResolvedStay
<1>1. Types /\ RowsTrue /\ OneLease /\ rows \in [Ops -> Row] /\ workers \in [Ops -> Worker]
 BY DEF IInv, Types, SourceTypes
<1>2. rows' \in [Ops -> Row] /\ workers' \in [Ops -> Worker] BY <1>1 DEF Goes
<1>3. rows'[op] = r /\ workers'[op] = w BY <1>1 DEF Goes
<1>4. \A o \in Ops \ {op} : rows'[o] = rows[o] /\ workers'[o] = workers[o] BY <1>1 DEF Goes
<1>5. Said(op, rows[op])' /\ Placed(op, rows[op])' BY <1>3 DEF Said, Placed
<1>6. ASSUME NEW o \in Ops, o # op
      PROVE  /\ Said(o, rows[o])' /\ Placed(o, rows[o])' /\ (Resolved(o) => Resolved(o)')
             /\ Learned(o, workers[o])' /\ Anchored(workers[o], rows[o])'
 <2>1. Alike(rows'[o], rows[o]) /\ rows'[o].lease = rows[o].lease
       /\ SameWorker(workers'[o], workers[o]) BY <1>4,<1>6 DEF Alike, SameWorker
 <2>2. Said(o, rows[o])' /\ Placed(o, rows[o])' /\ (Resolved(o) => Resolved(o)') BY <1>1,<2>1, RowsStay DEF Steady
 <2>3. WorkersTrue BY DEF IInv
 <2>4. Learned(o, workers[o])' BY <2>1,<2>3, WorkerStays DEF Steady
 <2>5. Anchored(workers[o], rows[o])' BY <2>1,<2>3, AnchorStays DEF Alike
 <2> QED BY <2>2,<2>4,<2>5
<1>7. RowsTrue' /\ ResolvedStay BY <1>3,<1>5,<1>6 DEF RowsTrue, ResolvedStay, Resolved
<1>8. WorkersTrue'
 <2>1. Learned(op, workers[op])' BY <1>3 DEF Learned, Truth
 <2>2. Anchored(workers[op], rows[op])' BY <1>3
 <2> QED BY <2>1,<2>2,<1>6 DEF WorkersTrue
<1>9. OneLease'
 <2>1. \A o \in Ops \ {op} : Held(o) <=> Held(o)' BY <1>4 DEF Held
 <2>2. Held(op)' => \A o \in Ops \ {op} : ~Held(o)' BY <2>1,<1>3 DEF Held
 <2> QED BY <1>1,<2>1,<2>2 DEF OneLease
<1> QED BY <1>2,<1>7,<1>8,<1>9 DEF Attempts

\* Only schedules change.
LEMMA TouchStep ==
  ASSUME IInv, Steady, rows' \in [Ops -> Row], workers' \in [Ops -> Worker],
         \A o \in Ops : /\ Alike(rows'[o], rows[o]) /\ rows'[o].lease = rows[o].lease
                        /\ SameWorker(workers'[o], workers[o]) \/ workers'[o] = Idle
  PROVE  Attempts' /\ ResolvedStay
<1>1. Types /\ RowsTrue /\ OneLease /\ WorkersTrue BY DEF IInv
<1>2. \A o \in Ops : Said(o, rows[o])' /\ Placed(o, rows[o])' /\ (Resolved(o) <=> Resolved(o)')
 BY <1>1, RowsStay DEF Steady
<1>3. OneLease' BY <1>1 DEF OneLease, Held, Alike
<1>4. ASSUME NEW o \in Ops PROVE Learned(o, workers[o])' /\ Anchored(workers[o], rows[o])'
 <2>1. CASE SameWorker(workers'[o], workers[o]) BY <2>1,<1>1, WorkerStays, AnchorStays DEF Steady, Alike
 <2>2. CASE workers'[o] = Idle
  <3>1. Learned(o, workers[o])' BY <2>2, IdleLearned DEF Learned, Truth
  <3>2. Anchored(workers[o], rows[o])' BY <2>2, IdleAnchored
  <3> QED BY <3>1,<3>2
 <2> QED BY <2>1,<2>2
<1> QED BY <1>2,<1>3,<1>4 DEF Attempts, RowsTrue, WorkersTrue, ResolvedStay

LEMMA InvTypes ==
  ASSUME IInv
  PROVE  /\ setting \in Settings /\ rows \in [Ops -> Row] /\ source \in Relayed
         /\ workers \in [Ops -> Worker] /\ mail \in SUBSET Message /\ registry \in Binding
         /\ dest \in Destination /\ drainer \in Drain /\ consumer \in {"off", "checked", "on"}
         /\ reset \in Grant /\ expired \subseteq Ops /\ faults \in 0 .. setting.faults
         /\ history \in Past
BY DEF IInv, Types, SourceTypes, StreamTypes, OtherTypes

LEMMA SteadyQuiet ==
  ASSUME IInv, UNCHANGED <<setting, history>>, dest'.kept = dest.kept,
         source'.sequence = source.sequence
  PROVE  Steady /\ Logged' = Logged /\ Ended' = Ended
<1>1. Types /\ source.sequence \in Nat BY DEF IInv, Types, SourceTypes, Relayed
<1> QED BY <1>1, OnwardSame DEF Steady

LEMMA FaultIs == ASSUME IInv, Fault PROVE faults' \in 0 .. setting.faults
<1>1. setting \in Settings /\ faults \in 0 .. setting.faults /\ setting.faults \in Nat BY InvTypes, SettingTypes
<1> QED BY <1>1 DEF Fault

LEMMA MailShrinks ==
  ASSUME IInv, mail' \subseteq mail PROVE mail' \in SUBSET Message /\ NewMail /\ SourceMail
BY InvTypes DEF NewMail, SourceMail, Copied

\* An attempt's step that leaves the stream's records alone.
LEMMA AttemptStep ==
  ASSUME IInv, Attempts', ResolvedStay, UNCHANGED <<setting, registry, expired, history>>,
         mail' \in SUBSET Message, NewMail, SourceMail, SameStream, SameReset,
         source' \in Relayed, dest' \in Destination, drainer' \in Drain,
         consumer' \in {"off", "checked", "on"}, faults' \in 0 .. setting.faults
  PROVE  IInv'
<1>1. Types /\ ResetTrue /\ source.sequence \in Nat /\ source.sequence <= Operations
 BY DEF IInv, Types, SourceTypes, Relayed, Facts, Known
<1>2. Types' BY <1>1 DEF Types, SourceTypes, StreamTypes, OtherTypes, Attempts, SameReset
<1>3. ResetTrue' BY <1>1, ResetSame
<1>4. source.sequence <= source'.sequence /\ source'.sequence <= Operations BY <1>1 DEF SameReset
<1>5. RowsTrue' /\ OneLease' /\ WorkersTrue' BY DEF Attempts
<1> QED BY <1>2,<1>3,<1>4,<1>5, SourceStep

\* The commonest case: only the rows, the attempts and the relay's own row change.
LEMMA RelayStep ==
  ASSUME IInv, Attempts', ResolvedStay,
         UNCHANGED <<setting, mail, registry, dest, drainer, consumer, reset, expired, history>>,
         SameReset, source' \in Relayed, faults' \in 0 .. setting.faults
  PROVE  IInv'
<1>1. SameStream /\ mail' \subseteq mail BY DEF SameStream
<1>2. dest' \in Destination /\ drainer' \in Drain /\ consumer' \in {"off", "checked", "on"} BY InvTypes
<1> QED BY <1>1,<1>2, MailShrinks, AttemptStep

LEMMA QuietReset == ASSUME UNCHANGED <<source, reset>> PROVE SameReset
BY DEF SameReset

-----------------------------------------------------------------------------
(* The relay's pass                                                         *)

LEMMA PassOverKeeps == ASSUME IInv, NEW op \in Ops, PassOver(op) PROVE IInv'
<1>1. rows \in [Ops -> Row] /\ workers \in [Ops -> Worker] /\ faults \in 0 .. setting.faults
      /\ source \in Relayed BY InvTypes
<1>2. \E due \in {Now, Never} \cup Ops : rows' = [rows EXCEPT ![op].due = due]
 <2> DEFINE head == rows[Earliest(op)]
            due == IF Waits(op) THEN (IF head.due = Never THEN Earliest(op) ELSE head.due)
                   ELSE IF control(rows[op]) \/ op \in expired THEN Never ELSE op
 <2>1. CASE Waits(op)
  <3>1. Earliest(op) \in Ops BY <2>1, EarliestIs DEF Waits
  <3>2. head.due \in {Now, Never} \cup Ops BY <3>1,<1>1 DEF Row
  <3>3. due \in {Now, Never} \cup Ops BY <2>1,<3>1,<3>2
  <3> QED BY <3>3 DEF PassOver
 <2>2. CASE ~Waits(op)
  <3>1. due \in {Now, Never} \cup Ops BY <2>2
  <3> QED BY <3>1 DEF PassOver
 <2> QED BY <2>1,<2>2
<1>3. PICK due \in {Now, Never} \cup Ops : rows' = [rows EXCEPT ![op].due = due] BY <1>2
<1>4. UNCHANGED <<setting, source, workers, mail, registry, dest, drainer, consumer, reset,
                  expired, faults, history>> BY DEF PassOver
<1>5. rows' \in [Ops -> Row] BY <1>1,<1>3 DEF Row
<1>6. \A o \in Ops : /\ Alike(rows'[o], rows[o]) /\ rows'[o].lease = rows[o].lease
                     /\ SameWorker(workers'[o], workers[o]) BY <1>1,<1>3,<1>4 DEF Alike, SameWorker, Row
<1>7. Steady BY <1>4, SteadyQuiet
<1>8. Attempts' /\ ResolvedStay BY <1>1,<1>4,<1>5,<1>6,<1>7, TouchStep
<1> QED BY <1>1,<1>4,<1>8, QuietReset, RelayStep

\* What is known of every operation before the one that is the head.
LEMMA HeadIsAhead ==
  ASSUME IInv, NEW op \in Ops, rows[op].state # "none", Earliest(op) = 0
  PROVE  Ahead(op)
<1> SUFFICES ASSUME NEW o \in Ops, o < op PROVE o \in Decided BY DEF Ahead
<1>1. rows \in [Ops -> Row] /\ source.sequence \in Nat /\ Ops \subseteq Nat BY InvTypes, OpsFinite DEF Relayed
<1>2. Said(o, rows[o]) /\ Placed(o, rows[o]) /\ Placed(op, rows[op]) /\ EventsTrue BY DEF IInv, RowsTrue, Facts
<1>3. rows[o].state \notin Unresolved BY EarliestIs
<1>4. op <= source.sequence /\ o <= source.sequence BY <1>1,<1>2 DEF Placed
<1>5. rows[o].state # "none" BY <1>1,<1>2,<1>4 DEF Placed
<1>6. rows[o].state \in {"appended", "gap_recorded", "reset_discarded", "retiring", "gone"}
 BY <1>1,<1>3,<1>5 DEF Row, Cleanup, Controls, Unresolved
<1>7. o \in Logged \cup history.gapped \cup history.dropped \cup Ended BY <1>2,<1>6 DEF Said
<1> QED BY <1>2,<1>7 DEF Ended, Decided, EventsTrue

\* The request of an attempt, with the snapshot it carries.
LEMMA SendsMail ==
  ASSUME IInv, Steady, NEW op \in Ops, NEW try \in Nat, rows[op].state \in Unresolved,
         mail' = mail \cup {Request(Authority, "append", op, try, 0, Earliest(op) = 0,
                                     ~setting.shared /\ ~Stored(dest, op))}
  PROVE  mail' \in SUBSET Message /\ NewMail /\ SourceMail
<1>1. PICK head, early \in BOOLEAN : head = (Earliest(op) = 0) /\ early = (~setting.shared /\ ~Stored(dest, op))
 OBVIOUS
<1>2. PICK m : m = Request(Authority, "append", op, try, 0, head, early) OBVIOUS
<1>3. mail' = mail \cup {m} /\ mail \in SUBSET Message BY <1>1,<1>2, InvTypes
<1>4. m \in Message /\ m.op = op /\ m.head = head /\ m.kind = "append"
      /\ m.to = Authority BY <1>2 DEF Message, Authority, Request
<1>5. m.to = "registry" <=> setting.shared
 <2>1. setting.shared \in BOOLEAN BY InvTypes, SettingTypes
 <2> QED BY <2>1,<1>4 DEF Authority
<1>6. MessageOf(m)'
 <2>1. Placed(op, rows[op]) /\ source.sequence \in Nat /\ op \in Nat
  BY InvTypes, OpsFinite DEF IInv, RowsTrue, Relayed
 <2>2. op <= source'.sequence BY <2>1 DEF Placed, Unresolved, Steady
 <2>3. m.head => Ahead(op) BY <1>1,<1>4, HeadIsAhead DEF Unresolved
 <2>4. m.head => Ahead(op)' BY <2>3, AheadStays DEF Steady
 <2> QED BY <2>2,<2>4,<1>4,<1>5 DEF MessageOf, Steady, Onward
<1>7. Guarded(m)' /\ ~Current(m) BY <1>4,<1>5 DEF Guarded, Current, Authority, Steady, Onward
<1>8. Closed(m.op) => Superseded(dest, m.op) BY <1>4 DEF Closed, Resolved
<1>9. \A n \in mail : Copied(n, n) BY DEF Copied
<1> QED BY <1>3,<1>4,<1>6,<1>7,<1>8,<1>9 DEF NewMail, SourceMail

\* What the attempt does next, and what it knows then.
LEMMA ReconcileIs ==
  ASSUME IInv, Steady, NEW op \in Ops, NEW w \in Worker, NEW row \in Row,
         row.state \notin {"none", "gone"}, Said(op, row)', Truth(op, w.reply)',
         row.state \in Unresolved => rows[op].state \in Unresolved,
         reconcileStateEventIntent(op, w, row)
  PROVE  /\ mail' \in SUBSET Message /\ NewMail /\ SourceMail
         /\ \E v \in Worker : Goes(op, v) /\ Learned(op, v)' /\ v.probing = w.probing
<1>1. CASE row.state \in Unresolved
 <2>1. w.try \in Nat BY DEF Worker
 <2>2. mail' \in SUBSET Message /\ NewMail /\ SourceMail BY <1>1,<2>1, SendsMail DEF reconcileStateEventIntent
 <2>3. PICK v : v = [w EXCEPT !.step = "waiting"] OBVIOUS
 <2>4. v \in Worker /\ v.step = "waiting" /\ v.probing = w.probing /\ v.reply = w.reply BY <2>3 DEF Worker
 <2>5. Learned(op, v)' BY <2>4 DEF Learned, Truth, Cleaning
 <2> QED BY <1>1,<2>2,<2>3,<2>4,<2>5 DEF reconcileStateEventIntent
<1>2. CASE row.state \notin Unresolved
 <2>1. PICK step : step = IF row.state = "reset_discarded" THEN "cleanup"
                          ELSE IF row.confirmed THEN "outcome" ELSE "confirm" OBVIOUS
 <2>2. PICK v : v = [w EXCEPT !.step = step] OBVIOUS
 <2>3. v \in Worker /\ v.step = step /\ v.probing = w.probing /\ v.reply = w.reply
  BY <2>1,<2>2 DEF Worker, Cleaning
 <2>4. row.state \in {"appended", "gap_recorded", "reset_discarded", "retiring"}
  BY <1>2 DEF Row, Cleanup, Controls, Unresolved
 <2>5. step = "cleanup" => op \in history'.dropped BY <2>1,<2>4 DEF Said
 <2>6. step \in {"cleanup", "outcome", "confirm"} BY <2>1
 <2>7. op \in Logged' \cup history'.gapped \cup history'.dropped \cup Ended' BY <2>4 DEF Said
 <2>8. Learned(op, v)' BY <2>3,<2>5,<2>6,<2>7 DEF Learned, Truth, Cleaning, Ended
 <2>9. Goes(op, v) /\ mail' = mail BY <1>2,<2>1,<2>2 DEF reconcileStateEventIntent
 <2> QED BY <2>3,<2>8,<2>9, MailShrinks
<1> QED BY <1>1,<1>2

\* The lease of a claimed row, and its state after the deadline.
LEMMA ClaimedIs ==
  ASSUME IInv, Steady, NEW op \in Ops, Claimable(op), ~Exhausted(op), NEW r,
         r = [rows[op] EXCEPT !.lease = "live", !.due = Now,
                !.tries = @ + 1 - (IF control(rows[op]) THEN 1 ELSE 0),
                !.control = @ + (IF control(rows[op]) THEN 1 ELSE 0),
                !.state = IF @ = "pending" /\ op \in expired THEN "gap_pending" ELSE @]
  PROVE  /\ r \in Row /\ r.lease = "live" /\ r.state \notin {"none", "gone"}
         /\ Said(op, r)' /\ Placed(op, r)'
         /\ r.state \in Unresolved <=> rows[op].state \in Unresolved
         /\ r.state \in Controls <=> control(rows[op])
<1>1. PICK row : row = rows[op] OBVIOUS
<1>2. row \in Row /\ row.tries \in Nat /\ row.control \in Nat /\ setting \in Settings
      /\ setting.total \in Nat /\ setting' = setting /\ source' .sequence = source.sequence
 BY <1>1, InvTypes, SettingTypes DEF Row, Steady, Onward
<1>3. Said(op, row)' /\ Placed(op, row)
 <2>1. Said(op, row) /\ Placed(op, row) BY <1>1 DEF IInv, RowsTrue
 <2> QED BY <2>1, SaidStays DEF Steady
<1>4. row.state \notin {"none", "gone"} BY <1>1 DEF Claimable, Present
<1>5. PICK state : state = IF row.state = "pending" /\ op \in expired THEN "gap_pending" ELSE row.state OBVIOUS
<1>6. /\ state \in Cleanup \cup Unresolved \cup {"none", "gone"} /\ state \notin {"none", "gone"}
      /\ state \in Unresolved <=> row.state \in Unresolved
      /\ state \notin Unresolved => state = row.state
      /\ state \in Controls <=> row.state \in Controls BY <1>2,<1>4,<1>5 DEF Row, Cleanup, Controls, Unresolved
<1>7. PICK tries, controls \in Nat :
        /\ tries = row.tries + 1 - (IF control(row) THEN 1 ELSE 0)
        /\ controls = row.control + (IF control(row) THEN 1 ELSE 0)
 <2>1. row.tries + 1 - (IF control(row) THEN 1 ELSE 0) \in Nat BY <1>2
 <2>2. row.control + (IF control(row) THEN 1 ELSE 0) \in Nat BY <1>2
 <2> QED BY <2>1,<2>2
<1>8. r = [row EXCEPT !.lease = "live", !.due = Now, !.tries = tries, !.control = controls,
                      !.state = state] BY <1>1,<1>5,<1>7,<1>2 DEF Row
<1>9. r \in Row /\ r.state = state /\ r.lease = "live" /\ r.tries = tries /\ r.control = controls
      /\ r.outcome = row.outcome BY <1>2,<1>6,<1>7,<1>8 DEF Row, Now
<1>10. tries <= setting.total /\ controls <= setting.total
 <2>1. Used(row) < Ceiling(op, row)
  <3>1. ~(Used(row) >= Ceiling(op, row)) BY <1>1 DEF Exhausted
  <3>2. Used(row) \in Nat /\ Ceiling(op, row) \in Int BY <1>2 DEF Used, Ceiling
  <3> QED BY <3>1,<3>2
 <2>2. row.tries <= setting.total /\ row.control <= setting.total BY <1>3 DEF Placed
 <2>3. CASE control(row)
  <3>1. row.control < setting.total BY <2>1,<2>3 DEF Used, Ceiling
  <3> QED BY <3>1,<2>2,<2>3,<1>2,<1>7
 <2>4. CASE ~control(row)
  <3>1. row.tries < Ceiling(op, row) /\ Ceiling(op, row) <= setting.total
        /\ Ceiling(op, row) \in Int BY <2>1,<2>4,<1>2 DEF Used, Ceiling
  <3> QED BY <3>1,<2>2,<2>4,<1>2,<1>7
 <2> QED BY <2>3,<2>4
<1>11. Placed(op, r)' BY <1>2,<1>3,<1>4,<1>6,<1>9,<1>10 DEF Placed
<1>12. Said(op, r)' BY <1>3,<1>6,<1>9 DEF Said, Unresolved
<1> QED BY <1>1,<1>4,<1>6,<1>9,<1>11,<1>12 DEF control

LEMMA ClaimKeeps == ASSUME IInv, NEW op \in Ops, claim(op) PROVE IInv'
<1>1. UNCHANGED <<setting, source, registry, dest, drainer, consumer, reset, expired, faults, history>>
 BY DEF claim
<1>2. Steady BY <1>1, SteadyQuiet
<1>3. rows \in [Ops -> Row] /\ workers \in [Ops -> Worker] /\ faults \in 0 .. setting.faults
      /\ source \in Relayed /\ dest \in Destination /\ drainer \in Drain
      /\ consumer \in {"off", "checked", "on"} BY InvTypes
<1>4. PICK c : c = IF control(rows[op]) THEN 1 ELSE 0 OBVIOUS
<1>5. PICK r : r = [rows[op] EXCEPT !.lease = "live", !.due = Now, !.tries = @ + 1 - c,
                      !.control = @ + c,
                      !.state = IF @ = "pending" /\ op \in expired THEN "gap_pending" ELSE @] OBVIOUS
<1>6. PICK w : w = [Idle EXCEPT !.try = rows[op].tries + rows[op].control + 1] OBVIOUS
<1>7. /\ rows' = [rows EXCEPT ![op] = r]
      /\ \/ /\ Goes(op, [w EXCEPT !.step = IF c = 1 THEN "cleanup" ELSE "interest"])
            /\ UNCHANGED mail
         \/ c # 1 /\ reconcileStateEventIntent(op, w, r) BY <1>4,<1>5,<1>6 DEF claim
<1>8. /\ r \in Row /\ r.lease = "live" /\ r.state \notin {"none", "gone"}
      /\ Said(op, r)' /\ Placed(op, r)'
      /\ r.state \in Unresolved <=> rows[op].state \in Unresolved
      /\ r.state \in Controls <=> control(rows[op]) BY <1>2,<1>4,<1>5, ClaimedIs DEF claim
<1>9. w \in Worker /\ w.reply = "none" /\ w.probing = FALSE
 <2>1. rows[op].tries + rows[op].control + 1 \in Nat BY <1>3 DEF Row
 <2> QED BY <2>1,<1>6 DEF Idle, Worker, Answers
<1>10. Resolved(op) => r.state \notin Unresolved \cup {"none"} BY <1>8 DEF Resolved
<1>11. r.state \in Unresolved => \A o \in Ops \ {op} : ~Held(o)
 <2> SUFFICES ASSUME r.state \in Unresolved, NEW o \in Ops \ {op}, Held(o) PROVE FALSE OBVIOUS
 <2>1. rows[op].state \in Unresolved /\ rows[o].state \in Unresolved /\ rows[o].lease = "live" BY <1>8 DEF Held
 <2>2. ~SameLane(op, o) BY <2>1 DEF claim
 <2> QED BY <2>1,<2>2 DEF SameLane, Cleanup, Controls, Unresolved
<1>12. mail' \in SUBSET Message /\ NewMail /\ SourceMail /\ \E v \in Worker : Goes(op, v) /\ Learned(op, v)'
 <2>1. CASE Goes(op, [w EXCEPT !.step = IF c = 1 THEN "cleanup" ELSE "interest"]) /\ UNCHANGED mail
  <3>1. PICK step : step = IF c = 1 THEN "cleanup" ELSE "interest" OBVIOUS
  <3>2. PICK v : v = [w EXCEPT !.step = step] OBVIOUS
  <3>3. v \in Worker /\ v.step = step /\ v.reply = "none" /\ step \in {"cleanup", "interest"}
   BY <1>9,<3>1,<3>2 DEF Worker, Cleaning
  <3>4. step = "cleanup" => op \in Ended'
   <4> SUFFICES ASSUME step = "cleanup" PROVE op \in Ended' OBVIOUS
   <4>1. r.state \in Controls BY <1>4,<1>8,<3>1
   <4> QED BY <4>1,<1>8 DEF Said, Controls, Ended
  <3>5. Learned(op, v)' BY <3>3,<3>4 DEF Learned, Truth, Cleaning
  <3>6. Goes(op, v) BY <2>1,<3>1,<3>2
  <3> QED BY <2>1,<3>3,<3>5,<3>6, MailShrinks
 <2>2. CASE c # 1 /\ reconcileStateEventIntent(op, w, r)
  <3>1. r.state \notin {"none", "gone"} BY <1>8
  <3>2. Truth(op, w.reply)' BY <1>9 DEF Truth
  <3> QED BY <1>2,<1>8,<1>9,<2>2,<3>1,<3>2, ReconcileIs
 <2> QED BY <1>7,<2>1,<2>2
<1>13. PICK v \in Worker : Goes(op, v) /\ Learned(op, v)' BY <1>12
<1>14. Anchored(v, r) BY <1>8 DEF Anchored
<1>15. Attempts' /\ ResolvedStay BY <1>2,<1>7,<1>8,<1>10,<1>11,<1>13,<1>14, RowStep
<1>16. SameStream /\ SameReset BY <1>1 DEF SameStream, SameReset
<1> QED BY <1>1,<1>3,<1>12,<1>15,<1>16, AttemptStep

LEMMA MaintainKeeps == ASSUME IInv, NEW op \in Ops, maintainStateEventOutbox(op) PROVE IInv'
<1>1. UNCHANGED <<setting, source, workers, mail, registry, dest, drainer, consumer, reset,
                  expired, faults, history>> BY DEF maintainStateEventOutbox
<1>2. Steady BY <1>1, SteadyQuiet
<1>3. rows \in [Ops -> Row] /\ workers \in [Ops -> Worker] /\ faults \in 0 .. setting.faults
      /\ source \in Relayed BY InvTypes
<1>4. PICK due \in {Now, Never} \cup Ops :
        due = IF rows[op].probe = 1 THEN rows[op].due
              ELSE IF rows[op].tries >= setting.total THEN Never ELSE Now BY <1>3 DEF Row
<1>5. PICK r : r = [rows[op] EXCEPT !.state = "gap_pending", !.due = due] OBVIOUS
<1>6. rows' = [rows EXCEPT ![op] = r] /\ rows[op].state = "pending"
 <2>1. /\ rows[op].state = "pending"
       /\ rows' = [rows EXCEPT ![op].state = "gap_pending", ![op].due = due]
  BY <1>3,<1>4 DEF maintainStateEventOutbox
 <2> QED BY <2>1,<1>3,<1>5
<1>7. r \in Row /\ r.state = "gap_pending" /\ r.lease = rows[op].lease /\ r.tries = rows[op].tries
      /\ r.control = rows[op].control /\ r.outcome = rows[op].outcome
 <2>1. rows[op] \in Row BY <1>3
 <2> QED BY <2>1,<1>5 DEF Row, Unresolved
<1>8. Said(op, r)' /\ Placed(op, r)'
 <2>1. Placed(op, rows[op]) BY DEF IInv, RowsTrue
 <2>2. PICK row : row = rows[op] /\ Said(op, row) BY DEF IInv, RowsTrue
 <2>3. Said(op, row)' BY <1>2,<2>2, SaidStays DEF Steady
 <2>4. Said(op, r)' BY <2>2,<2>3,<1>7 DEF Said
 <2>5. Placed(op, r)' BY <2>1,<1>1,<1>6,<1>7 DEF Placed
 <2> QED BY <2>4,<2>5
<1>9. PICK w : w = workers[op] OBVIOUS
<1>10. w \in Worker /\ Goes(op, w) /\ Learned(op, w)' /\ Anchored(w, r)
 <2>1. workers' = [workers EXCEPT ![op] = w] BY <1>1,<1>3,<1>9
 <2>2. Learned(op, w) /\ Anchored(w, rows[op]) BY <1>9 DEF IInv, WorkersTrue
 <2>3. Learned(op, w)' BY <1>2,<2>2, LearnedStays DEF Steady
 <2>4. Anchored(w, r) BY <2>2,<1>7 DEF Anchored
 <2> QED BY <1>3,<1>9,<2>1,<2>3,<2>4 DEF Goes
<1>11. r.lease = "live" => \A o \in Ops \ {op} : ~Held(o) BY <1>6,<1>7 DEF IInv, OneLease, Held, Unresolved
<1>12. ~Resolved(op) BY <1>6 DEF Resolved, Unresolved
<1>13. Attempts' /\ ResolvedStay BY <1>2,<1>6,<1>7,<1>8,<1>10,<1>11,<1>12, RowStep
<1> QED BY <1>1,<1>3,<1>13, QuietReset, RelayStep

LEMMA LeaseEndsKeeps == ASSUME IInv, NEW op \in Ops, LeaseEnds(op) PROVE IInv'
<1>1. UNCHANGED <<setting, source, workers, mail, registry, dest, drainer, consumer, reset,
                  expired, faults, history>> BY DEF LeaseEnds
<1>2. Steady BY <1>1, SteadyQuiet
<1>3. rows \in [Ops -> Row] /\ workers \in [Ops -> Worker] /\ faults \in 0 .. setting.faults
      /\ source \in Relayed BY InvTypes
<1>4. rows' = [rows EXCEPT ![op].lease = "lapsed"] /\ workers[op].step = "idle" BY DEF LeaseEnds
<1>5. rows' \in [Ops -> Row] BY <1>3,<1>4 DEF Row
<1>6. \A o \in Ops : /\ Alike(rows'[o], rows[o])
                     /\ rows'[o].lease = "live" => rows[o].lease = "live"
                     /\ o # op => SameWorker(workers'[o], workers[o]) /\ rows'[o].lease = rows[o].lease
 BY <1>1,<1>3,<1>4 DEF Alike, SameWorker, Row
<1>7. Learned(op, workers[op])'
 <2>1. SameWorker(workers'[op], workers[op]) /\ WorkersTrue BY <1>1 DEF SameWorker, IInv
 <2> QED BY <2>1,<1>2, WorkerStays DEF Steady
<1>8. Anchored(workers[op], rows[op])' BY <1>1,<1>4 DEF Anchored
<1>9. Attempts' /\ ResolvedStay BY <1>1,<1>2,<1>3,<1>5,<1>6,<1>7,<1>8, AlikeStep
<1> QED BY <1>1,<1>3,<1>9, QuietReset, RelayStep

-----------------------------------------------------------------------------
(* An attempt's calls                                                       *)

LEMMA InterestTypes ==
  ASSUME NEW i \in Interest, NEW epoch \in Nat
  PROVE  /\ registerProducerInterest(i, epoch) \in Interest
         /\ queueProducerWakeup(i) \in Interest
         /\ releaseProducerInterest(i, epoch) \in Interest
<1>1. registerProducerInterest(i, epoch) \in Interest BY DEF Interest, registerProducerInterest
<1>2. queueProducerWakeup(i) \in Interest
 <2>1. PICK n \in Nat : n = i.version + 1 BY DEF Interest
 <2>2. [i EXCEPT !.version = n, !.due = TRUE] \in Interest BY DEF Interest
 <2>3. queueProducerWakeup(i) \in {i, [i EXCEPT !.version = n, !.due = TRUE]} BY <2>1 DEF queueProducerWakeup
 <2> QED BY <2>2,<2>3
<1>3. releaseProducerInterest(i, epoch) \in Interest BY DEF Interest, releaseProducerInterest
<1> QED BY <1>1,<1>2,<1>3

LEMMA InterestStep ==
  ASSUME IInv, NEW i \in Interest, dest' = [dest EXCEPT !.interest = i]
  PROVE  dest' \in Destination /\ SameStream
<1>1. dest \in Destination BY InvTypes
<1> QED BY <1>1 DEF Destination, SameStream

LEMMA SameDest == ASSUME IInv, dest' = dest PROVE dest' \in Destination /\ SameStream
BY InvTypes DEF SameStream

\* An attempt that ends, with the rows as they are.
LEMMA EndsHere ==
  ASSUME IInv, Steady, NEW op \in Ops, NEW kind, NEW appending, Ends(rows, op, kind, appending)
  PROVE  Attempts' /\ ResolvedStay
<1>1. rows \in [Ops -> Row] /\ \A o \in Ops : Alike(rows[o], rows[o]) BY InvTypes DEF Alike
<1> QED BY <1>1, EndsStep

LEMMA InterestKeeps == ASSUME IInv, NEW op \in Ops, interest(op) PROVE IInv'
<1>1. UNCHANGED <<setting, source, mail, registry, drainer, consumer, reset, expired, history>>
      /\ workers[op].step = "interest" BY DEF interest
<1>2. source \in Relayed /\ source.epoch \in Nat /\ dest.interest \in Interest
      /\ drainer \in Drain /\ consumer \in {"off", "checked", "on"} /\ faults \in 0 .. setting.faults
      /\ workers \in [Ops -> Worker] /\ mail \in SUBSET Message BY InvTypes DEF Relayed, Destination
<1>3. PICK i \in Interest : i = registerProducerInterest(dest.interest, source.epoch) BY <1>2, InterestTypes
<1>4. PICK d : d = [dest EXCEPT !.interest = i] OBVIOUS
<1>5. \/ /\ Goes(op, [workers[op] EXCEPT !.step = "registered", !.epoch = source.epoch])
         /\ dest' = d /\ UNCHANGED <<rows, faults>>
      \/ dest' \in {d, dest} /\ Unanswered(op, FALSE) BY <1>3,<1>4 DEF interest
<1>6. dest' \in Destination /\ SameStream BY <1>4,<1>5, InterestStep, SameDest
<1>7. Steady BY <1>1,<1>6, SteadyQuiet DEF SameStream
<1>8. Attempts' /\ ResolvedStay /\ faults' \in 0 .. setting.faults
 <2>1. CASE Unanswered(op, FALSE) BY <2>1,<1>7, EndsHere, FaultIs DEF Unanswered
 <2>2. CASE /\ Goes(op, [workers[op] EXCEPT !.step = "registered", !.epoch = source.epoch])
            /\ UNCHANGED <<rows, faults>>
  <3>1. PICK w : w = [workers[op] EXCEPT !.step = "registered", !.epoch = source.epoch] OBVIOUS
  <3>2. PICK v : v = workers[op] /\ Learned(op, v) /\ Anchored(v, rows[op]) BY DEF IInv, WorkersTrue
  <3>3. w \in Worker /\ w.step = "registered" /\ w.reply = v.reply /\ w.probing = v.probing
   BY <1>2,<3>1,<3>2 DEF Worker
  <3>4. Learned(op, v)' BY <1>7,<3>2, LearnedStays DEF Steady
  <3>5. Learned(op, w)' BY <3>3,<3>4 DEF Learned, Truth, Cleaning
  <3>6. Anchored(w, rows[op]) BY <1>1,<3>2,<3>3 DEF Anchored
  <3> QED BY <2>2,<1>2,<1>7,<3>1,<3>3,<3>5,<3>6, GoesStep
 <2> QED BY <1>5,<2>1,<2>2
<1>9. SameReset /\ mail' \in SUBSET Message /\ NewMail /\ SourceMail BY <1>1, MailShrinks DEF SameReset
<1> QED BY <1>1,<1>2,<1>6,<1>8,<1>9, AttemptStep

LEMMA RegisteredKeeps == ASSUME IInv, NEW op \in Ops, registered(op) PROVE IInv'
<1>1. UNCHANGED <<setting, rows, registry, dest, drainer, consumer, reset, expired, faults, history>>
      /\ workers[op].step = "registered" BY DEF registered
<1>2. source \in Relayed /\ dest \in Destination /\ rows \in [Ops -> Row]
      /\ drainer \in Drain /\ consumer \in {"off", "checked", "on"} /\ faults \in 0 .. setting.faults
      /\ workers \in [Ops -> Worker] /\ workers[op].epoch \in Nat BY InvTypes DEF Worker
<1>3. source' \in Relayed /\ source'.sequence = source.sequence /\ source'.reset = source.reset
      /\ source'.checkpoint = source.checkpoint
 <2>1. CASE source.epoch = workers[op].epoch
  <3>1. source' = [source EXCEPT !.registered = workers[op].epoch] BY <2>1 DEF registered
  <3> QED BY <3>1,<1>2 DEF Relayed
 <2>2. CASE source.epoch # workers[op].epoch
  <3>1. source' = source BY <2>2 DEF registered
  <3> QED BY <3>1,<1>2
 <2> QED BY <2>1,<2>2
<1>4. Steady /\ SameStream BY <1>1,<1>3, SteadyQuiet DEF SameStream
<1>5. PICK w : w = workers[op] /\ Learned(op, w) /\ Anchored(w, rows[op]) BY DEF IInv, WorkersTrue
<1>6. PICK row : row = rows[op] /\ Said(op, row) BY DEF IInv, RowsTrue
<1>7. Said(op, row)' /\ Learned(op, w)' BY <1>4,<1>5,<1>6, SaidStays, LearnedStays DEF Steady
<1>8. row.state \notin {"none", "gone"} BY <1>1,<1>5,<1>6 DEF Anchored
<1>9. w \in Worker /\ row \in Row /\ Truth(op, w.reply)' BY <1>2,<1>5,<1>6,<1>7 DEF Learned
<1>10. reconcileStateEventIntent(op, w, row) BY <1>5,<1>6 DEF registered
<1>11. row.state \in Unresolved => rows[op].state \in Unresolved BY <1>6
<1>12. mail' \in SUBSET Message /\ NewMail /\ SourceMail
      /\ \E v \in Worker : Goes(op, v) /\ Learned(op, v)' /\ v.probing = w.probing
 BY <1>4,<1>7,<1>8,<1>9,<1>10,<1>11, ReconcileIs
<1>13. PICK v \in Worker : Goes(op, v) /\ Learned(op, v)' /\ v.probing = w.probing BY <1>12
<1>14. Anchored(v, rows[op]) BY <1>1,<1>5,<1>13 DEF Anchored
<1>15. Attempts' /\ ResolvedStay BY <1>1,<1>4,<1>13,<1>14, GoesStep
<1> QED BY <1>1,<1>2,<1>3,<1>4,<1>12,<1>15, AttemptStep DEF SameReset

LEMMA AcceptKeeps == ASSUME IInv, NEW op \in Ops, acceptStateEventDeliveryOutcome(op) PROVE IInv'
<1>1. UNCHANGED <<setting, mail, registry, dest, drainer, consumer, reset, expired, faults, history>>
      /\ workers[op].step = "waiting" /\ workers[op].reply \in {"appended", "terminal", "gap"}
 BY DEF acceptStateEventDeliveryOutcome
<1>2. source \in Relayed /\ rows \in [Ops -> Row] /\ faults \in 0 .. setting.faults
      /\ workers \in [Ops -> Worker] BY InvTypes
<1>3. source' \in Relayed /\ SameReset
 <2>1. CASE Acceptable(op)
  <3>1. PICK gap \in BOOLEAN : gap = (source.gap \/ rows'[op].state = "gap_recorded") OBVIOUS
  <3>2. source' = [source EXCEPT !.gap = gap] BY <2>1,<3>1 DEF acceptStateEventDeliveryOutcome
  <3> QED BY <3>2,<1>1,<1>2 DEF Relayed, SameReset
 <2>2. CASE ~Acceptable(op) BY <2>2,<1>1,<1>2 DEF acceptStateEventDeliveryOutcome, SameReset
 <2> QED BY <2>1,<2>2
<1>4. Steady BY <1>1,<1>3, SteadyQuiet DEF SameReset
<1>5. PICK v : v = workers[op] /\ Learned(op, v) /\ Anchored(v, rows[op]) BY DEF IInv, WorkersTrue
<1>6. v \in Worker /\ v.step = "waiting" /\ v.reply \in {"appended", "terminal", "gap"} BY <1>1,<1>2,<1>5
<1>7. Learned(op, v)' BY <1>4,<1>5, LearnedStays DEF Steady
<1>8. Attempts' /\ ResolvedStay
 <2>1. CASE ~Acceptable(op)
  <3>1. Goes(op, Idle) /\ UNCHANGED rows BY <2>1 DEF acceptStateEventDeliveryOutcome
  <3>2. Idle \in Worker BY DEF Idle, Worker, Answers
  <3> QED BY <1>4,<3>1,<3>2, IdleLearned, IdleAnchored, GoesStep
 <2>2. CASE Acceptable(op) /\ rows[op].state \notin Unresolved
  <3>1. Steps(op, "confirm") /\ UNCHANGED rows BY <2>2 DEF acceptStateEventDeliveryOutcome, Cached
  <3> QED BY <1>1,<1>4,<3>1, StepsStep DEF Cleaning
 <2>3. CASE Acceptable(op) /\ rows[op].state \in Unresolved
  <3>1. PICK state : state = IF v.reply = "gap" THEN "gap_recorded" ELSE "appended" OBVIOUS
  <3>2. PICK out : out = IF v.reply = "gap" THEN "gap" ELSE "appended" OBVIOUS
  <3>3. PICK r : r = [rows[op] EXCEPT !.state = state, !.outcome = out, !.due = Now] OBVIOUS
  <3>4. PICK w : w = [v EXCEPT !.step = "confirm"] OBVIOUS
  <3>5. rows' = [rows EXCEPT ![op] = r] /\ Goes(op, w)
   BY <2>3,<1>5,<3>1,<3>2,<3>3,<3>4 DEF acceptStateEventDeliveryOutcome, Cached, Steps
  <3>6. r \in Row /\ r.state = state /\ r.outcome = out /\ r.tries = rows[op].tries
        /\ r.control = rows[op].control /\ r.lease = rows[op].lease
        /\ state \in {"gap_recorded", "appended"}
   <4>1. rows[op] \in Row BY <1>2
   <4> QED BY <4>1,<3>1,<3>2,<3>3 DEF Row, Cleanup, Controls, Now
  <3>7. w \in Worker /\ w.step = "confirm" /\ w.reply = v.reply /\ w.probing = v.probing BY <1>6,<3>4 DEF Worker
  <3>8. Said(op, r)' BY <3>1,<3>2,<3>6,<1>6,<1>7 DEF Said, Learned, Truth
  <3>9. Placed(op, r)'
   <4>1. Placed(op, rows[op]) BY DEF IInv, RowsTrue
   <4> QED BY <4>1,<1>1,<2>3,<3>6,<1>4 DEF Placed, Steady, Unresolved
  <3>10. Learned(op, w)' BY <1>7,<3>7 DEF Learned, Truth, Cleaning
  <3>11. Anchored(w, r) BY <1>5,<1>6,<3>6,<3>7 DEF Anchored
  <3>12. r.state \notin Unresolved \cup {"none"} BY <3>6 DEF Unresolved
  <3> QED BY <1>4,<3>5,<3>6,<3>7,<3>8,<3>9,<3>10,<3>11,<3>12, RowStep
 <2> QED BY <2>1,<2>2,<2>3
<1> QED BY <1>1,<1>2,<1>3,<1>8, RelayStep

LEMMA RefusedKeeps == ASSUME IInv, NEW op \in Ops, AppendRefused(op) PROVE IInv'
<1>1. UNCHANGED <<setting, mail, registry, dest, drainer, consumer, reset, expired, faults, history>>
 BY DEF AppendRefused
<1>2. PICK kind : Ends(rows, op, kind, FALSE) BY DEF AppendRefused
<1>3. source \in Relayed /\ faults \in 0 .. setting.faults BY InvTypes
<1>4. source' \in Relayed /\ SameReset
 <2>1. PICK blocked \in BOOLEAN : blocked = (source.blocked \/ workers[op].reply = "needs_reset") OBVIOUS
 <2>2. source' = [source EXCEPT !.blocked = blocked] BY <2>1 DEF AppendRefused
 <2> QED BY <2>2,<1>1,<1>3 DEF Relayed, SameReset
<1>5. Steady BY <1>1,<1>4, SteadyQuiet DEF SameReset
<1>6. Attempts' /\ ResolvedStay BY <1>2,<1>5, EndsHere
<1> QED BY <1>1,<1>3,<1>4,<1>6, RelayStep

LEMMA UnknownKeeps == ASSUME IInv, NEW op \in Ops, AppendUnknown(op) PROVE IInv'
<1>1. UNCHANGED <<setting, source, mail, registry, dest, drainer, consumer, reset, expired, faults, history>>
      /\ Ends(rows, op, "uncertain", TRUE) BY DEF AppendUnknown
<1>2. source \in Relayed /\ faults \in 0 .. setting.faults BY InvTypes
<1>3. Steady BY <1>1, SteadyQuiet
<1>4. Attempts' /\ ResolvedStay BY <1>1,<1>3, EndsHere
<1> QED BY <1>1,<1>2,<1>4, QuietReset, RelayStep

LEMMA TimesOutKeeps == ASSUME IInv, NEW op \in Ops, AppendTimesOut(op) PROVE IInv'
<1>1. UNCHANGED <<setting, source, registry, dest, drainer, consumer, reset, expired, history>>
      /\ Fault /\ Ends(rows, op, "uncertain", TRUE) /\ mail' \subseteq mail BY DEF AppendTimesOut, Unanswered
<1>2. source \in Relayed /\ drainer \in Drain /\ consumer \in {"off", "checked", "on"}
      /\ faults' \in 0 .. setting.faults /\ dest' \in Destination /\ SameStream
 BY <1>1, InvTypes, SameDest, FaultIs
<1>3. Steady BY <1>1, SteadyQuiet
<1>4. Attempts' /\ ResolvedStay BY <1>1,<1>3, EndsHere
<1>5. mail' \in SUBSET Message /\ NewMail /\ SourceMail BY <1>1, MailShrinks
<1> QED BY <1>1,<1>2,<1>4,<1>5, QuietReset, AttemptStep

-----------------------------------------------------------------------------
(* Cleanup                                                                  *)

LEMMA RetireKeeps == ASSUME IInv, NEW op \in Ops, retire(op) PROVE IInv'
<1>1. UNCHANGED <<setting, source, mail, registry, dest, drainer, consumer, reset, expired, faults, history>>
      /\ workers[op].step = "cleanup" BY DEF retire
<1>2. source \in Relayed /\ faults \in 0 .. setting.faults /\ rows \in [Ops -> Row]
      /\ workers \in [Ops -> Worker] BY InvTypes
<1>3. Steady BY <1>1, SteadyQuiet
<1>4. PICK v : v = workers[op] /\ Learned(op, v) /\ Anchored(v, rows[op]) BY DEF IInv, WorkersTrue
<1>5. v \in Worker /\ v.step = "cleanup" /\ Learned(op, v)' BY <1>1,<1>2,<1>3,<1>4, LearnedStays DEF Steady
<1>6. Attempts' /\ ResolvedStay
 <2>1. CASE rows[op].state = "gap_recorded" /\ ~rows[op].confirmed
  <3>1. PICK w : w = [v EXCEPT !.step = "confirm", !.reply = "none"] OBVIOUS
  <3>2. Goes(op, w) /\ UNCHANGED rows BY <2>1,<1>4,<3>1 DEF retire
  <3>3. w \in Worker /\ w.step = "confirm" /\ w.reply = "none" /\ w.probing = v.probing
   BY <1>5,<3>1 DEF Worker, Answers
  <3>4. Learned(op, w)' BY <3>3 DEF Learned, Truth, Cleaning
  <3>5. Anchored(w, rows[op]) BY <1>4,<1>5,<3>3 DEF Anchored
  <3> QED BY <1>3,<3>2,<3>3,<3>4,<3>5, GoesStep
 <2>2. CASE ~(rows[op].state = "gap_recorded" /\ ~rows[op].confirmed)
  <3>1. PICK w : w = [v EXCEPT !.step = "origin"] OBVIOUS
  <3>2. PICK r : r = [rows[op] EXCEPT !.state = "retiring"] OBVIOUS
  <3>3. rows' = [rows EXCEPT ![op] = r] /\ Goes(op, w) BY <2>2,<1>2,<1>4,<3>1,<3>2 DEF retire, Steps
  <3>4. w \in Worker /\ w.step = "origin" /\ w.reply = v.reply /\ w.probing = v.probing
   BY <1>5,<3>1 DEF Worker, Cleaning
  <3>5. r \in Row /\ r.state = "retiring" /\ r.tries = rows[op].tries
        /\ r.control = rows[op].control /\ r.lease = rows[op].lease /\ r.outcome = rows[op].outcome
   <4>1. rows[op] \in Row BY <1>2
   <4> QED BY <4>1,<3>2 DEF Row, Cleanup, Controls
  <3>6. op \in Ended' BY <1>5 DEF Learned, Cleaning
  <3>7. Said(op, r)' /\ Placed(op, r)'
   <4>1. PICK row : row = rows[op] /\ Said(op, row) /\ Placed(op, row) BY DEF IInv, RowsTrue
   <4>2. Said(op, row)' BY <1>3,<4>1, SaidStays DEF Steady
   <4>3. row.state # "none" BY <1>4,<1>5,<4>1 DEF Anchored
   <4>4. Said(op, r)' BY <3>5,<3>6,<4>1,<4>2 DEF Said
   <4>5. Placed(op, r)' BY <3>5,<4>1,<4>3,<1>1 DEF Placed
   <4> QED BY <4>4,<4>5
  <3>8. Learned(op, w)' BY <3>4,<3>6,<1>5 DEF Learned, Truth, Cleaning
  <3>9. Anchored(w, r) BY <1>4,<1>5,<3>4,<3>5 DEF Anchored
  <3>10. r.state \notin Unresolved \cup {"none"} BY <3>5 DEF Unresolved
  <3> QED BY <1>3,<3>3,<3>4,<3>5,<3>7,<3>8,<3>9,<3>10, RowStep
 <2> QED BY <2>1,<2>2
<1> QED BY <1>1,<1>2,<1>6, QuietReset, RelayStep

LEMMA DeferKeeps == ASSUME IInv, NEW op \in Ops, deferCleanup(op) PROVE IInv'
<1>1. UNCHANGED <<setting, source, mail, registry, dest, drainer, consumer, reset, expired, faults, history>>
      /\ Ends(rows, op, "defer", FALSE) BY DEF deferCleanup
<1>2. source \in Relayed /\ faults \in 0 .. setting.faults BY InvTypes
<1>3. Steady BY <1>1, SteadyQuiet
<1>4. Attempts' /\ ResolvedStay BY <1>1,<1>3, EndsHere
<1> QED BY <1>1,<1>2,<1>4, QuietReset, RelayStep

LEMMA OriginKeeps == ASSUME IInv, NEW op \in Ops, RetireOrigin(op) PROVE IInv'
<1>1. UNCHANGED <<setting, source, mail, registry, dest, drainer, consumer, reset, expired, history>>
      /\ workers[op].step = "origin" BY DEF RetireOrigin
<1>2. source \in Relayed /\ faults \in 0 .. setting.faults /\ source.epoch \in Nat
      /\ source.registered \in Nat /\ workers \in [Ops -> Worker] BY InvTypes DEF Relayed
<1>3. Steady BY <1>1, SteadyQuiet
<1>4. PICK v : v = workers[op] /\ Learned(op, v) /\ Anchored(v, rows[op]) BY DEF IInv, WorkersTrue
<1>5. v \in Worker /\ v.step = "origin" /\ Learned(op, v)' BY <1>1,<1>2,<1>3,<1>4, LearnedStays DEF Steady
<1>6. Attempts' /\ ResolvedStay /\ faults' \in 0 .. setting.faults
 <2>1. PICK last \in BOOLEAN : last = (Cardinality(Present) = 1) OBVIOUS
 <2>2. PICK w : w = [v EXCEPT !.step = "release", !.epoch = source.epoch,
                       !.releases = source.registered, !.last = last] OBVIOUS
 <2>3. CASE Goes(op, w) /\ UNCHANGED <<rows, faults>>
  <3>1. w \in Worker /\ w.step = "release" /\ w.reply = v.reply /\ w.probing = v.probing
   BY <1>2,<1>5,<2>2 DEF Worker, Cleaning
  <3>2. Learned(op, w)' BY <1>5,<3>1 DEF Learned, Truth, Cleaning
  <3>3. Anchored(w, rows[op]) BY <1>4,<1>5,<3>1 DEF Anchored
  <3> QED BY <1>2,<1>3,<2>3,<3>1,<3>2,<3>3, GoesStep
 <2>4. CASE Unanswered(op, FALSE) BY <2>4,<1>3, EndsHere, FaultIs DEF Unanswered
 <2> QED BY <1>4,<2>1,<2>2,<2>3,<2>4 DEF RetireOrigin
<1> QED BY <1>1,<1>2,<1>6, QuietReset, RelayStep

LEMMA ReleaseKeeps == ASSUME IInv, NEW op \in Ops, release(op) PROVE IInv'
<1>1. UNCHANGED <<setting, source, mail, registry, consumer, reset, expired, history>>
      /\ workers[op].step = "release" BY DEF release
<1>2. source \in Relayed /\ faults \in 0 .. setting.faults /\ drainer \in Drain
      /\ consumer \in {"off", "checked", "on"} /\ workers[op].releases \in Nat
      /\ dest.interest \in Interest BY InvTypes DEF Worker, Destination
<1>3. PICK i \in Interest : i = releaseProducerInterest(dest.interest, workers[op].releases)
 BY <1>2, InterestTypes
<1>4. PICK d : d = [dest EXCEPT !.interest = i] OBVIOUS
<1>5. /\ dest' \in {d, dest}
      /\ \/ Unanswered(op, FALSE) /\ UNCHANGED drainer
         \/ /\ Steps(op, "delete") /\ UNCHANGED <<rows, faults>>
            /\ drainer' \in {drainer, [drainer EXCEPT !.void = TRUE]} BY <1>3,<1>4 DEF release
<1>6. dest' \in Destination /\ SameStream BY <1>4,<1>5, InterestStep, SameDest
<1>7. Steady BY <1>1,<1>6, SteadyQuiet DEF SameStream
<1>8. drainer' \in Drain
 <2>1. [drainer EXCEPT !.void = TRUE] \in Drain BY <1>2 DEF Drain
 <2> QED BY <1>2,<1>5,<2>1
<1>9. Attempts' /\ ResolvedStay /\ faults' \in 0 .. setting.faults
 <2>1. CASE Unanswered(op, FALSE) BY <2>1,<1>7, EndsHere, FaultIs DEF Unanswered
 <2>2. CASE Steps(op, "delete") /\ UNCHANGED <<rows, faults>>
  <3>1. op \in Ended BY <1>1 DEF IInv, WorkersTrue, Learned, Cleaning
  <3>2. op \in Ended' BY <3>1,<1>7 DEF Steady, Onward
  <3>3. "delete" \in Cleaning BY DEF Cleaning
  <3>4. Attempts' /\ ResolvedStay BY <1>1,<1>7,<2>2,<3>2,<3>3, StepsStep
  <3> QED BY <2>2,<3>4,<1>2
 <2> QED BY <1>5,<2>1,<2>2
<1>10. mail' \in SUBSET Message /\ NewMail /\ SourceMail BY <1>1, MailShrinks
<1> QED BY <1>1,<1>2,<1>6,<1>8,<1>9,<1>10, QuietReset, AttemptStep

LEMMA DeleteKeeps == ASSUME IInv, NEW op \in Ops, delete(op) PROVE IInv'
<1>1. UNCHANGED <<setting, mail, registry, dest, drainer, consumer, reset, expired, faults, history>>
      /\ workers[op].step = "delete" /\ Goes(op, Idle) BY DEF delete
<1>2. source \in Relayed /\ faults \in 0 .. setting.faults /\ rows \in [Ops -> Row]
      /\ setting.total \in Nat BY InvTypes, SettingTypes
<1>3. source' \in Relayed /\ SameReset
 <2>1. source' \in {source, [source EXCEPT !.registered = 0]} BY DEF delete
 <2> QED BY <2>1,<1>1,<1>2 DEF Relayed, SameReset
<1>4. Steady BY <1>1,<1>3, SteadyQuiet DEF SameReset
<1>5. PICK r : r = [NoRow EXCEPT !.state = "gone", !.outcome = rows[op].outcome] OBVIOUS
<1>6. rows' = [rows EXCEPT ![op] = r] BY <1>5 DEF delete
<1>7. r \in Row /\ r.state = "gone" /\ r.outcome = rows[op].outcome /\ r.tries = 0 /\ r.control = 0
 <2>1. rows[op] \in Row BY <1>2
 <2>2. PICK out \in {"none", "appended", "gap"} : out = rows[op].outcome BY <2>1 DEF Row
 <2>3. r = [state |-> "gone", tries |-> 0, control |-> 0, lease |-> "none", due |-> Never,
            useful |-> FALSE, confirmed |-> FALSE, uncertain |-> FALSE, probe |-> 0, outcome |-> out]
  BY <2>2,<1>5 DEF NoRow
 <2> QED BY <2>2,<2>3 DEF Row
<1>8. Said(op, r)' /\ Placed(op, r)'
 <2>1. PICK row : row = rows[op] /\ Said(op, row) /\ Placed(op, row) BY DEF IInv, RowsTrue
 <2>2. PICK v : v = workers[op] /\ Learned(op, v) /\ Anchored(v, row) BY <2>1 DEF IInv, WorkersTrue
 <2>3. Said(op, row)' /\ Learned(op, v)' BY <1>4,<2>1,<2>2, SaidStays, LearnedStays DEF Steady
 <2>4. op \in Ended' /\ row.state # "none" BY <1>1,<2>2,<2>3 DEF Learned, Anchored, Cleaning
 <2>5. Said(op, r)' BY <1>7,<2>1,<2>3,<2>4 DEF Said
 <2>6. Placed(op, r)' BY <1>2,<1>4,<1>7,<2>1,<2>4 DEF Placed, Steady, Onward
 <2> QED BY <2>5,<2>6
<1>9. r.state \notin Unresolved \cup {"none"} BY <1>7 DEF Unresolved
<1>10. Idle \in Worker BY DEF Idle, Worker, Answers
<1>11. Attempts' /\ ResolvedStay BY <1>1,<1>4,<1>6,<1>7,<1>8,<1>9,<1>10, IdleLearned, IdleAnchored, RowStep
<1> QED BY <1>1,<1>2,<1>3,<1>11, RelayStep

-----------------------------------------------------------------------------
(* Wakeups, the page and new commands                                       *)

\* A step that leaves rows and attempts as they are.
LEMMA SameAttempts ==
  ASSUME IInv, Steady, UNCHANGED <<rows, workers>>
  PROVE  Attempts' /\ ResolvedStay
<1>1. rows' \in [Ops -> Row] /\ workers' \in [Ops -> Worker] BY InvTypes
<1>2. \A o \in Ops : /\ Alike(rows'[o], rows[o]) /\ rows'[o].lease = rows[o].lease
                     /\ SameWorker(workers'[o], workers[o]) BY DEF Alike, SameWorker
<1> QED BY <1>1,<1>2, TouchStep

LEMMA StirredIs ==
  ASSUME IInv
  PROVE  /\ Stirred \in [Ops -> Worker]
         /\ \A o \in Ops : SameWorker(Stirred[o], workers[o]) \/ Stirred[o] = Idle
<1>1. workers \in [Ops -> Worker] /\ Idle \in Worker BY InvTypes DEF Idle, Worker, Answers
<1>2. ASSUME NEW o \in Ops
      PROVE  Stirred[o] \in Worker /\ (SameWorker(Stirred[o], workers[o]) \/ Stirred[o] = Idle)
 <2>1. PICK w \in Worker : w = workers[o] BY <1>1
 <2>2. CASE w.step = "idle" BY <1>1,<2>1,<2>2 DEF Stirred
 <2>3. CASE w.step # "idle"
  <3>1. Stirred[o] = [w EXCEPT !.stirred = TRUE] BY <2>1,<2>3 DEF Stirred
  <3> QED BY <2>1,<3>1 DEF Worker, SameWorker
 <2> QED BY <2>2,<2>3
<1>3. Stirred = [o \in Ops |-> Stirred[o]] BY DEF Stirred
<1> QED BY <1>2,<1>3

LEMMA WokenIs ==
  ASSUME IInv
  PROVE  /\ Woken \in [Ops -> Row]
         /\ \A o \in Ops : Alike(Woken[o], rows[o]) /\ Woken[o].lease = rows[o].lease
<1>1. rows \in [Ops -> Row] BY InvTypes
<1>2. ASSUME NEW o \in Ops
      PROVE  Woken[o] \in Row /\ Alike(Woken[o], rows[o]) /\ Woken[o].lease = rows[o].lease
 <2>1. PICK r \in Row : r = rows[o] BY <1>1
 <2>2. PICK due \in {Now, Never} \cup Ops : due = IF r.probe = 1 THEN r.due ELSE Now BY DEF Row
 <2>3. PICK s : s = [r EXCEPT !.useful = TRUE, !.due = due] OBVIOUS
 <2>4. s \in Row /\ Alike(s, r) /\ s.lease = r.lease BY <2>3 DEF Row, Alike
 <2>5. Woken[o] \in {r, s} BY <2>1,<2>2,<2>3 DEF Woken
 <2> QED BY <2>1,<2>4,<2>5 DEF Alike
<1>3. Woken = [o \in Ops |-> Woken[o]] BY DEF Woken
<1> QED BY <1>2,<1>3

LEMMA WakeKeeps == ASSUME IInv, wakeStateEventRelay PROVE IInv'
<1>1. UNCHANGED <<setting, mail, registry, dest, consumer, reset, expired, history>> BY DEF wakeStateEventRelay
<1>2. source \in Relayed /\ faults \in 0 .. setting.faults /\ drainer \in Drain
      /\ consumer \in {"off", "checked", "on"} /\ source.wake \in Nat /\ drainer.version \in Nat
      /\ setting.faults \in Nat BY InvTypes, SettingTypes DEF Relayed, Drain
<1>3. PICK wake \in Nat : wake = Max({source.wake, drainer.version}) BY <1>2, MaxOfTwo
<1>4. /\ source' \in {source, [source EXCEPT !.wake = wake]}
      /\ (rows' = Woken /\ workers' = Stirred) \/ UNCHANGED <<rows, workers>>
      /\ UNCHANGED faults \/ Fault BY <1>3 DEF wakeStateEventRelay
<1>5. source' \in Relayed /\ SameReset BY <1>1,<1>2,<1>4 DEF Relayed, SameReset
<1>6. Steady /\ SameStream /\ dest' \in Destination BY <1>1,<1>5, SteadyQuiet, SameDest DEF SameReset
<1>7. Attempts' /\ ResolvedStay
 <2>1. CASE rows' = Woken /\ workers' = Stirred BY <2>1,<1>6, WokenIs, StirredIs, TouchStep
 <2>2. CASE UNCHANGED <<rows, workers>> BY <2>2,<1>6, SameAttempts
 <2> QED BY <1>4,<2>1,<2>2
<1>8. drainer' \in Drain
 <2>1. PICK pending \in BOOLEAN : pending = (Present # {}) OBVIOUS
 <2>2. drainer' \in {[drainer EXCEPT !.step = "back", !.pending = pending],
                     [drainer EXCEPT !.step = "back", !.lost = TRUE]} BY <2>1 DEF wakeStateEventRelay
 <2> QED BY <1>2,<2>2 DEF Drain
<1>9. faults' \in 0 .. setting.faults /\ mail' \in SUBSET Message /\ NewMail /\ SourceMail
 BY <1>1,<1>2,<1>4, FaultIs, MailShrinks
<1> QED BY <1>1,<1>2,<1>5,<1>6,<1>7,<1>8,<1>9, AttemptStep

LEMMA DrainerKeeps == ASSUME IInv, claimWakeup \/ drainProducerWakeup PROVE IInv'
<1>1. UNCHANGED <<setting, rows, source, workers, mail, registry, consumer, reset, expired, faults, history>>
 BY DEF claimWakeup, drainProducerWakeup
<1>2. source \in Relayed /\ faults \in 0 .. setting.faults /\ drainer \in Drain
      /\ consumer \in {"off", "checked", "on"} /\ dest \in Destination /\ dest.interest \in Interest
      /\ dest.interest.version \in Nat /\ dest.interest.epoch \in Nat BY InvTypes DEF Destination, Interest
<1>3. dest' \in Destination /\ SameStream /\ drainer' \in Drain
 <2>1. CASE claimWakeup
  <3>1. drainer' = [NoDrain EXCEPT !.step = "sent", !.version = dest.interest.version,
                                   !.epoch = dest.interest.epoch] BY <2>1 DEF claimWakeup
  <3> QED BY <2>1,<3>1,<1>2, SameDest DEF claimWakeup, NoDrain, Drain
 <2>2. CASE drainProducerWakeup
  <3>1. PICK due, active \in BOOLEAN :
          /\ due = (Changed(dest.interest) \/ drainer.lost)
          /\ active = (dest.interest.active /\ (Changed(dest.interest) \/ drainer.lost \/ drainer.pending))
   OBVIOUS
  <3>2. PICK i : i = [dest.interest EXCEPT !.due = due, !.active = active] OBVIOUS
  <3>3. i \in Interest BY <1>2,<3>2 DEF Interest
  <3>4. dest' = dest \/ dest' = [dest EXCEPT !.interest = i] BY <2>2,<3>1,<3>2 DEF drainProducerWakeup
  <3>5. NoDrain \in Drain BY DEF NoDrain, Drain
  <3> QED BY <2>2,<3>3,<3>4,<3>5, InterestStep, SameDest DEF drainProducerWakeup
 <2> QED BY <2>1,<2>2
<1>4. Steady BY <1>1,<1>3, SteadyQuiet DEF SameStream
<1>5. Attempts' /\ ResolvedStay BY <1>1,<1>4, SameAttempts
<1>6. mail' \in SUBSET Message /\ NewMail /\ SourceMail BY <1>1, MailShrinks
<1> QED BY <1>1,<1>2,<1>3,<1>5,<1>6, QuietReset, AttemptStep

LEMMA PageKeeps == ASSUME IInv, CheckSource \/ registerSocket PROVE IInv'
<1>1. UNCHANGED <<setting, rows, source, workers, mail, registry, drainer, reset, expired, faults, history>>
      /\ consumer' \in {"off", "checked", "on"} BY DEF CheckSource, registerSocket
<1>2. source \in Relayed /\ faults \in 0 .. setting.faults /\ drainer \in Drain
      /\ dest.interest \in Interest BY InvTypes DEF Destination
<1>3. dest' \in Destination /\ SameStream
 <2>1. PICK i \in Interest : i = queueProducerWakeup(dest.interest) BY <1>2, InterestTypes, 0 \in Nat
 <2>2. dest' = dest \/ dest' = [dest EXCEPT !.interest = i] BY <2>1 DEF CheckSource, registerSocket
 <2> QED BY <2>2, InterestStep, SameDest
<1>4. Steady BY <1>1,<1>3, SteadyQuiet DEF SameStream
<1>5. Attempts' /\ ResolvedStay BY <1>1,<1>4, SameAttempts
<1>6. mail' \in SUBSET Message /\ NewMail /\ SourceMail BY <1>1, MailShrinks
<1> QED BY <1>1,<1>2,<1>3,<1>5,<1>6, QuietReset, AttemptStep

LEMMA SourceRestartsKeeps == ASSUME IInv, SourceRestarts PROVE IInv'
<1>1. UNCHANGED <<setting, rows, source, mail, registry, dest, drainer, consumer, reset, expired, history>>
      /\ Fault /\ workers' = [op \in Ops |-> Idle] BY DEF SourceRestarts
<1>2. source \in Relayed /\ rows \in [Ops -> Row] /\ faults' \in 0 .. setting.faults BY <1>1, InvTypes, FaultIs
<1>3. Steady BY <1>1, SteadyQuiet
<1>4. Idle \in Worker BY DEF Idle, Worker, Answers
<1>5. workers' \in [Ops -> Worker] /\ \A o \in Ops : workers'[o] = Idle BY <1>1,<1>4
<1>6. \A o \in Ops : Alike(rows'[o], rows[o]) /\ rows'[o].lease = rows[o].lease BY <1>1 DEF Alike
<1>7. Attempts' /\ ResolvedStay BY <1>1,<1>2,<1>3,<1>5,<1>6, TouchStep
<1> QED BY <1>1,<1>2,<1>7, QuietReset, RelayStep

LEMMA EnqueueKeeps == ASSUME IInv, NEW op \in Ops, enqueueStateEventIntent(op) PROVE IInv'
<1>1. /\ UNCHANGED <<setting, mail, registry, dest, drainer, consumer, reset, expired, faults, history>>
      /\ op = source.sequence + 1 /\ op <= setting.ops /\ source.reset = 0
      /\ source' = [source EXCEPT !.sequence = op, !.epoch = @ + 1] /\ workers' = Stirred
 BY DEF enqueueStateEventIntent, Open
<1>2. source \in Relayed /\ rows \in [Ops -> Row] /\ source.sequence \in Nat /\ source.epoch \in Nat
      /\ workers \in [Ops -> Worker] /\ setting.ops \in Ops /\ op \in Nat /\ setting.total \in Nat
      /\ Ops \subseteq Nat BY InvTypes, SettingTypes, OpsFinite DEF Relayed
<1>3. /\ source' \in Relayed /\ source'.sequence = op /\ source'.reset = source.reset
      /\ source'.checkpoint = source.checkpoint
 <2>1. PICK epoch \in Nat : epoch = source.epoch + 1 BY <1>2
 <2>2. source' = [source EXCEPT !.sequence = op, !.epoch = epoch] BY <1>1,<2>1
 <2> QED BY <1>2,<2>2 DEF Relayed
<1>4. source.sequence <= source'.sequence /\ source'.sequence <= Operations
 BY <1>1,<1>2,<1>3, OperationsAssumption DEF Ops
<1>5. Types /\ RowsTrue /\ OneLease /\ WorkersTrue /\ ResetTrue BY DEF IInv
<1>6. Onward /\ SameStream BY <1>1,<1>4,<1>5, OnwardSame DEF SameStream
<1>7. PICK new : new = [NoRow EXCEPT !.state = "pending", !.due = Now] OBVIOUS
<1>8. new \in Row /\ new.state = "pending" /\ new.outcome = "none" /\ new.tries = 0
      /\ new.control = 0 /\ new.lease = "none"
 <2>1. new = [state |-> "pending", tries |-> 0, control |-> 0, lease |-> "none", due |-> Now,
              useful |-> FALSE, confirmed |-> FALSE, uncertain |-> FALSE, probe |-> 0,
              outcome |-> "none"] BY <1>7 DEF NoRow
 <2> QED BY <2>1 DEF Row, Unresolved
<1>9. rows'[op] = new BY <1>7 DEF enqueueStateEventIntent
<1>10. ASSUME NEW o \in Ops, o # op
       PROVE  rows'[o] \in Row /\ Alike(rows'[o], rows[o]) /\ rows'[o].lease = rows[o].lease
 <2>1. PICK r \in Row : r = rows[o] BY <1>2
 <2>2. rows'[o] \in {r, [r EXCEPT !.due = Now, !.useful = TRUE]} BY <1>10,<2>1 DEF enqueueStateEventIntent
 <2>3. r \in Row /\ Alike(r, r) BY DEF Alike
 <2>4. [r EXCEPT !.due = Now, !.useful = TRUE] \in Row
       /\ Alike([r EXCEPT !.due = Now, !.useful = TRUE], r)
       /\ [r EXCEPT !.due = Now, !.useful = TRUE].lease = r.lease BY DEF Alike, Row
 <2> QED BY <2>1,<2>2,<2>3,<2>4
<1>11. rows' = [o \in Ops |-> rows'[o]] BY DEF enqueueStateEventIntent
<1>12. rows' \in [Ops -> Row] BY <1>8,<1>9,<1>10,<1>11
<1>13. rows[op].state = "none"
 <2>1. Placed(op, rows[op]) BY <1>5 DEF RowsTrue
 <2> QED BY <2>1,<1>1,<1>2 DEF Placed
<1>14. RowsTrue'
 <2> SUFFICES ASSUME NEW o \in Ops PROVE Said(o, rows[o])' /\ Placed(o, rows[o])' BY DEF RowsTrue
 <2>1. CASE o = op
  <3>1. Said(op, new)' BY <1>8 DEF Said
  <3>2. Placed(op, new)'
   <4>1. ~(op > op) BY <1>2
   <4>2. 0 <= setting.total BY <1>2
   <4> QED BY <4>1,<4>2,<1>1,<1>3,<1>8 DEF Placed
  <3> QED BY <1>9,<2>1,<3>1,<3>2 DEF Said, Placed
 <2>2. CASE o # op
  <3>1. PICK r : r = rows[o] /\ Said(o, r) /\ Placed(o, r) BY <1>5 DEF RowsTrue
  <3>2. Said(o, r)' BY <1>6,<3>1, SaidStays
  <3>3. o > source.sequence <=> o > op
   <4>1. o \in Nat BY <1>2
   <4> QED BY <4>1,<1>1,<1>2,<2>2
  <3>4. Alike(rows'[o], r) BY <1>10,<2>2,<3>1
  <3>5. Said(o, rows[o])' BY <3>2,<3>4 DEF Said, Alike
  <3>6. Placed(o, rows[o])' BY <3>1,<3>3,<3>4,<1>1,<1>3 DEF Placed, Alike
  <3> QED BY <3>5,<3>6
 <2> QED BY <2>1,<2>2
<1>15. OneLease' BY <1>5,<1>8,<1>9,<1>10 DEF OneLease, Held, Alike
<1>16. WorkersTrue' /\ workers' \in [Ops -> Worker]
 <2>1. workers' \in [Ops -> Worker] BY <1>1, StirredIs
 <2>2. ASSUME NEW o \in Ops PROVE Learned(o, workers[o])' /\ Anchored(workers[o], rows[o])'
  <3>1. SameWorker(workers'[o], workers[o]) \/ workers'[o] = Idle BY <1>1, StirredIs
  <3>2. CASE workers'[o] = Idle
   <4>1. Learned(o, workers[o])' BY <3>2, IdleLearned DEF Learned, Truth
   <4> QED BY <3>2,<4>1, IdleAnchored
  <3>3. CASE SameWorker(workers'[o], workers[o])
   <4>1. Learned(o, workers[o])' BY <3>3,<1>5,<1>6, WorkerStays
   <4>2. CASE o # op BY <4>1,<4>2,<3>3,<1>5,<1>10, AnchorStays DEF Alike
   <4>3. CASE o = op
    <5>1. workers[op].step = "idle" BY <1>5,<1>13 DEF WorkersTrue, Anchored
    <5>2. workers'[op].step = "idle" BY <3>3,<4>3,<5>1 DEF SameWorker
    <5> QED BY <4>1,<4>3,<5>2 DEF Anchored
   <4> QED BY <4>2,<4>3
  <3> QED BY <3>1,<3>2,<3>3
 <2> QED BY <2>1,<2>2 DEF WorkersTrue
<1>17. ResolvedStay BY <1>8,<1>9,<1>10,<1>13 DEF ResolvedStay, Resolved, Alike
<1>18. Types' BY <1>1,<1>3,<1>5,<1>12,<1>16 DEF Types, SourceTypes, StreamTypes, OtherTypes
<1>19. ResetTrue'
 <2>1. source.checkpoint <= source'.sequence
  <3>1. source.checkpoint \in Nat /\ source.checkpoint <= source.sequence /\ op \in Nat
   BY <1>2,<1>5 DEF Relayed, ResetTrue
  <3> QED BY <3>1,<1>1,<1>2,<1>3
 <2> QED BY <2>1,<1>1,<1>3,<1>5 DEF ResetTrue, Granted
<1>20. NewMail /\ SourceMail BY <1>1, MailShrinks
<1> QED BY <1>1,<1>4,<1>6,<1>14,<1>15,<1>16,<1>17,<1>18,<1>19,<1>20, SourceStep

\* The stream's answer to a probe.
LEMMA ProbeKeeps == ASSUME IInv, NEW op \in Ops, probeStateEventReceipt(op) PROVE IInv'
<1>1. /\ UNCHANGED <<setting, source, mail, dest, drainer, consumer, reset, expired, history>>
      /\ rows[op].state \in Unresolved /\ workers[op].step = "idle"
      /\ rows' = [rows EXCEPT ![op].probe = 2] BY DEF probeStateEventReceipt
<1>2. rows \in [Ops -> Row] /\ workers \in [Ops -> Worker] /\ faults \in 0 .. setting.faults
      /\ registry \in Binding /\ source.sequence \in Nat /\ setting.shared \in BOOLEAN
 BY InvTypes, SettingTypes DEF Relayed
<1>3. Steady /\ SameStream BY <1>1, SteadyQuiet DEF SameStream
<1>4. rows' \in [Ops -> Row] BY <1>1,<1>2 DEF Row
<1>5. \A o \in Ops : Alike(rows'[o], rows[o]) /\ rows'[o].lease = rows[o].lease BY <1>1,<1>2 DEF Alike, Row
<1>6. PICK reply : reply = IF dest.rec[op] = "appended" /\ terminalDestinationOutcome(dest, op)
                           THEN "terminal" ELSE dest.rec[op] OBVIOUS
<1>7. PICK w : w = [Idle EXCEPT !.step = "waiting", !.probing = TRUE, !.reply = reply] OBVIOUS
<1>8. \/ UNCHANGED <<workers, registry>> /\ faults' \in 0 .. setting.faults
      \/ /\ Stored(dest, op) /\ (setting.shared => registry.at.op = 0) /\ Goes(op, w)
         /\ registry' = [registry EXCEPT !.barrier[op] = 0] /\ UNCHANGED faults
 BY <1>2,<1>6,<1>7, FaultIs DEF probeStateEventReceipt
<1>9. Types /\ MessagesTrue /\ CallsTrue /\ QueueTrue /\ RecordsTrue /\ ResetTrue /\ source.sequence <= Operations
 BY DEF IInv, Facts, Known
<1>10. ResetTrue' /\ NewMail /\ SourceMail /\ source.sequence <= source'.sequence /\ source'.sequence <= Operations
 BY <1>1,<1>2,<1>3,<1>9, ResetSame, QuietReset, MailShrinks
<1>11. CASE UNCHANGED <<workers, registry>> /\ faults' \in 0 .. setting.faults
 <2>1. \A o \in Ops : SameWorker(workers'[o], workers[o]) BY <1>11 DEF SameWorker
 <2>2. Attempts' /\ ResolvedStay BY <1>2,<1>3,<1>4,<1>5,<1>11,<2>1, TouchStep
 <2>3. Types' BY <1>1,<1>9,<1>11,<2>2 DEF Types, SourceTypes, StreamTypes, OtherTypes, Attempts
 <2> QED BY <1>1,<1>3,<1>10,<1>11,<2>2,<2>3, SourceStep DEF Attempts
<1>12. CASE /\ Stored(dest, op) /\ (setting.shared => registry.at.op = 0) /\ Goes(op, w)
            /\ registry' = [registry EXCEPT !.barrier[op] = 0] /\ UNCHANGED faults
 <2>1. dest.rec[op] \in {"appended", "gap"} /\ RecordOf(op) BY <1>9,<1>12 DEF Stored, RecordsTrue
 <2>2. w \in Worker /\ w.step = "waiting" /\ w.probing = TRUE /\ w.reply = reply
  <3>1. reply \in {"appended", "gap", "terminal"} BY <1>6,<2>1
  <3>2. w = [step |-> "waiting", try |-> 0, reply |-> reply, epoch |-> 0, releases |-> 0,
             last |-> FALSE, stirred |-> FALSE, probing |-> TRUE] BY <1>7 DEF Idle
  <3> QED BY <3>1,<3>2 DEF Worker, Answers
 <2>3. Truth(op, reply)
  <3>1. CASE dest.rec[op] = "appended" /\ op \notin dest.kept
   BY <3>1,<1>6,<2>1 DEF Truth, RecordOf, terminalDestinationOutcome
  <3>2. CASE ~(dest.rec[op] = "appended" /\ op \notin dest.kept)
   <4>1. reply = dest.rec[op] BY <3>2,<1>6 DEF terminalDestinationOutcome
   <4> QED BY <4>1,<2>1 DEF Truth, RecordOf
  <3> QED BY <3>1,<3>2
 <2>4. Learned(op, w) BY <2>2,<2>3 DEF Learned, Cleaning
 <2>5. workers' \in [Ops -> Worker] /\ workers'[op] = w
       /\ \A o \in Ops \ {op} : workers'[o] = workers[o] BY <1>2,<1>12,<2>2 DEF Goes
 <2>6. \A o \in Ops : /\ rows'[o].lease = "live" => rows[o].lease = "live"
                      /\ o # op => SameWorker(workers'[o], workers[o]) BY <1>5,<2>5 DEF SameWorker
 <2>7. Learned(op, workers[op])'
  <3>1. Learned(op, w)' BY <1>3,<2>4, LearnedStays DEF Steady
  <3> QED BY <2>5,<3>1 DEF Learned, Truth
 <2>8. Anchored(workers[op], rows[op])' BY <1>1,<1>5,<2>2,<2>5 DEF Anchored, Alike, Unresolved
 <2>9. Attempts' /\ ResolvedStay BY <1>3,<1>4,<1>5,<2>5,<2>6,<2>7,<2>8, AlikeStep
 <2>10. registry' \in Binding /\ registry'.at = registry.at /\ registry'.moved = registry.moved
        /\ registry'.barrier[op] = 0
        /\ \A o \in Ops \ {op} : registry'.barrier[o] = registry.barrier[o] BY <1>2,<1>12 DEF Binding
 <2>11. Types' BY <1>1,<1>9,<1>12,<2>9,<2>10 DEF Types, SourceTypes, StreamTypes, OtherTypes, Attempts
 <2>12. NoneForgotten /\ source'.sequence \in Nat /\ Onward BY <1>1,<1>2,<1>3 DEF NoneForgotten, Steady
 <2>13. MessagesTrue'
  <3> SUFFICES ASSUME NEW m \in mail PROVE (MessageOf(m) /\ Guarded(m))' BY <1>1 DEF MessagesTrue
  <3>0. m.op \in Ops /\ m \in Message BY <1>9 DEF Types, StreamTypes, Message
  <3>1. CASE m.op # op BY <3>0,<3>1,<1>9,<2>10,<2>12, MessageStays DEF MessagesTrue
  <3>2. CASE m.op = op
   <4>1. MessageOf(m)'
    <5>1. MessageOf(m) /\ (Ahead(op) => Ahead(op)') BY <1>9,<2>12, AheadStays DEF MessagesTrue
    <5> QED BY <5>1,<3>2,<1>1 DEF MessageOf
   <4>2. Guarded(m) BY <1>9 DEF MessagesTrue
   <4>3. op \in dest.receipts \/ op \in expired \/ registry.barrier[op] = 0
    BY <1>9,<2>1 DEF RecordsTrue, RecordOf, QueueTrue
   <4>4. Guarded(m)' BY <1>1,<2>10,<3>2,<4>2,<4>3 DEF Guarded, Shut
   <4> QED BY <4>1,<4>4
  <3> QED BY <3>1,<3>2
 <2>14. QueueTrue'
  <3>1. CallOf(registry.at) BY <1>9 DEF QueueTrue
  <3>2. registry.at.op = 0 BY <1>12,<3>1 DEF CallOf
  <3>3. CallOf(registry.at)' BY <2>10,<3>1,<3>2 DEF CallOf
  <3> QED BY <1>1,<1>9,<2>10,<3>3 DEF QueueTrue
 <2>15. ClosedStay BY <1>1,<1>10,<2>9,<2>10, SameCall, ClosedStays
 <2>16. CallsTrue'
  <3>1. \A m \in mail : ~Current(m)
   <4>1. \A m \in mail : m.op # 0 BY <1>9, OpsFinite DEF Types, StreamTypes, Message
   <4> QED BY <4>1,<1>9,<1>12 DEF CallsTrue, AwaitedBy, Current
  <3> QED BY <1>1,<3>1 DEF CallsTrue, Current
 <2> QED BY <1>1,<1>3,<1>10,<2>9,<2>10,<2>11,<2>13,<2>14,<2>15,<2>16, StillStep DEF Attempts
<1> QED BY <1>8,<1>11,<1>12

-----------------------------------------------------------------------------
(* Confirmation                                                             *)

\* What the source may confirm did happen.
LEMMA ConfirmableIs ==
  ASSUME IInv, NEW op \in Ops, Confirmable(op), workers[op].step = "confirm"
  PROVE  /\ op \in Logged \cup Ended
         /\ Confirmed(op) = "cleanup" => op \in Ended
         /\ dest.rec[op] # "none" => Resolved(op)
<1>1. Said(op, rows[op]) /\ Learned(op, workers[op]) /\ EventsTrue BY DEF IInv, RowsTrue, WorkersTrue, Facts
<1>2. rows[op].state \in {"appended", "gap_recorded"} \/ rows[op].outcome = "appended" BY DEF Confirmable
<1>3. op \in Logged \cup Ended BY <1>1,<1>2 DEF Said, Ended
<1>4. ASSUME Confirmed(op) = "cleanup" PROVE op \in Ended
 <2>1. CASE rows[op].state = "gap_recorded" BY <2>1,<1>1 DEF Said, Ended
 <2>2. CASE rows[op].state # "gap_recorded"
  <3>1. workers[op].reply = "terminal" BY <1>4,<2>2 DEF Confirmed
  <3>2. op \in Logged /\ op \notin dest.kept BY <1>1,<3>1 DEF Learned, Truth
  <3> QED BY <1>1,<3>2 DEF EventsTrue, Ended
 <2> QED BY <2>1,<2>2
<1>5. dest.rec[op] # "none" => Resolved(op) BY DEF Confirmable, Resolved, Unresolved
<1> QED BY <1>3,<1>4,<1>5

LEMMA ConfirmKeeps == ASSUME IInv, NEW op \in Ops, confirmDestination(op) PROVE IInv'
<1>1. UNCHANGED <<setting, source, mail, registry, drainer, consumer, reset, expired, history>>
      /\ workers[op].step = "confirm" BY DEF confirmDestination
<1>2. rows \in [Ops -> Row] /\ workers \in [Ops -> Worker] /\ faults \in 0 .. setting.faults
      /\ source \in Relayed /\ drainer \in Drain /\ consumer \in {"off", "checked", "on"}
      /\ dest \in Destination BY InvTypes
<1>3. PICK confirmed : confirmed = [rows EXCEPT ![op].confirmed = TRUE] OBVIOUS
<1>4. \/ /\ Confirmable(op) /\ dest' = Noted(op) /\ UNCHANGED faults
         /\ \/ Ends(confirmed, op, "ok", FALSE)
            \/ rows' = confirmed /\ Steps(op, Confirmed(op))
      \/ Ends(rows, op, "retry", FALSE) /\ UNCHANGED <<dest, faults>>
      \/ /\ Fault /\ Ends(rows, op, "uncertain", FALSE)
         /\ dest' = dest \/ (Confirmable(op) /\ dest' = Noted(op)) BY <1>3 DEF confirmDestination, Unanswered
<1>5. dest' = dest \/ (Confirmable(op) /\ dest' = Noted(op)) BY <1>4
<1>6. dest' \in Destination /\ SameStream
 <2>1. CASE dest' = dest BY <2>1, SameDest
 <2>2. CASE Confirmable(op) /\ dest.rec[op] # "none" /\ dest' = [dest EXCEPT !.noted = @ \cup {op}]
  <3>1. Resolved(op) BY <2>2,<1>1, ConfirmableIs
  <3>2. dest' \in Destination BY <1>2,<2>2 DEF Destination
  <3> QED BY <1>2,<2>2,<3>1,<3>2 DEF SameStream, Destination
 <2> QED BY <1>5,<2>1,<2>2 DEF Noted
<1>7. Steady /\ Logged' = Logged /\ Ended' = Ended BY <1>1,<1>6, SteadyQuiet DEF SameStream
<1>8. confirmed \in [Ops -> Row]
      /\ \A o \in Ops : Alike(confirmed[o], rows[o]) /\ confirmed[o].lease = rows[o].lease
 <2>1. PICK r \in Row : r = rows[op] BY <1>2
 <2>2. PICK s : s = [r EXCEPT !.confirmed = TRUE] OBVIOUS
 <2>3. s \in Row /\ Alike(s, r) /\ s.lease = r.lease BY <2>2 DEF Row, Alike
 <2>4. confirmed = [rows EXCEPT ![op] = s] BY <1>3,<2>1,<2>2
 <2>5. \A o \in Ops : Alike(rows[o], rows[o]) BY DEF Alike
 <2> QED BY <1>2,<2>1,<2>3,<2>4,<2>5
<1>9. Attempts' /\ ResolvedStay
 <2>1. CASE Ends(confirmed, op, "ok", FALSE) BY <2>1,<1>7,<1>8, EndsStep
 <2>2. CASE Ends(rows, op, "retry", FALSE) \/ Ends(rows, op, "uncertain", FALSE) BY <2>2,<1>7, EndsHere
 <2>3. CASE Confirmable(op) /\ rows' = confirmed /\ Steps(op, Confirmed(op))
  <3>1. PICK v : v = workers[op] /\ Learned(op, v) /\ Anchored(v, rows[op]) BY DEF IInv, WorkersTrue
  <3>2. PICK step \in {"cleanup", "outcome"} : step = Confirmed(op) BY DEF Confirmed
  <3>3. PICK w : w = [v EXCEPT !.step = step] OBVIOUS
  <3>4. v \in Worker /\ v.step = "confirm" BY <1>1,<1>2,<3>1
  <3>5. w \in Worker /\ w.step = step /\ w.reply = v.reply /\ w.probing = v.probing
   BY <3>3,<3>4 DEF Worker, Cleaning
  <3>6. workers' = [workers EXCEPT ![op] = w] BY <2>3,<3>1,<3>2,<3>3 DEF Steps, Goes
  <3>7. workers' \in [Ops -> Worker] /\ workers'[op] = w
        /\ \A o \in Ops \ {op} : workers'[o] = workers[o] BY <1>2,<3>5,<3>6
  <3>8. \A o \in Ops : /\ Alike(rows'[o], rows[o])
                       /\ rows'[o].lease = "live" => rows[o].lease = "live"
                       /\ o # op => SameWorker(workers'[o], workers[o])
                                    /\ rows'[o].lease = rows[o].lease BY <1>8,<2>3,<3>7 DEF SameWorker
  <3>9. Learned(op, v)' BY <1>7,<3>1, LearnedStays DEF Steady
  <3>10. op \in Logged \cup Ended /\ (step = "cleanup" => op \in Ended) BY <1>1,<2>3,<3>2, ConfirmableIs
  <3>11. Learned(op, w)' BY <1>7,<3>2,<3>5,<3>9,<3>10 DEF Learned, Truth, Cleaning
  <3>12. Learned(op, workers[op])' BY <3>7,<3>11 DEF Learned, Truth
  <3>13. Anchored(workers[op], rows[op])'
   <4>1. rows'[op].state = rows[op].state /\ rows'[op].lease = rows[op].lease BY <1>8,<2>3 DEF Alike
   <4> QED BY <4>1,<3>1,<3>4,<3>5,<3>7 DEF Anchored
  <3> QED BY <1>7,<1>8,<2>3,<3>7,<3>8,<3>12,<3>13, AlikeStep
 <2> QED BY <1>4,<2>1,<2>2,<2>3
<1>10. faults' \in 0 .. setting.faults BY <1>2,<1>4, FaultIs
<1>11. mail' \in SUBSET Message /\ NewMail /\ SourceMail /\ SameReset BY <1>1, MailShrinks, QuietReset
<1> QED BY <1>1,<1>2,<1>6,<1>9,<1>10,<1>11, AttemptStep

-----------------------------------------------------------------------------
(* The stream moves on                                                      *)

\* A step that changes the stream and what happened, and neither rows nor the queue.
LEMMA DestStep ==
  ASSUME IInv, UNCHANGED <<registry, setting, rows, workers, source>>, Onward, NoneForgotten,
         mail' \subseteq mail, dest' \in Destination, drainer' \in Drain,
         consumer' \in {"off", "checked", "on"}, reset' \in Grant, expired' \subseteq Ops,
         faults' \in 0 .. setting.faults, history' \in Past,
         RecordsTrue', ResetTrue', Facts'
  PROVE  IInv'
<1>1. Types /\ MessagesTrue /\ CallsTrue /\ QueueTrue /\ source.sequence \in Nat
 BY DEF IInv, Types, SourceTypes, Relayed
<1>2. Steady BY DEF Steady
<1>3. Attempts' BY <1>2, SameAttempts
<1>4. Types' BY <1>1 DEF Types, SourceTypes, StreamTypes, OtherTypes
<1>5. NewMail /\ SourceMail BY MailShrinks
<1>6. MessagesTrue' /\ CallsTrue' BY <1>1,<1>5, MessagesStay, CallsStay
<1>7. QueueTrue' BY <1>1, QueueStays
<1> QED BY <1>3,<1>4,<1>6,<1>7 DEF IInv, Attempts

LEMMA PruneRecordsKeeps == ASSUME IInv, NEW op \in Ops, pruneCombinedRecords(op) PROVE IInv'
<1>1. /\ UNCHANGED <<setting, rows, source, workers, mail, registry, drainer, consumer, reset,
                     expired, faults, history>>
      /\ op \in dest.noted /\ op \in expired /\ op \notin dest.kept
      /\ dest' = [dest EXCEPT !.rec[op] = "none", !.noted = @ \ {op}, !.fences[op] = {}]
 BY DEF pruneCombinedRecords, Prunable
<1>2. Unsent(op) BY DEF pruneCombinedRecords, Unsent
<1>3. dest \in Destination /\ drainer \in Drain /\ consumer \in {"off", "checked", "on"}
      /\ reset \in Grant /\ expired \subseteq Ops /\ faults \in 0 .. setting.faults
      /\ history \in Past /\ source.sequence \in Nat BY InvTypes DEF Relayed
<1>4. /\ dest' \in Destination /\ dest'.kept = dest.kept /\ dest'.checkpoint = dest.checkpoint
      /\ dest'.gap = dest.gap /\ dest'.reset = dest.reset /\ dest'.noted = dest.noted \ {op}
      /\ dest'.receipts = dest.receipts
      /\ dest'.rec[op] = "none" /\ \A o \in Ops \ {op} : dest'.rec[o] = dest.rec[o]
                                                        /\ dest'.fences[o] = dest.fences[o]
 BY <1>1,<1>3 DEF Destination
<1>5. Types /\ RecordsTrue /\ ResetTrue /\ Facts BY DEF IInv
<1>6. Onward /\ Logged' = Logged /\ Ended' = Ended BY <1>1,<1>3,<1>4,<1>5, OnwardSame
<1>7. NoneForgotten BY <1>1,<1>2,<1>4 DEF NoneForgotten
<1>8. RecordsTrue'
 <2> SUFFICES ASSUME NEW o \in Ops PROVE RecordOf(o)' BY <1>4,<1>5,<1>6 DEF RecordsTrue
 <2>1. RecordOf(o) /\ RecordOf(op) BY <1>5 DEF RecordsTrue
 <2>2. (Superseded(dest, o) <=> Superseded(dest, o)') /\ (Resolved(o) <=> Resolved(o)')
       /\ (Unasked(o) <=> Unasked(o)') BY <1>1,<1>4 DEF Superseded, Resolved, Unasked
 <2>3. CASE o # op BY <1>1,<1>4,<1>6,<2>1,<2>2,<2>3 DEF RecordOf, Closed
 <2>4. CASE o = op
  <3>1. Unasked(op) BY <1>2 DEF Unsent, Unasked
  <3>2. op \in Logged => op \in history.overwritten \/ Closed(op) BY <1>1,<2>1,<3>1 DEF RecordOf, Closed
  <3> QED BY <1>1,<1>4,<1>6,<2>1,<2>2,<2>4,<3>2 DEF RecordOf, Closed
 <2> QED BY <2>3,<2>4
<1>9. ResetTrue' BY <1>1,<1>4,<1>5 DEF ResetTrue, Granted
<1>10. Facts'
 BY <1>1,<1>4,<1>5,<1>6 DEF Facts, Known, EventsTrue, GapDeclared, NoneAfterMove, ResetIsFinal, InOrder,
    Increasing
<1> QED BY <1>1,<1>3,<1>4,<1>6,<1>7,<1>8,<1>9,<1>10, DestStep

LEMMA ExpireKeeps == ASSUME IInv, NEW op \in Ops, Expire(op) PROVE IInv'
<1>1. /\ UNCHANGED <<setting, rows, source, workers, mail, registry, dest, drainer, consumer, reset,
                     faults, history>>
      /\ op <= source.sequence /\ expired' = expired \cup {op} BY DEF Expire
<1>2. dest \in Destination /\ drainer \in Drain /\ consumer \in {"off", "checked", "on"}
      /\ reset \in Grant /\ expired \subseteq Ops /\ faults \in 0 .. setting.faults
      /\ history \in Past /\ source.sequence \in Nat BY InvTypes DEF Relayed
<1>3. Types /\ RecordsTrue /\ ResetTrue /\ Facts BY DEF IInv
<1>4. Onward /\ Logged' = Logged /\ Ended' = Ended BY <1>1,<1>2,<1>3, OnwardSame
<1>5. NoneForgotten BY <1>1 DEF NoneForgotten
<1>6. RecordsTrue'
 <2> SUFFICES ASSUME NEW o \in Ops PROVE RecordOf(o)' BY <1>1,<1>3,<1>4 DEF RecordsTrue
 <2>1. RecordOf(o) BY <1>3 DEF RecordsTrue
 <2> QED BY <1>1,<1>4,<2>1 DEF RecordOf, Superseded, Closed, Resolved, Unasked
<1>7. ResetTrue' BY <1>1,<1>3 DEF ResetTrue, Granted
<1>8. Known'
 <2>1. op \in 1 .. source.sequence BY <1>1,<1>2 DEF Ops
 <2> QED BY <1>1,<1>3,<1>4,<2>1 DEF Facts, Known
<1>9. Facts'
 BY <1>1,<1>3,<1>4,<1>8 DEF Facts, EventsTrue, GapDeclared, NoneAfterMove, ResetIsFinal, InOrder, Increasing
<1> QED BY <1>1,<1>2,<1>4,<1>5,<1>6,<1>7,<1>9, DestStep

LEMMA AcknowledgeKeeps == ASSUME IInv, acknowledge PROVE IInv'
<1>1. /\ UNCHANGED <<setting, rows, source, workers, mail, registry, drainer, consumer, reset,
                     expired, faults>>
      /\ dest.kept # {} /\ history' = [history EXCEPT !.acked = @ \cup {Min(dest.kept)}] BY DEF acknowledge
<1>2. dest \in Destination /\ drainer \in Drain /\ consumer \in {"off", "checked", "on"}
      /\ reset \in Grant /\ expired \subseteq Ops /\ faults \in 0 .. setting.faults
      /\ history \in Past /\ source.sequence \in Nat /\ dest.interest \in Interest
      /\ dest.kept \subseteq Ops BY InvTypes DEF Relayed, Destination
<1>3. PICK op \in Ops : op = Min(dest.kept) /\ op \in dest.kept BY <1>1,<1>2, LeastOp
<1>4. PICK i \in Interest : i = queueProducerWakeup(dest.interest) BY <1>2, InterestTypes, 0 \in Nat
<1>5. dest' = [dest EXCEPT !.kept = dest.kept \ {op}, !.interest = i] BY <1>3,<1>4 DEF acknowledge
<1>6. /\ dest' \in Destination /\ dest'.kept = dest.kept \ {op} /\ dest'.checkpoint = dest.checkpoint
      /\ dest'.gap = dest.gap /\ dest'.reset = dest.reset /\ dest'.noted = dest.noted
      /\ dest'.rec = dest.rec /\ dest'.fences = dest.fences /\ dest'.receipts = dest.receipts
 BY <1>2,<1>5 DEF Destination
<1>7. /\ history' \in Past /\ history'.acked = history.acked \cup {op} /\ history'.log = history.log
      /\ history'.gapped = history.gapped /\ history'.lost = history.lost
      /\ history'.dropped = history.dropped /\ history'.strays = history.strays
      /\ history'.overwritten = history.overwritten BY <1>1,<1>2,<1>3 DEF Past
<1>8. Types /\ RecordsTrue /\ ResetTrue /\ Facts BY DEF IInv
<1>9. op \in Logged /\ Logged' = Logged BY <1>3,<1>7,<1>8 DEF RecordsTrue, RecordOf, Logged
<1>10. Onward BY <1>1,<1>2,<1>6,<1>7,<1>9 DEF Onward, Ended
<1>11. NoneForgotten BY <1>1,<1>6 DEF NoneForgotten
<1>12. RecordsTrue'
 <2> SUFFICES ASSUME NEW o \in Ops PROVE RecordOf(o)' BY <1>6,<1>8,<1>9 DEF RecordsTrue
 <2>1. RecordOf(o) BY <1>8 DEF RecordsTrue
 <2> QED BY <1>1,<1>6,<1>7,<1>9,<2>1 DEF RecordOf, Superseded, Closed, Resolved, Unasked
<1>13. ResetTrue' BY <1>1,<1>6,<1>7,<1>8 DEF ResetTrue, Granted
<1>14. Known' /\ EventsTrue' /\ GapDeclared' /\ NoneAfterMove' /\ ResetIsFinal'
 BY <1>1,<1>6,<1>7,<1>8,<1>9 DEF Facts, Known, EventsTrue, GapDeclared, NoneAfterMove, ResetIsFinal
<1>15. InOrder' BY <1>7,<1>8,<1>9 DEF Facts, InOrder, Increasing
<1> QED BY <1>1,<1>2,<1>6,<1>7,<1>10,<1>11,<1>12,<1>13,<1>14,<1>15, DestStep DEF Facts

-----------------------------------------------------------------------------
(* The registry's queue                                                     *)

\* An answer that is true reaches the attempt that waits for it, or nobody.
LEMMA ReplyStep ==
  ASSUME IInv, Steady, NEW op \in Ops, NEW try, NEW reply \in Answers, Truth(op, reply)',
         workers' = Reply(op, try, reply), UNCHANGED rows
  PROVE  Attempts' /\ ResolvedStay
<1>1. workers \in [Ops -> Worker] BY InvTypes
<1>2. CASE ~Awaits(op, try) BY <1>2, SameAttempts DEF Reply
<1>3. CASE Awaits(op, try)
 <2>1. PICK v : v = workers[op] /\ Learned(op, v) /\ Anchored(v, rows[op]) BY DEF IInv, WorkersTrue
 <2>2. v \in Worker /\ v.step = "waiting" BY <1>1,<1>3,<2>1 DEF Awaits
 <2>3. PICK w : w = [v EXCEPT !.reply = reply] OBVIOUS
 <2>4. w \in Worker /\ w.step = "waiting" /\ w.reply = reply /\ w.probing = v.probing BY <2>2,<2>3 DEF Worker
 <2>5. Goes(op, w) BY <1>1,<1>3,<2>1,<2>3 DEF Reply, Goes
 <2>6. Learned(op, w)' BY <2>4 DEF Learned, Truth, Cleaning
 <2>7. Anchored(w, rows[op]) BY <2>1,<2>2,<2>4 DEF Anchored
 <2> QED BY <2>4,<2>5,<2>6,<2>7, GoesStep
<1> QED BY <1>2,<1>3

\* What the queue is handling.
LEMMA CallIs ==
  ASSUME IInv
  PROVE  /\ registry.at \in Call /\ registry.barrier \in [Ops -> Nat] /\ registry.calls \in Nat
         /\ registry.moved \in BOOLEAN /\ CallOf(registry.at)
         /\ registry.at.step # "idle" => registry.at.op \in Ops
         /\ registry.at.op # 0 => registry.at.op \in Ops
         /\ registry.at.step \notin {"idle", "decide"} => ~registry.moved
<1>1. registry \in Binding /\ QueueTrue BY InvTypes DEF IInv
<1>2. registry.at \in Call /\ registry.barrier \in [Ops -> Nat] /\ registry.calls \in Nat
      /\ registry.moved \in BOOLEAN BY <1>1 DEF Binding
<1>3. registry.at.op # 0 => registry.at.op \in Ops BY <1>2 DEF Call
<1>4. registry.at.op = 0 => registry.at.step = "idle" BY <1>1 DEF QueueTrue, CallOf, NoCall
<1> QED BY <1>1,<1>2,<1>3,<1>4 DEF QueueTrue

LEMMA NoCallIs == /\ NoCall \in Call /\ NoCall.op = 0 /\ NoCall.step = "idle" /\ NoCall.reply = "none"
                  /\ NoCall.fence = "none" /\ ~NoCall.moving /\ CallOf(NoCall)'
<1>1. NoCall \in Call BY DEF NoCall, Call, Answers
<1> QED BY <1>1 DEF NoCall, CallOf

\* While the registry waits for no answer, nobody waits for a request's.
LEMMA NoCurrent ==
  ASSUME IInv, \/ registry.at.op = 0 \/ registry.at.step = "decide"
               \/ registry.at.step = "fence" /\ registry.at.fence # "none"
               \/ registry.at.step = "waiting" /\ registry.at.reply # "none"
  PROVE  \A m \in mail : ~Current(m)
<1> SUFFICES ASSUME NEW m \in mail, Current(m) PROVE FALSE OBVIOUS
<1>1. m.op # 0 /\ m.kind \in {"append", "fence"} BY InvTypes, OpsFinite DEF Message
<1>2. AwaitedBy(m, registry.at) BY DEF IInv, CallsTrue
<1>3. CallOf(registry.at) BY DEF IInv, QueueTrue
<1> QED BY <1>1,<1>2,<1>3 DEF AwaitedBy, CallOf, NoCall

LEMMA CallsNone ==
  ASSUME UNCHANGED setting, \A m \in mail : ~Current(m), SourceMail
  PROVE  CallsTrue'
BY DEF CallsTrue, SourceMail, Current

LEMMA CallSent ==
  ASSUME UNCHANGED setting, \A m \in mail : ~Current(m), NEW f, mail' \subseteq mail \cup {f},
         AwaitedBy(f, registry.at)'
  PROVE  CallsTrue'
<1>1. \A m \in mail' : Current(m)' => m = f BY DEF Current
<1> QED BY <1>1 DEF CallsTrue

\* The fence of the call whose barrier stands.
LEMMA FenceIs ==
  ASSUME IInv, Steady, NEW op \in Ops, NEW try \in Nat, op <= source.sequence, setting.shared,
         NEW f, f = Fence(op, try)
  PROVE  /\ f \in Message /\ (MessageOf(f) /\ Guarded(f))'
         /\ f.op = op /\ f.kind = "fence" /\ f.call = registry.barrier[op]
<1>1. PICK early \in BOOLEAN : early = ~Stored(dest, op) OBVIOUS
<1>2. registry.barrier[op] \in Nat BY CallIs
<1>3. f = [to |-> "stream", kind |-> "fence", op |-> op, try |-> try, call |-> registry.barrier[op],
           head |-> FALSE, early |-> early, late |-> FALSE] BY <1>1 DEF Fence, Request
<1>4. f \in Message BY <1>2,<1>3 DEF Message
<1>5. setting'.shared /\ source'.sequence = source.sequence BY DEF Steady, Onward
<1>6. (MessageOf(f) /\ Guarded(f))' BY <1>3,<1>5 DEF MessageOf, Guarded
<1> QED BY <1>3,<1>4,<1>6

LEMMA FenceSent ==
  ASSUME IInv, Steady, NEW op \in Ops, NEW try \in Nat, op <= source.sequence, setting.shared,
         mail' \subseteq mail \cup {Fence(op, try)}
  PROVE  mail' \in SUBSET Message /\ NewMail
<1>1. \A m \in mail : Copied(m, m) BY DEF Copied
<1>2. PICK f : f = Fence(op, try) OBVIOUS
<1>3. f \in Message /\ (MessageOf(f) /\ Guarded(f))' /\ f.kind = "fence" BY <1>2, FenceIs
<1>4. mail \in SUBSET Message BY InvTypes
<1> QED BY <1>1,<1>2,<1>3,<1>4 DEF NewMail

\* A step of the queue that leaves the stream alone.
LEMMA QueueStep ==
  ASSUME IInv, Attempts', ResolvedStay, ClosedStay,
         UNCHANGED <<setting, source, dest, drainer, consumer, reset, expired, history>>,
         mail' \in SUBSET Message, registry' \in Binding, registry.moved => registry'.moved,
         faults' \in 0 .. setting.faults,
         MessagesTrue', CallsTrue', QueueTrue'
  PROVE  IInv'
<1>1. Types /\ ResetTrue /\ source.sequence \in Nat /\ source.sequence <= Operations
 BY DEF IInv, Types, SourceTypes, Relayed, Facts, Known
<1>2. Types' BY <1>1 DEF Types, SourceTypes, StreamTypes, OtherTypes, Attempts
<1>3. SameStream BY DEF SameStream
<1>4. ResetTrue' BY <1>1,<1>3, ResetSame, QuietReset
<1> QED BY <1>1,<1>2,<1>3,<1>4, StillStep DEF Attempts

\* The same, as long as every barrier stands.
LEMMA BarredStep ==
  ASSUME IInv, Attempts', ResolvedStay,
         UNCHANGED <<setting, source, dest, drainer, consumer, reset, expired, history>>,
         mail' \in SUBSET Message, registry' \in Binding, registry.moved => registry'.moved,
         registry'.barrier = registry.barrier, NewMail, CallKept,
         faults' \in 0 .. setting.faults, CallsTrue', QueueTrue'
  PROVE  IInv'
<1>1. Types /\ MessagesTrue /\ source.sequence \in Nat BY DEF IInv, Types, SourceTypes, Relayed
<1>2. Onward /\ NoneForgotten BY SteadyQuiet DEF Steady, NoneForgotten
<1>3. MessagesTrue' BY <1>1,<1>2, MessagesStay
<1>4. ClosedStay BY ClosedStays
<1> QED BY <1>3,<1>4, QueueStep

\* A barrier goes once every append it stood for has its receipt or is excluded.
LEMMA FreedStep ==
  ASSUME IInv, Attempts', ResolvedStay,
         UNCHANGED <<setting, source, mail, dest, drainer, consumer, reset, expired, history, faults>>,
         registry' \in Binding, registry'.moved = registry.moved, CallKept,
         NEW op \in Ops, registry'.barrier = [registry.barrier EXCEPT ![op] = 0],
         op \in dest.receipts \/ op \in expired \/ registry.barrier[op] \in dest.fences[op],
         \A m \in mail : ~Current(m), QueueTrue'
  PROVE  IInv'
<1>1. Types /\ MessagesTrue /\ source.sequence \in Nat /\ registry.barrier \in [Ops -> Nat]
 BY CallIs DEF IInv, Types, SourceTypes, Relayed
<1>2. Onward /\ NoneForgotten BY SteadyQuiet DEF Steady, NoneForgotten
<1>3. mail' \in SUBSET Message /\ NewMail /\ SourceMail /\ faults' \in 0 .. setting.faults BY MailShrinks, InvTypes
<1>4. MessagesTrue'
 <2> SUFFICES ASSUME NEW m \in mail PROVE (MessageOf(m) /\ Guarded(m))' BY DEF MessagesTrue
 <2>1. m.op \in Ops /\ MessageOf(m) /\ Guarded(m) BY <1>1 DEF Types, StreamTypes, Message, MessagesTrue
 <2>2. CASE m.op # op
  <3>1. registry'.barrier[m.op] = registry.barrier[m.op] BY <1>1,<2>1,<2>2
  <3> QED BY <1>1,<1>2,<2>1,<3>1, MessageStays
 <2>3. CASE m.op = op
  <3>1. MessageOf(m)'
   <4>1. Ahead(op) => Ahead(op)' BY <1>2, AheadStays
   <4> QED BY <2>1,<2>3,<4>1 DEF MessageOf
  <3>2. Guarded(m)' BY <1>1,<2>1,<2>3 DEF Guarded, Shut
  <3> QED BY <3>1,<3>2
 <2> QED BY <2>2,<2>3
<1>5. ClosedStay BY <1>3, ClosedStays
<1>6. CallsTrue' BY <1>3, CallsNone
<1> QED BY <1>3,<1>4,<1>5,<1>6, QueueStep

LEMMA TakesKeeps == ASSUME IInv, NEW m \in mail, RegistryTakes(m) PROVE IInv'
<1>1. /\ UNCHANGED <<setting, rows, source, workers, dest, drainer, consumer, reset, expired,
                     faults, history>>
      /\ m.to = "registry" /\ registry.at.op = 0 BY DEF RegistryTakes
<1>2. m \in Message /\ MessageOf(m) /\ mail \in SUBSET Message /\ faults \in 0 .. setting.faults
      /\ registry \in Binding BY InvTypes DEF IInv, MessagesTrue
<1>3. m.op \in Ops /\ m.op # 0 /\ m.try \in Nat /\ m.head \in BOOLEAN BY <1>2, OpsFinite DEF Message
<1>4. PICK step \in {"fence", "decide"} :
        step = IF registry.barrier[m.op] # 0 THEN "fence" ELSE "decide" OBVIOUS
<1>5. PICK at : at = [NoCall EXCEPT !.op = m.op, !.try = m.try, !.head = m.head, !.step = step] OBVIOUS
<1>6. registry' = [registry EXCEPT !.at = at] BY <1>4,<1>5 DEF RegistryTakes
<1>7. at \in Call /\ at.op = m.op /\ at.step = step /\ at.head = m.head /\ at.reply = "none"
      /\ at.fence = "none" /\ ~at.moving BY <1>3,<1>5, NoCallIs DEF Call, NoCall
<1>8. registry' \in Binding /\ registry'.at = at /\ registry'.barrier = registry.barrier
      /\ registry'.moved = registry.moved BY <1>2,<1>6,<1>7 DEF Binding
<1>9. Steady BY <1>1, SteadyQuiet
<1>10. Attempts' /\ ResolvedStay BY <1>1,<1>9, SameAttempts
<1>11. setting.shared /\ m.op <= source.sequence /\ m.kind = "append" BY <1>1,<1>2 DEF MessageOf
<1>12. mail' \subseteq mail \cup {Fence(m.op, m.try)} /\ (step = "decide" => mail' \subseteq mail)
 BY <1>4 DEF RegistryTakes
<1>13. mail' \in SUBSET Message /\ NewMail BY <1>3,<1>9,<1>11,<1>12, FenceSent
<1>14. \A n \in mail : ~Current(n) BY <1>1, NoCurrent
<1>15. CallsTrue'
 <2>1. CASE step = "decide" BY <1>1,<1>12,<1>14,<2>1, MailShrinks, CallsNone
 <2>2. CASE step = "fence"
  <3>1. PICK f : f = Fence(m.op, m.try) OBVIOUS
  <3>2. f.op = m.op /\ f.kind = "fence" /\ f.call = registry.barrier[m.op] BY <1>3,<1>9,<1>11,<3>1, FenceIs
  <3>3. AwaitedBy(f, registry.at)' BY <1>7,<1>8,<2>2,<3>2 DEF AwaitedBy
  <3> QED BY <1>1,<1>12,<1>14,<3>1,<3>3, CallSent
 <2> QED BY <2>1,<2>2
<1>16. CallOf(at)'
 <2>1. m.head => Ahead(m.op)' BY <1>2,<1>3,<1>9, AheadStays DEF MessageOf, Steady
 <2>2. Truth(m.op, "none")' BY DEF Truth
 <2> QED BY <1>1,<1>3,<1>4,<1>7,<1>8,<1>11,<2>1,<2>2 DEF CallOf
<1>17. QueueTrue'
 <2>1. QueueTrue BY DEF IInv
 <2>2. registry.moved => step = "decide" BY <1>3,<1>4,<2>1 DEF QueueTrue
 <2>3. CallOf(registry.at)' BY <1>8,<1>16
 <2> QED BY <1>1,<1>7,<1>8,<2>1,<2>2,<2>3 DEF QueueTrue
<1>18. CallKept BY <1>7,<1>8,<1>11 DEF CallKept, Unasked
<1> QED BY <1>1,<1>2,<1>8,<1>10,<1>13,<1>15,<1>17,<1>18, BarredStep

\* The queue lets its call go: nothing is handled any more.
LEMMA QueueFree ==
  ASSUME IInv, UNCHANGED setting, registry'.at = NoCall, registry'.moved = registry.moved,
         \A op \in Ops : registry'.barrier[op] \in {registry.barrier[op], 0}
  PROVE  QueueTrue' /\ CallKept
<1>1. CallOf(registry.at)' BY NoCallIs DEF CallOf
<1>2. QueueTrue BY DEF IInv
<1>3. CallKept BY NoCallIs DEF CallKept
<1> QED BY <1>1,<1>2,<1>3 DEF QueueTrue, NoCall

\* What stays true of a call, and which answers free its barrier.
LEMMA AnswerFrees ==
  ASSUME IInv, NEW op \in Ops, ~registry.moved, NEW answer, Truth(op, answer),
         \/ answer \in {"appended", "gap"}
         \/ answer = "fenced" /\ registry.barrier[op] \in dest.fences[op]
  PROVE  op \in dest.receipts \/ op \in expired \/ registry.barrier[op] \in dest.fences[op]
<1>1. dest.receipts = Logged /\ RecordOf(op) BY DEF IInv, RecordsTrue
<1> QED BY <1>1 DEF Truth, RecordOf

LEMMA TrueStays ==
  ASSUME Steady, UNCHANGED dest, NEW op \in Ops, NEW reply, Truth(op, reply)
  PROVE  Truth(op, reply)'
BY DEF Truth, Steady, Onward

\* A call ends with an answer, and its barrier with it.
LEMMA FreeEnds ==
  ASSUME IInv, NEW op \in Ops, op = registry.at.op, ~registry.moved, NEW reply \in Answers, Truth(op, reply),
         UNCHANGED <<setting, rows, source, mail, dest, drainer, consumer, reset, expired, history, faults>>,
         registry' = [registry EXCEPT !.barrier[op] = 0, !.at = NoCall],
         workers' = Reply(op, registry.at.try, reply),
         op \in dest.receipts \/ op \in expired \/ registry.barrier[op] \in dest.fences[op],
         \A m \in mail : ~Current(m)
  PROVE  IInv'
<1>1. registry \in Binding BY InvTypes
<1>2. /\ registry' \in Binding /\ registry'.at = NoCall /\ registry'.moved = registry.moved
      /\ registry'.barrier = [registry.barrier EXCEPT ![op] = 0] BY <1>1, NoCallIs DEF Binding
<1>3. Steady BY SteadyQuiet
<1>4. Truth(op, reply)' BY <1>3, TrueStays
<1>5. Attempts' /\ ResolvedStay BY <1>3,<1>4, ReplyStep
<1>6. \A o \in Ops : registry'.barrier[o] \in {registry.barrier[o], 0} BY <1>1,<1>2 DEF Binding
<1>7. QueueTrue' /\ CallKept BY <1>2,<1>6, QueueFree
<1> QED BY <1>2,<1>5,<1>7, FreedStep

LEMMA AnswersKeeps == ASSUME IInv, RegistryAnswers PROVE IInv'
<1>1. /\ UNCHANGED <<setting, rows, source, dest, drainer, consumer, reset, expired, faults, history>>
      /\ registry.at.step = "waiting" /\ registry.at.reply # "none" BY DEF RegistryAnswers
<1>2. CallOf(registry.at) /\ registry.at.op \in Ops /\ ~registry.moved BY <1>1, CallIs
<1>3. PICK at \in Call : at = registry.at BY CallIs
<1>4. registry \in Binding /\ faults \in 0 .. setting.faults BY InvTypes
<1>5. Steady BY <1>1, SteadyQuiet
<1>6. PICK op \in Ops : op = at.op BY <1>2,<1>3
<1>7. op # 0 /\ at.reply \in Answers /\ at.try \in Nat BY <1>3, OpsFinite DEF Call
<1>8. /\ setting.shared /\ op <= source.sequence /\ (at.head => Ahead(op)) /\ Truth(op, at.reply)
      /\ at.fence = "none" /\ ~at.moving BY <1>1,<1>2,<1>3,<1>6,<1>7 DEF CallOf
<1>9. \A m \in mail : ~Current(m) BY <1>1, NoCurrent
<1>10. CASE at.reply \in {"appended", "gap"}
 <2>1. registry' = [registry EXCEPT !.barrier[op] = 0, !.at = NoCall]
       /\ workers' = Reply(op, at.try, at.reply) /\ UNCHANGED mail BY <1>3,<1>6,<1>10 DEF RegistryAnswers
 <2>2. op \in dest.receipts \/ op \in expired \/ registry.barrier[op] \in dest.fences[op]
  BY <1>2,<1>8,<1>10, AnswerFrees
 <2> QED BY <1>1,<1>2,<1>3,<1>6,<1>7,<1>8,<1>9,<2>1,<2>2, FreeEnds
<1>11. CASE at.reply \notin {"appended", "gap"}
 <2>1. registry' = [registry EXCEPT !.at.step = "fence"] /\ UNCHANGED workers
       /\ mail' = mail \cup {Fence(op, at.try)} BY <1>3,<1>6,<1>11 DEF RegistryAnswers
 <2>2. PICK new : new = [at EXCEPT !.step = "fence"] OBVIOUS
 <2>3. new \in Call /\ new.op = op /\ new.head = at.head /\ new.reply = at.reply
       /\ new.step = "fence" /\ new.fence = "none" /\ ~new.moving BY <1>6,<1>8,<2>2 DEF Call
 <2>4. registry' = [registry EXCEPT !.at = new] BY <1>3,<1>4,<2>1,<2>2 DEF Binding
 <2>5. /\ registry' \in Binding /\ registry'.at = new /\ registry'.barrier = registry.barrier
       /\ registry'.moved = registry.moved BY <1>4,<2>3,<2>4 DEF Binding
 <2>6. Attempts' /\ ResolvedStay BY <1>1,<1>5,<2>1, SameAttempts
 <2>7. mail' \in SUBSET Message /\ NewMail BY <1>5,<1>7,<1>8,<2>1, FenceSent
 <2>8. CallsTrue'
  <3>1. PICK f : f = Fence(op, at.try) OBVIOUS
  <3>2. f.op = op /\ f.kind = "fence" /\ f.call = registry.barrier[op] BY <1>5,<1>7,<1>8,<3>1, FenceIs
  <3>3. AwaitedBy(f, registry.at)' BY <2>3,<2>5,<3>2 DEF AwaitedBy
  <3> QED BY <1>1,<1>9,<2>1,<3>1,<3>3, CallSent
 <2>9. CallOf(new)'
  <3>1. at.head => Ahead(op)' BY <1>5,<1>8, AheadStays DEF Steady
  <3>2. Truth(op, at.reply)' /\ Truth(op, "none")' BY <1>1,<1>5,<1>8, TrueStays DEF Truth
  <3> QED BY <1>1,<1>7,<1>8,<2>3,<3>1,<3>2 DEF CallOf
 <2>10. QueueTrue'
  <3>1. QueueTrue BY DEF IInv
  <3>2. CallOf(registry.at)' BY <2>5,<2>9
  <3> QED BY <1>1,<1>2,<2>5,<3>1,<3>2 DEF QueueTrue
 <2>11. CallKept BY <1>3,<1>6,<1>8,<2>3,<2>5 DEF CallKept, Unasked
 <2> QED BY <1>1,<1>4,<2>5,<2>6,<2>7,<2>8,<2>10,<2>11, BarredStep
<1> QED BY <1>10,<1>11

LEMMA GivesUpKeeps == ASSUME IInv, RegistryGivesUp PROVE IInv'
<1>1. /\ UNCHANGED <<setting, rows, source, dest, drainer, consumer, reset, expired, history>>
      /\ registry.at.op # 0 /\ Fault /\ registry' = [registry EXCEPT !.at = NoCall]
      /\ workers' = Reply(registry.at.op, registry.at.try, "unknown")
      /\ mail' = {[m EXCEPT !.late = @ \/ m.to = "stream"] : m \in mail} BY DEF RegistryGivesUp, RegistryEnds
<1>2. registry \in Binding /\ mail \in SUBSET Message
      /\ faults' \in 0 .. setting.faults /\ registry.at.op \in Ops BY <1>1, InvTypes, FaultIs, CallIs
<1>3. Steady BY <1>1, SteadyQuiet
<1>4. /\ registry' \in Binding /\ registry'.at = NoCall /\ registry'.barrier = registry.barrier
      /\ registry'.moved = registry.moved BY <1>1,<1>2, NoCallIs DEF Binding
<1>5. Attempts' /\ ResolvedStay
 <2>1. "unknown" \in Answers /\ Truth(registry.at.op, "unknown")' BY DEF Answers, Truth
 <2>2. PICK op \in Ops : op = registry.at.op BY <1>2
 <2>3. Truth(op, "unknown")' BY DEF Truth
 <2> QED BY <1>1,<1>3,<2>1,<2>2,<2>3, ReplyStep
<1>6. \A n \in mail' : n \in Message /\ ~Current(n) /\ \E m \in mail : Copied(n, m)
 <2> SUFFICES ASSUME NEW m \in mail, NEW n, n = [m EXCEPT !.late = @ \/ m.to = "stream"]
              PROVE  n \in Message /\ ~Current(n) /\ Copied(n, m) BY <1>1
 <2>1. m \in Message BY <1>2
 <2>2. PICK late \in BOOLEAN : late = (m.late \/ m.to = "stream") OBVIOUS
 <2>3. n = [m EXCEPT !.late = late] BY <2>1,<2>2 DEF Message
 <2>4. n \in Message /\ n.late = late /\ Copied(n, m) BY <2>1,<2>3 DEF Message, Copied
 <2> QED BY <2>2,<2>4 DEF Current, Copied
<1>7. mail' \in SUBSET Message /\ NewMail BY <1>6 DEF NewMail
<1>8. CallsTrue' BY <1>1,<1>6 DEF CallsTrue, Current
<1>9. QueueTrue' /\ CallKept BY <1>1,<1>4, QueueFree
<1> QED BY <1>1,<1>2,<1>4,<1>5,<1>7,<1>8,<1>9, BarredStep

LEMMA MovesKeeps == ASSUME IInv, BindingMoves PROVE IInv'
<1>1. /\ UNCHANGED <<setting, rows, source, workers, mail, dest, drainer, consumer, reset, expired, faults, history>>
      /\ setting.shared /\ registry' = [registry EXCEPT !.moved = TRUE]
      /\ registry.at.op = 0 /\ \A op \in Ops : registry.barrier[op] = 0 BY DEF BindingMoves, Unbarred
<1>2. registry \in Binding /\ faults \in 0 .. setting.faults BY InvTypes
<1>3. Steady BY <1>1, SteadyQuiet
<1>4. registry' \in Binding /\ registry'.at = registry.at /\ registry'.barrier = registry.barrier
      /\ registry'.moved BY <1>1,<1>2 DEF Binding
<1>5. Attempts' /\ ResolvedStay BY <1>1,<1>3, SameAttempts
<1>6. mail' \in SUBSET Message /\ NewMail /\ SourceMail BY <1>1, MailShrinks
<1>7. CallsTrue' BY <1>1,<1>6, NoCurrent, CallsNone
<1>8. QueueTrue'
 <2>1. registry.at = NoCall /\ QueueTrue BY <1>1, CallIs DEF CallOf, IInv
 <2>2. CallOf(registry.at)' /\ registry'.at.step = "idle" BY <1>4,<2>1, NoCallIs
 <2> QED BY <1>1,<1>4,<2>2 DEF QueueTrue
<1>9. CallKept BY <1>4, SameCall
<1> QED BY <1>1,<1>2,<1>4,<1>5,<1>6,<1>7,<1>8,<1>9, BarredStep

LEMMA ResolvesKeeps == ASSUME IInv, NEW op \in Ops, ResolveBarrier(op) PROVE IInv'
<1>1. /\ UNCHANGED <<setting, rows, source, workers, dest, drainer, consumer, reset, expired, faults, history>>
      /\ registry.at.op = 0 /\ ~registry.moved /\ registry.barrier[op] # 0
      /\ (op \in Present \/ Stored(dest, op)) /\ mail' = mail \cup {Fence(op, 0)}
      /\ registry' = [registry EXCEPT !.at = [NoCall EXCEPT !.op = op, !.step = "fence", !.moving = TRUE]]
 BY DEF ResolveBarrier
<1>2. registry \in Binding /\ faults \in 0 .. setting.faults /\ source.sequence \in Nat /\ op \in Nat /\ op # 0
 BY InvTypes, OpsFinite DEF Relayed
<1>3. PICK at : at = [NoCall EXCEPT !.op = op, !.step = "fence", !.moving = TRUE] OBVIOUS
<1>4. at \in Call /\ at.op = op /\ at.step = "fence" /\ at.moving /\ at.reply = "none" /\ at.fence = "none"
      /\ ~at.head BY <1>3, NoCallIs DEF Call, NoCall
<1>5. /\ registry' \in Binding /\ registry'.at = at /\ registry'.moved = registry.moved
      /\ registry'.barrier = registry.barrier BY <1>1,<1>2,<1>3,<1>4 DEF Binding
<1>6. Steady BY <1>1, SteadyQuiet
<1>7. Attempts' /\ ResolvedStay BY <1>1,<1>6, SameAttempts
<1>8. setting.shared /\ op <= source.sequence
 <2>1. QueueTrue /\ RowsTrue /\ RecordOf(op) /\ Known BY DEF IInv, RecordsTrue, Facts
 <2>2. Placed(op, rows[op]) BY <2>1 DEF RowsTrue
 <2>3. CASE op \in Present
  <3>1. rows[op].state # "none" BY <2>3 DEF Present
  <3>2. ~(op > source.sequence) BY <2>2,<3>1 DEF Placed
  <3> QED BY <1>1,<1>2,<2>1,<3>2 DEF QueueTrue
 <2>4. CASE Stored(dest, op) BY <1>1,<1>2,<2>1,<2>4 DEF Stored, RecordOf, Known, QueueTrue
 <2> QED BY <1>1,<2>3,<2>4
<1>9. mail' \in SUBSET Message /\ NewMail BY <1>1,<1>6,<1>8, 0 \in Nat, FenceSent
<1>10. CallsTrue'
 <2>1. PICK f : f = Fence(op, 0) OBVIOUS
 <2>2. f.op = op /\ f.kind = "fence" /\ f.call = registry.barrier[op] BY <1>6,<1>8,<2>1, 0 \in Nat, FenceIs
 <2>3. AwaitedBy(f, registry.at)' BY <1>4,<1>5,<2>2 DEF AwaitedBy
 <2>4. \A m \in mail : ~Current(m) BY <1>1, NoCurrent
 <2> QED BY <1>1,<2>1,<2>3,<2>4, CallSent
<1>11. CallOf(at)'
 <2>1. Truth(op, "none")' BY DEF Truth
 <2> QED BY <1>1,<1>2,<1>4,<1>8,<2>1 DEF CallOf
<1>12. QueueTrue'
 <2>1. QueueTrue /\ CallOf(registry.at)' BY <1>5,<1>11 DEF IInv
 <2> QED BY <1>1,<1>5,<2>1 DEF QueueTrue
<1>13. CallKept BY <1>4,<1>5 DEF CallKept
<1> QED BY <1>1,<1>2,<1>5,<1>7,<1>9,<1>10,<1>12,<1>13, BarredStep

LEMMA FencesKeeps == ASSUME IInv, RegistryFences PROVE IInv'
<1>1. /\ UNCHANGED <<setting, rows, source, mail, dest, drainer, consumer, reset, expired, faults, history>>
      /\ registry.at.step = "fence" /\ registry.at.fence # "none" BY DEF RegistryFences
<1>2. PICK at \in Call : at = registry.at BY CallIs
<1>3. PICK op \in Ops : op = at.op BY <1>1,<1>2, CallIs
<1>4. CallOf(at) /\ ~registry.moved /\ op # 0 /\ at.reply \in Answers /\ registry \in Binding
 BY <1>1,<1>2, InvTypes, CallIs, OpsFinite DEF Call
<1>5. /\ setting.shared /\ op <= source.sequence /\ (at.head => Ahead(op))
      /\ Truth(op, at.reply) /\ Truth(op, at.fence) /\ at.fence \in {"appended", "gap", "fenced"}
      /\ at.fence = "fenced" => registry.barrier[op] \in dest.fences[op] BY <1>1,<1>2,<1>3,<1>4 DEF CallOf
<1>6. op \in dest.receipts \/ op \in expired \/ registry.barrier[op] \in dest.fences[op] BY <1>4,<1>5, AnswerFrees
<1>7. \A m \in mail : ~Current(m) BY <1>1, NoCurrent
<1>8. CASE at.reply = "none" /\ at.fence = "fenced" /\ ~at.moving
 <2>1. registry' = [registry EXCEPT !.barrier[op] = 0, !.at.step = "decide", !.at.fence = "none"]
       /\ UNCHANGED workers BY <1>2,<1>3,<1>4,<1>8 DEF RegistryFences, Binding
 <2>2. PICK new : new = [at EXCEPT !.step = "decide", !.fence = "none"] OBVIOUS
 <2>3. new \in Call /\ new.op = op /\ new.head = at.head /\ new.reply = "none" /\ new.step = "decide"
       /\ new.fence = "none" /\ ~new.moving BY <1>3,<1>8,<2>2 DEF Call, Answers
 <2>4. registry' = [registry EXCEPT !.barrier[op] = 0, !.at = new] BY <1>2,<1>4,<2>1,<2>2 DEF Binding
 <2>5. /\ registry' \in Binding /\ registry'.at = new /\ registry'.moved = registry.moved
       /\ registry'.barrier = [registry.barrier EXCEPT ![op] = 0] BY <1>4,<2>3,<2>4 DEF Binding
 <2>6. Steady BY <1>1, SteadyQuiet
 <2>7. Attempts' /\ ResolvedStay BY <1>1,<2>1,<2>6, SameAttempts
 <2>8. registry'.barrier[op] = 0 /\ \A o \in Ops : registry'.barrier[o] \in {registry.barrier[o], 0}
  BY <1>4,<2>5 DEF Binding
 <2>9. CallOf(new)'
  <3>1. at.head => Ahead(op)' BY <1>5,<2>6, AheadStays DEF Steady
  <3>2. Truth(op, "none")' BY DEF Truth
  <3> QED BY <1>1,<1>4,<1>5,<2>3,<2>8,<3>1,<3>2 DEF CallOf
 <2>10. QueueTrue'
  <3>1. QueueTrue /\ CallOf(registry.at)' BY <2>5,<2>9 DEF IInv
  <3> QED BY <1>1,<1>4,<2>5,<2>8,<3>1 DEF QueueTrue
 <2>11. CallKept BY <1>2,<1>3,<1>8,<2>3,<2>5 DEF CallKept, Unasked
 <2> QED BY <1>1,<1>6,<1>7,<2>5,<2>7,<2>10,<2>11, FreedStep
<1>9. CASE ~(at.reply = "none" /\ at.fence = "fenced" /\ ~at.moving)
 <2>1. PICK reply : reply = IF at.reply # "none" THEN at.reply ELSE at.fence OBVIOUS
 <2>2. registry' = [registry EXCEPT !.barrier[op] = 0, !.at = NoCall] /\ workers' = Reply(op, at.try, reply)
  BY <1>2,<1>3,<1>4,<1>9,<2>1 DEF RegistryFences, Binding
 <2>3. reply \in Answers /\ Truth(op, reply)
  <3>1. at.fence \in Answers BY <1>5 DEF Answers
  <3> QED BY <1>4,<1>5,<2>1,<3>1
 <2> QED BY <1>1,<1>2,<1>3,<1>4,<1>6,<1>7,<2>2,<2>3, FreeEnds
<1> QED BY <1>8,<1>9

-----------------------------------------------------------------------------
(* What the stream records                                                  *)

LEMMA LoggedOf ==
  ASSUME NEW log \in Seq(Ops), NEW op \in Ops
  PROVE  /\ log \o <<op>> \in Seq(Ops) /\ ToSet(log \o <<op>>) = ToSet(log) \cup {op}
         /\ ToSet(log) \subseteq Ops
         /\ (Increasing(log) /\ \A o \in ToSet(log) : o < op) => Increasing(log \o <<op>>)
<1>1. PICK s : s = log \o <<op>> OBVIOUS
<1>2. s \in Seq(Ops) /\ Len(s) = Len(log) + 1 /\ Len(log) \in Nat /\ s[Len(log) + 1] = op
      /\ \A i \in 1 .. Len(log) : s[i] = log[i] BY <1>1
<1>3. ToSet(log) = {log[i] : i \in 1 .. Len(log)} /\ ToSet(s) = {s[i] : i \in 1 .. Len(log) + 1}
 <2>1. DOMAIN log = 1 .. Len(log) /\ DOMAIN s = 1 .. Len(log) + 1 BY <1>2
 <2> QED BY <2>1 DEF ToSet
<1>4. 1 .. Len(log) + 1 = (1 .. Len(log)) \cup {Len(log) + 1} BY <1>2
<1>5. ToSet(s) = ToSet(log) \cup {op} BY <1>2,<1>3,<1>4
<1>6. ToSet(log) \subseteq Ops BY <1>3
<1>7. ASSUME Increasing(log), \A o \in ToSet(log) : o < op PROVE Increasing(s)
 <2> SUFFICES ASSUME NEW i \in 1 .. Len(s) - 1 PROVE s[i] < s[i + 1] BY DEF Increasing
 <2>1. CASE i = Len(log)
  <3>1. s[i] = log[i] /\ s[i + 1] = op /\ log[i] \in ToSet(log) BY <1>2,<1>3,<2>1
  <3> QED BY <3>1,<1>7
 <2>2. CASE i # Len(log)
  <3>1. i \in 1 .. Len(log) - 1 BY <1>2,<2>2
  <3>2. s[i] = log[i] /\ s[i + 1] = log[i + 1] BY <1>2,<3>1
  <3> QED BY <3>1,<3>2,<1>7 DEF Increasing
 <2> QED BY <2>1,<2>2
<1> QED BY <1>1,<1>2,<1>5,<1>6,<1>7

Fresh(d) == {op \in Ops : d.rec[op] = "appended" /\ op \in d.kept \ dest.kept}

Overwritten(d) == {op \in Ops : dest.rec[op] = "appended" /\ d.rec[op] # "appended"}

LEMMA RecordsIs ==
  ASSUME IInv, NEW d \in Destination, Records(d), NEW s \in Seq(Ops), s = SetToSeq(Fresh(d))
  PROVE  /\ dest' = d /\ consumer' \in {"off", "checked", "on"} /\ history' \in Past
         /\ history'.log = history.log \o s
         /\ history'.gapped = history.gapped \cup {op \in Ops : d.rec[op] = "gap"}
         /\ history'.acked = history.acked /\ history'.dropped = history.dropped
         /\ history'.lost = history.lost \cup ((dest.kept \cap expired) \ d.kept)
         /\ history'.strays = history.strays \cup (IF registry.moved THEN Fresh(d) ELSE {})
         /\ history'.overwritten = history.overwritten \cup Overwritten(d)
<1>1. history \in Past /\ consumer \in {"off", "checked", "on"} /\ dest \in Destination BY InvTypes
<1>2. dest' = d /\ consumer' \in {"off", "checked", "on"} BY <1>1 DEF Records
<1>3. PICK log \in Seq(Ops) : log = history.log \o s
 <2>1. history.log \in Seq(Ops) BY <1>1 DEF Past
 <2>2. history.log \o s \in Seq(Ops) BY <2>1, ConcatProperties
 <2> QED BY <2>2
<1>4. PICK G \in SUBSET Ops : G = history.gapped \cup {op \in Ops : d.rec[op] = "gap"} BY <1>1 DEF Past
<1>5. PICK L \in SUBSET Ops : L = history.lost \cup ((dest.kept \cap expired) \ d.kept)
 BY <1>1 DEF Past, Destination
<1>6. PICK Z \in SUBSET Ops : Z = history.strays \cup (IF registry.moved THEN Fresh(d) ELSE {})
 BY <1>1 DEF Past, Fresh
<1>7. PICK W \in SUBSET Ops : W = history.overwritten \cup Overwritten(d) BY <1>1 DEF Past, Overwritten
<1>8. history' = [history EXCEPT !.log = log, !.gapped = G, !.lost = L, !.strays = Z, !.overwritten = W]
 BY <1>3,<1>4,<1>5,<1>6,<1>7 DEF Records, Fresh, Overwritten
<1> QED BY <1>1,<1>2,<1>3,<1>4,<1>5,<1>6,<1>7,<1>8 DEF Past

\* What a change of the stream brings about.
StreamMoved ==
  /\ dest' \in Destination /\ consumer' \in {"off", "checked", "on"} /\ history' \in Past
  /\ Onward /\ dest'.checkpoint = dest.checkpoint
  /\ dest.receipts \subseteq dest'.receipts
  /\ \A op \in Ops : dest.fences[op] \subseteq dest'.fences[op]
  /\ RecordsTrue' /\ ResetTrue' /\ Facts'

\* Records of a stream that takes nothing: events that are old end, operations that were
\* not decided are gaps.
LEMMA NothingNew ==
  ASSUME IInv, UNCHANGED <<setting, expired, source, reset>>, ResolvedStay,
         NewMail, CallKept, registry.moved => registry'.moved,
         NEW d \in Destination, Records(d),
         d.kept \subseteq dest.kept, dest.kept \ d.kept \subseteq expired,
         dest.gap \/ d.kept # dest.kept => d.gap,
         d.reset = dest.reset, d.checkpoint = dest.checkpoint, d.receipts = dest.receipts,
         \A op \in Ops : /\ dest.fences[op] \subseteq d.fences[op]
                         /\ \/ d.rec[op] = dest.rec[op] /\ (op \in d.noted => op \in dest.noted)
                            \/ d.rec[op] = "fenced"
                            \/ /\ d.rec[op] = "gap" /\ d.gap /\ ~Closed(op)
                               /\ (op \in expired \/ registry.moved) /\ op <= source.sequence
  PROVE  StreamMoved
<1>1. dest \in Destination /\ history \in Past /\ source.sequence \in Nat /\ expired \subseteq Ops
 BY InvTypes DEF Relayed
<1>2. Types /\ RecordsTrue /\ ResetTrue /\ Facts BY DEF IInv
<1>3. Fresh(d) = {} BY DEF Fresh
<1>4. <<>> \in Seq(Ops) /\ <<>> = SetToSeq(Fresh(d)) BY <1>3, SequenceOfNone
<1>5. /\ dest' = d /\ consumer' \in {"off", "checked", "on"} /\ history' \in Past
      /\ history'.log = history.log \o <<>>
      /\ history'.gapped = history.gapped \cup {op \in Ops : d.rec[op] = "gap"}
      /\ history'.acked = history.acked /\ history'.dropped = history.dropped
      /\ history'.lost = history.lost \cup ((dest.kept \cap expired) \ d.kept)
      /\ history'.strays = history.strays \cup (IF registry.moved THEN Fresh(d) ELSE {})
      /\ history'.overwritten = history.overwritten \cup Overwritten(d) BY <1>4, RecordsIs
<1>0. ClosedStay BY <1>5, ClosedStays
<1>6. history'.log = history.log /\ history'.strays = history.strays BY <1>1,<1>3,<1>5 DEF Past
<1>7. Logged' = Logged BY <1>6 DEF Logged
<1>8. ASSUME NEW op \in Ops, op \in history'.gapped, op \notin history.gapped
      PROVE  /\ d.rec[op] = "gap" /\ d.gap /\ ~Closed(op) /\ (op \in expired \/ registry.moved)
             /\ op <= source.sequence /\ (op \in Logged => op \in history'.overwritten)
 <2>1. d.rec[op] = "gap" /\ RecordOf(op) BY <1>2,<1>5,<1>8 DEF RecordsTrue
 <2>2. d.rec[op] # dest.rec[op] BY <1>8,<2>1 DEF RecordOf
 <2>3. d.gap /\ ~Closed(op) /\ (op \in expired \/ registry.moved) /\ op <= source.sequence BY <2>1,<2>2
 <2> QED BY <1>5,<2>1,<2>3 DEF RecordOf, Overwritten
<1>9. history.gapped \subseteq history'.gapped /\ history'.gapped \subseteq Ops BY <1>5 DEF Past
<1>10. history'.lost \ history.lost \subseteq dest.kept /\ history.lost \subseteq history'.lost
       /\ (history'.lost # history.lost => d.gap) BY <1>5
<1>11. dest.kept \subseteq Logged /\ dest.kept \subseteq d.kept \cup history'.lost
 BY <1>1,<1>2,<1>5 DEF RecordsTrue, RecordOf, Destination
<1>12. Onward BY <1>1,<1>5,<1>7,<1>9 DEF Onward, Ended
<1>13. \A op \in Ops : dest.fences[op] \subseteq dest'.fences[op] BY <1>5
<1>14. RecordsTrue'
 <2>0. dest'.receipts = Logged' BY <1>2,<1>5,<1>7 DEF RecordsTrue
 <2> SUFFICES ASSUME NEW op \in Ops PROVE RecordOf(op)' BY <2>0 DEF RecordsTrue
 <2>1. RecordOf(op) /\ (Closed(op) => Closed(op)') /\ (Resolved(op) => Resolved(op)')
       /\ (Superseded(dest, op) => Superseded(dest, op)')
  BY <1>0,<1>2,<1>5 DEF RecordsTrue, ClosedStay, ResolvedStay, Superseded
 <2>2. op \in dest'.kept => op \in dest'.receipts BY <1>5,<2>1 DEF RecordOf
 <2>3. dest'.rec[op] = "appended" => dest.rec[op] = "appended" /\ (op \in d.noted => op \in dest.noted) BY <1>5
 <2>4. dest'.rec[op] = "gap" => op \in history'.gapped BY <1>5
 <2>5. op \in Logged' => dest'.rec[op] = "appended" \/ op \in history'.overwritten
                         \/ (op \in expired' /\ Closed(op)') BY <1>5,<1>7,<2>1 DEF RecordOf, Overwritten
 <2>6. op \in history'.gapped => op \in expired' \/ registry'.moved BY <1>8,<2>1 DEF RecordOf
 <2>7. op \in dest'.noted /\ dest'.rec[op] = "appended" => Superseded(dest, op)' \/ Resolved(op)'
  BY <1>5,<2>1,<2>3 DEF RecordOf
 <2> QED BY <1>7,<2>1,<2>2,<2>3,<2>4,<2>5,<2>6,<2>7 DEF RecordOf
<1>15. ResetTrue' BY <1>2,<1>5 DEF ResetTrue, Granted
<1>16. Known'
 <2>1. \A op \in history'.gapped : op \in 1 .. source.sequence
  <3> TAKE op \in history'.gapped
  <3>1. op \in Ops BY <1>9
  <3>2. CASE op \in history.gapped BY <3>2,<1>2 DEF Facts, Known
  <3>3. CASE op \notin history.gapped BY <3>1,<3>3,<1>1,<1>8 DEF Ops
  <3> QED BY <3>2,<3>3
 <2> QED BY <1>2,<1>7,<2>1 DEF Facts, Known
<1>17. EventsTrue'
 <2>1. EventsTrue BY <1>2 DEF Facts
 <2>2. Logged \cap history'.gapped \subseteq history'.overwritten BY <1>5,<1>8,<1>9,<2>1 DEF EventsTrue
 <2>3. history'.acked \cup history'.lost \subseteq Logged BY <1>5,<1>10,<1>11,<2>1 DEF EventsTrue
 <2>4. Logged \subseteq d.kept \cup history'.acked \cup history'.lost \cup history'.dropped
  BY <1>5,<1>10,<1>11,<2>1 DEF EventsTrue
 <2> QED BY <1>5,<1>7,<2>2,<2>3,<2>4 DEF EventsTrue
<1>18. GapDeclared'
 <2> SUFFICES ASSUME NEW op \in history'.gapped \cup history'.lost, ~d.gap PROVE op \in history.dropped
  BY <1>5 DEF GapDeclared
 <2>1. op \in history.gapped \cup history.lost /\ ~dest.gap BY <1>8,<1>9,<1>10
 <2> QED BY <1>2,<2>1 DEF Facts, GapDeclared
<1>19. NoneAfterMove' /\ ResetIsFinal' BY <1>2,<1>5,<1>6 DEF Facts, NoneAfterMove, ResetIsFinal
<1>20. InOrder'
 <2>1. Logged \cup history.gapped \cup history.dropped
         \subseteq Logged' \cup history'.gapped \cup history'.dropped BY <1>5,<1>7,<1>9
 <2> QED BY <1>2,<1>6,<1>7,<2>1 DEF Facts, InOrder, Increasing
<1>21. Facts' BY <1>16,<1>17,<1>18,<1>19,<1>20 DEF Facts
<1> QED BY <1>5,<1>12,<1>13,<1>14,<1>15,<1>21 DEF StreamMoved

\* Records of a stream that takes one more event.
LEMMA OneNew ==
  ASSUME IInv, UNCHANGED <<setting, expired, source, reset>>, ResolvedStay,
         NewMail, CallKept, registry.moved => registry'.moved,
         NEW op \in Ops, NEW d, d = [dest EXCEPT !.rec[op] = "appended", !.kept = @ \cup {op},
                                                 !.receipts = @ \cup {op}, !.noted = @ \ {op}],
         Records(d), op \notin dest.receipts, ~Superseded(dest, op), op \notin expired, Ahead(op),
         op <= source.sequence, dest.reset = 0, ~registry.moved
  PROVE  StreamMoved /\ op \in Logged'
<1>1. dest \in Destination /\ history \in Past /\ source.sequence \in Nat /\ expired \subseteq Ops
      /\ dest.kept \subseteq Ops /\ Ops \subseteq Nat /\ dest.checkpoint \in Nat
      /\ history.log \in Seq(Ops) /\ registry.moved \in BOOLEAN
 BY InvTypes, OpsFinite, CallIs DEF Relayed, Destination, Past
<1>2. Types /\ RecordsTrue /\ ResetTrue /\ Facts /\ RecordOf(op) BY DEF IInv, RecordsTrue
<1>3. op \notin dest.kept /\ op \notin Logged /\ op \notin history.gapped BY <1>2 DEF RecordOf, RecordsTrue
<1>4. /\ d \in Destination /\ d.rec[op] = "appended" /\ d.kept = dest.kept \cup {op}
      /\ \A o \in Ops \ {op} : d.rec[o] = dest.rec[o]
      /\ d.fences = dest.fences /\ d.noted = dest.noted \ {op} /\ d.gap = dest.gap
      /\ d.receipts = dest.receipts \cup {op}
      /\ d.reset = dest.reset /\ d.checkpoint = dest.checkpoint BY <1>1 DEF Destination
<1>5. Fresh(d) = {op} BY <1>3,<1>4 DEF Fresh
<1>6. <<op>> \in Seq(Ops) /\ <<op>> = SetToSeq(Fresh(d))
 <2>1. <<op>> \in Seq(Ops) OBVIOUS
 <2> QED BY <2>1,<1>5, SequenceOfOne
<1>7. /\ dest' = d /\ consumer' \in {"off", "checked", "on"} /\ history' \in Past
      /\ history'.log = history.log \o <<op>>
      /\ history'.gapped = history.gapped \cup {o \in Ops : d.rec[o] = "gap"}
      /\ history'.acked = history.acked /\ history'.dropped = history.dropped
      /\ history'.lost = history.lost \cup ((dest.kept \cap expired) \ d.kept)
      /\ history'.strays = history.strays \cup (IF registry.moved THEN Fresh(d) ELSE {})
      /\ history'.overwritten = history.overwritten \cup Overwritten(d) BY <1>4,<1>6, RecordsIs
<1>0. ClosedStay BY <1>4,<1>7, ClosedStays
<1>8. history'.lost = history.lost /\ history'.strays = history.strays /\ history'.overwritten = history.overwritten
 <2>1. Overwritten(d) = {} BY <1>4 DEF Overwritten
 <2> QED BY <1>4,<1>7,<2>1
<1>9. history'.gapped = history.gapped
 <2>1. \A o \in Ops : d.rec[o] = "gap" => o \in history.gapped BY <1>2,<1>4 DEF RecordsTrue, RecordOf
 <2> QED BY <1>7,<2>1
<1>10. Logged' = Logged \cup {op} /\ Logged \subseteq Ops BY <1>1,<1>7, LoggedOf DEF Logged
<1>11. op \notin history.dropped
 <2>1. ~(op <= dest.checkpoint) BY <1>1 DEF Superseded
 <2> QED BY <1>2,<2>1 DEF ResetTrue
<1>12. \A o \in Logged : o < op
 <2> SUFFICES ASSUME NEW o \in Logged, ~(o < op) PROVE FALSE OBVIOUS
 <2>1. o \in Nat /\ op \in Nat /\ op >= 1 /\ o # op BY <1>1,<1>3,<1>10, OpsFinite DEF Ops
 <2>2. op \in 1 .. o - 1 BY <2>1
 <2>3. op \in Logged \cup history.gapped \cup history.dropped BY <1>2,<2>2 DEF Facts, InOrder
 <2> QED BY <1>3,<1>11,<2>3
<1>13. Onward BY <1>1,<1>3,<1>4,<1>7,<1>8,<1>9,<1>10 DEF Onward, Ended
<1>14. dest.receipts \subseteq dest'.receipts /\ \A o \in Ops : dest.fences[o] \subseteq dest'.fences[o]
 BY <1>4,<1>7
<1>15. RecordsTrue'
 <2>0. dest'.receipts = Logged' BY <1>2,<1>4,<1>7,<1>10 DEF RecordsTrue
 <2> SUFFICES ASSUME NEW o \in Ops PROVE RecordOf(o)' BY <2>0 DEF RecordsTrue
 <2>1. RecordOf(o) /\ (Closed(o) => Closed(o)') /\ (Resolved(o) => Resolved(o)')
       /\ (Superseded(dest, o) => Superseded(dest, o)')
  BY <1>0,<1>2,<1>4,<1>7 DEF RecordsTrue, ClosedStay, ResolvedStay, Superseded
 <2>2. CASE o = op BY <1>3,<1>4,<1>7,<1>9,<1>10,<2>1,<2>2 DEF RecordOf
 <2>3. CASE o # op
  <3>1. /\ o \in dest'.kept => o \in dest.kept
        /\ dest'.rec[o] = dest.rec[o] /\ (o \in dest'.noted => o \in dest.noted)
        /\ (o \in dest'.receipts <=> o \in dest.receipts)
        /\ o \in Logged' => o \in Logged BY <1>4,<1>7,<1>10,<2>3
  <3> QED BY <1>8,<1>9,<1>10,<2>1,<3>1 DEF RecordOf
 <2> QED BY <2>2,<2>3
<1>16. ~Granted
 <2>1. Granted => reset.id # 0 /\ dest.reset = reset.id BY <1>2 DEF ResetTrue, Granted
 <2> QED BY <2>1
<1>17. ResetTrue' BY <1>2,<1>4,<1>7,<1>16 DEF ResetTrue, Granted
<1>18. Known'
 <2>1. op \in 1 .. source.sequence BY <1>1 DEF Ops
 <2> QED BY <1>2,<1>9,<1>10,<2>1 DEF Facts, Known
<1>19. EventsTrue'
 <2>1. EventsTrue BY <1>2 DEF Facts
 <2> QED BY <1>3,<1>4,<1>7,<1>8,<1>9,<1>10,<2>1 DEF EventsTrue
<1>20. GapDeclared' /\ NoneAfterMove' /\ ResetIsFinal'
 BY <1>2,<1>4,<1>7,<1>8,<1>9,<1>11 DEF Facts, GapDeclared, NoneAfterMove, ResetIsFinal
<1>21. InOrder'
 <2>1. Increasing(history.log) /\ \A o \in Logged : 1 .. o - 1 \subseteq Decided
  BY <1>2 DEF Facts, InOrder, Decided
 <2>2. Increasing(history'.log) BY <1>1,<1>7,<1>12,<2>1, LoggedOf DEF Logged
 <2>3. 1 .. op - 1 \subseteq Decided
  <3> SUFFICES ASSUME NEW o \in 1 .. op - 1 PROVE o \in Decided OBVIOUS
  <3>1. o \in Ops /\ o < op BY <1>1, OperationsAssumption DEF Ops
  <3> QED BY <3>1 DEF Ahead
 <2>4. Decided \subseteq Logged' \cup history'.gapped \cup history'.dropped BY <1>7,<1>9,<1>10 DEF Decided
 <2>5. \A o \in Logged' : 1 .. o - 1 \subseteq Logged' \cup history'.gapped \cup history'.dropped
  <3> TAKE o \in Logged'
  <3>1. o \in Logged \/ o = op BY <1>10
  <3>2. 1 .. o - 1 \subseteq Decided BY <2>1,<2>3,<3>1
  <3> QED BY <2>4,<3>2
 <2> QED BY <2>2,<2>5 DEF InOrder
<1>22. Facts' BY <1>18,<1>19,<1>20,<1>21 DEF Facts
<1> QED BY <1>4,<1>7,<1>10,<1>13,<1>14,<1>15,<1>17,<1>22 DEF StreamMoved

\* Retention.
LEMMA PruneIs ==
  ASSUME IInv
  PROVE  /\ pruneExpired(dest) \in Destination
         /\ pruneExpired(dest).kept = dest.kept \ expired
         /\ dest.gap \/ pruneExpired(dest).kept # dest.kept <=> pruneExpired(dest).gap
         /\ pruneExpired(dest).reset = dest.reset /\ pruneExpired(dest).checkpoint = dest.checkpoint
         /\ pruneExpired(dest).noted = dest.noted /\ pruneExpired(dest).fences = dest.fences
         /\ pruneExpired(dest).rec = dest.rec /\ pruneExpired(dest).receipts = dest.receipts
         /\ ~pruneExpired(dest).gap => pruneExpired(dest) = dest
<1>1. dest \in Destination /\ dest.kept \subseteq Ops /\ dest.gap \in BOOLEAN BY InvTypes DEF Destination
<1>2. PICK K \in SUBSET Ops, g \in BOOLEAN :
        K = dest.kept \ Aged(dest) /\ g = (dest.gap \/ Aged(dest) # {}) BY <1>1
<1>3. PICK p : p = [dest EXCEPT !.kept = K, !.gap = g] OBVIOUS
<1>4. p = pruneExpired(dest) BY <1>2,<1>3 DEF pruneExpired
<1>5. /\ p \in Destination /\ p.kept = K /\ p.gap = g /\ p.reset = dest.reset
      /\ p.checkpoint = dest.checkpoint /\ p.noted = dest.noted /\ p.fences = dest.fences
      /\ p.rec = dest.rec /\ p.receipts = dest.receipts BY <1>1,<1>3 DEF Destination
<1>6. K = dest.kept \ expired /\ (g <=> dest.gap \/ K # dest.kept) BY <1>2 DEF Aged
<1>7. ~g => p = dest BY <1>1,<1>3,<1>6 DEF Destination
<1> QED BY <1>4,<1>5,<1>6,<1>7

LEMMA PruneMoves ==
  ASSUME IInv, UNCHANGED <<setting, expired, source, reset>>, ResolvedStay,
         NewMail, CallKept, registry.moved => registry'.moved, Records(pruneExpired(dest))
  PROVE  StreamMoved
<1>1. PICK d \in Destination :
        /\ d = pruneExpired(dest) /\ d.kept = dest.kept \ expired
        /\ dest.gap \/ d.kept # dest.kept <=> d.gap
        /\ d.reset = dest.reset /\ d.checkpoint = dest.checkpoint /\ d.noted = dest.noted
        /\ d.fences = dest.fences /\ d.rec = dest.rec /\ d.receipts = dest.receipts BY PruneIs
<1>2. Records(d) /\ d.kept \subseteq dest.kept /\ dest.kept \ d.kept \subseteq expired BY <1>1
<1> QED BY <1>1,<1>2, NothingNew

LEMMA AlarmKeeps == ASSUME IInv, streamAlarm PROVE IInv'
<1>1. UNCHANGED <<setting, rows, source, workers, mail, registry, drainer, reset, expired, faults>>
      /\ Records(pruneExpired(dest)) BY DEF streamAlarm
<1>2. ResolvedStay BY <1>1 DEF ResolvedStay, Resolved
<1>0. NewMail /\ CallKept BY <1>1, MailShrinks, SameCall
<1>3. StreamMoved BY <1>0,<1>1,<1>2, PruneMoves
<1>4. drainer' \in Drain /\ reset' \in Grant /\ expired' \subseteq Ops /\ faults' \in 0 .. setting.faults
 BY <1>1, InvTypes
<1>5. NoneForgotten /\ mail' \subseteq mail BY <1>1,<1>3 DEF StreamMoved, NoneForgotten
<1> QED BY <1>1,<1>3,<1>4,<1>5, DestStep DEF StreamMoved

\* A step in which the stream moves.
LEMMA MovedStep ==
  ASSUME IInv, StreamMoved, Attempts',
         UNCHANGED <<setting, source, drainer, reset, expired>>, faults' \in 0 .. setting.faults,
         mail' \in SUBSET Message, registry' \in Binding, MessagesTrue', CallsTrue', QueueTrue'
  PROVE  IInv'
<1>1. Types BY DEF IInv
<1>2. Types' BY <1>1 DEF Types, SourceTypes, StreamTypes, OtherTypes, Attempts, StreamMoved
<1> QED BY <1>2 DEF IInv, Attempts, StreamMoved

LEMMA MovedMessages ==
  ASSUME IInv, StreamMoved, UNCHANGED <<source, expired>>, NewMail, registry'.barrier = registry.barrier
  PROVE  MessagesTrue' /\ NoneForgotten
<1>1. Types /\ MessagesTrue /\ source'.sequence \in Nat BY DEF IInv, Types, SourceTypes, Relayed
<1>2. Onward /\ NoneForgotten BY DEF StreamMoved, NoneForgotten
<1> QED BY <1>1,<1>2, MessagesStay

LEMMA OutcomeKeeps == ASSUME IInv, NEW op \in Ops, outcome(op) PROVE IInv'
<1>1. UNCHANGED <<setting, source, mail, registry, drainer, reset, expired>>
      /\ workers[op].step = "outcome" /\ Records(pruneExpired(dest)) BY DEF outcome
<1>2. \/ /\ dest.rec[op] = "gap" \/ op \notin pruneExpired(dest).kept
         /\ Steps(op, "cleanup") /\ UNCHANGED <<rows, faults>>
      \/ Ends(rows, op, "ok", FALSE) /\ UNCHANGED faults
      \/ Ends(rows, op, "uncertain", FALSE) /\ Fault 
 BY PruneIs DEF outcome, terminalDestinationOutcome, Unanswered
<1>3. rows \in [Ops -> Row] /\ workers \in [Ops -> Worker] /\ setting \in Settings
      /\ faults \in 0 .. setting.faults /\ mail \in SUBSET Message /\ registry \in Binding BY InvTypes
<1>4. ResolvedStay
 <2>1. CASE UNCHANGED rows BY <2>1 DEF ResolvedStay, Resolved
 <2>2. CASE \E kind : Ends(rows, op, kind, FALSE)
  <3>1. PICK kind : Ends(rows, op, kind, FALSE) BY <2>2
  <3>2. \A o \in Ops : Alike(finish(rows, op, kind, FALSE)[o], rows[o]) BY <1>3, FinishIs
  <3> QED BY <3>1,<3>2 DEF Ends, ResolvedStay, Resolved, Alike
 <2> QED BY <1>2,<2>1,<2>2
<1>0. NewMail /\ SourceMail /\ CallKept BY <1>1, MailShrinks, SameCall
<1>5. StreamMoved BY <1>0,<1>1,<1>4, PruneMoves
<1>6. Steady /\ dest' = pruneExpired(dest) BY <1>1,<1>5 DEF Steady, StreamMoved, Records
<1>7. Attempts' /\ faults' \in 0 .. setting.faults
 <2>1. CASE Ends(rows, op, "ok", FALSE) /\ UNCHANGED faults BY <1>3,<1>6,<2>1, EndsHere
 <2>2. CASE Ends(rows, op, "uncertain", FALSE) /\ Fault BY <1>6,<2>2, EndsHere, FaultIs
 <2>3. CASE /\ dest.rec[op] = "gap" \/ op \notin pruneExpired(dest).kept
            /\ Steps(op, "cleanup") /\ UNCHANGED <<rows, faults>>
  <3>1. op \in Logged \cup Ended BY <1>1 DEF IInv, WorkersTrue, Learned
  <3>2. Logged' \subseteq dest'.kept \cup Ended' BY <1>5 DEF StreamMoved, Facts, EventsTrue, Ended
  <3>0. dest.rec[op] = "gap" => op \in Ended BY DEF IInv, RecordsTrue, RecordOf, Ended
  <3>3. op \in Ended' BY <1>6,<2>3,<3>0,<3>1,<3>2 DEF Steady, Onward
  <3>4. Attempts' BY <1>1,<1>6,<2>3,<3>3, StepsStep DEF Cleaning
  <3> QED BY <1>3,<2>3,<3>4
 <2> QED BY <1>2,<2>1,<2>2,<2>3
<1>8. MessagesTrue' /\ NoneForgotten BY <1>0,<1>1,<1>5, MovedMessages
<1>10. CallsTrue' BY <1>0,<1>1, CallsStay DEF IInv
<1>9. QueueTrue'
 <2>1. Types /\ QueueTrue /\ source'.sequence \in Nat BY <1>1 DEF IInv, Types, SourceTypes, Relayed
 <2>2. Onward BY <1>5 DEF StreamMoved
 <2> QED BY <1>1,<1>8,<2>1,<2>2, QueueStays
<1> QED BY <1>1,<1>3,<1>5,<1>7,<1>8,<1>9,<1>10, MovedStep

\* The gap of an operation that is late, or whose binding moved.
LEMMA GapIs ==
  ASSUME IInv, UNCHANGED <<setting, expired, source, reset>>, ResolvedStay,
         NewMail, CallKept, registry.moved => registry'.moved, NEW op \in Ops, Records(Gapped(dest, op)),
         dest.rec[op] = "gap" \/ ~Closed(op), op \in expired \/ registry.moved, op <= source.sequence
  PROVE  StreamMoved /\ op \in history'.gapped
<1>1. dest \in Destination BY InvTypes
<1>2. PICK d : d = Gapped(dest, op) OBVIOUS
<1>3. /\ d \in Destination /\ d.rec[op] = "gap" /\ d.gap = TRUE
      /\ \A o \in Ops \ {op} : d.rec[o] = dest.rec[o]
      /\ d.kept = dest.kept /\ d.reset = dest.reset /\ d.checkpoint = dest.checkpoint
      /\ d.noted = dest.noted \ {op} /\ d.fences = dest.fences /\ d.receipts = dest.receipts
 BY <1>1,<1>2 DEF Gapped, Destination
<1>4. Records(d) /\ d.kept \subseteq dest.kept /\ dest.kept \ d.kept \subseteq expired BY <1>2,<1>3
<1>5. \A o \in Ops : /\ dest.fences[o] \subseteq d.fences[o]
                     /\ \/ d.rec[o] = dest.rec[o] /\ (o \in d.noted => o \in dest.noted)
                        \/ /\ d.rec[o] = "gap" /\ d.gap /\ ~Closed(o)
                           /\ (o \in expired \/ registry.moved) /\ o <= source.sequence BY <1>3
<1>6. StreamMoved BY <1>3,<1>4,<1>5, NothingNew
<1>7. dest' = d /\ RecordsTrue' BY <1>4,<1>6 DEF Records, StreamMoved
<1> QED BY <1>3,<1>6,<1>7 DEF RecordsTrue, RecordOf

\* The stream's answer to a request, and what it does.
LEMMA AppendIs ==
  ASSUME IInv, UNCHANGED <<setting, expired, source, reset>>, ResolvedStay,
         NewMail, CallKept, registry.moved => registry'.moved,
         NEW m \in mail, m.to = "stream", NEW stale \in BOOLEAN,
         NEW d, NEW reply, combinedAppend(dest, m, stale) = [d |-> d, reply |-> reply], Records(d)
  PROVE  /\ StreamMoved /\ reply \in Answers \ {"terminal"} /\ Truth(m.op, reply)'
         /\ m.kind = "fence" => /\ reply \in {"appended", "gap", "fenced"}
                                /\ reply = "fenced" => m.call \in dest'.fences[m.op]
<1>1. PICK op \in Ops : op = m.op BY InvTypes DEF Message
<1>2. dest \in Destination /\ source.sequence \in Nat /\ m.call \in Nat /\ m.kind \in {"append", "fence"}
 BY InvTypes DEF Relayed, Message
<1>3. RecordsTrue /\ RecordOf(op) /\ MessageOf(m) /\ Guarded(m) /\ op <= source.sequence
 BY <1>1 DEF IInv, RecordsTrue, MessagesTrue, MessageOf
<1>4. d = combinedAppend(dest, m, stale).d /\ reply = combinedAppend(dest, m, stale).reply OBVIOUS
<1>5. ASSUME d = dest PROVE StreamMoved
 <2>1. Records(dest) /\ dest.kept \subseteq dest.kept /\ dest.kept \ dest.kept \subseteq expired BY <1>5
 <2> QED BY <1>2,<2>1, NothingNew
<1>6. CASE Stored(dest, op) /\ ~stale
 <2>1. d = dest /\ reply = dest.rec[op] BY <1>1,<1>4,<1>6 DEF combinedAppend
 <2>2. StreamMoved BY <1>5,<2>1
 <2>3. reply \in {"appended", "gap"} /\ Truth(op, reply) BY <1>3,<1>6,<2>1 DEF Stored, RecordOf, Truth
 <2>4. Truth(op, reply)' BY <2>2,<2>3 DEF Truth, StreamMoved, Onward
 <2> QED BY <1>1,<2>2,<2>3,<2>4 DEF Answers
<1> DEFINE Unread == ~(Stored(dest, op) /\ ~stale)
<1>7. CASE Unread /\ m.kind = "fence"
 <2>1. d = Fenced(dest, op, m.call) /\ reply = "fenced" BY <1>1,<1>4,<1>7 DEF combinedAppend
 <2>2. PICK F \in SUBSET Nat, N \in SUBSET Ops : F = dest.fences[op] \cup {m.call} /\ N = dest.noted \cup {op}
  BY <1>2 DEF Destination
 <2>3. d = [dest EXCEPT !.rec[op] = "fenced", !.fences[op] = F, !.noted = N] BY <2>1,<2>2 DEF Fenced
 <2>4. /\ d \in Destination /\ d.rec[op] = "fenced" /\ d.fences[op] = F /\ d.noted = dest.noted \cup {op}
       /\ \A o \in Ops \ {op} : d.rec[o] = dest.rec[o] /\ d.fences[o] = dest.fences[o]
       /\ d.kept = dest.kept /\ d.gap = dest.gap /\ d.reset = dest.reset
       /\ d.checkpoint = dest.checkpoint /\ d.receipts = dest.receipts BY <1>2,<2>2,<2>3 DEF Destination
 <2>5. \A o \in Ops : /\ dest.fences[o] \subseteq d.fences[o]
                      /\ \/ d.rec[o] = dest.rec[o] /\ (o \in d.noted => o \in dest.noted)
                         \/ d.rec[o] = "fenced" BY <2>2,<2>4
 <2>6. StreamMoved BY <2>4,<2>5, NothingNew
 <2>7. dest' = d /\ m.call \in d.fences[op] BY <2>2,<2>4 DEF Records
 <2> QED BY <1>1,<2>1,<2>6,<2>7 DEF Answers, Truth
<1>8. CASE d = dest /\ reply \in {"discarded", "order"} /\ m.kind = "append" BY <1>5,<1>8 DEF Answers, Truth
<1>9. CASE Unread /\ m.kind = "append" /\ ~Superseded(dest, op) /\ op \in expired
 <2>1. d = Gapped(dest, op) /\ reply = "gap" BY <1>1,<1>4,<1>9 DEF combinedAppend
 <2>2. ~Closed(op) BY <1>1,<1>9 DEF Closed, Unasked
 <2>3. StreamMoved /\ op \in history'.gapped BY <1>3,<1>9,<2>1,<2>2, GapIs
 <2> QED BY <1>1,<1>9,<2>1,<2>3 DEF Answers, Truth
<1>10. CASE Unread /\ m.kind = "append" /\ ~Superseded(dest, op) /\ op \notin expired /\ m.head
 <2>1. PICK p : p = pruneExpired(dest) OBVIOUS
 <2>2. p.receipts = dest.receipts BY <2>1, PruneIs
 <2>3. PICK answer : answer = IF op \in dest.receipts THEN "appended" ELSE appendGuard(p, m) OBVIOUS
 <2>4. reply = answer
       /\ d = IF answer = "appended" /\ op \notin dest.receipts
              THEN [p EXCEPT !.rec[op] = "appended", !.kept = @ \cup {op},
                             !.receipts = @ \cup {op}, !.noted = @ \ {op}] ELSE p
  BY <1>1,<1>4,<1>10,<2>1,<2>2,<2>3 DEF combinedAppend, Replayed
 <2>5. CASE op \in dest.receipts
  <3>1. reply = "appended" /\ StreamMoved BY <2>1,<2>3,<2>4,<2>5, PruneMoves
  <3>2. op \in Logged' BY <1>3,<2>5,<3>1 DEF RecordsTrue, StreamMoved, Onward
  <3> QED BY <1>1,<1>10,<3>1,<3>2 DEF Answers, Truth
 <2>6. CASE answer # "appended"
  <3>1. StreamMoved BY <2>1,<2>4,<2>6, PruneMoves
  <3>2. answer \in {"needs_reset", "full", "fenced"} BY <2>3,<2>6 DEF appendGuard
  <3> QED BY <1>10,<2>4,<3>1,<3>2 DEF Answers, Truth
 <2>7. CASE answer = "appended" /\ op \notin dest.receipts
  <3>1. ~p.gap /\ p.reset = 0 /\ m.call \notin p.fences[op] BY <1>1,<2>3,<2>7 DEF appendGuard
  <3>2. p = dest BY <2>1,<3>1, PruneIs
  <3>3. d = [dest EXCEPT !.rec[op] = "appended", !.kept = @ \cup {op},
                         !.receipts = @ \cup {op}, !.noted = @ \ {op}] BY <2>4,<2>7,<3>2
  <3>4. Ahead(op) BY <1>1,<1>3,<1>10 DEF MessageOf
  <3>5. ~registry.moved
   <4>1. ~Shut(m) BY <1>1,<1>10,<2>7,<3>1,<3>2 DEF Shut
   <4>2. setting.shared => registry.barrier[op] # 0 BY <1>1,<1>3,<1>10,<4>1 DEF Guarded
   <4>3. QueueTrue BY DEF IInv
   <4> QED BY <4>2,<4>3 DEF QueueTrue
  <3>6. StreamMoved /\ op \in Logged' BY <1>3,<1>10,<2>7,<3>1,<3>2,<3>3,<3>4,<3>5, OneNew
  <3> QED BY <1>1,<1>10,<2>4,<2>7,<3>6 DEF Answers, Truth
 <2> QED BY <2>5,<2>6,<2>7
<1>11. \/ Stored(dest, op) /\ ~stale
       \/ Unread /\ m.kind = "fence"
       \/ d = dest /\ reply \in {"discarded", "order"} /\ m.kind = "append"
       \/ Unread /\ m.kind = "append" /\ ~Superseded(dest, op) /\ op \in expired
       \/ Unread /\ m.kind = "append" /\ ~Superseded(dest, op) /\ op \notin expired /\ m.head
 BY <1>1,<1>2,<1>4 DEF combinedAppend
<1> QED BY <1>6,<1>7,<1>8,<1>9,<1>10,<1>11

LEMMA AppendRecord ==
  ASSUME NEW m, NEW stale \in BOOLEAN
  PROVE  \E d, reply : combinedAppend(dest, m, stale) = [d |-> d, reply |-> reply]
<1>1. CASE Stored(dest, m.op) /\ ~stale BY <1>1 DEF combinedAppend
<1> DEFINE Unread == ~(Stored(dest, m.op) /\ ~stale)
<1>2. CASE Unread /\ m.kind = "fence" BY <1>2 DEF combinedAppend
<1>3. CASE Unread /\ m.kind # "fence" /\ Superseded(dest, m.op) BY <1>3 DEF combinedAppend
<1>4. CASE Unread /\ m.kind # "fence" /\ ~Superseded(dest, m.op) /\ m.op \in expired BY <1>4 DEF combinedAppend
<1>5. CASE Unread /\ m.kind # "fence" /\ ~Superseded(dest, m.op) /\ m.op \notin expired /\ ~m.head
 BY <1>5 DEF combinedAppend
<1>6. CASE Unread /\ m.kind # "fence" /\ ~Superseded(dest, m.op) /\ m.op \notin expired /\ m.head
 BY <1>6 DEF combinedAppend
<1> QED BY <1>1,<1>2,<1>3,<1>4,<1>5,<1>6

\* The messages left by a request that was handled.
LEMMA MailAfter ==
  ASSUME IInv, UNCHANGED setting, NEW m \in mail, NEW d,
         mail' = {[n EXCEPT !.early = @ \/ (n.op = m.op /\ n.to = "stream" /\ ~Stored(d, m.op))] :
                    n \in mail \ {m}}
  PROVE  /\ mail' \in SUBSET Message /\ NewMail
         /\ Current(m) => \A n \in mail' : ~Current(n)
         /\ UNCHANGED registry => CallsTrue'
<1> DEFINE New(n) == [n EXCEPT !.early = @ \/ (n.op = m.op /\ n.to = "stream" /\ ~Stored(d, m.op))]
<1>1. \A n \in mail : New(n) \in Message /\ Copied(New(n), n) /\ New(n).late = n.late
 <2> TAKE n \in mail
 <2>1. n \in Message BY InvTypes
 <2>2. PICK early \in BOOLEAN : early = (n.early \/ (n.op = m.op /\ n.to = "stream" /\ ~Stored(d, m.op))) OBVIOUS
 <2>3. New(n) = [n EXCEPT !.early = early] BY <2>1,<2>2 DEF Message
 <2> QED BY <2>1,<2>3 DEF Message, Copied
<1>2. \A n \in mail' : \E o \in mail \ {m} : n = New(o) OBVIOUS
<1> HIDE DEF New
<1>3. mail' \in SUBSET Message /\ NewMail BY <1>1,<1>2 DEF NewMail
<1>4. \A o \in mail : Current(New(o)) => Current(o) BY <1>1 DEF Current, Copied
<1>5. CallsTrue BY DEF IInv
<1>6. Current(m) => \A n \in mail' : ~Current(n) BY <1>2,<1>4,<1>5 DEF CallsTrue
<1>7. ASSUME UNCHANGED registry PROVE CallsTrue'
 <2> SUFFICES ASSUME NEW n \in mail', Current(n)
              PROVE  AwaitedBy(n, registry.at) /\ \A k \in mail' : Current(k) => k = n
  BY <1>7 DEF CallsTrue, Current, AwaitedBy
 <2>1. PICK o \in mail \ {m} : n = New(o) BY <1>2
 <2>2. Current(o) /\ Copied(n, o) BY <1>1,<1>4,<2>1
 <2>3. AwaitedBy(o, registry.at) BY <1>5,<2>2 DEF CallsTrue
 <2>4. AwaitedBy(n, registry.at) BY <2>2,<2>3 DEF AwaitedBy, Copied
 <2>5. ASSUME NEW k \in mail', Current(k) PROVE k = n
  <3>1. PICK q \in mail \ {m} : k = New(q) BY <1>2
  <3>2. Current(q) BY <1>4,<2>5,<3>1
  <3>3. q = o BY <1>5,<2>2,<3>2 DEF CallsTrue
  <3> QED BY <2>1,<3>1,<3>3
 <2> QED BY <2>4,<2>5
<1> QED BY <1>3,<1>6,<1>7

LEMMA AppendKeeps == ASSUME IInv, NEW m \in mail, append(m) PROVE IInv'
<1>1. UNCHANGED <<setting, rows, source, drainer, reset, expired, faults>> /\ m.to = "stream" BY DEF append
<1>2. m \in Message /\ m.early \in BOOLEAN BY InvTypes DEF Message
<1>3. PICK op \in Ops : op = m.op BY <1>2 DEF Message
<1>4. PICK stale \in BOOLEAN :
        LET r == combinedAppend(dest, m, stale)
        IN /\ Records(r.d)
           /\ mail' = {[n EXCEPT !.early = @ \/ (n.op = m.op /\ n.to = "stream" /\ ~Stored(r.d, m.op))] :
                         n \in mail \ {m}}
           /\ IF setting.shared THEN registry' = Answered(m, r.reply) /\ UNCHANGED workers
              ELSE UNCHANGED registry /\ workers' = Reply(m.op, m.try, r.reply) BY <1>2 DEF append
<1>5. PICK d, reply : combinedAppend(dest, m, stale) = [d |-> d, reply |-> reply] BY AppendRecord
<1>6. /\ Records(d)
      /\ mail' = {[n EXCEPT !.early = @ \/ (n.op = m.op /\ n.to = "stream" /\ ~Stored(d, m.op))] :
                    n \in mail \ {m}}
      /\ IF setting.shared THEN registry' = Answered(m, reply) /\ UNCHANGED workers
         ELSE UNCHANGED registry /\ workers' = Reply(op, m.try, reply) BY <1>3,<1>4,<1>5
<1>7. /\ mail' \in SUBSET Message /\ NewMail
      /\ Current(m) => \A n \in mail' : ~Current(n)
      /\ UNCHANGED registry => CallsTrue' BY <1>1,<1>6, MailAfter
<1>8. registry \in Binding /\ faults \in 0 .. setting.faults BY InvTypes
<1>9. PICK at \in Call : at = registry.at /\ CallOf(at) BY CallIs
<1>10. ResolvedStay BY <1>1 DEF ResolvedStay, Resolved
<1>11. ASSUME CallKept, registry'.moved = registry.moved
       PROVE  /\ StreamMoved /\ reply \in Answers /\ Truth(op, reply)' /\ Steady
              /\ m.kind = "fence" => /\ reply \in {"appended", "gap", "fenced"}
                                     /\ reply = "fenced" => m.call \in dest'.fences[op]
 <2>1. /\ StreamMoved /\ reply \in Answers /\ Truth(m.op, reply)'
       /\ m.kind = "fence" => /\ reply \in {"appended", "gap", "fenced"}
                              /\ reply = "fenced" => m.call \in dest'.fences[m.op]
  BY <1>1,<1>5,<1>6,<1>7,<1>10,<1>11, AppendIs
 <2> QED BY <1>1,<1>3,<2>1 DEF Steady, StreamMoved
<1>12. CASE UNCHANGED registry /\ (UNCHANGED workers \/ workers' = Reply(op, m.try, reply))
 <2>1. CallKept BY <1>12, SameCall
 <2>2. StreamMoved /\ reply \in Answers /\ Truth(op, reply)' /\ Steady BY <1>11,<1>12,<2>1
 <2>3. Attempts'
  <3>1. CASE UNCHANGED workers BY <1>1,<2>2,<3>1, SameAttempts
  <3>2. CASE workers' = Reply(op, m.try, reply) BY <1>1,<2>2,<3>2, ReplyStep
  <3> QED BY <1>12,<3>1,<3>2
 <2>4. MessagesTrue' /\ NoneForgotten BY <1>1,<1>7,<1>12,<2>2, MovedMessages
 <2>5. QueueTrue'
  <3>1. Types /\ QueueTrue /\ source'.sequence \in Nat BY <1>1 DEF IInv, Types, SourceTypes, Relayed
  <3>2. Onward BY <2>2 DEF StreamMoved
  <3> QED BY <1>12,<2>4,<3>1,<3>2, QueueStays
 <2> QED BY <1>1,<1>7,<1>8,<1>12,<2>2,<2>3,<2>4,<2>5, MovedStep
<1>13. CASE setting.shared /\ ~m.late /\ UNCHANGED workers /\ registry' = Answered(m, reply)
 <2>1. Current(m) BY <1>1,<1>13 DEF Current
 <2>2. AwaitedBy(m, at) BY <1>9,<2>1 DEF IInv, CallsTrue
 <2>3. PICK new : new = IF m.kind = "fence" THEN [at EXCEPT !.fence = reply] ELSE [at EXCEPT !.reply = reply]
  OBVIOUS
 <2>4. registry' = [registry EXCEPT !.at = new] BY <1>8,<1>9,<1>13,<2>3 DEF Answered, Binding
 <2>5. new.op = at.op /\ new.step = at.step /\ new.head = at.head /\ new.moving = at.moving
       /\ (reply \in Answers => new \in Call)
       /\ (m.kind = "fence" => new.fence = reply /\ new.reply = at.reply)
       /\ (m.kind # "fence" => new.fence = at.fence /\ new.reply = reply) BY <2>3 DEF Call
 <2>6. registry'.at = new /\ registry'.barrier = registry.barrier /\ registry'.moved = registry.moved
       /\ (new \in Call => registry' \in Binding) BY <1>8,<2>4 DEF Binding
 <2>7. CallKept BY <1>9,<2>5,<2>6, SameCall
 <2>8. /\ StreamMoved /\ reply \in Answers /\ Truth(op, reply)' /\ Steady
       /\ m.kind = "fence" => /\ reply \in {"appended", "gap", "fenced"}
                              /\ reply = "fenced" => m.call \in dest'.fences[op] BY <1>11,<2>6,<2>7
 <2>9. Attempts' BY <1>1,<1>13,<2>8, SameAttempts
 <2>10. MessagesTrue' /\ NoneForgotten BY <1>1,<1>7,<2>6,<2>8, MovedMessages
 <2>11. CallsTrue'
  <3>1. \A n \in mail' : ~Current(n)' BY <1>1,<1>7,<2>1 DEF Current
  <3> QED BY <3>1 DEF CallsTrue
 <2>12. CallOf(at)'
  <3>1. Types /\ source'.sequence \in Nat /\ Onward BY <1>1,<2>8 DEF IInv, Types, SourceTypes, Relayed, Steady
  <3> QED BY <1>9,<2>6,<2>10,<3>1, CallStays
 <2>13. op # 0 /\ at.op = op /\ m.kind \in {"append", "fence"}
        /\ (m.kind = "append" => at.step = "waiting" /\ at.reply = "none")
        /\ (m.kind = "fence" => at.step = "fence" /\ m.call = registry.barrier[op])
  BY <1>2,<1>3,<2>2, OpsFinite DEF AwaitedBy, Message
 <2>14. CallOf(new)'
  <3>1. CASE m.kind = "fence" BY <2>5,<2>6,<2>8,<2>12,<2>13,<3>1 DEF CallOf
  <3>2. CASE m.kind = "append" BY <2>5,<2>6,<2>8,<2>12,<2>13,<3>2 DEF CallOf
  <3> QED BY <2>13,<3>1,<3>2
 <2>15. QueueTrue'
  <3>1. QueueTrue /\ CallOf(registry.at)' BY <2>6,<2>14 DEF IInv
  <3> QED BY <1>1,<1>9,<2>5,<2>6,<3>1 DEF QueueTrue
 <2> QED BY <1>1,<1>7,<1>8,<2>5,<2>6,<2>8,<2>9,<2>10,<2>11,<2>15, MovedStep
<1>14. setting.shared /\ m.late => UNCHANGED registry BY <1>6 DEF Answered
<1> QED BY <1>6,<1>12,<1>13,<1>14

LEMMA DecidesMovedKeeps == ASSUME IInv, RegistryDecides, registry.moved PROVE IInv'
<1>1. /\ UNCHANGED <<setting, rows, source, mail, drainer, reset, expired>>
      /\ registry.at.step = "decide" BY DEF RegistryDecides
<1>2. PICK at \in Call : at = registry.at BY CallIs
<1>3. PICK op \in Ops : op = at.op BY <1>1,<1>2, CallIs
<1>4. CallOf(at) /\ op # 0 BY <1>2, CallIs, OpsFinite
<1>5. registry \in Binding /\ faults \in 0 .. setting.faults /\ dest \in Destination BY InvTypes
<1>6. PICK reply : reply = IF Stored(dest, op) THEN dest.rec[op]
                           ELSE IF Superseded(dest, op) THEN "discarded" ELSE "gap" OBVIOUS
<1>7. PICK d : d = IF reply = "gap" THEN Gapped(dest, op) ELSE dest OBVIOUS
<1>8. /\ registry' = [registry EXCEPT !.at = NoCall]
      /\ \/ Records(d) /\ workers' = Reply(op, at.try, reply) /\ UNCHANGED faults
         \/ (Records(d) \/ Records(dest)) /\ workers' = Reply(op, at.try, "unknown") /\ Fault
 BY <1>2,<1>3,<1>6,<1>7 DEF RegistryDecides, RegistryEnds
<1>9. /\ registry' \in Binding /\ registry'.at = NoCall /\ registry'.barrier = registry.barrier
      /\ registry'.moved = registry.moved BY <1>5,<1>8, NoCallIs DEF Binding
<1>10. ResolvedStay /\ QueueTrue' /\ CallKept BY <1>1,<1>9, QueueFree DEF ResolvedStay, Resolved
<1>11. mail' \in SUBSET Message /\ NewMail /\ SourceMail BY <1>1, MailShrinks
<1>12. RecordOf(op) /\ op <= source.sequence /\ ~at.moving BY <1>1,<1>2,<1>3,<1>4 DEF IInv, RecordsTrue, CallOf
<1>13. ASSUME Records(dest) PROVE StreamMoved
 <2>1. dest.kept \subseteq dest.kept /\ dest.kept \ dest.kept \subseteq expired OBVIOUS
 <2> QED BY <1>1,<1>5,<1>9,<1>10,<1>11,<1>13,<2>1, NothingNew
<1>14. ASSUME Records(d)
       PROVE  StreamMoved /\ reply \in Answers /\ Truth(op, reply)'
 <2>1. CASE Stored(dest, op) /\ d = dest
  <3>1. StreamMoved BY <1>13,<1>14,<2>1
  <3>2. Truth(op, reply) /\ reply \in Answers BY <1>6,<1>12,<2>1 DEF Stored, RecordOf, Truth, Answers
  <3> QED BY <3>1,<3>2 DEF Truth, StreamMoved, Onward, Answers
 <2>2. CASE reply = "discarded" /\ d = dest BY <1>13,<1>14,<2>2 DEF Answers, Truth
 <2>3. CASE reply = "gap" /\ d = Gapped(dest, op)
  <3>1. dest.rec[op] = "gap" \/ ~Closed(op)
   <4>1. ~Unasked(op) BY <1>2,<1>3,<1>12 DEF Unasked
   <4> QED BY <1>6,<2>3,<4>1 DEF Closed, Stored
  <3>2. StreamMoved /\ op \in history'.gapped BY <1>1,<1>9,<1>10,<1>11,<1>12,<1>14,<2>3,<3>1, GapIs
  <3> QED BY <2>3,<3>2 DEF Answers, Truth
 <2>4. Stored(dest, op) => reply \in {"appended", "gap"} BY <1>6 DEF Stored
 <2> QED BY <1>6,<1>7,<2>1,<2>2,<2>3,<2>4
<1>15. StreamMoved BY <1>8,<1>13,<1>14
<1>16. Steady BY <1>1,<1>15 DEF Steady, StreamMoved
<1>17. Attempts' /\ faults' \in 0 .. setting.faults
 <2>1. CASE Records(d) /\ workers' = Reply(op, at.try, reply) /\ UNCHANGED faults
  BY <1>1,<1>5,<1>14,<1>16,<2>1, ReplyStep
 <2>2. CASE workers' = Reply(op, at.try, "unknown") /\ Fault
  <3>1. "unknown" \in Answers /\ Truth(op, "unknown")' BY DEF Answers, Truth
  <3> QED BY <1>1,<1>16,<2>2,<3>1, ReplyStep, FaultIs
 <2> QED BY <1>8,<2>1,<2>2
<1>18. MessagesTrue' BY <1>1,<1>9,<1>11,<1>15, MovedMessages
<1>19. CallsTrue' BY <1>1,<1>11, NoCurrent, CallsNone
<1> QED BY <1>1,<1>9,<1>10,<1>11,<1>15,<1>17,<1>18,<1>19, MovedStep

LEMMA DecidesKeeps == ASSUME IInv, RegistryDecides PROVE IInv'
<1> SUFFICES ASSUME ~registry.moved PROVE IInv' BY DecidesMovedKeeps
<1>1. /\ UNCHANGED <<setting, rows, source, workers, dest, drainer, consumer, reset, expired, faults,
                     history>>
      /\ registry.at.step = "decide" BY DEF RegistryDecides
<1>2. PICK at \in Call : at = registry.at BY CallIs
<1>3. PICK op \in Ops : op = at.op BY <1>1,<1>2, CallIs
<1>4. CallOf(at) /\ op # 0 /\ at.try \in Nat /\ at.head \in BOOLEAN BY <1>2, CallIs, OpsFinite DEF Call
<1>5. registry \in Binding /\ mail \in SUBSET Message /\ faults \in 0 .. setting.faults BY InvTypes
<1>6. PICK call \in Nat : call = registry.calls + 1 /\ call # 0 BY CallIs
<1>7. PICK early \in BOOLEAN : early = ~Stored(dest, op) OBVIOUS
<1>8. PICK nm : nm = Request("stream", "append", op, at.try, call, at.head, early) OBVIOUS
<1>9. PICK new : new = [at EXCEPT !.step = "waiting"] OBVIOUS
<1>10. /\ registry' = [registry EXCEPT !.calls = call, !.barrier[op] = call, !.at.step = "waiting"]
       /\ mail' = mail \cup {nm} BY <1>2,<1>3,<1>6,<1>7,<1>8 DEF RegistryDecides
<1>11. registry' = [registry EXCEPT !.calls = call, !.barrier[op] = call, !.at = new]
 BY <1>2,<1>5,<1>9,<1>10 DEF Binding
<1>12. setting.shared /\ op <= source.sequence /\ registry.barrier[op] = 0 /\ (at.head => Ahead(op))
       /\ at.reply = "none" /\ at.fence = "none" /\ ~at.moving BY <1>1,<1>2,<1>3,<1>4 DEF CallOf
<1>13. /\ new \in Call /\ new.op = op /\ new.step = "waiting" /\ new.head = at.head /\ new.reply = "none"
       /\ new.fence = "none" /\ ~new.moving BY <1>3,<1>9,<1>12 DEF Call
<1>14. nm \in Message /\ nm.to = "stream" /\ nm.kind = "append" /\ nm.op = op /\ nm.call = call
       /\ nm.head = at.head BY <1>4,<1>8 DEF Message, Request
<1>15. /\ registry' \in Binding /\ registry'.at = new /\ registry'.barrier[op] = call
       /\ \A o \in Ops \ {op} : registry'.barrier[o] = registry.barrier[o]
       /\ registry'.moved = registry.moved BY <1>5,<1>11,<1>13 DEF Binding
<1>16. Steady BY <1>1, SteadyQuiet
<1>17. Attempts' /\ ResolvedStay BY <1>1,<1>16, SameAttempts
<1>18. at.head => Ahead(op)' BY <1>12,<1>16, AheadStays DEF Steady
<1>19. MessageOf(nm)' /\ Guarded(nm)' BY <1>1,<1>6,<1>12,<1>14,<1>15,<1>18 DEF MessageOf, Guarded
<1>20. ASSUME NEW n \in mail PROVE MessageOf(n)' /\ Guarded(n)'
 <2>1. n \in Message /\ MessageOf(n) /\ Guarded(n) BY <1>5 DEF IInv, MessagesTrue
 <2>2. PICK o \in Ops : o = n.op BY <2>1 DEF Message
 <2>3. n.head => Ahead(o)' BY <1>16,<2>1,<2>2, AheadStays DEF MessageOf, Steady
 <2>4. MessageOf(n)' BY <1>1,<2>1,<2>2,<2>3 DEF MessageOf
 <2>5. Guarded(n)'
  <3>1. CASE o = op BY <1>1,<1>12,<2>1,<2>2,<3>1 DEF Guarded, Shut
  <3>2. CASE o # op BY <1>1,<1>15,<2>1,<2>2,<3>2 DEF Guarded, Shut
  <3> QED BY <3>1,<3>2
 <2> QED BY <2>4,<2>5
<1>21. MessagesTrue' /\ mail' \in SUBSET Message
 <2>1. \A n \in mail' : MessageOf(n)' /\ Guarded(n)' BY <1>10,<1>19,<1>20
 <2> QED BY <1>5,<1>10,<1>14,<2>1 DEF MessagesTrue
<1>22. CallOf(new)'
 <2>1. Truth(op, "none")' BY DEF Truth
 <2> QED BY <1>1,<1>4,<1>12,<1>13,<1>18,<2>1 DEF CallOf
<1>23. QueueTrue'
 <2>1. QueueTrue /\ CallOf(registry.at)' BY <1>15,<1>22 DEF IInv
 <2> QED BY <1>1,<1>12,<1>15,<2>1 DEF QueueTrue
<1>24. NewMail
 <2>1. Closed(op) => Superseded(dest, op) BY <1>2,<1>3,<1>12 DEF Closed, Unasked
 <2>2. \A n \in mail : Copied(n, n) BY DEF Copied
 <2> QED BY <1>10,<1>14,<1>19,<2>1,<2>2 DEF NewMail
<1>25. CallKept BY <1>2,<1>3,<1>12,<1>13,<1>15 DEF CallKept, Unasked
<1>26. ClosedStay BY <1>1,<1>17,<1>24,<1>25, ClosedStays
<1>27. CallsTrue'
 <2>1. AwaitedBy(nm, registry.at)' BY <1>13,<1>14,<1>15 DEF AwaitedBy
 <2> QED BY <1>1,<1>10,<2>1, NoCurrent, CallSent
<1> QED BY <1>1,<1>5,<1>15,<1>17,<1>21,<1>23,<1>26,<1>27, QueueStep

-----------------------------------------------------------------------------
(* The coordinated reset                                                    *)

\* Only the grant moves on, and what the source holds of it.
LEMMA GrantStep ==
  ASSUME IInv, UNCHANGED <<setting, rows, workers, mail, registry, dest, consumer, expired, history>>,
         source' \in Relayed, source'.sequence = source.sequence, drainer' \in Drain,
         reset' \in Grant, faults' \in 0 .. setting.faults, ResetTrue'
  PROVE  IInv'
<1>1. Types /\ source.sequence \in Nat /\ source.sequence <= Operations
 BY DEF IInv, Types, SourceTypes, Relayed, Facts, Known
<1>2. Steady /\ SameStream BY SteadyQuiet DEF SameStream
<1>3. Attempts' /\ ResolvedStay BY <1>2, SameAttempts
<1>4. Types' BY <1>1 DEF Types, SourceTypes, StreamTypes, OtherTypes
<1>5. NewMail /\ SourceMail BY MailShrinks
<1> QED BY <1>1,<1>2,<1>3,<1>4,<1>5, SourceStep DEF Attempts

GrantSteps == {"idle", "prepare", "mark", "commit", "local", "release", "clear", "done", "failed"}
LEMMA GoesTo ==
  ASSUME IInv, NEW step \in GrantSteps, ResetGoes(step)
  PROVE  reset' \in Grant /\ reset'.step = step /\ reset'.id = reset.id /\ reset'.granted = reset.granted
<1>1. reset \in Grant BY InvTypes
<1> QED BY <1>1 DEF Grant, GrantSteps, ResetGoes

LEMMA ResetTypes ==
  ASSUME IInv
  PROVE  /\ ResetTrue /\ reset \in Grant /\ reset.id \in Nat /\ reset.granted \in BOOLEAN
         /\ source \in Relayed /\ source.sequence \in Nat /\ source.checkpoint \in Nat
         /\ source.sequence <= Operations /\ source.reset \in Nat
         /\ dest \in Destination /\ dest.checkpoint \in Nat /\ dest.kept \subseteq Ops
         /\ dest.reset \in Nat /\ dest.interest \in Interest
         /\ history \in Past /\ drainer \in Drain /\ consumer \in {"off", "checked", "on"}
         /\ faults \in 0 .. setting.faults /\ expired \subseteq Ops
         /\ setting \in Settings /\ setting.resets \in Nat /\ setting.faults \in Nat
<1>1. setting \in Settings BY InvTypes
<1>2. setting.resets \in Nat /\ setting.faults \in Nat BY <1>1, SettingTypes
<1>3. /\ ResetTrue /\ reset \in Grant /\ source \in Relayed /\ dest \in Destination /\ history \in Past
      /\ drainer \in Drain /\ consumer \in {"off", "checked", "on"}
      /\ faults \in 0 .. setting.faults /\ expired \subseteq Ops /\ source.sequence <= Operations
 BY InvTypes DEF IInv, Facts, Known
<1> QED BY <1>1,<1>2,<1>3 DEF Grant, Relayed, Destination

LEMMA IssueKeeps == ASSUME IInv, issueGrant PROVE IInv'
<1>1. UNCHANGED <<setting, rows, source, workers, mail, registry, dest, drainer, consumer,
                  expired, faults, history>>
      /\ reset' = [step |-> "prepare", id |-> reset.id + 1, granted |-> FALSE] BY DEF issueGrant
<1>2. /\ ResetTrue /\ reset.id \in Nat /\ source \in Relayed /\ drainer \in Drain
      /\ faults \in 0 .. setting.faults BY ResetTypes
<1>3. reset' \in Grant /\ reset'.step = "prepare" /\ reset'.id # 0 /\ reset'.granted = FALSE
 BY <1>1,<1>2 DEF Grant
<1>4. ResetTrue' BY <1>1,<1>2,<1>3 DEF ResetTrue, Granted
<1> QED BY <1>1,<1>2,<1>3,<1>4, GrantStep

LEMMA PrepareKeeps == ASSUME IInv, resetPrepare PROVE IInv'
<1>1. UNCHANGED <<setting, rows, workers, mail, registry, dest, drainer, consumer, expired,
                  faults, history>>
      /\ reset.step = "prepare" BY DEF resetPrepare
<1>2. /\ ResetTrue /\ reset.id \in Nat /\ source \in Relayed /\ drainer \in Drain
      /\ faults \in 0 .. setting.faults /\ source.sequence \in Nat /\ source.checkpoint \in Nat
      /\ dest.checkpoint \in Nat BY ResetTypes
<1>3. PICK checkpoint \in Nat : /\ checkpoint = Max({source.checkpoint, source.sequence})
                                /\ checkpoint = source.sequence
 <2>1. source.checkpoint <= source.sequence BY <1>2 DEF ResetTrue
 <2> QED BY <1>2,<2>1, MaxOfTwo
<1>4. CASE ResetGoes("failed") /\ UNCHANGED source
 <2>1. /\ reset' \in Grant /\ reset'.step = "failed" /\ reset'.id = reset.id
       /\ reset'.granted = reset.granted BY <1>4, GoesTo DEF GrantSteps
 <2>2. ResetTrue' BY <1>1,<1>2,<1>4,<2>1 DEF ResetTrue, Granted
 <2> QED BY <1>1,<1>2,<1>4,<2>1,<2>2, GrantStep
<1>5. CASE /\ ResetGoes("mark")
           /\ \/ source.reset = reset.id /\ source' = source
              \/ source' = [source EXCEPT !.reset = reset.id, !.phase = "prepared",
                                          !.checkpoint = checkpoint]
 <2>1. /\ reset' \in Grant /\ reset'.step = "mark" /\ reset'.id = reset.id
       /\ reset'.granted = reset.granted BY <1>5, GoesTo DEF GrantSteps
 <2>2. /\ source' \in Relayed /\ source'.sequence = source.sequence /\ source'.reset = reset.id
       /\ source.checkpoint <= source'.checkpoint /\ source'.checkpoint \in Nat
       /\ source'.checkpoint = source.sequence BY <1>1,<1>2,<1>3,<1>5 DEF Relayed, ResetTrue
 <2>3. ResetTrue' BY <1>1,<1>2,<2>1,<2>2 DEF ResetTrue, Granted
 <2> QED BY <1>1,<1>2,<2>1,<2>2,<2>3, GrantStep
<1> QED BY <1>3,<1>4,<1>5 DEF resetPrepare

LEMMA RetryKeeps == ASSUME IInv, RetryReset PROVE IInv'
<1>1. UNCHANGED <<setting, rows, source, workers, mail, registry, dest, drainer, consumer,
                  expired, faults, history>>
      /\ reset.step = "failed" BY DEF RetryReset
<1>2. /\ ResetTrue /\ reset \in Grant /\ reset.id \in Nat /\ source \in Relayed /\ drainer \in Drain
      /\ faults \in 0 .. setting.faults /\ setting.resets \in Nat BY ResetTypes
<1>3. PICK id \in Nat : id = Min({reset.id + 1, setting.resets + 2}) /\ id # 0
 <2>1. reset.id + 1 \in Nat /\ setting.resets + 2 \in Nat BY <1>2
 <2>2. Min({reset.id + 1, setting.resets + 2}) \in {reset.id + 1, setting.resets + 2} BY <2>1, MinOfTwo
 <2> QED BY <1>2,<2>2
<1>4. CASE reset' = [step |-> "prepare", id |-> id, granted |-> FALSE]
 <2>1. reset' \in Grant /\ reset'.step = "prepare" /\ reset'.id # 0 /\ reset'.granted = FALSE
  BY <1>3,<1>4 DEF Grant
 <2>2. ResetTrue' BY <1>1,<1>2,<2>1 DEF ResetTrue, Granted
 <2> QED BY <1>1,<1>2,<2>1,<2>2, GrantStep
<1>5. CASE /\ reset' = [reset EXCEPT !.step = IF reset.granted THEN "release" ELSE "prepare"]
 <2>1. PICK step \in {"release", "prepare"} :
         step = (IF reset.granted THEN "release" ELSE "prepare") OBVIOUS
 <2>2. /\ reset' \in Grant /\ reset'.step = step /\ reset'.id = reset.id
       /\ reset'.granted = reset.granted BY <1>2,<1>5,<2>1 DEF Grant
 <2>3. ResetTrue' BY <1>1,<1>2,<2>1,<2>2 DEF ResetTrue, Granted
 <2> QED BY <1>1,<1>2,<2>2,<2>3, GrantStep
<1> QED BY <1>3,<1>4,<1>5 DEF RetryReset

LEMMA StreamRestartsKeeps == ASSUME IInv, StreamRestarts PROVE IInv'
<1>1. UNCHANGED <<setting, rows, source, workers, mail, registry, dest, consumer, expired, history>>
      /\ Fault /\ drainer' = NoDrain
      /\ reset' = IF reset.step \in {"idle", "done"} THEN reset ELSE [reset EXCEPT !.step = "failed"]
 BY DEF StreamRestarts
<1>2. ResetTrue /\ reset \in Grant /\ source \in Relayed /\ faults' \in 0 .. setting.faults
 BY <1>1, ResetTypes, FaultIs
<1>3. drainer' \in Drain BY <1>1 DEF NoDrain, Drain
<1>4. CASE reset' = reset
 <2>1. ResetTrue' BY <1>1,<1>2,<1>4 DEF ResetTrue, Granted
 <2> QED BY <1>1,<1>2,<1>3,<1>4,<2>1, GrantStep
<1>5. CASE reset.step \notin {"idle", "done"} /\ reset' = [reset EXCEPT !.step = "failed"]
 <2>1. /\ reset' \in Grant /\ reset'.step = "failed" /\ reset'.id = reset.id
       /\ reset'.granted = reset.granted BY <1>2,<1>5 DEF Grant
 <2>2. ResetTrue' BY <1>1,<1>2,<1>5,<2>1 DEF ResetTrue, Granted
 <2> QED BY <1>1,<1>2,<1>3,<2>1,<2>2, GrantStep
<1> QED BY <1>1,<1>4,<1>5

\* The stream's half of a reset: its fence and what it covers.
LEMMA MarkKeeps == ASSUME IInv, prepareCombinedGrant PROVE IInv'
<1>1. UNCHANGED <<setting, rows, source, workers, mail, registry, drainer, consumer, expired,
                  faults, history>>
      /\ reset.step = "mark" BY DEF prepareCombinedGrant
<1>2. /\ ResetTrue /\ reset.id \in Nat /\ source \in Relayed /\ drainer \in Drain
      /\ faults \in 0 .. setting.faults /\ source.sequence \in Nat /\ source.checkpoint \in Nat
      /\ dest.checkpoint \in Nat /\ dest \in Destination /\ consumer \in {"off", "checked", "on"}
      /\ expired \subseteq Ops /\ history \in Past BY ResetTypes
<1>3. CASE ResetGoes("failed") /\ UNCHANGED dest
 <2>1. /\ reset' \in Grant /\ reset'.step = "failed" /\ reset'.id = reset.id
       /\ reset'.granted = reset.granted BY <1>3, GoesTo DEF GrantSteps
 <2>2. ResetTrue' BY <1>1,<1>2,<1>3,<2>1 DEF ResetTrue, Granted
 <2> QED BY <1>1,<1>2,<1>3,<2>1,<2>2, GrantStep
<1>4. CASE /\ ResetGoes("commit")
           /\ dest' = [dest EXCEPT !.reset = reset.id, !.checkpoint = source.checkpoint]
 <2>1. /\ reset' \in Grant /\ reset'.step = "commit" /\ reset'.id = reset.id
       /\ reset'.granted = reset.granted BY <1>4, GoesTo DEF GrantSteps
 <2>2. /\ dest' \in Destination /\ dest'.rec = dest.rec /\ dest'.fences = dest.fences
       /\ dest'.noted = dest.noted /\ dest'.kept = dest.kept /\ dest'.gap = dest.gap /\ dest'.receipts = dest.receipts
       /\ dest'.reset = reset.id /\ dest'.checkpoint = source.checkpoint BY <1>2,<1>4 DEF Destination
 <2>3. dest.checkpoint <= source.checkpoint /\ reset.id # 0 BY <1>1,<1>2 DEF ResetTrue
 <2>4. Types /\ RecordsTrue /\ Facts BY DEF IInv
 <2>5. Onward /\ Logged' = Logged BY <1>1,<1>2,<2>2,<2>4, OnwardSame
 <2>6. NoneForgotten BY <1>1,<2>2 DEF NoneForgotten
 <2>7. RecordsTrue'
  <3>0. dest'.receipts = Logged' BY <2>2,<2>4,<2>5 DEF RecordsTrue
  <3> SUFFICES ASSUME NEW op \in Ops PROVE RecordOf(op)' BY <3>0 DEF RecordsTrue
  <3>1. RecordOf(op) /\ op \in Nat BY <2>4, OpsFinite DEF RecordsTrue
  <3>2. Superseded(dest, op) => Superseded(dest, op)' BY <1>2,<2>2,<2>3,<3>1 DEF Superseded
  <3> QED BY <1>1,<2>2,<2>5,<3>1,<3>2 DEF RecordOf, Closed, Resolved, Unasked
 <2>8. ResetTrue'
  <3>1. 1 .. dest.checkpoint \subseteq 1 .. source.checkpoint BY <1>2,<2>3
  <3> QED BY <1>1,<1>2,<2>1,<2>2,<3>1 DEF ResetTrue, Granted
 <2>9. Facts'
  BY <1>1,<2>2,<2>3,<2>4,<2>5 DEF Facts, Known, EventsTrue, GapDeclared, NoneAfterMove, ResetIsFinal, InOrder,
     Increasing
 <2> QED BY <1>1,<1>2,<2>1,<2>2,<2>5,<2>6,<2>7,<2>8,<2>9, DestStep
<1> QED BY <1>3,<1>4 DEF prepareCombinedGrant

\* The backlog goes, with the gap; the records that the reset covers are noted.
LEMMA CommitStreamKeeps == ASSUME IInv, commitCombinedReset PROVE IInv'
<1>1. UNCHANGED <<setting, rows, source, workers, mail, registry, drainer, expired, faults, history>>
      /\ reset.step = "local" /\ consumer' = "off"
      /\ reset' = [reset EXCEPT !.step = "release", !.granted = TRUE] BY DEF commitCombinedReset
<1>2. /\ ResetTrue /\ reset \in Grant /\ source \in Relayed /\ drainer \in Drain
      /\ faults \in 0 .. setting.faults /\ source.sequence \in Nat /\ source.checkpoint \in Nat
      /\ dest.checkpoint \in Nat /\ dest \in Destination /\ source.sequence <= Operations
      /\ expired \subseteq Ops /\ history \in Past /\ reset.id \in Nat BY ResetTypes
<1>3. reset' \in Grant /\ reset'.step = "release" /\ reset'.id = reset.id /\ reset'.granted = TRUE
 BY <1>1,<1>2 DEF Grant
<1>4. /\ reset.id # 0 /\ source.reset = reset.id /\ dest.reset = reset.id
      /\ dest.checkpoint = source.checkpoint /\ source.checkpoint = source.sequence
      /\ 1 .. source.sequence \subseteq history.dropped BY <1>1,<1>2 DEF ResetTrue
<1>5. 1 .. dest.checkpoint \subseteq Ops BY <1>2,<1>4, OperationsAssumption DEF Ops
<1>6. PICK N \in SUBSET Ops :
        N = dest.noted \cup {op \in 1 .. dest.checkpoint : dest.rec[op] # "none"} BY <1>2,<1>5 DEF Destination
<1>7. dest' = [dest EXCEPT !.gap = FALSE, !.kept = {}, !.noted = N] BY <1>6 DEF commitCombinedReset
<1>8. /\ dest' \in Destination /\ dest'.rec = dest.rec /\ dest'.fences = dest.fences
      /\ dest'.noted = N /\ dest'.kept = {} /\ dest'.gap = FALSE /\ dest'.receipts = dest.receipts
      /\ dest'.reset = dest.reset /\ dest'.checkpoint = dest.checkpoint BY <1>2,<1>7 DEF Destination
<1>9. Types /\ RecordsTrue /\ Facts BY DEF IInv
<1>10. Logged' = Logged /\ Ended' = Ended BY <1>1 DEF Logged, Ended
<1>11. Onward BY <1>1,<1>2,<1>8,<1>10 DEF Onward
<1>12. NoneForgotten BY <1>1,<1>8 DEF NoneForgotten
<1>13. RecordsTrue'
 <2>0. dest'.receipts = Logged' BY <1>8,<1>9,<1>10 DEF RecordsTrue
 <2> SUFFICES ASSUME NEW op \in Ops PROVE RecordOf(op)' BY <2>0 DEF RecordsTrue
 <2>1. RecordOf(op) /\ op \in Nat BY <1>9, OpsFinite DEF RecordsTrue
 <2>2. op \in N => op \in dest.noted \/ Superseded(dest, op) BY <1>2,<1>6 DEF Superseded
 <2> QED BY <1>1,<1>8,<1>10,<2>1,<2>2 DEF RecordOf, Closed, Superseded, Resolved, Unasked
<1>14. ResetTrue' BY <1>1,<1>2,<1>3,<1>4,<1>8 DEF ResetTrue, Granted
<1>15. Logged \cup history.gapped \subseteq history.dropped
       /\ history.acked \cup history.lost \subseteq Logged BY <1>4,<1>9 DEF Facts, Known, EventsTrue
<1>16. EventsTrue' /\ GapDeclared' BY <1>1,<1>9,<1>10,<1>15 DEF Facts, EventsTrue, GapDeclared
<1>17. Known' /\ NoneAfterMove' /\ ResetIsFinal' /\ InOrder'
 BY <1>1,<1>8,<1>9,<1>10 DEF Facts, Known, NoneAfterMove, ResetIsFinal, InOrder, Increasing
<1>18. Facts' BY <1>16,<1>17 DEF Facts
<1> QED BY <1>1,<1>2,<1>3,<1>8,<1>11,<1>12,<1>13,<1>14,<1>18, DestStep

LEMMA FinishKeeps == ASSUME IInv, finishCombinedReset PROVE IInv'
<1>1. UNCHANGED <<setting, rows, source, workers, mail, registry, drainer, consumer, expired,
                  faults, history>>
      /\ reset.step = "clear" /\ ResetGoes("done") BY DEF finishCombinedReset
<1>2. /\ ResetTrue /\ source \in Relayed /\ drainer \in Drain /\ reset.id \in Nat
      /\ faults \in 0 .. setting.faults /\ consumer \in {"off", "checked", "on"}
      /\ dest \in Destination /\ expired \subseteq Ops /\ history \in Past /\ dest.interest \in Interest
 BY ResetTypes
<1>3. reset' \in Grant /\ reset'.step = "done" /\ reset'.id = reset.id BY <1>1, GoesTo DEF GrantSteps
<1>4. dest.reset = reset.id /\ dest.kept = {} BY <1>1,<1>2 DEF ResetTrue, Granted
<1>5. PICK i \in Interest : i = queueProducerWakeup(dest.interest) BY <1>2, InterestTypes, 0 \in Nat
<1>6. dest' = [dest EXCEPT !.reset = 0, !.interest = i] BY <1>4,<1>5 DEF finishCombinedReset
<1>7. /\ dest' \in Destination /\ dest'.rec = dest.rec /\ dest'.fences = dest.fences
      /\ dest'.noted = dest.noted /\ dest'.kept = {} /\ dest'.gap = dest.gap /\ dest'.receipts = dest.receipts
      /\ dest'.reset = 0 /\ dest'.checkpoint = dest.checkpoint BY <1>2,<1>4,<1>6 DEF Destination
<1>8. Types /\ RecordsTrue /\ Facts BY DEF IInv
<1>9. dest'.kept = dest.kept /\ source.sequence <= source'.sequence BY <1>1,<1>4,<1>7, ResetTypes
<1>10. Onward /\ Logged' = Logged BY <1>1,<1>8,<1>9, OnwardSame
<1>11. NoneForgotten BY <1>1,<1>7 DEF NoneForgotten
<1>12. RecordsTrue'
 <2>0. dest'.receipts = Logged' BY <1>7,<1>8,<1>10 DEF RecordsTrue
 <2> SUFFICES ASSUME NEW op \in Ops PROVE RecordOf(op)' BY <2>0 DEF RecordsTrue
 <2>1. RecordOf(op) BY <1>8 DEF RecordsTrue
 <2> QED BY <1>1,<1>7,<1>9,<1>10,<2>1 DEF RecordOf, Closed, Superseded, Resolved, Unasked
<1>13. ResetTrue' BY <1>1,<1>2,<1>3,<1>7 DEF ResetTrue, Granted
<1>14. Facts'
 BY <1>1,<1>4,<1>7,<1>8,<1>10 DEF Facts, Known, EventsTrue, GapDeclared, NoneAfterMove, ResetIsFinal, InOrder,
    Increasing
<1> QED BY <1>1,<1>2,<1>3,<1>7,<1>10,<1>11,<1>12,<1>13,<1>14, DestStep

\* The source's half: the rows may go on, and the source takes commands again.
LEMMA ReleaseSourceKeeps == ASSUME IInv, resetRelease PROVE IInv'
<1>1. UNCHANGED <<setting, workers, mail, registry, dest, drainer, consumer, expired, faults, history>>
      /\ reset.step = "release" BY DEF resetRelease
<1>2. /\ ResetTrue /\ source \in Relayed /\ drainer \in Drain /\ reset.id \in Nat
      /\ faults \in 0 .. setting.faults /\ consumer \in {"off", "checked", "on"}
      /\ dest \in Destination /\ source.sequence \in Nat /\ source.sequence <= Operations BY ResetTypes
<1>3. ASSUME NEW step \in {"clear", "failed"}, ResetGoes(step), UNCHANGED <<rows, source>> PROVE IInv'
 <2>1. /\ reset' \in Grant /\ reset'.step = step /\ reset'.id = reset.id
       /\ reset'.granted = reset.granted BY <1>3, GoesTo DEF GrantSteps
 <2>2. ResetTrue' BY <1>1,<1>2,<1>3,<2>1 DEF ResetTrue, Granted
 <2> QED BY <1>1,<1>2,<1>3,<2>1,<2>2, GrantStep
<1>4. CASE /\ ResetGoes("clear")
           /\ source' = [source EXCEPT !.reset = 0, !.phase = "none", !.completed = reset.id]
           /\ rows' = [op \in Ops |-> IF op \in Present
                                      THEN [rows[op] EXCEPT !.due = Now, !.useful = TRUE] ELSE rows[op]]
 <2>1. /\ reset' \in Grant /\ reset'.step = "clear" /\ reset'.id = reset.id
       /\ reset'.granted = reset.granted BY <1>4, GoesTo DEF GrantSteps
 <2>2. /\ source' \in Relayed /\ source'.sequence = source.sequence /\ source'.reset = 0
       /\ source'.checkpoint = source.checkpoint BY <1>2,<1>4 DEF Relayed
 <2>3. Steady /\ SameStream BY <1>1,<2>2, SteadyQuiet DEF SameStream
 <2>4. rows \in [Ops -> Row] /\ workers \in [Ops -> Worker] BY InvTypes
 <2>5. ASSUME NEW o \in Ops
       PROVE  rows'[o] \in Row /\ Alike(rows'[o], rows[o]) /\ rows'[o].lease = rows[o].lease
  <3>1. PICK r \in Row : r = rows[o] BY <2>4
  <3>2. PICK s : s = [r EXCEPT !.due = Now, !.useful = TRUE] OBVIOUS
  <3>3. s \in Row /\ Alike(s, r) /\ s.lease = r.lease BY <3>2 DEF Row, Alike
  <3>4. rows'[o] \in {r, s} BY <1>4,<3>1,<3>2
  <3> QED BY <3>1,<3>3,<3>4 DEF Alike
 <2>6. rows' \in [Ops -> Row] BY <1>4,<2>5
 <2>7. \A o \in Ops : SameWorker(workers'[o], workers[o]) BY <1>1 DEF SameWorker
 <2>8. Attempts' /\ ResolvedStay BY <1>1,<2>3,<2>4,<2>5,<2>6,<2>7, TouchStep
 <2>9. ResetTrue' BY <1>1,<1>2,<2>1,<2>2 DEF ResetTrue, Granted
 <2>10. Types' BY <1>1,<1>2,<2>1,<2>2,<2>8, InvTypes DEF Types, SourceTypes, StreamTypes, OtherTypes, Attempts
 <2>11. NewMail /\ SourceMail BY <1>1, MailShrinks
 <2> QED BY <1>1,<1>2,<2>2,<2>3,<2>8,<2>9,<2>10,<2>11, SourceStep DEF Attempts
<1> QED BY <1>3,<1>4 DEF resetRelease

\* The source discards the rows that the reset covers.
LEMMA CommitSourceKeeps == ASSUME IInv, resetCommit PROVE IInv'
<1>1. /\ UNCHANGED <<setting, workers, mail, registry, dest, drainer, consumer, expired, faults>>
      /\ reset.step = "commit" /\ ResetGoes("local")
      /\ source' = [source EXCEPT !.phase = "committed", !.gap = FALSE, !.blocked = FALSE]
      /\ history' = [history EXCEPT !.dropped = @ \cup 1 .. source.checkpoint] BY DEF resetCommit
<1>2. /\ ResetTrue /\ source \in Relayed /\ drainer \in Drain /\ reset.id \in Nat
      /\ faults \in 0 .. setting.faults /\ consumer \in {"off", "checked", "on"}
      /\ dest \in Destination /\ source.sequence \in Nat /\ source.sequence <= Operations
      /\ source.checkpoint \in Nat /\ history \in Past /\ expired \subseteq Ops BY ResetTypes
<1>3. /\ reset' \in Grant /\ reset'.step = "local" /\ reset'.id = reset.id
      /\ reset'.granted = reset.granted BY <1>1, GoesTo DEF GrantSteps
<1>4. /\ reset.id # 0 /\ source.reset = reset.id /\ dest.reset = reset.id
      /\ dest.checkpoint = source.checkpoint /\ source.checkpoint = source.sequence BY <1>1,<1>2 DEF ResetTrue
<1>5. 1 .. source.checkpoint \subseteq Ops BY <1>2,<1>4, OperationsAssumption DEF Ops
<1>6. PICK D \in SUBSET Ops : D = history.dropped \cup 1 .. source.checkpoint BY <1>2,<1>5 DEF Past
<1>7. /\ history' \in Past /\ history'.dropped = D /\ history'.log = history.log
      /\ history'.gapped = history.gapped /\ history'.acked = history.acked
      /\ history'.lost = history.lost /\ history'.strays = history.strays
      /\ history'.overwritten = history.overwritten BY <1>1,<1>2,<1>6 DEF Past
<1>8. /\ source' \in Relayed /\ source'.sequence = source.sequence /\ source'.reset = source.reset
      /\ source'.checkpoint = source.checkpoint BY <1>1,<1>2 DEF Relayed
<1>9. Types /\ RowsTrue /\ OneLease /\ WorkersTrue /\ RecordsTrue /\ MessagesTrue /\ CallsTrue
      /\ QueueTrue /\ Facts BY DEF IInv
<1>10. Logged' = Logged BY <1>7 DEF Logged
<1>11. Onward BY <1>1,<1>2,<1>6,<1>7,<1>8,<1>10 DEF Onward, Ended
<1>12. NoneForgotten /\ NewMail /\ SourceMail /\ CallKept BY <1>1, MailShrinks, SameCall DEF NoneForgotten
<1>13. rows \in [Ops -> Row] /\ workers \in [Ops -> Worker] /\ mail \in SUBSET Message
       /\ registry \in Binding BY InvTypes
<1>14. ASSUME NEW o \in Ops
       PROVE  /\ rows'[o] \in Row /\ rows'[o].lease = rows[o].lease
              /\ Said(o, rows[o])' /\ Placed(o, rows[o])' /\ (Resolved(o) => Resolved(o)')
              /\ (rows[o].state \notin {"none", "gone"} => rows'[o].state \notin {"none", "gone"})
              /\ (rows'[o].state \in Unresolved => rows[o].state \in Unresolved)
 <2>1. PICK r \in Row : r = rows[o] /\ Said(o, r) /\ Placed(o, r) BY <1>9,<1>13 DEF RowsTrue
 <2>2. Said(o, r)' BY <1>11,<2>1, SaidStays
 <2>3. CASE o \in Present /\ o <= source.checkpoint
  <3>1. PICK probe \in 0 .. 2 : probe = IF r.probe = 1 THEN 2 ELSE r.probe BY DEF Row
  <3>2. PICK s : s = [r EXCEPT !.state = "reset_discarded", !.due = Never, !.probe = probe] OBVIOUS
  <3>3. s \in Row /\ s.state = "reset_discarded" /\ s.lease = r.lease /\ s.outcome = r.outcome
        /\ s.tries = r.tries /\ s.control = r.control BY <3>2 DEF Row, Cleanup, Controls
  <3>4. rows'[o] = [rows[o] EXCEPT !.state = "reset_discarded", !.due = Never,
                                   !.probe = IF @ = 1 THEN 2 ELSE @] BY <2>3 DEF resetCommit
  <3>5. rows'[o] = s BY <2>1,<3>1,<3>2,<3>4
  <3>6. o \in D BY <1>2,<1>6,<2>3 DEF Ops
  <3>7. Said(o, s)' BY <1>7,<2>2,<3>3,<3>6 DEF Said
  <3>8. r.state \notin {"none", "gone"} BY <2>1,<2>3 DEF Present
  <3>9. Placed(o, s)' BY <1>1,<1>8,<2>1,<3>3,<3>8 DEF Placed
  <3>10. Said(o, rows[o])' /\ Placed(o, rows[o])' BY <3>5,<3>7,<3>9 DEF Said, Placed
  <3>11. "reset_discarded" \notin Unresolved \cup {"none", "gone"} BY DEF Unresolved
  <3> QED BY <2>1,<3>3,<3>5,<3>10,<3>11 DEF Resolved
 <2>4. CASE ~(o \in Present /\ o <= source.checkpoint)
  <3>1. rows'[o] = r BY <2>1,<2>4 DEF resetCommit
  <3>2. Said(o, rows[o])' BY <2>2,<3>1 DEF Said
  <3>3. Placed(o, rows[o])' BY <1>1,<1>8,<2>1,<3>1 DEF Placed
  <3> QED BY <2>1,<3>1,<3>2,<3>3 DEF Resolved
 <2> QED BY <2>3,<2>4
<1>15. rows' \in [Ops -> Row]
 <2>1. rows' = [o \in Ops |-> rows'[o]] BY DEF resetCommit
 <2> QED BY <1>14,<2>1
<1>16. RowsTrue' /\ ResolvedStay BY <1>14 DEF RowsTrue, ResolvedStay
<1>17. OneLease' BY <1>9,<1>14 DEF OneLease, Held
<1>18. WorkersTrue'
 <2> SUFFICES ASSUME NEW o \in Ops PROVE Learned(o, workers[o])' /\ Anchored(workers[o], rows[o])'
  BY DEF WorkersTrue
 <2>1. SameWorker(workers'[o], workers[o]) BY <1>1 DEF SameWorker
 <2>2. Learned(o, workers[o])' BY <1>9,<1>11,<2>1, WorkerStays
 <2>3. Anchored(workers[o], rows[o])' BY <1>9,<1>14,<2>1, AnchorStays
 <2> QED BY <2>2,<2>3
<1>19. Types' BY <1>1,<1>2,<1>3,<1>7,<1>8,<1>9,<1>13,<1>15 DEF Types, SourceTypes, StreamTypes, OtherTypes
<1>20. source'.sequence \in Nat BY <1>2,<1>8
<1>21. MessagesTrue' /\ CallsTrue' /\ QueueTrue'
 <2>1. QueueTrue' BY <1>1,<1>9,<1>11,<1>12,<1>20, QueueStays
 <2>2. MessagesTrue' BY <1>1,<1>9,<1>11,<1>12,<1>20, MessagesStay
 <2>3. CallsTrue' BY <1>1,<1>9,<1>12, CallsStay
 <2> QED BY <2>1,<2>2,<2>3
<1>22. ClosedStay BY <1>1,<1>12,<1>16, ClosedStays
<1>23. RecordsTrue'
 <2>0. dest'.receipts = Logged' BY <1>1,<1>9,<1>10 DEF RecordsTrue
 <2> SUFFICES ASSUME NEW op \in Ops PROVE RecordOf(op)' BY <2>0 DEF RecordsTrue
 <2>1. RecordOf(op) /\ (Closed(op) => Closed(op)') /\ (Resolved(op) => Resolved(op)')
  BY <1>9,<1>16,<1>22 DEF RecordsTrue, ClosedStay, ResolvedStay
 <2> QED BY <1>1,<1>7,<1>10,<2>1 DEF RecordOf, Superseded
<1>24. ResetTrue' BY <1>1,<1>2,<1>3,<1>4,<1>6,<1>7,<1>8 DEF ResetTrue, Granted
<1>25. Known' /\ EventsTrue' /\ GapDeclared' /\ NoneAfterMove' /\ ResetIsFinal'
 BY <1>1,<1>4,<1>6,<1>7,<1>8,<1>9,<1>10 DEF Facts, Known, EventsTrue, GapDeclared, NoneAfterMove, ResetIsFinal
<1>26. InOrder'
 <2>1. Logged \cup history.gapped \cup history.dropped
         \subseteq Logged' \cup history'.gapped \cup history'.dropped BY <1>6,<1>7,<1>10
 <2> QED BY <1>7,<1>9,<1>10,<2>1 DEF Facts, InOrder, Increasing
<1> QED BY <1>16,<1>17,<1>18,<1>19,<1>21,<1>23,<1>24,<1>25,<1>26 DEF IInv, Facts

-----------------------------------------------------------------------------
(* The invariant holds                                                      *)

LEMMA InitIInv == ASSUME Init PROVE IInv
<1>1. /\ setting \in Settings /\ rows = [op \in Ops |-> NoRow] /\ source = NoStream
      /\ workers = [op \in Ops |-> Idle] /\ mail = {} /\ dest = EmptyStream /\ drainer = NoDrain
      /\ registry = [moved |-> FALSE, barrier |-> [op \in Ops |-> 0], calls |-> 0, at |-> NoCall]
      /\ consumer = "off" /\ reset = NoReset /\ expired = {} /\ faults = 0 /\ history = NoHistory BY DEF Init
<1>2. Ops \subseteq Nat /\ 0 \notin Ops /\ \A op \in Ops : op > 0 BY OpsFinite DEF Ops
<1>3. setting.total \in Nat /\ setting.faults \in Nat BY <1>1, SettingTypes
<1>4. NoRow \in Row /\ NoStream \in Relayed /\ Idle \in Worker
 BY DEF NoRow, Row, NoStream, Relayed, Idle, Worker, Answers, Never
<1>5. registry \in Binding BY <1>1, NoCallIs DEF Binding
<1>6. dest \in Destination
 <2>1. NoInterest \in Interest BY DEF NoInterest, Interest
 <2> QED BY <1>1,<2>1 DEF EmptyStream, Destination
<1>7. drainer \in Drain /\ reset \in Grant /\ history \in Past
 <2>1. <<>> \in Seq(Ops) OBVIOUS
 <2> QED BY <1>1,<2>1 DEF NoDrain, Drain, NoReset, Grant, NoHistory, Past
<1>8. Types BY <1>1,<1>3,<1>4,<1>5,<1>6,<1>7 DEF Types, SourceTypes, StreamTypes, OtherTypes
<1>9. Logged = {}
 <2>1. history.log = <<>> BY <1>1 DEF NoHistory
 <2> QED BY <2>1 DEF Logged, ToSet
<1>10. /\ history.gapped = {} /\ history.acked = {} /\ history.lost = {} /\ history.dropped = {}
       /\ history.strays = {} /\ history.log = <<>> /\ history.overwritten = {} BY <1>1 DEF NoHistory
<1>11. /\ dest.kept = {} /\ dest.noted = {} /\ dest.receipts = {} /\ dest.checkpoint = 0 /\ dest.reset = 0
       /\ \A op \in Ops : dest.rec[op] = "none" BY <1>1 DEF EmptyStream
<1>12. RowsTrue
 <2> SUFFICES ASSUME NEW op \in Ops PROVE Said(op, rows[op]) /\ Placed(op, rows[op]) BY DEF RowsTrue
 <2>1. rows[op] = NoRow /\ source.sequence = 0 BY <1>1 DEF NoStream
 <2> QED BY <1>2,<1>3,<2>1 DEF Said, Placed, NoRow
<1>13. OneLease BY <1>1 DEF OneLease, Held, NoRow, Unresolved
<1>14. WorkersTrue
 <2> SUFFICES ASSUME NEW op \in Ops PROVE Learned(op, workers[op]) /\ Anchored(workers[op], rows[op])
  BY DEF WorkersTrue
 <2>1. workers[op] = Idle BY <1>1
 <2> QED BY <2>1, IdleLearned, IdleAnchored
<1>15. RecordsTrue BY <1>9,<1>10,<1>11 DEF RecordsTrue, RecordOf
<1>16. MessagesTrue /\ CallsTrue BY <1>1 DEF MessagesTrue, CallsTrue
<1>17. QueueTrue BY <1>1 DEF QueueTrue, CallOf, NoCall
<1>18. ResetTrue BY <1>1,<1>10,<1>11 DEF ResetTrue, Granted, NoReset, NoStream
<1>19. Facts
 <2>1. Known /\ EventsTrue BY <1>1,<1>9,<1>10, OperationsAssumption DEF Known, EventsTrue, NoStream
 <2>2. GapDeclared /\ NoneAfterMove /\ ResetIsFinal BY <1>10,<1>11 DEF GapDeclared, NoneAfterMove, ResetIsFinal
 <2>3. InOrder
  <3>1. 1 .. Len(history.log) - 1 = {} BY <1>10
  <3> QED BY <1>9,<3>1 DEF InOrder, Increasing
 <2> QED BY <2>1,<2>2,<2>3 DEF Facts
<1> QED BY <1>8,<1>12,<1>13,<1>14,<1>15,<1>16,<1>17,<1>18,<1>19 DEF IInv

LEMMA QuietKeeps == ASSUME IInv, UNCHANGED vars PROVE IInv'
<1>1. /\ UNCHANGED <<setting, rows, source, workers, mail, registry, dest, drainer, consumer, reset,
                     expired, faults, history>> BY DEF vars
<1>2. source \in Relayed /\ drainer \in Drain /\ reset \in Grant /\ faults \in 0 .. setting.faults
      /\ ResetTrue BY ResetTypes
<1>3. ResetTrue' BY <1>1,<1>2 DEF ResetTrue, Granted
<1> QED BY <1>1,<1>2,<1>3, GrantStep

LEMMA AttemptKeeps == ASSUME IInv, NEW op \in Ops, Attempt(op) \/ Retirement(op) PROVE IInv'
<1>1. CASE claim(op) BY <1>1, ClaimKeeps
<1>2. CASE PassOver(op) BY <1>2, PassOverKeeps
<1>3. CASE Alarmed /\ maintainStateEventOutbox(op) BY <1>3, MaintainKeeps
<1>4. CASE LeaseEnds(op) BY <1>4, LeaseEndsKeeps
<1>5. CASE interest(op) BY <1>5, InterestKeeps
<1>6. CASE registered(op) BY <1>6, RegisteredKeeps
<1>7. CASE acceptStateEventDeliveryOutcome(op) BY <1>7, AcceptKeeps
<1>8. CASE AppendRefused(op) BY <1>8, RefusedKeeps
<1>9. CASE AppendUnknown(op) BY <1>9, UnknownKeeps
<1>10. CASE confirmDestination(op) BY <1>10, ConfirmKeeps
<1>11. CASE outcome(op) BY <1>11, OutcomeKeeps
<1>12. CASE probeStateEventReceipt(op) BY <1>12, ProbeKeeps
<1>13. CASE retire(op) BY <1>13, RetireKeeps
<1>14. CASE deferCleanup(op) BY <1>14, DeferKeeps
<1>15. CASE RetireOrigin(op) BY <1>15, OriginKeeps
<1>16. CASE release(op) BY <1>16, ReleaseKeeps
<1>17. CASE delete(op) BY <1>17, DeleteKeeps
<1> QED BY <1>1,<1>2,<1>3,<1>4,<1>5,<1>6,<1>7,<1>8,<1>9,<1>10,<1>11,<1>12,<1>13,
           <1>14,<1>15,<1>16,<1>17 DEF Attempt, Retirement

LEMMA StreamKeeps == ASSUME IInv, Stream \/ Page PROVE IInv'
<1>1. ASSUME NEW m \in mail, append(m) PROVE IInv' BY <1>1, AppendKeeps
<1>2. CASE claimWakeup \/ drainProducerWakeup BY <1>2, DrainerKeeps
<1>3. CASE wakeStateEventRelay BY <1>3, WakeKeeps
<1>4. CASE streamAlarm BY <1>4, AlarmKeeps
<1>5. CASE CheckSource \/ registerSocket BY <1>5, PageKeeps
<1>6. CASE acknowledge BY <1>6, AcknowledgeKeeps
<1> QED BY <1>1,<1>2,<1>3,<1>4,<1>5,<1>6 DEF Stream, Page

LEMMA RegistryKeeps == ASSUME IInv, Registry PROVE IInv'
<1>1. ASSUME NEW m \in mail, RegistryTakes(m) PROVE IInv' BY <1>1, TakesKeeps
<1>2. CASE RegistryFences BY <1>2, FencesKeeps
<1>3. CASE RegistryDecides BY <1>3, DecidesKeeps
<1>4. CASE RegistryAnswers BY <1>4, AnswersKeeps
<1> QED BY <1>1,<1>2,<1>3,<1>4 DEF Registry

LEMMA ResetKeeps == ASSUME IInv, Reset PROVE IInv'
<1>1. CASE resetPrepare BY <1>1, PrepareKeeps
<1>2. CASE prepareCombinedGrant BY <1>2, MarkKeeps
<1>3. CASE resetCommit BY <1>3, CommitSourceKeeps
<1>4. CASE commitCombinedReset BY <1>4, CommitStreamKeeps
<1>5. CASE resetRelease BY <1>5, ReleaseSourceKeeps
<1>6. CASE finishCombinedReset BY <1>6, FinishKeeps
<1>7. CASE RetryReset BY <1>7, RetryKeeps
<1> QED BY <1>1,<1>2,<1>3,<1>4,<1>5,<1>6,<1>7 DEF Reset

LEMMA ChanceKeeps == ASSUME IInv, Chance PROVE IInv'
<1>1. ASSUME NEW op \in Ops, enqueueStateEventIntent(op) PROVE IInv' BY <1>1, EnqueueKeeps
<1>2. ASSUME NEW op \in Ops, AppendTimesOut(op) PROVE IInv' BY <1>2, TimesOutKeeps
<1>3. ASSUME NEW op \in Ops, pruneCombinedRecords(op) PROVE IInv' BY <1>3, PruneRecordsKeeps
<1>4. ASSUME NEW op \in Ops, ResolveBarrier(op) PROVE IInv' BY <1>4, ResolvesKeeps
<1>5. CASE issueGrant BY <1>5, IssueKeeps
<1>6. CASE BindingMoves BY <1>6, MovesKeeps
<1>7. CASE RegistryGivesUp BY <1>7, GivesUpKeeps
<1>8. CASE SourceRestarts BY <1>8, SourceRestartsKeeps
<1>9. CASE StreamRestarts BY <1>9, StreamRestartsKeeps
<1>10. ASSUME NEW op \in Ops, maintainStateEventOutbox(op) PROVE IInv' BY <1>10, MaintainKeeps
<1> QED BY <1>1,<1>2,<1>3,<1>4,<1>5,<1>6,<1>7,<1>8,<1>9,<1>10 DEF Chance

LEMMA NextIInv == ASSUME IInv, [Next]_vars PROVE IInv'
<1>1. ASSUME NEW op \in Ops, Attempt(op) \/ Retirement(op) \/ Expire(op) PROVE IInv'
 BY <1>1, AttemptKeeps, ExpireKeeps
<1>2. CASE Progress BY <1>1,<1>2, RegistryKeeps, StreamKeeps DEF Progress
<1>3. CASE Reset BY <1>3, ResetKeeps
<1>4. CASE Chance BY <1>4, ChanceKeeps
<1>5. CASE UNCHANGED vars BY <1>5, QuietKeeps
<1> QED BY <1>2,<1>3,<1>4,<1>5 DEF Next

LEMMA AlwaysIInv == Spec => []IInv
<1>1. Init => IInv BY InitIInv
<1>2. IInv /\ [Next]_vars => IInv' BY NextIInv
<1> QED BY <1>1,<1>2, PTL DEF Spec

\* At most one undecided row is leased.
LEMMA OneHeld ==
  ASSUME IInv
  PROVE  Cardinality({op \in Ops : rows[op].state \in Unresolved /\ rows[op].lease = "live"}) <= 1
<1> DEFINE S == {op \in Ops : rows[op].state \in Unresolved /\ rows[op].lease = "live"}
<1>1. \A o, p \in S : o = p BY DEF IInv, OneLease, Held
<1>2. CASE S = {} BY <1>2, FS_EmptySet
<1>3. CASE S # {}
 <2>1. PICK o \in S : TRUE BY <1>3
 <2>2. S = {o} BY <1>1
 <2>3. Cardinality({o}) = 1 BY FS_Singleton
 <2>4. Cardinality(S) = 1 BY <2>2,<2>3
 <2> QED BY <2>4
<1> QED BY <1>2,<1>3

LEMMA IInvTypeOK == ASSUME IInv PROVE TypeOK
<1>1. /\ setting \in Settings /\ faults \in 0 .. setting.faults /\ expired \subseteq Ops
      /\ rows \in [Ops -> Row] /\ workers \in [Ops -> Worker] /\ dest \in Destination
      /\ mail \in SUBSET Message /\ consumer \in {"off", "checked", "on"} BY InvTypes
<1>2. setting.total \in Nat BY <1>1, SettingTypes
<1>3. ASSUME NEW op \in Ops
      PROVE  /\ rows[op].state \in Cleanup \cup Unresolved \cup {"none", "gone"}
             /\ rows[op].due \in {Now, Never} \cup Ops /\ rows[op].lease \in {"none", "live", "lapsed"}
             /\ rows[op].tries + rows[op].control <= 2 * setting.total
             /\ rows[op].state = "none" <=> op > source.sequence
             /\ workers[op].step # "idle" /\ ~workers[op].probing => rows[op].lease = "live"
 <2>1. PICK row \in Row : row = rows[op] /\ Placed(op, row) /\ Anchored(workers[op], row)
  BY <1>1 DEF IInv, RowsTrue, WorkersTrue
 <2>2. row.tries \in Nat /\ row.control \in Nat /\ row.tries <= setting.total
       /\ row.control <= setting.total BY <2>1 DEF Row, Placed
 <2>3. row.tries + row.control <= 2 * setting.total BY <1>2,<2>2
 <2>4. workers[op].probing \in BOOLEAN BY <1>1 DEF Worker
 <2> QED BY <2>1,<2>3,<2>4 DEF Row, Placed, Anchored
<1>4. dest.kept \subseteq Ops /\ dest.noted \subseteq Ops BY <1>1 DEF Destination
<1>5. \A m \in mail : m.to \in {"registry", "stream"} /\ m.kind \in {"append", "fence"} BY <1>1 DEF Message
<1> QED BY <1>1,<1>3,<1>4,<1>5, OneHeld DEF TypeOK

LEMMA IInvOutcomesAgree == ASSUME IInv PROVE OutcomesAgree
<1>1. RowsTrue /\ Facts BY DEF IInv
<1>2. OneOutcome BY <1>1 DEF OneOutcome, RowsTrue, Said, Facts, EventsTrue
<1>3. NothingForgotten BY <1>1 DEF NothingForgotten, RowsTrue, Said, Ended
<1> QED BY <1>1,<1>2,<1>3 DEF OutcomesAgree, EveryOutcome, Facts

\* Every row is what its operation's history allows; an attempt in progress holds the
\* lease of its row, no row is tried more often than its ceilings say, and never are two
\* undecided rows leased at once, however often the owner restarts.
THEOREM TypeCorrect == Spec => []TypeOK
<1>1. IInv => TypeOK BY IInvTypeOK
<1> QED BY <1>1, AlwaysIInv, PTL

\* What the owner caches and the relay learns is what the stream recorded: one outcome
\* for every operation, unless a request that the stream began before its event was
\* committed wrote over the record; an event that is forgotten only after it ended, a gap
\* that stays declared until a reset covers it, nothing appended after the binding moved
\* or brought back by a reset, and the events in the order of the operations with no
\* earlier one undecided; for any number of operations, late appends and fences, reads that
\* are stale when written back, lost replies, restarts and resets.
THEOREM OutcomesAlwaysAgree == Spec => []OutcomesAgree
<1>1. IInv => OutcomesAgree BY IInvOutcomesAgree
<1> QED BY <1>1, AlwaysIInv, PTL
=============================================================================

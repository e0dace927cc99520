----------------------- MODULE StateEventCommitProofs -----------------------
(***************************************************************************)
(* Proofs about the commit of a state event, for every set of realms and   *)
(* callers, every number of attempts, rebindings, losses and ticks, and    *)
(* both kinds of operations.                                               *)
(*                                                                         *)
(* The argument: while the source event is fresh, of all attempts that     *)
(* were ever issued only the origin's own can still be applied, because an *)
(* owner refuses every older one (Dead); once it is not, none can.         *)
(***************************************************************************)
EXTENDS StateEventCommit, TLAPS

-----------------------------------------------------------------------------
(* The types of the records                                                  *)

SomeAttempt == Attempts \cup {NoAttempt}
SomeReceipt == [attempt : Attempts, at : Nat] \cup {NoReceipt}
Told == {"none", "committed", "refused", "expired", "error"}

OriginRecord == [state : {"absent", "prepared", "committed", "expired"}, attempt : SomeAttempt,
                 preparedAt : Nat, receipt : SomeReceipt, ownerConfirmed : BOOLEAN, pruneAt : Nat \cup {Never}]
OwnerRow == [fencedThrough : 0 .. maxAttempts, receipt : SomeReceipt, pendingDelivery : BOOLEAN,
             originConfirmed : BOOLEAN, pruneAt : Nat \cup {Never}]
AReply == [state : {"none", "absent", "fenced", "committed", "terminal", "error", "rejected", "refused"},
           receipt : SomeReceipt]
ACall == [kind : {"none", "lookup", "fence", "confirm", "commit", "registry"}, attempt : SomeAttempt, reply : AReply]
ACaller == [pc : {"idle", "sent", "recover", "retire", "expire", "prepare", "limit", "repin", "confirm",
                  "local", "registry"},
            op : {"lookup", "invoke", "repin", "retire"}, route : Routes \cup {NoRoute}, record : OriginRecord,
            call : ACall, told : Told]
AJob == [pc : {"idle", "stale", "commit", "lookup", "fence"}, by : Callers \cup {"nobody", "none"},
         attempt : SomeAttempt, resolves : {"none", "commit", "lifecycle", "rejected", "refused"}, call : ACall]

Types ==
  /\ setting \in Settings /\ kind \in Kinds /\ now \in 0 .. setting.time /\ losses \in 0 .. setting.losses
  /\ origin \in OriginRecord /\ owners \in [Realms -> OwnerRow] /\ retiring \subseteq Realms
  /\ callers \in [Callers -> ACaller] /\ binding \in Routes /\ barrier \in SomeAttempt
  /\ requests \subseteq [by : Callers \cup {"nobody"}, attempt : Attempts]
  /\ job \in AJob /\ stray \subseteq Calls

-----------------------------------------------------------------------------
(* The inductive invariant                                                   *)

\* The owner's row answers attempt a with something else than "absent".
Closed(a) == ownerValue(owners[a.route.realm], a).state # "absent"
\* Attempt a was not applied and will not be.
Dead(a) == applied # <<a>> /\ (Fresh => Closed(a))
\* What an owner's "fenced" says of attempt a to the origin.
Refused(a) == Dead(a) \/ (~Fresh /\ origin.state # "prepared")
\* Attempt a is the origin's, or it is dead.
Issued(a) == Fresh => origin.state # "absent" /\ (a = origin.attempt \/ Dead(a))
\* The receipt is of the attempt that was applied.
Won(receipt) == applied = <<receipt.attempt>>
\* The origin knows the receipt, or knew it for as long as it has to.
Cached == applied # <<>> /\ origin.state # "prepared"

\* What was applied is what the origin names, and its owner keeps the receipt.
AppliedInv ==
  /\ applied = <<>> \/ \E a \in Attempts : applied = <<a>>
  /\ applied # <<>> /\ origin.state # "absent" => origin.attempt = applied[1]
  /\ applied # <<>> /\ (Fresh \/ origin.state = "prepared") =>
       owners[applied[1].route.realm].receipt.attempt = applied[1]
  /\ retiring # {} => applied # <<>>

OriginInv ==
  /\ origin.state = "absent" => origin = Absent /\ (Fresh => applied = <<>>)
  /\ origin.state # "absent" => origin.attempt \in Attempts
  /\ origin.state = "prepared" => origin.pruneAt = Never
  /\ origin.state = "committed" => Won(origin.receipt)
  /\ origin.state = "expired" => applied = <<>> /\ ~Fresh
  /\ origin.pruneAt # Never => origin.pruneAt >= sourceLifetime

\* A row is deleted only after the source's lifetime, and a receipt only after
\* the origin knew it.
RowFine(r, row) ==
  /\ row.receipt # NoReceipt => /\ Won(row.receipt) /\ row.receipt.attempt.route.realm = r
                                /\ row.receipt.at <= setting.time
  /\ row.receipt # NoReceipt /\ row.pruneAt # Never => row.originConfirmed
  /\ row.pruneAt # Never => row.pruneAt >= sourceLifetime
  /\ row.originConfirmed => Cached
OwnersInv == \A r \in Realms : RowFine(r, owners[r])

\* An answer a caller has, to a call about attempt a.
ReplyFine(call) ==
  /\ Committed(call.reply) => Won(call.reply.receipt)
  /\ call.kind = "fence" /\ call.reply.state = "fenced" => Refused(call.attempt)
  /\ call.kind = "confirm" => Cached

\* Where a caller waits, for the answer to what.
PlaceFine(h) ==
  /\ h.pc \in {"idle", "sent", "prepare", "local"} => h.call = NoCall
  /\ h.pc \in {"recover", "retire", "limit"} => h.call.kind = "lookup"
  /\ h.pc \in {"expire", "repin"} => h.call.kind = "fence"
  /\ h.pc = "confirm" => h.call.kind = "confirm"
  /\ h.pc = "registry" => \/ h.call = NoCall
                          \/ h.call.kind = "registry" /\ h.call.reply.state \in {"committed", "terminal", "refused", "error"}
  /\ h.call.kind \in {"lookup", "fence", "confirm"} => h.record.state # "absent" /\ h.call.attempt = h.record.attempt
  /\ h.pc \in {"local", "registry"} => h.record.state # "absent"
  /\ h.pc # "idle" => h.route \in Routes
  /\ h.pc = "repin" => h.record.attempt.epoch < maxAttempts

CallerFine(h) ==
  /\ PlaceFine(h) /\ ReplyFine(h.call)
  /\ h.record.state = "committed" => Won(h.record.receipt)
  /\ h.record.state # "absent" => h.record.attempt \in Attempts /\ Issued(h.record.attempt)
  /\ h.pc = "expire" => ~Fresh
  /\ h.pc = "local" => GroupLocal
  /\ h.pc # "idle" /\ h.op = "retire" => applied # <<>>
  /\ h.told = "committed" => applied # <<>>
  /\ h.told = "expired" => applied = <<>> /\ ~Fresh
CallersInv == \A c \in Callers : CallerFine(callers[c])

\* The operation that holds the registry's queue: what it resolves or commits
\* is behind the barrier, what it fences as stale is not.
JobPlace(j) ==
  /\ j.pc = "idle" => j = Free
  /\ j.pc # "idle" => j.by \in Callers \cup {"nobody"} /\ j.call.attempt \in Attempts
  /\ j.pc = "stale" => j.call.kind = "fence"
  /\ j.pc \in {"commit", "lookup", "fence"} => j.call.kind = j.pc
  /\ j.pc = "commit" => j.attempt = j.call.attempt
  /\ j.pc # "idle" /\ j.resolves = "commit" => j.attempt \in Attempts
JobFine(j) ==
  /\ JobPlace(j)
  /\ j.pc # "idle" => Issued(j.call.attempt)
  /\ j.pc # "idle" /\ j.resolves = "commit" => Issued(j.attempt)
  /\ Committed(j.call.reply) => Won(j.call.reply.receipt) /\ (Fresh => Closed(j.call.attempt))
  /\ j.call.kind = "fence" /\ j.call.reply.state = "fenced" => (Fresh => Closed(j.call.attempt))
BarrierInv ==
  /\ barrier # NoAttempt => barrier.route = binding /\ Issued(barrier)
  /\ job.pc = "stale" => barrier = NoAttempt
  /\ job.pc \in {"commit", "lookup", "fence"} => barrier = job.call.attempt
JobInv == JobFine(job) /\ BarrierInv

\* A request of a caller that still waits for the registry, and its only one.
WaitsFor(c) == callers[c].pc = "registry" /\ callers[c].call = NoCall
QueueInv ==
  /\ \A q \in requests : Issued(q.attempt) /\ (q.by # "nobody" => WaitsFor(q.by))
  /\ \A p, q \in requests : p.by = q.by /\ p.by # "nobody" => p = q
  /\ job.pc # "idle" /\ job.by # "nobody" => WaitsFor(job.by) /\ \A q \in requests : q.by # job.by

StrayFine(s) == Issued(s.attempt) /\ (s.kind = "confirm" => Cached)
StrayInv == (\A s \in stray : StrayFine(s)) /\ NoUnguardedCommit

World == AppliedInv /\ OriginInv /\ OwnersInv
IInv == Types /\ World /\ CallersInv /\ JobInv /\ QueueInv /\ StrayInv

-----------------------------------------------------------------------------
(* What every step leaves true                                               *)

\* A step forward: what is dead, closed, issued or known stays so.
Onward ==
  /\ setting' = setting /\ kind' = kind
  /\ Fresh' => Fresh
  /\ applied # <<>> \/ ~Fresh => applied' = applied
  /\ Cached => Cached'
  /\ ~Fresh /\ origin.state # "prepared" => origin'.state # "prepared"
  /\ \A a \in Attempts : /\ Fresh' /\ Closed(a) => Closed(a)'
                         /\ Dead(a) => Dead(a)'
                         /\ Issued(a) => Issued(a)'

LEMMA Names ==
  /\ NoAttempt \notin Attempts /\ NoRoute \notin Routes /\ NoReceipt \in SomeReceipt
  /\ \A x \in SomeReceipt : x # NoReceipt => x \in [attempt : Attempts, at : Nat]
  /\ maxAttempts \in Nat \ {0} /\ sourceLifetime \in Nat \ {0} /\ receiptRetention \in Nat
  /\ receiptRetention >= sourceLifetime
BY LimitsAssumption, RealmsAssumption, RetentionAssumption
DEF NoAttempt, Attempts, Routes, NoRoute, NoReceipt, SomeReceipt

LEMMA NoneFine ==
  /\ Absent \in OriginRecord /\ NoCall \in ACall /\ NoRow \in OwnerRow /\ Free \in AJob /\ Quiet \in ACaller
  /\ Absent.state = "absent" /\ NoCall.kind = "none" /\ NoCall.reply.state = "none"
  /\ Free.pc = "idle" /\ Free.call = NoCall /\ Free.resolves = "none"
  /\ Quiet.pc = "idle" /\ Quiet.record = Absent /\ Quiet.call = NoCall /\ Quiet.op = "lookup" /\ Quiet.told = "none"
BY Names
DEF Absent, NoCall, NoRow, Free, Quiet, OriginRecord, ACall, OwnerRow, AJob, ACaller, AReply, SomeAttempt, SomeReceipt,
    Never, Told, NoReceipt

LEMMA CallerStays ==
  ASSUME NEW h \in ACaller, CallerFine(h), Onward
  PROVE  CallerFine(h)'
<1>1. \A x \in SomeReceipt : Won(x) => Won(x)' BY DEF Onward, Won
<1>2. \A a \in Attempts : Refused(a) => Refused(a)' BY DEF Onward, Refused
<1>3. ReplyFine(h.call)'
 <2>1. h.call.reply.receipt \in SomeReceipt BY DEF ACaller, ACall, AReply
 <2>2. h.call.kind = "fence" => h.call.attempt \in Attempts BY DEF CallerFine, PlaceFine
 <2> QED BY <1>1,<1>2,<2>1,<2>2 DEF CallerFine, ReplyFine, Onward
<1>4. PlaceFine(h)' BY DEF CallerFine, PlaceFine
<1>5. h.record.receipt \in SomeReceipt BY DEF ACaller, OriginRecord
<1> QED BY <1>1,<1>3,<1>4,<1>5 DEF CallerFine, Onward, GroupLocal

LEMMA JobStays ==
  ASSUME NEW j \in AJob, JobFine(j), Onward
  PROVE  JobFine(j)'
<1>1. \A x \in SomeReceipt : Won(x) => Won(x)' BY DEF Onward, Won
<1>2. j.call.reply.receipt \in SomeReceipt BY DEF AJob, ACall, AReply
<1>3. JobPlace(j)' BY DEF JobFine, JobPlace
<1>4. j.pc = "idle" => j.call.kind = "none" /\ j.call.reply.state = "none" BY NoneFine DEF JobFine, JobPlace
<1>5. j.pc # "idle" => j.call.attempt \in Attempts BY DEF JobFine, JobPlace
<1> QED BY <1>1,<1>2,<1>3,<1>4,<1>5 DEF JobFine, JobPlace, Onward, Committed

LEMMA StrayStays ==
  ASSUME NEW s \in Calls, StrayFine(s), Onward
  PROVE  StrayFine(s)'
BY DEF StrayFine, Onward, Calls

\* What the registry remembers, when it does nothing.
LEMMA RegistryStays ==
  ASSUME Types, JobInv, StrayInv, Onward, UNCHANGED <<job, barrier, binding>>, stray' \subseteq stray
  PROVE  JobInv' /\ StrayInv'
<1>1. JobFine(job)' BY JobStays DEF Types, JobInv
<1>2. barrier # NoAttempt => Issued(barrier)' BY DEF Types, SomeAttempt, JobInv, BarrierInv, Onward
<1>3. BarrierInv' BY <1>2 DEF JobInv, BarrierInv
<1>4. \A s \in stray : StrayFine(s)' BY StrayStays DEF Types, StrayInv
<1>5. NoUnguardedCommit'
 <2> SUFFICES ASSUME NEW s \in stray', s.kind = "commit", Fresh', ~(Closed(s.attempt)')
              PROVE  barrier' = s.attempt BY DEF NoUnguardedCommit, Closed
 <2>1. s \in stray /\ s.attempt \in Attempts BY DEF Types, Calls
 <2>2. Fresh /\ ~Closed(s.attempt) BY <2>1 DEF Onward
 <2> QED BY <2>1,<2>2 DEF StrayInv, NoUnguardedCommit, Closed
<1> QED BY <1>1,<1>3,<1>4,<1>5 DEF JobInv, StrayInv

-----------------------------------------------------------------------------
(* How the records of the operation may change                               *)

\* A record of the origin that a handler may hold.
Holds(record) ==
  /\ record \in OriginRecord /\ record.state # "absent"
  /\ record.attempt \in Attempts /\ Issued(record.attempt)
  /\ record.state = "committed" => Won(record.receipt)

\* A record the origin may store next.
OriginMove(o) ==
  /\ o \in OriginRecord /\ o.state # "absent" /\ o.attempt \in Attempts
  /\ o.pruneAt = Never \/ (o.state # "prepared" /\ o.pruneAt >= sourceLifetime)
  /\ o.state = "prepared" => origin.state = "prepared" \/ (Fresh /\ applied = <<>>)
  /\ o.state = "committed" => Won(o.receipt)
  /\ o.state = "expired" => applied = <<>> /\ ~Fresh
  /\ applied # <<>> => origin.state # "absent" /\ o.attempt = origin.attempt
  /\ Fresh /\ origin.state # "absent" => o.attempt = origin.attempt \/ Dead(origin.attempt)
OriginMoves == origin' = origin \/ \E o \in OriginRecord : OriginMove(o) /\ origin' = o

\* A row the owner in realm r may store next, unless it applies the mutation.
RowMove(r, row) ==
  /\ row \in OwnerRow /\ RowFine(r, row)
  /\ row.receipt = owners[r].receipt
  /\ row.fencedThrough >= owners[r].fencedThrough
OwnersMove == owners' = owners
              \/ \E r \in Realms, row \in OwnerRow : RowMove(r, row) /\ owners' = [owners EXCEPT ![r] = row]

LEMMA AttemptTypes ==
  ASSUME NEW a \in Attempts
  PROVE  /\ a.epoch \in 1 .. maxAttempts /\ a.route \in Routes /\ a.route.realm \in Realms
         /\ a.epoch \in Nat /\ a # NoAttempt
BY Names DEF Attempts, Routes

LEMMA ClosedMeans ==
  ASSUME NEW a
  PROVE  Closed(a) <=> \/ owners[a.route.realm].receipt # NoReceipt
                       \/ owners[a.route.realm].fencedThrough >= a.epoch
BY DEF Closed, ownerValue

LEMMA ClosedMeansNext ==
  ASSUME NEW a
  PROVE  Closed(a)' <=> \/ owners'[a.route.realm].receipt # NoReceipt
                        \/ owners'[a.route.realm].fencedThrough >= a.epoch
BY DEF Closed, ownerValue

\* No step but an application changes what is in the records of a committed
\* operation, and what was refused stays refused.
LEMMA Moves ==
  ASSUME Types, World, OriginMoves, OwnersMove,
         UNCHANGED <<setting, kind, now, applied>>, retiring' \subseteq retiring \/ applied # <<>>
  PROVE  /\ World' /\ Onward
         /\ origin' \in OriginRecord /\ owners' \in [Realms -> OwnerRow]
<1>1. origin \in OriginRecord /\ origin' \in OriginRecord BY DEF Types, OriginMoves, OriginMove
<1>2. owners \in [Realms -> OwnerRow] /\ owners' \in [Realms -> OwnerRow] BY DEF Types, OwnersMove
<1>3. \A r \in Realms : /\ owners'[r].receipt = owners[r].receipt
                        /\ owners'[r].fencedThrough >= owners[r].fencedThrough
 <2> SUFFICES ASSUME NEW r \in Realms
              PROVE  /\ owners'[r].receipt = owners[r].receipt
                     /\ owners'[r].fencedThrough >= owners[r].fencedThrough OBVIOUS
 <2>1. owners[r].fencedThrough \in Nat BY <1>2 DEF OwnerRow
 <2> QED BY <1>2,<2>1 DEF OwnersMove, RowMove
<1>4. \A a \in Attempts : Closed(a) => Closed(a)'
 <2> SUFFICES ASSUME NEW a \in Attempts, Closed(a) PROVE Closed(a)' OBVIOUS
 <2> DEFINE r == a.route.realm
 <2>1. r \in Realms /\ a.epoch \in Nat BY AttemptTypes
 <2>2. owners[r].fencedThrough \in Nat /\ owners'[r].fencedThrough \in Nat BY <1>2,<2>1 DEF OwnerRow
 <2> QED BY <1>3,<2>1,<2>2, ClosedMeans, ClosedMeansNext
<1>5. \A a \in Attempts : Dead(a) => Dead(a)' BY <1>4 DEF Dead, Fresh
<1>6. Cached => Cached' BY DEF Cached, OriginMoves, OriginMove
<1>7. \A a \in Attempts : Issued(a) => Issued(a)' BY <1>5 DEF Issued, OriginMoves, OriginMove, Fresh
<1>8. ~Fresh /\ origin.state # "prepared" => origin'.state # "prepared" BY DEF OriginMoves, OriginMove
<1>9. Onward BY <1>4,<1>5,<1>6,<1>7,<1>8 DEF Onward, Fresh
<1>10. AppliedInv'
 <2>1. applied' # <<>> /\ origin'.state # "absent" => origin'.attempt = applied'[1]
  BY DEF World, AppliedInv, OriginMoves, OriginMove
 <2>2. ASSUME applied' # <<>>, Fresh' \/ origin'.state = "prepared"
       PROVE  owners'[applied'[1].route.realm].receipt.attempt = applied'[1]
  <3>1. applied # <<>> /\ (Fresh \/ origin.state = "prepared") BY <2>2 DEF OriginMoves, OriginMove, Fresh
  <3>2. PICK a \in Attempts : applied = <<a>> BY <3>1 DEF World, AppliedInv
  <3>3. a.route.realm \in Realms /\ applied[1] = a /\ applied'[1] = a BY <3>2, AttemptTypes
  <3> QED BY <1>3,<3>1,<3>3 DEF World, AppliedInv
 <2>3. applied' = <<>> \/ \E a \in Attempts : applied' = <<a>> BY DEF World, AppliedInv
 <2>4. retiring' # {} => applied' # <<>> BY DEF World, AppliedInv
 <2> QED BY <2>1,<2>2,<2>3,<2>4 DEF AppliedInv
<1>11. OriginInv' BY DEF World, OriginInv, OriginMoves, OriginMove, Won, Fresh
<1>12. OwnersInv'
 <2> SUFFICES ASSUME NEW r \in Realms PROVE RowFine(r, owners[r])' BY DEF OwnersInv
 <2>1. RowFine(r, owners'[r]) BY DEF World, OwnersInv, OwnersMove, RowMove, Types
 <2> QED BY <1>6,<2>1 DEF RowFine, Won
<1> QED BY <1>1,<1>2,<1>9,<1>10,<1>11,<1>12 DEF World

\* While the source is fresh, the only attempt that its owner does not refuse
\* is the origin's, and nothing was applied.
LEMMA OpenAttempt ==
  ASSUME Types, World, NEW a \in Attempts, Issued(a), Fresh, ~Closed(a)
  PROVE  applied = <<>> /\ origin.state = "prepared" /\ a = origin.attempt
<1>1. origin.state # "absent" /\ a = origin.attempt BY DEF Issued, Dead
<1>2. applied = <<>>
 <2> SUFFICES ASSUME applied # <<>> PROVE FALSE OBVIOUS
 <2>1. owners[a.route.realm].receipt.attempt = a BY <1>1 DEF World, AppliedInv
 <2>2. owners[a.route.realm].receipt # NoReceipt BY <2>1, Names DEF NoReceipt
 <2> QED BY <2>2, ClosedMeans
<1> QED BY <1>1,<1>2 DEF Types, OriginRecord, World, OriginInv, Won

\* The application of the origin's attempt, with or without the origin's record
\* in the same transaction.
LEMMA Application ==
  ASSUME Types, World, NEW a \in Attempts, Issued(a), Fresh, ~Closed(a),
         NEW row \in OwnerRow, row.receipt = [attempt |-> a, at |-> now], row.pruneAt = Never,
         row.originConfirmed => origin'.state = "committed",
         owners' = [owners EXCEPT ![a.route.realm] = row], applied' = Append(applied, a),
         \/ origin' = origin
         \/ \E o \in OriginRecord : /\ origin' = o /\ o.state = "committed" /\ o.attempt = origin.attempt
                                    /\ o.receipt.attempt = a /\ o.pruneAt = Never,
         UNCHANGED <<setting, kind, now>>, retiring' \subseteq retiring
  PROVE  /\ World' /\ Onward /\ applied' = <<a>>
         /\ origin' \in OriginRecord /\ owners' \in [Realms -> OwnerRow]
<1>1. applied = <<>> /\ origin.state = "prepared" /\ a = origin.attempt BY OpenAttempt
<1>2. applied' = <<a>> /\ applied'[1] = a BY <1>1
<1>3. origin' \in OriginRecord /\ owners' \in [Realms -> OwnerRow] BY DEF Types
<1>4. a.route.realm \in Realms /\ owners'[a.route.realm] = row /\ row.receipt # NoReceipt
 BY AttemptTypes DEF Types, NoReceipt
<1>5. \A b \in Attempts : Closed(b) => Closed(b)'
 <2> SUFFICES ASSUME NEW b \in Attempts, Closed(b) PROVE Closed(b)' OBVIOUS
 <2>1. b.route.realm = a.route.realm \/ owners'[b.route.realm] = owners[b.route.realm] BY DEF Types
 <2> QED BY <1>4,<2>1, ClosedMeans, ClosedMeansNext
<1>6. \A b \in Attempts : Dead(b) => Dead(b)'
 <2> SUFFICES ASSUME NEW b \in Attempts, Dead(b) PROVE Dead(b)' OBVIOUS
 <2>1. Closed(b) /\ a # b BY DEF Dead
 <2> QED BY <1>2,<1>5,<2>1 DEF Dead
<1>7. \A b \in Attempts : Issued(b) => Issued(b)' BY <1>1,<1>6 DEF Issued, Fresh
<1>8. Onward BY <1>1,<1>5,<1>6,<1>7 DEF Onward, Fresh, Cached
<1>9. AppliedInv' BY <1>1,<1>2,<1>4 DEF AppliedInv
<1>10. OriginInv' BY <1>1,<1>2,<1>3 DEF World, OriginInv, Won, Fresh
<1>11. OwnersInv'
 <2> SUFFICES ASSUME NEW r \in Realms PROVE RowFine(r, owners[r])' BY DEF OwnersInv
 <2>1. CASE r = a.route.realm
  <3>1. now <= setting.time BY DEF Types
  <3> QED BY <1>2,<1>4,<2>1,<3>1 DEF RowFine, Won, Cached
 <2>2. CASE r # a.route.realm
  <3>1. owners'[r] = owners[r] /\ RowFine(r, owners[r]) BY <2>2 DEF Types, World, OwnersInv
  <3>2. owners[r].receipt = NoReceipt /\ ~owners[r].originConfirmed BY <1>1,<3>1 DEF RowFine, Won, Cached
  <3> QED BY <3>1,<3>2 DEF RowFine
 <2> QED BY <2>1,<2>2
<1> QED BY <1>2,<1>3,<1>8,<1>9,<1>10,<1>11 DEF World

-----------------------------------------------------------------------------
(* The origin's functions                                                    *)

LEMMA LatestType ==
  ASSUME NEW a \in Nat, NEW b \in Nat
  PROVE  Latest(a, b) \in Nat /\ Latest(a, b) >= a /\ Latest(a, b) >= b
BY DEF Latest

LEMMA HoldsOrigin ==
  ASSUME Types, World, origin.state # "absent"
  PROVE  Holds(origin)
BY DEF Types, World, OriginInv, Holds, Issued

\* What the origin names was applied, when anything was.
LEMMA AppliedIsOrigins ==
  ASSUME Types, World, applied # <<>>, origin.state # "absent"
  PROVE  applied = <<origin.attempt>>
<1>1. PICK a \in Attempts : applied = <<a>> BY DEF World, AppliedInv
<1> QED BY <1>1 DEF World, AppliedInv

LEMMA FinalizeMoves ==
  ASSUME Types, World, NEW record, NEW receipt \in SomeReceipt, Won(receipt), NEW terminal
  PROVE  LET o == finalizeStateEventOrigin(record, receipt, terminal)
         IN  o = origin \/ (o \in OriginRecord /\ OriginMove(o) /\ o.state = "committed")
<1> DEFINE p == IF terminal THEN Latest(origin.preparedAt, receipt.at) + receiptRetention ELSE Never
           o == [origin EXCEPT !.state = "committed", !.receipt = receipt, !.pruneAt = p]
<1>1. CASE origin.state = "absent" BY <1>1 DEF finalizeStateEventOrigin
<1>2. CASE origin.state # "absent"
 <2>1. finalizeStateEventOrigin(record, receipt, terminal) \in {origin, o} BY DEF finalizeStateEventOrigin
 <2>2. origin.preparedAt \in Nat /\ receipt.at \in Nat BY DEF Types, OriginRecord, SomeReceipt, NoReceipt
 <2>3. p = Never \/ (p \in Nat /\ p >= sourceLifetime)
  <3>1. Latest(origin.preparedAt, receipt.at) \in Nat BY <2>2, LatestType
  <3> QED BY <3>1, Names
 <2> HIDE DEF p
 <2>4. o \in OriginRecord /\ o.state = "committed" /\ o.receipt = receipt /\ o.attempt = origin.attempt /\ o.pruneAt = p
  BY <2>3 DEF Types, OriginRecord
 <2>5. origin.attempt \in Attempts BY <1>2 DEF World, OriginInv
 <2> HIDE DEF o
 <2>6. OriginMove(o) BY <1>2,<2>3,<2>4,<2>5 DEF OriginMove
 <2> QED BY <2>1,<2>4,<2>6
<1> QED BY <1>1,<1>2

LEMMA ConfirmedMoves ==
  ASSUME Types, World, NEW record
  PROVE  LET o == markStateEventOriginConfirmed(record)
         IN  o = origin \/ (o \in OriginRecord /\ OriginMove(o))
<1> DEFINE o == [origin EXCEPT !.ownerConfirmed = TRUE]
<1>1. CASE origin.state # "committed" BY <1>1 DEF markStateEventOriginConfirmed
<1>2. CASE origin.state = "committed"
 <2>1. /\ o \in OriginRecord /\ o.state = "committed" /\ o.receipt = origin.receipt
       /\ o.attempt = origin.attempt /\ o.pruneAt = origin.pruneAt BY <1>2 DEF Types, OriginRecord
 <2> HIDE DEF o
 <2>2. OriginMove(o) BY <1>2,<2>1 DEF OriginMove, World, OriginInv
 <2> QED BY <2>1,<2>2 DEF markStateEventOriginConfirmed, o
<1> QED BY <1>1,<1>2

LEMMA ExpiryMoves ==
  ASSUME Types, World, NEW record \in OriginRecord, Refused(record.attempt), ~Fresh
  PROVE  LET o == expireStateEventOrigin(record)
         IN  o = origin \/ (o \in OriginRecord /\ OriginMove(o) /\ o.state = "expired" /\ applied = <<>>)
<1> DEFINE p == origin.preparedAt + receiptRetention
           o == [origin EXCEPT !.state = "expired", !.pruneAt = p]
<1>1. CASE ~(origin.state = "prepared" /\ Current(record)) BY <1>1 DEF expireStateEventOrigin
<1>2. CASE origin.state = "prepared" /\ Current(record)
 <2>1. Dead(origin.attempt) BY <1>2 DEF Refused, Current
 <2>2. applied = <<>> BY <1>2,<2>1, AppliedIsOrigins DEF Dead
 <2>3. p \in Nat /\ p >= sourceLifetime BY Names DEF Types, OriginRecord
 <2> HIDE DEF p
 <2>4. o \in OriginRecord /\ o.state = "expired" /\ o.attempt = origin.attempt /\ o.pruneAt = p
  BY <2>3 DEF Types, OriginRecord
 <2>5. origin.attempt \in Attempts BY <1>2 DEF World, OriginInv
 <2> HIDE DEF o
 <2>6. OriginMove(o) BY <1>2,<2>2,<2>3,<2>4,<2>5 DEF OriginMove
 <2> QED BY <1>2,<2>2,<2>4,<2>6 DEF expireStateEventOrigin, o, p
<1> QED BY <1>1,<1>2

-----------------------------------------------------------------------------
(* A step of a request at the origin                                         *)

\* The request of c goes on: the origin and the owners move, c alone waits for
\* something else, and at most its own request joins the registry's queue.
Goes(c) ==
  /\ World' /\ Onward /\ origin' \in OriginRecord /\ retiring' \subseteq retiring
  /\ \E h \in ACaller :
       /\ callers' = [callers EXCEPT ![c] = h] /\ CallerFine(h)'
       /\ \/ requests' = requests
          \/ /\ h.pc = "registry" /\ h.call = NoCall
             /\ requests' = requests \cup {[by |-> c, attempt |-> h.record.attempt]}

LEMMA OneCaller ==
  ASSUME Types, CallersInv, Onward, NEW c \in Callers, NEW h \in ACaller, CallerFine(h)',
         callers' = [callers EXCEPT ![c] = h]
  PROVE  CallersInv' /\ callers' \in [Callers -> ACaller]
<1>1. callers' \in [Callers -> ACaller] BY DEF Types
<1>2. ASSUME NEW d \in Callers PROVE CallerFine(callers[d])'
 <2>1. CASE d = c
  <3>1. callers'[d] = h BY <2>1 DEF Types
  <3> QED BY <3>1 DEF CallerFine, PlaceFine, ReplyFine
 <2>2. CASE d # c
  <3>1. callers'[d] = callers[d] /\ callers[d] \in ACaller /\ CallerFine(callers[d]) BY <2>2 DEF Types, CallersInv
  <3>2. PICK g \in ACaller : g = callers[d] BY <3>1
  <3>3. CallerFine(g)' BY <3>1,<3>2, CallerStays
  <3> QED BY <3>1,<3>2,<3>3 DEF CallerFine, PlaceFine, ReplyFine
 <2> QED BY <2>1,<2>2
<1> QED BY <1>1,<1>2 DEF CallersInv

LEMMA QueueOfOne ==
  ASSUME Types, QueueInv, JobInv, Onward, NEW c \in Callers, ~WaitsFor(c), job' = job,
         NEW h \in ACaller, CallerFine(h)', callers' = [callers EXCEPT ![c] = h],
         \/ requests' = requests
         \/ /\ h.pc = "registry" /\ h.call = NoCall
            /\ requests' = requests \cup {[by |-> c, attempt |-> h.record.attempt]}
  PROVE  QueueInv' /\ requests' \subseteq [by : Callers \cup {"nobody"}, attempt : Attempts]
<1> DEFINE new == [by |-> c, attempt |-> h.record.attempt]
<1>1. \A d \in Callers : WaitsFor(d) => d # c /\ WaitsFor(d)' BY DEF WaitsFor, Types
<1>2. \A q \in requests : /\ q.by # "nobody" => q.by \in Callers /\ q.by # c /\ WaitsFor(q.by)'
                          /\ q.attempt \in Attempts /\ Issued(q.attempt)' BY <1>1 DEF Types, QueueInv, Onward
<1>3. job.pc # "idle" /\ job.by # "nobody" => job.by \in Callers /\ job.by # c /\ WaitsFor(job.by)'
 BY <1>1 DEF Types, AJob, JobInv, JobFine, JobPlace, QueueInv
<1>4. CASE requests' = requests BY <1>2,<1>3,<1>4 DEF Types, QueueInv
<1>5. CASE h.pc = "registry" /\ h.call = NoCall /\ requests' = requests \cup {new}
 <2>1. WaitsFor(c)' /\ new.attempt \in Attempts /\ Issued(new.attempt)'
  BY <1>5 DEF WaitsFor, Types, CallerFine, PlaceFine
 <2>2. new.by = c OBVIOUS
 <2> HIDE DEF new
 <2>3. new \in [by : Callers \cup {"nobody"}, attempt : Attempts] BY <2>1 DEF new
 <2>4. \A q \in requests' : Issued(q.attempt)' /\ (q.by # "nobody" => WaitsFor(q.by)') BY <1>2,<1>5,<2>1,<2>2
 <2>5. \A p, q \in requests' : p.by = q.by /\ p.by # "nobody" => p = q BY <1>2,<1>5,<2>2 DEF QueueInv
 <2>6. job.pc # "idle" /\ job.by # "nobody" => \A q \in requests' : q.by # job.by BY <1>3,<1>5,<2>2 DEF QueueInv
 <2> QED BY <1>3,<1>5,<2>3,<2>4,<2>5,<2>6 DEF Types, QueueInv
<1> QED BY <1>4,<1>5

LEMMA GoesOn ==
  ASSUME IInv, NEW c \in Callers, ~WaitsFor(c), Goes(c), UNCHANGED <<Elsewhere, stray>>,
         owners' \in [Realms -> OwnerRow]
  PROVE  IInv'
<1>1. PICK h \in ACaller :
        /\ callers' = [callers EXCEPT ![c] = h] /\ CallerFine(h)'
        /\ \/ requests' = requests
           \/ /\ h.pc = "registry" /\ h.call = NoCall
              /\ requests' = requests \cup {[by |-> c, attempt |-> h.record.attempt]} BY DEF Goes
<1>2. Types /\ CallersInv /\ QueueInv /\ JobInv /\ StrayInv /\ World' /\ Onward BY DEF IInv, Goes
<1>3. UNCHANGED <<setting, kind, now, binding, job, barrier, losses, stray>> BY DEF Elsewhere
<1>4. CallersInv' /\ callers' \in [Callers -> ACaller] BY <1>1,<1>2, OneCaller
<1>5. QueueInv' /\ requests' \subseteq [by : Callers \cup {"nobody"}, attempt : Attempts]
 BY <1>1,<1>2,<1>3, QueueOfOne
<1>6. JobInv' /\ StrayInv' BY <1>2,<1>3, RegistryStays
<1>7. Types' BY <1>2,<1>3,<1>4,<1>5 DEF Types, Goes
<1> QED BY <1>2,<1>4,<1>5,<1>6,<1>7 DEF IInv

-----------------------------------------------------------------------------
(* What a handler does next                                                  *)

LEMMA QuietCaller ==
  ASSUME Types, NEW told \in Told, told = "committed" => applied' # <<>>,
         told = "expired" => applied' = <<>> /\ ~Fresh'
  PROVE  LET h == [Quiet EXCEPT !.told = told] IN h \in ACaller /\ CallerFine(h)'
<1> DEFINE h == [Quiet EXCEPT !.told = told]
<1>1. Quiet \in ACaller BY NoneFine
<1>2. /\ h \in ACaller /\ h.pc = "idle" /\ h.record = Absent /\ h.call = NoCall /\ h.op = "lookup"
      /\ h.told = told BY <1>1, NoneFine DEF ACaller
<1> HIDE DEF h
<1>3. PlaceFine(h)' BY <1>2, NoneFine DEF PlaceFine
<1>4. ReplyFine(h.call)' BY <1>2, NoneFine DEF ReplyFine, Committed
<1>5. CallerFine(h)' BY <1>2,<1>3,<1>4, NoneFine DEF CallerFine
<1> QED BY <1>2,<1>5 DEF h

LEMMA AnswerGoes ==
  ASSUME Types, World', Onward, origin' \in OriginRecord, NEW c \in Callers, NEW told \in Told,
         told = "committed" => applied' # <<>>, told = "expired" => applied' = <<>> /\ ~Fresh',
         Answer(c, told), requests' = requests
  PROVE  Goes(c)
<1> DEFINE g == [Quiet EXCEPT !.told = told]
<1>1. g \in ACaller /\ CallerFine(g)' BY QuietCaller
<1>2. callers' = [callers EXCEPT ![c] = g] /\ retiring' \subseteq retiring BY DEF Answer
<1> HIDE DEF g
<1> QED BY <1>1,<1>2 DEF Goes

\* The places where a handler waits for an owner, and what it asked.
Asks(pc, method) ==
  \/ pc \in {"recover", "retire", "limit"} /\ method = "lookup"
  \/ pc \in {"expire", "repin"} /\ method = "fence"
  \/ pc = "confirm" /\ method = "confirm"

LEMMA AskType ==
  ASSUME NEW method \in {"lookup", "fence", "confirm", "commit", "registry"}, NEW a \in SomeAttempt
  PROVE  /\ Ask(method, a) \in ACall /\ Ask(method, a).kind = method /\ Ask(method, a).attempt = a
         /\ Ask(method, a).reply.state = "none" /\ Ask(method, a) # NoCall
<1>1. NoCall \in ACall /\ NoCall.kind = "none" /\ NoCall.reply.state = "none" BY NoneFine
<1> QED BY <1>1 DEF Ask, ACall

LEMMA HoldsFinal ==
  ASSUME NEW record, Holds(record), Onward
  PROVE  /\ record.state = "committed" => Won(record.receipt)'
         /\ record.attempt \in Attempts /\ Issued(record.attempt)'
<1>1. record.receipt \in SomeReceipt BY DEF Holds, OriginRecord
<1> QED BY <1>1 DEF Holds, Onward, Won

LEMMA AwaitGoes ==
  ASSUME Types, CallersInv, World', Onward, origin' \in OriginRecord,
         NEW c \in Callers, callers[c].pc # "idle", NEW pc, NEW method, Asks(pc, method), NEW record, Holds(record),
         pc = "confirm" => Cached', pc = "repin" => record.attempt.epoch < maxAttempts, pc = "expire" => ~Fresh',
         Await(c, pc, record, method), requests' = requests
  PROVE  Goes(c)
<1> DEFINE call == Ask(method, record.attempt)
           g == [callers[c] EXCEPT !.pc = pc, !.record = record, !.call = call]
<1>1. /\ call \in ACall /\ call.kind = method /\ call.attempt = record.attempt /\ call.reply.state = "none"
      /\ method \in {"lookup", "fence", "confirm"} BY AskType DEF Asks, Holds, SomeAttempt
<1>2. callers[c] \in ACaller /\ CallerFine(callers[c]) BY DEF Types, CallersInv
<1>3. callers' = [callers EXCEPT ![c] = g] /\ retiring' \subseteq retiring BY <1>2 DEF Await, Types
<1> HIDE DEF call
<1>g. g \in ACaller BY <1>1,<1>2 DEF ACaller, Holds, Asks
<1>h. PICK h \in ACaller : h = g BY <1>g
<1>4. /\ h.pc = pc /\ h.record = record /\ h.call = call /\ h.op = callers[c].op
      /\ h.route = callers[c].route /\ h.told = callers[c].told BY <1>1,<1>2,<1>h DEF ACaller, Holds, Asks
<1>k. callers' = [callers EXCEPT ![c] = h] /\ retiring' \subseteq retiring BY <1>3,<1>h
<1> HIDE DEF g
<1>5. PlaceFine(h)' BY <1>1,<1>2,<1>4 DEF PlaceFine, Asks, Holds, CallerFine
<1>6. ReplyFine(h.call)' BY <1>1,<1>4 DEF ReplyFine, Committed, Asks
<1>7. /\ record.state = "committed" => Won(record.receipt)'
      /\ record.attempt \in Attempts /\ Issued(record.attempt)' BY HoldsFinal
<1>9. callers[c].op = "retire" => applied' # <<>> BY <1>2 DEF CallerFine, Onward
<1>10. callers[c].told = "committed" => applied' # <<>> BY <1>2 DEF CallerFine, Onward
<1>11. callers[c].told = "expired" => applied' = <<>> /\ ~Fresh' BY <1>2 DEF CallerFine, Onward
<1>12. CallerFine(h)' BY <1>4,<1>5,<1>6,<1>7,<1>9,<1>10,<1>11 DEF CallerFine, Asks
<1> QED BY <1>4,<1>12,<1>k DEF Goes

\* The handler keeps its place in the group's code, holds a record and waits
\* for no owner.
LEMMA TurnGoes ==
  ASSUME Types, CallersInv, World', Onward, origin' \in OriginRecord, retiring' \subseteq retiring,
         NEW c \in Callers, callers[c].pc # "idle", NEW pc \in {"prepare", "local", "registry"},
         NEW record \in OriginRecord, record.state = "committed" => Won(record.receipt)',
         record.state # "absent" => record.attempt \in Attempts /\ Issued(record.attempt)',
         pc # "prepare" => record.state # "absent", pc = "local" => GroupLocal,
         callers' = [callers EXCEPT ![c] = [@ EXCEPT !.pc = pc, !.record = record, !.call = NoCall]],
         \/ requests' = requests
         \/ pc = "registry" /\ requests' = requests \cup {[by |-> c, attempt |-> record.attempt]}
  PROVE  Goes(c)
<1> DEFINE g == [callers[c] EXCEPT !.pc = pc, !.record = record, !.call = NoCall]
<1>1. NoCall \in ACall /\ NoCall.kind = "none" /\ NoCall.reply.state = "none" BY NoneFine
<1>2. callers[c] \in ACaller /\ CallerFine(callers[c]) BY DEF Types, CallersInv
<1>3. callers' = [callers EXCEPT ![c] = g] BY <1>2 DEF Types
<1>g. g \in ACaller BY <1>1,<1>2 DEF ACaller
<1>h. PICK h \in ACaller : h = g BY <1>g
<1>4. /\ h.pc = pc /\ h.record = record /\ h.call = NoCall /\ h.op = callers[c].op
      /\ h.route = callers[c].route /\ h.told = callers[c].told BY <1>1,<1>2,<1>h DEF ACaller
<1>k. callers' = [callers EXCEPT ![c] = h] BY <1>3,<1>h
<1> HIDE DEF g
<1>5. PlaceFine(h)' BY <1>1,<1>2,<1>4 DEF PlaceFine, CallerFine
<1>6. ReplyFine(h.call)' BY <1>1,<1>4 DEF ReplyFine, Committed
<1>9. callers[c].op = "retire" => applied' # <<>> BY <1>2 DEF CallerFine, Onward
<1>10. callers[c].told = "committed" => applied' # <<>> BY <1>2 DEF CallerFine, Onward
<1>11. callers[c].told = "expired" => applied' = <<>> /\ ~Fresh' BY <1>2 DEF CallerFine, Onward
<1>12. CallerFine(h)' BY <1>4,<1>5,<1>6,<1>9,<1>10,<1>11 DEF CallerFine, GroupLocal, Onward
<1> QED BY <1>4,<1>12,<1>k DEF Goes

-----------------------------------------------------------------------------
(* The parts of the origin's handlers                                        *)

LEMMA OriginSame ==
  ASSUME Types, World, UNCHANGED origin, UNCHANGED Untouched, retiring' \subseteq retiring
  PROVE  World' /\ Onward /\ origin' \in OriginRecord /\ applied' = applied /\ (Fresh' <=> Fresh)
BY Moves DEF OriginMoves, OwnersMove, Untouched, Elsewhere, Fresh

LEMMA RetiringShrinks ==
  ASSUME NEW c, NEW told, NEW pc, NEW record, NEW method, Answer(c, told) \/ Await(c, pc, record, method)
  PROVE  retiring' \subseteq retiring
BY DEF Answer, Await

\* An answer that leaves the records alone.
LEMMA JustAnswers ==
  ASSUME Types, World, NEW c \in Callers, NEW told \in Told,
         told = "committed" => applied # <<>>, told = "expired" => applied = <<>> /\ ~Fresh,
         Answer(c, told), UNCHANGED <<origin, requests>>, UNCHANGED Untouched
  PROVE  Goes(c)
<1>1. retiring' \subseteq retiring BY DEF Answer
<1>2. World' /\ Onward /\ origin' \in OriginRecord /\ applied' = applied /\ (Fresh' <=> Fresh) BY <1>1, OriginSame
<1> QED BY <1>2, AnswerGoes

\* A call that leaves the records alone.
LEMMA JustAwaits ==
  ASSUME Types, World, CallersInv, NEW c \in Callers, callers[c].pc # "idle", NEW pc, NEW method, Asks(pc, method),
         NEW record, Holds(record), pc # "confirm",
         pc = "repin" => record.attempt.epoch < maxAttempts, pc = "expire" => ~Fresh,
         Await(c, pc, record, method), UNCHANGED <<origin, requests>>, UNCHANGED Untouched
  PROVE  Goes(c)
<1>1. retiring' \subseteq retiring BY DEF Await
<1>2. World' /\ Onward /\ origin' \in OriginRecord /\ (Fresh' <=> Fresh) BY <1>1, OriginSame
<1> QED BY <1>2, AwaitGoes

LEMMA CacheReceiptGoes ==
  ASSUME Types, World, CallersInv, NEW c \in Callers, callers[c].pc # "idle", NEW record, Holds(record),
         NEW receipt \in SomeReceipt, Won(receipt), NEW terminal, NEW again,
         CacheReceipt(c, record, receipt, terminal, again), UNCHANGED requests, UNCHANGED Untouched
  PROVE  Goes(c)
<1> DEFINE o == finalizeStateEventOrigin(record, receipt, terminal)
<1>1. o = origin \/ (o \in OriginRecord /\ OriginMove(o) /\ o.state = "committed") BY FinalizeMoves
<1>2. applied # <<>> /\ "committed" \in Told BY DEF Won, Told
<1> HIDE DEF o
<1>3. CASE origin' = o /\ o.state = "committed" /\ Await(c, "confirm", record, "confirm")
 <2>1. retiring' \subseteq retiring BY <1>3 DEF Await
 <2>2. World' /\ Onward /\ origin' \in OriginRecord
  BY <1>1,<1>3,<2>1, Moves DEF OriginMoves, OwnersMove, Untouched, Elsewhere
 <2>3. Cached' BY <1>2,<1>3 DEF Cached, Untouched
 <2>4. PICK pc, method : pc = "confirm" /\ method = "confirm" OBVIOUS
 <2>5. Asks(pc, method) /\ Await(c, pc, record, method) BY <1>3,<2>4 DEF Asks
 <2> QED BY <2>2,<2>3,<2>4,<2>5, AwaitGoes
<1>4. CASE origin' = o /\ Answer(c, "committed")
 <2>1. retiring' \subseteq retiring BY <1>4 DEF Answer
 <2>2. World' /\ Onward /\ origin' \in OriginRecord /\ applied' = applied
  BY <1>1,<1>4,<2>1, Moves DEF OriginMoves, OwnersMove, Untouched, Elsewhere
 <2> QED BY <1>2,<1>4,<2>2, AnswerGoes
<1>5. CASE Answer(c, "committed") /\ UNCHANGED origin BY <1>2,<1>5, JustAnswers
<1> QED BY <1>3,<1>4,<1>5 DEF CacheReceipt, o

LEMMA AlreadyCommittedGoes ==
  ASSUME Types, World, CallersInv, NEW c \in Callers, callers[c].pc # "idle",
         AlreadyCommitted(c), UNCHANGED requests, UNCHANGED Untouched
  PROVE  Goes(c)
<1>1. origin.state = "committed" /\ CacheReceipt(c, origin, origin.receipt, FALSE, FALSE)
 BY DEF AlreadyCommitted, confirmed
<1>2. Holds(origin) /\ origin.receipt \in SomeReceipt /\ Won(origin.receipt)
 BY <1>1, HoldsOrigin DEF Holds, OriginRecord
<1>3. PICK record \in OriginRecord : record = origin BY <1>2 DEF Holds
<1>4. PICK receipt \in SomeReceipt : receipt = origin.receipt BY <1>2
<1>5. PICK no \in BOOLEAN : no = FALSE OBVIOUS
<1>6. Holds(record) /\ Won(receipt) /\ CacheReceipt(c, record, receipt, no, no) BY <1>1,<1>2,<1>3,<1>4,<1>5
<1> QED BY <1>6, CacheReceiptGoes

LEMMA SubmitGoes ==
  ASSUME Types, World, CallersInv, NEW c \in Callers, callers[c].pc # "idle", NEW record, Holds(record),
         Submit(c, record), UNCHANGED Untouched
  PROVE  Goes(c)
<1>1. ASSUME NEW pc \in {"local", "registry"}, pc = "local" => GroupLocal, UNCHANGED <<origin, retiring>>,
             callers' = [callers EXCEPT ![c] = [@ EXCEPT !.pc = pc, !.record = record, !.call = NoCall]],
             \/ requests' = requests
             \/ pc = "registry" /\ requests' = requests \cup {[by |-> c, attempt |-> record.attempt]}
      PROVE  Goes(c)
 <2>1. World' /\ Onward /\ origin' \in OriginRecord BY <1>1, OriginSame
 <2>2. /\ record.state = "committed" => Won(record.receipt)'
       /\ record.attempt \in Attempts /\ Issued(record.attempt)' BY <2>1, HoldsFinal
 <2>3. record \in OriginRecord /\ record.state # "absent" BY DEF Holds
 <2> QED BY <1>1,<2>1,<2>2,<2>3, TurnGoes
<1>2. CASE /\ GroupLocal
           /\ callers' = [callers EXCEPT ![c] = [@ EXCEPT !.pc = "local", !.record = record, !.call = NoCall]]
           /\ UNCHANGED <<origin, retiring, requests>>
 <2>1. PICK pc \in {"local", "registry"} : pc = "local" OBVIOUS
 <2> QED BY <1>1,<1>2,<2>1
<1>3. CASE /\ Answer(c, IF Current(record) /\ origin.state = "expired" THEN "expired" ELSE "error")
           /\ UNCHANGED <<origin, requests>>
 <2>1. PICK told \in Told : told = IF Current(record) /\ origin.state = "expired" THEN "expired" ELSE "error"
  BY DEF Told
 <2>2. told # "committed" /\ (told = "expired" => applied = <<>> /\ ~Fresh) BY <2>1 DEF World, OriginInv
 <2> QED BY <1>3,<2>1,<2>2, JustAnswers
<1>4. CASE AlreadyCommitted(c) /\ UNCHANGED requests BY <1>4, AlreadyCommittedGoes
<1>5. CASE /\ requests' = requests \cup {[by |-> c, attempt |-> record.attempt]}
           /\ callers' = [callers EXCEPT ![c] = [@ EXCEPT !.pc = "registry", !.record = record, !.call = NoCall]]
           /\ UNCHANGED <<origin, retiring>>
 <2>1. PICK pc \in {"local", "registry"} : pc = "registry" OBVIOUS
 <2> QED BY <1>1,<1>5,<2>1
<1> QED BY <1>2,<1>3,<1>4,<1>5 DEF Submit

LEMMA RepinStartGoes ==
  ASSUME Types, World, CallersInv, NEW c \in Callers, callers[c].pc # "idle",
         RepinStart(c), UNCHANGED Untouched
  PROVE  Goes(c)
<1>1. CASE AlreadyCommitted(c) /\ UNCHANGED requests BY <1>1, AlreadyCommittedGoes
<1>2. CASE Answer(c, IF origin.state = "expired" THEN "expired" ELSE "error") /\ UNCHANGED <<origin, requests>>
 <2>1. PICK told \in Told : told = IF origin.state = "expired" THEN "expired" ELSE "error" BY DEF Told
 <2>2. told # "committed" /\ (told = "expired" => applied = <<>> /\ ~Fresh) BY <2>1 DEF World, OriginInv
 <2> QED BY <1>2,<2>1,<2>2, JustAnswers
<1>3. ASSUME NEW pc, NEW method, Asks(pc, method), pc \in {"limit", "repin"}, Await(c, pc, origin, method),
             origin.state = "prepared", pc = "repin" => origin.attempt.epoch < maxAttempts,
             UNCHANGED <<origin, requests>>
      PROVE  Goes(c)
 <2>1. PICK record : record = origin OBVIOUS
 <2>2. Holds(record) /\ Await(c, pc, record, method) /\ (pc = "repin" => record.attempt.epoch < maxAttempts)
  BY <1>3,<2>1, HoldsOrigin
 <2> QED BY <1>3,<2>2, JustAwaits
<1>4. CASE origin.state = "prepared" /\ Await(c, "limit", origin, "lookup") /\ UNCHANGED <<origin, requests>>
 <2>1. PICK pc, method : pc = "limit" /\ method = "lookup" OBVIOUS
 <2> QED BY <1>3,<1>4,<2>1 DEF Asks
<1>5. CASE /\ origin.state = "prepared" /\ ~(origin.attempt.epoch >= maxAttempts)
           /\ Await(c, "repin", origin, "fence") /\ UNCHANGED <<origin, requests>>
 <2>1. PICK pc, method : pc = "repin" /\ method = "fence" OBVIOUS
 <2>2. origin.attempt.epoch < maxAttempts
  <3>1. origin.attempt \in Attempts BY <1>5 DEF World, OriginInv
  <3>2. origin.attempt.epoch \in Nat /\ maxAttempts \in Nat BY <3>1, AttemptTypes, Names
  <3> QED BY <1>5,<3>2
 <2> QED BY <1>3,<1>5,<2>1,<2>2 DEF Asks
<1> QED BY <1>1,<1>2,<1>4,<1>5 DEF RepinStart

LEMMA ProceedGoes ==
  ASSUME Types, World, CallersInv, NEW c \in Callers, callers[c].pc # "idle",
         NEW saved, Holds(saved) \/ saved = Absent, Proceed(c, saved), UNCHANGED Untouched
  PROVE  Goes(c)
<1>0. Absent.state = "absent" BY NoneFine
<1>1. ASSUME NEW told \in {"none", "error"}, Answer(c, told), UNCHANGED <<origin, requests>>
      PROVE  Goes(c) BY <1>1, JustAnswers DEF Told
<1>2. CASE Answer(c, "none") /\ UNCHANGED <<origin, requests>> BY <1>1,<1>2
<1>3. CASE Answer(c, "error") /\ UNCHANGED <<origin, requests>> BY <1>1,<1>3
<1>4. CASE /\ callers' = [callers EXCEPT ![c] = [@ EXCEPT !.pc = "prepare", !.call = NoCall]]
           /\ UNCHANGED <<origin, requests, retiring>>
 <2>1. World' /\ Onward /\ origin' \in OriginRecord BY <1>4, OriginSame
 <2>2. callers[c] \in ACaller /\ CallerFine(callers[c]) BY DEF Types, CallersInv
 <2>3. PICK record \in OriginRecord : record = callers[c].record BY <2>2 DEF ACaller
 <2>4. PICK pc \in {"prepare", "local", "registry"} : pc = "prepare" OBVIOUS
 <2>5. record.state # "absent" => Holds(record) BY <2>2,<2>3 DEF CallerFine, Holds
 <2>6. /\ record.state = "committed" => Won(record.receipt)'
       /\ record.state # "absent" => record.attempt \in Attempts /\ Issued(record.attempt)'
  BY <2>1,<2>5, HoldsFinal
 <2>7. callers' = [callers EXCEPT ![c] = [@ EXCEPT !.pc = pc, !.record = record, !.call = NoCall]]
  BY <1>4,<2>2,<2>3,<2>4 DEF Types, ACaller
 <2> QED BY <1>4,<2>1,<2>4,<2>6,<2>7, TurnGoes
<1>5. CASE saved.state = "prepared" /\ Submit(c, saved) BY <1>0,<1>5, SubmitGoes
<1>6. CASE RepinStart(c) BY <1>6, RepinStartGoes
<1> QED BY <1>2,<1>3,<1>4,<1>5,<1>6 DEF Proceed

-----------------------------------------------------------------------------
(* The steps of a request                                                    *)

Holding == {"recover", "retire", "limit", "expire", "repin", "confirm", "local", "registry"}

LEMMA Asker ==
  ASSUME Types, CallersInv, NEW c \in Callers
  PROVE  /\ callers[c] \in ACaller /\ CallerFine(callers[c])
         /\ callers[c].record \in OriginRecord /\ callers[c].call.reply.receipt \in SomeReceipt
         /\ callers[c].pc \in Holding => Holds(callers[c].record)
         /\ Committed(callers[c].call.reply) => Won(callers[c].call.reply.receipt)
<1>1. callers[c] \in ACaller /\ CallerFine(callers[c]) BY DEF Types, CallersInv
<1>2. callers[c].record \in OriginRecord /\ callers[c].call.reply.receipt \in SomeReceipt
 BY <1>1 DEF ACaller, ACall, AReply
<1>3. callers[c].pc \in Holding => callers[c].record.state # "absent" BY <1>1 DEF CallerFine, PlaceFine, Holding
<1>4. callers[c].pc \in Holding => Holds(callers[c].record) BY <1>1,<1>2,<1>3 DEF CallerFine, Holds
<1> QED BY <1>1,<1>2,<1>4 DEF CallerFine, ReplyFine

\* A handler that heard of a receipt caches it.
LEMMA ReceiptGoes ==
  ASSUME Types, World, CallersInv, NEW c \in Callers, callers[c].pc \in Holding, NEW again,
         Committed(callers[c].call.reply), NEW terminal,
         CacheReceipt(c, callers[c].record, callers[c].call.reply.receipt, terminal, again),
         UNCHANGED requests, UNCHANGED Untouched
  PROVE  Goes(c)
<1>1. PICK record \in OriginRecord : record = callers[c].record BY Asker
<1>2. PICK receipt \in SomeReceipt : receipt = callers[c].call.reply.receipt BY Asker
<1>3. Holds(record) /\ Won(receipt) /\ CacheReceipt(c, record, receipt, terminal, again) BY <1>1,<1>2, Asker
<1>4. callers[c].pc # "idle" BY DEF Holding
<1> QED BY <1>3,<1>4, CacheReceiptGoes

LEMMA ConfirmedGoes ==
  ASSUME Types, World, CallersInv, NEW c \in Callers, callers[c].pc \in Holding,
         Committed(callers[c].call.reply),
         confirmed(c, callers[c].record, callers[c].call.reply.receipt, callers[c].call.reply.state = "terminal"),
         UNCHANGED requests, UNCHANGED Untouched
  PROVE  Goes(c)
<1>1. PICK terminal : terminal = (callers[c].call.reply.state = "terminal") OBVIOUS
<1>2. PICK again : again = FALSE OBVIOUS
<1>3. CacheReceipt(c, callers[c].record, callers[c].call.reply.receipt, terminal, again)
 BY <1>1,<1>2 DEF confirmed
<1> QED BY <1>3, ReceiptGoes

\* An answer that says nothing of the outcome.
LEMMA ErrorGoes ==
  ASSUME Types, World, NEW c \in Callers, Answer(c, "error"), UNCHANGED <<origin, requests>>, UNCHANGED Untouched
  PROVE  Goes(c)
BY JustAnswers DEF Told

LEMMA ExpiredGoes ==
  ASSUME Types, World, NEW c \in Callers, Answer(c, "expired"), applied = <<>>, ~Fresh,
         UNCHANGED <<origin, requests>>, UNCHANGED Untouched
  PROVE  Goes(c)
BY JustAnswers DEF Told

LEMMA CommittedGoes ==
  ASSUME Types, World, NEW c \in Callers, Answer(c, "committed"), applied # <<>>,
         UNCHANGED <<origin, requests>>, UNCHANGED Untouched
  PROVE  Goes(c)
BY JustAnswers DEF Told

\* A handler asks about the origin's record, or about the one it holds.
LEMMA AwaitOrigin ==
  ASSUME Types, World, CallersInv, NEW c \in Callers, callers[c].pc # "idle", origin.state # "absent",
         NEW pc \in {"recover", "retire"}, Await(c, pc, origin, "lookup"),
         UNCHANGED <<origin, requests>>, UNCHANGED Untouched
  PROVE  Goes(c)
<1>1. PICK record, method : record = origin /\ method = "lookup" OBVIOUS
<1>2. Holds(record) /\ Asks(pc, method) /\ Await(c, pc, record, method) BY <1>1, HoldsOrigin DEF Asks
<1> QED BY <1>2, JustAwaits

LEMMA StartGoes ==
  ASSUME Types, World, CallersInv, NEW c \in Callers, NEW op \in {"lookup", "invoke", "repin", "retire"}, Start(c, op)
  PROVE  Goes(c)
<1>1. PICK r \in {[realm |-> w, revision |-> 0] : w \in retiring} \cup {binding} :
        /\ op = "retire" => r.realm \in retiring
        /\ callers' = [callers EXCEPT ![c] = [Quiet EXCEPT !.pc = "sent", !.op = op, !.route = r]] BY DEF Start
<1>2. World' /\ Onward /\ origin' \in OriginRecord /\ applied' = applied BY OriginSame DEF Start
<1>3. r \in Routes BY LimitsAssumption DEF Types, Routes
<1>4. PICK h \in ACaller : h = [Quiet EXCEPT !.pc = "sent", !.op = op, !.route = r] BY <1>3, NoneFine DEF ACaller
<1>5. /\ h.pc = "sent" /\ h.op = op /\ h.route = r /\ h.record = Absent /\ h.call = NoCall /\ h.told = "none"
 BY <1>4, NoneFine DEF ACaller
<1>6. PlaceFine(h)' BY <1>3,<1>5, NoneFine DEF PlaceFine
<1>7. ReplyFine(h.call)' BY <1>5, NoneFine DEF ReplyFine, Committed
<1>8. h.op = "retire" => applied' # <<>> BY <1>1,<1>2,<1>5 DEF World, AppliedInv
<1>9. CallerFine(h)' BY <1>5,<1>6,<1>7,<1>8, NoneFine DEF CallerFine
<1> QED BY <1>1,<1>2,<1>4,<1>9 DEF Goes, Start

LEMMA OutcomeOfOrigin ==
  ASSUME World
  PROVE  /\ origin.state = "committed" => applied # <<>>
         /\ origin.state = "expired" => applied = <<>> /\ ~Fresh
<1>1. origin.state = "committed" => \E a : applied = <<a>> BY DEF World, OriginInv, Won
<1> QED BY <1>1 DEF World, OriginInv

LEMMA OutcomeOfOriginNext ==
  ASSUME World'
  PROVE  /\ origin'.state = "committed" => applied' # <<>>
         /\ origin'.state = "expired" => applied' = <<>> /\ ~Fresh'
<1>1. origin'.state = "committed" => \E a : applied' = <<a>> BY DEF World, OriginInv, Won
<1> QED BY <1>1 DEF World, OriginInv

LEMMA RecoverGoes ==
  ASSUME Types, World, CallersInv, NEW c \in Callers, Recover(c)
  PROVE  Goes(c)
<1>1. callers[c].pc # "idle" /\ UNCHANGED Untouched BY DEF Recover
<1>2. CASE Proceed(c, Absent) BY <1>1,<1>2, ProceedGoes
<1>3. CASE origin.state = "expired" /\ Answer(c, "expired") /\ UNCHANGED <<origin, requests>>
 BY <1>1,<1>3, ExpiredGoes DEF World, OriginInv
<1>4. CASE AlreadyCommitted(c) /\ UNCHANGED requests BY <1>1,<1>4, AlreadyCommittedGoes
<1>5. CASE origin.state = "prepared" /\ Await(c, "recover", origin, "lookup") /\ UNCHANGED <<origin, requests>>
 <2>1. PICK pc \in {"recover", "retire"} : pc = "recover" OBVIOUS
 <2> QED BY <1>1,<1>5,<2>1, AwaitOrigin
<1> QED BY <1>2,<1>3,<1>4,<1>5 DEF Recover

LEMMA RetireOriginGoes ==
  ASSUME Types, World, CallersInv, NEW c \in Callers, RetireOrigin(c)
  PROVE  Goes(c)
<1>1. callers[c].pc = "sent" /\ UNCHANGED Untouched /\ UNCHANGED requests BY DEF RetireOrigin
<1>2. applied # <<>> BY Asker DEF CallerFine, RetireOrigin
<1>3. CASE Answer(c, "committed") /\ UNCHANGED origin BY <1>1,<1>2,<1>3, CommittedGoes
<1>4. CASE /\ origin.state = "committed" /\ Answer(c, "committed")
           /\ origin' = finalizeStateEventOrigin(origin, origin.receipt, TRUE)
 <2>1. origin.receipt \in SomeReceipt /\ Won(origin.receipt) BY <1>4 DEF Types, OriginRecord, World, OriginInv
 <2>2. PICK record, receipt, yes : record = origin /\ receipt = origin.receipt /\ yes = TRUE OBVIOUS
 <2>3. origin' = finalizeStateEventOrigin(record, receipt, yes) /\ receipt \in SomeReceipt /\ Won(receipt)
  BY <1>4,<2>1,<2>2
 <2>4. OriginMoves BY <2>3, FinalizeMoves DEF OriginMoves
 <2>5. World' /\ Onward /\ origin' \in OriginRecord /\ applied' = applied
  BY <1>1,<1>4,<2>4, RetiringShrinks, Moves DEF OwnersMove, Untouched, Elsewhere
 <2>6. "committed" \in Told BY DEF Told
 <2> QED BY <1>1,<1>2,<1>4,<2>5,<2>6, AnswerGoes
<1>5. CASE UNCHANGED origin /\ Answer(c, "error") BY <1>1,<1>5, ErrorGoes
<1>6. CASE origin.state # "absent" /\ UNCHANGED origin /\ Await(c, "retire", origin, "lookup")
 <2>1. PICK pc \in {"recover", "retire"} : pc = "retire" OBVIOUS
 <2> QED BY <1>1,<1>6,<2>1, AwaitOrigin
<1> QED BY <1>3,<1>4,<1>5,<1>6 DEF RetireOrigin

LEMMA RecoveredGoes ==
  ASSUME Types, World, CallersInv, NEW c \in Callers, Recovered(c)
  PROVE  Goes(c)
<1>1. callers[c].pc = "recover" /\ UNCHANGED Untouched BY DEF Recovered
<1>2. callers[c].pc # "idle" /\ callers[c].pc \in Holding /\ Holds(callers[c].record) BY <1>1, Asker DEF Holding
<1>3. CASE Answer(c, "error") /\ UNCHANGED <<origin, requests>> BY <1>1,<1>3, ErrorGoes
<1>4. CASE /\ Committed(callers[c].call.reply) /\ UNCHANGED requests
           /\ confirmed(c, callers[c].record, callers[c].call.reply.receipt, callers[c].call.reply.state = "terminal")
 BY <1>1,<1>2,<1>4, ConfirmedGoes
<1>5. CASE Proceed(c, callers[c].record)
 <2>1. PICK saved : saved = callers[c].record OBVIOUS
 <2> QED BY <1>1,<1>2,<1>5,<2>1, ProceedGoes
<1>6. CASE Proceed(c, Absent) BY <1>1,<1>2,<1>6, ProceedGoes
<1>7. CASE origin.state = "expired" /\ Answer(c, "expired") /\ UNCHANGED <<origin, requests>>
 BY <1>1,<1>7, ExpiredGoes DEF World, OriginInv
<1>8. CASE /\ origin.state \in {"prepared", "committed"}
           /\ Await(c, "retire", origin, "lookup") /\ UNCHANGED <<origin, requests>>
 <2>1. PICK pc \in {"recover", "retire"} : pc = "retire" OBVIOUS
 <2> QED BY <1>1,<1>2,<1>8,<2>1, AwaitOrigin
<1> QED BY <1>3,<1>4,<1>5,<1>6,<1>7,<1>8 DEF Recovered

LEMMA RetireLookedUpGoes ==
  ASSUME Types, World, CallersInv, NEW c \in Callers, RetireLookedUp(c)
  PROVE  Goes(c)
<1>1. callers[c].pc = "retire" /\ UNCHANGED Untouched /\ UNCHANGED requests BY DEF RetireLookedUp
<1>2. callers[c].pc # "idle" /\ callers[c].pc \in Holding /\ Holds(callers[c].record) BY <1>1, Asker DEF Holding
<1>3. CASE /\ Committed(callers[c].call.reply)
           /\ confirmed(c, callers[c].record, callers[c].call.reply.receipt, callers[c].call.reply.state = "terminal")
 BY <1>1,<1>2,<1>3, ConfirmedGoes
<1>4. CASE /\ callers[c].record.state = "committed"
           /\ confirmed(c, callers[c].record, callers[c].record.receipt, TRUE)
 <2>1. PICK record : record = callers[c].record OBVIOUS
 <2>2. PICK receipt \in SomeReceipt : receipt = record.receipt BY <1>2,<2>1 DEF Holds, OriginRecord
 <2>3. PICK yes, no : yes = TRUE /\ no = FALSE OBVIOUS
 <2>4. Holds(record) /\ Won(receipt) /\ CacheReceipt(c, record, receipt, yes, no)
  BY <1>2,<1>4,<2>1,<2>2,<2>3 DEF Holds, confirmed
 <2> QED BY <1>1,<1>2,<2>4, CacheReceiptGoes
<1>5. CASE Answer(c, "error") /\ UNCHANGED origin BY <1>1,<1>5, ErrorGoes
<1>6. CASE ~Fresh /\ Await(c, "expire", callers[c].record, "fence") /\ UNCHANGED origin
 <2>1. PICK record, pc, method : record = callers[c].record /\ pc = "expire" /\ method = "fence" OBVIOUS
 <2>2. Holds(record) /\ Asks(pc, method) /\ Await(c, pc, record, method) BY <1>2,<1>6,<2>1 DEF Asks
 <2> QED BY <1>1,<1>2,<1>6,<2>1,<2>2, JustAwaits
<1> QED BY <1>3,<1>4,<1>5,<1>6 DEF RetireLookedUp

LEMMA ExpireGoes ==
  ASSUME Types, World, CallersInv, NEW c \in Callers, Expire(c)
  PROVE  Goes(c)
<1>1. callers[c].pc = "expire" /\ UNCHANGED Untouched /\ UNCHANGED requests BY DEF Expire
<1>2. callers[c].pc # "idle" /\ callers[c].pc \in Holding /\ Holds(callers[c].record) BY <1>1, Asker DEF Holding
<1>3. CASE /\ Committed(callers[c].call.reply)
           /\ confirmed(c, callers[c].record, callers[c].call.reply.receipt, callers[c].call.reply.state = "terminal")
 BY <1>1,<1>2,<1>3, ConfirmedGoes
<1>4. CASE Answer(c, "error") /\ UNCHANGED origin BY <1>1,<1>4, ErrorGoes
<1>5. CASE /\ callers[c].call.reply.state = "fenced" /\ origin' = expireStateEventOrigin(callers[c].record)
           /\ Answer(c, CASE origin'.state = "expired" -> "expired"
                          [] origin'.state = "committed" -> "committed"
                          [] OTHER -> "error")
 <2>1. PICK record \in OriginRecord : record = callers[c].record BY <1>2 DEF Holds
 <2>2. Refused(record.attempt) /\ ~Fresh
  <3>1. callers[c].call.kind = "fence" /\ callers[c].call.attempt = record.attempt
   BY <1>1,<2>1, Asker DEF CallerFine, PlaceFine
  <3> QED BY <1>1,<1>5,<3>1, Asker DEF CallerFine, ReplyFine
 <2>3. PICK o : o = expireStateEventOrigin(record) OBVIOUS
 <2>4. o = origin \/ (o \in OriginRecord /\ OriginMove(o) /\ o.state = "expired" /\ applied = <<>>)
  BY <2>2,<2>3, ExpiryMoves
 <2>5. origin' = o BY <1>5,<2>1,<2>3
 <2>6. retiring' \subseteq retiring BY <1>5 DEF Answer
 <2>7. World' /\ Onward /\ origin' \in OriginRecord
  BY <1>1,<2>4,<2>5,<2>6, Moves DEF OriginMoves, OwnersMove, Untouched, Elsewhere
 <2>8. ASSUME NEW told \in Told, Answer(c, told), told = "committed" => origin'.state = "committed",
              told = "expired" => origin'.state = "expired"
       PROVE  Goes(c)
  <3>1. told = "committed" => applied' # <<>> BY <2>7,<2>8, OutcomeOfOriginNext
  <3>2. told = "expired" => applied' = <<>> /\ ~Fresh' BY <2>7,<2>8, OutcomeOfOriginNext
  <3> QED BY <1>1,<2>7,<2>8,<3>1,<3>2, AnswerGoes
 <2>9. CASE origin'.state = "expired" BY <1>5,<2>8,<2>9 DEF Told
 <2>10. CASE origin'.state = "committed" BY <1>5,<2>8,<2>10 DEF Told
 <2>11. CASE ~(origin'.state = "expired") /\ ~(origin'.state = "committed") BY <1>5,<2>8,<2>11 DEF Told
 <2> QED BY <2>9,<2>10,<2>11
<1> QED BY <1>3,<1>4,<1>5 DEF Expire

LEMMA PrepareGoes ==
  ASSUME Types, World, CallersInv, NEW c \in Callers, Prepare(c)
  PROVE  Goes(c)
<1>1. callers[c].pc = "prepare" /\ callers[c].pc # "idle" /\ UNCHANGED Untouched BY DEF Prepare
<1>2. callers[c] \in ACaller /\ callers[c].route \in Routes /\ callers[c].call = NoCall
 BY <1>1, Asker DEF CallerFine, PlaceFine
<1>3. CASE /\ origin.state = "absent" /\ Fresh
           /\ LET record == [Absent EXCEPT !.state = "prepared", !.preparedAt = now,
                               !.attempt = [epoch |-> 1, route |-> callers[c].route]]
              IN  /\ origin' = record
                  /\ callers' = [callers EXCEPT ![c].pc = IF GroupLocal THEN "local" ELSE "registry",
                                                ![c].record = record]
                  /\ requests' = IF GroupLocal THEN requests
                                 ELSE requests \cup {[by |-> c, attempt |-> record.attempt]}
                  /\ UNCHANGED retiring
 <2> DEFINE a == [epoch |-> 1, route |-> callers[c].route]
            o == [Absent EXCEPT !.state = "prepared", !.preparedAt = now, !.attempt = a]
 <2>1. a \in Attempts /\ now \in Nat BY <1>2, Names, LimitsAssumption DEF Attempts, Types
 <2> HIDE DEF a
 <2>2. o \in OriginRecord BY <2>1, NoneFine DEF OriginRecord, SomeAttempt
 <2>3. PICK record \in OriginRecord : record = o BY <2>2
 <2>4. record.state = "prepared" /\ record.attempt = a /\ record.pruneAt = Never BY <2>3 DEF Absent
 <2>5. PICK pc \in {"prepare", "local", "registry"} : pc = IF GroupLocal THEN "local" ELSE "registry" OBVIOUS
 <2>6. /\ origin' = record /\ UNCHANGED retiring
       /\ callers' = [callers EXCEPT ![c].pc = pc, ![c].record = record]
       /\ \/ requests' = requests
          \/ pc = "registry" /\ requests' = requests \cup {[by |-> c, attempt |-> record.attempt]}
  BY <1>3,<2>3,<2>5 DEF a
 <2>7. callers' = [callers EXCEPT ![c] = [@ EXCEPT !.pc = pc, !.record = record, !.call = NoCall]]
  BY <1>2,<2>6 DEF Types, ACaller
 <2>8. OriginMove(record) BY <1>3,<2>1,<2>4 DEF OriginMove, World, OriginInv
 <2>9. World' /\ Onward /\ origin' \in OriginRecord
  BY <1>1,<2>6,<2>8, Moves DEF OriginMoves, OwnersMove, Untouched, Elsewhere
 <2>10. record.attempt \in Attempts /\ Issued(record.attempt)' BY <2>1,<2>4,<2>6 DEF Issued
 <2>11. (pc # "prepare" => record.state # "absent") /\ (pc = "local" => GroupLocal)
        /\ (record.state = "committed" => Won(record.receipt)') BY <2>4,<2>5
 <2> QED BY <1>1,<2>6,<2>7,<2>9,<2>10,<2>11, TurnGoes
<1>4. CASE Answer(c, "error") /\ UNCHANGED <<origin, requests>> BY <1>1,<1>4, ErrorGoes
<1>5. CASE origin.state = "expired" /\ Answer(c, "expired") /\ UNCHANGED <<origin, requests>>
 BY <1>1,<1>5, ExpiredGoes DEF World, OriginInv
<1>6. CASE origin.state = "committed" /\ Answer(c, "committed") /\ UNCHANGED <<origin, requests>>
 BY <1>1,<1>6, CommittedGoes, OutcomeOfOrigin
<1>7. CASE origin.state = "prepared" /\ Submit(c, origin)
 <2>1. PICK record : record = origin OBVIOUS
 <2>2. Holds(record) /\ Submit(c, record) BY <1>7,<2>1, HoldsOrigin
 <2> QED BY <1>1,<2>2, SubmitGoes
<1> QED BY <1>3,<1>4,<1>5,<1>6,<1>7 DEF Prepare

LEMMA AtLimitGoes ==
  ASSUME Types, World, CallersInv, NEW c \in Callers, AtLimit(c)
  PROVE  Goes(c)
<1>1. callers[c].pc = "limit" /\ UNCHANGED Untouched /\ UNCHANGED requests BY DEF AtLimit
<1>2. callers[c].pc \in Holding BY <1>1 DEF Holding
<1>3. CASE /\ Committed(callers[c].call.reply)
           /\ confirmed(c, callers[c].record, callers[c].call.reply.receipt, callers[c].call.reply.state = "terminal")
 BY <1>1,<1>2,<1>3, ConfirmedGoes
<1>4. CASE Answer(c, "error") /\ UNCHANGED origin BY <1>1,<1>4, ErrorGoes
<1> QED BY <1>3,<1>4 DEF AtLimit

LEMMA RepinGoes ==
  ASSUME Types, World, CallersInv, NEW c \in Callers, repinStateEventOrigin(c)
  PROVE  Goes(c)
<1>1. callers[c].pc = "repin" /\ callers[c].pc # "idle" /\ UNCHANGED Untouched BY DEF repinStateEventOrigin
<1>2. callers[c].pc \in Holding /\ callers[c] \in ACaller /\ callers[c].route \in Routes
 BY <1>1, Asker DEF Holding, CallerFine, PlaceFine
<1>3. CASE /\ Committed(callers[c].call.reply) /\ UNCHANGED requests
           /\ confirmed(c, callers[c].record, callers[c].call.reply.receipt, callers[c].call.reply.state = "terminal")
 BY <1>1,<1>2,<1>3, ConfirmedGoes
<1>4. CASE Answer(c, "error") /\ UNCHANGED <<origin, requests>> BY <1>1,<1>4, ErrorGoes
<1>5. CASE origin.state = "committed" /\ Answer(c, "committed") /\ UNCHANGED <<origin, requests>>
 BY <1>1,<1>5, CommittedGoes, OutcomeOfOrigin
<1> DEFINE Fenced == callers[c].call.reply.state = "fenced"
<1>6. Fenced => Refused(callers[c].record.attempt) /\ callers[c].record.attempt.epoch < maxAttempts
 BY <1>1, Asker DEF CallerFine, PlaceFine, ReplyFine
<1>7. Fenced /\ origin.state = "prepared" /\ Current(callers[c].record) => applied = <<>> /\ Dead(origin.attempt)
 BY <1>6, AppliedIsOrigins DEF Refused, Dead, Current
<1>8. CASE /\ Fenced /\ Answer(c, "expired") /\ UNCHANGED <<origin, requests>>
           /\ origin.state = "expired" \/ (origin.state = "prepared" /\ Current(callers[c].record) /\ ~Fresh)
 BY <1>1,<1>7,<1>8, ExpiredGoes DEF World, OriginInv
<1>9. CASE origin.state = "prepared" /\ Submit(c, origin)
 <2>1. PICK record : record = origin OBVIOUS
 <2>2. Holds(record) /\ Submit(c, record) BY <1>9,<2>1, HoldsOrigin
 <2> QED BY <1>1,<2>2, SubmitGoes
<1>10. CASE LET record == [origin EXCEPT !.attempt = [epoch |-> @.epoch + 1, route |-> callers[c].route]]
            IN  /\ Fenced /\ origin.state = "prepared" /\ Current(callers[c].record) /\ Fresh
                /\ origin' = record
                /\ requests' = requests \cup {[by |-> c, attempt |-> record.attempt]}
                /\ callers' = [callers EXCEPT ![c] = [@ EXCEPT !.pc = "registry", !.record = record, !.call = NoCall]]
                /\ UNCHANGED retiring
 <2> DEFINE a == [epoch |-> origin.attempt.epoch + 1, route |-> callers[c].route]
            o == [origin EXCEPT !.attempt = a]
 <2>1. a \in Attempts
  <3>1. origin.attempt \in Attempts BY <1>10 DEF World, OriginInv
  <3>2. origin.attempt.epoch < maxAttempts BY <1>6,<1>10 DEF Current
  <3>3. origin.attempt.epoch \in Nat /\ maxAttempts \in Nat BY <3>1, AttemptTypes, Names
  <3>4. origin.attempt.epoch + 1 \in 1 .. maxAttempts BY <3>2,<3>3
  <3> QED BY <1>2,<3>4 DEF Attempts
 <2>2. o = [origin EXCEPT !.attempt = [epoch |-> @.epoch + 1, route |-> callers[c].route]] OBVIOUS
 <2> HIDE DEF a
 <2>3. o \in OriginRecord BY <2>1 DEF Types, OriginRecord, SomeAttempt
 <2>4. PICK record \in OriginRecord : record = o BY <2>3
 <2>5. record.state = "prepared" /\ record.attempt = a /\ record.pruneAt = origin.pruneAt
  BY <1>10,<2>4 DEF Types, OriginRecord
 <2>6. PICK pc \in {"prepare", "local", "registry"} : pc = "registry" OBVIOUS
 <2>7. /\ origin' = record /\ UNCHANGED retiring
       /\ requests' = requests \cup {[by |-> c, attempt |-> record.attempt]}
       /\ callers' = [callers EXCEPT ![c] = [@ EXCEPT !.pc = pc, !.record = record, !.call = NoCall]]
  BY <1>10,<2>2,<2>4,<2>6
 <2>8. OriginMove(record) BY <1>7,<1>10,<2>1,<2>5 DEF OriginMove, World, OriginInv
 <2>9. World' /\ Onward /\ origin' \in OriginRecord
  BY <1>1,<2>7,<2>8, Moves DEF OriginMoves, OwnersMove, Untouched, Elsewhere
 <2>10. record.attempt \in Attempts /\ Issued(record.attempt)' BY <2>1,<2>5,<2>7 DEF Issued
 <2>11. record.state # "absent" /\ pc # "local" /\ record.state # "committed" BY <2>5,<2>6
 <2> QED BY <1>1,<2>6,<2>7,<2>9,<2>10,<2>11, TurnGoes
<1> QED BY <1>3,<1>4,<1>5,<1>8,<1>9,<1>10 DEF repinStateEventOrigin

LEMMA OwnerConfirmedGoes ==
  ASSUME Types, World, CallersInv, NEW c \in Callers, OwnerConfirmed(c)
  PROVE  Goes(c)
<1>1. /\ callers[c].pc = "confirm" /\ UNCHANGED Untouched /\ UNCHANGED requests
      /\ Answer(c, "committed") BY DEF OwnerConfirmed
<1>2. applied # <<>> BY <1>1, Asker DEF CallerFine, PlaceFine, ReplyFine, Cached
<1>3. PICK record, o : record = callers[c].record /\ o = markStateEventOriginConfirmed(record) OBVIOUS
<1>4. o = origin \/ (o \in OriginRecord /\ OriginMove(o)) BY <1>3, ConfirmedMoves
<1>5. origin' = origin \/ origin' = o BY <1>3 DEF OwnerConfirmed
<1>6. retiring' \subseteq retiring BY <1>1 DEF Answer
<1>7. World' /\ Onward /\ origin' \in OriginRecord /\ applied' = applied
 BY <1>1,<1>4,<1>5,<1>6, Moves DEF OriginMoves, OwnersMove, Untouched, Elsewhere
<1>8. "committed" \in Told BY DEF Told
<1> QED BY <1>1,<1>2,<1>7,<1>8, AnswerGoes

LEMMA RegistryAnsweredGoes ==
  ASSUME Types, World, CallersInv, NEW c \in Callers, RegistryAnswered(c)
  PROVE  Goes(c)
<1>1. /\ callers[c].pc = "registry" /\ Answered(callers[c].call)
      /\ UNCHANGED Untouched /\ UNCHANGED requests BY DEF RegistryAnswered
<1>2. callers[c].pc \in Holding BY <1>1 DEF Holding
<1>3. CASE /\ Committed(callers[c].call.reply)
           /\ CacheReceipt(c, callers[c].record, callers[c].call.reply.receipt, FALSE, TRUE)
 <2>1. PICK terminal, again : terminal = FALSE /\ again = TRUE OBVIOUS
 <2> QED BY <1>1,<1>2,<1>3,<2>1, ReceiptGoes
<1>4. CASE ~Committed(callers[c].call.reply) /\ Answer(c, callers[c].call.reply.state) /\ UNCHANGED origin
 <2>1. callers[c].call.reply.state \in {"committed", "terminal", "refused", "error"}
  BY <1>1, Asker, NoneFine DEF CallerFine, PlaceFine, Answered
 <2>2. PICK told \in {"refused", "error"} : told = callers[c].call.reply.state BY <1>4,<2>1 DEF Committed
 <2> QED BY <1>1,<1>4,<2>2, JustAnswers DEF Told
<1> QED BY <1>3,<1>4 DEF RegistryAnswered

-----------------------------------------------------------------------------
(* The owners                                                                *)

LEMMA OwnerValue ==
  ASSUME NEW o \in OwnerRow, NEW a
  PROVE  /\ ownerValue(o, a) \in AReply /\ ownerValue(o, a).receipt = o.receipt
         /\ ownerValue(o, a).state \in {"absent", "fenced", "committed", "terminal"}
         /\ Committed(ownerValue(o, a)) <=> o.receipt # NoReceipt
         /\ ownerValue(o, a).state = "absent" <=> o.receipt = NoReceipt /\ ~(o.fencedThrough >= a.epoch)
BY DEF ownerValue, OwnerRow, AReply, Committed

LEMMA RefusalType ==
  ASSUME NEW state \in {"error", "rejected", "fenced", "refused"}
  PROVE  Refusal(state) \in AReply /\ Refusal(state).state = state /\ ~Committed(Refusal(state))
BY Names DEF Refusal, AReply, Committed

LEMMA RetirementTimes ==
  ASSUME Types, NEW row \in OwnerRow
  PROVE  /\ RetirementTime(row) \in Nat \cup {Never}
         /\ RetirementTime(row) # Never => row.originConfirmed /\ RetirementTime(row) >= sourceLifetime
<1>1. row.receipt.at \in Nat /\ now \in Nat BY LimitsAssumption DEF OwnerRow, SomeReceipt, NoReceipt, Types
<1>2. row.receipt.at + receiptRetention \in Nat /\ row.receipt.at + receiptRetention >= sourceLifetime
 BY <1>1, Names
<1>3. Latest(row.receipt.at + receiptRetention, now) \in Nat /\ Latest(row.receipt.at + receiptRetention, now) >= sourceLifetime
 <2>1. Latest(row.receipt.at + receiptRetention, now) >= row.receipt.at + receiptRetention
  BY <1>1,<1>2, LatestType
 <2>2. Latest(row.receipt.at + receiptRetention, now) \in Nat BY <1>1,<1>2, LatestType
 <2> QED BY <1>2,<2>1,<2>2, Names
<1> QED BY <1>3 DEF RetirementTime

\* A call that applies nothing leaves a row that goes on from the one it found.
LEMMA FenceOutcome ==
  ASSUME Types, World, NEW a \in Attempts, NEW x \in fenceStateEventOwner(owners[a.route.realm], a)
  PROVE  /\ x.applies = FALSE /\ RowMove(a.route.realm, x.row) /\ x.reply \in AReply
         /\ x.reply.state \in {"absent", "fenced", "committed", "terminal"}
         /\ Committed(x.reply) => x.reply.receipt # NoReceipt /\ x.reply.receipt = owners[a.route.realm].receipt
         /\ x.reply.state = "fenced" => owners[a.route.realm].receipt = NoReceipt /\ x.row.fencedThrough >= a.epoch
<1> DEFINE r == a.route.realm
<1>1. PICK o \in OwnerRow : o = owners[r] BY AttemptTypes DEF Types
<1>2. RowFine(r, o) /\ o.fencedThrough \in Nat /\ a.epoch \in Nat /\ a.epoch \in 1 .. maxAttempts
 BY <1>1, AttemptTypes DEF World, OwnersInv, OwnerRow
<1>3. CASE o.receipt # NoReceipt
 <2>1. x = Leaves(o, ownerValue(o, a)) BY <1>1,<1>3 DEF fenceStateEventOwner, lookupStateEventOwner
 <2>2. x.applies = FALSE /\ x.row = o /\ x.reply = ownerValue(o, a) BY <2>1 DEF Leaves
 <2>3. Committed(x.reply) /\ x.reply.receipt = o.receipt /\ x.reply \in AReply
       /\ x.reply.state \in {"absent", "fenced", "committed", "terminal"} BY <1>3,<2>2, OwnerValue
 <2> QED BY <1>1,<1>2,<1>3,<2>2,<2>3 DEF RowMove, Committed
<1>4. CASE o.receipt = NoReceipt
 <2> DEFINE f == Latest(o.fencedThrough, a.epoch)
            p == Latest(now + receiptRetention, sourceLifetime)
            row == [o EXCEPT !.fencedThrough = f, !.pruneAt = p]
 <2>1. f \in 0 .. maxAttempts /\ f >= o.fencedThrough /\ f >= a.epoch BY <1>2, Names DEF Latest, OwnerRow
 <2>2. p \in Nat /\ p >= sourceLifetime BY LimitsAssumption, Names DEF Types, Latest
 <2>3. x = Leaves([o EXCEPT !.fencedThrough = Latest(@, a.epoch),
                            !.pruneAt = Latest(now + receiptRetention, sourceLifetime)], Refusal("fenced"))
  BY <1>1,<1>4 DEF fenceStateEventOwner
 <2>4. x.applies = FALSE /\ x.row = row /\ x.reply = Refusal("fenced") BY <2>3 DEF Leaves
 <2> HIDE DEF f, p
 <2>5. /\ row \in OwnerRow /\ row.receipt = NoReceipt /\ row.fencedThrough = f /\ row.pruneAt = p
       /\ row.originConfirmed = o.originConfirmed BY <1>4,<2>1,<2>2 DEF OwnerRow
 <2> HIDE DEF row
 <2>6. x.reply \in AReply /\ x.reply.state = "fenced" /\ ~Committed(x.reply) BY <2>4, RefusalType
 <2>7. RowMove(r, row) BY <1>1,<1>2,<1>4,<2>1,<2>2,<2>5 DEF RowMove, RowFine
 <2> QED BY <1>1,<1>4,<2>1,<2>4,<2>5,<2>6,<2>7
<1> QED BY <1>3,<1>4

LEMMA ConfirmOutcome ==
  ASSUME Types, World, Cached, NEW a \in Attempts, NEW x \in confirmStateEventOwner(owners[a.route.realm], a)
  PROVE  /\ x.applies = FALSE /\ RowMove(a.route.realm, x.row) /\ x.reply \in AReply
         /\ x.reply.state \in {"absent", "fenced", "committed", "terminal", "error"}
         /\ Committed(x.reply) => x.reply.receipt # NoReceipt /\ x.reply.receipt = owners[a.route.realm].receipt
<1> DEFINE r == a.route.realm
<1>1. PICK o \in OwnerRow : o = owners[r] BY AttemptTypes DEF Types
<1>2. RowFine(r, o) /\ o.fencedThrough \in Nat BY <1>1, AttemptTypes DEF World, OwnersInv, OwnerRow
<1>3. CASE o.receipt = NoReceipt
 <2>1. x = Leaves(o, Refusal("error")) BY <1>1,<1>3 DEF confirmStateEventOwner
 <2>2. x.applies = FALSE /\ x.row = o /\ x.reply = Refusal("error") BY <2>1 DEF Leaves
 <2>3. x.reply \in AReply /\ x.reply.state = "error" /\ ~Committed(x.reply) BY <2>2, RefusalType
 <2> QED BY <1>1,<1>2,<2>2,<2>3 DEF RowMove
<1>4. CASE o.receipt # NoReceipt
 <2>1. PICK b \in BOOLEAN : b = TRUE OBVIOUS
 <2> DEFINE mid == [o EXCEPT !.originConfirmed = b]
            p == RetirementTime(mid)
            row == [mid EXCEPT !.pruneAt = p]
 <2>2. /\ mid \in OwnerRow /\ mid.receipt = o.receipt /\ mid.fencedThrough = o.fencedThrough
       /\ mid.originConfirmed = b BY DEF OwnerRow
 <2>3. x = Leaves(row, ownerValue(mid, a)) BY <1>1,<1>4,<2>1 DEF confirmStateEventOwner
 <2> HIDE DEF mid
 <2>4. p \in Nat \cup {Never} /\ (p # Never => p >= sourceLifetime) BY <2>2, RetirementTimes
 <2> HIDE DEF p
 <2>5. /\ row \in OwnerRow /\ row.receipt = o.receipt /\ row.fencedThrough = o.fencedThrough
       /\ row.originConfirmed = b /\ row.pruneAt = p BY <2>2,<2>4 DEF OwnerRow
 <2> HIDE DEF row
 <2>6. x.applies = FALSE /\ x.row = row /\ x.reply = ownerValue(mid, a) BY <2>3 DEF Leaves
 <2>7. /\ x.reply \in AReply /\ x.reply.receipt = o.receipt
       /\ x.reply.state \in {"absent", "fenced", "committed", "terminal"} BY <2>2,<2>6, OwnerValue
 <2>8. RowMove(r, row) BY <1>1,<1>2,<1>4,<2>1,<2>4,<2>5 DEF RowMove, RowFine
 <2> QED BY <1>1,<1>4,<2>6,<2>7,<2>8
<1> QED BY <1>3,<1>4

LEMMA LookupOutcome ==
  ASSUME Types, World, NEW a \in Attempts, NEW x \in lookupStateEventOwner(owners[a.route.realm], a)
  PROVE  /\ x.applies = FALSE /\ RowMove(a.route.realm, x.row) /\ x.reply \in AReply
         /\ x.reply.state \in {"absent", "fenced", "committed", "terminal"}
         /\ Committed(x.reply) => x.reply.receipt # NoReceipt /\ x.reply.receipt = owners[a.route.realm].receipt
<1> DEFINE r == a.route.realm
<1>1. PICK o \in OwnerRow : o = owners[r] BY AttemptTypes DEF Types
<1>2. RowFine(r, o) /\ o.fencedThrough \in Nat BY <1>1, AttemptTypes DEF World, OwnersInv, OwnerRow
<1>3. x = Leaves(o, ownerValue(o, a)) BY <1>1 DEF lookupStateEventOwner
<1>4. x.applies = FALSE /\ x.row = o /\ x.reply = ownerValue(o, a) BY <1>3 DEF Leaves
<1> QED BY <1>1,<1>2,<1>4, OwnerValue DEF RowMove

\* What a commit call does: it answers what there is, it refuses, or it applies.
CommitRow(a) == [NoRow EXCEPT !.receipt = [attempt |-> a, at |-> now], !.pendingDelivery = TRUE]

LEMMA CommitRowType ==
  ASSUME Types, NEW a \in Attempts
  PROVE  /\ CommitRow(a) \in OwnerRow /\ CommitRow(a).receipt = [attempt |-> a, at |-> now]
         /\ CommitRow(a).pruneAt = Never /\ CommitRow(a).originConfirmed = FALSE
         /\ CommitRow(a).pendingDelivery = TRUE /\ CommitRow(a).receipt # NoReceipt
<1>1. [attempt |-> a, at |-> now] \in SomeReceipt /\ [attempt |-> a, at |-> now] # NoReceipt
 BY Names, LimitsAssumption DEF SomeReceipt, Types, NoReceipt
<1>2. PICK p \in SomeReceipt : p = [attempt |-> a, at |-> now] BY <1>1
<1>3. PICK b \in BOOLEAN : b = TRUE OBVIOUS
<1>4. CommitRow(a) = [NoRow EXCEPT !.receipt = p, !.pendingDelivery = b] BY <1>2,<1>3 DEF CommitRow
<1>5. NoRow \in OwnerRow /\ NoRow.pruneAt = Never /\ NoRow.originConfirmed = FALSE BY NoneFine DEF NoRow
<1> QED BY <1>1,<1>2,<1>3,<1>4,<1>5 DEF OwnerRow

LEMMA CommitOutcome ==
  ASSUME Types, World, NEW a \in Attempts, NEW x \in commitStateEventAtOwner(owners[a.route.realm], a)
  PROVE  \/ /\ x.applies = FALSE /\ RowMove(a.route.realm, x.row) /\ x.reply \in AReply
            /\ x.reply.state \in {"absent", "fenced", "committed", "terminal", "rejected"}
            /\ Committed(x.reply) => x.reply.receipt # NoReceipt /\ x.reply.receipt = owners[a.route.realm].receipt
         \/ /\ x.applies = TRUE /\ x.row = CommitRow(a) /\ x.reply = ownerValue(CommitRow(a), a)
            /\ Fresh /\ ~Closed(a)
<1> DEFINE r == a.route.realm
<1>1. PICK o \in OwnerRow : o = owners[r] BY AttemptTypes DEF Types
<1>2. RowFine(r, o) /\ o.fencedThrough \in Nat BY <1>1, AttemptTypes DEF World, OwnersInv, OwnerRow
<1>3. CASE x \in lookupStateEventOwner(owners[r], a) BY <1>3, LookupOutcome
<1>4. CASE x = Leaves(o, Refusal("rejected"))
 <2>2. x.applies = FALSE /\ x.row = o /\ x.reply = Refusal("rejected") BY <1>4 DEF Leaves
 <2>3. x.reply \in AReply /\ x.reply.state = "rejected" /\ ~Committed(x.reply) BY <2>2, RefusalType
 <2> QED BY <1>1,<1>2,<2>2,<2>3 DEF RowMove
<1>5. CASE x = Applies(CommitRow(a), a) /\ Fresh /\ ~Committed(ownerValue(o, a)) /\ ownerValue(o, a).state # "fenced"
 <2>1. ownerValue(o, a).state = "absent" BY <1>5, OwnerValue DEF Committed
 <2>2. ~Closed(a) BY <1>1,<2>1 DEF Closed
 <2> QED BY <1>5,<2>2 DEF Applies
<1> QED BY <1>1,<1>3,<1>4,<1>5 DEF commitStateEventAtOwner, CommitRow

\* The answer of an owner, and what the call left behind.
ServedWell(method, a, x) ==
  /\ World' /\ Onward /\ owners' \in [Realms -> OwnerRow]
  /\ x.reply \in AReply /\ x.reply.state \in {"absent", "fenced", "committed", "terminal", "rejected", "error"}
  /\ Committed(x.reply) => Won(x.reply.receipt)' /\ Closed(a)'
  /\ method = "fence" /\ x.reply.state = "fenced" => Closed(a)' /\ Refused(a)'
  /\ applied' # applied => /\ method = "commit" /\ Fresh /\ ~Closed(a) /\ applied' = <<a>>

LEMMA ServedQuietly ==
  ASSUME Types, World, NEW a \in Attempts, NEW method, NEW x, Transact(a, x),
         UNCHANGED <<setting, kind, now, origin, retiring>>,
         x.applies = FALSE, RowMove(a.route.realm, x.row), x.reply \in AReply,
         x.reply.state \in {"absent", "fenced", "committed", "terminal", "rejected", "error"},
         Committed(x.reply) => x.reply.receipt # NoReceipt /\ x.reply.receipt = owners[a.route.realm].receipt,
         method = "fence" /\ x.reply.state = "fenced" =>
           owners[a.route.realm].receipt = NoReceipt /\ x.row.fencedThrough >= a.epoch
  PROVE  ServedWell(method, a, x)
<1>1. PICK r \in Realms : r = a.route.realm BY AttemptTypes
<1>2. PICK row \in OwnerRow : row = x.row /\ RowMove(r, row) BY <1>1 DEF RowMove
<1>3. owners' = [owners EXCEPT ![r] = row] /\ applied' = applied BY <1>1,<1>2 DEF Transact
<1>4. World' /\ Onward /\ owners' \in [Realms -> OwnerRow] BY <1>2,<1>3, Moves DEF OwnersMove, OriginMoves
<1>5. owners'[r] = row /\ row.receipt = owners[r].receipt BY <1>2,<1>3 DEF Types, RowMove
<1>6. Committed(x.reply) => Won(x.reply.receipt)' /\ Closed(a)'
 <2> SUFFICES ASSUME Committed(x.reply) PROVE Won(x.reply.receipt)' /\ Closed(a)' OBVIOUS
 <2>1. x.reply.receipt # NoReceipt /\ x.reply.receipt = owners[r].receipt BY <1>1
 <2>2. Won(owners[r].receipt) BY <2>1 DEF World, OwnersInv, RowFine
 <2>3. Closed(a)' BY <1>1,<1>5,<2>1, ClosedMeansNext
 <2> QED BY <1>3,<2>1,<2>2,<2>3 DEF Won
<1>7. ASSUME method = "fence", x.reply.state = "fenced"
      PROVE  Closed(a)' /\ Refused(a)'
 <2>1. owners[r].receipt = NoReceipt /\ row.fencedThrough >= a.epoch BY <1>1,<1>2,<1>7
 <2>2. Closed(a)' BY <1>1,<1>5,<2>1, ClosedMeansNext
 <2>3. applied # <<a>> \/ (~Fresh /\ origin.state # "prepared")
  <3>1. a # NoReceipt.attempt BY Names DEF NoReceipt
  <3>2. applied = <<a>> => applied[1] = a /\ applied # <<>> OBVIOUS
  <3> QED BY <1>1,<2>1,<3>1,<3>2 DEF World, AppliedInv
 <2> QED BY <1>3,<2>2,<2>3 DEF Refused, Dead, Fresh
<1> QED BY <1>3,<1>4,<1>6,<1>7 DEF ServedWell

LEMMA OwnerServes ==
  ASSUME Types, World, NEW a \in Attempts, NEW method \in {"lookup", "fence", "confirm", "commit"},
         method = "commit" => Issued(a), method = "confirm" => Cached,
         NEW x \in Outcomes(method, a), Transact(a, x), UNCHANGED <<setting, kind, now, origin, retiring>>
  PROVE  ServedWell(method, a, x)
<1>1. CASE method = "lookup"
 <2>1. x \in lookupStateEventOwner(owners[a.route.realm], a) BY <1>1 DEF Outcomes
 <2> QED BY <1>1,<2>1, LookupOutcome, ServedQuietly
<1>2. CASE method = "fence"
 <2>1. x \in fenceStateEventOwner(owners[a.route.realm], a) BY <1>2 DEF Outcomes
 <2> QED BY <1>2,<2>1, FenceOutcome, ServedQuietly
<1>3. CASE method = "confirm"
 <2>1. x \in confirmStateEventOwner(owners[a.route.realm], a) BY <1>3 DEF Outcomes
 <2> QED BY <1>3,<2>1, ConfirmOutcome, ServedQuietly
<1>4. CASE method = "commit"
 <2>1. x \in commitStateEventAtOwner(owners[a.route.realm], a) BY <1>4 DEF Outcomes
 <2>2. CASE x.applies = FALSE BY <1>4,<2>1,<2>2, CommitOutcome, ServedQuietly
 <2>3. CASE x.applies # FALSE
  <3>1. /\ x.applies = TRUE /\ x.row = CommitRow(a) /\ x.reply = ownerValue(CommitRow(a), a)
        /\ Fresh /\ ~Closed(a) BY <2>1,<2>3, CommitOutcome
  <3>2. PICK row \in OwnerRow : row = CommitRow(a) BY CommitRowType
  <3>3. /\ row.receipt = [attempt |-> a, at |-> now] /\ row.pruneAt = Never /\ ~row.originConfirmed
        /\ row.receipt # NoReceipt BY <3>2, CommitRowType
  <3>4. owners' = [owners EXCEPT ![a.route.realm] = row] /\ applied' = Append(applied, a)
   BY <3>1,<3>2 DEF Transact
  <3>5. World' /\ Onward /\ applied' = <<a>> /\ owners' \in [Realms -> OwnerRow]
   BY <1>4,<3>1,<3>3,<3>4, Application
  <3>6. x.reply \in AReply /\ x.reply.receipt = row.receipt /\ x.reply.state \in {"absent", "fenced", "committed", "terminal"}
        /\ Committed(x.reply) BY <3>1,<3>2,<3>3, OwnerValue
  <3>7. Won(x.reply.receipt)' BY <3>3,<3>5,<3>6 DEF Won
  <3>8. Closed(a)'
   <4>1. owners'[a.route.realm] = row BY <3>4, AttemptTypes DEF Types
   <4> QED BY <3>3,<4>1, ClosedMeansNext
  <3> QED BY <1>4,<3>1,<3>5,<3>6,<3>7,<3>8 DEF ServedWell
 <2> QED BY <2>2,<2>3
<1> QED BY <1>1,<1>2,<1>3,<1>4

LEMMA CommitLocalGoes ==
  ASSUME Types, World, CallersInv, NEW c \in Callers, commitLocalStateEvent(c)
  PROVE  Goes(c) /\ owners' \in [Realms -> OwnerRow]
<1>1. /\ callers[c].pc = "local" /\ callers[c].pc # "idle" /\ callers[c].pc \in Holding
      /\ UNCHANGED Elsewhere /\ UNCHANGED <<stray, requests>> BY DEF commitLocalStateEvent, Holding
<1>2. PICK a \in Attempts : a = callers[c].record.attempt BY <1>1, Asker DEF Holds
<1>3. Issued(a) BY <1>1,<1>2, Asker DEF Holds
<1>4. PICK r \in Realms : r = a.route.realm BY AttemptTypes
<1>5. PICK o \in OwnerRow : o = owners[r] BY DEF Types
<1>6. owners' = owners => owners' \in [Realms -> OwnerRow] BY DEF Types
<1>7. CASE Answer(c, "error") /\ UNCHANGED <<origin, owners, applied>> BY <1>1,<1>6,<1>7, ErrorGoes DEF Untouched
<1>8. CASE /\ Committed(ownerValue(o, a)) /\ Answer(c, "committed") /\ UNCHANGED <<origin, owners, applied>>
 <2>1. o.receipt # NoReceipt BY <1>8, OwnerValue
 <2>2. applied # <<>>
  <3>1. \E p : applied = <<p>> BY <1>5,<2>1 DEF World, OwnersInv, RowFine, Won
  <3> QED BY <3>1
 <2> QED BY <1>1,<1>6,<1>8,<2>2, CommittedGoes DEF Untouched
<1>9. ASSUME ownerValue(o, a).state = "absent", origin.state = "prepared", Current(callers[c].record),
             NEW x \in commitStateEventAtOwner(o, a), Committed(x.reply), Answer(c, "committed"),
             \/ /\ origin' = [finalizeStateEventOrigin(callers[c].record, x.reply.receipt, FALSE)
                                EXCEPT !.ownerConfirmed = TRUE]
                /\ \E y \in confirmStateEventOwner(x.row, a) : Transact(a, [y EXCEPT !.applies = TRUE])
             \/ Transact(a, x) /\ UNCHANGED origin
      PROVE  Goes(c) /\ owners' \in [Realms -> OwnerRow]
 <2>1. ~Closed(a) /\ o.receipt = NoReceipt BY <1>4,<1>5,<1>9, OwnerValue DEF Closed
 <2>2. /\ x.applies = TRUE /\ x.row = CommitRow(a) /\ x.reply = ownerValue(CommitRow(a), a) /\ Fresh
  BY <1>4,<1>5,<1>9,<2>1, CommitOutcome
 <2>3. PICK row \in OwnerRow : row = CommitRow(a) BY CommitRowType
 <2>4. /\ row.receipt = [attempt |-> a, at |-> now] /\ row.pruneAt = Never /\ ~row.originConfirmed
       /\ row.receipt # NoReceipt /\ row.pendingDelivery BY <2>3, CommitRowType
 <2>5. x.reply.receipt = row.receipt
  <3>1. ownerValue(row, a).receipt = row.receipt BY OwnerValue
  <3> QED BY <2>2,<2>3,<3>1
 <2>6. retiring' \subseteq retiring /\ UNCHANGED <<setting, kind, now>> BY <1>1,<1>9 DEF Answer, Elsewhere
 <2>7. CASE Transact(a, x) /\ UNCHANGED origin
  <3>1. owners' = [owners EXCEPT ![a.route.realm] = row] /\ applied' = Append(applied, a)
   BY <2>2,<2>3,<2>7 DEF Transact
  <3>2. World' /\ Onward /\ applied' = <<a>> /\ origin' \in OriginRecord /\ owners' \in [Realms -> OwnerRow]
   BY <1>3,<2>1,<2>2,<2>4,<2>6,<2>7,<3>1, Application
  <3>3. "committed" \in Told /\ applied' # <<>> BY <3>2 DEF Told
  <3> QED BY <1>1,<1>9,<3>2,<3>3, AnswerGoes
 <2>8. ASSUME origin' = [finalizeStateEventOrigin(callers[c].record, x.reply.receipt, FALSE)
                           EXCEPT !.ownerConfirmed = TRUE],
              NEW y \in confirmStateEventOwner(x.row, a), Transact(a, [y EXCEPT !.applies = TRUE])
       PROVE  Goes(c) /\ owners' \in [Realms -> OwnerRow]
  <3>1. PICK yes \in BOOLEAN : yes = TRUE OBVIOUS
  <3> DEFINE mid == [row EXCEPT !.originConfirmed = yes]
             fin == [mid EXCEPT !.pruneAt = Never]
  <3>2. /\ mid \in OwnerRow /\ mid.receipt = row.receipt /\ mid.pendingDelivery
        /\ mid.originConfirmed = yes BY <2>4 DEF OwnerRow
  <3>3. RetirementTime(mid) = Never BY <3>2 DEF RetirementTime
  <3>4. y = Leaves([mid EXCEPT !.pruneAt = RetirementTime(mid)], ownerValue(mid, a))
   BY <2>2,<2>3,<2>4,<2>8,<3>1 DEF confirmStateEventOwner
  <3> HIDE DEF mid
  <3>5. /\ fin \in OwnerRow /\ fin.receipt = row.receipt /\ fin.pruneAt = Never BY <3>2 DEF OwnerRow
  <3>6. [y EXCEPT !.applies = TRUE].row = fin /\ [y EXCEPT !.applies = TRUE].applies = TRUE
   BY <3>3,<3>4 DEF Leaves
  <3>7. PICK end \in OwnerRow : end = fin BY <3>5
  <3>8. owners' = [owners EXCEPT ![a.route.realm] = end] /\ applied' = Append(applied, a)
   BY <2>8,<3>6,<3>7 DEF Transact
  <3>9. end.receipt = [attempt |-> a, at |-> now] /\ end.pruneAt = Never BY <2>4,<3>5,<3>7
  <3> DEFINE org == [[origin EXCEPT !.state = "committed", !.receipt = row.receipt, !.pruneAt = Never]
                       EXCEPT !.ownerConfirmed = yes]
  <3>10. origin' = org BY <1>9,<2>5,<2>8,<3>1 DEF finalizeStateEventOrigin
  <3>11. /\ org \in OriginRecord /\ org.state = "committed" /\ org.attempt = origin.attempt
         /\ org.receipt = row.receipt /\ org.pruneAt = Never
   <4>1. row.receipt \in SomeReceipt BY DEF OwnerRow
   <4> QED BY <4>1 DEF Types, OriginRecord
  <3>12. PICK new \in OriginRecord : new = org BY <3>11
  <3>13. /\ origin' = new /\ new.state = "committed" /\ new.attempt = origin.attempt
         /\ new.receipt.attempt = a /\ new.pruneAt = Never BY <2>4,<3>10,<3>11,<3>12
  <3> HIDE DEF org, fin
  <3>14. World' /\ Onward /\ applied' = <<a>> /\ origin' \in OriginRecord /\ owners' \in [Realms -> OwnerRow]
   BY <1>3,<2>1,<2>2,<2>6,<3>8,<3>9,<3>13, Application
  <3>15. "committed" \in Told /\ applied' # <<>> BY <3>14 DEF Told
  <3> QED BY <1>1,<1>9,<3>14,<3>15, AnswerGoes
 <2> QED BY <1>9,<2>7,<2>8
<1> QED BY <1>2,<1>4,<1>5,<1>7,<1>8,<1>9 DEF commitLocalStateEvent

LEMMA ServeOriginGoes ==
  ASSUME Types, World, CallersInv, NEW c \in Callers, ServeOrigin(c)
  PROVE  Goes(c) /\ owners' \in [Realms -> OwnerRow]
         /\ UNCHANGED <<Elsewhere, stray>> /\ applied' = applied /\ callers[c].call # NoCall
<1>1. callers[c] \in ACaller /\ CallerFine(callers[c]) BY Asker
<1>2. callers[c].call.kind \in {"lookup", "fence", "confirm"} /\ callers[c].call # NoCall
      /\ callers[c].pc \notin {"idle", "sent", "prepare", "local", "registry"}
 BY <1>1, NoneFine DEF ServeOrigin, Waiting, CallerFine, PlaceFine, ACaller
<1>3. /\ callers[c].call.attempt = callers[c].record.attempt /\ callers[c].record.state # "absent"
      /\ callers[c].call.attempt \in Attempts BY <1>1,<1>2 DEF CallerFine, PlaceFine
<1>4. PICK a \in Attempts : a = callers[c].call.attempt BY <1>3
<1>5. PICK method \in {"lookup", "fence", "confirm", "commit"} :
        method = callers[c].call.kind /\ method # "commit" BY <1>2
<1>6. PICK x \in Outcomes(method, a) : Transact(a, x) /\ callers' = [callers EXCEPT ![c].call.reply = x.reply]
 BY <1>4,<1>5 DEF ServeOrigin
<1>7. UNCHANGED <<setting, kind, now, origin, retiring>> /\ UNCHANGED <<Elsewhere, stray>> /\ UNCHANGED requests
 BY DEF ServeOrigin, Owner, Elsewhere
<1>8. method = "confirm" => Cached BY <1>1,<1>5 DEF CallerFine, ReplyFine
<1>9. ServedWell(method, a, x) BY <1>5,<1>6,<1>7,<1>8, OwnerServes
<1>10. World' /\ Onward /\ owners' \in [Realms -> OwnerRow] /\ applied' = applied /\ x.reply \in AReply
 BY <1>5,<1>9 DEF ServedWell
<1>11. PICK reply \in AReply : reply = x.reply BY <1>10
<1> DEFINE g == [callers[c] EXCEPT !.call.reply = reply]
<1>12. g \in ACaller BY <1>1 DEF ACaller, ACall
<1>13. PICK h \in ACaller : h = g BY <1>12
<1>14. /\ h.pc = callers[c].pc /\ h.op = callers[c].op /\ h.route = callers[c].route /\ h.told = callers[c].told
       /\ h.record = callers[c].record /\ h.call.kind = method /\ h.call.attempt = a /\ h.call.reply = reply
 BY <1>1,<1>4,<1>5,<1>13 DEF ACaller, ACall
<1>15. callers' = [callers EXCEPT ![c] = h] BY <1>1,<1>6,<1>11,<1>13 DEF Types
<1> HIDE DEF g
<1>16. PlaceFine(h)' BY <1>1,<1>2,<1>3,<1>4,<1>5,<1>14 DEF CallerFine, PlaceFine
<1>17. ReplyFine(h.call)'
 <2>1. Committed(reply) => Won(reply.receipt)' BY <1>9,<1>11 DEF ServedWell
 <2>2. method = "fence" /\ reply.state = "fenced" => Refused(a)' BY <1>9,<1>11 DEF ServedWell
 <2>3. method = "confirm" => Cached' BY <1>8,<1>10 DEF Onward
 <2> QED BY <1>14,<2>1,<2>2,<2>3 DEF ReplyFine
<1>19. PICK k \in ACaller : k = callers[c] BY <1>1
<1>20. CallerFine(k)' BY <1>1,<1>10,<1>19, CallerStays
<1>21. CallerFine(h)' BY <1>14,<1>16,<1>17,<1>19,<1>20 DEF CallerFine
<1>22. origin' \in OriginRecord BY <1>7 DEF Types
<1> QED BY <1>2,<1>7,<1>10,<1>15,<1>21,<1>22 DEF Goes

-----------------------------------------------------------------------------
(* What goes on without the requests and the registry                        *)

LEMMA CallersStay ==
  ASSUME Types, CallersInv, Onward, callers' = callers
  PROVE  CallersInv'
<1> SUFFICES ASSUME NEW c \in Callers PROVE CallerFine(callers[c])' BY DEF CallersInv
<1>1. PICK h \in ACaller : h = callers[c] /\ CallerFine(h) BY DEF Types, CallersInv
<1>2. CallerFine(h)' /\ callers'[c] = h BY <1>1, CallerStays
<1> QED BY <1>2 DEF CallerFine, PlaceFine, ReplyFine

LEMMA QueueStays ==
  ASSUME Types, QueueInv, Onward, UNCHANGED <<callers, requests, job>>
  PROVE  QueueInv'
<1>1. \A q \in requests : Issued(q.attempt)' BY DEF Types, QueueInv, Onward
<1> QED BY <1>1 DEF QueueInv, WaitsFor

\* A step of the owners, of the relay or of the clock.
LEMMA OthersStay ==
  ASSUME IInv, World', Onward, origin' \in OriginRecord, owners' \in [Realms -> OwnerRow], retiring' \subseteq Realms,
         now' \in 0 .. setting'.time, UNCHANGED <<callers, binding, barrier, requests, job, losses>>, stray' \subseteq stray
  PROVE  IInv'
<1>1. CallersInv' BY CallersStay DEF IInv
<1>2. QueueInv' BY QueueStays DEF IInv
<1>3. JobInv' /\ StrayInv' BY RegistryStays DEF IInv
<1>4. Types' BY DEF IInv, Types, Onward
<1> QED BY <1>1,<1>2,<1>3,<1>4 DEF IInv

LEMMA ServeStrayKeeps ==
  ASSUME IInv, NEW s \in stray, ServeStray(s)
  PROVE  IInv' /\ (applied' # applied => applied' = <<s.attempt>> /\ s.attempt.route = binding')
<1>1. s \in Calls /\ StrayFine(s) /\ Types /\ World BY DEF IInv, Types, StrayInv
<1>2. PICK a \in Attempts : a = s.attempt BY <1>1 DEF Calls
<1>3. PICK method \in {"lookup", "fence", "confirm", "commit"} : method = s.kind BY <1>1 DEF Calls
<1>4. PICK x \in Outcomes(method, a) : Transact(a, x) BY <1>2,<1>3 DEF ServeStray
<1>5. /\ UNCHANGED <<setting, kind, now, origin, retiring>> /\ stray' \subseteq stray
      /\ UNCHANGED <<callers, binding, barrier, requests, job, losses>> BY DEF ServeStray, Owner
<1>6. ServedWell(method, a, x) BY <1>1,<1>2,<1>3,<1>4,<1>5, OwnerServes DEF StrayFine
<1>7. World' /\ Onward /\ owners' \in [Realms -> OwnerRow] BY <1>6 DEF ServedWell
<1>8. IInv' BY <1>1,<1>5,<1>7, OthersStay DEF Types
<1>9. ASSUME applied' # applied
      PROVE  applied' = <<s.attempt>> /\ s.attempt.route = binding'
 <2>1. method = "commit" /\ Fresh /\ ~Closed(a) /\ applied' = <<a>> BY <1>6,<1>9 DEF ServedWell
 <2>2. barrier = a BY <1>2,<1>3,<2>1 DEF IInv, StrayInv, NoUnguardedCommit, Closed
 <2>3. a # NoAttempt BY AttemptTypes
 <2> QED BY <1>2,<1>5,<2>1,<2>2,<2>3 DEF IInv, JobInv, BarrierInv
<1> QED BY <1>8,<1>9

LEMMA RetireStoredKeeps ==
  ASSUME IInv, NEW r \in Realms, retireStoredStateEventOwner(r)
  PROVE  IInv' /\ applied' = applied
<1>1. Types /\ World BY DEF IInv
<1>2. PICK o \in OwnerRow : o = owners[r] /\ RowFine(r, o) BY <1>1 DEF Types, World, OwnersInv
<1>3. PICK no \in BOOLEAN : no = FALSE OBVIOUS
<1> DEFINE mid == [o EXCEPT !.pendingDelivery = no]
           p == RetirementTime(mid)
           new == [mid EXCEPT !.pruneAt = p]
<1>4. /\ mid \in OwnerRow /\ mid.receipt = o.receipt /\ mid.fencedThrough = o.fencedThrough
      /\ mid.originConfirmed = o.originConfirmed BY DEF OwnerRow
<1>5. /\ o.receipt # NoReceipt /\ owners' = [owners EXCEPT ![r] = new]
      /\ \/ origin' = origin
         \/ origin' = finalizeStateEventOrigin(origin, mid.receipt, TRUE)
      /\ retiring' \in {retiring, retiring \cup {r}}
      /\ UNCHANGED <<setting, kind, now, callers, binding, barrier, requests, job, stray, applied, losses>>
 BY <1>2,<1>3 DEF retireStoredStateEventOwner
<1> HIDE DEF mid
<1>6. p \in Nat \cup {Never} /\ (p # Never => mid.originConfirmed /\ p >= sourceLifetime)
 BY <1>1,<1>4, RetirementTimes
<1> HIDE DEF p
<1>7. /\ new \in OwnerRow /\ new.receipt = o.receipt /\ new.fencedThrough = o.fencedThrough
      /\ new.originConfirmed = o.originConfirmed /\ new.pruneAt = p BY <1>4,<1>6 DEF OwnerRow
<1>8. PICK row \in OwnerRow : row = new BY <1>7
<1>9. RowMove(r, row) /\ owners' = [owners EXCEPT ![r] = row]
 <2>1. o.fencedThrough \in Nat BY DEF OwnerRow
 <2> QED BY <1>2,<1>4,<1>5,<1>6,<1>7,<1>8,<2>1 DEF RowMove, RowFine
<1> HIDE DEF new
<1>10. applied # <<>> /\ Won(o.receipt)
 <2>1. \E q : applied = <<q>> BY <1>2,<1>5 DEF RowFine, Won
 <2> QED BY <1>2,<1>5,<2>1 DEF RowFine
<1>11. OriginMoves
 <2>1. PICK receipt \in SomeReceipt : receipt = o.receipt BY DEF OwnerRow
 <2>2. PICK record, yes : record = origin /\ yes = TRUE OBVIOUS
 <2>3. origin' = origin \/ origin' = finalizeStateEventOrigin(record, receipt, yes) BY <1>4,<1>5,<2>1,<2>2
 <2> QED BY <1>1,<1>10,<2>1,<2>3, FinalizeMoves DEF OriginMoves
<1>12. World' /\ Onward /\ origin' \in OriginRecord /\ owners' \in [Realms -> OwnerRow]
 BY <1>1,<1>5,<1>9,<1>10,<1>11, Moves DEF OwnersMove
<1> QED BY <1>1,<1>5,<1>12, OthersStay DEF Types

\* Rows go only when the source is no longer fresh.
LEMMA PruneOnward ==
  ASSUME Types, World, ~Fresh, UNCHANGED <<setting, kind, now, applied>>,
         origin' = origin \/ origin'.state = "absent"
  PROVE  Onward
BY DEF Onward, Fresh, Cached, Dead, Issued

LEMMA PruneKeeps ==
  ASSUME IInv, prune
  PROVE  IInv' /\ applied' = applied
<1>1. Types /\ World /\ UNCHANGED <<setting, kind, now, retiring, callers, binding, barrier, requests, job, stray, applied, losses>>
 BY DEF IInv, prune
<1>2. now \in Nat /\ sourceLifetime \in Nat BY <1>1, LimitsAssumption DEF Types
<1>3. CASE Due(origin) /\ origin' = Absent /\ UNCHANGED owners
 <2>1. ~Fresh
  <3>1. origin.pruneAt >= sourceLifetime /\ origin.pruneAt <= now /\ origin.pruneAt \in Nat \cup {Never} /\ origin.pruneAt # Never
   BY <1>1,<1>3 DEF Due, World, OriginInv, Types, OriginRecord
  <3> QED BY <1>2,<3>1 DEF Fresh
 <2>2. origin' \in OriginRecord /\ origin'.state = "absent" /\ origin'.pruneAt = Never
  BY <1>3, NoneFine DEF Absent
 <2>3. Onward BY <1>1,<2>1,<2>2, PruneOnward
 <2>4. AppliedInv' BY <1>1,<1>3,<2>1,<2>2 DEF World, AppliedInv, Fresh
 <2>5. OriginInv' BY <1>1,<1>3,<2>1,<2>2 DEF OriginInv, Fresh
 <2>6. OwnersInv'
  <3> SUFFICES ASSUME NEW r \in Realms PROVE RowFine(r, owners[r])' BY DEF OwnersInv
  <3>1. RowFine(r, owners[r]) BY <1>1 DEF World, OwnersInv
  <3> QED BY <1>1,<1>3,<2>3,<3>1 DEF RowFine, Won, Onward
 <2> QED BY <1>1,<1>3,<2>2,<2>3,<2>4,<2>5,<2>6, OthersStay DEF World, Types
<1>4. ASSUME NEW r \in Realms, Due(owners[r]), owners' = [owners EXCEPT ![r] = NoRow], UNCHANGED origin
      PROVE  IInv' /\ applied' = applied
 <2>1. PICK o \in OwnerRow : o = owners[r] /\ RowFine(r, o) BY <1>1 DEF Types, World, OwnersInv
 <2>2. ~Fresh
  <3>1. o.pruneAt >= sourceLifetime /\ o.pruneAt <= now /\ o.pruneAt \in Nat \cup {Never} /\ o.pruneAt # Never
   BY <1>4,<2>1 DEF Due, RowFine, OwnerRow
  <3> QED BY <1>2,<3>1 DEF Fresh
 <2>3. Onward BY <1>1,<1>4,<2>2, PruneOnward
 <2>4. o.receipt # NoReceipt => applied # <<>> /\ origin.state # "prepared" BY <1>4,<2>1 DEF Due, RowFine, Cached
 <2>5. AppliedInv'
  <3> SUFFICES ASSUME applied # <<>>, origin.state = "prepared"
               PROVE  owners'[applied[1].route.realm].receipt.attempt = applied[1]
   BY <1>1,<1>4,<2>2 DEF World, AppliedInv, Fresh
  <3>1. PICK a \in Attempts : applied = <<a>> BY <1>1 DEF World, AppliedInv
  <3>2. applied[1] = a /\ a # NoReceipt.attempt /\ a.route.realm \in Realms
   BY <3>1, Names, AttemptTypes DEF NoReceipt
  <3>3. owners[a.route.realm].receipt.attempt = a BY <1>1,<3>2 DEF World, AppliedInv
  <3>4. a.route.realm # r BY <2>1,<2>4,<3>2,<3>3
  <3> QED BY <1>1,<1>4,<3>2,<3>3,<3>4 DEF Types
 <2>6. OriginInv' BY <1>1,<1>4 DEF World, OriginInv, Won, Fresh
 <2>7. OwnersInv'
  <3> SUFFICES ASSUME NEW w \in Realms PROVE RowFine(w, owners[w])' BY DEF OwnersInv
  <3>1. CASE w # r
   <4>1. RowFine(w, owners[w]) /\ owners'[w] = owners[w] BY <1>1,<1>4,<3>1 DEF World, OwnersInv, Types
   <4> QED BY <1>1,<1>4,<4>1,<2>3 DEF RowFine, Won, Onward
  <3>2. CASE w = r
   <4>1. owners'[w] = NoRow BY <1>1,<1>4,<3>2 DEF Types
   <4> QED BY <4>1 DEF RowFine, NoRow
  <3> QED BY <3>1,<3>2
 <2>8. owners' \in [Realms -> OwnerRow] BY <1>1,<1>4, NoneFine DEF Types
 <2> QED BY <1>1,<1>4,<2>3,<2>5,<2>6,<2>7,<2>8, OthersStay DEF World, Types
<1> QED BY <1>3,<1>4 DEF prune

LEMMA TickKeeps ==
  ASSUME IInv, Tick
  PROVE  IInv' /\ applied' = applied
<1>1. /\ Types /\ World /\ now' = now + 1 /\ now < setting.time
      /\ UNCHANGED <<setting, kind, origin, owners, retiring, callers, binding, barrier, requests, job, stray, applied, losses>>
 BY DEF IInv, Tick
<1>2. setting.time \in Nat /\ now \in Nat /\ sourceLifetime \in Nat BY <1>1, LimitsAssumption DEF Types
<1>3. now' \in 0 .. setting'.time /\ (Fresh' => Fresh) BY <1>1,<1>2 DEF Fresh
<1>4. Onward BY <1>1,<1>3 DEF Onward, Cached, Dead, Issued, Closed
<1>5. AppliedInv' BY <1>1,<1>3 DEF World, AppliedInv
<1>6. OriginInv' BY <1>1,<1>3 DEF World, OriginInv, Won
<1>7. OwnersInv'
 <2> SUFFICES ASSUME NEW r \in Realms PROVE RowFine(r, owners[r])' BY DEF OwnersInv
 <2>1. RowFine(r, owners[r]) BY <1>1 DEF World, OwnersInv
 <2> QED BY <1>1,<1>4,<2>1 DEF RowFine, Won, Onward
<1> QED BY <1>1,<1>3,<1>4,<1>5,<1>6,<1>7, OthersStay DEF World, Types

LEMMA OriginStepKeeps ==
  ASSUME IInv, NEW c \in Callers, OriginStep(c)
  PROVE  IInv' /\ (applied' # applied => GroupLocal)
<1>1. Types /\ World /\ CallersInv /\ (owners' = owners => owners' \in [Realms -> OwnerRow]) BY DEF IInv, Types
<1>2. ASSUME Goes(c), UNCHANGED Untouched, ~WaitsFor(c)
      PROVE  IInv' /\ applied' = applied BY <1>1,<1>2, GoesOn DEF Untouched
<1>3. ASSUME NEW op \in {"lookup", "invoke", "repin", "retire"}, Start(c, op) PROVE IInv' /\ applied' = applied
 <2>1. UNCHANGED Untouched /\ ~WaitsFor(c) BY <1>3 DEF Start, WaitsFor
 <2> QED BY <1>1,<1>2,<1>3,<2>1, StartGoes
<1>4. CASE Recover(c)
 <2>1. UNCHANGED Untouched /\ ~WaitsFor(c) BY <1>4 DEF Recover, WaitsFor
 <2> QED BY <1>1,<1>2,<1>4,<2>1, RecoverGoes
<1>5. CASE RetireOrigin(c)
 <2>1. UNCHANGED Untouched /\ ~WaitsFor(c) BY <1>5 DEF RetireOrigin, WaitsFor
 <2> QED BY <1>1,<1>2,<1>5,<2>1, RetireOriginGoes
<1>6. CASE Recovered(c)
 <2>1. UNCHANGED Untouched /\ ~WaitsFor(c) BY <1>6 DEF Recovered, WaitsFor
 <2> QED BY <1>1,<1>2,<1>6,<2>1, RecoveredGoes
<1>7. CASE RetireLookedUp(c)
 <2>1. UNCHANGED Untouched /\ ~WaitsFor(c) BY <1>7 DEF RetireLookedUp, WaitsFor
 <2> QED BY <1>1,<1>2,<1>7,<2>1, RetireLookedUpGoes
<1>8. CASE Expire(c)
 <2>1. UNCHANGED Untouched /\ ~WaitsFor(c) BY <1>8 DEF Expire, WaitsFor
 <2> QED BY <1>1,<1>2,<1>8,<2>1, ExpireGoes
<1>9. CASE Prepare(c)
 <2>1. UNCHANGED Untouched /\ ~WaitsFor(c) BY <1>9 DEF Prepare, WaitsFor
 <2> QED BY <1>1,<1>2,<1>9,<2>1, PrepareGoes
<1>10. CASE AtLimit(c)
 <2>1. UNCHANGED Untouched /\ ~WaitsFor(c) BY <1>10 DEF AtLimit, WaitsFor
 <2> QED BY <1>1,<1>2,<1>10,<2>1, AtLimitGoes
<1>11. CASE repinStateEventOrigin(c)
 <2>1. UNCHANGED Untouched /\ ~WaitsFor(c) BY <1>11 DEF repinStateEventOrigin, WaitsFor
 <2> QED BY <1>1,<1>2,<1>11,<2>1, RepinGoes
<1>12. CASE OwnerConfirmed(c)
 <2>1. UNCHANGED Untouched /\ ~WaitsFor(c) BY <1>12 DEF OwnerConfirmed, WaitsFor
 <2> QED BY <1>1,<1>2,<1>12,<2>1, OwnerConfirmedGoes
<1>13. CASE RegistryAnswered(c)
 <2>1. UNCHANGED Untouched /\ ~WaitsFor(c) BY <1>13, NoneFine DEF RegistryAnswered, WaitsFor, Answered
 <2> QED BY <1>1,<1>2,<1>13,<2>1, RegistryAnsweredGoes
<1>14. CASE commitLocalStateEvent(c)
 <2>1. UNCHANGED <<Elsewhere, stray>> /\ ~WaitsFor(c) BY <1>14 DEF commitLocalStateEvent, WaitsFor
 <2>2. Goes(c) /\ owners' \in [Realms -> OwnerRow] BY <1>1,<1>14, CommitLocalGoes
 <2>3. GroupLocal BY <1>1,<1>14, Asker DEF commitLocalStateEvent, CallerFine
 <2> QED BY <2>1,<2>2,<2>3, GoesOn
<1> QED BY <1>3,<1>4,<1>5,<1>6,<1>7,<1>8,<1>9,<1>10,<1>11,<1>12,<1>13,<1>14 DEF OriginStep

LEMMA ServeOriginKeeps ==
  ASSUME IInv, NEW c \in Callers, ServeOrigin(c)
  PROVE  IInv' /\ applied' = applied
<1>1. /\ Goes(c) /\ owners' \in [Realms -> OwnerRow]
      /\ UNCHANGED <<Elsewhere, stray>> /\ applied' = applied /\ ~WaitsFor(c)
 BY ServeOriginGoes DEF IInv, WaitsFor
<1> QED BY <1>1, GoesOn

-----------------------------------------------------------------------------
(* The registry                                                              *)

LEMMA RegistryWorld ==
  ASSUME IInv, UNCHANGED Origin
  PROVE  World' /\ Onward /\ origin' \in OriginRecord /\ owners' \in [Realms -> OwnerRow] /\ (Fresh' <=> Fresh)
         /\ UNCHANGED <<setting, kind, now, origin, retiring, applied, owners, stray, losses>>
<1>1. UNCHANGED <<setting, kind, now, origin, retiring, applied, owners, stray, losses>> BY DEF Origin
<1> QED BY <1>1, Moves DEF IInv, OriginMoves, OwnersMove, Fresh

\* The barrier goes only once its attempt can no longer be applied.
LEMMA StrayGuarded ==
  ASSUME Types, StrayInv, Onward, stray' = stray,
         \/ barrier' = barrier
         \/ barrier = NoAttempt
         \/ Fresh => Closed(barrier)
  PROVE  StrayInv'
<1>1. \A s \in stray : StrayFine(s)' BY StrayStays DEF Types, StrayInv
<1>2. NoUnguardedCommit'
 <2> SUFFICES ASSUME NEW s \in stray, s.kind = "commit", Fresh', ~(Closed(s.attempt)')
              PROVE  barrier' = s.attempt BY DEF NoUnguardedCommit, Closed
 <2>1. s.attempt \in Attempts /\ s.attempt # NoAttempt BY Names DEF Types, Calls
 <2>2. Fresh /\ ~Closed(s.attempt) BY <2>1 DEF Onward
 <2>3. barrier = s.attempt BY <2>2 DEF StrayInv, NoUnguardedCommit, Closed
 <2> QED BY <2>1,<2>2,<2>3
<1> QED BY <1>1,<1>2 DEF StrayInv

\* What the registry may pass on to a request.
Passed(reply) ==
  /\ reply \in AReply /\ reply.state \in {"committed", "terminal", "refused", "error"}
  /\ Committed(reply) => Won(reply.receipt)'

\* The request of b is answered, if somebody still waits for it.
LEMMA ReplyKeeps ==
  ASSUME Types, CallersInv, QueueInv, Onward, NEW b \in Callers \cup {"nobody"}, b # "nobody" => WaitsFor(b),
         NEW reply, Passed(reply), Reply(b, reply), job'.pc = "idle",
         requests' \subseteq requests, \A q \in requests' : q.by = b => b = "nobody"
  PROVE  CallersInv' /\ callers' \in [Callers -> ACaller] /\ QueueInv'
<1>1. \A q \in requests' : Issued(q.attempt)' BY DEF Types, QueueInv, Onward
<1>2. CASE b = "nobody"
 <2>1. callers' = callers BY <1>2 DEF Reply
 <2> QED BY <1>1,<2>1, CallersStay DEF Types, QueueInv, WaitsFor
<1>3. CASE b # "nobody"
 <2>1. b \in Callers /\ callers[b].pc = "registry" BY <1>3 DEF WaitsFor
 <2>2. callers[b] \in ACaller /\ CallerFine(callers[b]) /\ callers[b].record.attempt \in Attempts
  BY <2>1, Asker DEF Holding, Holds
 <2>3. PICK method \in {"lookup", "fence", "confirm", "commit", "registry"} : method = "registry" OBVIOUS
 <2>4. PICK a \in SomeAttempt : a = callers[b].record.attempt BY <2>2 DEF SomeAttempt
 <2>5. Ask(method, a) \in ACall /\ Ask(method, a).kind = method /\ Ask(method, a).attempt = a BY AskType
 <2> DEFINE call == [Ask(method, a) EXCEPT !.reply = reply]
            g == [callers[b] EXCEPT !.call = call]
 <2>6. call \in ACall /\ call.kind = "registry" /\ call.attempt = a /\ call.reply = reply /\ call # NoCall
  <3>1. call \in ACall /\ call.kind = method /\ call.attempt = a /\ call.reply = reply BY <2>5 DEF ACall, Passed
  <3> QED BY <2>3,<3>1, NoneFine
 <2>7. callers' = [callers EXCEPT ![b] = g] BY <1>3,<2>2,<2>3,<2>4 DEF Reply, Types
 <2> HIDE DEF call
 <2>8. g \in ACaller BY <2>2,<2>6 DEF ACaller
 <2>9. PICK h \in ACaller : h = g BY <2>8
 <2>10. /\ h.pc = "registry" /\ h.op = callers[b].op /\ h.route = callers[b].route /\ h.told = callers[b].told
        /\ h.record = callers[b].record /\ h.call = call BY <2>1,<2>2,<2>6,<2>9 DEF ACaller
 <2>11. callers' = [callers EXCEPT ![b] = h] BY <2>7,<2>9
 <2> HIDE DEF g
 <2>12. PICK k \in ACaller : k = callers[b] BY <2>2
 <2>13. CallerFine(k)' BY <2>2,<2>12, CallerStays
 <2>14. PlaceFine(h)' BY <2>1,<2>6,<2>10,<2>12,<2>13 DEF CallerFine, PlaceFine, Passed
 <2>15. ReplyFine(h.call)' BY <2>6,<2>10 DEF ReplyFine, Passed
 <2>16. CallerFine(h)' BY <2>1,<2>10,<2>12,<2>13,<2>14,<2>15 DEF CallerFine
 <2>17. CallersInv' /\ callers' \in [Callers -> ACaller] BY <2>1,<2>11,<2>16, OneCaller
 <2>18. \A d \in Callers : d # b /\ WaitsFor(d) => WaitsFor(d)' BY <2>11 DEF WaitsFor, Types
 <2>19. \A q \in requests' : q.by # "nobody" => q.by \in Callers /\ q.by # b /\ WaitsFor(q.by)
  BY <1>3 DEF QueueInv, Types
 <2> QED BY <1>1,<2>17,<2>18,<2>19 DEF QueueInv
<1> QED BY <1>2,<1>3

\* The queue passes to the operation of a request, or stays with it.
LEMMA QueueHeld ==
  ASSUME Types, QueueInv, Onward, callers' = callers, requests' \subseteq requests,
         job'.pc # "idle" /\ job'.by # "nobody" => WaitsFor(job'.by) /\ \A q \in requests' : q.by # job'.by
  PROVE  QueueInv'
<1>1. \A q \in requests : Issued(q.attempt)' BY DEF Types, QueueInv, Onward
<1> QED BY <1>1 DEF QueueInv, WaitsFor

\* A step of the registry that leaves the records alone.
LEMMA RegistryKeeps ==
  ASSUME IInv, UNCHANGED Origin, binding' \in Routes, barrier' \in SomeAttempt, job' \in AJob,
         requests' \subseteq requests, CallersInv', callers' \in [Callers -> ACaller], QueueInv', JobInv',
         \/ barrier' = barrier
         \/ barrier = NoAttempt
         \/ Fresh => Closed(barrier)
  PROVE  IInv' /\ applied' = applied
<1>1. World' /\ Onward /\ origin' \in OriginRecord /\ owners' \in [Realms -> OwnerRow]
      /\ UNCHANGED <<setting, kind, now, origin, retiring, applied, owners, stray, losses>> BY RegistryWorld
<1>2. StrayInv' BY <1>1, StrayGuarded DEF IInv
<1>3. Types' BY <1>1 DEF IInv, Types
<1> QED BY <1>1,<1>2,<1>3 DEF IInv

\* The answer a registry's operation has, of the call it made.
LEMMA JobKnows ==
  ASSUME IInv
  PROVE  /\ job \in AJob /\ JobPlace(job) /\ job.call.reply \in AReply /\ job.call.attempt \in SomeAttempt
         /\ job.pc # "idle" => /\ job.call.attempt \in Attempts /\ Issued(job.call.attempt)
                               /\ job.by \in Callers \cup {"nobody"} /\ (job.by # "nobody" => WaitsFor(job.by))
         /\ Committed(job.call.reply) => /\ Won(job.call.reply.receipt)
                                         /\ Fresh => Closed(job.call.attempt)
         /\ job.call.kind = "fence" /\ job.call.reply.state = "fenced" => (Fresh => Closed(job.call.attempt))
         /\ job.pc \in {"commit", "lookup", "fence"} => barrier = job.call.attempt
         /\ job.pc = "stale" => barrier = NoAttempt
         /\ barrier # NoAttempt => barrier.route = binding /\ Issued(barrier)
<1>1. job \in AJob /\ JobFine(job) /\ BarrierInv BY DEF IInv, Types, JobInv
<1>2. job.call.reply \in AReply /\ job.call.attempt \in SomeAttempt BY <1>1 DEF AJob, ACall
<1>3. job.pc # "idle" => job.by \in Callers \cup {"nobody"} BY <1>1 DEF JobFine, JobPlace
<1> QED BY <1>1,<1>2,<1>3 DEF JobFine, JobPlace, BarrierInv, IInv, QueueInv

LEMMA FreeFine ==
  ASSUME job' = Free, barrier' # NoAttempt => barrier'.route = binding' /\ Issued(barrier)'
  PROVE  JobInv' /\ job' \in AJob
<1>1. PICK j \in AJob : j = Free BY NoneFine
<1>2. JobFine(j)' BY <1>1, NoneFine DEF JobFine, JobPlace, Committed
<1>3. JobFine(job)' BY <1>1,<1>2 DEF JobFine, JobPlace
<1> QED BY <1>1,<1>3, NoneFine DEF JobInv, BarrierInv

LEMMA BarrierStays ==
  ASSUME IInv, Onward, UNCHANGED <<barrier, binding>>
  PROVE  barrier' # NoAttempt => barrier'.route = binding' /\ Issued(barrier)'
<1>1. barrier # NoAttempt => barrier \in Attempts /\ barrier.route = binding /\ Issued(barrier)
 BY JobKnows DEF IInv, Types, SomeAttempt
<1> QED BY <1>1 DEF Onward

\* The operation ends: its caller is answered and the queue is free.
LEMMA FinishKeeps ==
  ASSUME IInv, UNCHANGED <<Origin, requests>>, job.pc # "idle", NEW reply, Passed(reply), Finish(reply),
         UNCHANGED binding, \/ barrier' = barrier
                            \/ barrier' = NoAttempt /\ (barrier = NoAttempt \/ (Fresh => Closed(barrier)))
  PROVE  IInv' /\ applied' = applied
<1>0. UNCHANGED Origin /\ requests' = requests OBVIOUS
<1>1. Onward BY <1>0, RegistryWorld
<1>2. job' = Free /\ Reply(job.by, reply) BY DEF Finish
<1>3. PICK b \in Callers \cup {"nobody"} : b = job.by /\ (b # "nobody" => WaitsFor(b)) BY JobKnows
<1>4. \A q \in requests' : q.by = b => b = "nobody" BY <1>0,<1>3 DEF IInv, QueueInv
<1>5. CallersInv' /\ callers' \in [Callers -> ACaller] /\ QueueInv'
 BY <1>0,<1>1,<1>2,<1>3,<1>4, ReplyKeeps, NoneFine DEF IInv
<1>6. barrier' # NoAttempt => barrier'.route = binding' /\ Issued(barrier)' BY <1>1, BarrierStays
<1>7. JobInv' /\ job' \in AJob BY <1>2,<1>6, FreeFine
<1>8. binding' \in Routes /\ barrier' \in SomeAttempt BY DEF IInv, Types, SomeAttempt
<1> QED BY <1>0,<1>5,<1>7,<1>8, RegistryKeeps

\* The operation j at its next call, about attempt a.
Calling(j, pc, resolves, method, a) == [j EXCEPT !.pc = pc, !.resolves = resolves, !.call = Ask(method, a)]

LEMMA NextCall ==
  ASSUME Types, Onward, NEW j \in AJob, NEW pc, NEW method, NEW resolves,
         (pc = "stale" /\ method = "fence") \/ (pc \in {"commit", "lookup", "fence"} /\ method = pc),
         resolves \in {"none", "commit", "lifecycle", "rejected", "refused"},
         NEW a \in Attempts, Issued(a), j.by \in Callers \cup {"nobody"}, pc = "commit" => j.attempt = a,
         resolves = "commit" => j.attempt \in Attempts /\ Issued(j.attempt),
         job' = Calling(j, pc, resolves, method, a),
         barrier' = IF pc = "stale" THEN NoAttempt ELSE a, pc # "stale" => a.route = binding'
  PROVE  JobInv' /\ job' \in AJob /\ job'.by = j.by /\ job'.pc = pc
<1>1. /\ Ask(method, a) \in ACall /\ Ask(method, a).kind = method /\ Ask(method, a).attempt = a
      /\ Ask(method, a).reply.state = "none" BY AskType DEF SomeAttempt
<1> DEFINE call == Ask(method, a)
           n == [j EXCEPT !.pc = pc, !.resolves = resolves, !.call = call]
<1> HIDE DEF call
<1>2. call \in ACall /\ call.kind = method /\ call.attempt = a /\ call.reply.state = "none" BY <1>1 DEF call
<1>3. n \in AJob BY <1>2 DEF AJob
<1>4. PICK k \in AJob : k = n BY <1>3
<1>5. /\ k.pc = pc /\ k.by = j.by /\ k.attempt = j.attempt /\ k.resolves = resolves /\ k.call = call
 BY <1>2,<1>4 DEF AJob
<1>6. job' = k BY <1>4 DEF call, Calling
<1> HIDE DEF n
<1>7. JobPlace(k) BY <1>2,<1>5 DEF JobPlace
<1>8. Issued(a)' /\ (resolves = "commit" => Issued(j.attempt)') BY DEF Onward
<1>9. JobFine(k)' BY <1>2,<1>5,<1>7,<1>8 DEF JobFine, JobPlace, Committed
<1>10. JobFine(job)' BY <1>6,<1>9 DEF JobFine, JobPlace
<1>11. BarrierInv'
 <2>1. a # NoAttempt BY AttemptTypes
 <2> QED BY <1>2,<1>5,<1>6,<1>8,<2>1 DEF BarrierInv
<1> QED BY <1>5,<1>6,<1>10,<1>11 DEF JobInv

LEMMA RefusalPassed ==
  ASSUME NEW state \in {"refused", "error"}
  PROVE  Passed(Refusal(state))
BY RefusalType DEF Passed

LEMMA ReplyPassed ==
  ASSUME IInv, Onward, NEW reply, reply = job.call.reply, Committed(reply)
  PROVE  Passed(reply)
<1>1. reply \in AReply /\ Won(reply.receipt) BY JobKnows
<1>2. Won(reply.receipt)' BY <1>1 DEF Onward, Won
<1> QED BY <1>1,<1>2 DEF Passed, Committed

\* The operation goes on to its next call; barrier and queue are as before.
LEMMA HoldKeeps ==
  ASSUME IInv, UNCHANGED Origin, UNCHANGED <<requests, callers, barrier, binding>>, job.pc # "idle",
         NEW j \in AJob, j = job, NEW a \in Attempts, a = job.call.attempt, barrier = a,
         NEW pc, pc \in {"lookup", "fence"}, NEW resolves, resolves = "commit" => j.resolves = "commit",
         resolves \in {"none", "commit", "lifecycle", "rejected", "refused"},
         job' = Calling(j, pc, resolves, pc, a)
  PROVE  IInv' /\ applied' = applied
<1>1. Onward /\ Types BY RegistryWorld DEF IInv
<1>2. Issued(a) /\ j.by \in Callers \cup {"nobody"} /\ a.route = binding' /\ a # NoAttempt
 <2>1. a # NoAttempt BY AttemptTypes
 <2> QED BY <2>1, JobKnows DEF JobPlace
<1>4. resolves = "commit" => j.attempt \in Attempts /\ Issued(j.attempt) BY DEF IInv, JobInv, JobFine, JobPlace
<1>5. /\ (pc = "stale" /\ pc = "fence") \/ (pc \in {"commit", "lookup", "fence"} /\ pc = pc)
      /\ pc # "commit" /\ barrier' = IF pc = "stale" THEN NoAttempt ELSE a OBVIOUS
<1>7. JobInv' /\ job' \in AJob /\ job'.by = j.by /\ job'.pc = pc BY <1>1,<1>2,<1>4,<1>5, NextCall
<1>8. QueueInv'
 <2>1. job'.pc # "idle" /\ job'.by # "nobody" => WaitsFor(job'.by) /\ \A q \in requests' : q.by # job'.by
  BY <1>7 DEF IInv, QueueInv
 <2> QED BY <1>1,<2>1, QueueHeld DEF IInv
<1>9. CallersInv' /\ callers' \in [Callers -> ACaller] BY <1>1, CallersStay DEF IInv, Types
<1>10. binding' \in Routes /\ barrier' \in SomeAttempt BY DEF IInv, Types
<1> QED BY <1>7,<1>8,<1>9,<1>10, RegistryKeeps

LEMMA ResolveLookedUpKeeps ==
  ASSUME IInv, ResolveLookedUp
  PROVE  IInv' /\ applied' = applied
<1>1. /\ job.pc = "lookup" /\ job.pc # "idle" /\ UNCHANGED <<Origin, requests, callers, barrier, binding>>
      /\ job' = [job EXCEPT !.pc = "fence", !.call = Ask("fence", job.call.attempt)] BY DEF ResolveLookedUp, Hold
<1>2. barrier = job.call.attempt /\ job \in AJob BY <1>1, JobKnows
<1>3. PICK resolves : resolves = job.resolves /\ resolves \in {"none", "commit", "lifecycle", "rejected", "refused"}
 BY <1>2 DEF AJob
<1>4. PICK pc : pc = "fence" OBVIOUS
<1>5. PICK j \in AJob : j = job BY <1>2
<1>6. PICK a \in Attempts : a = job.call.attempt BY <1>1, JobKnows
<1>7. job' = Calling(j, pc, resolves, pc, a) BY <1>1,<1>2,<1>3,<1>4,<1>5,<1>6 DEF AJob, Calling
<1> QED BY <1>1,<1>2,<1>3,<1>4,<1>5,<1>6,<1>7, HoldKeeps

LEMMA StaleFencedKeeps ==
  ASSUME IInv, StaleFenced
  PROVE  IInv' /\ applied' = applied
<1>1. /\ job.pc = "stale" /\ UNCHANGED <<Origin, requests>> /\ barrier' = barrier /\ binding' = binding
      /\ Finish(IF Committed(job.call.reply) THEN job.call.reply ELSE Refusal("refused")) BY DEF StaleFenced
<1>2. PICK reply : reply = IF Committed(job.call.reply) THEN job.call.reply ELSE Refusal("refused") OBVIOUS
<1>3. Onward
 <2>1. UNCHANGED Origin BY <1>1
 <2> QED BY <2>1, RegistryWorld
<1>5. Passed(reply)
 <2>1. CASE Committed(job.call.reply) BY <1>2,<1>3,<2>1, ReplyPassed
 <2>2. CASE ~Committed(job.call.reply)
  <3>1. PICK state \in {"refused", "error"} : state = "refused" OBVIOUS
  <3>2. reply = Refusal(state) BY <1>2,<2>2,<3>1
  <3> QED BY <3>2, RefusalPassed
 <2> QED BY <2>1,<2>2
<1> QED BY <1>1,<1>2,<1>5, FinishKeeps

LEMMA OutcomeUnknownKeeps ==
  ASSUME IInv, OutcomeUnknown
  PROVE  IInv' /\ applied' = applied
<1>1. /\ job.pc # "idle" /\ UNCHANGED <<Origin, requests>> /\ barrier' = barrier /\ binding' = binding
      /\ Finish(Refusal("error")) BY DEF OutcomeUnknown
<1>2. PICK state \in {"refused", "error"} : state = "error" OBVIOUS
<1>3. PICK reply : reply = Refusal(state) /\ Passed(reply) BY RefusalPassed
<1> QED BY <1>1,<1>2,<1>3, FinishKeeps

LEMMA CommitAnsweredKeeps ==
  ASSUME IInv, CommitAnswered
  PROVE  IInv' /\ applied' = applied
<1>1. /\ job.pc = "commit" /\ job.pc # "idle" /\ UNCHANGED <<Origin, requests>> /\ binding' = binding
      /\ UNCHANGED Origin BY DEF CommitAnswered
<1>2. barrier = job.call.attempt /\ job \in AJob /\ job.attempt = job.call.attempt BY <1>1, JobKnows DEF JobPlace
<1>3. CASE Committed(job.call.reply) /\ Finish(job.call.reply) /\ barrier' = NoAttempt
 <2>1. PICK reply : reply = job.call.reply OBVIOUS
 <2>2. Passed(reply) BY <1>1,<1>3,<2>1, RegistryWorld, ReplyPassed
 <2>3. Fresh => Closed(barrier) BY <1>2,<1>3, JobKnows
 <2> QED BY <1>1,<1>3,<2>1,<2>2,<2>3, FinishKeeps
<1>4. CASE /\ UNCHANGED <<callers, barrier>>
           /\ job' = [job EXCEPT !.pc = "lookup", !.call = Ask("lookup", job.attempt),
                        !.resolves = IF job.call.reply.state = "fenced" THEN "refused" ELSE "rejected"]
 <2>1. PICK resolves : /\ resolves = IF job.call.reply.state = "fenced" THEN "refused" ELSE "rejected"
                       /\ resolves # "commit" /\ resolves \in {"none", "commit", "lifecycle", "rejected", "refused"}
  OBVIOUS
 <2>2. PICK pc : pc = "lookup" OBVIOUS
 <2>3. PICK j \in AJob : j = job BY <1>2
 <2>4. PICK a \in Attempts : a = job.call.attempt BY <1>1, JobKnows
 <2>5. job' = Calling(j, pc, resolves, pc, a) BY <1>2,<1>4,<2>1,<2>2,<2>3,<2>4 DEF AJob, Calling
 <2> QED BY <1>1,<1>2,<1>4,<2>1,<2>2,<2>3,<2>4,<2>5, HoldKeeps
<1> QED BY <1>1,<1>3,<1>4 DEF CommitAnswered

\* The barrier is gone or was never there: the attempt of j is admitted.
LEMMA AdmitKeeps ==
  ASSUME IInv, UNCHANGED <<Origin, binding>>, NEW j \in AJob, j.resolves = "none", j.attempt \in Attempts,
         Issued(j.attempt), j.by \in Callers \cup {"nobody"}, Admit(j), barrier' = BarrierAfterAdmit(j.attempt),
         barrier = NoAttempt \/ (Fresh => Closed(barrier)), requests' \subseteq requests,
         j.by # "nobody" => WaitsFor(j.by) /\ \A q \in requests' : q.by # j.by
  PROVE  IInv' /\ applied' = applied
<1>0. UNCHANGED Origin /\ callers' = callers /\ binding' = binding BY DEF Admit
<1>1. Onward BY <1>0, RegistryWorld
<1>2. PICK a \in Attempts : a = j.attempt OBVIOUS
<1>3. PICK pc, method : /\ (pc = "stale" /\ method = "fence" /\ a.route # binding)
                           \/ (pc = "commit" /\ method = "commit" /\ a.route = binding)
                        /\ job' = [j EXCEPT !.pc = pc, !.call = Ask(method, a)] BY <1>2 DEF Admit
<1>4. PICK resolves : resolves = "none" OBVIOUS
<1>5. job' = Calling(j, pc, resolves, method, a) BY <1>3,<1>4 DEF AJob, Calling
<1>6. barrier' = IF pc = "stale" THEN NoAttempt ELSE a BY <1>2,<1>3 DEF BarrierAfterAdmit
<1>t. Types /\ Issued(a) BY <1>2 DEF IInv
<1>p. /\ (pc = "stale" /\ method = "fence") \/ (pc \in {"commit", "lookup", "fence"} /\ method = pc)
      /\ resolves \in {"none", "commit", "lifecycle", "rejected", "refused"} /\ resolves # "commit"
      /\ pc # "stale" => a.route = binding'
      /\ pc = "commit" => j.attempt = a BY <1>0,<1>2,<1>3,<1>4
<1>7. JobInv' /\ job' \in AJob /\ job'.by = j.by /\ job'.pc = pc BY <1>t, <1>p, <1>1,<1>5,<1>6, NextCall
<1>8. QueueInv' BY <1>0,<1>1,<1>7, QueueHeld DEF IInv
<1>9. CallersInv' /\ callers' \in [Callers -> ACaller] BY <1>0,<1>1, CallersStay DEF IInv, Types
<1>10. binding' \in Routes /\ barrier' \in SomeAttempt BY <1>0,<1>6 DEF IInv, Types, SomeAttempt
<1> QED BY <1>0,<1>7,<1>8,<1>9,<1>10, RegistryKeeps

LEMMA ResolvedKeeps ==
  ASSUME IInv, Resolved
  PROVE  IInv' /\ applied' = applied
<1> DEFINE reply == job.call.reply
<1>1. /\ job.pc \in {"lookup", "fence"} /\ job.pc # "idle" /\ UNCHANGED Origin /\ requests' = requests
      /\ Committed(reply) \/ (job.pc = "fence" /\ reply.state = "fenced") BY DEF Resolved
<1>2. barrier = job.call.attempt /\ job \in AJob /\ JobPlace(job) BY <1>1, JobKnows
<1>3. Fresh => Closed(barrier) BY <1>1,<1>2, JobKnows DEF JobPlace
<1>4. Onward BY <1>1, RegistryWorld
<1>5. CASE job' = Free /\ barrier' = NoAttempt /\ (Rebind \/ UNCHANGED binding) /\ UNCHANGED callers
 <2>1. binding' \in Routes /\ barrier' \in SomeAttempt
  <3>1. binding.revision \in 0 .. MaxRevision /\ binding \in Routes BY DEF IInv, Types, Routes
  <3>2. Rebind => binding' \in Routes
   <4>1. binding.revision < MaxRevision => binding.revision + 1 \in 0 .. MaxRevision BY <3>1, LimitsAssumption
   <4> QED BY <4>1 DEF Rebind, Routes
  <3> QED BY <1>5,<3>1,<3>2 DEF SomeAttempt
 <2>2. JobInv' /\ job' \in AJob BY <1>5, FreeFine
 <2>3. QueueInv' BY <1>1,<1>4,<1>5, QueueHeld, NoneFine DEF IInv
 <2>4. CallersInv' /\ callers' \in [Callers -> ACaller] BY <1>4,<1>5, CallersStay DEF IInv, Types
 <2> QED BY <1>1,<1>3,<2>1,<2>2,<2>3,<2>4, RegistryKeeps
<1>6. ASSUME NEW told, Passed(told), Finish(told), barrier' = NoAttempt, UNCHANGED binding
      PROVE  IInv' /\ applied' = applied BY <1>1,<1>3,<1>6, FinishKeeps
<1>7. CASE Committed(reply) /\ barrier' = NoAttempt /\ Finish(reply) /\ UNCHANGED binding
 <2>1. PICK told : told = reply OBVIOUS
 <2>2. Passed(told) BY <1>4,<1>7,<2>1, ReplyPassed
 <2> QED BY <1>6,<1>7,<2>1,<2>2
<1>8. ASSUME NEW state \in {"refused", "error"}, Finish(Refusal(state)), barrier' = NoAttempt, UNCHANGED binding
      PROVE  IInv' /\ applied' = applied
 <2>1. PICK told : told = Refusal(state) OBVIOUS
 <2> QED BY <1>6,<1>8,<2>1, RefusalPassed
<1>9. CASE /\ job.resolves = "commit" /\ UNCHANGED binding
           /\ Admit([job EXCEPT !.resolves = "none"]) /\ barrier' = BarrierAfterAdmit(job.attempt)
 <2>1. PICK j \in AJob : j = [job EXCEPT !.resolves = "none"] BY <1>2 DEF AJob
 <2>2. j.resolves = "none" /\ j.attempt = job.attempt /\ j.by = job.by BY <1>2,<2>1 DEF AJob
 <2>3. job.attempt \in Attempts /\ Issued(job.attempt) BY <1>1,<1>2,<1>9 DEF IInv, JobInv, JobFine, JobPlace
 <2>4. job.by \in Callers \cup {"nobody"} BY <1>1,<1>2 DEF JobPlace
 <2>5. job.by # "nobody" => WaitsFor(job.by) /\ \A q \in requests' : q.by # job.by BY <1>1 DEF IInv, QueueInv
 <2>6. Admit(j) /\ barrier' = BarrierAfterAdmit(j.attempt) /\ UNCHANGED <<Origin, binding>> /\ requests' \subseteq requests
  BY <1>1,<1>9,<2>1,<2>2
 <2> QED BY <1>3,<2>2,<2>3,<2>4,<2>5,<2>6, AdmitKeeps
<1>10. CASE Finish(Refusal("refused")) /\ barrier' = NoAttempt /\ UNCHANGED binding BY <1>8,<1>10
<1>11. CASE /\ Finish(Refusal(IF job.resolves = "refused" THEN "refused" ELSE "error"))
            /\ barrier' = NoAttempt /\ UNCHANGED binding
 <2>1. PICK state \in {"refused", "error"} : state = IF job.resolves = "refused" THEN "refused" ELSE "error"
  OBVIOUS
 <2> QED BY <1>8,<1>11,<2>1
<1> QED BY <1>5,<1>7,<1>9,<1>10,<1>11 DEF Resolved

LEMMA CommitTakesQueueKeeps ==
  ASSUME IInv, NEW q \in requests, CommitTakesQueue(q)
  PROVE  IInv' /\ applied' = applied
<1> DEFINE j0 == [Free EXCEPT !.by = q.by, !.attempt = q.attempt]
<1>1. /\ job.pc = "idle" /\ requests' = requests \ {q} /\ requests' \subseteq requests
      /\ UNCHANGED Origin /\ binding' = binding /\ UNCHANGED <<Origin, binding>> BY DEF CommitTakesQueue
<1>2. job = Free BY <1>1, JobKnows DEF JobPlace
<1>3. q.by \in Callers \cup {"nobody"} /\ q.attempt \in Attempts /\ Issued(q.attempt) /\ (q.by # "nobody" => WaitsFor(q.by))
 BY DEF IInv, Types, QueueInv
<1>5. Onward /\ Types BY <1>1, RegistryWorld DEF IInv
<1>6. \A p \in requests' : p.by = q.by => q.by = "nobody" BY <1>1 DEF IInv, QueueInv
<1>7. PICK j \in AJob : j = j0 BY <1>3, NoneFine DEF AJob, SomeAttempt
<1>8. j.by = q.by /\ j.attempt = q.attempt /\ j.resolves = "none" BY <1>3,<1>7, NoneFine DEF AJob
<1>9. CASE barrier = NoAttempt /\ Admit(j0) /\ barrier' = BarrierAfterAdmit(q.attempt)
 <2>1. Admit(j) /\ barrier' = BarrierAfterAdmit(j.attempt) BY <1>7,<1>8,<1>9
 <2>2. j.attempt \in Attempts /\ Issued(j.attempt) /\ j.by \in Callers \cup {"nobody"} BY <1>3,<1>8
 <2>3. j.by # "nobody" => WaitsFor(j.by) /\ \A p \in requests' : p.by # j.by BY <1>3,<1>6,<1>8
 <2> QED BY <1>1,<1>8,<1>9,<2>1,<2>2,<2>3, AdmitKeeps
<1>10. CASE Reply(q.by, Refusal("error")) /\ UNCHANGED <<job, barrier>>
 <2>1. PICK state \in {"refused", "error"} : state = "error" OBVIOUS
 <2>2. PICK reply : reply = Refusal(state) /\ Passed(reply) BY RefusalPassed
 <2>3. PICK b \in Callers \cup {"nobody"} : b = q.by BY <1>3
 <2>4. Reply(b, reply) BY <1>10,<2>1,<2>2,<2>3
 <2>5. job' = Free /\ job'.pc = "idle" BY <1>2,<1>10, NoneFine
 <2>6. CallersInv' /\ callers' \in [Callers -> ACaller] /\ QueueInv'
  BY <1>1,<1>3,<1>5,<1>6,<2>2,<2>3,<2>4,<2>5, ReplyKeeps DEF IInv
 <2>7. barrier' # NoAttempt => barrier'.route = binding' /\ Issued(barrier)' BY <1>1,<1>5,<1>10, BarrierStays
 <2>8. JobInv' /\ job' \in AJob BY <2>5,<2>7, FreeFine
 <2>9. binding' \in Routes /\ barrier' \in SomeAttempt BY <1>1,<1>10 DEF IInv, Types
 <2> QED BY <1>1,<1>10,<2>6,<2>8,<2>9, RegistryKeeps
<1>11. CASE /\ barrier # NoAttempt
            /\ job' = [j0 EXCEPT !.pc = "lookup", !.resolves = "commit", !.call = Ask("lookup", barrier)]
            /\ UNCHANGED <<callers, barrier>>
 <2>1. PICK a \in Attempts : a = barrier BY <1>11 DEF IInv, Types, SomeAttempt
 <2>2. Issued(a) /\ a.route = binding' BY <1>1,<1>11,<2>1, JobKnows
 <2>3. PICK pc, resolves : pc = "lookup" /\ resolves = "commit" OBVIOUS
 <2>4. job' = Calling(j, pc, resolves, pc, a) BY <1>7,<1>11,<2>1,<2>3 DEF Calling
 <2>5. /\ j.by \in Callers \cup {"nobody"} /\ pc \in {"commit", "lookup", "fence"} /\ pc # "commit" /\ pc # "stale"
       /\ resolves \in {"none", "commit", "lifecycle", "rejected", "refused"}
       /\ resolves = "commit" => j.attempt \in Attempts /\ Issued(j.attempt)
       /\ barrier' = IF pc = "stale" THEN NoAttempt ELSE a BY <1>3,<1>8,<1>11,<2>1,<2>3
 <2>6. JobInv' /\ job' \in AJob /\ job'.by = j.by /\ job'.pc = pc BY <1>5,<2>2,<2>4,<2>5, NextCall
 <2>7. QueueInv' BY <1>1,<1>3,<1>5,<1>6,<1>8,<1>11,<2>6, QueueHeld DEF IInv
 <2>8. CallersInv' /\ callers' \in [Callers -> ACaller] BY <1>5,<1>11, CallersStay DEF IInv, Types
 <2>9. binding' \in Routes /\ barrier' \in SomeAttempt BY <1>1,<1>11 DEF IInv, Types
 <2> QED BY <1>1,<1>11,<2>6,<2>7,<2>8,<2>9, RegistryKeeps
<1> QED BY <1>9,<1>10,<1>11 DEF CommitTakesQueue

LEMMA LifecycleTakesQueueKeeps ==
  ASSUME IInv, LifecycleTakesQueue
  PROVE  IInv' /\ applied' = applied
<1>1. /\ job.pc = "idle" /\ UNCHANGED Origin /\ callers' = callers /\ requests' = requests /\ barrier' = barrier
 BY DEF LifecycleTakesQueue
<1>2. job = Free BY <1>1, JobKnows DEF JobPlace
<1>5. Onward /\ Types BY <1>1, RegistryWorld DEF IInv
<1>6. CallersInv' /\ callers' \in [Callers -> ACaller] BY <1>1,<1>5, CallersStay DEF IInv, Types
<1>7. CASE barrier = NoAttempt /\ Rebind /\ UNCHANGED job
 <2>1. binding' \in Routes /\ barrier' \in SomeAttempt
  <3>1. binding.revision \in 0 .. MaxRevision BY <1>5 DEF Types, Routes
  <3>2. binding.revision < MaxRevision => binding.revision + 1 \in 0 .. MaxRevision BY <3>1, LimitsAssumption
  <3> QED BY <1>1,<1>5,<1>7,<3>2 DEF Rebind, Routes, Types
 <2>2. job' = Free /\ job'.pc = "idle" BY <1>2,<1>7, NoneFine
 <2>3. JobInv' /\ job' \in AJob BY <1>1,<1>7,<2>2, FreeFine
 <2>4. QueueInv' BY <1>1,<1>5,<2>2, QueueHeld DEF IInv
 <2> QED BY <1>1,<1>6,<2>1,<2>3,<2>4, RegistryKeeps
<1>8. CASE /\ barrier # NoAttempt /\ UNCHANGED binding
           /\ job' = [Free EXCEPT !.pc = "lookup", !.by = "nobody", !.resolves = "lifecycle",
                                  !.call = Ask("lookup", barrier)]
 <2>1. PICK a \in Attempts : a = barrier BY <1>5,<1>8 DEF Types, SomeAttempt
 <2>2. Issued(a) /\ a.route = binding' BY <1>8,<2>1, JobKnows
 <2>3. PICK pc, resolves : pc = "lookup" /\ resolves = "lifecycle" OBVIOUS
 <2>4. PICK j \in AJob : j = [Free EXCEPT !.by = "nobody"] BY NoneFine DEF AJob
 <2>5. j.by = "nobody" BY <2>4, NoneFine DEF AJob
 <2>6. job' = Calling(j, pc, resolves, pc, a) BY <1>8,<2>1,<2>3,<2>4, NoneFine DEF AJob, Calling
 <2>7. /\ j.by \in Callers \cup {"nobody"} /\ pc \in {"commit", "lookup", "fence"} /\ pc # "commit" /\ pc # "stale"
       /\ resolves \in {"none", "commit", "lifecycle", "rejected", "refused"} /\ resolves # "commit"
       /\ barrier' = IF pc = "stale" THEN NoAttempt ELSE a BY <1>1,<2>1,<2>3,<2>5
 <2>8. JobInv' /\ job' \in AJob /\ job'.by = j.by /\ job'.pc = pc BY <1>5,<2>2,<2>6,<2>7, NextCall
 <2>9. QueueInv' BY <1>1,<1>5,<2>5,<2>8, QueueHeld DEF IInv
 <2>10. binding' \in Routes /\ barrier' \in SomeAttempt BY <1>1,<1>5,<1>8 DEF Types
 <2> QED BY <1>1,<1>6,<2>8,<2>9,<2>10, RegistryKeeps
<1> QED BY <1>7,<1>8 DEF LifecycleTakesQueue

\* The operation in the queue hears of its call: an owner's answer or an error.
LEMMA JobHears ==
  ASSUME IInv, Onward, barrier' = barrier, binding' = binding, NEW reply \in AReply,
         job' = [job EXCEPT !.call.reply = reply], job.call.kind # "none",
         NEW a \in Attempts, a = job.call.attempt,
         Committed(reply) => Won(reply.receipt)' /\ (Fresh' => Closed(a)'),
         job.call.kind = "fence" /\ reply.state = "fenced" => (Fresh' => Closed(a)')
  PROVE  JobInv' /\ job' \in AJob /\ job'.by = job.by /\ job'.pc = job.pc
<1>0. job \in AJob /\ job.pc # "idle" BY JobKnows, NoneFine DEF JobPlace
<1>1. PICK k \in AJob : k = [job EXCEPT !.call.reply = reply] BY <1>0 DEF AJob, ACall
<1>2. /\ k.pc = job.pc /\ k.by = job.by /\ k.attempt = job.attempt /\ k.resolves = job.resolves
      /\ k.call.kind = job.call.kind /\ k.call.attempt = a /\ k.call.reply = reply BY <1>0,<1>1 DEF AJob, ACall
<1>3. job' = k BY <1>1
<1>4. PICK j \in AJob : j = job BY <1>0
<1>5. JobFine(j)' BY <1>4, JobStays DEF IInv, JobInv
<1>6. JobPlace(k) BY <1>0,<1>2, JobKnows DEF JobPlace
<1>7. Issued(a)' /\ (job.resolves = "commit" => Issued(j.attempt)')
 <2>1. j.pc # "idle" /\ j.call.attempt = a /\ j.resolves = job.resolves BY <1>0,<1>4
 <2> QED BY <1>5,<2>1 DEF JobFine
<1>8. JobFine(k)' BY <1>2,<1>4,<1>6,<1>7 DEF JobFine, JobPlace
<1>9. JobFine(job)' BY <1>3,<1>8 DEF JobFine, JobPlace
<1>10. BarrierInv'
 <2>1. barrier' # NoAttempt => barrier'.route = binding' /\ Issued(barrier)' BY BarrierStays
 <2> QED BY <1>2,<1>3,<2>1, JobKnows DEF BarrierInv
<1> QED BY <1>2,<1>3,<1>9,<1>10 DEF JobInv

LEMMA ServeRegistryKeeps ==
  ASSUME IInv, ServeRegistry
  PROVE  IInv' /\ (applied' # applied => \E a \in Attempts : applied' = <<a>> /\ a.route = binding')
<1>1. /\ UNCHANGED <<setting, kind, now, origin, retiring>> /\ UNCHANGED <<binding, barrier, requests, losses, callers, stray>>
 BY DEF ServeRegistry, Owner
<1>2. job.pc # "idle" /\ job.call.kind \in {"fence", "commit", "lookup"} /\ job \in AJob
      /\ (job.call.kind = "commit" => job.pc = "commit")
 BY JobKnows, NoneFine DEF ServeRegistry, Waiting, JobPlace, AJob
<1>3. PICK a \in Attempts : a = job.call.attempt /\ Issued(a) BY <1>2, JobKnows
<1>4. PICK method \in {"lookup", "fence", "confirm", "commit"} : method = job.call.kind /\ method # "confirm"
 BY <1>2
<1>5. PICK x \in Outcomes(method, a) : Transact(a, x) /\ job' = [job EXCEPT !.call.reply = x.reply]
 BY <1>3,<1>4 DEF ServeRegistry
<1>6. ServedWell(method, a, x) BY <1>1,<1>3,<1>4,<1>5, OwnerServes DEF IInv
<1>7. World' /\ Onward /\ owners' \in [Realms -> OwnerRow] /\ origin' \in OriginRecord
 BY <1>1,<1>6 DEF ServedWell, IInv, Types
<1>8. PICK reply \in AReply : reply = x.reply BY <1>6 DEF ServedWell
<1>9. /\ Committed(reply) => Won(reply.receipt)' /\ (Fresh' => Closed(a)')
      /\ job.call.kind = "fence" /\ reply.state = "fenced" => (Fresh' => Closed(a)')
 BY <1>4,<1>6,<1>8 DEF ServedWell
<1>10. JobInv' /\ job' \in AJob /\ job'.by = job.by /\ job'.pc = job.pc
 BY <1>1,<1>2,<1>3,<1>5,<1>7,<1>8,<1>9, JobHears
<1>11. QueueInv'
 <2>1. job'.pc # "idle" /\ job'.by # "nobody" => WaitsFor(job'.by) /\ \A q \in requests' : q.by # job'.by
  BY <1>1,<1>10 DEF IInv, QueueInv
 <2> QED BY <1>1,<1>7,<2>1, QueueHeld DEF IInv
<1>12. CallersInv' BY <1>1,<1>7, CallersStay DEF IInv
<1>13. StrayInv' BY <1>1,<1>7, StrayGuarded DEF IInv
<1>14. Types' BY <1>1,<1>7,<1>10 DEF IInv, Types
<1>15. ASSUME applied' # applied
       PROVE  applied' = <<a>> /\ a.route = binding'
 <2>1. method = "commit" /\ applied' = <<a>> BY <1>6,<1>15 DEF ServedWell
 <2>2. barrier = a /\ a # NoAttempt BY <1>2,<1>3,<1>4,<2>1, JobKnows, AttemptTypes
 <2> QED BY <1>1,<2>1,<2>2, JobKnows
<1> QED BY <1>7,<1>10,<1>11,<1>12,<1>13,<1>14,<1>15 DEF IInv

-----------------------------------------------------------------------------
(* The losses                                                                *)

\* A call left behind is one that was issued; a commit is behind the barrier.
LeftBehind(s) == s \in Calls /\ StrayFine(s) /\ (s.kind = "commit" => barrier = s.attempt)

LEMMA AbandonedJob ==
  ASSUME IInv, NEW s \in Abandoned({job.call})
  PROVE  LeftBehind(s)
<1>1. s = [kind |-> job.call.kind, attempt |-> job.call.attempt] /\ Waiting(job.call) /\ job.call.kind # "lookup"
 BY DEF Abandoned
<1>2. job.pc # "idle" /\ job.call.kind \in {"fence", "commit"} /\ (job.call.kind = "commit" => job.pc = "commit")
 BY <1>1, JobKnows, NoneFine DEF Waiting, JobPlace, AJob
<1>3. job.call.attempt \in Attempts /\ Issued(job.call.attempt) BY <1>2, JobKnows
<1>4. s.kind = job.call.kind /\ s.attempt = job.call.attempt BY <1>1
<1>5. s \in Calls BY <1>1,<1>2,<1>3 DEF Calls
<1>6. s.kind = "commit" => barrier = s.attempt BY <1>2,<1>4, JobKnows
<1> QED BY <1>2,<1>3,<1>4,<1>5,<1>6 DEF LeftBehind, StrayFine

LEMMA AbandonedCaller ==
  ASSUME IInv, NEW c \in Callers, NEW s \in Abandoned({callers[c].call})
  PROVE  LeftBehind(s)
<1>1. /\ s = [kind |-> callers[c].call.kind, attempt |-> callers[c].call.attempt]
      /\ Waiting(callers[c].call) /\ callers[c].call.kind # "lookup" BY DEF Abandoned
<1>2. callers[c] \in ACaller /\ CallerFine(callers[c]) BY Asker DEF IInv
<1>3. callers[c].call.kind \in {"fence", "confirm"}
 BY <1>1,<1>2, NoneFine DEF Waiting, CallerFine, PlaceFine, ACaller
<1>4. callers[c].call.attempt \in Attempts /\ Issued(callers[c].call.attempt)
 BY <1>2,<1>3 DEF CallerFine, PlaceFine
<1>5. s.kind = callers[c].call.kind /\ s.attempt = callers[c].call.attempt BY <1>1
<1>6. s \in Calls BY <1>1,<1>3,<1>4 DEF Calls
<1>7. s.kind = "confirm" => Cached BY <1>2,<1>5 DEF CallerFine, ReplyFine
<1> QED BY <1>3,<1>4,<1>5,<1>6,<1>7 DEF LeftBehind, StrayFine

\* A loss changes only what was in memory.
LEMMA LossKeeps ==
  ASSUME IInv, losses < setting.losses, losses' = losses + 1,
         UNCHANGED <<setting, kind, now, origin, owners, retiring, binding, barrier, applied>>,
         \A s \in stray' : s \in stray \/ LeftBehind(s),
         CallersInv', callers' \in [Callers -> ACaller], QueueInv', JobInv', job' \in AJob,
         requests' \subseteq [by : Callers \cup {"nobody"}, attempt : Attempts]
  PROVE  IInv' /\ applied' = applied
<1>1. World' /\ Onward /\ origin' \in OriginRecord /\ owners' \in [Realms -> OwnerRow] /\ Types
 BY Moves DEF IInv, OriginMoves, OwnersMove
<1>2. losses' \in 0 .. setting'.losses
 <2>1. losses \in Nat /\ setting.losses \in Nat BY <1>1, LimitsAssumption DEF Types
 <2> QED BY <2>1
<1>3. \A s \in stray' : s \in Calls /\ StrayFine(s) BY <1>1 DEF LeftBehind, Types, IInv, StrayInv
<1>4. \A s \in stray' : StrayFine(s)' BY <1>1,<1>3, StrayStays
<1>5. NoUnguardedCommit'
 <2> SUFFICES ASSUME NEW s \in stray', s.kind = "commit", Fresh', ~(Closed(s.attempt)')
              PROVE  barrier' = s.attempt BY DEF NoUnguardedCommit, Closed
 <2>1. Fresh /\ ~Closed(s.attempt) BY DEF Fresh, Closed
 <2> QED BY <2>1 DEF LeftBehind, IInv, StrayInv, NoUnguardedCommit, Closed
<1>6. Types' BY <1>1,<1>2,<1>3 DEF Types
<1> QED BY <1>1,<1>4,<1>5,<1>6 DEF IInv, StrayInv

LEMMA LossOnward ==
  ASSUME IInv, UNCHANGED <<setting, kind, now, origin, owners, retiring, applied>>
  PROVE  Onward /\ Types
BY Moves DEF IInv, OriginMoves, OwnersMove

LEMMA CallFailsKeeps ==
  ASSUME IInv, CallFails
  PROVE  IInv' /\ applied' = applied
<1>1. /\ UNCHANGED <<setting, kind, now, origin, owners, retiring, binding, barrier, applied>>
      /\ requests' = requests /\ losses < setting.losses /\ losses' = losses + 1 BY DEF CallFails
<1>2. Onward /\ Types BY <1>1, LossOnward
<1>3. PICK state \in {"error", "rejected", "fenced", "refused"} : state = "error" OBVIOUS
<1>4. PICK reply \in AReply : reply = Refusal(state) BY RefusalType
<1>5. reply.state = "error" /\ ~Committed(reply) BY <1>3,<1>4, RefusalType
<1>6. requests' \subseteq [by : Callers \cup {"nobody"}, attempt : Attempts] BY <1>1,<1>2 DEF Types
<1>7. CASE /\ job.call.kind # "none" /\ stray' = stray \cup Abandoned({job.call})
           /\ job' = [job EXCEPT !.call.reply = Refusal("error")]
           /\ UNCHANGED callers
 <2>1. PICK a \in Attempts : a = job.call.attempt BY <1>7, JobKnows, NoneFine DEF JobPlace
 <2>2. job' = [job EXCEPT !.call.reply = reply] BY <1>3,<1>4,<1>7
 <2>3. JobInv' /\ job' \in AJob /\ job'.by = job.by /\ job'.pc = job.pc BY <1>1,<1>2,<1>5,<1>7,<2>1,<2>2, JobHears
 <2>4. QueueInv'
  <3>1. job'.pc # "idle" /\ job'.by # "nobody" => WaitsFor(job'.by) /\ \A q \in requests' : q.by # job'.by
   BY <1>1,<2>3 DEF IInv, QueueInv
  <3> QED BY <1>1,<1>2,<1>7,<3>1, QueueHeld DEF IInv
 <2>5. CallersInv' /\ callers' \in [Callers -> ACaller] BY <1>2,<1>7, CallersStay DEF IInv, Types
 <2>6. \A s \in stray' : s \in stray \/ LeftBehind(s) BY <1>7, AbandonedJob
 <2> QED BY <1>1,<1>6,<2>3,<2>4,<2>5,<2>6, LossKeeps
<1>8. ASSUME NEW c \in Callers, callers[c].call.kind \notin {"none", "registry"},
             stray' = stray \cup Abandoned({callers[c].call}),
             callers' = [callers EXCEPT ![c].call.reply = Refusal("error")], UNCHANGED job
      PROVE  IInv' /\ applied' = applied
 <2>1. callers[c] \in ACaller /\ CallerFine(callers[c]) BY <1>2, Asker DEF IInv
 <2>2. callers[c].pc \notin {"idle", "sent", "prepare", "local", "registry"} /\ callers[c].call.kind # "registry"
  BY <1>8,<2>1, NoneFine DEF CallerFine, PlaceFine
 <2>3. PICK k \in ACaller : k = callers[c] BY <2>1
 <2>4. PICK h \in ACaller : h = [k EXCEPT !.call.reply = reply] BY DEF ACaller, ACall
 <2>5. /\ h.pc = k.pc /\ h.op = k.op /\ h.route = k.route /\ h.told = k.told /\ h.record = k.record
       /\ h.call.kind = k.call.kind /\ h.call.attempt = k.call.attempt /\ h.call.reply = reply
  BY <2>4 DEF ACaller, ACall
 <2>6. callers' = [callers EXCEPT ![c] = h] BY <1>2,<1>3,<1>4,<1>8,<2>1,<2>3,<2>4 DEF Types
 <2>7. CallerFine(k)' BY <1>2,<2>1,<2>3, CallerStays
 <2>8. PlaceFine(h)' BY <2>2,<2>3,<2>5,<2>7 DEF CallerFine, PlaceFine
 <2>9. ReplyFine(h.call)' BY <1>5,<2>5,<2>7 DEF CallerFine, ReplyFine
 <2>10. CallerFine(h)' BY <2>5,<2>7,<2>8,<2>9 DEF CallerFine
 <2>11. CallersInv' /\ callers' \in [Callers -> ACaller] BY <1>2,<2>6,<2>10, OneCaller DEF IInv
 <2>12. ~WaitsFor(c) BY <2>2 DEF WaitsFor
 <2>13. QueueInv' BY <1>1,<1>2,<1>8,<2>6,<2>10,<2>12, QueueOfOne DEF IInv
 <2>14. JobInv' /\ job' \in AJob
  <3>1. JobFine(job)' BY <1>2,<1>8, JobStays DEF IInv, JobInv, Types
  <3>2. barrier' # NoAttempt => barrier'.route = binding' /\ Issued(barrier)' BY <1>1,<1>2, BarrierStays
  <3> QED BY <1>1,<1>2,<1>8,<3>1,<3>2 DEF IInv, JobInv, BarrierInv, Types
 <2>15. \A s \in stray' : s \in stray \/ LeftBehind(s) BY <1>8, AbandonedCaller
 <2> QED BY <1>1,<1>6,<2>11,<2>13,<2>14,<2>15, LossKeeps
<1> QED BY <1>7,<1>8 DEF CallFails

LEMMA OriginEvictedKeeps ==
  ASSUME IInv, OriginEvicted
  PROVE  IInv' /\ applied' = applied
<1>1. /\ UNCHANGED <<setting, kind, now, origin, owners, retiring, binding, barrier, applied>>
      /\ losses < setting.losses /\ losses' = losses + 1
      /\ stray' = stray \cup Abandoned({callers[c].call : c \in Callers})
      /\ callers' = [c \in Callers |-> IF callers[c].pc = "idle" THEN callers[c]
                                       ELSE [Quiet EXCEPT !.told = "error"]]
      /\ requests' = {[q EXCEPT !.by = "nobody"] : q \in requests}
      /\ job' = IF job.pc = "idle" THEN job ELSE [job EXCEPT !.by = "nobody"] BY DEF OriginEvicted
<1>2. Onward /\ Types BY <1>1, LossOnward
<1>3. \A q \in requests' : q.by = "nobody" /\ q.attempt \in Attempts /\ Issued(q.attempt)'
                           /\ q \in [by : Callers \cup {"nobody"}, attempt : Attempts]
 <2> SUFFICES ASSUME NEW p \in requests, NEW q, q = [p EXCEPT !.by = "nobody"]
              PROVE  q.by = "nobody" /\ q.attempt \in Attempts /\ Issued(q.attempt)'
                     /\ q \in [by : Callers \cup {"nobody"}, attempt : Attempts] BY <1>1
 <2>1. p \in [by : Callers \cup {"nobody"}, attempt : Attempts] /\ Issued(p.attempt)
  BY <1>2 DEF Types, IInv, QueueInv
 <2>2. q.by = "nobody" /\ q.attempt = p.attempt /\ q \in [by : Callers \cup {"nobody"}, attempt : Attempts]
  BY <2>1
 <2> QED BY <1>2,<2>1,<2>2 DEF Onward
<1>4. job \in AJob BY JobKnows
<1>5. PICK k \in AJob : k = IF job.pc = "idle" THEN job ELSE [job EXCEPT !.by = "nobody"] BY <1>4 DEF AJob
<1>6. /\ k.pc = job.pc /\ k.attempt = job.attempt /\ k.resolves = job.resolves /\ k.call = job.call
      /\ k.pc # "idle" => k.by = "nobody"
      /\ k.pc = "idle" => k = job BY <1>4,<1>5 DEF AJob
<1>7. job' = k BY <1>1,<1>5
<1>8. PICK j \in AJob : j = job BY <1>4
<1>9. JobFine(j)' BY <1>2,<1>8, JobStays DEF IInv, JobInv
<1>10. JobFine(k)' BY <1>6,<1>8,<1>9 DEF JobFine, JobPlace
<1>11. JobInv' /\ job' \in AJob
 <2>1. JobFine(job)' BY <1>7,<1>10 DEF JobFine, JobPlace
 <2>2. barrier' # NoAttempt => barrier'.route = binding' /\ Issued(barrier)' BY <1>1,<1>2, BarrierStays
 <2>3. BarrierInv' BY <1>1,<1>6,<1>7,<2>2, JobKnows DEF BarrierInv
 <2> QED BY <1>7,<2>1,<2>3 DEF JobInv
<1>12. QueueInv' BY <1>3,<1>6,<1>7 DEF QueueInv
<1>13. CallersInv' /\ callers' \in [Callers -> ACaller]
 <2>1. PICK told \in Told : told = "error" BY DEF Told
 <2>2. PICK g \in ACaller : g = [Quiet EXCEPT !.told = told] /\ CallerFine(g)' BY <1>2,<2>1, QuietCaller
 <2>3. ASSUME NEW c \in Callers PROVE CallerFine(callers[c])' /\ callers'[c] \in ACaller
  <3>1. PICK h \in ACaller : h = callers[c] /\ CallerFine(h) BY <1>2, Asker DEF IInv
  <3>2. CallerFine(h)' BY <1>2,<3>1, CallerStays
  <3>3. callers'[c] = h \/ callers'[c] = g BY <1>1,<2>1,<2>2,<3>1
  <3>4. PICK f \in ACaller : f = callers'[c] /\ CallerFine(f)' BY <2>2,<3>2,<3>3
  <3> QED BY <3>4 DEF CallerFine, PlaceFine, ReplyFine
 <2> QED BY <1>1,<2>3 DEF CallersInv
<1>14. \A s \in stray' : s \in stray \/ LeftBehind(s)
 <2> SUFFICES ASSUME NEW s \in Abandoned({callers[c].call : c \in Callers}) PROVE LeftBehind(s) BY <1>1
 <2>1. PICK c \in Callers : s \in Abandoned({callers[c].call}) BY DEF Abandoned
 <2> QED BY <2>1, AbandonedCaller
<1>15. requests' \subseteq [by : Callers \cup {"nobody"}, attempt : Attempts] BY <1>3
<1> QED BY <1>1,<1>11,<1>12,<1>13,<1>14,<1>15, LossKeeps

LEMMA RegistryEvictedKeeps ==
  ASSUME IInv, RegistryEvicted
  PROVE  IInv' /\ applied' = applied
<1>1. /\ UNCHANGED <<setting, kind, now, origin, owners, retiring, binding, barrier, applied>>
      /\ losses < setting.losses /\ losses' = losses + 1
      /\ stray' = stray \cup Abandoned({job.call}) /\ job' = Free /\ requests' = {}
      /\ callers' = [c \in Callers |-> IF callers[c].pc # "registry" \/ Answered(callers[c].call) THEN callers[c]
                       ELSE [callers[c] EXCEPT !.call = [Ask("registry", @.attempt) EXCEPT !.reply = Refusal("error")]]]
 BY DEF RegistryEvicted
<1>2. Onward /\ Types BY <1>1, LossOnward
<1>3. JobInv' /\ job' \in AJob BY <1>1,<1>2, BarrierStays, FreeFine
<1>4. QueueInv' BY <1>1, NoneFine DEF QueueInv
<1>5. CallersInv' /\ callers' \in [Callers -> ACaller]
 <2>1. PICK state \in {"error", "rejected", "fenced", "refused"} : state = "error" OBVIOUS
 <2>2. PICK reply \in AReply : reply = Refusal(state) /\ reply.state = "error" /\ ~Committed(reply)
  BY <2>1, RefusalType
 <2>3. PICK method \in {"lookup", "fence", "confirm", "commit", "registry"} : method = "registry" OBVIOUS
 <2>4. ASSUME NEW c \in Callers PROVE CallerFine(callers[c])' /\ callers'[c] \in ACaller
  <3>1. PICK h \in ACaller : h = callers[c] /\ CallerFine(h) BY <1>2, Asker DEF IInv
  <3>2. CallerFine(h)' BY <1>2,<3>1, CallerStays
  <3>3. CASE callers'[c] = h BY <3>2,<3>3 DEF CallerFine, PlaceFine, ReplyFine
  <3>4. CASE h.pc = "registry" /\ callers'[c] # h
   <4>1. PICK a \in SomeAttempt : a = h.call.attempt BY DEF ACaller, ACall
   <4>2. Ask(method, a) \in ACall /\ Ask(method, a).kind = method /\ Ask(method, a).attempt = a BY AskType
   <4>3. PICK call \in ACall : call = [Ask(method, a) EXCEPT !.reply = reply] BY <4>2 DEF ACall
   <4>4. call.kind = "registry" /\ call.reply = reply BY <2>3,<4>2,<4>3 DEF ACall
   <4>5. PICK g \in ACaller : g = [h EXCEPT !.call = call] BY DEF ACaller
   <4>6. /\ g.pc = h.pc /\ g.op = h.op /\ g.route = h.route /\ g.told = h.told /\ g.record = h.record
         /\ g.call = call BY <4>5 DEF ACaller
   <4>7. callers'[c] = g BY <1>1,<2>1,<2>2,<2>3,<3>1,<3>4,<4>1,<4>3,<4>5
   <4>8. PlaceFine(g)' BY <2>2,<3>2,<3>4,<4>4,<4>6 DEF CallerFine, PlaceFine
   <4>9. ReplyFine(g.call)' BY <2>2,<4>4,<4>6 DEF ReplyFine
   <4>10. CallerFine(g)' BY <3>2,<3>4,<4>6,<4>8,<4>9 DEF CallerFine
   <4> QED BY <4>7,<4>10 DEF CallerFine, PlaceFine, ReplyFine
  <3>5. h.pc # "registry" => callers'[c] = h BY <1>1,<3>1
  <3> QED BY <3>3,<3>4,<3>5
 <2> QED BY <1>1,<2>4 DEF CallersInv
<1>6. \A s \in stray' : s \in stray \/ LeftBehind(s) BY <1>1, AbandonedJob
<1>7. requests' \subseteq [by : Callers \cup {"nobody"}, attempt : Attempts] BY <1>1
<1> QED BY <1>1,<1>3,<1>4,<1>5,<1>6,<1>7, LossKeeps

-----------------------------------------------------------------------------
(* The theorems                                                              *)

LEMMA Initially ==
  ASSUME Init
  PROVE  IInv
<1>1. Types
 <2>1. (CHOOSE r \in Realms : TRUE) \in Realms BY RealmsAssumption
 <2>2. binding \in Routes BY <2>1, LimitsAssumption DEF Init, Routes
 <2>3. setting.time \in Nat /\ setting.losses \in Nat BY LimitsAssumption DEF Init
 <2> QED BY <2>2,<2>3, NoneFine DEF Init, Types, SomeAttempt
<1>2. sourceLifetime > 0 /\ Fresh BY Names DEF Init, Fresh
<1>3. AppliedInv BY DEF Init, AppliedInv
<1>4. OriginInv BY NoneFine DEF Init, OriginInv, Absent
<1>5. OwnersInv BY DEF Init, OwnersInv, RowFine, NoRow
<1>6. CallersInv
 <2>1. PlaceFine(Quiet) BY NoneFine DEF PlaceFine
 <2>2. ReplyFine(Quiet.call) BY NoneFine DEF ReplyFine, Committed
 <2>3. CallerFine(Quiet) BY <2>1,<2>2, NoneFine DEF CallerFine
 <2> QED BY <2>3 DEF Init, CallersInv
<1>7. JobInv
 <2>1. JobFine(Free) BY NoneFine DEF JobFine, JobPlace, Committed
 <2> QED BY <2>1, NoneFine DEF Init, JobInv, BarrierInv
<1>8. QueueInv BY NoneFine DEF Init, QueueInv
<1>9. StrayInv BY DEF Init, StrayInv, NoUnguardedCommit
<1> QED BY <1>1,<1>3,<1>4,<1>5,<1>6,<1>7,<1>8,<1>9 DEF IInv, World

\* The registry's own steps, and the losses, apply nothing.
LEMMA RegistryStepKeeps ==
  ASSUME IInv, RegistryStep
  PROVE  IInv' /\ applied' = applied
<1>1. ASSUME NEW q \in requests, CommitTakesQueue(q) PROVE IInv' /\ applied' = applied
 BY <1>1, CommitTakesQueueKeeps
<1>2. CASE LifecycleTakesQueue BY <1>2, LifecycleTakesQueueKeeps
<1>3. CASE ResolveLookedUp BY <1>3, ResolveLookedUpKeeps
<1>4. CASE Resolved BY <1>4, ResolvedKeeps
<1>5. CASE StaleFenced BY <1>5, StaleFencedKeeps
<1>6. CASE CommitAnswered BY <1>6, CommitAnsweredKeeps
<1>7. CASE OutcomeUnknown BY <1>7, OutcomeUnknownKeeps
<1> QED BY <1>1,<1>2,<1>3,<1>4,<1>5,<1>6,<1>7 DEF RegistryStep

\* Every step keeps the invariant, and applies a mutation only under the
\* binding that holds, unless the origin itself owns the operation.
LEMMA EveryStep ==
  ASSUME IInv, Next
  PROVE  IInv' /\ AppliedUnderCurrentBinding
<1>1. applied' = applied => AppliedUnderCurrentBinding BY DEF AppliedUnderCurrentBinding
<1>2. ASSUME NEW a, applied' = <<a>>, a.route = binding PROVE AppliedUnderCurrentBinding
 BY <1>2 DEF AppliedUnderCurrentBinding
<1>3. ASSUME NEW c \in Callers, OriginStep(c) PROVE IInv' /\ AppliedUnderCurrentBinding
 BY <1>3, OriginStepKeeps DEF AppliedUnderCurrentBinding
<1>4. CASE RegistryStep BY <1>1,<1>4, RegistryStepKeeps
<1>5. ASSUME NEW c \in Callers, ServeOrigin(c) PROVE IInv' /\ AppliedUnderCurrentBinding
 BY <1>1,<1>5, ServeOriginKeeps
<1>6. CASE ServeRegistry
 <2>1. binding' = binding BY <1>6 DEF ServeRegistry, Owner
 <2> QED BY <1>1,<1>2,<1>6,<2>1, ServeRegistryKeeps
<1>7. ASSUME NEW s \in stray, ServeStray(s) PROVE IInv' /\ AppliedUnderCurrentBinding
 <2>1. binding' = binding BY <1>7 DEF ServeStray, Owner
 <2> QED BY <1>1,<1>2,<1>7,<2>1, ServeStrayKeeps
<1>8. ASSUME NEW r \in Realms, retireStoredStateEventOwner(r) PROVE IInv' /\ AppliedUnderCurrentBinding
 BY <1>1,<1>8, RetireStoredKeeps
<1>9. CASE prune BY <1>1,<1>9, PruneKeeps
<1>10. CASE CallFails BY <1>1,<1>10, CallFailsKeeps
<1>11. CASE OriginEvicted BY <1>1,<1>11, OriginEvictedKeeps
<1>12. CASE RegistryEvicted BY <1>1,<1>12, RegistryEvictedKeeps
<1>13. CASE Tick BY <1>1,<1>13, TickKeeps
<1> QED BY <1>3,<1>4,<1>5,<1>6,<1>7,<1>8,<1>9,<1>10,<1>11,<1>12,<1>13 DEF Next, OwnerStep

LEMMA IdleStep ==
  ASSUME IInv, UNCHANGED vars
  PROVE  IInv'
<1>1. /\ UNCHANGED <<setting, kind, now, origin, owners, retiring, applied>>
      /\ UNCHANGED <<callers, binding, barrier, requests, job, losses, stray>> BY DEF vars
<1>2. World' /\ Onward /\ origin' \in OriginRecord /\ owners' \in [Realms -> OwnerRow]
 BY <1>1, Moves DEF IInv, OriginMoves, OwnersMove
<1> QED BY <1>1,<1>2, OthersStay DEF IInv, Types

\* The invariant of the commit: of all attempts ever issued only the origin's
\* can still be applied, and every record, answer and call in flight agrees
\* with what was applied (fenceStateEventOwner, repinStateEventOrigin,
\* resolveStateEventBarrier).
THEOREM CommitInvariant == Spec => []IInv
<1>1. Init => IInv BY Initially
<1>2. IInv /\ [Next]_vars => IInv' BY EveryStep, IdleStep
<1> QED BY <1>1,<1>2, PTL DEF Spec

\* The rows, the barrier and what is in memory have their types.
THEOREM TypeCorrect == Spec => []TypeOK
<1>1. IInv => TypeOK
 <2> SUFFICES ASSUME IInv PROVE TypeOK OBVIOUS
 <2>1. Types BY DEF IInv
 <2>2. ASSUME NEW r \in Realms
       PROVE  owners[r].receipt \in Receipts \cup {NoReceipt} /\ owners[r].fencedThrough \in 0 .. maxAttempts
  <3>1. PICK o \in OwnerRow : o = owners[r] /\ RowFine(r, o) BY <2>1 DEF Types, IInv, World, OwnersInv
  <3>2. o.receipt # NoReceipt => o.receipt \in [attempt : Attempts, at : Nat] /\ o.receipt.at <= setting.time
   BY <3>1, Names DEF OwnerRow, RowFine
  <3>3. setting.time \in Nat BY <2>1, LimitsAssumption DEF Types
  <3>4. o.receipt # NoReceipt => o.receipt \in Receipts BY <3>2,<3>3 DEF Receipts
  <3> QED BY <3>1,<3>4 DEF OwnerRow
 <2>3. \A c \in Callers : callers[c].told \in Told BY <2>1 DEF Types, ACaller
 <2> QED BY <2>1,<2>2,<2>3 DEF TypeOK, Types, OriginRecord, SomeAttempt, Told
<1> QED BY <1>1, CommitInvariant, PTL

\* The mutation is applied at most once over all realms, attempts and lost or
\* late calls; the origin's record leads to the receipt and never contradicts
\* it; and what a Worker was told stays true (recover, retire, repin).
THEOREM OutcomeIsKnown == Spec => []OutcomeKnown
<1>1. IInv => OutcomeKnown
 <2> SUFFICES ASSUME IInv PROVE OutcomeKnown OBVIOUS
 <2>1. AppliedInv /\ OriginInv /\ CallersInv BY DEF IInv, World
 <2>2. AppliedOnce
  <3>1. CASE applied = <<>>
   <4>1. Len(applied) = 0 BY <3>1
   <4> QED BY <4>1 DEF AppliedOnce
  <3>2. CASE applied # <<>>
   <4>1. PICK a : applied = <<a>> BY <2>1,<3>2 DEF AppliedInv
   <4>2. Len(<<a>>) = 1 OBVIOUS
   <4> QED BY <4>1,<4>2 DEF AppliedOnce
  <3> QED BY <3>1,<3>2
 <2>3. LocatorFindsReceipt BY <2>1 DEF AppliedInv, LocatorFindsReceipt
 <2>4. OriginTellsTruth BY <2>1 DEF OriginInv, OriginTellsTruth, Won
 <2>5. AnswersAreFinal BY <2>1 DEF CallersInv, CallerFine, AnswersAreFinal
 <2> QED BY <2>2,<2>3,<2>4,<2>5 DEF OutcomeKnown
<1> QED BY <1>1, CommitInvariant, PTL

\* Neither a commit in flight nor one that was given up is passed by a
\* rebinding: a call an owner would still honour is behind the barrier, and a
\* mutation is applied only under the current binding
\* (commitWithStateEventBindingAuthority, recoverLifecycleStateEvents).
THEOREM CommitsAreGuarded == Spec => CommitsGuarded
<1>1. IInv /\ [Next]_vars => IInv' /\ (AppliedUnderCurrentBinding \/ UNCHANGED vars) BY EveryStep, IdleStep
<1>2. IInv' => NoUnguardedCommit' BY DEF IInv, StrayInv
<1>3. NoUnguardedCommit' /\ (AppliedUnderCurrentBinding \/ UNCHANGED vars)
        => [NoUnguardedCommit' /\ AppliedUnderCurrentBinding]_vars OBVIOUS
<1>4. IInv /\ [Next]_vars => [NoUnguardedCommit' /\ AppliedUnderCurrentBinding]_vars BY <1>1,<1>2,<1>3
<1> QED BY <1>4, CommitInvariant, PTL DEF Spec, CommitsGuarded
=============================================================================

----------------------- MODULE DurableEventStreamProofs -----------------------
(***************************************************************************)
(* Proofs about the streams of durable events, for every set of realms,    *)
(* events, commands, grants and connections, and every setting.            *)
(*                                                                         *)
(* The invariant has three parts that share little: what a stream, its     *)
(* consumer and the events they pass agree on (Serving), what the registry *)
(* and the streams know of the binding (Informed), and what commands, ledger *)
(* and receipts say of an event (Settling).                                *)
(***************************************************************************)
EXTENDS DurableEventStream, FiniteSetTheorems, TLAPS

-----------------------------------------------------------------------------
(* The types of the records                                                  *)

SomeRealm == Realms \cup {None}
SomeGrant == Grants \cup {None}
Target == [realm : SomeRealm, rev : Nat]
Interest == [rev : Nat, byAppend : BOOLEAN]
Notice == [prev : Nat, rev : Nat, to : SomeRealm]
LedgerRow == [state : {"none", "pending", "committed", "rejected"}, realm : SomeRealm, rev : Nat]
Outcomes == {"none", "committed", "transition", "gap_requires_reset", "consumer_unavailable", "stream_full"}
Command == [pc : {"idle", "append", "finalize", "resolve", "repin"}, event : Events \cup {None},
            realm : SomeRealm, rev : Nat, second : BOOLEAN, next : Target, outcome : Outcomes]
Stream == [next : Nat \ {0}, acked : Nat, kept : SUBSET Nat, gap : [first : Nat, last : Nat],
           ready : BOOLEAN, epoch : Nat, holder : SomeGrant, rev : Nat, moved : BOOLEAN,
           receipts : [Events -> Nat]]
Grant == [status : {"none", "active", "expired", "replaced", "revoked"}, realm : SomeRealm, rev : Nat]
Socket == [phase : {"closed", "open", "registered"}, grant : SomeGrant, epoch : Nat, sent : Nat,
           acked : Nat, ack : Nat, here : BOOLEAN]
History == [handled : [Realms -> SUBSET Nat], declared : [Realms -> SUBSET Nat],
            overlapped : SUBSET Events, forgotten : SUBSET Realms, taught : SUBSET Realms,
            crossed : SUBSET Events]

Types ==
  /\ setting \in Settings /\ binding \in Target
  /\ interest \in [Realms -> Interest]
  /\ notices \in [Realms -> Notice] /\ posting \in [Realms -> Notice]
  /\ ledger \in [Events -> LedgerRow] /\ commands \in [Commands -> Command]
  /\ stream \in [Realms -> Stream] /\ grants \in [Grants -> Grant] /\ sockets \in [Sockets -> Socket]
  /\ aged \in [Realms -> Nat] /\ failures \in Nat /\ history \in History

-----------------------------------------------------------------------------
(* Serving: a stream, its consumer, and the events between them              *)

\* A stream, whose grants are gr, on its own
StreamFine(r, st, gr) ==
  /\ st.acked < st.next /\ st.kept \subseteq st.acked + 1 .. st.next - 1
  /\ Range(st.receipts) \ {0} = 1 .. st.next - 1
  /\ st.gap # NoGap => /\ 1 <= st.gap.first /\ st.gap.first <= st.gap.last
                       /\ \A q \in st.kept : st.gap.last < q
  /\ st.ready => st.holder # None
  /\ st.holder # None => /\ st.gap = NoGap
                         /\ gr[st.holder].realm = r /\ gr[st.holder].status # "none"

\* A page that was sent the next event, and perhaps handled it, or has nothing to do
InHand(x, st, hd) ==
  \/ st.kept = {} /\ x.sent = x.acked /\ x.ack = 0
  \/ /\ x.sent \in st.kept /\ \A q \in st.kept : x.sent <= q
     /\ x.ack = 0 \/ (x.ack = x.sent /\ x.ack \in hd)

\* Its socket, of an unbroken registration
Follows(x, st, gr) ==
  /\ x.epoch = st.epoch /\ x.grant = st.holder /\ x.acked = st.acked
  /\ gr[x.grant].status \in {"active", "expired"}

\* Every event is retained, was handled or was declared lost, and a page
\* handles none before those that precede it.
Accounted(st, hd, dc) ==
  /\ \A q \in 1 .. st.next - 1 : q \in st.kept \cup hd \cup dc
  /\ \A q \in hd : 1 .. q - 1 \subseteq hd \cup dc

\* The sockets so that are registered at realm r
At(r, so, gr) == {s \in Sockets : so[s].phase = "registered" /\ gr[so[s].grant].realm = r}
Served(r, st, so, gr, hd) ==
  /\ \A s \in At(r, so, gr) : Follows(so[s], st, gr) /\ InHand(so[s], st, hd)
  /\ \A s, t \in At(r, so, gr) : s = t

Good(r, st, so, gr, hd, dc) == StreamFine(r, st, gr) /\ Served(r, st, so, gr, hd) /\ Accounted(st, hd, dc)

\* Connections and grants on their own
SocketFine(x, gr) ==
  /\ x.phase # "closed" => x.grant \in Grants /\ gr[x.grant].status # "none"
  /\ x.phase = "open" => x.ack = 0
GrantsFine(gr) ==
  /\ \A g \in Grants : gr[g].status # "none" => gr[g].realm \in Realms
  /\ \A g, h \in Grants : gr[g].status = "active" /\ gr[h].status = "active" /\ gr[g].realm = gr[h].realm => g = h

Serving ==
  /\ \A r \in Realms : Good(r, stream[r], sockets, grants, history.handled[r], history.declared[r])
  /\ \A r \in Realms : Cardinality(stream[r].kept) <= setting.retained
  /\ \A s \in Sockets : SocketFine(sockets[s], grants)
  /\ GrantsFine(grants)

-----------------------------------------------------------------------------
(* Informed: what the registry and the streams know of the binding             *)

\* A revision somebody knows is not ahead of the registry's, and of the same
\* revision is the same realm.
Past(realm, rev) == rev <= binding.rev /\ (rev = binding.rev => realm = binding.realm)

NoticeFine(n) == n # NoNotice => n.prev < n.rev /\ Past(n.to, n.rev)

BindingFine ==
  /\ binding.rev <= setting.revisions
  /\ IF Shared THEN 1 <= binding.rev ELSE binding = [realm |-> Home, rev |-> 0]
RealmKnows(r) ==
  /\ stream[r].rev <= binding.rev
  /\ stream[r].rev = binding.rev /\ stream[r].moved => binding.realm # r
  /\ interest[r].rev <= binding.rev
  /\ NoticeFine(notices[r]) /\ NoticeFine(posting[r])
  /\ posting[r] # NoNotice => notices[r] # NoNotice /\ notices[r].prev = posting[r].prev
  /\ ~Shared => ~stream[r].moved /\ notices[r] = NoNotice
GrantKnows(g) ==
  grants[g].status # "none" =>
    /\ Past(grants[g].realm, grants[g].rev) /\ (Shared => 1 <= grants[g].rev)
    /\ grants[g].rev <= stream[grants[g].realm].rev
BindingInv == BindingFine /\ (\A r \in Realms : RealmKnows(r)) /\ \A g \in Grants : GrantKnows(g)

\* A stream at the revision of one of its grants is watched at it, while it is
\* the binding's, and later has a notice of its move.
Issued(r) == \E g \in Grants : /\ grants[g].status # "none"
                               /\ grants[g].realm = r /\ grants[g].rev = stream[r].rev
Announced(r) ==
  \/ binding = [realm |-> r, rev |-> stream[r].rev] /\ interest[r].rev = stream[r].rev
  \/ notices[r] # NoNotice /\ notices[r].prev = stream[r].rev
MoveKnown(r) == Shared /\ Issued(r) /\ ~stream[r].moved /\ r \notin history.forgotten => Announced(r)

Informed == BindingInv /\ \A r \in Realms : MoveKnown(r)

-----------------------------------------------------------------------------
(* Settling: what commands, ledger and receipts say of an event              *)

Unwritten(e) == \A r \in Realms : stream[r].receipts[e] = 0

RowFine(e, row) ==
  /\ row.state # "none" => row.realm \in Realms /\ Past(row.realm, row.rev)
  /\ e \notin history.crossed =>
       /\ \A r \in Realms : stream[r].receipts[e] # 0 => row.state # "none" /\ r = row.realm
       /\ row.state = "committed" => stream[row.realm].receipts[e] # 0
       /\ row.state = "rejected" /\ e \notin history.overlapped => Unwritten(e)

\* A command on its own
Placed(k) ==
  k.pc # "idle" =>
    /\ k.event \in Events /\ k.realm \in Realms /\ Past(k.realm, k.rev)
    /\ ledger[k.event].state # "none"
    /\ k.pc = "finalize" /\ k.outcome = "committed" => stream[k.realm].receipts[k.event] # 0
    /\ k.pc \in {"resolve", "repin"} => k.rev < binding.rev
    /\ k.pc = "repin" => k.next.realm \in Realms /\ k.rev < k.next.rev /\ Past(k.next.realm, k.next.rev)

\* With the row of its event: its route is the row's or one the row has left
\* behind without a receipt
Behind(k, row) ==
  k.pc # "idle" /\ k.event \notin history.crossed =>
    /\ k.rev <= row.rev /\ (k.rev = row.rev => k.realm = row.realm)
    /\ k.pc \in {"resolve", "repin"} /\ k.rev = row.rev => stream[k.realm].receipts[k.event] = 0

\* A command that is the only one of its event
Alone(k, row) ==
  k.pc # "idle" /\ k.event \notin history.overlapped =>
    /\ row.state = "pending"
    /\ k.event \notin history.crossed =>
         /\ k.rev = row.rev
         /\ k.pc = "finalize" /\ k.outcome # "committed" => Unwritten(k.event)

CommandFine(k) == Placed(k) /\ Behind(k, ledger[k.event]) /\ Alone(k, ledger[k.event])

Settling ==
  /\ \A e \in Events : RowFine(e, ledger[e])
  /\ \A c \in Commands : CommandFine(commands[c])
  /\ \A c, d \in Commands :
       Running(c) /\ Running(d) /\ commands[c].event = commands[d].event
         /\ commands[c].event \notin history.overlapped => c = d

IInv == Types /\ Serving /\ Informed /\ Settling

-----------------------------------------------------------------------------
(* Sets of numbers                                                           *)

\* A finite set has an element with a least part.
HasLeast(S, Part) == \E x \in S : \A y \in S : ~(Part[y] \subseteq Part[x] /\ Part[y] # Part[x])
LEMMA LeastPart ==
  ASSUME NEW S, IsFiniteSet(S), S # {}, NEW Part \in [S -> SUBSET S]
  PROVE  HasLeast(S, Part)
<1> DEFINE Parts == {Part[x] : x \in S}
           Order == StrictSubsetOrdering(S)
<1>1. IsWellFoundedOn(Order, FiniteSubsetsOf(S)) BY FS_StrictSubsetOrderingWellFounded
<1>2. Parts \subseteq FiniteSubsetsOf(S) /\ Parts # {} BY FS_Subset DEF FiniteSubsetsOf
<1>3. \E P \in Parts : \A Q \in Parts : ~(<<Q, P>> \in Order)
 <2> HIDE DEF Parts, Order
 <2> QED BY <1>1,<1>2, WFMin
<1>4. PICK x \in S : \A Q \in Parts : ~(<<Q, Part[x]>> \in Order) BY <1>3
<1>5. \A Q \in SUBSET S, P \in SUBSET S : <<Q, P>> \in Order <=> Q \subseteq P /\ Q # P
 BY DEF StrictSubsetOrdering
<1>6. ASSUME NEW y \in S PROVE ~(Part[y] \subseteq Part[x] /\ Part[y] # Part[x])
 <2>1. Part[y] \in Parts /\ Part[y] \in SUBSET S /\ Part[x] \in SUBSET S OBVIOUS
 <2>2. <<Part[y], Part[x]>> \notin Order BY <1>4,<2>1
 <2>3. PICK Q \in SUBSET S, P \in SUBSET S : Q = Part[y] /\ P = Part[x] BY <2>1
 <2> HIDE DEF Parts, Order
 <2>4. <<Q, P>> \notin Order BY <2>2,<2>3
 <2>5. ~(Q \subseteq P /\ Q # P) BY <1>5,<2>4
 <2> QED BY <2>3,<2>5
<1> QED BY <1>6 DEF HasLeast

\* FiniteSetsExt's Min and Max
LEMMA MinOf ==
  ASSUME NEW S, IsFiniteSet(S), S \subseteq Nat, S # {}
  PROVE  Min(S) \in S /\ \A y \in S : Min(S) <= y
<1> DEFINE Below == [x \in S |-> {y \in S : y < x}]
<1>1. PICK x \in S : \A y \in S : ~(Below[y] \subseteq Below[x] /\ Below[y] # Below[x])
 <2>1. PICK Part \in [S -> SUBSET S] : Part = Below OBVIOUS
 <2>2. HasLeast(S, Part) BY LeastPart
 <2> QED BY <2>1,<2>2 DEF HasLeast
<1>2. ASSUME NEW y \in S, y < x PROVE FALSE
 <2>1. Below[y] \subseteq Below[x]
  <3>1. \A z \in S : z < y => z < x BY <1>2
  <3> QED BY <3>1
 <2>2. y \in Below[x] /\ y \notin Below[y] BY <1>2
 <2> QED BY <1>1,<2>1,<2>2
<1>3. \A y \in S : x <= y BY <1>2
<1> QED BY <1>3 DEF Min

LEMMA MaxOf ==
  ASSUME NEW S, IsFiniteSet(S), S \subseteq Nat, S # {}
  PROVE  Max(S) \in S /\ \A y \in S : y <= Max(S)
<1> DEFINE Above == [x \in S |-> {y \in S : x < y}]
<1>1. PICK x \in S : \A y \in S : ~(Above[y] \subseteq Above[x] /\ Above[y] # Above[x])
 <2>1. PICK Part \in [S -> SUBSET S] : Part = Above OBVIOUS
 <2>2. HasLeast(S, Part) BY LeastPart
 <2> QED BY <2>1,<2>2 DEF HasLeast
<1>2. ASSUME NEW y \in S, x < y PROVE FALSE
 <2>1. Above[y] \subseteq Above[x]
  <3>1. \A z \in S : y < z => x < z BY <1>2
  <3> QED BY <3>1
 <2>2. y \in Above[x] /\ y \notin Above[y] BY <1>2
 <2> QED BY <1>1,<2>1,<2>2
<1>3. \A y \in S : y <= x BY <1>2
<1>4. \A y \in S : x >= y BY <1>3
<1>5. Max(S) \in S /\ \A y \in S : Max(S) >= y BY <1>4 DEF Max
<1> QED BY <1>5

\* Some numbers of an interval
LEMMA Within ==
  ASSUME NEW S, NEW a \in Nat, NEW b \in Nat, S \subseteq a + 1 .. b - 1
  PROVE  IsFiniteSet(S) /\ S \subseteq Nat /\ Cardinality(S) \in Nat
<1>1. IsFiniteSet(a + 1 .. b - 1) BY FS_Interval
<1>2. IsFiniteSet(S) BY <1>1, FS_Subset
<1> QED BY <1>2, FS_CardinalityType

\* A set without two elements
LEMMA AtMostOne ==
  ASSUME NEW S, \A x, y \in S : x = y
  PROVE  Cardinality(S) <= 1
<1>1. CASE S = {} BY <1>1, FS_EmptySet
<1>2. ASSUME NEW x \in S PROVE Cardinality(S) <= 1
 <2>1. S = {x} BY <1>2
 <2> QED BY <2>1, FS_Singleton
<1> QED BY <1>1,<1>2

-----------------------------------------------------------------------------
(* What the handlers of a stream do with it                                  *)

Worlds == [st : Stream, so : [Sockets -> Socket]]

\* The registry's part of the stream, and its receipts, are left alone.
Frame(st, st1) == st1.rev = st.rev /\ st1.moved = st.moved /\ st1.receipts = st.receipts

\* Registrations elsewhere than at r are the same or gone.
Apart(r, so, so1, gr) ==
  \A s \in Sockets : \/ so1[s] = so[s] \/ so1[s] = NoSocket
                     \/ gr[so1[s].grant].realm = r /\ SocketFine(so1[s], gr)

LEMMA Names ==
  /\ NoSocket \in Socket /\ NoGap \in [first : Nat, last : Nat] /\ NoNotice \in Notice
  /\ None \notin Grants /\ None \notin Realms
  /\ \A gr : SocketFine(NoSocket, gr)
  /\ \A st \in Stream : NoConsumer(st) \in Stream /\ Frame(st, NoConsumer(st))
                        /\ NoConsumer(st).kept = st.kept
BY NoneAssumption DEF NoSocket, NoGap, NoNotice, Socket, Notice, SomeGrant, SomeRealm, SocketFine, Stream,
   NoConsumer, Frame

LEMMA SettingTypes ==
  ASSUME setting \in Settings
  PROVE  /\ setting.retained \in Nat /\ setting.epochs \in Nat /\ setting.revisions \in Nat /\ setting.failures \in Nat
         /\ setting.commands \subseteq Commands /\ setting.events \subseteq Events /\ setting.grants \subseteq Grants
         /\ setting.scope \in {"group_local", "effective_shareable"}
BY SettingsAssumption

\* A stream without a consumer: its connections are closed.
LEMMA ConsumerGone ==
  ASSUME NEW r, NEW st \in Stream, NEW so, NEW gr, NEW hd, NEW dc,
         StreamFine(r, st, gr), Accounted(st, hd, dc), At(r, so, gr) = {}
  PROVE  /\ Good(r, st, so, gr, hd, dc)
         /\ Good(r, NoConsumer(st), so, gr, hd, dc)
<1>1. StreamFine(r, NoConsumer(st), gr) BY DEF StreamFine, NoConsumer, Stream
<1>2. Accounted(NoConsumer(st), hd, dc) BY DEF Accounted, NoConsumer, Stream
<1>3. \A s1 : Served(r, s1, so, gr, hd) BY DEF Served
<1> QED BY <1>1,<1>2,<1>3 DEF Good

\* What is left of a world w when all who are registered are disconnected
Disconnected(r, w, v, hd, dc) ==
  /\ v \in Worlds /\ Good(r, v.st, v.so, grants, hd, dc) /\ Frame(w.st, v.st)
  /\ v.st.kept = w.st.kept /\ Apart(r, w.so, v.so, grants)
  /\ (v.st = w.st \/ v.st = NoConsumer(w.st))
  /\ At(r, v.so, grants) = {}

\* terminateSockets of all that are registered at the stream
LEMMA TerminateAll ==
  ASSUME NEW r, NEW w \in Worlds, NEW S, S \subseteq Sockets, At(r, w.so, grants) \subseteq S, NEW hd, NEW dc,
         StreamFine(r, w.st, grants), Accounted(w.st, hd, dc)
  PROVE  Disconnected(r, w, terminateSockets(w, S), hd, dc)
<1> DEFINE v == terminateSockets(w, S)
<1>1. /\ v = [st |-> v.st, so |-> v.so] /\ (v.st = w.st \/ v.st = NoConsumer(w.st))
      /\ v.so = [s \in Sockets |-> IF s \in S THEN NoSocket ELSE w.so[s]] BY DEF terminateSockets
<1>2. w.st \in Stream /\ w.so \in [Sockets -> Socket] /\ v.st \in Stream BY <1>1, Names DEF Worlds
<1>3. \A s \in Sockets : v.so[s] = (IF s \in S THEN NoSocket ELSE w.so[s]) BY <1>1
<1>4. v \in Worlds
 <2>1. v.so \in [Sockets -> Socket] BY <1>1,<1>2, Names
 <2> QED BY <1>1,<1>2,<2>1 DEF Worlds
<1>5. At(r, v.so, grants) = {} BY <1>3 DEF At, NoSocket
<1>6. Frame(w.st, v.st) /\ v.st.kept = w.st.kept BY <1>1,<1>2, Names DEF Frame
<1>7. Apart(r, w.so, v.so, grants) BY <1>3 DEF Apart
<1> HIDE DEF v
<1>8. Good(r, v.st, v.so, grants, hd, dc) BY <1>1,<1>2,<1>5, ConsumerGone
<1> QED BY <1>1,<1>4,<1>5,<1>6,<1>7,<1>8 DEF v, Disconnected

\* What every handler of stream r shows of its result v
Works(r, w, v, gr, hd, dc) ==
  /\ v \in Worlds /\ Good(r, v.st, v.so, gr, hd, dc)
  /\ Frame(w.st, v.st) /\ v.st.kept \subseteq w.st.kept /\ Apart(r, w.so, v.so, gr)

LEMMA ApartAgain ==
  ASSUME NEW r, NEW so, NEW so1, NEW so2, NEW gr, Apart(r, so, so1, gr), Apart(r, so1, so2, gr)
  PROVE  Apart(r, so, so2, gr)
BY DEF Apart

LEMMA Consumed ==
  ASSUME NEW st \in Stream, NEW hd \in SUBSET Nat, NEW dc \in SUBSET Nat, NEW dc1 \in SUBSET Nat,
         Accounted(st, hd, dc), dc \subseteq dc1
  PROVE  Accounted(st, hd, dc1)
BY DEF Accounted

LEMMA KeptFinite ==
  ASSUME NEW r, NEW st \in Stream, NEW gr, StreamFine(r, st, gr)
  PROVE  /\ IsFiniteSet(st.kept) /\ Cardinality(st.kept) \in Nat
         /\ \A S \in SUBSET st.kept : IsFiniteSet(S) /\ S \subseteq Nat
<1>1. st.next \in Nat /\ st.acked \in Nat /\ st.kept \subseteq st.acked + 1 .. st.next - 1
 BY DEF Stream, StreamFine
<1>2. IsFiniteSet(st.kept) /\ st.kept \subseteq Nat /\ Cardinality(st.kept) \in Nat BY <1>1, Within
<1> QED BY <1>2, FS_Subset

\* pruneExpired: the expired events become part of the gap.
LEMMA PruneServes ==
  ASSUME NEW r \in Realms, Types, NEW hd \in SUBSET Nat, NEW dc \in SUBSET Nat,
         Good(r, stream[r], sockets, grants, hd, dc)
  PROVE  LET v == pruneExpired(r) IN
         Works(r, World(r), v, grants, hd, dc \cup v.st.gap.first .. v.st.gap.last)
<1> DEFINE w == World(r)
           E == Expired(r)
           first == IF w.st.gap = NoGap THEN Min(E) ELSE w.st.gap.first
           gap == [first |-> first, last |-> Max(E)]
           st1 == [NoConsumer(w.st) EXCEPT !.kept = @ \ E, !.gap = gap]
           v == pruneExpired(r)
<1>1. w.st = stream[r] /\ w.so = sockets /\ w \in Worlds /\ stream[r] \in Stream /\ aged[r] \in Nat
 BY DEF World, Worlds, Types
<1>2. StreamFine(r, stream[r], grants) /\ Served(r, stream[r], sockets, grants, hd) /\ Accounted(stream[r], hd, dc)
 BY DEF Good
<1>3. CASE E = {}
 <2>1. v = w BY <1>3 DEF pruneExpired
 <2>2. stream[r].gap.first .. stream[r].gap.last \subseteq Nat BY <1>1 DEF Stream
 <2>3. Accounted(stream[r], hd, dc \cup stream[r].gap.first .. stream[r].gap.last) BY <1>1,<1>2,<2>2, Consumed
 <2> QED BY <1>1,<1>2,<2>1,<2>3 DEF Works, Good, Frame, Apart
<1>4. CASE E # {}
 <2>1. E \subseteq stream[r].kept /\ E \subseteq 1 .. aged[r] /\ \A q \in stream[r].kept : q \in 1 .. aged[r] => q \in E
  BY DEF Expired
 <2>2. IsFiniteSet(E) /\ E \subseteq Nat BY <1>1,<1>2,<2>1, KeptFinite
 <2>3. Min(E) \in E /\ Max(E) \in E /\ \A q \in E : Min(E) <= q /\ q <= Max(E) BY <1>4,<2>2, MinOf, MaxOf
 <2> HIDE DEF E
 <2>4. /\ first \in Nat /\ 1 <= first /\ first <= Max(E) /\ Max(E) \in Nat
       /\ \A q \in E : first <= q
  <3>1. \A q \in E : q \in Nat /\ 1 <= q
   <4>1. E \subseteq 1 .. aged[r] /\ aged[r] \in Nat BY <1>1,<2>1
   <4> QED BY <4>1
  <3>2. CASE w.st.gap = NoGap
   <4>1. first = Min(E) BY <3>2
   <4> QED BY <2>3,<3>1,<4>1
  <3>3. CASE w.st.gap # NoGap
   <4>1. first = stream[r].gap.first /\ stream[r].gap # NoGap BY <1>1,<3>3
   <4>2. /\ stream[r].gap.first \in Nat /\ stream[r].gap.last \in Nat /\ 1 <= stream[r].gap.first
         /\ stream[r].gap.first <= stream[r].gap.last /\ \A q \in E : stream[r].gap.last < q
    BY <1>1,<1>2,<2>1,<4>1 DEF StreamFine, Stream
   <4> HIDE DEF first
   <4>3. \A q \in E : first <= q BY <3>1,<4>1,<4>2
   <4> QED BY <2>3,<3>1,<4>1,<4>2,<4>3
  <3> QED BY <3>2,<3>3
 <2>5. \A q \in stream[r].kept \ E : Max(E) < q
  <3>1. ASSUME NEW q \in stream[r].kept, q \notin E PROVE aged[r] < q /\ q \in Nat
   <4>1. stream[r].acked \in Nat /\ stream[r].kept \subseteq stream[r].acked + 1 .. stream[r].next - 1
    BY <1>1,<1>2 DEF StreamFine, Stream
   <4>2. stream[r].next \in Nat /\ aged[r] \in Nat BY <1>1 DEF Stream
   <4>3. q \in Nat /\ 1 <= q /\ q \notin 1 .. aged[r] BY <2>1,<3>1,<4>1,<4>2
   <4> QED BY <4>2,<4>3
  <3>2. Max(E) <= aged[r] /\ aged[r] \in Nat /\ Max(E) \in Nat
   <4>1. Max(E) \in 1 .. aged[r] /\ aged[r] \in Nat BY <1>1,<2>1,<2>3
   <4> QED BY <4>1
  <3> QED BY <3>1,<3>2
 <2> HIDE DEF first
 <2>6. /\ st1 = [stream[r] EXCEPT !.ready = FALSE, !.holder = None, !.kept = stream[r].kept \ E, !.gap = gap]
       /\ gap \in [first : Nat, last : Nat] BY <1>1,<2>4 DEF NoConsumer, Stream
 <2>7. /\ st1 \in Stream /\ Frame(stream[r], st1) /\ st1.gap = gap /\ st1.kept = stream[r].kept \ E
       /\ st1.next = stream[r].next /\ st1.acked = stream[r].acked /\ st1.receipts = stream[r].receipts
       /\ st1.holder = None /\ ~st1.ready /\ gap.first = first /\ gap.last = Max(E)
  <3>1. stream[r] \in Stream /\ stream[r].kept \ E \in SUBSET Nat BY <1>1 DEF Stream
  <3> HIDE DEF st1
  <3>2. st1 \in Stream BY <2>6,<3>1 DEF Stream, SomeGrant
  <3>3. Frame(stream[r], st1) /\ st1.gap = gap /\ st1.kept = stream[r].kept \ E BY <2>6,<3>1 DEF Stream, Frame
  <3>4. /\ st1.next = stream[r].next /\ st1.acked = stream[r].acked /\ st1.receipts = stream[r].receipts
        /\ st1.holder = None /\ ~st1.ready BY <2>6,<3>1 DEF Stream
  <3> QED BY <3>2,<3>3,<3>4
 <2>7a. /\ stream[r].next \in Nat /\ stream[r].acked \in Nat /\ stream[r].kept \subseteq Nat BY <1>1 DEF Stream
 <2>8. StreamFine(r, st1, grants)
  <3> HIDE DEF st1, gap, v, w
  <3>1. /\ st1.acked < st1.next /\ st1.kept \subseteq st1.acked + 1 .. st1.next - 1
        /\ Range(st1.receipts) \ {0} = 1 .. st1.next - 1 BY <1>2,<2>7,<2>7a DEF StreamFine
  <3>2. 1 <= st1.gap.first /\ st1.gap.first <= st1.gap.last /\ \A q \in st1.kept : st1.gap.last < q
   BY <2>4,<2>5,<2>7
  <3> QED BY <2>7,<3>1,<3>2 DEF StreamFine
 <2>9. Accounted(st1, hd, dc \cup first .. Max(E))
  <3> HIDE DEF st1, gap, v, w
  <3>1. ASSUME NEW q \in 1 .. st1.next - 1 PROVE q \in st1.kept \cup hd \cup (dc \cup first .. Max(E))
   <4>1. q \in stream[r].kept \cup hd \cup dc BY <1>2,<2>7 DEF Accounted
   <4>2. CASE q \in E
    <5>1. q \in first .. Max(E) BY <2>2,<2>3,<2>4,<4>2
    <5> QED BY <5>1
   <4> QED BY <2>7,<4>1,<4>2
  <3>2. \A q \in hd : 1 .. q - 1 \subseteq hd \cup dc BY <1>2 DEF Accounted
  <3> QED BY <3>1,<3>2 DEF Accounted
 <2>10. v = terminateSockets([w EXCEPT !.st = st1], Registered(w, r)) BY <1>4 DEF pruneExpired, E, first
 <2>11. PICK w1 \in Worlds : w1 = [w EXCEPT !.st = st1] BY <1>1,<2>7 DEF Worlds
 <2>12. w1.st = st1 /\ w1.so = sockets BY <1>1,<2>11 DEF Worlds
 <2>13. Registered(w, r) = At(r, w1.so, grants) /\ Registered(w, r) \subseteq Sockets
  BY <1>1,<2>12 DEF Registered, At
 <2>14. dc \cup first .. Max(E) \in SUBSET Nat
  <3>1. PICK a \in Nat, b \in Nat : a = first /\ b = Max(E) BY <2>4
  <3>2. a .. b \subseteq Nat OBVIOUS
  <3> QED BY <3>1,<3>2
 <2> HIDE DEF st1, gap, v, w
 <2>15. PICK S \in SUBSET Sockets : S = Registered(w, r) BY <2>13
 <2>16. PICK u : u = terminateSockets(w1, S) OBVIOUS
 <2>17. /\ u \in Worlds /\ Good(r, u.st, u.so, grants, hd, dc \cup first .. Max(E)) /\ Frame(w1.st, u.st)
        /\ u.st.kept = w1.st.kept /\ Apart(r, w1.so, u.so, grants)
        /\ (u.st = w1.st \/ u.st = NoConsumer(w1.st))
  <3> HIDE DEF first, E
  <3>1. PICK dc1 : dc1 = dc \cup first .. Max(E) OBVIOUS
  <3>2. Disconnected(r, w1, terminateSockets(w1, S), hd, dc1) BY <2>8,<2>9,<2>12,<2>13,<2>15,<3>1, TerminateAll
  <3> QED BY <2>16,<3>1,<3>2 DEF Disconnected
 <2>18. u.st.gap = gap BY <2>7,<2>12,<2>17 DEF NoConsumer, Stream
 <2>19. v = u BY <2>10,<2>11,<2>15,<2>16
 <2>20. Frame(w.st, u.st) /\ u.st.kept \subseteq w.st.kept /\ Apart(r, w.so, u.so, grants)
  BY <1>1,<2>7,<2>12,<2>17 DEF Frame
 <2>21. Works(r, w, u, grants, hd, dc \cup u.st.gap.first .. u.st.gap.last) BY <2>17,<2>18,<2>20 DEF Works, gap
 <2> QED BY <2>19,<2>21 DEF v, w
<1> QED BY <1>3,<1>4

\* sendNextEvent, to the consumer of the stream
LEMMA SendServes ==
  ASSUME NEW r \in Realms, NEW w \in Worlds, NEW s \in At(r, w.so, grants), NEW hd \in SUBSET Nat, NEW dc \in SUBSET Nat,
         StreamFine(r, w.st, grants), Accounted(w.st, hd, dc),
         \A t \in At(r, w.so, grants) : t = s,
         Follows(w.so[s], w.st, grants), SocketFine(w.so[s], grants),
         InHand(w.so[s], w.st, hd) \/ (w.so[s].sent = w.so[s].acked /\ w.so[s].ack = 0)
  PROVE  Works(r, w, sendNextEvent(w, s), grants, hd, dc)
<1> DEFINE v == sendNextEvent(w, s)
           x == w.so[s]
<1>1. w.st \in Stream /\ w.so \in [Sockets -> Socket] /\ s \in Sockets /\ x \in Socket /\ x.phase = "registered"
      /\ w = [st |-> w.st, so |-> w.so] /\ grants[x.grant].realm = r BY DEF Worlds, At
<1>2. Holds(w, s) BY <1>1 DEF Holds, Follows
<1>3. ASSUME v = terminateSockets(w, {s}) PROVE Works(r, w, v, grants, hd, dc)
 <2>1. PICK S \in SUBSET Sockets : S = {s} BY <1>1
 <2>2. At(r, w.so, grants) \subseteq S BY <2>1
 <2>3. PICK u : u = terminateSockets(w, S) OBVIOUS
 <2>4. /\ u \in Worlds /\ Good(r, u.st, u.so, grants, hd, dc) /\ Frame(w.st, u.st)
        /\ u.st.kept = w.st.kept /\ Apart(r, w.so, u.so, grants)
  <3>1. Disconnected(r, w, terminateSockets(w, S), hd, dc) BY <2>2, TerminateAll
  <3> QED BY <2>3,<3>1 DEF Disconnected
 <2> QED BY <1>3,<2>1,<2>3,<2>4 DEF Works
<1>4. w.st.kept = Unacknowledged(w) BY <1>1 DEF StreamFine, Unacknowledged, Stream
<1>5. ASSUME v = w, InHand(x, w.st, hd) PROVE Works(r, w, v, grants, hd, dc)
 <2>1. Served(r, w.st, w.so, grants, hd) BY <1>5 DEF Served
 <2> QED BY <1>5,<2>1 DEF Works, Good, Frame, Apart
<1>6. CASE w.so[s].sent > w.so[s].acked
 <2>1. InHand(x, w.st, hd) BY <1>1,<1>6 DEF Socket
 <2>2. v = w \/ v = terminateSockets(w, {s}) BY <1>2,<1>6 DEF sendNextEvent
 <2> QED BY <1>3,<1>5,<2>1,<2>2
<1>7. CASE ~(w.so[s].sent > w.so[s].acked) /\ w.st.kept = {}
 <2>1. InHand(x, w.st, hd) BY <1>7 DEF InHand
 <2>2. v = w \/ v = terminateSockets(w, {s}) BY <1>2,<1>4,<1>7 DEF sendNextEvent
 <2> QED BY <1>3,<1>5,<2>1,<2>2
<1>8. CASE ~(w.so[s].sent > w.so[s].acked) /\ w.st.kept # {}
 <2>1. v = terminateSockets(w, {s}) \/ v = [w EXCEPT !.so[s].sent = Min(w.st.kept)]
  BY <1>2,<1>4,<1>8 DEF sendNextEvent
 <2>2. CASE v = [w EXCEPT !.so[s].sent = Min(w.st.kept)]
  <3>1. Min(w.st.kept) \in w.st.kept /\ (\A q \in w.st.kept : Min(w.st.kept) <= q) /\ Min(w.st.kept) \in Nat
   BY <1>1,<1>8, KeptFinite, MinOf DEF Stream
  <3>2. x.ack = 0
   <4>1. CASE InHand(x, w.st, hd)
    <5>1. x.sent \in w.st.kept /\ x.acked = w.st.acked BY <1>8,<4>1 DEF InHand, Follows
    <5>2. FALSE BY <1>1,<1>8,<5>1 DEF StreamFine, Stream, Socket
    <5> QED BY <5>2
   <4> QED BY <4>1
  <3>3. v.st = w.st /\ v.so = [w.so EXCEPT ![s].sent = Min(w.st.kept)] /\ v = [st |-> v.st, so |-> v.so]
   BY <1>1,<2>2
  <3>4. v.so[s] = [x EXCEPT !.sent = Min(w.st.kept)] /\ \A t \in Sockets : t # s => v.so[t] = w.so[t] BY <1>1,<3>3
  <3>5. v.so[s] \in Socket /\ v.so[s].phase = "registered" /\ v.so[s].grant = x.grant /\ v.so[s].ack = 0
        /\ v.so[s].epoch = x.epoch /\ v.so[s].acked = x.acked /\ v.so[s].sent = Min(w.st.kept)
   BY <1>1,<3>1,<3>2,<3>4 DEF Socket
  <3>6. v \in Worlds BY <1>1,<3>3,<3>4,<3>5 DEF Worlds
  <3>7. At(r, v.so, grants) = At(r, w.so, grants) BY <1>1,<3>4,<3>5 DEF At
  <3>8. Follows(v.so[s], v.st, grants) /\ InHand(v.so[s], v.st, hd) BY <3>1,<3>3,<3>5 DEF Follows, InHand
  <3>9. Served(r, v.st, v.so, grants, hd) BY <3>7,<3>8 DEF Served
  <3>10. Apart(r, w.so, v.so, grants) BY <1>1,<3>4,<3>5 DEF Apart, SocketFine
  <3> HIDE DEF v
  <3>11. Works(r, w, v, grants, hd, dc) BY <3>3,<3>6,<3>9,<3>10 DEF Works, Good, Frame
  <3> QED BY <3>11 DEF v
 <2> QED BY <1>3,<2>1,<2>2
<1> QED BY <1>6,<1>7,<1>8

LEMMA NoConsumerFrame ==
  ASSUME NEW st \in Stream
  PROVE  LET st1 == NoConsumer(st) IN
         /\ st1 \in Stream /\ Frame(st, st1) /\ st1.gap = st.gap /\ st1.kept = st.kept
         /\ st1.next = st.next /\ st1.acked = st.acked /\ st1.epoch = st.epoch
BY DEF NoConsumer, Stream, Frame, SomeGrant

LEMMA SendStream ==
  ASSUME NEW w \in Worlds, NEW s \in Sockets
  PROVE  LET v == sendNextEvent(w, s) IN
         /\ v.st = w.st \/ v.st = NoConsumer(w.st)
         /\ v.st.gap = w.st.gap /\ v.st.receipts = w.st.receipts /\ v.st.kept = w.st.kept
<1> DEFINE v == sendNextEvent(w, s)
<1>1. w.st \in Stream /\ w = [st |-> w.st, so |-> w.so] BY DEF Worlds
<1>2. v.st = w.st \/ v.st = NoConsumer(w.st) BY <1>1 DEF sendNextEvent, Closed, terminateSockets
<1> HIDE DEF v
<1>3. v.st.gap = w.st.gap /\ v.st.receipts = w.st.receipts /\ v.st.kept = w.st.kept
 BY <1>1,<1>2, NoConsumerFrame DEF Frame
<1> QED BY <1>2,<1>3 DEF v

\* A change of what the stream knows of the binding, or that it asks its
\* consumer to register again
LEMMA Rebound ==
  ASSUME NEW r, NEW st \in Stream, NEW st1 \in Stream, NEW so, NEW gr, NEW hd, NEW dc,
         Good(r, st, so, gr, hd, dc), st1.ready => st.ready,
         st1.next = st.next, st1.acked = st.acked, st1.kept = st.kept, st1.gap = st.gap,
         st1.epoch = st.epoch, st1.holder = st.holder, st1.receipts = st.receipts
  PROVE  Good(r, st1, so, gr, hd, dc)
<1>1. StreamFine(r, st1, gr) BY DEF Good, StreamFine
<1>2. Served(r, st1, so, gr, hd) BY DEF Good, Served, Follows, InHand
<1>3. Accounted(st1, hd, dc) BY DEF Good, Accounted
<1> QED BY <1>1,<1>2,<1>3 DEF Good

LEMMA BindServes ==
  ASSUME NEW st \in Stream, NEW rev \in Nat
  PROVE  LET st1 == requireEffectiveBinding(st, rev) IN
         /\ st1 \in Stream /\ (st1.ready => st.ready)
         /\ st1.next = st.next /\ st1.acked = st.acked /\ st1.kept = st.kept /\ st1.gap = st.gap
         /\ st1.epoch = st.epoch /\ st1.holder = st.holder /\ st1.receipts = st.receipts
         /\ Shared => st1.rev = rev /\ (st1.moved => st.moved /\ rev = st.rev)
         /\ ~Shared \/ rev = st.rev => st1 = st
<1>1. CASE ~Shared \/ rev = st.rev BY <1>1 DEF requireEffectiveBinding
<1>2. CASE Shared /\ rev # st.rev
 <2>1. requireEffectiveBinding(st, rev) = [st EXCEPT !.rev = rev, !.moved = FALSE, !.ready = st.ready /\ st.rev = 0]
  BY <1>2 DEF requireEffectiveBinding
 <2>2. PICK b \in BOOLEAN : b = (st.ready /\ st.rev = 0) BY DEF Stream
 <2>3. PICK f \in BOOLEAN : f = FALSE OBVIOUS
 <2>4. requireEffectiveBinding(st, rev) = [st EXCEPT !.rev = rev, !.moved = f, !.ready = b] BY <2>1,<2>2,<2>3
 <2> QED BY <1>2,<2>2,<2>3,<2>4 DEF Stream
<1> QED BY <1>1,<1>2

\* A consumer to which an event may be sent
LEMMA ViableConsumer ==
  ASSUME NEW r, NEW w \in Worlds, NEW rev, NEW gr, StreamFine(r, w.st, grants), Viable(w, rev)
  PROVE  /\ w.st.ready /\ w.st.holder \in Grants /\ w.st.gap = NoGap
         /\ currentSocket(w) # {} /\ currentSocket(w) \subseteq At(r, w.so, grants)
BY DEF Viable, StreamFine, currentSocket, Holds, At, Worlds, Stream, SomeGrant

\* What is left of a world w when its stream took in event e
Insertion(r, w, v, e, hd, dc) ==
  /\ v \in Worlds /\ Good(r, v.st, v.so, grants, hd, dc) /\ Apart(r, w.so, v.so, grants)
  /\ v.st.rev = w.st.rev /\ v.st.moved = w.st.moved /\ v.st.gap = w.st.gap
  /\ v.st.receipts = [w.st.receipts EXCEPT ![e] = w.st.next]
  /\ v.st.kept = w.st.kept \cup {w.st.next}

LEMMA InsertServes ==
  ASSUME NEW r \in Realms, NEW w \in Worlds, NEW e \in Events, NEW rev,
         NEW hd \in SUBSET Nat, NEW dc \in SUBSET Nat,
         Good(r, w.st, w.so, grants, hd, dc), Viable(w, rev), w.st.receipts[e] = 0,
         \A s \in Sockets : SocketFine(w.so[s], grants)
  PROVE  Insertion(r, w, Inserted(w, e), e, hd, dc)
<1> DEFINE st == w.st
           st1 == [st EXCEPT !.next = st.next + 1, !.kept = st.kept \cup {st.next}, !.receipts[e] = st.next]
           put == [w EXCEPT !.st = st1]
           v == Inserted(w, e)
<1>1. /\ st \in Stream /\ w.so \in [Sockets -> Socket]
      /\ StreamFine(r, st, grants) /\ Served(r, st, w.so, grants, hd) /\ Accounted(st, hd, dc) BY DEF Worlds, Good
<1>2. /\ st.next \in Nat \ {0} /\ st.acked \in Nat /\ st.kept \subseteq Nat /\ st.receipts \in [Events -> Nat]
      /\ \A q \in st.kept : q < st.next BY <1>1 DEF Stream, StreamFine
<1>3. /\ st1.next = st.next + 1 /\ st1.kept = st.kept \cup {st.next} /\ st1.acked = st.acked
      /\ st1.receipts = [st.receipts EXCEPT ![e] = st.next] /\ st1.gap = st.gap /\ st1.holder = st.holder
      /\ st1.ready = st.ready /\ st1.epoch = st.epoch /\ st1.rev = st.rev /\ st1.moved = st.moved /\ st1 \in Stream
 <2>1. PICK n \in Nat \ {0}, K \in SUBSET Nat, R \in [Events -> Nat] :
         n = st.next + 1 /\ K = st.kept \cup {st.next} /\ R = [st.receipts EXCEPT ![e] = st.next]
  <3>1. st.next + 1 \in Nat \ {0} /\ st.kept \cup {st.next} \in SUBSET Nat BY <1>2
  <3>2. [st.receipts EXCEPT ![e] = st.next] \in [Events -> Nat] BY <1>2
  <3> QED BY <3>1,<3>2
 <2>2. st1 = [st EXCEPT !.next = n, !.kept = K, !.receipts = R] BY <1>1,<2>1 DEF Stream
 <2> QED BY <1>1,<2>1,<2>2 DEF Stream
<1>4. put \in Worlds /\ put.st = st1 /\ put.so = w.so BY <1>3 DEF Worlds
<1>5. /\ st.ready /\ st.holder \in Grants /\ st.gap = NoGap
      /\ currentSocket(w) # {} /\ currentSocket(w) \subseteq At(r, w.so, grants) BY <1>1, ViableConsumer
<1> HIDE DEF st1, put
<1>6. currentSocket(put) = currentSocket(w) BY <1>3,<1>4 DEF currentSocket, Holds
<1>7. StreamFine(r, st1, grants)
 <2>1. Range(st1.receipts) \ {0} = 1 .. st1.next - 1
  <3>1. \A n : n \in Range(st.receipts) \ {0} <=> n \in 1 .. st.next - 1 BY <1>1 DEF StreamFine
  <3>2. ASSUME NEW n \in Range(st1.receipts), n # 0 PROVE n \in 1 .. st1.next - 1
   <4>1. PICK d \in Events : n = st1.receipts[d] BY <1>2,<1>3,<3>2 DEF Range
   <4>2. CASE d = e BY <1>2,<1>3,<4>1,<4>2
   <4>3. CASE d # e
    <5>1. n = st.receipts[d] BY <1>2,<1>3,<4>1,<4>3
    <5>2. n \in 1 .. st.next - 1 BY <1>2,<3>1,<3>2,<5>1 DEF Range
    <5> QED BY <1>2,<1>3,<5>2
   <4> QED BY <4>2,<4>3
  <3>3. ASSUME NEW n \in 1 .. st1.next - 1 PROVE n \in Range(st1.receipts) \ {0}
   <4>1. CASE n = st.next
    <5>1. st1.receipts[e] = n /\ e \in DOMAIN st1.receipts BY <1>2,<1>3,<4>1
    <5> QED BY <3>3,<5>1 DEF Range
   <4>2. CASE n # st.next
    <5>1. n \in 1 .. st.next - 1 BY <1>2,<1>3,<4>2
    <5>2. PICK d \in Events : n = st.receipts[d] BY <1>2,<3>1,<5>1 DEF Range
    <5>3. d # e BY <5>1,<5>2
    <5>4. st1.receipts[d] = n /\ d \in DOMAIN st1.receipts BY <1>2,<1>3,<5>2,<5>3
    <5> QED BY <3>3,<5>4 DEF Range
   <4> QED BY <4>1,<4>2
  <3> QED BY <3>2,<3>3
 <2>2. st1.acked < st1.next /\ st1.kept \subseteq st1.acked + 1 .. st1.next - 1
  <3>1. st.acked < st.next /\ st.kept \subseteq st.acked + 1 .. st.next - 1 BY <1>1 DEF StreamFine
  <3> QED BY <1>2,<1>3,<3>1
 <2>3. /\ st1.gap = NoGap /\ st1.holder \in Grants
       /\ grants[st1.holder].realm = r /\ grants[st1.holder].status # "none"
  BY <1>1,<1>3,<1>5, Names DEF StreamFine
 <2>4. st1.holder # None BY <2>3, Names
 <2> QED BY <2>1,<2>2,<2>3,<2>4 DEF StreamFine
<1>8. Accounted(st1, hd, dc)
 <2>1. \A q \in 1 .. st1.next - 1 : q = st.next \/ q \in 1 .. st.next - 1 BY <1>2,<1>3
 <2>2. \A q \in 1 .. st.next - 1 : q \in st.kept \cup hd \cup dc BY <1>1 DEF Accounted
 <2>3. \A q \in hd : 1 .. q - 1 \subseteq hd \cup dc BY <1>1 DEF Accounted
 <2>4. \A q \in 1 .. st1.next - 1 : q \in st1.kept \cup hd \cup dc BY <1>3,<2>1,<2>2
 <2> QED BY <2>3,<2>4 DEF Accounted
<1>9. PICK s \in currentSocket(w) : v = sendNextEvent(put, s)
 <2>1. v = sendNextEvent(put, CHOOSE s \in currentSocket(w) : TRUE) BY <1>5,<1>6 DEF Inserted, put, st1
 <2> QED BY <1>5,<2>1
<1>10. /\ s \in At(r, w.so, grants) /\ \A t \in At(r, w.so, grants) : t = s
       /\ Follows(w.so[s], st, grants) /\ InHand(w.so[s], st, hd) BY <1>1,<1>5 DEF Served
<1>11. Follows(w.so[s], st1, grants) BY <1>3,<1>10 DEF Follows
<1>12. InHand(w.so[s], st1, hd) \/ (w.so[s].sent = w.so[s].acked /\ w.so[s].ack = 0) BY <1>2,<1>3,<1>10 DEF InHand
<1>13. Works(r, put, v, grants, hd, dc) /\ s \in Sockets
 <2>1. s \in Sockets BY <1>10 DEF At
 <2> QED BY <1>4,<1>7,<1>8,<1>9,<1>10,<1>11,<1>12,<2>1, SendServes
<1>14. v.st.gap = st1.gap /\ v.st.receipts = st1.receipts /\ v.st.kept = st1.kept BY <1>4,<1>9,<1>13, SendStream
<1> HIDE DEF v
<1>15. v \in Worlds /\ Good(r, v.st, v.so, grants, hd, dc) /\ Apart(r, w.so, v.so, grants) BY <1>4,<1>13 DEF Works
<1>16. v.st.rev = st.rev /\ v.st.moved = st.moved BY <1>3,<1>4,<1>13 DEF Works, Frame
<1> QED BY <1>3,<1>14,<1>15,<1>16 DEF v, Insertion

LEMMA PruneNext ==
  ASSUME NEW r \in Realms, Types
  PROVE  pruneExpired(r).st.next = stream[r].next
<1>1. World(r) = [st |-> stream[r], so |-> sockets] /\ stream[r] \in Stream BY DEF World, Types
<1>2. CASE Expired(r) = {} BY <1>1,<1>2 DEF pruneExpired
<1>3. CASE Expired(r) # {}
 <2> DEFINE gap == [first |-> IF World(r).st.gap = NoGap THEN Min(Expired(r)) ELSE World(r).st.gap.first,
                    last |-> Max(Expired(r))]
            st1 == [NoConsumer(stream[r]) EXCEPT !.kept = @ \ Expired(r), !.gap = gap]
            w1 == [World(r) EXCEPT !.st = st1]
 <2>1. pruneExpired(r) = terminateSockets(w1, Registered(World(r), r)) BY <1>1,<1>3 DEF pruneExpired
 <2>2. w1.st = st1 BY <1>1
 <2>3. st1.next = stream[r].next /\ NoConsumer(st1).next = stream[r].next
  <3> HIDE DEF gap
  <3> QED BY <1>1 DEF NoConsumer, Stream
 <2> HIDE DEF st1, w1
 <2>4. pruneExpired(r).st = st1 \/ pruneExpired(r).st = NoConsumer(st1) BY <2>1,<2>2 DEF terminateSockets
 <2> QED BY <2>3,<2>4
<1> QED BY <1>2,<1>3

\* What an append makes of the stream, and its answer
AppendResult(r, e, rev, current, v, answer) ==
  LET dc == history.declared[r] \cup v.st.gap.first .. v.st.gap.last IN
  /\ v \in Worlds /\ Good(r, v.st, v.so, grants, history.handled[r], dc)
  /\ Apart(r, sockets, v.so, grants) /\ Cardinality(v.st.kept) <= setting.retained
  /\ answer \in Outcomes
  /\ answer = "transition" <=> Receipt(r, e) = 0 /\ (~current \/ Obsolete(stream[r], rev))
  /\ Receipt(r, e) # 0 => answer = "committed"
  /\ IF answer = "committed" /\ Receipt(r, e) = 0
     THEN v.st.receipts = [stream[r].receipts EXCEPT ![e] = stream[r].next]
     ELSE v.st.receipts = stream[r].receipts
  /\ IF Shared /\ current /\ ~Obsolete(stream[r], rev) /\ Receipt(r, e) = 0
     THEN v.st.rev = rev /\ (v.st.moved => stream[r].moved /\ rev = stream[r].rev)
     ELSE v.st.rev = stream[r].rev /\ v.st.moved = stream[r].moved

\* The stream's part of an append
LEMMA AppendServes ==
  ASSUME NEW r \in Realms, NEW e \in Events, NEW rev \in Nat, NEW current, Types, Serving
  PROVE  AppendResult(r, e, rev, current, Appended(r, e, rev, current), AppendAnswer(r, e, rev, current))
<1> SUFFICES LET v == Appended(r, e, rev, current)
                 answer == AppendAnswer(r, e, rev, current)
                 dc == history.declared[r] \cup v.st.gap.first .. v.st.gap.last
         IN
             /\ v \in Worlds /\ Good(r, v.st, v.so, grants, history.handled[r], dc)
             /\ Apart(r, sockets, v.so, grants) /\ Cardinality(v.st.kept) <= setting.retained
             /\ answer \in Outcomes
             /\ answer = "transition" <=> Receipt(r, e) = 0 /\ (~current \/ Obsolete(stream[r], rev))
             /\ Receipt(r, e) # 0 => answer = "committed"
             /\ IF answer = "committed" /\ Receipt(r, e) = 0
                THEN v.st.receipts = [stream[r].receipts EXCEPT ![e] = stream[r].next]
                ELSE v.st.receipts = stream[r].receipts
             /\ IF Shared /\ current /\ ~Obsolete(stream[r], rev) /\ Receipt(r, e) = 0
                THEN v.st.rev = rev /\ (v.st.moved => stream[r].moved /\ rev = stream[r].rev)
                ELSE v.st.rev = stream[r].rev /\ v.st.moved = stream[r].moved BY DEF AppendResult
<1> DEFINE p == pruneExpired(r)
           b == requireEffectiveBinding(p.st, rev)
           w == [p EXCEPT !.st = b]
           v == Appended(r, e, rev, current)
           answer == AppendAnswer(r, e, rev, current)
           hd == history.handled[r]
           D(st) == history.declared[r] \cup st.gap.first .. st.gap.last
<1>1. /\ stream[r] \in Stream /\ hd \in SUBSET Nat /\ history.declared[r] \in SUBSET Nat
      /\ World(r).st = stream[r] /\ World(r).so = sockets BY DEF Types, History, World
<1>2. /\ Good(r, stream[r], sockets, grants, hd, history.declared[r])
      /\ Cardinality(stream[r].kept) <= setting.retained /\ \A s \in Sockets : SocketFine(sockets[s], grants)
 BY DEF Serving
<1>3. setting.retained \in Nat BY SettingTypes DEF Types
<1>4. /\ p \in Worlds /\ Good(r, p.st, p.so, grants, hd, D(p.st))
      /\ p.st.rev = stream[r].rev /\ p.st.moved = stream[r].moved /\ p.st.receipts = stream[r].receipts
      /\ p.st.kept \subseteq stream[r].kept /\ Apart(r, sockets, p.so, grants)
 <2>1. Works(r, World(r), p, grants, hd, D(p.st)) BY <1>1,<1>2, PruneServes
 <2> HIDE DEF p, D
 <2> QED BY <1>1,<2>1 DEF Works, Frame
<1>5. Cardinality(p.st.kept) <= setting.retained /\ Cardinality(p.st.kept) \in Nat
 <2>1. StreamFine(r, stream[r], grants) BY <1>2 DEF Good
 <2>2. IsFiniteSet(stream[r].kept) /\ Cardinality(stream[r].kept) \in Nat BY <1>1,<2>1, KeptFinite
 <2>3. PICK K \in SUBSET stream[r].kept : K = p.st.kept BY <1>4
 <2>4. Cardinality(K) <= Cardinality(stream[r].kept) /\ IsFiniteSet(K) BY <2>2, FS_Subset
 <2>5. Cardinality(K) \in Nat BY <2>4, FS_CardinalityType
 <2> HIDE DEF p
 <2> QED BY <1>2,<1>3,<2>2,<2>3,<2>4,<2>5
<1>6. p.st \in Stream /\ p = [st |-> p.st, so |-> p.so] /\ p.so \in [Sockets -> Socket] BY <1>4 DEF Worlds
<1>7. \A s \in Sockets : SocketFine(p.so[s], grants) BY <1>2,<1>4, Names DEF Apart
<1>8. Obsolete(p.st, rev) <=> Obsolete(stream[r], rev) BY <1>4 DEF Obsolete
<1>9. /\ b \in Stream /\ (b.ready => p.st.ready)
      /\ b.next = p.st.next /\ b.acked = p.st.acked /\ b.kept = p.st.kept /\ b.gap = p.st.gap
      /\ b.epoch = p.st.epoch /\ b.holder = p.st.holder /\ b.receipts = p.st.receipts
      /\ Shared => b.rev = rev /\ (b.moved => p.st.moved /\ rev = p.st.rev)
      /\ ~Shared \/ rev = p.st.rev => b = p.st BY <1>6, BindServes
<1>10. w \in Worlds /\ w.st = b /\ w.so = p.so BY <1>6,<1>9 DEF Worlds
<1>11. /\ v = IF Receipt(r, e) # 0 \/ ~current \/ Obsolete(p.st, rev) THEN p
              ELSE IF Answer(w, r, e, rev, current) # "committed" THEN w ELSE Inserted(w, e)
       /\ answer = Answer(w, r, e, rev, current) BY DEF Appended, AppendAnswer
<1>12. Receipt(r, e) = stream[r].receipts[e] /\ Receipt(r, e) \in Nat BY <1>1 DEF Receipt, Stream
<1> HIDE DEF p, b, w, v, answer
<1>13. Good(r, b, p.so, grants, hd, D(p.st)) /\ D(b) = D(p.st)
 <2>1. Good(r, b, p.so, grants, hd, D(p.st))
  <3> HIDE DEF D
  <3> QED BY <1>4,<1>6,<1>9, Rebound
 <2> QED BY <1>9,<2>1
<1>14. Receipt(r, e) # 0 => answer = "committed" BY <1>11 DEF Answer
<1>15. answer = "transition" <=> Receipt(r, e) = 0 /\ (~current \/ Obsolete(stream[r], rev)) BY <1>11 DEF Answer
<1>16. answer \in Outcomes BY <1>11 DEF Answer, Outcomes
<1>17. CASE Receipt(r, e) # 0 \/ ~current \/ Obsolete(p.st, rev)
 <2>1. v = p BY <1>11,<1>17
 <2>2. answer = "committed" => Receipt(r, e) # 0 BY <1>8,<1>14,<1>15,<1>17
 <2> QED BY <1>4,<1>5,<1>8,<1>14,<1>15,<1>16,<1>17,<2>1,<2>2 DEF v, answer
<1>18. CASE Receipt(r, e) = 0 /\ current /\ ~Obsolete(p.st, rev) /\ answer # "committed"
 <2>1. v = w BY <1>11,<1>18
 <2>2. Good(r, v.st, v.so, grants, hd, D(v.st)) BY <1>10,<1>13,<2>1
 <2>3. Cardinality(v.st.kept) <= setting.retained /\ v.st.receipts = stream[r].receipts /\ Apart(r, sockets, v.so, grants)
  BY <1>4,<1>5,<1>9,<1>10,<2>1
 <2>4. IF Shared THEN v.st.rev = rev /\ (v.st.moved => stream[r].moved /\ rev = stream[r].rev)
       ELSE v.st.rev = stream[r].rev /\ v.st.moved = stream[r].moved BY <1>4,<1>9,<1>10,<2>1
 <2> QED BY <1>8,<1>10,<1>14,<1>15,<1>16,<1>18,<2>1,<2>2,<2>3,<2>4 DEF v, answer
<1>19. CASE Receipt(r, e) = 0 /\ current /\ ~Obsolete(p.st, rev) /\ answer = "committed"
 <2>1. v = Inserted(w, e) BY <1>11,<1>19
 <2>2. w.st.gap = NoGap /\ Viable(w, rev) /\ ~(Cardinality(w.st.kept) >= setting.retained)
  BY <1>8,<1>11,<1>19 DEF Answer
 <2>3. w.st.receipts = stream[r].receipts /\ w.st.receipts[e] = 0 /\ w.st.next = p.st.next /\ w.st.kept = p.st.kept
  BY <1>4,<1>9,<1>10,<1>12,<1>19
 <2>4. Good(r, w.st, w.so, grants, hd, D(w.st)) /\ \A s \in Sockets : SocketFine(w.so[s], grants)
  BY <1>7,<1>10,<1>13
 <2>5. D(w.st) \in SUBSET Nat
  <3>1. PICK x \in Nat, y \in Nat : x = b.gap.first /\ y = b.gap.last BY <1>9 DEF Stream
  <3>2. x .. y \subseteq Nat OBVIOUS
  <3> QED BY <1>1,<1>10,<3>1,<3>2
 <2>6. PICK dc \in SUBSET Nat : dc = D(w.st) BY <2>5
 <2> HIDE DEF D
 <2>7. /\ v \in Worlds /\ Good(r, v.st, v.so, grants, hd, dc) /\ Apart(r, w.so, v.so, grants)
       /\ v.st.rev = w.st.rev /\ v.st.moved = w.st.moved /\ v.st.gap = w.st.gap
       /\ v.st.receipts = [w.st.receipts EXCEPT ![e] = w.st.next]
       /\ v.st.kept = w.st.kept \cup {w.st.next}
  <3>1. StreamFine(r, w.st, grants) /\ w \in Worlds /\ Good(r, w.st, w.so, grants, hd, dc)
   BY <1>10,<2>4,<2>6 DEF Good
  <3>2. Insertion(r, w, Inserted(w, e), e, hd, dc) BY <1>1,<2>2,<2>3,<2>4,<3>1, InsertServes
  <3> QED BY <2>1,<3>2 DEF Insertion
 <2>8. D(v.st) = dc BY <2>6,<2>7 DEF D
 <2>9. Cardinality(v.st.kept) <= setting.retained
  <3>1. IsFiniteSet(p.st.kept)
   <4>1. StreamFine(r, p.st, grants) BY <1>4 DEF Good
   <4> QED BY <1>6,<4>1, KeptFinite
  <3>2. Cardinality(v.st.kept) = Cardinality(p.st.kept) \/ Cardinality(v.st.kept) = Cardinality(p.st.kept) + 1
   <4>1. PICK K, q : K = p.st.kept /\ q = p.st.next OBVIOUS
   <4>2. Cardinality(K \cup {q}) = (IF q \in K THEN Cardinality(K) ELSE Cardinality(K) + 1)
    BY <3>1,<4>1, FS_AddElement
   <4>3. v.st.kept = K \cup {q} BY <2>3,<2>7,<4>1
   <4> QED BY <4>1,<4>2,<4>3
  <3>3. Cardinality(p.st.kept) < setting.retained BY <1>3,<1>5,<2>2,<2>3
  <3> QED BY <1>3,<1>5,<3>2,<3>3
 <2>10. p.st.next = stream[r].next BY PruneNext DEF p
 <2>11. v.st.receipts = [stream[r].receipts EXCEPT ![e] = stream[r].next] BY <2>3,<2>7,<2>10
 <2>12. Apart(r, sockets, v.so, grants) BY <1>4,<1>10,<2>7, ApartAgain
 <2>13. IF Shared THEN v.st.rev = rev /\ (v.st.moved => stream[r].moved /\ rev = stream[r].rev)
        ELSE v.st.rev = stream[r].rev /\ v.st.moved = stream[r].moved BY <1>4,<1>9,<1>10,<2>7
 <2> QED BY <1>8,<1>14,<1>15,<1>16,<1>19,<2>7,<2>8,<2>9,<2>11,<2>12,<2>13 DEF v, answer, D
<1> QED BY <1>17,<1>18,<1>19

LEMMA CardinalityShrinks ==
  ASSUME NEW r, NEW st \in Stream, NEW gr, NEW K, StreamFine(r, st, gr), K \subseteq st.kept,
         setting \in Settings, Cardinality(st.kept) <= setting.retained
  PROVE  Cardinality(K) <= setting.retained
<1>1. IsFiniteSet(st.kept) /\ Cardinality(st.kept) \in Nat BY KeptFinite
<1>2. IsFiniteSet(K) /\ Cardinality(K) <= Cardinality(st.kept) BY <1>1, FS_Subset
<1>3. Cardinality(K) \in Nat /\ setting.retained \in Nat BY <1>2, FS_CardinalityType, SettingTypes
<1> QED BY <1>1,<1>2,<1>3

\* terminateSockets of some connections, open or registered at the stream
LEMMA TerminateSome ==
  ASSUME NEW r, NEW w \in Worlds, NEW S \in SUBSET Sockets, NEW hd, NEW dc,
         Good(r, w.st, w.so, grants, hd, dc),
         \A s \in S : w.so[s].phase = "registered" => grants[w.so[s].grant].realm = r
  PROVE  LET v == terminateSockets(w, S) IN
         Works(r, w, v, grants, hd, dc) /\ (v.st = w.st \/ v.st = NoConsumer(w.st))
<1> DEFINE v == terminateSockets(w, S)
<1>1. CASE At(r, w.so, grants) \subseteq S
 <2>1. StreamFine(r, w.st, grants) /\ Accounted(w.st, hd, dc) BY DEF Good
 <2>2. /\ v \in Worlds /\ Good(r, v.st, v.so, grants, hd, dc) /\ Frame(w.st, v.st)
        /\ v.st.kept = w.st.kept /\ Apart(r, w.so, v.so, grants)
        /\ (v.st = w.st \/ v.st = NoConsumer(w.st))
  <3>1. Disconnected(r, w, terminateSockets(w, S), hd, dc) BY <1>1,<2>1, TerminateAll
  <3> QED BY <3>1 DEF Disconnected
 <2> HIDE DEF v
 <2>3. Works(r, w, v, grants, hd, dc) BY <2>2 DEF Works
 <2> QED BY <2>2,<2>3 DEF v
<1>2. CASE ~(At(r, w.so, grants) \subseteq S)
 <2>1. At(r, w.so, grants) \cap S = {} BY <1>2 DEF Good, Served
 <2>2. \A s \in S : w.so[s].phase # "registered" BY <2>1 DEF At
 <2>3. v.st = w.st /\ v.so = [s \in Sockets |-> IF s \in S THEN NoSocket ELSE w.so[s]] /\ v = [st |-> v.st, so |-> v.so]
  BY <2>2 DEF terminateSockets, Holds
 <2>4. \A s \in Sockets : v.so[s] = (IF s \in S THEN NoSocket ELSE w.so[s]) BY <2>3
 <2>5. v \in Worlds
  <3>1. v.so \in [Sockets -> Socket] BY <2>3, Names DEF Worlds
  <3>2. v.st \in Stream BY <2>3 DEF Worlds
  <3> QED BY <2>3,<3>1,<3>2 DEF Worlds
 <2>6. At(r, v.so, grants) = At(r, w.so, grants) /\ \A s \in At(r, v.so, grants) : v.so[s] = w.so[s]
  BY <2>1,<2>2,<2>4 DEF At, NoSocket
 <2> HIDE DEF v
 <2>7. Good(r, v.st, v.so, grants, hd, dc) BY <2>3,<2>6 DEF Good, Served
 <2>8. Frame(w.st, v.st) /\ Apart(r, w.so, v.so, grants) BY <2>3,<2>4 DEF Frame, Apart
 <2>9. Works(r, w, v, grants, hd, dc) BY <2>3,<2>5,<2>7,<2>8 DEF Works
 <2> QED BY <2>3,<2>9 DEF v
<1> QED BY <1>1,<1>2

\* applyBindingNotification: the stream learns of a move
LEMMA ApplyServes ==
  ASSUME NEW r \in Realms, NEW n \in Notice, Types, Serving
  PROVE  LET v == applyBindingNotification(r, n) IN
         /\ v \in Worlds /\ Good(r, v.st, v.so, grants, history.handled[r], history.declared[r])
         /\ Apart(r, sockets, v.so, grants) /\ v.st.kept = stream[r].kept
         /\ v.st.receipts = stream[r].receipts
         /\ IF Stale(stream[r], n) THEN v.st.rev = stream[r].rev /\ v.st.moved = stream[r].moved
            ELSE v.st.rev = n.rev /\ (v.st.moved <=> n.to # r)
<1> DEFINE w == World(r)
           st1 == [stream[r] EXCEPT !.rev = n.rev, !.moved = n.to # r, !.ready = FALSE]
           told == [w EXCEPT !.st = st1]
           v == applyBindingNotification(r, n)
           hd == history.handled[r]
           dc == history.declared[r]
<1>1. /\ w = [st |-> stream[r], so |-> sockets] /\ w \in Worlds /\ stream[r] \in Stream
      /\ Good(r, stream[r], sockets, grants, hd, dc) BY DEF World, Worlds, Types, Serving
<1>2. CASE Stale(stream[r], n)
 <2>1. v = w BY <1>1,<1>2 DEF applyBindingNotification
 <2> QED BY <1>1,<1>2,<2>1 DEF Apart
<1>3. CASE ~Stale(stream[r], n)
 <2>1. PICK b \in BOOLEAN, f \in BOOLEAN : (b <=> n.to # r) /\ ~f OBVIOUS
 <2>2. st1 = [stream[r] EXCEPT !.rev = n.rev, !.moved = b, !.ready = f] BY <2>1
 <2>3. /\ st1 \in Stream /\ ~st1.ready /\ st1.rev = n.rev /\ (st1.moved <=> n.to # r)
       /\ st1.next = stream[r].next /\ st1.acked = stream[r].acked /\ st1.kept = stream[r].kept /\ st1.gap = stream[r].gap
       /\ st1.epoch = stream[r].epoch /\ st1.holder = stream[r].holder /\ st1.receipts = stream[r].receipts
  BY <1>1,<2>1,<2>2 DEF Stream, Notice
 <2>4. told.st = st1 /\ told.so = sockets /\ told \in Worlds BY <1>1,<2>3 DEF Worlds
 <2>5. v = (IF told.st.kept = {} THEN terminateSockets(told, Registered(told, r)) ELSE told)
  BY <1>1,<1>3 DEF applyBindingNotification
 <2> HIDE DEF st1, told, v, w
 <2>6. Good(r, told.st, told.so, grants, hd, dc) BY <1>1,<2>3,<2>4, Rebound
 <2>7. Works(r, told, v, grants, hd, dc) /\ (v.st = told.st \/ v.st = NoConsumer(told.st))
  <3>1. CASE v = told BY <2>4,<2>6,<3>1 DEF Works, Frame, Apart
  <3>2. CASE v = terminateSockets(told, Registered(told, r))
   <4>1. PICK S \in SUBSET Sockets : S = Registered(told, r) BY DEF Registered
   <4>2. \A s \in S : grants[told.so[s].grant].realm = r BY <4>1 DEF Registered
   <4> QED BY <2>4,<2>6,<3>2,<4>1,<4>2, TerminateSome
  <3> QED BY <2>5,<3>1,<3>2
 <2>8. v.st.kept = stream[r].kept BY <2>3,<2>4,<2>7, NoConsumerFrame
 <2>9. /\ v \in Worlds /\ Good(r, v.st, v.so, grants, hd, dc) /\ Apart(r, sockets, v.so, grants)
       /\ v.st.receipts = stream[r].receipts /\ v.st.rev = n.rev /\ (v.st.moved <=> n.to # r)
  BY <2>3,<2>4,<2>7 DEF Works, Frame
 <2> QED BY <1>3,<2>8,<2>9 DEF v
<1> QED BY <1>2,<1>3

\* alarm: expired events, a consumer without a grant, a consumer left behind
AlarmWorld(r) ==
  LET pruned == pruneExpired(r)
      valid == terminateSockets(pruned, Invalid(pruned, r))
      g == valid.st.holder
  IN IF valid.st.kept = {} /\ g # None /\ grantMoved(valid.st, g)
     THEN terminateSockets(valid, Registered(valid, r)) ELSE valid

LEMMA AlarmServes ==
  ASSUME NEW r \in Realms, Types, Serving
  PROVE  LET v == AlarmWorld(r)
             dc == history.declared[r] \cup v.st.gap.first .. v.st.gap.last
         IN Works(r, World(r), v, grants, history.handled[r], dc)
<1> DEFINE p == pruneExpired(r)
           u == terminateSockets(p, Invalid(p, r))
           v == AlarmWorld(r)
           hd == history.handled[r]
           D(st) == history.declared[r] \cup st.gap.first .. st.gap.last
<1>1. /\ stream[r] \in Stream /\ hd \in SUBSET Nat /\ history.declared[r] \in SUBSET Nat
      /\ Good(r, stream[r], sockets, grants, hd, history.declared[r]) BY DEF Types, History, Serving
<1>2. Works(r, World(r), p, grants, hd, D(p.st)) BY <1>1, PruneServes
<1>3. v = u \/ v = terminateSockets(u, Registered(u, r)) BY DEF AlarmWorld
<1>4. PICK S \in SUBSET Sockets : S = Invalid(p, r) BY DEF Invalid, Registered
<1>5. \A s \in S : grants[p.so[s].grant].realm = r BY <1>4 DEF Invalid, Registered
<1>6. PICK T \in SUBSET Sockets : T = Registered(u, r) BY DEF Registered
<1>7. \A s \in T : grants[u.so[s].grant].realm = r BY <1>6 DEF Registered
<1>8. u = terminateSockets(p, S) BY <1>4
<1> HIDE DEF p, u, v
<1>9. PICK dc : dc = D(p.st) OBVIOUS
<1>10. p \in Worlds /\ Good(r, p.st, p.so, grants, hd, dc) BY <1>2,<1>9 DEF Works
<1>11. Works(r, p, u, grants, hd, dc) /\ (u.st = p.st \/ u.st = NoConsumer(p.st))
 BY <1>5,<1>8,<1>10, TerminateSome
<1>12. u \in Worlds /\ Good(r, u.st, u.so, grants, hd, dc) BY <1>11 DEF Works
<1>13. Works(r, u, v, grants, hd, dc) /\ (v.st = u.st \/ v.st = NoConsumer(u.st))
 <2>1. CASE v = u BY <1>12,<2>1 DEF Works, Frame, Apart
 <2>2. CASE v = terminateSockets(u, T) BY <1>7,<1>12,<2>2, TerminateSome
 <2> QED BY <1>3,<1>6,<2>1,<2>2
<1>14. v.st.gap = p.st.gap
 <2>1. p.st \in Stream /\ u.st \in Stream BY <1>10,<1>12 DEF Worlds
 <2> QED BY <1>11,<1>13,<2>1, NoConsumerFrame
<1>15. D(v.st) = dc BY <1>9,<1>14
<1> HIDE DEF D
<1>16. Works(r, World(r), v, grants, hd, dc)
 <2>1. Frame(World(r).st, v.st) /\ v.st.kept \subseteq World(r).st.kept BY <1>2,<1>11,<1>13 DEF Works, Frame
 <2>2. Apart(r, World(r).so, v.so, grants)
  <3>1. Apart(r, World(r).so, p.so, grants) /\ Apart(r, p.so, u.so, grants) /\ Apart(r, u.so, v.so, grants)
   BY <1>2,<1>11,<1>13 DEF Works
  <3> QED BY <3>1, ApartAgain
 <2> QED BY <1>13,<2>1,<2>2 DEF Works
<1> QED BY <1>15,<1>16 DEF v, D

\* registerSocket, of an open connection whose grant was issued at realm r
RegisterOf(s, g, r, w) ==
  LET epoch == w.st.epoch + 1
      so1 == [x \in Sockets |-> IF x \in Registered(w, r) THEN NoSocket ELSE w.so[x]]
      so2 == [so1 EXCEPT ![s] = [sockets[s] EXCEPT !.phase = "registered", !.epoch = epoch,
                                                   !.sent = Resumed(w.st), !.acked = Resumed(w.st)]]
      st == [w.st EXCEPT !.epoch = epoch, !.holder = g, !.ready = ~grantMoved(w.st, g)]
  IN IF grants[g].status # "active" \/ w.st.gap # NoGap THEN Closed(w, s)
     ELSE sendNextEvent([st |-> st, so |-> so2], s)
RegisterWorld(s) ==
  LET g == sockets[s].grant  r == grants[g].realm IN RegisterOf(s, g, r, World(r))

LEMMA OfRealm ==
  ASSUME Types, Serving, NEW s \in Sockets, sockets[s].phase # "closed"
  PROVE  /\ sockets[s].grant \in Grants /\ grants[sockets[s].grant].status # "none"
         /\ grants[sockets[s].grant].realm \in Realms
BY DEF Types, Serving, SocketFine, GrantsFine

LEMMA RegisterServes ==
  ASSUME Types, Serving, NEW s \in Sockets, sockets[s].phase = "open",
         NEW r \in Realms, r = grants[sockets[s].grant].realm
  PROVE  Works(r, World(r), RegisterWorld(s), grants, history.handled[r], history.declared[r])
<1> DEFINE g == sockets[s].grant
           w == World(r)
           x == sockets[s]
           hd == history.handled[r]
           dc == history.declared[r]
           v == RegisterWorld(s)
<1>1. /\ w = [st |-> stream[r], so |-> sockets] /\ w \in Worlds /\ stream[r] \in Stream /\ sockets \in [Sockets -> Socket]
      /\ x \in Socket /\ hd \in SUBSET Nat /\ dc \in SUBSET Nat BY DEF World, Worlds, Types, History
<1>2. /\ Good(r, stream[r], sockets, grants, hd, dc) /\ SocketFine(x, grants)
      /\ g \in Grants /\ grants[g].status # "none" BY OfRealm DEF Serving
<1>3. CASE grants[g].status # "active" \/ w.st.gap # NoGap
 <2>1. v = Closed(w, s) BY <1>3 DEF RegisterWorld, RegisterOf
 <2>2. PICK S \in SUBSET Sockets : S = {s} OBVIOUS
 <2>3. v = terminateSockets(w, S)
  <3>1. v = [st |-> stream[r], so |-> [sockets EXCEPT ![s] = NoSocket]] BY <1>1,<2>1 DEF Closed
  <3>2. ~\E t \in S : Holds(w, t) BY <1>1,<2>2 DEF Holds
  <3>3. [sockets EXCEPT ![s] = NoSocket] = [t \in Sockets |-> IF t \in S THEN NoSocket ELSE sockets[t]]
   BY <1>1,<2>2
  <3> QED BY <1>1,<3>1,<3>2,<3>3 DEF terminateSockets
 <2>4. \A t \in S : w.so[t].phase # "registered" BY <1>1,<2>2
 <2> HIDE DEF v
 <2>5. Good(r, w.st, w.so, grants, hd, dc)
  <3>1. w.st = stream[r] /\ w.so = sockets BY <1>1
  <3> HIDE DEF w
  <3> QED BY <1>2,<3>1
 <2>6. Works(r, w, v, grants, hd, dc) BY <1>1,<2>3,<2>4,<2>5, TerminateSome
 <2> QED BY <2>6 DEF v
<1>4. CASE grants[g].status = "active" /\ w.st.gap = NoGap
 <2> DEFINE epoch == w.st.epoch + 1
            so1 == [t \in Sockets |-> IF t \in Registered(w, r) THEN NoSocket ELSE w.so[t]]
            x2 == [x EXCEPT !.phase = "registered", !.epoch = epoch, !.sent = w.st.acked, !.acked = w.st.acked]
            so2 == [so1 EXCEPT ![s] = x2]
            st == [w.st EXCEPT !.epoch = epoch, !.holder = g, !.ready = ~grantMoved(w.st, g)]
            w2 == [st |-> st, so |-> so2]
 <2>0. w.st = stream[r] /\ w.so = sockets BY <1>1
 <2>1. v = sendNextEvent(w2, s)
  <3>1. v = RegisterOf(s, g, r, w) BY DEF RegisterWorld
  <3> HIDE DEF v, w, g
  <3> QED BY Zenon, <1>4,<3>1 DEF RegisterOf, Resumed, x
 <2>2. PICK b \in BOOLEAN, n \in Nat, h \in SomeGrant : b = (~grantMoved(w.st, g)) /\ n = epoch /\ h = g
  <3>1. epoch \in Nat /\ g \in SomeGrant
   <4>1. w.st.epoch \in Nat /\ g \in Grants BY <1>1,<1>2,<2>0 DEF Stream
   <4> QED BY <4>1 DEF SomeGrant
  <3>2. (~grantMoved(w.st, g)) \in BOOLEAN OBVIOUS
  <3> HIDE DEF epoch, g
  <3> QED BY <3>1,<3>2
 <2>2a. stream[r].gap = NoGap BY <1>1,<1>4
 <2>3. st = [stream[r] EXCEPT !.epoch = n, !.holder = h, !.ready = b]
  <3> HIDE DEF w, g, epoch
  <3> QED BY <2>0,<2>2
 <2>4. /\ st \in Stream /\ st.epoch = n /\ st.holder = g /\ st.next = stream[r].next /\ st.acked = stream[r].acked
       /\ st.kept = stream[r].kept /\ st.gap = NoGap /\ Frame(stream[r], st) /\ st.receipts = stream[r].receipts
  <3> HIDE DEF st, epoch, g, w
  <3> QED BY <1>1,<2>2,<2>2a, <2>3 DEF Stream, Frame
 <2>5. PICK ph \in {"closed", "open", "registered"}, a \in Nat : ph = "registered" /\ a = stream[r].acked
  BY <1>1 DEF Stream
 <2>6. x2 = [x EXCEPT !.phase = ph, !.epoch = n, !.sent = a, !.acked = a]
  <3> HIDE DEF w, x, epoch
  <3> QED BY <2>0,<2>2,<2>5
 <2>7. /\ x2 \in Socket /\ x2.phase = "registered" /\ x2.epoch = n /\ x2.sent = a /\ x2.acked = a /\ x2.grant = g /\ x2.ack = 0
  BY <1>1,<1>2,<2>5,<2>6 DEF Socket, SocketFine
 <2> HIDE DEF st, x2
 <2>8. /\ so2 \in [Sockets -> Socket] /\ so2[s] = x2
       /\ \A t \in Sockets : t # s => so2[t] = IF t \in Registered(w, r) THEN NoSocket ELSE sockets[t]
  BY <1>1,<2>0,<2>7, Names
 <2> HIDE DEF so2
 <2>9. w2 \in Worlds /\ w2.st = st /\ w2.so = so2 BY <2>4,<2>8 DEF Worlds
 <2> HIDE DEF w2
 <2>10. StreamFine(r, st, grants)
  <3>1. grants[g].realm = r /\ grants[g].status # "none" BY <1>2
  <3> HIDE DEF g, w
  <3> QED BY <1>2,<2>4,<3>1, Names DEF Good, StreamFine
 <2>11. Accounted(st, hd, dc) BY <1>2,<2>4 DEF Good, Accounted
 <2>12. At(r, so2, grants) = {s}
  <3>1. s \in At(r, so2, grants) BY <2>7,<2>8 DEF At
  <3>2. ASSUME NEW t \in At(r, so2, grants), t # s PROVE FALSE BY <1>1,<2>8,<3>2 DEF At, Registered, NoSocket
  <3> QED BY <3>1,<3>2
 <2>13. Follows(so2[s], st, grants) /\ SocketFine(so2[s], grants)
  BY <1>2,<1>4,<2>4,<2>5,<2>7,<2>8 DEF Follows, SocketFine
 <2>14. so2[s].sent = so2[s].acked /\ so2[s].ack = 0 BY <2>7,<2>8
 <2>15. Works(r, w2, v, grants, hd, dc)
  <3> HIDE DEF v
  <3>1. s \in At(r, w2.so, grants) /\ \A t \in At(r, w2.so, grants) : t = s BY <2>9,<2>12
  <3>2. v = sendNextEvent(w2, s) BY <2>1
  <3> HIDE DEF w, hd, dc
  <3> QED BY <1>1,<2>9,<2>10,<2>11,<2>13,<2>14,<3>1,<3>2, SendServes
 <2>16. Apart(r, sockets, so2, grants) BY <2>7,<2>8,<2>13 DEF Apart
 <2> HIDE DEF v
 <2>17. /\ v \in Worlds /\ Good(r, v.st, v.so, grants, hd, dc) /\ Frame(stream[r], v.st)
        /\ v.st.kept \subseteq stream[r].kept BY <2>4,<2>9,<2>15 DEF Works, Frame
 <2>18. Apart(r, sockets, v.so, grants) BY <2>9,<2>15,<2>16, ApartAgain DEF Works
 <2>19. w.st = stream[r] /\ w.so = sockets BY <1>1
 <2> QED BY <2>17,<2>18,<2>19 DEF Works, v
<1> QED BY <1>3,<1>4

\* acknowledgeSocketEvent: a page acknowledges what it handled, which is the
\* oldest event retained; it is forgotten and the next one follows.
AckOf(s, w, q) ==
  LET rest == [w EXCEPT !.st = [w.st EXCEPT !.kept = Forgotten(w.st, q), !.acked = q],
                        !.so[s].acked = q, !.so[s].ack = 0]
  IN IF Holds(w, s) /\ q > w.st.acked /\ q \in w.st.kept THEN sendNextEvent(rest, s)
     ELSE terminateSockets(w, {s})
AckWorld(s) == AckOf(s, World(grants[sockets[s].grant].realm), sockets[s].ack)

\* An update of the stream and of two fields of a connection
Updated(w, st, s, q) == [w EXCEPT !.st = st, !.so[s].acked = q, !.so[s].ack = 0]
LEMMA WorldFields ==
  ASSUME NEW w, NEW a, NEW b, NEW st, NEW s, NEW q, w = [st |-> a, so |-> b]
  PROVE  Updated(w, st, s, q)
           = [st |-> st, so |-> [b EXCEPT ![s].acked = q, ![s].ack = 0]]
<1>1. PICK v : v = [w EXCEPT !.st = st, !.so[s].acked = q, !.so[s].ack = 0] OBVIOUS
<1>2. v.st = st /\ v = [st |-> v.st, so |-> v.so] BY <1>1
<1>3. v.so = [b EXCEPT ![s].acked = q, ![s].ack = 0] BY <1>1
<1> QED BY <1>1,<1>2,<1>3 DEF Updated

LEMMA AckServes ==
  ASSUME Types, Serving, NEW s \in Sockets, sockets[s].phase = "registered", sockets[s].ack # 0,
         NEW r \in Realms, r = grants[sockets[s].grant].realm
  PROVE  Works(r, World(r), AckWorld(s), grants, history.handled[r], history.declared[r])
<1> DEFINE w == World(r)
           x == sockets[s]
           hd == history.handled[r]
           dc == history.declared[r]
           v == AckWorld(s)
           q == x.ack
<1>1. /\ w = [st |-> stream[r], so |-> sockets] /\ w \in Worlds /\ stream[r] \in Stream /\ sockets \in [Sockets -> Socket]
      /\ x \in Socket /\ hd \in SUBSET Nat /\ dc \in SUBSET Nat BY DEF World, Worlds, Types, History
<1>2. /\ Good(r, stream[r], sockets, grants, hd, dc) /\ SocketFine(x, grants)
      /\ x.grant \in Grants BY OfRealm DEF Serving
<1>3. s \in At(r, sockets, grants) BY DEF At
<1>4. Follows(x, stream[r], grants) /\ InHand(x, stream[r], hd) /\ \A t \in At(r, sockets, grants) : t = s
 BY <1>2,<1>3 DEF Good, Served
<1>5. q \in stream[r].kept /\ (\A p \in stream[r].kept : q <= p) /\ q = x.sent /\ q \in hd BY <1>4 DEF InHand
<1>6. /\ stream[r].next \in Nat /\ stream[r].acked \in Nat /\ stream[r].kept \subseteq Nat
      /\ stream[r].kept \subseteq stream[r].acked + 1 .. stream[r].next - 1
 BY <1>1,<1>2 DEF Good, StreamFine, Stream
<1>7. q \in Nat /\ q > stream[r].acked /\ q < stream[r].next
 <2>1. q \in stream[r].kept BY <1>5
 <2> HIDE DEF q
 <2> QED BY <1>6,<2>1
<1>8. stream[r].gap = NoGap /\ stream[r].holder = x.grant BY <1>2,<1>4, Names DEF Good, StreamFine, Follows
<1>9. Holds(w, s)
 <2>1. w.so = sockets /\ w.st = stream[r] BY <1>1
 <2> HIDE DEF w
 <2> QED BY <1>4,<2>1 DEF Holds, Follows
<1> DEFINE K == {p \in stream[r].kept : p > q}
           st == [stream[r] EXCEPT !.kept = K, !.acked = q]
           x2 == [x EXCEPT !.acked = q, !.ack = 0]
           so2 == [sockets EXCEPT ![s] = x2]
           w2 == [st |-> st, so |-> so2]
<1>10. v = sendNextEvent(w2, s)
 <2>1. v = sendNextEvent([w EXCEPT !.st = [w.st EXCEPT !.kept = Forgotten(w.st, q), !.acked = q],
                       !.so[s].acked = q, !.so[s].ack = 0], s)
  <3>1. Holds(w, s) /\ q > w.st.acked /\ q \in w.st.kept
   <4>1. w.st = stream[r] BY <1>1
   <4>2. q \in stream[r].kept BY <1>5
   <4>3. q > stream[r].acked BY <1>7
   <4> HIDE DEF w, q
   <4> QED BY <1>9,<4>1,<4>2,<4>3
  <3>2. v = AckOf(s, w, q) BY DEF AckWorld
  <3> HIDE DEF v, w, q
  <3> QED BY Zenon, <3>1,<3>2 DEF AckOf
 <2>2. Forgotten(w.st, q) = K BY <1>1 DEF Forgotten
 <2>3. [w EXCEPT !.st = [w.st EXCEPT !.kept = K, !.acked = q], !.so[s].acked = q, !.so[s].ack = 0] = w2
  <3>1. [sockets EXCEPT ![s].acked = q, ![s].ack = 0] = so2 BY <1>1 DEF Socket
  <3>2. [w EXCEPT !.st = [w.st EXCEPT !.kept = K, !.acked = q], !.so[s].acked = q, !.so[s].ack = 0]
          = [st |-> [w.st EXCEPT !.kept = K, !.acked = q], so |-> [w.so EXCEPT ![s].acked = q, ![s].ack = 0]]
   <4>1. w = [st |-> stream[r], so |-> sockets] BY <1>1
   <4> HIDE DEF K, q, w
   <4>2. w.so = sockets BY <4>1
   <4>3. PICK n : n = [w.st EXCEPT !.kept = K, !.acked = q] OBVIOUS
   <4>4. Updated(w, n, s, q)
           = [st |-> n, so |-> [sockets EXCEPT ![s].acked = q, ![s].ack = 0]] BY <4>1, WorldFields
   <4> QED BY <4>2,<4>3,<4>4 DEF Updated
  <3>3. w.st = stream[r] /\ w.so = sockets BY <1>1
  <3> HIDE DEF K, q, w, so2
  <3> QED BY <3>1,<3>2,<3>3
 <2> QED BY <2>1,<2>2,<2>3
<1>11. /\ st \in Stream /\ st.kept = K /\ st.acked = q /\ st.next = stream[r].next /\ st.gap = NoGap
       /\ st.epoch = stream[r].epoch /\ st.holder = x.grant /\ Frame(stream[r], st) /\ st.receipts = stream[r].receipts
 <2>1. PICK L \in SUBSET Nat : L = K BY <1>6
 <2>2. st = [stream[r] EXCEPT !.kept = L, !.acked = q] BY <2>1
 <2> HIDE DEF K, q
 <2> QED BY <1>1,<1>7,<1>8,<2>1,<2>2 DEF Stream, Frame
<1>12. /\ x2 \in Socket /\ x2.phase = "registered" /\ x2.acked = q /\ x2.ack = 0 /\ x2.sent = q /\ x2.grant = x.grant
       /\ x2.epoch = x.epoch BY <1>1,<1>5,<1>7 DEF Socket
<1>13. /\ so2 \in [Sockets -> Socket] /\ so2[s] = x2 /\ \A t \in Sockets : t # s => so2[t] = sockets[t]
 <2> HIDE DEF x2
 <2> QED BY <1>1,<1>12
<1>14. w2 \in Worlds /\ w2.st = st /\ w2.so = so2
 <2> HIDE DEF st, so2
 <2> QED BY <1>11,<1>13 DEF Worlds
<1> HIDE DEF st, x2, so2, w2
<1>15. StreamFine(r, st, grants)
 <2>1. st.acked < st.next BY <1>7,<1>11
 <2>2. st.kept \subseteq st.acked + 1 .. st.next - 1
  <3>1. \A p \in K : p \in Nat /\ p > q /\ p < stream[r].next BY <1>6
  <3>2. st.kept = K /\ st.acked = q /\ st.next = stream[r].next BY <1>11
  <3> HIDE DEF K, q
  <3>3. PICK a, b : a = q /\ b = stream[r].next OBVIOUS
  <3>4. a \in Nat /\ b \in Nat /\ \A p \in K : p \in Nat /\ p > a /\ p < b BY <1>6,<1>7,<3>1,<3>3
  <3>5. K \subseteq a + 1 .. b - 1 BY <3>4
  <3> QED BY <3>2,<3>3,<3>5
 <2>3. /\ Range(st.receipts) \ {0} = 1 .. st.next - 1
       /\ grants[x.grant].status # "none" BY <1>2,<1>4,<1>11 DEF Good, StreamFine, Follows
 <2> QED BY <1>2,<1>11,<2>1,<2>2,<2>3, Names DEF StreamFine
<1>16. Accounted(st, hd, dc)
 <2>1. ASSUME NEW p \in 1 .. st.next - 1 PROVE p \in st.kept \cup hd \cup dc
  <3>1. p \in stream[r].kept \cup hd \cup dc BY <1>2,<1>11 DEF Good, Accounted
  <3>2. ASSUME p \in stream[r].kept PROVE p \in K \/ p = q
   <4>1. p \in Nat /\ q \in Nat /\ q <= p BY <1>5,<1>6,<1>7,<3>2
   <4>2. p > q \/ p = q
    <5> HIDE DEF q
    <5> QED BY <4>1
   <4> QED BY <3>2,<4>2
  <3> HIDE DEF K
  <3> QED BY <1>5,<1>11,<3>1,<3>2
 <2>2. \A p \in hd : 1 .. p - 1 \subseteq hd \cup dc BY <1>2 DEF Good, Accounted
 <2> QED BY <2>1,<2>2 DEF Accounted
<1>17. At(r, so2, grants) = At(r, sockets, grants) BY <1>3,<1>12,<1>13 DEF At
<1>18. Follows(so2[s], st, grants) /\ SocketFine(so2[s], grants)
 BY <1>2,<1>4,<1>11,<1>12,<1>13 DEF Follows, SocketFine
<1>19. Works(r, w2, v, grants, hd, dc)
 <2> HIDE DEF v
 <2>1. s \in At(r, w2.so, grants) /\ \A t \in At(r, w2.so, grants) : t = s BY <1>3,<1>4,<1>14,<1>17
 <2>2. v = sendNextEvent(w2, s) BY <1>10
 <2>3. so2[s].sent = so2[s].acked /\ so2[s].ack = 0 BY <1>12,<1>13
 <2> HIDE DEF w, hd, dc
 <2> QED BY <1>1,<1>14,<1>15,<1>16,<1>18,<2>1,<2>2,<2>3, SendServes
<1>20. Apart(r, sockets, so2, grants) BY <1>12,<1>13,<1>18 DEF Apart
<1> HIDE DEF v
<1>21. /\ v \in Worlds /\ Good(r, v.st, v.so, grants, hd, dc) /\ Frame(stream[r], v.st)
       /\ v.st.kept \subseteq stream[r].kept BY <1>11,<1>14,<1>19 DEF Works, Frame
<1>22. Apart(r, sockets, v.so, grants) BY <1>14,<1>19,<1>20, ApartAgain DEF Works
<1>23. w.st = stream[r] /\ w.so = sockets BY <1>1
<1> QED BY <1>21,<1>22,<1>23 DEF Works, v

-----------------------------------------------------------------------------
(* Serving, and the types of streams and connections, from step to step      *)

\* What a step makes of the streams and the connections, under the grants gr
ServingWith(gr) ==
  /\ \A q \in Realms : Good(q, stream'[q], sockets', gr, history'.handled[q], history'.declared[q])
  /\ \A q \in Realms : Cardinality(stream'[q].kept) <= setting.retained
  /\ \A s \in Sockets : SocketFine(sockets'[s], gr)
Typed == stream' \in [Realms -> Stream] /\ sockets' \in [Sockets -> Socket]

LEMMA ServingNext ==
  ASSUME ServingWith(grants'), GrantsFine(grants'), setting' = setting
  PROVE  Serving'
BY DEF ServingWith, Serving

\* A handler of stream r commits v.
LEMMA Elsewhere ==
  ASSUME Types, Serving, NEW r \in Realms, NEW v \in Worlds, Commit(r, v), Apart(r, sockets, v.so, grants),
         Good(r, v.st, v.so, grants, history'.handled[r], history'.declared[r]),
         Cardinality(v.st.kept) <= setting.retained,
         \A q \in Realms \ {r} : /\ history'.handled[q] = history.handled[q]
                                 /\ history'.declared[q] = history.declared[q]
  PROVE  /\ ServingWith(grants) /\ Typed
         /\ stream'[r] = v.st /\ \A q \in Realms : q # r => stream'[q] = stream[q]
         /\ sockets' = v.so
<1>1. /\ stream \in [Realms -> Stream] /\ v.st \in Stream /\ v.so \in [Sockets -> Socket]
      /\ stream' = [stream EXCEPT ![r] = v.st] /\ sockets' = v.so BY DEF Types, Worlds, Commit
<1>2. Typed /\ stream'[r] = v.st /\ \A q \in Realms : q # r => stream'[q] = stream[q] BY <1>1 DEF Typed
<1>3. ASSUME NEW q \in Realms, q # r
      PROVE  Good(q, stream'[q], sockets', grants, history'.handled[q], history'.declared[q])
 <2>1. Good(q, stream[q], sockets, grants, history.handled[q], history.declared[q]) BY DEF Serving
 <2>2. At(q, sockets', grants) \subseteq At(q, sockets, grants)
       /\ \A s \in At(q, sockets', grants) : sockets'[s] = sockets[s] BY <1>1,<1>3 DEF At, Apart, NoSocket
 <2>3. Good(q, stream[q], sockets', grants, history.handled[q], history.declared[q]) BY <2>1,<2>2 DEF Good, Served
 <2> QED BY <1>2,<1>3,<2>3
<1>4. Good(r, stream'[r], sockets', grants, history'.handled[r], history'.declared[r]) BY <1>1,<1>2
<1>5. \A q \in Realms : Cardinality(stream'[q].kept) <= setting.retained BY <1>2 DEF Serving
<1>6. \A s \in Sockets : SocketFine(sockets'[s], grants) BY <1>1, Names DEF Apart, Serving
<1>7. ServingWith(grants) BY <1>3,<1>4,<1>5,<1>6 DEF ServingWith
<1> QED BY <1>1,<1>2,<1>7

\* Streams keep what they know of the binding and their receipts.
Steady == \A q \in Realms : Frame(stream[q], stream'[q])

LEMMA HandlerStep ==
  ASSUME Types, Serving, NEW r \in Realms, NEW v, Commit(r, v), UNCHANGED <<setting, grants>>,
         Works(r, World(r), v, grants, history'.handled[r], history'.declared[r]),
         \A q \in Realms \ {r} : /\ history'.handled[q] = history.handled[q]
                                 /\ history'.declared[q] = history.declared[q]
  PROVE  Serving' /\ Typed /\ Steady
<1>1. World(r).st = stream[r] /\ World(r).so = sockets /\ stream[r] \in Stream /\ setting \in Settings
 BY DEF World, Types
<1>2. /\ v \in Worlds /\ Good(r, v.st, v.so, grants, history'.handled[r], history'.declared[r])
      /\ Frame(stream[r], v.st) /\ v.st.kept \subseteq stream[r].kept /\ Apart(r, sockets, v.so, grants)
 BY <1>1 DEF Works
<1>3. Cardinality(v.st.kept) <= setting.retained
 <2>1. StreamFine(r, stream[r], grants) /\ Cardinality(stream[r].kept) <= setting.retained BY DEF Serving, Good
 <2> QED BY <1>1,<1>2,<2>1, CardinalityShrinks
<1>4. /\ ServingWith(grants) /\ Typed
      /\ stream'[r] = v.st /\ \A q \in Realms : q # r => stream'[q] = stream[q] BY <1>2,<1>3, Elsewhere
<1>5. Steady BY <1>2,<1>4 DEF Steady, Frame
<1>6. GrantsFine(grants) BY DEF Serving
<1>7. Serving' BY <1>4,<1>6, ServingNext
<1> QED BY <1>4,<1>5,<1>7

\* A step that is not about streams, connections and grants
LEMMA ServingStays ==
  ASSUME Types, Serving, UNCHANGED <<setting, stream, grants, sockets>>,
         history'.handled = history.handled, history'.declared = history.declared
  PROVE  Serving' /\ Typed /\ Steady
<1>1. Typed /\ Steady BY DEF Types, Typed, Steady, Frame
<1>2. Serving' BY DEF Serving
<1> QED BY <1>1,<1>2

\* Grants are issued or end.
LEMMA GrantsChange ==
  ASSUME NEW q, NEW st \in Stream, NEW so \in [Sockets -> Socket], NEW gr, NEW gr1, NEW hd, NEW dc,
         Good(q, st, so, gr, hd, dc), \A s \in Sockets : SocketFine(so[s], gr),
         \A g \in Grants : gr[g].status # "none" => gr1[g].status # "none" /\ gr1[g].realm = gr[g].realm,
         \A s \in At(q, so, gr) : gr1[so[s].grant].status \in {"active", "expired"}
  PROVE  Good(q, st, so, gr1, hd, dc) /\ \A s \in Sockets : SocketFine(so[s], gr1)
<1>1. \A s \in Sockets : SocketFine(so[s], gr1) BY DEF SocketFine
<1>2. At(q, so, gr1) = At(q, so, gr) BY DEF At, SocketFine
<1>3. StreamFine(q, st, gr1)
 <2>1. StreamFine(q, st, gr) /\ (st.holder # None => st.holder \in Grants) BY DEF Good, Stream, SomeGrant
 <2> QED BY <2>1 DEF StreamFine
<1>4. Served(q, st, so, gr1, hd) BY <1>2 DEF Good, Served, Follows
<1> QED BY <1>1,<1>3,<1>4 DEF Good

\* Connections of which only the open ones and the page's end are different
LEMMA SameRegistrations ==
  ASSUME NEW q, NEW st, NEW so, NEW so1, NEW gr, NEW hd, NEW dc, Good(q, st, so, gr, hd, dc),
         \A s \in Sockets : (so1[s].phase = "registered" <=> so[s].phase = "registered"),
         \A s \in Sockets : so[s].phase = "registered" =>
           /\ so1[s].grant = so[s].grant /\ so1[s].epoch = so[s].epoch /\ so1[s].sent = so[s].sent
           /\ so1[s].acked = so[s].acked /\ so1[s].ack = so[s].ack
  PROVE  Good(q, st, so1, gr, hd, dc)
<1>1. At(q, so1, gr) = At(q, so, gr) BY DEF At
<1>2. \A s \in At(q, so, gr) : so[s].phase = "registered" /\ s \in Sockets BY DEF At
<1>3. Served(q, st, so1, gr, hd) BY <1>1,<1>2 DEF Good, Served, Follows, InHand
<1> QED BY <1>3 DEF Good

LEMMA AcceptServing ==
  ASSUME Types, Serving, NEW s \in Sockets, NEW g \in Grants, acceptDurableEventSocket(s, g)
  PROVE  Serving' /\ Typed /\ Steady
<1> DEFINE x == [NoSocket EXCEPT !.phase = "open", !.grant = g, !.here = TRUE]
<1>1. /\ sockets' = [sockets EXCEPT ![s] = x] /\ UNCHANGED <<setting, stream, grants, history>>
      /\ sockets[s].phase = "closed" /\ grants[g].status = "active" BY DEF acceptDurableEventSocket
<1>2. x \in Socket /\ x.phase = "open" /\ SocketFine(x, grants)
 BY <1>1 DEF NoSocket, Socket, SocketFine, SomeGrant
<1>3. sockets \in [Sockets -> Socket] /\ stream \in [Realms -> Stream] BY DEF Types
<1> HIDE DEF x
<1>4. sockets' \in [Sockets -> Socket] /\ sockets'[s] = x /\ \A t \in Sockets : t # s => sockets'[t] = sockets[t]
 BY <1>1,<1>2,<1>3
<1>5. ASSUME NEW q \in Realms PROVE Good(q, stream[q], sockets', grants, history.handled[q], history.declared[q])
 <2>1. Good(q, stream[q], sockets, grants, history.handled[q], history.declared[q]) BY DEF Serving
 <2>2. \A t \in Sockets : /\ sockets'[t].phase = "registered" <=> sockets[t].phase = "registered"
                          /\ sockets[t].phase = "registered" => sockets'[t] = sockets[t] BY <1>1,<1>2,<1>4
 <2> QED BY <2>1,<2>2, SameRegistrations
<1>6. \A t \in Sockets : SocketFine(sockets'[t], grants) BY <1>2,<1>4 DEF Serving
<1>7. Serving' BY <1>1,<1>5,<1>6 DEF Serving
<1> QED BY <1>1,<1>3,<1>4,<1>7 DEF Typed, Steady, Frame

LEMMA LeaveServing ==
  ASSUME Types, Serving, NEW s \in Sockets, PageLeaves(s)
  PROVE  Serving' /\ Typed /\ Steady
<1>1. sockets' = [sockets EXCEPT ![s].here = FALSE] /\ UNCHANGED <<setting, stream, grants, history>>
 BY DEF PageLeaves
<1>2. sockets \in [Sockets -> Socket] /\ stream \in [Realms -> Stream] BY DEF Types
<1>3. PICK f \in BOOLEAN : f = FALSE OBVIOUS
<1>4. PICK x : x = [sockets[s] EXCEPT !.here = f] OBVIOUS
<1>5. sockets[s] \in Socket BY <1>2
<1>6. /\ x \in Socket /\ x.phase = sockets[s].phase /\ x.grant = sockets[s].grant /\ x.epoch = sockets[s].epoch
      /\ x.sent = sockets[s].sent /\ x.acked = sockets[s].acked /\ x.ack = sockets[s].ack BY <1>4,<1>5 DEF Socket
<1>7. sockets' = [sockets EXCEPT ![s] = x] BY <1>1,<1>2,<1>3,<1>4
<1>8. sockets' \in [Sockets -> Socket] /\ sockets'[s] = x /\ \A t \in Sockets : t # s => sockets'[t] = sockets[t]
 BY <1>2,<1>6,<1>7
<1>9. \A t \in Sockets : /\ sockets'[t].phase = sockets[t].phase /\ sockets'[t].grant = sockets[t].grant
                         /\ sockets'[t].epoch = sockets[t].epoch /\ sockets'[t].sent = sockets[t].sent
                         /\ sockets'[t].acked = sockets[t].acked /\ sockets'[t].ack = sockets[t].ack BY <1>6,<1>8
<1>10. ASSUME NEW q \in Realms PROVE Good(q, stream[q], sockets', grants, history.handled[q], history.declared[q])
 <2>1. Good(q, stream[q], sockets, grants, history.handled[q], history.declared[q]) BY DEF Serving
 <2> QED BY <1>9,<2>1, SameRegistrations
<1>11. \A t \in Sockets : SocketFine(sockets'[t], grants) BY <1>9 DEF Serving, SocketFine
<1>12. Serving' BY <1>1,<1>10,<1>11 DEF Serving
<1> QED BY <1>1,<1>2,<1>8,<1>12 DEF Typed, Steady, Frame

LEMMA RegisterServing ==
  ASSUME Types, Serving, NEW s \in Sockets, registerSocket(s)
  PROVE  Serving' /\ Typed /\ Steady
<1> DEFINE r == grants[sockets[s].grant].realm
<1>1. /\ sockets[s].phase = "open" /\ UNCHANGED <<setting, grants, history>>
      /\ Commit(r, RegisterWorld(s)) BY Zenon DEF registerSocket, RegisterWorld, RegisterOf
<1>2. r \in Realms BY <1>1, OfRealm
<1>3. PICK q \in Realms : q = r BY <1>2
<1>4. PICK v : v = RegisterWorld(s) OBVIOUS
<1> HIDE DEF r
<1>5. Works(q, World(q), v, grants, history.handled[q], history.declared[q])
 BY <1>1,<1>3,<1>4, RegisterServes DEF r
<1> QED BY <1>1,<1>3,<1>4,<1>5, HandlerStep

LEMMA AckServing ==
  ASSUME Types, Serving, NEW s \in Sockets, acknowledgeSocketEvent(s)
  PROVE  Serving' /\ Typed /\ Steady
<1> DEFINE r == grants[sockets[s].grant].realm
<1>1. /\ sockets[s].phase = "registered" /\ sockets[s].ack # 0 /\ UNCHANGED <<setting, grants, history>>
      /\ Commit(r, AckWorld(s)) BY Zenon DEF acknowledgeSocketEvent, AckWorld, AckOf
<1>2. r \in Realms BY <1>1, OfRealm
<1>3. PICK q \in Realms : q = r BY <1>2
<1>4. PICK v : v = AckWorld(s) OBVIOUS
<1> HIDE DEF r
<1>5. Works(q, World(q), v, grants, history.handled[q], history.declared[q]) BY <1>1,<1>3,<1>4, AckServes DEF r
<1> QED BY <1>1,<1>3,<1>4,<1>5, HandlerStep

LEMMA CloseServing ==
  ASSUME Types, Serving, NEW s \in Sockets, closeDurableEventSocket(s)
  PROVE  Serving' /\ Typed /\ Steady
<1> DEFINE r == grants[sockets[s].grant].realm
<1>1. /\ sockets[s].phase # "closed" /\ UNCHANGED <<setting, grants, history>>
      /\ Commit(r, terminateSockets(World(r), {s})) BY Zenon DEF closeDurableEventSocket
<1>2. r \in Realms BY <1>1, OfRealm
<1>3. PICK q \in Realms : q = r BY <1>2
<1>4. PICK S \in SUBSET Sockets : S = {s} OBVIOUS
<1>5. PICK v : v = terminateSockets(World(q), S) OBVIOUS
<1>6. World(q) = [st |-> stream[q], so |-> sockets] /\ World(q) \in Worlds BY DEF World, Worlds, Types
<1>7. World(q).st = stream[q] /\ World(q).so = sockets BY <1>6
<1>8. Good(q, World(q).st, World(q).so, grants, history.handled[q], history.declared[q]) BY <1>7 DEF Serving
<1>9. \A t \in S : grants[World(q).so[t].grant].realm = q BY <1>3,<1>4,<1>7
<1> HIDE DEF r
<1>10. Works(q, World(q), v, grants, history.handled[q], history.declared[q])
 BY <1>5,<1>6,<1>8,<1>9, TerminateSome
<1>11. Commit(q, v) BY <1>1,<1>3,<1>4,<1>5
<1> QED BY <1>1,<1>10,<1>11, HandlerStep

LEMMA HandlesServing ==
  ASSUME Types, Serving, NEW s \in Sockets, PageHandles(s)
  PROVE  Serving' /\ Typed /\ Steady
<1> DEFINE r == grants[sockets[s].grant].realm
           q == sockets[s].sent
           x == [sockets[s] EXCEPT !.ack = q]
<1>1. /\ sockets[s].phase = "registered" /\ q > sockets[s].acked /\ UNCHANGED <<setting, stream, grants>>
      /\ sockets' = [sockets EXCEPT ![s].ack = q]
      /\ history' = [history EXCEPT !.handled[r] = @ \cup {q}] BY DEF PageHandles
<1>2. r \in Realms BY <1>1, OfRealm
<1>3. /\ sockets \in [Sockets -> Socket] /\ stream \in [Realms -> Stream] /\ history \in History /\ sockets[s] \in Socket
      /\ q \in Nat /\ sockets[s].acked \in Nat /\ stream[r] \in Stream BY <1>2 DEF Types, Socket
<1>4. history'.declared = history.declared /\ history'.handled = [history.handled EXCEPT ![r] = @ \cup {q}]
 BY <1>1,<1>3 DEF History
<1>5. /\ history'.handled[r] = history.handled[r] \cup {q} /\ \A p \in Realms : p # r => history'.handled[p] = history.handled[p]
      /\ history.handled[r] \in SUBSET Nat BY <1>2,<1>3,<1>4 DEF History
<1>6. /\ x \in Socket /\ x.phase = sockets[s].phase /\ x.grant = sockets[s].grant /\ x.epoch = sockets[s].epoch
      /\ x.sent = sockets[s].sent /\ x.acked = sockets[s].acked /\ x.ack = q BY <1>3 DEF Socket
<1>7. sockets' = [sockets EXCEPT ![s] = x] BY <1>1,<1>3
<1> HIDE DEF x
<1>8. sockets' \in [Sockets -> Socket] /\ sockets'[s] = x /\ \A t \in Sockets : t # s => sockets'[t] = sockets[t]
 BY <1>3,<1>6,<1>7
<1>9. s \in At(r, sockets, grants) BY <1>1 DEF At
<1> DEFINE hd == history.handled[r]
           dc == history.declared[r]
<1>10. /\ StreamFine(r, stream[r], grants) /\ Follows(sockets[s], stream[r], grants) /\ InHand(sockets[s], stream[r], hd)
       /\ Accounted(stream[r], hd, dc) /\ \A t \in At(r, sockets, grants) : t = s
 BY <1>2,<1>9 DEF Serving, Good, Served
<1>11. q \in stream[r].kept /\ \A p \in stream[r].kept : q <= p
 <2>1. sockets[s].sent # sockets[s].acked BY <1>1,<1>3
 <2> QED BY <1>10,<2>1 DEF InHand
<1>12. Accounted(stream[r], hd \cup {q}, dc)
 <2>1. \A p \in 1 .. q - 1 : p \in hd \cup dc
  <3>1. ASSUME NEW p \in 1 .. q - 1 PROVE p \in hd \cup dc
   <4>1. stream[r].next \in Nat /\ q < stream[r].next /\ stream[r].kept \subseteq Nat
    <5>1. stream[r].next \in Nat /\ stream[r].acked \in Nat /\ stream[r].kept \subseteq stream[r].acked + 1 .. stream[r].next - 1
     <6>1. stream[r].next \in Nat /\ stream[r].acked \in Nat BY <1>3 DEF Stream
     <6>2. stream[r].kept \subseteq stream[r].acked + 1 .. stream[r].next - 1 BY <1>10 DEF StreamFine
     <6> QED BY <6>1,<6>2
    <5>2. q \in stream[r].kept BY <1>11
    <5> HIDE DEF q, r
    <5> QED BY <5>1,<5>2
   <4>2. p \in 1 .. stream[r].next - 1 /\ ~(q <= p)
    <5> HIDE DEF q, r
    <5> QED BY <1>3,<4>1
   <4>3. p \in stream[r].kept \cup hd \cup dc BY <1>10,<4>2 DEF Accounted
   <4> HIDE DEF hd, dc
   <4> QED BY <1>11,<4>2,<4>3
  <3> QED BY <3>1
 <2>2. (\A p \in 1 .. stream[r].next - 1 : p \in stream[r].kept \cup hd \cup dc) /\ \A p \in hd : 1 .. p - 1 \subseteq hd \cup dc
  BY <1>10 DEF Accounted
 <2> HIDE DEF hd, dc, q
 <2> QED BY <2>1,<2>2 DEF Accounted
<1>13. Good(r, stream[r], sockets', grants, history'.handled[r], history'.declared[r])
 <2>1. At(r, sockets', grants) = At(r, sockets, grants) BY <1>6,<1>8 DEF At
 <2>2. Follows(x, stream[r], grants) BY <1>6,<1>10 DEF Follows
 <2>3. InHand(x, stream[r], hd \cup {q}) BY <1>6,<1>11 DEF InHand
 <2>4. Served(r, stream[r], sockets', grants, hd \cup {q}) BY <1>8,<1>10,<2>1,<2>2,<2>3 DEF Served
 <2> QED BY <1>4,<1>5,<1>10,<1>12,<2>4 DEF Good
<1>14. ASSUME NEW p \in Realms, p # r
       PROVE  Good(p, stream[p], sockets', grants, history'.handled[p], history'.declared[p])
 <2>1. Good(p, stream[p], sockets, grants, history.handled[p], history.declared[p]) BY DEF Serving
 <2>2. At(p, sockets', grants) \subseteq At(p, sockets, grants)
       /\ \A t \in At(p, sockets', grants) : sockets'[t] = sockets[t] BY <1>6,<1>8,<1>14 DEF At
 <2>3. Good(p, stream[p], sockets', grants, history.handled[p], history.declared[p]) BY <2>1,<2>2 DEF Good, Served
 <2> QED BY <1>4,<1>5,<1>14,<2>3
<1>15. \A t \in Sockets : SocketFine(sockets'[t], grants)
 <2>1. SocketFine(x, grants) BY <1>1,<1>6 DEF SocketFine, Serving
 <2> QED BY <1>8,<2>1 DEF Serving
<1>16. Serving' BY <1>1,<1>13,<1>14,<1>15 DEF Serving
<1> QED BY <1>1,<1>3,<1>8,<1>16 DEF Typed, Steady, Frame

\* (after stream' is known) the loss of what expired is declared
LEMMA GappedHistory ==
  ASSUME history \in History, NEW r \in Realms, stream'[r] \in Stream
  PROVE  /\ Gapped(r) \in History
         /\ Gapped(r).declared[r] = history.declared[r] \cup stream'[r].gap.first .. stream'[r].gap.last
         /\ \A q \in Realms \ {r} : Gapped(r).declared[q] = history.declared[q]
         /\ Gapped(r).handled = history.handled /\ Gapped(r).overlapped = history.overlapped
         /\ Gapped(r).forgotten = history.forgotten /\ Gapped(r).taught = history.taught
         /\ Gapped(r).crossed = history.crossed
<1>1. PICK a \in Nat, b \in Nat : a = stream'[r].gap.first /\ b = stream'[r].gap.last BY DEF Stream
<1>2. a .. b \in SUBSET Nat OBVIOUS
<1>3. PICK D \in [Realms -> SUBSET Nat] : D = [history.declared EXCEPT ![r] = @ \cup a .. b] BY <1>2 DEF History
<1>4. Gapped(r) = [history EXCEPT !.declared = D] BY <1>1,<1>3 DEF Gapped
<1>5. D[r] = history.declared[r] \cup a .. b /\ \A q \in Realms \ {r} : D[q] = history.declared[q]
 BY <1>3 DEF History
<1>6. Gapped(r).declared = D BY <1>4 DEF History
<1> QED BY <1>1,<1>4,<1>5,<1>6 DEF History

LEMMA AlarmServing ==
  ASSUME Types, Serving, NEW r \in Realms, alarm(r)
  PROVE  Serving' /\ Typed /\ Steady /\ history' \in History
<1>1. Commit(r, AlarmWorld(r)) /\ history' = Gapped(r) /\ UNCHANGED <<setting, grants>>
 BY Zenon DEF alarm, AlarmWorld
<1>2. PICK v : v = AlarmWorld(r) OBVIOUS
<1>3. Works(r, World(r), v, grants, history.handled[r], history.declared[r] \cup v.st.gap.first .. v.st.gap.last)
 BY <1>2, AlarmServes
<1>4. stream'[r] = v.st /\ v.st \in Stream BY <1>1,<1>2,<1>3 DEF Commit, Types, Works, Worlds
<1>5. /\ history' \in History /\ history'.handled = history.handled
      /\ history'.declared[r] = history.declared[r] \cup v.st.gap.first .. v.st.gap.last
      /\ \A q \in Realms \ {r} : history'.declared[q] = history.declared[q] BY <1>1,<1>4, GappedHistory DEF Types
<1>6. Works(r, World(r), v, grants, history'.handled[r], history'.declared[r]) BY <1>3,<1>5
<1> QED BY <1>1,<1>2,<1>5,<1>6, HandlerStep

LEMMA ApplyServing ==
  ASSUME Types, Serving, NEW r \in Realms, Commit(r, applyBindingNotification(r, posting[r])),
         UNCHANGED <<setting, grants, history>>
  PROVE  /\ Serving' /\ Typed /\ stream'[r].receipts = stream[r].receipts
         /\ \A q \in Realms : q # r => stream'[q] = stream[q]
         /\ IF Stale(stream[r], posting[r]) THEN stream'[r].rev = stream[r].rev /\ stream'[r].moved = stream[r].moved
            ELSE stream'[r].rev = posting[r].rev /\ (stream'[r].moved <=> posting[r].to # r)
<1>1. PICK n \in Notice : n = posting[r] BY DEF Types
<1>2. PICK v : v = applyBindingNotification(r, n) OBVIOUS
<1>3. /\ v \in Worlds /\ Good(r, v.st, v.so, grants, history.handled[r], history.declared[r])
      /\ Apart(r, sockets, v.so, grants) /\ v.st.kept = stream[r].kept
      /\ v.st.receipts = stream[r].receipts
      /\ IF Stale(stream[r], n) THEN v.st.rev = stream[r].rev /\ v.st.moved = stream[r].moved
         ELSE v.st.rev = n.rev /\ (v.st.moved <=> n.to # r) BY <1>2, ApplyServes
<1>4. Cardinality(v.st.kept) <= setting.retained /\ GrantsFine(grants) BY <1>3 DEF Serving
<1>5. Commit(r, v) BY <1>1,<1>2
<1>6. /\ ServingWith(grants) /\ Typed
      /\ stream'[r] = v.st /\ \A q \in Realms : q # r => stream'[q] = stream[q] BY <1>3,<1>4,<1>5, Elsewhere
<1>7. Serving' BY <1>4,<1>6, ServingNext
<1> QED BY <1>1,<1>3,<1>6,<1>7

\* Grants keep their realm and revision, and what was issued stays issued.
GrantsKept == \A g \in Grants : /\ grants'[g].realm = grants[g].realm /\ grants'[g].rev = grants[g].rev
                                /\ grants'[g].status # "none" <=> grants[g].status # "none"

\* A grant in use ends: what its status becomes
LEMMA GrantEnds ==
  ASSUME grants \in [Grants -> Grant], NEW g \in Grants, NEW status \in {"expired", "revoked"}, grants[g].status = "active",
         grants' = [grants EXCEPT ![g].status = status]
  PROVE  /\ grants' \in [Grants -> Grant] /\ GrantsKept
         /\ grants'[g].status = status /\ \A h \in Grants : h # g => grants'[h] = grants[h]
<1>1. grants[g] \in Grant OBVIOUS
<1>2. PICK k : k = [grants[g] EXCEPT !.status = status] OBVIOUS
<1>3. k \in Grant /\ k.status = status /\ k.realm = grants[g].realm /\ k.rev = grants[g].rev
 BY <1>1,<1>2 DEF Grant
<1>4. grants' = [grants EXCEPT ![g] = k] BY <1>2
<1>5. grants' \in [Grants -> Grant] /\ grants'[g] = k /\ \A h \in Grants : h # g => grants'[h] = grants[h]
 BY <1>3,<1>4
<1> QED BY <1>3,<1>5 DEF GrantsKept

LEMMA ExpireServing ==
  ASSUME Types, Serving, NEW g \in Grants, GrantExpires(g)
  PROVE  Serving' /\ Typed /\ Steady /\ grants' \in [Grants -> Grant] /\ GrantsKept
<1>1. PICK status \in {"expired", "revoked"} : status = "expired" OBVIOUS
<1>2. /\ grants[g].status = "active" /\ grants' = [grants EXCEPT ![g].status = status]
      /\ UNCHANGED <<setting, stream, sockets, history>> /\ grants \in [Grants -> Grant]
      /\ stream \in [Realms -> Stream] /\ sockets \in [Sockets -> Socket] BY <1>1 DEF GrantExpires, Types
<1>3. /\ grants' \in [Grants -> Grant] /\ GrantsKept
      /\ grants'[g].status = status /\ \A h \in Grants : h # g => grants'[h] = grants[h] BY <1>2, GrantEnds
<1>4. ASSUME NEW q \in Realms
      PROVE  /\ Good(q, stream[q], sockets, grants', history.handled[q], history.declared[q])
             /\ \A s \in Sockets : SocketFine(sockets[s], grants')
 <2>1. /\ Good(q, stream[q], sockets, grants, history.handled[q], history.declared[q])
       /\ \A s \in Sockets : SocketFine(sockets[s], grants) BY DEF Serving
 <2>2. \A h \in Grants : grants[h].status # "none" => grants'[h].status # "none" /\ grants'[h].realm = grants[h].realm
  BY <1>3 DEF GrantsKept
 <2>3. \A s \in At(q, sockets, grants) : grants'[sockets[s].grant].status \in {"active", "expired"}
  <3>1. \A s \in At(q, sockets, grants) : sockets[s].grant \in Grants /\ grants[sockets[s].grant].status \in {"active", "expired"}
   BY <2>1 DEF At, SocketFine, Good, Served, Follows
  <3> QED BY <1>1,<1>3,<3>1
 <2>4. PICK a \in Stream, b \in [Sockets -> Socket] : a = stream[q] /\ b = sockets BY <1>2
 <2>5. PICK gr1 : gr1 = grants' OBVIOUS
 <2>6. Good(q, a, b, gr1, history.handled[q], history.declared[q]) /\ \A s \in Sockets : SocketFine(b[s], gr1)
  BY <2>1,<2>2,<2>3,<2>4,<2>5, GrantsChange
 <2> QED BY <2>4,<2>5,<2>6
<1>5. GrantsFine(grants') BY <1>1,<1>3 DEF Serving, GrantsFine, GrantsKept
<1>6. Serving'
 <2>1. \A s \in Sockets : SocketFine(sockets[s], grants')
  <3>1. Realms # {} BY HomeAssumption
  <3> QED BY <1>4,<3>1
 <2> QED BY <1>2,<1>4,<1>5,<2>1 DEF Serving
<1>7. Typed /\ Steady BY <1>2 DEF Typed, Steady, Frame
<1> QED BY <1>3,<1>6,<1>7

LEMMA RevokeServing ==
  ASSUME Types, Serving, NEW g \in Grants, revokeGrant(g)
  PROVE  Serving' /\ Typed /\ Steady /\ grants' \in [Grants -> Grant] /\ GrantsKept
<1> DEFINE r == grants[g].realm
           S == {s \in Registered(World(r), r) : World(r).so[s].grant = g}
           st == IF stream[r].holder = g THEN NoConsumer(stream[r]) ELSE stream[r]
           w == [st |-> st, so |-> sockets]
           hd == history.handled[r]
           dc == history.declared[r]
<1>1. PICK status \in {"expired", "revoked"} : status = "revoked" OBVIOUS
<1>2. /\ grants[g].status = "active" /\ grants' = [grants EXCEPT ![g].status = status]
      /\ UNCHANGED <<setting, history>> /\ grants \in [Grants -> Grant]
      /\ stream \in [Realms -> Stream] /\ sockets \in [Sockets -> Socket] BY <1>1 DEF revokeGrant, Types
<1>3. /\ grants' \in [Grants -> Grant] /\ GrantsKept
      /\ grants'[g].status = status /\ \A h \in Grants : h # g => grants'[h] = grants[h] BY <1>2, GrantEnds
<1>4. r \in Realms BY <1>2 DEF Serving, GrantsFine
<1>5. World(r).st = stream[r] /\ World(r).so = sockets /\ World(r) = [st |-> stream[r], so |-> sockets]
 BY DEF World
<1>6. Commit(r, terminateSockets(w, S))
 <2>1. Commit(r, terminateSockets([World(r) EXCEPT !.st = st], S)) BY <1>5 DEF revokeGrant
 <2>2. [World(r) EXCEPT !.st = st] = w
  <3> HIDE DEF st
  <3> QED BY <1>5
 <2> QED BY <2>1,<2>2
<1>7. stream[r] \in Stream /\ st \in Stream /\ Frame(stream[r], st) /\ st.kept = stream[r].kept
 <2>1. stream[r] \in Stream BY <1>2,<1>4
 <2>2. CASE stream[r].holder = g BY <2>1,<2>2, Names
 <2>3. CASE stream[r].holder # g BY <2>1,<2>3 DEF Frame
 <2> QED BY <2>1,<2>2,<2>3
<1>8. w \in Worlds /\ w.st = st /\ w.so = sockets /\ w = [st |-> w.st, so |-> w.so]
 <2> HIDE DEF st
 <2> QED BY <1>2,<1>7 DEF Worlds
<1>9. S \in SUBSET Sockets /\ S = {s \in At(r, sockets, grants) : sockets[s].grant = g} BY <1>5 DEF Registered, At
<1>10. /\ Good(r, stream[r], sockets, grants, hd, dc) /\ StreamFine(r, stream[r], grants) /\ Accounted(stream[r], hd, dc)
       /\ \A s \in At(r, sockets, grants) : Follows(sockets[s], stream[r], grants)
 BY <1>4 DEF Serving, Good, Served
<1> DEFINE v == terminateSockets(w, S)
<1>11. Works(r, w, v, grants, hd, dc) /\ \A s \in At(r, v.so, grants) : v.so[s].grant # g
 <2>1. CASE stream[r].holder = g
  <3>1. At(r, sockets, grants) \subseteq S BY <1>9,<1>10,<2>1 DEF Follows
  <3>2. StreamFine(r, st, grants) /\ Accounted(st, hd, dc)
   BY <1>7,<1>10,<2>1 DEF StreamFine, Accounted, NoConsumer, Stream
  <3> HIDE DEF w, S, st, hd, dc
  <3> HIDE DEF r
  <3>3. At(r, w.so, grants) \subseteq S /\ StreamFine(r, w.st, grants) /\ Accounted(w.st, hd, dc)
   BY <1>8,<3>1,<3>2
  <3>4. PICK u : u = terminateSockets(w, S) OBVIOUS
  <3>5. /\ u \in Worlds /\ Good(r, u.st, u.so, grants, hd, dc) /\ Frame(w.st, u.st)
        /\ u.st.kept = w.st.kept /\ Apart(r, w.so, u.so, grants) /\ At(r, u.so, grants) = {}
   <4>1. Disconnected(r, w, terminateSockets(w, S), hd, dc) BY <1>8,<1>9,<3>3, TerminateAll
   <4> QED BY <3>4,<4>1 DEF Disconnected
  <3>6. v = u BY <3>4
  <3> HIDE DEF v
  <3> QED BY <3>5,<3>6 DEF Works
 <2>2. CASE stream[r].holder # g
  <3>1. S = {} BY <1>9,<1>10,<2>2 DEF Follows
  <3>2. v = w
   <4>1. [s \in Sockets |-> IF s \in S THEN NoSocket ELSE w.so[s]] = sockets
    <5>1. \A s \in Sockets : s \notin S BY <3>1
    <5> HIDE DEF S, w
    <5> QED BY <1>2,<1>8,<5>1
   <4>2. ~\E s \in S : Holds(w, s) BY <3>1
   <4> HIDE DEF S, w, st
   <4>3. terminateSockets(w, S) = [st |-> w.st, so |-> sockets] BY <4>1,<4>2 DEF terminateSockets
   <4> QED BY <1>8,<4>3
  <3>3. Good(r, w.st, w.so, grants, hd, dc) BY <1>8,<1>10,<2>2
  <3>4. Works(r, w, w, grants, hd, dc)
   <4> HIDE DEF w
   <4> QED BY <1>8,<3>3 DEF Works, Frame, Apart
  <3>5. \A s \in At(r, w.so, grants) : w.so[s].grant # g
   <4>1. \A s \in At(r, sockets, grants) : sockets[s].grant # g BY <1>10,<2>2 DEF Follows
   <4> QED BY <1>8,<4>1
  <3> HIDE DEF v, w
  <3> QED BY <3>2,<3>4,<3>5
 <2> QED BY <2>1,<2>2
<1> HIDE DEF v, w, st, S, r
<1>12. /\ v \in Worlds /\ Good(r, v.st, v.so, grants, hd, dc) /\ Frame(stream[r], v.st)
       /\ v.st.kept \subseteq stream[r].kept /\ Apart(r, sockets, v.so, grants) /\ Commit(r, v)
 BY <1>6,<1>7,<1>8,<1>11 DEF Works, Frame, v
<1>13. Cardinality(v.st.kept) <= setting.retained
 <2>1. Cardinality(stream[r].kept) <= setting.retained /\ setting \in Settings BY <1>4 DEF Serving, Types
 <2> QED BY <1>7,<1>10,<1>12,<2>1, CardinalityShrinks
<1>14. /\ ServingWith(grants) /\ Typed
       /\ stream'[r] = v.st /\ \A q \in Realms : q # r => stream'[q] = stream[q]
       /\ sockets' = v.so BY <1>2,<1>4,<1>12,<1>13, Elsewhere
<1>15. Steady BY <1>12,<1>14 DEF Steady, Frame
<1>16. ASSUME NEW q \in Realms
       PROVE  /\ Good(q, stream'[q], sockets', grants', history'.handled[q], history'.declared[q])
              /\ \A s \in Sockets : SocketFine(sockets'[s], grants')
 <2>1. /\ Good(q, stream'[q], sockets', grants, history'.handled[q], history'.declared[q])
       /\ \A s \in Sockets : SocketFine(sockets'[s], grants) BY <1>14 DEF ServingWith
 <2>2. \A h \in Grants : grants[h].status # "none" => grants'[h].status # "none" /\ grants'[h].realm = grants[h].realm
  BY <1>3 DEF GrantsKept
 <2>3. \A s \in At(q, sockets', grants) : grants'[sockets'[s].grant].status \in {"active", "expired"}
  <3>1. \A s \in At(q, sockets', grants) : sockets'[s].grant \in Grants /\ grants[sockets'[s].grant].status \in {"active", "expired"}
   BY <2>1 DEF At, SocketFine, Good, Served, Follows
  <3>2. \A s \in At(q, sockets', grants) : sockets'[s].grant # g
   <4>1. CASE q = r BY <1>11,<1>14,<4>1
   <4>2. CASE q # r BY <4>2 DEF At, r
   <4> QED BY <4>1,<4>2
  <3> QED BY <1>3,<3>1,<3>2
 <2>4. PICK a \in Stream, b \in [Sockets -> Socket] : a = stream'[q] /\ b = sockets' BY <1>14 DEF Typed
 <2>5. PICK gr1 : gr1 = grants' OBVIOUS
 <2>6. Good(q, a, b, gr1, history'.handled[q], history'.declared[q]) /\ \A s \in Sockets : SocketFine(b[s], gr1)
  BY <2>1,<2>2,<2>3,<2>4,<2>5, GrantsChange
 <2> QED BY <2>4,<2>5,<2>6
<1>17. GrantsFine(grants') BY <1>1,<1>3 DEF Serving, GrantsFine, GrantsKept
<1>18. ServingWith(grants')
 <2>1. Realms # {} BY HomeAssumption
 <2> QED BY <1>14,<1>16,<2>1 DEF ServingWith
<1>19. Serving' BY <1>2,<1>17,<1>18, ServingNext
<1> QED BY <1>3,<1>14,<1>15,<1>19

\* History k is history h but for what it remembers as taught, and forgets F.
KeepsHistory(k, h, F) ==
  /\ k \in History /\ k.handled = h.handled /\ k.declared = h.declared
  /\ k.overlapped = h.overlapped /\ k.crossed = h.crossed /\ k.forgotten = F
StillForgotten(r, rev, h) == IF Shared /\ stream'[r].rev = rev THEN h.forgotten \ {r} ELSE h.forgotten

LEMMA RememberedHistory ==
  ASSUME NEW h \in History, NEW r \in Realms, NEW rev
  PROVE  KeepsHistory(Remembered(r, rev, h), h, StillForgotten(r, rev, h))
BY DEF Remembered, History, KeepsHistory, StillForgotten

LEMMA TaughtHistory ==
  ASSUME NEW h \in History, NEW r \in Realms, NEW rev
  PROVE  KeepsHistory(Taught(r, rev, h), h, h.forgotten)
BY DEF Taught, History, KeepsHistory

\* A stream after it took over revision rev of the binding, if it is newer
Bound(r, rev) ==
  /\ stream'[r].receipts = stream[r].receipts
  /\ \A q \in Realms : q # r => stream'[q] = stream[q]
  /\ IF Shared THEN stream'[r].rev = rev /\ (stream'[r].moved => stream[r].moved /\ rev = stream[r].rev)
     ELSE stream'[r].rev = stream[r].rev /\ stream'[r].moved = stream[r].moved

\* A grant g issued for realm r at revision rev takes the place of the others.
Replaces(g, r, rev) ==
  \A h \in Grants : IF h = g THEN grants'[h] = [status |-> "active", realm |-> r, rev |-> rev]
                    ELSE /\ grants'[h].realm = grants[h].realm /\ grants'[h].rev = grants[h].rev
                         /\ grants'[h].status # "none" <=> grants[h].status # "none"
                         /\ grants[h].realm = r => grants'[h].status # "active"
                         /\ grants[h].realm # r => grants'[h].status = grants[h].status

Regranted(g, r, rev, old) ==
  [h \in Grants |-> IF h = g THEN [status |-> "active", realm |-> r, rev |-> rev]
                    ELSE IF h \in old THEN [grants[h] EXCEPT !.status = "replaced"]
                    ELSE grants[h]]
LEMMA Replacing ==
  ASSUME grants \in [Grants -> Grant], NEW g \in Grants, NEW r \in Realms, NEW rev \in Nat, NEW old,
         old = {h \in Grants : grants[h].realm = r /\ grants[h].status \in {"active", "expired"}},
         grants' = Regranted(g, r, rev, old)
  PROVE  grants' \in [Grants -> Grant] /\ Replaces(g, r, rev)
<1>1. PICK k : k = [status |-> "active", realm |-> r, rev |-> rev] OBVIOUS
<1>2. k \in Grant BY <1>1 DEF Grant, SomeRealm
<1>3. PICK replaced \in {"none", "active", "expired", "replaced", "revoked"} : replaced = "replaced" OBVIOUS
<1>4. ASSUME NEW h \in Grants, h # g
      PROVE  /\ grants'[h] \in Grant /\ grants'[h].realm = grants[h].realm /\ grants'[h].rev = grants[h].rev
             /\ grants'[h].status # "none" <=> grants[h].status # "none"
             /\ grants[h].realm = r => grants'[h].status # "active"
             /\ grants[h].realm # r => grants'[h].status = grants[h].status
 <2>1. grants[h] \in Grant OBVIOUS
 <2>2. CASE h \in old
  <3>1. PICK m : m = [grants[h] EXCEPT !.status = replaced] OBVIOUS
  <3>2. m \in Grant /\ m.status = replaced /\ m.realm = grants[h].realm /\ m.rev = grants[h].rev
   BY <2>1,<3>1 DEF Grant
  <3>3. grants'[h] = m BY <1>3,<1>4,<2>2,<3>1 DEF Regranted
  <3> QED BY <1>3,<2>2,<3>2,<3>3
 <2>3. CASE h \notin old
  <3>1. grants'[h] = grants[h] BY <1>4,<2>3 DEF Regranted
  <3> QED BY <2>1,<2>3,<3>1
 <2> QED BY <2>2,<2>3
<1>5. grants'[g] = k BY <1>1 DEF Regranted
<1>6. grants' = [h \in Grants |-> grants'[h]] /\ \A h \in Grants : grants'[h] \in Grant
 BY <1>2,<1>4,<1>5 DEF Regranted
<1>7. grants' \in [Grants -> Grant] BY <1>6
<1> QED BY <1>1,<1>4,<1>5,<1>7 DEF Replaces

LEMMA ResetFine ==
  ASSUME NEW r, NEW st \in Stream, NEW gr, NEW hd \in SUBSET Nat, NEW dc \in SUBSET Nat, NEW resetBacklog \in BOOLEAN,
         StreamFine(r, st, gr), Accounted(st, hd, dc)
  PROVE  LET reset == IF resetBacklog THEN Reset(st) ELSE NoConsumer(st)
             dc1 == IF resetBacklog THEN dc \cup st.kept ELSE dc
         IN /\ reset \in Stream /\ StreamFine(r, reset, gr) /\ Accounted(reset, hd, dc1)
            /\ Frame(st, reset) /\ reset.kept \subseteq st.kept
<1>1. CASE ~resetBacklog
 <2>1. StreamFine(r, NoConsumer(st), gr) /\ Accounted(NoConsumer(st), hd, dc)
  BY DEF StreamFine, Accounted, NoConsumer, Stream
 <2>2. NoConsumer(st) \in Stream /\ Frame(st, NoConsumer(st)) /\ NoConsumer(st).kept = st.kept BY Names
 <2> QED BY <1>1,<2>1,<2>2
<1>2. CASE resetBacklog
 <2>1. NoConsumer(st) \in Stream BY Names
 <2>2. st.next \in Nat \ {0} /\ st.acked \in Nat /\ st.kept \in SUBSET Nat BY DEF Stream
 <2>3. PICK m \in Nat, K \in SUBSET Nat, gap \in [first : Nat, last : Nat] : m = st.next - 1 /\ K = {} /\ gap = NoGap
  <3>1. PICK m \in Nat : m = st.next - 1 BY <2>2
  <3>2. PICK gap \in [first : Nat, last : Nat] : gap = NoGap BY Names
  <3> QED BY <3>1,<3>2
 <2>4. PICK reset : reset = [NoConsumer(st) EXCEPT !.acked = m, !.kept = K, !.gap = gap] OBVIOUS
 <2>5. Reset(st) = reset BY <2>3,<2>4 DEF Reset
 <2>6. /\ reset \in Stream /\ reset.acked = m /\ reset.kept = K /\ reset.gap = gap /\ reset.next = NoConsumer(st).next
       /\ reset.holder = NoConsumer(st).holder /\ reset.ready = NoConsumer(st).ready
       /\ reset.rev = NoConsumer(st).rev /\ reset.moved = NoConsumer(st).moved /\ reset.receipts = NoConsumer(st).receipts
  BY <2>1,<2>4 DEF Stream
 <2>7. /\ NoConsumer(st).holder = None /\ ~NoConsumer(st).ready /\ NoConsumer(st).rev = st.rev /\ NoConsumer(st).moved = st.moved
       /\ NoConsumer(st).receipts = st.receipts /\ NoConsumer(st).next = st.next BY DEF NoConsumer, Stream
 <2>8. StreamFine(r, reset, gr)
  <3>1. reset.acked < reset.next BY <2>2,<2>3,<2>6,<2>7
  <3>2. reset.kept = {} /\ reset.gap = NoGap /\ reset.holder = None /\ ~reset.ready BY <2>3,<2>6,<2>7
  <3>3. Range(reset.receipts) \ {0} = 1 .. reset.next - 1 BY <2>6,<2>7 DEF StreamFine
  <3> QED BY <3>1,<3>2,<3>3 DEF StreamFine
 <2>9. Accounted(reset, hd, dc \cup st.kept)
  <3>1. reset.next = st.next /\ reset.kept = {} BY <2>3,<2>6,<2>7
  <3>2. \A q \in 1 .. st.next - 1 : q \in st.kept \cup hd \cup dc BY DEF Accounted
  <3>3. \A q \in hd : 1 .. q - 1 \subseteq hd \cup dc BY DEF Accounted
  <3> QED BY <3>1,<3>2,<3>3 DEF Accounted
 <2>10. Frame(st, reset) /\ reset.kept \subseteq st.kept BY <2>3,<2>6,<2>7 DEF Frame
 <2> QED BY <1>2,<2>5,<2>6,<2>8,<2>9,<2>10
<1> QED BY <1>1,<1>2

LEMMA IssueServing ==
  ASSUME Types, Serving, NEW g \in Grants, NEW resetBacklog \in BOOLEAN, issueGrant(g, resetBacklog),
         NEW r \in Realms, r = binding.realm
  PROVE  /\ Serving' /\ Typed /\ grants' \in [Grants -> Grant] /\ history' \in History
         /\ history'.overlapped = history.overlapped /\ history'.crossed = history.crossed
         /\ history'.forgotten = IF Shared THEN history.forgotten \ {r} ELSE history.forgotten
         /\ Bound(r, binding.rev) /\ (GrantsKept \/ Replaces(g, r, binding.rev))
<1> DEFINE w == World(r)
           bound == requireEffectiveBinding(stream[r], binding.rev)
           old == {h \in Grants : grants[h].realm = r /\ grants[h].status \in {"active", "expired"}}
           prior == {s \in Registered(w, r) : w.so[s].grant \in old}
           reset == IF resetBacklog THEN Reset(bound) ELSE NoConsumer(bound)
           hd == history.handled[r]
           dc == history.declared[r]
           dc1 == IF resetBacklog THEN dc \cup bound.kept ELSE dc
           h1 == IF resetBacklog THEN [history EXCEPT !.declared[r] = @ \cup bound.kept] ELSE history
<1>1. /\ w = [st |-> stream[r], so |-> sockets] /\ w \in Worlds /\ stream[r] \in Stream /\ sockets \in [Sockets -> Socket]
      /\ stream \in [Realms -> Stream] /\ w.st = stream[r] /\ w.so = sockets
      /\ hd \in SUBSET Nat /\ dc \in SUBSET Nat /\ history \in History /\ binding.rev \in Nat /\ grants \in [Grants -> Grant]
 BY DEF World, Worlds, Types, History, Target
<1>2. /\ Good(r, stream[r], sockets, grants, hd, dc) /\ GrantsFine(grants) /\ \A s \in Sockets : SocketFine(sockets[s], grants)
      /\ Cardinality(stream[r].kept) <= setting.retained /\ StreamFine(r, stream[r], grants) /\ setting \in Settings
 BY DEF Serving, Good, Types
<1>3. UNCHANGED setting /\ grants[g].status = "none" BY DEF issueGrant
<1>4. /\ bound \in Stream /\ (bound.ready => stream[r].ready)
      /\ bound.next = stream[r].next /\ bound.acked = stream[r].acked /\ bound.kept = stream[r].kept /\ bound.gap = stream[r].gap
      /\ bound.epoch = stream[r].epoch /\ bound.holder = stream[r].holder /\ bound.receipts = stream[r].receipts
      /\ Shared => bound.rev = binding.rev /\ (bound.moved => stream[r].moved /\ binding.rev = stream[r].rev)
      /\ ~Shared \/ binding.rev = stream[r].rev => bound = stream[r] BY <1>1, BindServes
<1>5. IF bound.gap # NoGap /\ ~resetBacklog
      THEN Commit(r, [w EXCEPT !.st = bound]) /\ UNCHANGED grants /\ history' = Remembered(r, binding.rev, history)
      ELSE /\ Commit(r, terminateSockets([w EXCEPT !.st = reset], prior))
           /\ grants' = [h \in Grants |->
                          IF h = g THEN [status |-> "active", realm |-> r, rev |-> binding.rev]
                          ELSE IF h \in old THEN [grants[h] EXCEPT !.status = "replaced"]
                          ELSE grants[h]]
           /\ history' = Remembered(r, binding.rev, h1) BY <1>1, Zenon DEF issueGrant
<1>6. Good(r, bound, sockets, grants, hd, dc)
 <2> HIDE DEF bound, hd, dc
 <2> QED BY <1>1,<1>2,<1>4, Rebound
<1> HIDE DEF w, bound
<1>7. ASSUME NEW v \in Worlds, Commit(r, v), v.st.receipts = bound.receipts, v.st.rev = bound.rev, v.st.moved = bound.moved,
             \A q \in Realms : q # r => stream'[q] = stream[q]
      PROVE  Bound(r, binding.rev) /\ stream'[r] = v.st
 <2>1. stream'[r] = v.st BY <1>1,<1>7 DEF Commit
 <2> QED BY <1>4,<1>7,<2>1 DEF Bound
<1>8. CASE bound.gap # NoGap /\ ~resetBacklog
 <2>1. PICK v : v = [st |-> bound, so |-> sockets] OBVIOUS
 <2>2. v \in Worlds /\ v.st = bound /\ v.so = sockets BY <1>1,<1>4,<2>1 DEF Worlds
 <2>3. Commit(r, v) /\ UNCHANGED grants /\ history' = Remembered(r, binding.rev, history)
  <3>1. [w EXCEPT !.st = bound] = v BY <1>1,<2>1
  <3> QED BY <1>5,<1>8,<3>1
 <2>4. /\ history' \in History /\ history'.handled = history.handled /\ history'.declared = history.declared
       /\ history'.overlapped = history.overlapped /\ history'.crossed = history.crossed
       /\ history'.forgotten = IF Shared /\ stream'[r].rev = binding.rev THEN history.forgotten \ {r} ELSE history.forgotten
  <3>1. KeepsHistory(history', history, StillForgotten(r, binding.rev, history)) BY <1>1,<2>3, RememberedHistory
  <3> QED BY <3>1 DEF KeepsHistory, StillForgotten
 <2>5. Good(r, v.st, v.so, grants, history'.handled[r], history'.declared[r]) /\ Apart(r, sockets, v.so, grants)
       /\ Cardinality(v.st.kept) <= setting.retained BY <1>2,<1>4,<1>6,<2>2,<2>4 DEF Apart
 <2>6. /\ ServingWith(grants) /\ Typed
       /\ stream'[r] = v.st /\ \A q \in Realms : q # r => stream'[q] = stream[q] BY <2>2,<2>3,<2>4,<2>5, Elsewhere
 <2>7. Serving' BY <1>2,<1>3,<2>3,<2>6, ServingNext
 <2>8. Bound(r, binding.rev) BY <1>7,<2>2,<2>3,<2>6
 <2>9. GrantsKept /\ grants' \in [Grants -> Grant] BY <1>1,<2>3 DEF GrantsKept
 <2>10. history'.forgotten = IF Shared THEN history.forgotten \ {r} ELSE history.forgotten BY <2>4,<2>8 DEF Bound
 <2> QED BY <2>4,<2>6,<2>7,<2>8,<2>9,<2>10
<1>9. CASE ~(bound.gap # NoGap /\ ~resetBacklog)
 <2> DEFINE v == terminateSockets([w EXCEPT !.st = reset], prior)
            w1 == [st |-> reset, so |-> sockets]
 <2>1. [w EXCEPT !.st = reset] = w1
  <3> HIDE DEF reset
  <3> QED BY <1>1
 <2>2. StreamFine(r, bound, grants) /\ Accounted(bound, hd, dc) BY <1>6 DEF Good
 <2>3. /\ reset \in Stream /\ StreamFine(r, reset, grants) /\ Accounted(reset, hd, dc1)
       /\ Frame(bound, reset) /\ reset.kept \subseteq bound.kept
  <3> HIDE DEF hd, dc
  <3> QED BY <1>1,<1>4,<2>2, ResetFine
 <2> HIDE DEF reset
 <2>4. w1 \in Worlds /\ w1.st = reset /\ w1.so = sockets BY <1>1,<2>3 DEF Worlds
 <2>5. At(r, sockets, grants) \subseteq prior /\ prior \subseteq Sockets
  <3>1. ASSUME NEW s \in At(r, sockets, grants) PROVE s \in prior
   <4>1. Follows(sockets[s], stream[r], grants) /\ SocketFine(sockets[s], grants) /\ sockets[s].phase = "registered"
    BY <1>2,<3>1 DEF Good, Served, At
   <4>2. sockets[s].grant \in old BY <3>1,<4>1 DEF Follows, SocketFine, At
   <4> QED BY <1>1,<3>1,<4>2 DEF Registered, At
  <3> QED BY <3>1 DEF Registered
 <2>6. PICK S \in SUBSET Sockets : S = prior BY <2>5
 <2>7. PICK u : u = terminateSockets(w1, S) OBVIOUS
 <2> HIDE DEF w1, prior
 <2>8. /\ u \in Worlds /\ Good(r, u.st, u.so, grants, hd, dc1) /\ Frame(w1.st, u.st)
       /\ u.st.kept = w1.st.kept /\ Apart(r, w1.so, u.so, grants) /\ At(r, u.so, grants) = {}
  <3> HIDE DEF dc1, hd
  <3>1. At(r, w1.so, grants) \subseteq S /\ StreamFine(r, w1.st, grants) /\ Accounted(w1.st, hd, dc1)
   BY <2>3,<2>4,<2>5,<2>6
  <3>2. Disconnected(r, w1, terminateSockets(w1, S), hd, dc1) BY <2>4,<3>1, TerminateAll
  <3> QED BY <2>7,<3>2 DEF Disconnected
 <2>9. v = u BY <2>1,<2>6,<2>7
 <2>10. /\ Commit(r, u) /\ history' = Remembered(r, binding.rev, h1)
        /\ grants' = [h \in Grants |-> IF h = g THEN [status |-> "active", realm |-> r, rev |-> binding.rev]
                                       ELSE IF h \in old THEN [grants[h] EXCEPT !.status = "replaced"] ELSE grants[h]]
  <3> HIDE DEF v, old, h1
  <3> QED BY <1>5,<1>9,<2>9 DEF v
 <2>11. /\ h1 \in History /\ h1.handled = history.handled /\ h1.declared[r] = dc1
        /\ \A q \in Realms \ {r} : h1.declared[q] = history.declared[q]
        /\ h1.overlapped = history.overlapped /\ h1.crossed = history.crossed /\ h1.forgotten = history.forgotten
  <3>1. CASE ~resetBacklog BY <1>1,<3>1
  <3>2. CASE resetBacklog
   <4>1. bound.kept \in SUBSET Nat BY <1>4 DEF Stream
   <4>2. PICK D \in [Realms -> SUBSET Nat] : D = [history.declared EXCEPT ![r] = @ \cup bound.kept]
    BY <1>1,<4>1 DEF History
   <4>3. D[r] = dc1 /\ \A q \in Realms \ {r} : D[q] = history.declared[q] BY <1>1,<3>2,<4>2 DEF History
   <4>4. h1 = [history EXCEPT !.declared = D] BY <3>2,<4>2
   <4>5. /\ h1 \in History /\ h1.handled = history.handled /\ h1.declared = D
         /\ h1.overlapped = history.overlapped /\ h1.crossed = history.crossed /\ h1.forgotten = history.forgotten
    <5> HIDE DEF h1
    <5> QED BY <1>1,<4>4 DEF History
   <4> QED BY <4>3,<4>5
  <3> QED BY <3>1,<3>2
 <2> HIDE DEF h1
 <2>12. /\ history' \in History /\ history'.handled = history.handled /\ history'.declared = h1.declared
       /\ history'.overlapped = history.overlapped /\ history'.crossed = history.crossed
       /\ history'.forgotten = IF Shared /\ stream'[r].rev = binding.rev THEN history.forgotten \ {r} ELSE history.forgotten
  <3>1. KeepsHistory(history', h1, StillForgotten(r, binding.rev, h1)) BY <2>10,<2>11, RememberedHistory
  <3> QED BY <2>11,<3>1 DEF KeepsHistory, StillForgotten
 <2>13. Good(r, u.st, u.so, grants, history'.handled[r], history'.declared[r]) /\ Apart(r, sockets, u.so, grants)
  BY <2>4,<2>8,<2>11,<2>12
 <2>14. Cardinality(u.st.kept) <= setting.retained
  <3>1. u.st.kept \subseteq stream[r].kept BY <1>4,<2>3,<2>4,<2>8
  <3> QED BY <1>1,<1>2,<3>1, CardinalityShrinks
 <2>15. /\ ServingWith(grants) /\ Typed /\ sockets' = u.so
        /\ stream'[r] = u.st /\ \A q \in Realms : q # r => stream'[q] = stream[q]
  BY <2>8,<2>10,<2>11,<2>12,<2>13,<2>14, Elsewhere
 <2>16. Bound(r, binding.rev)
  <3>1. u.st.receipts = bound.receipts /\ u.st.rev = bound.rev /\ u.st.moved = bound.moved
   BY <2>3,<2>4,<2>8 DEF Frame
  <3> QED BY <1>7,<2>8,<2>10,<2>15,<3>1
 <2>17. history'.forgotten = IF Shared THEN history.forgotten \ {r} ELSE history.forgotten
  BY <2>12,<2>16 DEF Bound
 <2>18. grants' \in [Grants -> Grant] /\ Replaces(g, r, binding.rev)
  <3> HIDE DEF old
  <3>1. old = {h \in Grants : grants[h].realm = r /\ grants[h].status \in {"active", "expired"}} BY DEF old
  <3>2. PICK n \in Nat : n = binding.rev BY <1>1
  <3>2a. PICK o : o = old OBVIOUS
  <3>3. grants' = Regranted(g, r, n, o) BY <2>10,<3>2,<3>2a DEF Regranted
  <3>4. o = {h \in Grants : grants[h].realm = r /\ grants[h].status \in {"active", "expired"}} BY <3>1,<3>2a
  <3>5. grants' \in [Grants -> Grant] /\ Replaces(g, r, n) BY <1>1,<3>3,<3>4, Replacing
  <3> QED BY <3>2,<3>5
 <2>19. ASSUME NEW q \in Realms
        PROVE  /\ Good(q, stream'[q], sockets', grants', history'.handled[q], history'.declared[q])
               /\ \A s \in Sockets : SocketFine(sockets'[s], grants')
  <3>1. /\ Good(q, stream'[q], sockets', grants, history'.handled[q], history'.declared[q])
        /\ \A s \in Sockets : SocketFine(sockets'[s], grants) BY <2>15 DEF ServingWith
  <3>2. \A h \in Grants : grants[h].status # "none" => h # g /\ grants'[h].status # "none" /\ grants'[h].realm = grants[h].realm
   BY <1>3,<2>18 DEF Replaces
  <3>3. \A s \in At(q, sockets', grants) : grants'[sockets'[s].grant].status \in {"active", "expired"}
   <4>1. CASE q = r BY <2>8,<2>15,<4>1
   <4>2. CASE q # r
    <5>1. ASSUME NEW s \in At(q, sockets', grants) PROVE grants'[sockets'[s].grant].status \in {"active", "expired"}
     <6>1. sockets'[s].grant \in Grants /\ grants[sockets'[s].grant].status \in {"active", "expired"}
           /\ grants[sockets'[s].grant].realm = q BY <3>1,<5>1 DEF At, SocketFine, Good, Served, Follows
     <6>2. sockets'[s].grant # g BY <1>3,<6>1
     <6> QED BY <2>18,<4>2,<6>1,<6>2 DEF Replaces
    <5> QED BY <5>1
   <4> QED BY <4>1,<4>2
  <3>4. PICK a \in Stream, b \in [Sockets -> Socket] : a = stream'[q] /\ b = sockets' BY <2>15 DEF Typed
  <3>5. PICK gr1 : gr1 = grants' OBVIOUS
  <3>6. Good(q, a, b, gr1, history'.handled[q], history'.declared[q]) /\ \A s \in Sockets : SocketFine(b[s], gr1)
   BY <3>1,<3>2,<3>3,<3>4,<3>5, GrantsChange
  <3> QED BY <3>4,<3>5,<3>6
 <2>20. GrantsFine(grants')
  <3>1. ASSUME NEW h \in Grants, grants'[h].status # "none" PROVE grants'[h].realm \in Realms
   BY <1>2,<2>18,<3>1 DEF GrantsFine, Replaces
  <3>2. ASSUME NEW h \in Grants, NEW k \in Grants, grants'[h].status = "active", grants'[k].status = "active",
               grants'[h].realm = grants'[k].realm
        PROVE  h = k
   <4>1. \A m \in Grants : m # g /\ grants'[m].status = "active" => grants[m].realm # r /\ grants[m].status = "active" /\ grants'[m].realm = grants[m].realm
    BY <2>18 DEF Replaces
   <4>2. grants'[g].realm = r BY <2>18 DEF Replaces
   <4> QED BY <1>2,<3>2,<4>1,<4>2 DEF GrantsFine
  <3> QED BY <3>1,<3>2 DEF GrantsFine
 <2>21. ServingWith(grants')
  <3>1. Realms # {} BY HomeAssumption
  <3> QED BY <2>15,<2>19,<3>1 DEF ServingWith
 <2>22. Serving' BY <1>3,<2>20,<2>21, ServingNext
 <2> QED BY <2>12,<2>15,<2>16,<2>17,<2>18,<2>22
<1> QED BY <1>8,<1>9

\* The answer of a stream to an append, and what the append leaves behind
AppendEffect(r, rev, e, current, answer) ==
  /\ history'.overlapped = history.overlapped /\ history'.crossed = history.crossed
  /\ history'.forgotten = IF current /\ Shared /\ stream'[r].rev = rev
                          THEN history.forgotten \ {r} ELSE history.forgotten
  /\ \A q \in Realms : q # r => stream'[q] = stream[q]
  /\ answer \in Outcomes
  /\ answer = "transition" <=> Receipt(r, e) = 0 /\ (~current \/ Obsolete(stream[r], rev))
  /\ Receipt(r, e) # 0 => answer = "committed"
  /\ IF answer = "committed" /\ Receipt(r, e) = 0
     THEN stream'[r].receipts = [stream[r].receipts EXCEPT ![e] = stream[r].next]
     ELSE stream'[r].receipts = stream[r].receipts
  /\ IF Shared /\ current /\ ~Obsolete(stream[r], rev) /\ Receipt(r, e) = 0
     THEN stream'[r].rev = rev /\ (stream'[r].moved => stream[r].moved /\ rev = stream[r].rev)
     ELSE stream'[r].rev = stream[r].rev /\ stream'[r].moved = stream[r].moved

LEMMA AppendServing ==
  ASSUME Types, Serving, NEW c \in Commands, append(c), NEW r \in Realms, NEW rev \in Nat, NEW e \in Events,
         commands[c].realm = r, commands[c].rev = rev, commands[c].event = e
  PROVE  /\ Serving' /\ Typed /\ history' \in History
         /\ AppendEffect(r, rev, e, Ready(r, rev), AppendAnswer(r, e, rev, Ready(r, rev)))
<1> DEFINE current == Ready(r, rev)
           answer == AppendAnswer(r, e, rev, current)
<1>1. /\ Commit(r, Appended(r, e, rev, current)) /\ UNCHANGED <<setting, grants>>
      /\ history' = IF current THEN Taught(r, rev, Remembered(r, rev, Gapped(r))) ELSE Gapped(r)
 BY Zenon DEF append
<1>2. PICK cur : cur = current OBVIOUS
<1>3. PICK v : v = Appended(r, e, rev, cur) OBVIOUS
<1>4. PICK ans : ans = AppendAnswer(r, e, rev, cur) OBVIOUS
<1>5. /\ v \in Worlds /\ Good(r, v.st, v.so, grants, history.handled[r], history.declared[r] \cup v.st.gap.first .. v.st.gap.last)
      /\ Apart(r, sockets, v.so, grants) /\ Cardinality(v.st.kept) <= setting.retained
      /\ ans \in Outcomes
      /\ ans = "transition" <=> Receipt(r, e) = 0 /\ (~cur \/ Obsolete(stream[r], rev))
      /\ Receipt(r, e) # 0 => ans = "committed"
      /\ IF ans = "committed" /\ Receipt(r, e) = 0
         THEN v.st.receipts = [stream[r].receipts EXCEPT ![e] = stream[r].next]
         ELSE v.st.receipts = stream[r].receipts
      /\ IF Shared /\ cur /\ ~Obsolete(stream[r], rev) /\ Receipt(r, e) = 0
         THEN v.st.rev = rev /\ (v.st.moved => stream[r].moved /\ rev = stream[r].rev)
         ELSE v.st.rev = stream[r].rev /\ v.st.moved = stream[r].moved
 <2>1. AppendResult(r, e, rev, cur, v, ans) BY <1>3,<1>4, AppendServes
 <2> QED BY <2>1 DEF AppendResult
<1> HIDE DEF current
<1>6. Commit(r, v) BY <1>1,<1>2,<1>3
<1>7. stream'[r] = v.st /\ v.st \in Stream BY <1>5,<1>6 DEF Commit, Types, Worlds
<1>8. /\ Gapped(r) \in History
      /\ Gapped(r).declared[r] = history.declared[r] \cup v.st.gap.first .. v.st.gap.last
      /\ \A q \in Realms \ {r} : Gapped(r).declared[q] = history.declared[q]
      /\ Gapped(r).handled = history.handled /\ Gapped(r).overlapped = history.overlapped
      /\ Gapped(r).forgotten = history.forgotten /\ Gapped(r).crossed = history.crossed
 BY <1>7, GappedHistory DEF Types
<1>9. /\ history' \in History /\ history'.handled = Gapped(r).handled /\ history'.declared = Gapped(r).declared
      /\ history'.overlapped = Gapped(r).overlapped /\ history'.crossed = Gapped(r).crossed
      /\ history'.forgotten = IF current /\ Shared /\ stream'[r].rev = rev
                              THEN Gapped(r).forgotten \ {r} ELSE Gapped(r).forgotten
 <2>1. CASE ~current BY <1>1,<1>8,<2>1
 <2>2. CASE current
  <3>1. PICK h \in History : h = Gapped(r) BY <1>8
  <3>2. PICK k : k = Remembered(r, rev, h) OBVIOUS
  <3>3. KeepsHistory(k, h, StillForgotten(r, rev, h)) BY <3>2, RememberedHistory
  <3>4. history' = Taught(r, rev, k) /\ k \in History BY <1>1,<2>2,<3>1,<3>2,<3>3 DEF KeepsHistory
  <3>5. KeepsHistory(history', k, k.forgotten) BY <3>4, TaughtHistory
  <3> QED BY <2>2,<3>1,<3>3,<3>5 DEF KeepsHistory, StillForgotten
 <2> QED BY <2>1,<2>2
<1>10. Good(r, v.st, v.so, grants, history'.handled[r], history'.declared[r]) BY <1>5,<1>8,<1>9
<1>11. /\ ServingWith(grants) /\ Typed /\ \A q \in Realms : q # r => stream'[q] = stream[q]
 BY <1>5,<1>6,<1>8,<1>9,<1>10, Elsewhere
<1>12. Serving'
 <2>1. GrantsFine(grants) BY DEF Serving
 <2> QED BY <1>1,<1>11,<2>1, ServingNext
<1>13. answer = ans BY <1>2,<1>4
<1> HIDE DEF answer
<1>14. /\ answer \in Outcomes
       /\ answer = "transition" <=> Receipt(r, e) = 0 /\ (~current \/ Obsolete(stream[r], rev))
       /\ Receipt(r, e) # 0 => answer = "committed"
       /\ IF answer = "committed" /\ Receipt(r, e) = 0
          THEN stream'[r].receipts = [stream[r].receipts EXCEPT ![e] = stream[r].next]
          ELSE stream'[r].receipts = stream[r].receipts
       /\ IF Shared /\ current /\ ~Obsolete(stream[r], rev) /\ Receipt(r, e) = 0
          THEN stream'[r].rev = rev /\ (stream'[r].moved => stream[r].moved /\ rev = stream[r].rev)
          ELSE stream'[r].rev = stream[r].rev /\ stream'[r].moved = stream[r].moved BY <1>2,<1>5,<1>7,<1>13
<1> QED BY <1>8,<1>9,<1>11,<1>12,<1>14 DEF current, answer, AppendEffect

-----------------------------------------------------------------------------
(* Informed, from step to step                                               *)

\* Streams know as much of the binding as before.
SameBinding == \A q \in Realms : stream'[q].rev = stream[q].rev /\ stream'[q].moved = stream[q].moved

LEMMA SteadyBinding == (Steady => SameBinding) /\ (UNCHANGED grants => GrantsKept)
BY DEF Steady, SameBinding, Frame, GrantsKept

LEMMA InformedTypes ==
  ASSUME Types
  PROVE  /\ binding.rev \in Nat /\ setting.revisions \in Nat
         /\ \A r \in Realms : /\ stream[r].rev \in Nat /\ stream[r].moved \in BOOLEAN /\ interest[r].rev \in Nat
                              /\ notices[r].rev \in Nat /\ notices[r].prev \in Nat
                              /\ posting[r].rev \in Nat /\ posting[r].prev \in Nat
         /\ \A g \in Grants : grants[g].rev \in Nat
<1>1. binding.rev \in Nat /\ setting.revisions \in Nat BY SettingTypes DEF Types, Target
<1>2. ASSUME NEW r \in Realms
      PROVE  /\ stream[r].rev \in Nat /\ stream[r].moved \in BOOLEAN /\ interest[r].rev \in Nat
             /\ notices[r].rev \in Nat /\ notices[r].prev \in Nat
             /\ posting[r].rev \in Nat /\ posting[r].prev \in Nat
 <2>1. stream[r] \in Stream /\ interest[r] \in Interest /\ notices[r] \in Notice /\ posting[r] \in Notice
  BY DEF Types
 <2> QED BY <2>1 DEF Stream, Interest, Notice
<1>3. \A g \in Grants : grants[g].rev \in Nat BY DEF Types, Grant
<1> QED BY <1>1,<1>2,<1>3

LEMMA InformedStays ==
  ASSUME Types, Informed, UNCHANGED <<setting, binding, interest, notices, posting>>, SameBinding, GrantsKept,
         \A g \in Grants : grants[g].status # "none" => grants[g].realm \in Realms,
         history'.forgotten = history.forgotten
  PROVE  Informed'
<1>1. Shared' <=> Shared BY DEF Shared
<1>2. BindingFine' BY <1>1 DEF Informed, BindingInv, BindingFine
<1>3. ASSUME NEW r \in Realms PROVE RealmKnows(r)'
 BY <1>1 DEF Informed, BindingInv, RealmKnows, SameBinding, NoticeFine, Past
<1>4. ASSUME NEW g \in Grants PROVE GrantKnows(g)'
 BY <1>1 DEF Informed, BindingInv, GrantKnows, SameBinding, GrantsKept, Past
<1>5. ASSUME NEW r \in Realms PROVE MoveKnown(r)'
 BY <1>1 DEF Informed, MoveKnown, Issued, Announced, SameBinding, GrantsKept
<1> QED BY <1>2,<1>3,<1>4,<1>5 DEF Informed, BindingInv

\* advance: what a notice says of the move to the next revision
LEMMA NoticedFine ==
  ASSUME Types, Informed, NEW r \in Realms, NEW to \in SomeRealm
  PROVE  LET n == Noticed(r, to) IN
         /\ n \in Notice
         /\ n # NoNotice => /\ n.prev < n.rev
                            /\ (n = notices[r] \/ (n.rev = binding.rev + 1 /\ n.to = to))
         /\ notices[r] # NoNotice => n # NoNotice /\ n.prev = notices[r].prev
         /\ interest[r].rev # 0 => n # NoNotice /\ (notices[r] = NoNotice => n.prev = interest[r].rev)
<1> DEFINE n == Noticed(r, to)
<1>1. /\ binding.rev \in Nat /\ interest[r].rev \in Nat /\ notices[r] \in Notice
      /\ notices[r].prev \in Nat /\ notices[r].rev \in Nat BY InformedTypes DEF Types
<1>2. interest[r].rev <= binding.rev /\ (notices[r] # NoNotice => notices[r].prev < notices[r].rev /\ notices[r].rev <= binding.rev)
 BY DEF Informed, BindingInv, RealmKnows, NoticeFine, Past
<1>3. PICK next \in Nat : next = binding.rev + 1 BY <1>1
<1>4. \A m \in Notice : m.rev # 0 => m # NoNotice BY DEF NoNotice
<1>5. CASE interest[r].rev = 0
 <2>1. n = notices[r] BY <1>5 DEF Noticed
 <2> QED BY <1>1,<1>2,<1>5,<2>1
<1>6. CASE interest[r].rev # 0 /\ notices[r] # NoNotice
 <2>1. n = [notices[r] EXCEPT !.rev = next, !.to = to] BY <1>3,<1>6 DEF Noticed
 <2> HIDE DEF n
 <2>2. n \in Notice /\ n.prev = notices[r].prev /\ n.rev = next /\ n.to = to BY <1>1,<2>1 DEF Notice
 <2>3. next # 0 /\ n.prev < next BY <1>1,<1>2,<1>3,<1>6,<2>2
 <2>4. n # NoNotice BY <1>4,<2>2,<2>3
 <2>5. n \in Notice /\ n.prev < n.rev /\ n.rev = binding.rev + 1 /\ n.to = to /\ n # NoNotice /\ n.prev = notices[r].prev
  BY <1>3,<2>2,<2>3,<2>4
 <2> QED BY <1>6,<2>5 DEF n
<1>7. CASE interest[r].rev # 0 /\ notices[r] = NoNotice
 <2>1. n = [prev |-> interest[r].rev, rev |-> next, to |-> to] BY <1>3,<1>7 DEF Noticed
 <2> HIDE DEF n
 <2>2. n \in Notice /\ n.prev = interest[r].rev /\ n.rev = next /\ n.to = to BY <1>1,<2>1 DEF Notice
 <2>3. next # 0 /\ n.prev < next BY <1>1,<1>2,<1>3,<2>2
 <2>4. n # NoNotice BY <1>4,<2>2,<2>3
 <2>5. n \in Notice /\ n.prev < n.rev /\ n.rev = binding.rev + 1 /\ n.to = to /\ n # NoNotice /\ n.prev = interest[r].rev
  BY <1>3,<2>2,<2>3,<2>4
 <2> QED BY <1>7,<2>5 DEF n
<1> QED BY <1>5,<1>6,<1>7

LEMMA AdvanceInformed ==
  ASSUME Types, Informed, NEW to \in SomeRealm, advanceDurableEventBindings(to)
  PROVE  /\ Informed' /\ binding' \in Target /\ notices' \in [Realms -> Notice] /\ history' \in History
         /\ history'.handled = history.handled /\ history'.declared = history.declared
         /\ history'.overlapped = history.overlapped /\ history'.crossed = history.crossed
<1>1. /\ Shared /\ binding.rev < setting.revisions /\ binding' = [realm |-> to, rev |-> binding.rev + 1]
      /\ notices' = [r \in Realms |-> Noticed(r, to)]
      /\ UNCHANGED <<setting, interest, posting, stream, grants>> BY DEF advanceDurableEventBindings
<1> DEFINE F == {r \in Realms : notices[r] # NoNotice /\ interest[r].rev \notin {0, notices[r].prev}}
<1>2. history' = [history EXCEPT !.forgotten = @ \cup F] BY DEF advanceDurableEventBindings
<1>3. /\ history' \in History /\ history'.handled = history.handled /\ history'.declared = history.declared
      /\ history'.overlapped = history.overlapped /\ history'.crossed = history.crossed
      /\ history'.forgotten = history.forgotten \cup F
 <2>1. F \in SUBSET Realms /\ history \in History BY DEF Types
 <2> HIDE DEF F
 <2> QED BY <1>2,<2>1 DEF History
<1>4. binding.rev \in Nat /\ setting.revisions \in Nat BY InformedTypes
<1>5. binding' \in Target /\ binding'.rev = binding.rev + 1 /\ binding'.realm = to /\ binding'.rev <= setting.revisions /\ binding.rev >= 1
 BY <1>1,<1>4 DEF Target, Informed, BindingInv, BindingFine
<1>6. notices' \in [Realms -> Notice] BY <1>1, NoticedFine
<1>7. Shared' BY <1>1 DEF Shared
<1>8. BindingFine' BY <1>1,<1>4,<1>5,<1>7 DEF BindingFine
<1>9. \A realm : \A rev \in Nat : Past(realm, rev) => Past(realm, rev)' BY <1>4,<1>5 DEF Past
<1>10. \A n \in Notice : NoticeFine(n) => NoticeFine(n)' BY <1>9 DEF NoticeFine, Notice
<1>11. ASSUME NEW r \in Realms PROVE RealmKnows(r)' /\ MoveKnown(r)'
 <2>1. RealmKnows(r) /\ MoveKnown(r) BY DEF Informed, BindingInv
 <2>2. /\ stream[r].rev \in Nat /\ interest[r].rev \in Nat /\ notices[r] \in Notice /\ posting[r] \in Notice
       /\ notices'[r] = Noticed(r, to) BY <1>1, InformedTypes DEF Types
 <2>3. PICK n \in Notice : n = Noticed(r, to) BY NoticedFine
 <2>4. /\ n # NoNotice => /\ n.prev < n.rev
                           /\ (n = notices[r] \/ (n.rev = binding.rev + 1 /\ n.to = to))
       /\ notices[r] # NoNotice => n # NoNotice /\ n.prev = notices[r].prev
       /\ interest[r].rev # 0 => n # NoNotice /\ (notices[r] = NoNotice => n.prev = interest[r].rev)
  BY <2>3, NoticedFine
 <2>5. NoticeFine(n)'
  <3>1. CASE n = notices[r] BY <1>10,<2>1,<3>1 DEF RealmKnows
  <3>2. CASE n # NoNotice /\ n.rev = binding.rev + 1 /\ n.to = to BY <1>4,<1>5,<2>4,<3>2 DEF NoticeFine, Past
  <3>3. CASE n = NoNotice BY <3>3 DEF NoticeFine
  <3> QED BY <2>4,<3>1,<3>2,<3>3
 <2>6. RealmKnows(r)'
  <3>1. stream'[r].rev < binding'.rev /\ stream'[r].rev <= binding'.rev /\ interest'[r].rev <= binding'.rev
   BY <1>1,<1>4,<1>5,<2>1,<2>2 DEF RealmKnows
  <3>2. NoticeFine(posting[r])' BY <1>1,<1>10,<2>1,<2>2 DEF RealmKnows
  <3>3. NoticeFine(notices[r])' BY <2>2,<2>3,<2>5
  <3>4. posting'[r] # NoNotice => notices'[r] # NoNotice /\ notices'[r].prev = posting'[r].prev
   BY <1>1,<2>1,<2>2,<2>3,<2>4 DEF RealmKnows
  <3>5. stream'[r].rev # binding'.rev BY <1>1,<1>5,<2>2,<3>1
  <3> QED BY <1>7,<3>1,<3>2,<3>3,<3>4,<3>5 DEF RealmKnows
 <2>7. MoveKnown(r)'
  <3> SUFFICES ASSUME Issued(r)', ~stream'[r].moved, r \notin history'.forgotten
               PROVE  notices'[r] # NoNotice /\ notices'[r].prev = stream'[r].rev BY DEF MoveKnown, Announced
  <3>1. r \notin history.forgotten /\ r \notin F BY <1>3
  <3>2. Announced(r) BY <1>1,<2>1,<3>1 DEF MoveKnown, Issued
  <3>3. CASE notices[r] # NoNotice /\ notices[r].prev = stream[r].rev BY <1>1,<2>2,<2>3,<2>4,<3>3
  <3>4. CASE binding = [realm |-> r, rev |-> stream[r].rev] /\ interest[r].rev = stream[r].rev
   <4>1. stream[r].rev = binding.rev /\ interest[r].rev # 0 BY <1>4,<1>5,<3>4
   <4>2. notices[r] # NoNotice => notices[r].prev = interest[r].rev BY <3>1,<4>1
   <4>3. n # NoNotice /\ n.prev = interest[r].rev
    <5>1. CASE notices[r] = NoNotice BY <2>4,<4>1,<5>1
    <5>2. CASE notices[r] # NoNotice BY <2>4,<4>1,<4>2,<5>2
    <5> QED BY <5>1,<5>2
   <4> QED BY <1>1,<2>2,<2>3,<3>4,<4>3
  <3> QED BY <3>2,<3>3,<3>4 DEF Announced
 <2> QED BY <2>6,<2>7
<1>12. ASSUME NEW g \in Grants PROVE GrantKnows(g)'
 <2>1. GrantKnows(g) /\ grants[g].rev \in Nat BY InformedTypes DEF Informed, BindingInv
 <2> QED BY <1>1,<1>9,<2>1 DEF GrantKnows
<1>13. Informed' BY <1>8,<1>11,<1>12 DEF Informed, BindingInv
<1> QED BY <1>3,<1>5,<1>6,<1>13

LEMMA LapseInformed ==
  ASSUME Types, Informed, NEW r \in Realms, InterestLapses(r)
  PROVE  /\ Informed' /\ interest' \in [Realms -> Interest] /\ history' \in History
         /\ history'.handled = history.handled /\ history'.declared = history.declared
         /\ history'.overlapped = history.overlapped /\ history'.crossed = history.crossed
<1>1. /\ interest' = [interest EXCEPT ![r] = NoInterest] /\ history' = [history EXCEPT !.forgotten = @ \cup {r}]
      /\ UNCHANGED <<setting, binding, notices, posting, stream, grants>> /\ interest \in [Realms -> Interest]
      /\ history \in History BY DEF InterestLapses, Types
<1>2. NoInterest \in Interest /\ NoInterest.rev = 0 BY DEF NoInterest, Interest
<1>3. /\ history' \in History /\ history'.handled = history.handled /\ history'.declared = history.declared
      /\ history'.overlapped = history.overlapped /\ history'.crossed = history.crossed
      /\ history'.forgotten = history.forgotten \cup {r} BY <1>1 DEF History
<1>4. interest' \in [Realms -> Interest] /\ interest'[r].rev = 0 /\ \A q \in Realms : q # r => interest'[q] = interest[q]
 BY <1>1,<1>2
<1>5. Shared' <=> Shared BY <1>1 DEF Shared
<1>6. BindingFine' BY <1>1,<1>5 DEF Informed, BindingInv, BindingFine
<1>7. ASSUME NEW q \in Realms PROVE RealmKnows(q)'
 <2>1. interest'[q].rev <= binding.rev BY <1>4, InformedTypes DEF Informed, BindingInv, RealmKnows
 <2> QED BY <1>1,<1>5,<2>1 DEF Informed, BindingInv, RealmKnows, NoticeFine, Past
<1>8. ASSUME NEW g \in Grants PROVE GrantKnows(g)' BY <1>1,<1>5 DEF Informed, BindingInv, GrantKnows, Past
<1>9. ASSUME NEW q \in Realms PROVE MoveKnown(q)'
 BY <1>1,<1>3,<1>4,<1>5 DEF Informed, MoveKnown, Issued, Announced
<1>10. Informed' BY <1>6,<1>7,<1>8,<1>9 DEF Informed, BindingInv
<1> QED BY <1>3,<1>4,<1>10

LEMMA ClaimInformed ==
  ASSUME Types, Informed, NEW r \in Realms, claimDue(r)
  PROVE  Informed' /\ posting' \in [Realms -> Notice]
<1>1. /\ posting' = [posting EXCEPT ![r] = notices[r]] /\ posting \in [Realms -> Notice] /\ notices[r] \in Notice
      /\ UNCHANGED <<setting, binding, interest, notices, stream, grants, history>> /\ notices[r] # NoNotice
 BY DEF claimDue, Types
<1>2. posting' \in [Realms -> Notice] /\ posting'[r] = notices[r] /\ \A q \in Realms : q # r => posting'[q] = posting[q]
 BY <1>1
<1>3. Shared' <=> Shared BY <1>1 DEF Shared
<1>4. BindingFine' /\ (\A g \in Grants : GrantKnows(g)') /\ \A q \in Realms : MoveKnown(q)'
 BY <1>1,<1>3 DEF Informed, BindingInv, BindingFine, GrantKnows, Past, MoveKnown, Issued, Announced
<1>5. ASSUME NEW q \in Realms PROVE RealmKnows(q)'
 BY <1>1,<1>2,<1>3 DEF Informed, BindingInv, RealmKnows, NoticeFine, Past
<1> QED BY <1>2,<1>4,<1>5 DEF Informed, BindingInv

\* What a stream knows after a notice n came, whatever it did with it
Told(r, n) ==
  /\ \A q \in Realms : q # r => stream'[q] = stream[q]
  /\ IF Stale(stream[r], n) THEN stream'[r].rev = stream[r].rev /\ stream'[r].moved = stream[r].moved
     ELSE stream'[r].rev = n.rev /\ (stream'[r].moved <=> n.to # r)

\* The notice is sound: it says no more than the registry knows.
LEMMA ToldKnows ==
  ASSUME Types, Informed, NEW r \in Realms, posting[r] # NoNotice, Told(r, posting[r]),
         UNCHANGED <<setting, binding, grants>>,
         \A g \in Grants : grants[g].status # "none" => grants[g].realm \in Realms
  PROVE  /\ \A q \in Realms : stream'[q].rev <= binding.rev /\ stream[q].rev <= stream'[q].rev
         /\ \A q \in Realms : stream'[q].rev = binding.rev /\ stream'[q].moved => binding.realm # q
         /\ \A g \in Grants : GrantKnows(g)'
         /\ Shared /\ notices[r] # NoNotice /\ notices[r].prev = posting[r].prev
         /\ ~Stale(stream[r], posting[r]) => ~Issued(r)'
         /\ Shared /\ Issued(r) /\ ~stream[r].moved /\ posting[r].prev = stream[r].rev => ~Stale(stream[r], posting[r])
<1>1. /\ binding.rev \in Nat /\ posting[r] \in Notice /\ \A q \in Realms : stream[q].rev \in Nat
      /\ posting[r].prev \in Nat /\ posting[r].rev \in Nat /\ \A g \in Grants : grants[g].rev \in Nat
 BY InformedTypes DEF Types
<1>2. RealmKnows(r) /\ (\A q \in Realms : RealmKnows(q)) /\ \A g \in Grants : GrantKnows(g)
 BY DEF Informed, BindingInv
<1>3. /\ posting[r].prev < posting[r].rev /\ posting[r].rev <= binding.rev
      /\ posting[r].rev = binding.rev => posting[r].to = binding.realm
      /\ Shared /\ notices[r] # NoNotice /\ notices[r].prev = posting[r].prev
 BY <1>2 DEF RealmKnows, NoticeFine, Past
<1>4. ~Stale(stream[r], posting[r]) => stream[r].rev < posting[r].rev BY <1>1 DEF Stale
<1>5. ASSUME NEW q \in Realms
      PROVE  /\ stream'[q].rev <= binding.rev /\ stream[q].rev <= stream'[q].rev
             /\ stream'[q].rev = binding.rev /\ stream'[q].moved => binding.realm # q
 <2>1. /\ stream[q].rev <= binding.rev
       /\ stream[q].rev = binding.rev /\ stream[q].moved => binding.realm # q BY <1>2 DEF RealmKnows
 <2>2. CASE q # r \/ Stale(stream[r], posting[r])
  <3>1. stream'[q].rev = stream[q].rev /\ stream'[q].moved = stream[q].moved BY <2>2 DEF Told
  <3> QED BY <1>1,<2>1,<3>1
 <2>3. CASE q = r /\ ~Stale(stream[r], posting[r])
  <3>1. stream'[r].rev = posting[r].rev /\ (stream'[r].moved <=> posting[r].to # r) BY <2>3 DEF Told
  <3> QED BY <1>1,<1>3,<1>4,<2>3,<3>1
 <2> QED BY <2>2,<2>3
<1>6. ASSUME NEW g \in Grants PROVE GrantKnows(g)'
 <2> SUFFICES ASSUME grants[g].status # "none"
              PROVE  /\ Past(grants[g].realm, grants[g].rev)' /\ (Shared' => 1 <= grants[g].rev)
                     /\ grants[g].rev <= stream'[grants[g].realm].rev BY DEF GrantKnows
 <2>1. Past(grants[g].realm, grants[g].rev) /\ (Shared => 1 <= grants[g].rev) /\ grants[g].rev <= stream[grants[g].realm].rev
  BY <1>2 DEF GrantKnows
 <2>2. PICK q \in Realms : q = grants[g].realm OBVIOUS
 <2>3. stream[q].rev <= stream'[q].rev /\ stream'[q].rev <= binding.rev BY <1>5
 <2>4. grants[g].rev <= stream'[q].rev
  <3>1. stream'[q].rev \in Nat
   <4>1. CASE q # r \/ Stale(stream[r], posting[r]) BY <1>1,<4>1 DEF Told
   <4>2. CASE q = r /\ ~Stale(stream[r], posting[r]) BY <1>1,<4>2 DEF Told
   <4> QED BY <4>1,<4>2
  <3> QED BY <1>1,<2>1,<2>2,<2>3,<3>1
 <2>5. Past(grants[g].realm, grants[g].rev)' /\ (Shared' => Shared) BY <2>1 DEF Past, Shared
 <2> QED BY <2>1,<2>2,<2>4,<2>5
<1>7. ASSUME ~Stale(stream[r], posting[r]), Issued(r)' PROVE FALSE
 <2>1. PICK g \in Grants : grants[g].status # "none" /\ grants[g].realm = r /\ grants[g].rev = stream'[r].rev
  BY <1>7 DEF Issued
 <2>2. grants[g].rev <= stream[r].rev BY <1>2,<2>1 DEF GrantKnows
 <2>3. stream'[r].rev = posting[r].rev BY <1>7 DEF Told
 <2> QED BY <1>1,<1>4,<1>7,<2>1,<2>2,<2>3
<1>8. ASSUME Shared, Issued(r), ~stream[r].moved, posting[r].prev = stream[r].rev PROVE ~Stale(stream[r], posting[r])
 <2>1. PICK g \in Grants : grants[g].status # "none" /\ grants[g].realm = r /\ grants[g].rev = stream[r].rev
  BY <1>8 DEF Issued
 <2>2. 1 <= stream[r].rev BY <1>2,<1>8,<2>1 DEF GrantKnows
 <2> QED BY <1>1,<1>3,<1>8,<2>2 DEF Stale
<1> QED BY <1>3,<1>5,<1>6,<1>7,<1>8

LEMMA DeliverInformed ==
  ASSUME Types, Informed, NEW r \in Realms, deliverOne(r), Told(r, posting[r]),
         \A g \in Grants : grants[g].status # "none" => grants[g].realm \in Realms
  PROVE  /\ Informed' /\ interest' \in [Realms -> Interest] /\ notices' \in [Realms -> Notice]
         /\ posting' \in [Realms -> Notice]
<1>1. /\ posting[r] # NoNotice /\ UNCHANGED <<setting, binding, grants, history>>
      /\ posting' = [posting EXCEPT ![r] = NoNotice]
      /\ notices' = IF notices[r].rev = posting[r].rev THEN [notices EXCEPT ![r] = NoNotice] ELSE notices
      /\ interest' = IF interest[r].rev = posting[r].prev THEN [interest EXCEPT ![r] = NoInterest] ELSE interest
      /\ posting \in [Realms -> Notice] /\ notices \in [Realms -> Notice] /\ interest \in [Realms -> Interest]
 BY DEF deliverOne, Delivered, Types
<1>2. NoInterest \in Interest /\ NoInterest.rev = 0 /\ NoNotice \in Notice BY Names DEF NoInterest, Interest
<1>3. posting' \in [Realms -> Notice] /\ notices' \in [Realms -> Notice] /\ interest' \in [Realms -> Interest]
 BY <1>1,<1>2
<1>4. /\ posting'[r] = NoNotice /\ notices'[r] \in {notices[r], NoNotice}
      /\ interest'[r] = IF interest[r].rev = posting[r].prev THEN NoInterest ELSE interest[r]
      /\ \A q \in Realms : q # r => posting'[q] = posting[q] /\ notices'[q] = notices[q] /\ interest'[q] = interest[q]
 BY <1>1
<1>5. Shared' <=> Shared BY <1>1 DEF Shared
<1>6. /\ \A q \in Realms : stream'[q].rev <= binding.rev /\ stream[q].rev <= stream'[q].rev
      /\ \A q \in Realms : stream'[q].rev = binding.rev /\ stream'[q].moved => binding.realm # q
      /\ \A g \in Grants : GrantKnows(g)'
      /\ Shared /\ notices[r] # NoNotice /\ notices[r].prev = posting[r].prev
      /\ ~Stale(stream[r], posting[r]) => ~Issued(r)'
      /\ Shared /\ Issued(r) /\ ~stream[r].moved /\ posting[r].prev = stream[r].rev => ~Stale(stream[r], posting[r])
 BY <1>1, ToldKnows
<1>7. BindingFine' BY <1>1,<1>5 DEF Informed, BindingInv, BindingFine
<1>8. ASSUME NEW q \in Realms PROVE RealmKnows(q)'
 <2>1. RealmKnows(q) BY DEF Informed, BindingInv
 <2>2. interest'[q].rev <= binding.rev BY <1>2,<1>4,<2>1, InformedTypes DEF RealmKnows
 <2>3. NoticeFine(notices[q])' /\ NoticeFine(posting[q])' BY <1>1,<1>4,<2>1 DEF RealmKnows, NoticeFine, Past
 <2>4. posting'[q] # NoNotice => notices'[q] # NoNotice /\ notices'[q].prev = posting'[q].prev
  BY <1>4,<2>1 DEF RealmKnows
 <2> QED BY <1>1,<1>5,<1>6,<2>2,<2>3,<2>4 DEF RealmKnows
<1>9. ASSUME NEW q \in Realms, q # r PROVE MoveKnown(q)'
 <2>1. MoveKnown(q) /\ stream'[q] = stream[q] BY <1>9 DEF Informed, Told
 <2> QED BY <1>1,<1>4,<1>5,<1>9,<2>1 DEF MoveKnown, Issued, Announced
<1>10. MoveKnown(r)'
 <2>1. CASE ~Stale(stream[r], posting[r]) BY <1>6,<2>1 DEF MoveKnown
 <2>2. CASE Stale(stream[r], posting[r])
  <3>1. stream'[r].rev = stream[r].rev /\ stream'[r].moved = stream[r].moved BY <2>2 DEF Told
  <3> SUFFICES ASSUME Issued(r), ~stream[r].moved, r \notin history.forgotten
               PROVE  Announced(r)' BY <1>1,<3>1 DEF MoveKnown, Issued
  <3>2. Announced(r) /\ posting[r].prev # stream[r].rev BY <1>6,<2>2 DEF Informed, MoveKnown
  <3>3. binding = [realm |-> r, rev |-> stream[r].rev] /\ interest[r].rev = stream[r].rev
   BY <1>6,<3>2 DEF Announced
  <3>4. interest'[r] = interest[r] BY <1>4,<3>2,<3>3
  <3> QED BY <1>1,<3>1,<3>3,<3>4 DEF Announced
 <2> QED BY <2>1,<2>2
<1>11. Informed' BY <1>6,<1>7,<1>8,<1>9,<1>10 DEF Informed, BindingInv
<1> QED BY <1>3,<1>11

LEMMA FailInformed ==
  ASSUME Types, Informed, NEW r \in Realms, DeliveryFails(r), Told(r, posting[r]) \/ UNCHANGED stream,
         \A g \in Grants : grants[g].status # "none" => grants[g].realm \in Realms
  PROVE  Informed' /\ posting' \in [Realms -> Notice] /\ failures' \in Nat
<1>1. /\ posting[r] # NoNotice /\ UNCHANGED <<setting, binding, interest, notices, grants, history>>
      /\ posting' = [posting EXCEPT ![r] = NoNotice] /\ posting \in [Realms -> Notice]
      /\ failures' = failures + 1 /\ failures \in Nat BY DEF DeliveryFails, Types
<1>2. posting' \in [Realms -> Notice] /\ posting'[r] = NoNotice /\ \A q \in Realms : q # r => posting'[q] = posting[q]
 BY <1>1, Names
<1>3. Shared' <=> Shared BY <1>1 DEF Shared
<1>4. BindingFine' BY <1>1,<1>3 DEF Informed, BindingInv, BindingFine
<1>5. CASE UNCHANGED stream
 <2>1. ASSUME NEW q \in Realms PROVE RealmKnows(q)' /\ MoveKnown(q)'
  BY <1>1,<1>2,<1>3,<1>5 DEF Informed, BindingInv, RealmKnows, NoticeFine, Past, MoveKnown, Issued, Announced
 <2>2. ASSUME NEW g \in Grants PROVE GrantKnows(g)' BY <1>1,<1>3,<1>5 DEF Informed, BindingInv, GrantKnows, Past
 <2> QED BY <1>1,<1>2,<1>4,<2>1,<2>2 DEF Informed, BindingInv
<1>6. CASE Told(r, posting[r])
 <2>1. /\ \A q \in Realms : stream'[q].rev <= binding.rev /\ stream[q].rev <= stream'[q].rev
       /\ \A q \in Realms : stream'[q].rev = binding.rev /\ stream'[q].moved => binding.realm # q
       /\ \A g \in Grants : GrantKnows(g)'
       /\ Shared /\ notices[r] # NoNotice /\ notices[r].prev = posting[r].prev
       /\ ~Stale(stream[r], posting[r]) => ~Issued(r)' BY <1>1,<1>6, ToldKnows
 <2>2. ASSUME NEW q \in Realms PROVE RealmKnows(q)'
  <3>1. RealmKnows(q) BY DEF Informed, BindingInv
  <3> QED BY <1>1,<1>2,<1>3,<2>1,<3>1 DEF RealmKnows, NoticeFine, Past
 <2>3. ASSUME NEW q \in Realms PROVE MoveKnown(q)'
  <3>1. MoveKnown(q) BY DEF Informed
  <3>2. CASE q = r /\ ~Stale(stream[r], posting[r]) BY <2>1,<3>2 DEF MoveKnown
  <3>3. CASE q # r \/ Stale(stream[r], posting[r])
   <4>1. stream'[q].rev = stream[q].rev /\ stream'[q].moved = stream[q].moved BY <1>6,<3>3 DEF Told
   <4> QED BY <1>1,<1>3,<3>1,<4>1 DEF MoveKnown, Issued, Announced
  <3> QED BY <3>2,<3>3
 <2> QED BY <1>1,<1>2,<1>4,<2>1,<2>2,<2>3 DEF Informed, BindingInv
<1> QED BY <1>5,<1>6

\* An append or a grant, for the realm bound, leaves an interest in the stream.
LEMMA WatchInformed ==
  ASSUME Types, Informed, NEW r \in Realms, Shared, binding.realm = r, NEW byAppend \in BOOLEAN,
         interest' = [interest EXCEPT ![r] = [rev |-> binding.rev, byAppend |-> byAppend]],
         UNCHANGED <<setting, binding, notices, posting>>,
         \A q \in Realms : q # r => stream'[q] = stream[q],
         \/ stream'[r].rev = binding.rev /\ (stream'[r].moved => stream[r].moved /\ binding.rev = stream[r].rev)
         \/ stream'[r].rev = stream[r].rev /\ stream'[r].moved = stream[r].moved,
         history'.forgotten = IF stream'[r].rev = binding.rev THEN history.forgotten \ {r} ELSE history.forgotten,
         \A h \in Grants : grants[h].status # "none" => grants[h].realm \in Realms,
         NEW g, GrantsKept \/ (Replaces(g, r, binding.rev) /\ stream'[r].rev = binding.rev)
  PROVE  Informed' /\ interest' \in [Realms -> Interest]
<1>1. /\ binding.rev \in Nat /\ \A q \in Realms : stream[q].rev \in Nat /\ interest[q].rev \in Nat
      /\ \A h \in Grants : grants[h].rev \in Nat BY InformedTypes
<1>2. PICK x \in Interest : x = [rev |-> binding.rev, byAppend |-> byAppend] BY <1>1 DEF Interest
<1>3. /\ interest' \in [Realms -> Interest] /\ interest'[r].rev = binding.rev
      /\ \A q \in Realms : q # r => interest'[q] = interest[q] BY <1>2 DEF Types
<1>4. Shared' /\ 1 <= binding.rev BY DEF Shared, Informed, BindingInv, BindingFine
<1>5. BindingFine' BY <1>4 DEF Informed, BindingInv, BindingFine
<1>6. \A q \in Realms : RealmKnows(q) /\ MoveKnown(q) BY DEF Informed, BindingInv
<1>7. /\ stream[r].rev <= binding.rev /\ ~(stream[r].rev = binding.rev /\ stream[r].moved)
      /\ stream'[r].rev <= binding.rev /\ ~(stream'[r].rev = binding.rev /\ stream'[r].moved)
      /\ stream'[r].rev \in Nat /\ stream[r].rev <= stream'[r].rev BY <1>1,<1>6 DEF RealmKnows
<1>8. ASSUME NEW q \in Realms PROVE RealmKnows(q)'
 <2>1. NoticeFine(notices[q])' /\ NoticeFine(posting[q])' BY <1>6 DEF RealmKnows, NoticeFine, Past
 <2>2. interest'[q].rev <= binding.rev BY <1>1,<1>3,<1>6 DEF RealmKnows
 <2>3. stream'[q].rev <= binding.rev /\ (stream'[q].rev = binding.rev /\ stream'[q].moved => binding.realm # q)
  BY <1>6,<1>7 DEF RealmKnows
 <2>4. posting'[q] # NoNotice => notices'[q] # NoNotice /\ notices'[q].prev = posting'[q].prev
  BY <1>6 DEF RealmKnows
 <2> QED BY <1>4,<2>1,<2>2,<2>3,<2>4 DEF RealmKnows
<1>9. ASSUME NEW h \in Grants, grants'[h].realm = grants[h].realm, grants'[h].rev = grants[h].rev,
             grants'[h].status # "none" <=> grants[h].status # "none"
      PROVE  GrantKnows(h)'
 <2> SUFFICES ASSUME grants[h].status # "none"
              PROVE  /\ Past(grants[h].realm, grants[h].rev)' /\ 1 <= grants[h].rev
                     /\ grants[h].rev <= stream'[grants[h].realm].rev BY <1>9 DEF GrantKnows, Past
 <2>1. Past(grants[h].realm, grants[h].rev) /\ 1 <= grants[h].rev /\ grants[h].rev <= stream[grants[h].realm].rev
  BY DEF Informed, BindingInv, GrantKnows
 <2>2. PICK q \in Realms : q = grants[h].realm OBVIOUS
 <2>3. grants[h].rev <= stream'[q].rev BY <1>1,<1>7,<2>1,<2>2
 <2>4. Past(grants[h].realm, grants[h].rev)' BY <1>9,<2>1 DEF Past
 <2> QED BY <2>1,<2>2,<2>3,<2>4
<1>10. ASSUME NEW h \in Grants PROVE GrantKnows(h)'
 <2>1. CASE GrantsKept BY <1>9,<2>1 DEF GrantsKept
 <2>2. CASE Replaces(g, r, binding.rev) /\ stream'[r].rev = binding.rev
  <3>1. CASE h = g
   <4>1. grants'[h].realm = r /\ grants'[h].rev = binding.rev BY <2>2,<3>1 DEF Replaces
   <4> QED BY <1>1,<1>4,<2>2,<4>1 DEF GrantKnows, Past
  <3>2. CASE h # g BY <1>9,<2>2,<3>2 DEF Replaces
  <3> QED BY <3>1,<3>2
 <2> QED BY <2>1,<2>2
<1>11. ASSUME NEW q \in Realms, q # r PROVE MoveKnown(q)'
 <2> SUFFICES ASSUME Issued(q)', ~stream[q].moved, q \notin history.forgotten
              PROVE  Announced(q)' BY <1>11 DEF MoveKnown
 <2>1. Issued(q) BY <1>11 DEF Issued, GrantsKept, Replaces
 <2>2. Announced(q) BY <1>6,<2>1 DEF MoveKnown
 <2> QED BY <1>3,<1>11,<2>2 DEF Announced
<1>12. MoveKnown(r)'
 <2>1. CASE stream'[r].rev = binding.rev
  <3>1. binding = [realm |-> r, rev |-> binding.rev] BY DEF Types, Target
  <3> QED BY <1>3,<2>1,<3>1 DEF MoveKnown, Announced
 <2>2. CASE stream'[r].rev # binding.rev
  <3>1. GrantsKept /\ stream'[r].rev = stream[r].rev /\ stream'[r].moved = stream[r].moved
        /\ history'.forgotten = history.forgotten BY <2>2
  <3> SUFFICES ASSUME Issued(r)', ~stream[r].moved, r \notin history.forgotten
               PROVE  notices[r] # NoNotice /\ notices[r].prev = stream[r].rev BY <3>1 DEF MoveKnown, Announced
  <3>2. Issued(r) BY <3>1 DEF Issued, GrantsKept
  <3>3. Announced(r) BY <1>6,<3>2 DEF MoveKnown
  <3> QED BY <2>2,<3>1,<3>3 DEF Announced
 <2> QED BY <2>1,<2>2
<1>13. Informed' BY <1>5,<1>8,<1>10,<1>11,<1>12 DEF Informed, BindingInv
<1> QED BY <1>3,<1>13

\* A grant of a group's own stream
LEMMA OwnGrantInformed ==
  ASSUME Types, Informed, NEW r \in Realms, ~Shared, binding.realm = r,
         UNCHANGED <<setting, binding, interest, notices, posting>>, SameBinding,
         history'.forgotten = history.forgotten,
         \A h \in Grants : grants[h].status # "none" => grants[h].realm \in Realms,
         NEW g \in Grants, Replaces(g, r, binding.rev)
  PROVE  Informed'
<1>1. ~Shared' BY DEF Shared
<1>2. /\ binding.rev = 0 /\ \A q \in Realms : stream[q].rev \in Nat
 BY InformedTypes DEF Informed, BindingInv, BindingFine
<1>3. BindingFine' /\ \A q \in Realms : RealmKnows(q)' /\ MoveKnown(q)'
 BY <1>1 DEF Informed, BindingInv, BindingFine, RealmKnows, SameBinding, NoticeFine, Past, MoveKnown
<1>4. ASSUME NEW h \in Grants PROVE GrantKnows(h)'
 <2>1. CASE h = g
  <3>1. grants'[h].realm = r /\ grants'[h].rev = binding.rev BY <2>1 DEF Replaces
  <3>2. 0 <= stream'[r].rev BY <1>2 DEF SameBinding
  <3> QED BY <1>1,<1>2,<3>1,<3>2 DEF GrantKnows, Past
 <2>2. CASE h # g BY <1>1,<2>2 DEF Informed, BindingInv, GrantKnows, SameBinding, Replaces, Past
 <2> QED BY <2>1,<2>2
<1> QED BY <1>3,<1>4 DEF Informed, BindingInv

-----------------------------------------------------------------------------
(* Settling, from step to step                                               *)

\* Events other than e are left alone.
OtherEvents(e) ==
  \A x \in Events : x # e =>
    /\ ledger'[x] = ledger[x] /\ \A r \in Realms : stream'[r].receipts[x] = stream[r].receipts[x]
    /\ x \in history'.overlapped <=> x \in history.overlapped
    /\ x \in history'.crossed <=> x \in history.crossed

LEMMA OtherRows ==
  ASSUME NEW e \in Events, OtherEvents(e), UNCHANGED binding, NEW x \in Events, x # e, RowFine(x, ledger[x])
  PROVE  RowFine(x, ledger[x])'
BY DEF OtherEvents, RowFine, Past, Unwritten

LEMMA OtherCommands ==
  ASSUME NEW e \in Events, OtherEvents(e), UNCHANGED binding,
         NEW k, k.pc # "idle" => k.event # e, CommandFine(k)
  PROVE  CommandFine(k)'
<1>1. CASE k.pc = "idle" BY <1>1 DEF CommandFine, Placed, Behind, Alone
<1>2. CASE k.pc # "idle"
 <2>1. k.event \in Events /\ k.event # e /\ k.realm \in Realms BY <1>2 DEF CommandFine, Placed
 <2>2. Placed(k)' BY <1>2,<2>1 DEF CommandFine, Placed, OtherEvents, Past
 <2>3. Behind(k, ledger[k.event])' BY <1>2,<2>1 DEF CommandFine, Behind, OtherEvents
 <2>4. Alone(k, ledger[k.event])' BY <1>2,<2>1 DEF CommandFine, Alone, OtherEvents, Unwritten
 <2> QED BY <2>2,<2>3,<2>4 DEF CommandFine
<1> QED BY <1>1,<1>2

\* A step of command c, about event e
LEMMA SettlingAt ==
  ASSUME Settling, NEW c \in Commands, NEW e \in Events, OtherEvents(e), UNCHANGED binding,
         \A d \in Commands : d # c => commands'[d] = commands[d],
         commands'[c].pc # "idle" => commands'[c].event = e,
         RowFine(e, ledger[e])', CommandFine(commands[c])',
         \A d \in Commands : d # c /\ Running(d) /\ commands[d].event = e => CommandFine(commands[d])',
         e \in history.overlapped => e \in history'.overlapped,
         \A d \in Commands : d # c /\ Running(d) /\ commands[d].event = e /\ commands'[c].pc # "idle"
                               => (Running(c) /\ commands[c].event = e) \/ e \in history'.overlapped
  PROVE  Settling'
<1>1. ASSUME NEW x \in Events PROVE RowFine(x, ledger[x])'
 <2>1. CASE x = e BY <2>1
 <2>2. CASE x # e
  <3>1. RowFine(x, ledger[x]) BY DEF Settling
  <3>2. PICK row : row = ledger[x] OBVIOUS
  <3>3. ledger'[x] = row /\ RowFine(x, row) BY <2>2,<3>1,<3>2 DEF OtherEvents
  <3>4. RowFine(x, ledger[x])' BY <2>2,<3>1, OtherRows
  <3> QED BY <3>4
 <2> QED BY <2>1,<2>2
<1>2. ASSUME NEW d \in Commands PROVE CommandFine(commands[d])'
 <2>1. CASE d = c BY <2>1
 <2>2. CASE d # c /\ Running(d) /\ commands[d].event = e BY <2>2
 <2>3. CASE d # c /\ (Running(d) => commands[d].event # e)
  <3>1. PICK k : k = commands[d] OBVIOUS
  <3>2. commands'[d] = k /\ CommandFine(k) /\ (k.pc # "idle" => k.event # e) BY <2>3,<3>1 DEF Settling, Running
  <3>3. CommandFine(k)' BY <3>2, OtherCommands
  <3> QED BY <3>2,<3>3 DEF CommandFine, Placed, Behind, Alone
 <2> QED BY <2>1,<2>2,<2>3
<1>3. ASSUME NEW x \in Commands, NEW y \in Commands, commands'[x].pc # "idle", commands'[y].pc # "idle",
             commands'[x].event = commands'[y].event, commands'[x].event \notin history'.overlapped
      PROVE  x = y
 <2>1. ASSUME NEW d \in Commands, d # c, commands'[c].pc # "idle", commands'[d].pc # "idle", commands'[d].event = e,
              e \notin history'.overlapped
       PROVE  FALSE
  <3>1. Running(d) /\ commands[d].event = e /\ e \notin history.overlapped BY <2>1 DEF Running
  <3>2. Running(c) /\ commands[c].event = e BY <2>1,<3>1
  <3> QED BY <2>1,<3>1,<3>2 DEF Settling
 <2>2. CASE x = c \/ y = c BY <1>3,<2>1,<2>2
 <2>3. CASE x # c /\ y # c
  <3>1. /\ Running(x) /\ Running(y) /\ commands[x].event = commands[y].event
        /\ commands'[x] = commands[x] /\ commands[x].event \in Events
   BY <1>3,<2>3 DEF Running, Settling, CommandFine, Placed
  <3>2. commands[x].event \notin history.overlapped BY <1>3,<3>1 DEF OtherEvents
  <3> QED BY <3>1,<3>2 DEF Settling
 <2> QED BY <2>2,<2>3
<1> QED BY <1>1,<1>2,<1>3 DEF Settling, Running

\* Steps that are not about an event
SameReceipts == \A r \in Realms : stream'[r].receipts = stream[r].receipts

LEMMA SettlingStays ==
  ASSUME Settling, Types, SameReceipts, UNCHANGED <<ledger, commands>>,
         history'.overlapped = history.overlapped, history'.crossed = history.crossed,
         binding.rev \in Nat, binding'.rev \in Nat, binding.rev < binding'.rev \/ UNCHANGED binding
  PROVE  Settling'
<1>1. ASSUME NEW realm, NEW rev \in Nat, Past(realm, rev) PROVE Past(realm, rev)' BY <1>1 DEF Past
<1>2. ASSUME NEW e \in Events PROVE RowFine(e, ledger[e])'
 <2>1. PICK row : row = ledger[e] OBVIOUS
 <2>2. RowFine(e, row) /\ row \in LedgerRow /\ ledger'[e] = row BY <2>1 DEF Settling, Types
 <2>3. row.rev \in Nat BY <2>2 DEF LedgerRow
 <2>4. RowFine(e, row)' BY <1>1,<2>2,<2>3 DEF RowFine, Unwritten, SameReceipts
 <2> QED BY <2>2,<2>4 DEF RowFine
<1>3. ASSUME NEW c \in Commands PROVE CommandFine(commands[c])'
 <2>1. PICK k : k = commands[c] OBVIOUS
 <2>2. CommandFine(k) /\ k \in Command /\ commands'[c] = k BY <2>1 DEF Settling, Types
 <2>3. k.rev \in Nat /\ k.next.rev \in Nat BY <2>2 DEF Command, Target
 <2>4. Placed(k)' BY <1>1,<2>2,<2>3 DEF CommandFine, Placed, SameReceipts
 <2>5. Behind(k, ledger[k.event])' BY <2>2,<2>4 DEF CommandFine, Behind, Placed, SameReceipts
 <2>6. Alone(k, ledger[k.event])' BY <2>2 DEF CommandFine, Alone, Unwritten, SameReceipts
 <2>7. CommandFine(k)' BY <2>4,<2>5,<2>6 DEF CommandFine
 <2> QED BY <2>2,<2>7 DEF CommandFine, Placed, Behind, Alone
<1> QED BY <1>2,<1>3 DEF Settling, Running

\* What is known of a command in progress, and of the row of its event
LEMMA InProgress ==
  ASSUME Types, Settling, NEW c \in Commands, Running(c)
  PROVE  /\ commands[c] \in Command /\ commands[c].event \in Events /\ commands[c].realm \in Realms
         /\ commands[c].rev \in Nat /\ commands[c].next.rev \in Nat
         /\ ledger[commands[c].event] \in LedgerRow /\ ledger[commands[c].event].rev \in Nat
         /\ RowFine(commands[c].event, ledger[commands[c].event])
         /\ Placed(commands[c]) /\ Behind(commands[c], ledger[commands[c].event])
         /\ Alone(commands[c], ledger[commands[c].event])
<1>1. commands[c] \in Command /\ CommandFine(commands[c]) BY DEF Types, Settling
<1>2. commands[c].event \in Events /\ commands[c].realm \in Realms BY <1>1 DEF CommandFine, Placed, Running
<1>3. commands[c].rev \in Nat /\ commands[c].next.rev \in Nat BY <1>1 DEF Command, Target
<1>4. ledger[commands[c].event] \in LedgerRow BY <1>2 DEF Types
<1>5. ledger[commands[c].event].rev \in Nat BY <1>4 DEF LedgerRow
<1>6. RowFine(commands[c].event, ledger[commands[c].event]) BY <1>2 DEF Settling
<1> QED BY <1>1,<1>2,<1>3,<1>4,<1>5,<1>6 DEF CommandFine

\* A command that ended is in order.
LEMMA Idle ==
  ASSUME Types, NEW c \in Commands, Ended(c)
  PROVE  /\ commands' \in [Commands -> Command] /\ commands'[c].pc = "idle"
         /\ \A d \in Commands : d # c => commands'[d] = commands[d]
         /\ CommandFine(commands[c])'
<1>1. NoCommand \in Command /\ NoCommand.pc = "idle" BY DEF NoCommand, Command, Target, SomeRealm, Outcomes
<1>2. commands \in [Commands -> Command] /\ commands' = [commands EXCEPT ![c] = NoCommand] BY DEF Types, Ended
<1> HIDE DEF NoCommand
<1>3. commands' \in [Commands -> Command] /\ commands'[c] = NoCommand /\ \A d \in Commands : d # c => commands'[d] = commands[d]
 BY <1>1,<1>2
<1> QED BY <1>1,<1>3 DEF CommandFine, Placed, Behind, Alone

\* A step of a command that changes no row and no receipt
LEMMA OtherSteps ==
  ASSUME Settling, NEW c \in Commands, NEW e \in Events, Running(c), commands[c].event = e, SameReceipts,
         UNCHANGED <<binding, ledger>>, history'.overlapped = history.overlapped, history'.crossed = history.crossed,
         \A d \in Commands : d # c => commands'[d] = commands[d],
         commands'[c].pc # "idle" => commands'[c].event = e, CommandFine(commands[c])'
  PROVE  Settling'
<1>1. OtherEvents(e) BY DEF OtherEvents, SameReceipts
<1>2. RowFine(e, ledger[e])'
 <2>1. PICK row : row = ledger[e] /\ RowFine(e, row) /\ ledger'[e] = row BY DEF Settling
 <2> QED BY <2>1 DEF RowFine, Past, Unwritten, SameReceipts
<1>3. ASSUME NEW d \in Commands, d # c, Running(d), commands[d].event = e PROVE CommandFine(commands[d])'
 <2>1. PICK k : k = commands[d] /\ CommandFine(k) /\ commands'[d] = k /\ k.event = e /\ k.pc # "idle"
  BY <1>3 DEF Settling, Running
 <2>2. k.realm \in Realms BY <2>1 DEF CommandFine, Placed
 <2> QED BY <2>1,<2>2 DEF CommandFine, Placed, Behind, Alone, Past, Unwritten, SameReceipts
<1> QED BY <1>1,<1>2,<1>3, SettlingAt

LEMMA DiesSettling ==
  ASSUME Types, Settling, NEW c \in Commands, CommandDies(c)
  PROVE  Settling' /\ commands' \in [Commands -> Command] /\ failures' \in Nat
<1>1. Running(c) /\ Ended(c) /\ UNCHANGED <<binding, ledger, stream, history>> /\ failures' = failures + 1
 BY DEF CommandDies
<1>2. commands[c].event \in Events BY <1>1, InProgress
<1>3. Settling' BY <1>1,<1>2, Idle, OtherSteps DEF SameReceipts
<1> QED BY <1>1,<1>3, Idle DEF Types

LEMMA ResolveSettling ==
  ASSUME Types, Settling, NEW c \in Commands, resolve(c)
  PROVE  Settling' /\ commands' \in [Commands -> Command]
<1>1. commands[c].pc = "resolve" /\ UNCHANGED <<binding, ledger, stream, history>> BY DEF resolve
<1>2. Running(c) BY <1>1 DEF Running
<1>3. PICK k \in Command : k = commands[c] BY DEF Types
<1>4. PICK row \in LedgerRow : row = ledger[k.event] BY <1>2,<1>3, InProgress
<1>5. /\ k.event \in Events /\ k.realm \in Realms /\ k.rev \in Nat
      /\ Placed(k) /\ Behind(k, row) /\ Alone(k, row) BY <1>2,<1>3,<1>4, InProgress
<1>6. CASE Ended(c) BY <1>1,<1>2,<1>3,<1>5,<1>6, Idle, OtherSteps DEF SameReceipts
<1>7. CASE binding.realm # None /\ commands' = [commands EXCEPT ![c].pc = "repin", ![c].next = binding]
 <2>1. PICK k1 : k1 = [k EXCEPT !.pc = "repin", !.next = binding] OBVIOUS
 <2>2. binding \in Target /\ commands \in [Commands -> Command] BY DEF Types
 <2>3. k1 \in Command /\ k1.pc = "repin" /\ k1.event = k.event /\ k1.realm = k.realm /\ k1.rev = k.rev
       /\ k1.next = binding BY <2>1,<2>2 DEF Command
 <2>4. commands' = [commands EXCEPT ![c] = k1] BY <1>3,<1>7,<2>1,<2>2 DEF Command
 <2>5. commands' \in [Commands -> Command] /\ commands'[c] = k1 /\ \A d \in Commands : d # c => commands'[d] = commands[d]
  BY <2>2,<2>3,<2>4
 <2>6. binding.realm \in Realms /\ k.rev < binding.rev /\ Past(binding.realm, binding.rev)
  BY <1>1,<1>3,<1>5,<1>7,<2>2 DEF Target, SomeRealm, Placed, Past
 <2>7. Placed(k1)' BY <1>1,<1>3,<1>5,<2>3,<2>6 DEF Placed, Past
 <2>8. Behind(k1, row)' BY <1>1,<1>3,<1>5,<2>3 DEF Behind
 <2>9. Alone(k1, row)' BY <1>1,<1>3,<1>5,<2>3 DEF Alone, Unwritten
 <2>10. CommandFine(commands[c])' BY <1>1,<1>4,<2>3,<2>5,<2>7,<2>8,<2>9 DEF CommandFine, Placed, Behind, Alone
 <2> QED BY <1>1,<1>2,<1>3,<1>5,<2>3,<2>5,<2>10, OtherSteps DEF SameReceipts
<1> QED BY <1>6,<1>7 DEF resolve

LEMMA FinalizeSettling ==
  ASSUME Types, Settling, NEW c \in Commands, finalize(c)
  PROVE  Settling' /\ commands' \in [Commands -> Command] /\ ledger' \in [Events -> LedgerRow]
<1>1. commands[c].pc = "finalize" /\ Ended(c) /\ UNCHANGED <<binding, stream, history>> BY DEF finalize
<1>2. Running(c) BY <1>1 DEF Running
<1>3. PICK k \in Command : k = commands[c] BY DEF Types
<1>4. PICK row \in LedgerRow : row = ledger[k.event] BY <1>2,<1>3, InProgress
<1>5. /\ k.event \in Events /\ k.realm \in Realms /\ k.rev \in Nat /\ row.rev \in Nat
      /\ RowFine(k.event, row) /\ Placed(k) /\ Behind(k, row) /\ Alone(k, row) BY <1>2,<1>3,<1>4, InProgress
<1>6. CASE row.state # "pending"
 <2>1. UNCHANGED ledger BY <1>3,<1>4,<1>6 DEF finalize
 <2> QED BY <1>1,<1>2,<1>3,<1>5,<2>1, Idle, OtherSteps DEF SameReceipts, Types
<1>7. CASE row.state = "pending"
 <2>1. PICK row1 : row1 = [row EXCEPT !.state = IF k.outcome = "committed" THEN "committed" ELSE "rejected"]
  OBVIOUS
 <2>2. /\ row1 \in LedgerRow /\ row1.realm = row.realm /\ row1.rev = row.rev
       /\ row1.state = IF k.outcome = "committed" THEN "committed" ELSE "rejected" BY <2>1 DEF LedgerRow
 <2>3. ledger \in [Events -> LedgerRow] BY DEF Types
 <2>4. ledger' = [ledger EXCEPT ![k.event] = row1] BY <1>3,<1>4,<1>7,<2>1,<2>3 DEF finalize
 <2>5. ledger' \in [Events -> LedgerRow] /\ ledger'[k.event] = row1 /\ \A x \in Events : x # k.event => ledger'[x] = ledger[x]
  BY <1>5,<2>2,<2>3,<2>4
 <2>6. OtherEvents(k.event) BY <1>1,<2>5 DEF OtherEvents
 <2>7. RowFine(k.event, ledger[k.event])'
  <3>1. row1.realm \in Realms /\ Past(row1.realm, row1.rev) BY <1>5,<1>7,<2>2 DEF RowFine
  <3>2. ASSUME k.event \notin history.crossed
        PROVE  /\ row1.state = "committed" => stream[row1.realm].receipts[k.event] # 0
               /\ row1.state = "rejected" /\ k.event \notin history.overlapped => Unwritten(k.event)
   BY <1>1,<1>3,<1>5,<1>7,<2>2,<3>2 DEF RowFine, Placed, Alone
  <3>3. ASSUME k.event \notin history.crossed, NEW r \in Realms, stream[r].receipts[k.event] # 0 PROVE r = row1.realm
   BY <1>5,<2>2,<3>3 DEF RowFine
  <3>4. row1.state # "none" BY <2>2
  <3> QED BY <1>1,<2>5,<3>1,<3>2,<3>3,<3>4 DEF RowFine, Past, Unwritten
 <2>8. ASSUME NEW d \in Commands, d # c, Running(d), commands[d].event = k.event PROVE CommandFine(commands[d])'
  <3>1. PICK k2 : k2 = commands[d] /\ k2.event = k.event /\ k2.pc # "idle" /\ commands'[d] = k2
   BY <1>1,<2>8, Idle DEF Running
  <3>2. Placed(k2) /\ Behind(k2, row) /\ k2.realm \in Realms BY <1>3,<1>4,<2>8,<3>1, InProgress
  <3>3. k.event \in history.overlapped BY <1>2,<1>3,<2>8 DEF Settling
  <3>4. Placed(k2)' BY <1>1,<2>2,<2>5,<3>1,<3>2 DEF Placed, Past
  <3>5. Behind(k2, row1)' BY <1>1,<2>2,<3>1,<3>2 DEF Behind
  <3>6. Alone(k2, row1)' BY <1>1,<3>1,<3>3 DEF Alone
  <3> QED BY <2>5,<3>1,<3>4,<3>5,<3>6 DEF CommandFine, Placed, Behind, Alone
 <2>9. commands'[c].pc = "idle" /\ CommandFine(commands[c])' /\ \A d \in Commands : d # c => commands'[d] = commands[d]
  BY <1>1, Idle
 <2>10. Settling' BY <1>1,<1>5,<2>6,<2>7,<2>8,<2>9, SettlingAt
 <2> QED BY <1>1,<2>5,<2>10, Idle
<1> QED BY <1>6,<1>7

LEMMA PrepareSettling ==
  ASSUME Types, Settling, NEW c \in Commands, NEW e \in Events, prepare(c, e)
  PROVE  /\ Settling' /\ commands' \in [Commands -> Command] /\ ledger' \in [Events -> LedgerRow]
         /\ history' \in History /\ history'.crossed = history.crossed /\ history'.forgotten = history.forgotten
         /\ history'.handled = history.handled /\ history'.declared = history.declared
<1>1. /\ commands[c].pc = "idle" /\ binding.realm # None /\ ledger[e].state \in {"none", "pending"}
      /\ UNCHANGED <<binding, stream>> BY DEF prepare
<1>2. ledger \in [Events -> LedgerRow] /\ commands \in [Commands -> Command] /\ binding \in Target /\ history \in History
 BY DEF Types
<1>3. binding.realm \in Realms /\ binding.rev \in Nat BY <1>1,<1>2 DEF Target, SomeRealm
<1>4. PICK row \in LedgerRow : row = ledger[e] BY <1>2
<1>5. PICK row1 : row1 = IF row.state = "pending" THEN row
                         ELSE [state |-> "pending", realm |-> binding.realm, rev |-> binding.rev] OBVIOUS
<1>6. RowFine(e, row) /\ row.rev \in Nat BY <1>4 DEF Settling, LedgerRow
<1>7. /\ row1 \in LedgerRow /\ row1.state = "pending" /\ row1.realm \in Realms /\ row1.rev \in Nat
      /\ Past(row1.realm, row1.rev)
      /\ row.state # "none" => row1 = row BY <1>1,<1>3,<1>4,<1>5,<1>6 DEF LedgerRow, SomeRealm, RowFine, Past
<1>8. ledger' \in [Events -> LedgerRow] /\ ledger'[e] = row1 /\ \A x \in Events : x # e => ledger'[x] = ledger[x]
 <2>1. ledger' = [ledger EXCEPT ![e] = row1] BY <1>2,<1>4,<1>5 DEF prepare
 <2> QED BY <1>2,<1>7,<2>1
<1>9. PICK k1 : k1 = [NoCommand EXCEPT !.pc = "append", !.event = e, !.realm = row1.realm, !.rev = row1.rev]
 OBVIOUS
<1>10. k1 \in Command /\ k1.pc = "append" /\ k1.event = e /\ k1.realm = row1.realm /\ k1.rev = row1.rev
 BY <1>7,<1>9 DEF NoCommand, Command, Target, SomeRealm, Outcomes
<1>11. commands' \in [Commands -> Command] /\ commands'[c] = k1 /\ \A d \in Commands : d # c => commands'[d] = commands[d]
 <2>1. commands' = [commands EXCEPT ![c] = k1] BY <1>8,<1>9 DEF prepare
 <2> QED BY <1>2,<1>10,<2>1
<1>12. /\ history' \in History /\ history'.crossed = history.crossed /\ history'.forgotten = history.forgotten
       /\ history'.handled = history.handled /\ history'.declared = history.declared
       /\ history.overlapped \subseteq history'.overlapped /\ history'.overlapped \subseteq history.overlapped \cup {e}
       /\ \A d \in Commands : Running(d) /\ commands[d].event = e => e \in history'.overlapped
 <2>1. CASE \E d \in Commands : Running(d) /\ commands[d].event = e
  <3>1. history' = [history EXCEPT !.overlapped = @ \cup {e}] BY <2>1 DEF prepare
  <3> QED BY <1>2,<3>1 DEF History
 <2>2. CASE ~\E d \in Commands : Running(d) /\ commands[d].event = e
  <3>1. history' = history BY <2>2 DEF prepare
  <3> QED BY <1>2,<2>2,<3>1
 <2> QED BY <2>1,<2>2
<1>13. OtherEvents(e) BY <1>1,<1>8,<1>12 DEF OtherEvents
<1>14. RowFine(e, ledger[e])'
 <2>1. ASSUME e \notin history.crossed, NEW r \in Realms, stream[r].receipts[e] # 0 PROVE r = row1.realm
  BY <1>6,<1>7,<2>1 DEF RowFine
 <2> QED BY <1>1,<1>7,<1>8,<1>12,<2>1 DEF RowFine, Past
<1>15. CommandFine(commands[c])' BY <1>1,<1>7,<1>8,<1>10,<1>11 DEF CommandFine, Placed, Behind, Alone, Past
<1>16. ASSUME NEW d \in Commands, d # c, Running(d), commands[d].event = e PROVE CommandFine(commands[d])'
 <2>1. PICK k2 : k2 = commands[d] /\ k2.event = e /\ k2.pc # "idle" /\ commands'[d] = k2
  BY <1>11,<1>16 DEF Running
 <2>2. Placed(k2) /\ Behind(k2, row) /\ k2.realm \in Realms BY <1>4,<1>16,<2>1, InProgress
 <2>3. row1 = row BY <1>4,<1>7,<2>1,<2>2 DEF Placed
 <2>4. Placed(k2)' BY <1>1,<1>7,<1>8,<2>1,<2>2 DEF Placed, Past
 <2>5. Behind(k2, row1)' BY <1>1,<1>12,<2>1,<2>2,<2>3 DEF Behind
 <2>6. Alone(k2, row1)' BY <1>12,<1>16,<2>1 DEF Alone
 <2> QED BY <1>8,<2>1,<2>4,<2>5,<2>6 DEF CommandFine, Placed, Behind, Alone
<1>17. Settling' BY <1>1,<1>10,<1>11,<1>12,<1>13,<1>14,<1>15,<1>16, SettlingAt DEF Running
<1> QED BY <1>8,<1>11,<1>12,<1>17

LEMMA RepinSettling ==
  ASSUME Types, Settling, NEW c \in Commands, repin(c)
  PROVE  /\ Settling' /\ commands' \in [Commands -> Command] /\ ledger' \in [Events -> LedgerRow]
         /\ history' \in History /\ history'.overlapped = history.overlapped /\ history'.forgotten = history.forgotten
         /\ history'.handled = history.handled /\ history'.declared = history.declared
<1>1. commands[c].pc = "repin" /\ UNCHANGED <<binding, stream>> BY DEF repin
<1>2. Running(c) BY <1>1 DEF Running
<1>3. PICK k \in Command : k = commands[c] BY DEF Types
<1>4. PICK row \in LedgerRow : row = ledger[k.event] BY <1>2,<1>3, InProgress
<1>5. /\ k.event \in Events /\ k.realm \in Realms /\ k.rev \in Nat /\ row.rev \in Nat /\ k.next.rev \in Nat
      /\ RowFine(k.event, row) /\ Placed(k) /\ Behind(k, row) /\ Alone(k, row) /\ k.pc = "repin"
 BY <1>1,<1>2,<1>3,<1>4, InProgress
<1>6. ledger \in [Events -> LedgerRow] /\ commands \in [Commands -> Command] /\ history \in History BY DEF Types
<1>7. CASE row.state # "pending"
 <2>1. UNCHANGED <<ledger, history>> /\ Ended(c) BY <1>3,<1>4,<1>7 DEF repin
 <2>2. Settling' BY <1>1,<1>2,<1>3,<1>5,<2>1, Idle, OtherSteps DEF SameReceipts
 <2> QED BY <1>6,<2>1,<2>2, Idle
<1>8. CASE row.state = "pending"
 <2>1. PICK row1 : row1 = IF row.realm = k.realm THEN [row EXCEPT !.realm = k.next.realm, !.rev = k.next.rev] ELSE row
  OBVIOUS
 <2>2. /\ row1 \in LedgerRow /\ row1.state = "pending"
       /\ row.realm # k.realm => row1 = row
       /\ row.realm = k.realm => row1.realm = k.next.realm /\ row1.rev = k.next.rev
  <3>1. k.next \in Target BY DEF Command
  <3> QED BY <1>8,<2>1,<3>1 DEF LedgerRow, Target
 <2>3. row1.realm \in Realms /\ Past(row1.realm, row1.rev) /\ row1.rev \in Nat
  BY <1>5,<1>8,<2>2 DEF RowFine, Placed
 <2>4. ledger' \in [Events -> LedgerRow] /\ ledger'[k.event] = row1 /\ \A x \in Events : x # k.event => ledger'[x] = ledger[x]
  <3>1. ledger' = [ledger EXCEPT ![k.event] = row1] BY <1>3,<1>4,<1>6,<1>8,<2>1 DEF repin, SameRoute
  <3> QED BY <1>5,<1>6,<2>2,<3>1
 <2>5. PICK k1 : k1 = [k EXCEPT !.pc = "append", !.second = TRUE, !.realm = row1.realm, !.rev = row1.rev] OBVIOUS
 <2>6. k1 \in Command /\ k1.pc = "append" /\ k1.event = k.event /\ k1.realm = row1.realm /\ k1.rev = row1.rev
  BY <2>3,<2>5 DEF Command, SomeRealm
 <2>7. commands' \in [Commands -> Command] /\ commands'[c] = k1 /\ \A d \in Commands : d # c => commands'[d] = commands[d]
  <3>1. commands' = [commands EXCEPT ![c].pc = "append", ![c].second = TRUE,
                                     ![c].realm = row1.realm, ![c].rev = row1.rev]
   BY <1>3,<1>4,<1>8,<2>4 DEF repin
  <3>2. commands' = [commands EXCEPT ![c] = k1] BY <1>3,<1>6,<2>5,<3>1 DEF Command
  <3> QED BY <1>6,<2>6,<3>2
 <2>8. /\ history' \in History /\ history'.overlapped = history.overlapped /\ history'.forgotten = history.forgotten
       /\ history'.handled = history.handled /\ history'.declared = history.declared
       /\ history.crossed \subseteq history'.crossed /\ history'.crossed \subseteq history.crossed \cup {k.event}
       /\ k.event \notin history'.crossed => row1 = row \/ (row.realm = k.realm /\ row.rev = k.rev)
  <3>1. CASE row1 # row /\ row.realm = k.realm /\ row.rev # k.rev
   <4>1. history' = [history EXCEPT !.crossed = @ \cup {k.event}] BY <1>3,<1>4,<2>4,<3>1 DEF repin
   <4> QED BY <1>5,<1>6,<4>1 DEF History
  <3>2. CASE ~(row1 # row /\ row.realm = k.realm /\ row.rev # k.rev)
   <4>1. history' = history BY <1>3,<1>4,<2>4,<3>2 DEF repin
   <4> QED BY <1>6,<2>2,<3>2,<4>1
  <3> QED BY <3>1,<3>2
 <2>9. OtherEvents(k.event) BY <1>1,<2>4,<2>8 DEF OtherEvents
 <2>10. ASSUME k.event \notin history'.crossed, row1 # row
        PROVE  Unwritten(k.event) /\ row.rev = k.rev /\ k.rev < row1.rev
  <3>1. k.event \notin history.crossed /\ row.realm = k.realm /\ row.rev = k.rev BY <2>8,<2>10
  <3>2. stream[k.realm].receipts[k.event] = 0 BY <1>5,<3>1 DEF Behind
  <3>3. Unwritten(k.event) BY <1>5,<3>1,<3>2 DEF RowFine, Unwritten
  <3> QED BY <1>5,<2>2,<3>1,<3>3 DEF Placed
 <2>11. RowFine(k.event, ledger[k.event])'
  <3>1. ASSUME k.event \notin history'.crossed, NEW r \in Realms, stream[r].receipts[k.event] # 0 PROVE r = row1.realm
   <4>1. row1 = row /\ k.event \notin history.crossed BY <2>8,<2>10,<3>1 DEF Unwritten
   <4> QED BY <1>5,<3>1,<4>1 DEF RowFine
  <3> QED BY <1>1,<2>2,<2>3,<2>4,<3>1 DEF RowFine, Past
 <2>12. CommandFine(commands[c])'
  BY <1>1,<1>5,<2>2,<2>3,<2>4,<2>6,<2>7 DEF CommandFine, Placed, Behind, Alone, Past
 <2>13. ASSUME NEW d \in Commands, d # c, Running(d), commands[d].event = k.event PROVE CommandFine(commands[d])'
  <3>1. PICK k2 : k2 = commands[d] /\ k2.event = k.event /\ k2.pc # "idle" /\ commands'[d] = k2
   BY <2>7,<2>13 DEF Running
  <3>2. Placed(k2) /\ Behind(k2, row) /\ k2.realm \in Realms /\ k2.rev \in Nat BY <1>3,<1>4,<2>13,<3>1, InProgress
  <3>3. k.event \in history'.overlapped BY <1>2,<1>3,<2>8,<2>13 DEF Settling
  <3>4. Placed(k2)' BY <1>1,<2>2,<2>4,<3>1,<3>2 DEF Placed, Past
  <3>5. Behind(k2, row1)'
   <4>1. CASE k.event \in history'.crossed BY <3>1,<4>1 DEF Behind
   <4>2. CASE k.event \notin history'.crossed /\ row1 = row BY <1>1,<2>8,<3>1,<3>2,<4>2 DEF Behind
   <4>3. CASE k.event \notin history'.crossed /\ row1 # row
    <5>1. k2.rev < row1.rev BY <1>5,<2>3,<2>8,<2>10,<3>1,<3>2,<4>3 DEF Behind
    <5> QED BY <2>3,<3>1,<3>2,<5>1 DEF Behind
   <4> QED BY <4>1,<4>2,<4>3
  <3>6. Alone(k2, row1)' BY <3>1,<3>3 DEF Alone
  <3> QED BY <2>4,<3>1,<3>4,<3>5,<3>6 DEF CommandFine, Placed, Behind, Alone
 <2>14. Settling' BY <1>1,<1>2,<1>3,<1>5,<2>6,<2>7,<2>8,<2>9,<2>11,<2>12,<2>13, SettlingAt
 <2> QED BY <2>4,<2>7,<2>8,<2>14
<1> QED BY <1>7,<1>8

LEMMA AppendSettling ==
  ASSUME Types, Serving, Informed, Settling, NEW c \in Commands, append(c)
  PROVE  Settling' /\ commands' \in [Commands -> Command]
<1>1. commands[c].pc = "append" /\ UNCHANGED <<binding, ledger>> BY DEF append
<1>2. Running(c) BY <1>1 DEF Running
<1>3. PICK k \in Command : k = commands[c] BY DEF Types
<1>4. PICK row \in LedgerRow : row = ledger[k.event] BY <1>2,<1>3, InProgress
<1>5. PICK r \in Realms : r = k.realm BY <1>2,<1>3, InProgress
<1>6. PICK rev \in Nat : rev = k.rev BY <1>2,<1>3, InProgress
<1>7. PICK e \in Events : e = k.event BY <1>2,<1>3, InProgress
<1>8. /\ k.pc = "append" /\ row.rev \in Nat /\ RowFine(e, row) /\ Placed(k) /\ Behind(k, row) /\ Alone(k, row)
      /\ Past(r, rev) /\ row.state # "none" /\ row.realm \in Realms /\ Past(row.realm, row.rev)
 <2>1. /\ k.pc = "append" /\ row.rev \in Nat /\ RowFine(e, row) /\ Placed(k) /\ Behind(k, row) /\ Alone(k, row)
  BY <1>1,<1>2,<1>3,<1>4,<1>7, InProgress
 <2> QED BY <1>4,<1>5,<1>6,<1>7,<2>1 DEF Placed, RowFine
<1> DEFINE current == Ready(r, rev)
           answer == AppendAnswer(r, e, rev, current)
<1>9. commands[c].realm = r /\ commands[c].rev = rev /\ commands[c].event = e BY <1>3,<1>5,<1>6,<1>7
<1>10. /\ history'.overlapped = history.overlapped /\ history'.crossed = history.crossed
       /\ \A q \in Realms : q # r => stream'[q] = stream[q]
       /\ answer \in Outcomes
       /\ answer = "transition" <=> Receipt(r, e) = 0 /\ (~current \/ Obsolete(stream[r], rev))
       /\ Receipt(r, e) # 0 => answer = "committed"
       /\ IF answer = "committed" /\ Receipt(r, e) = 0
          THEN stream'[r].receipts = [stream[r].receipts EXCEPT ![e] = stream[r].next]
          ELSE stream'[r].receipts = stream[r].receipts
 <2>1. AppendEffect(r, rev, e, current, answer) BY <1>9, AppendServing
 <2> QED BY <2>1 DEF AppendEffect
<1>11. IF answer # "transition"
       THEN commands' = [commands EXCEPT ![c].pc = "finalize", ![c].outcome = answer]
       ELSE IF Shared /\ ~commands[c].second THEN commands' = [commands EXCEPT ![c].pc = "resolve"] ELSE Ended(c)
 BY <1>9 DEF append
<1> HIDE DEF answer
<1>12. commands \in [Commands -> Command] /\ binding \in Target /\ binding.rev \in Nat /\ stream[r] \in Stream
 BY DEF Types, Target
<1>13. stream[r].next \in Nat \ {0} /\ stream[r].receipts \in [Events -> Nat] /\ stream[r].rev \in Nat
 BY <1>12 DEF Stream
\* The stream took the event in: the binding is the route, and so is the row.
<1> DEFINE inserted == answer = "committed" /\ Receipt(r, e) = 0
<1>14. inserted => binding.rev = rev
 <2>1. inserted => current BY <1>10
 <2>2. ~Shared => binding.rev = 0 BY DEF Informed, BindingInv, BindingFine
 <2>3. rev <= binding.rev BY <1>8 DEF Past
 <2> QED BY <1>12,<2>1,<2>2,<2>3 DEF Ready
<1>15. inserted /\ e \notin history.crossed => row.rev = rev /\ row.realm = r
 BY <1>5,<1>6,<1>7,<1>8,<1>12,<1>14 DEF Behind, Past
<1>16. /\ stream'[r].receipts[e] = IF inserted THEN stream[r].next ELSE stream[r].receipts[e]
       /\ \A q \in Realms : q # r => stream'[q].receipts[e] = stream[q].receipts[e]
       /\ \A q \in Realms, x \in Events : x # e => stream'[q].receipts[x] = stream[q].receipts[x] BY <1>10,<1>13
<1>17. answer = "transition" => stream[r].receipts[e] = 0 /\ ~inserted /\ (Shared => rev < binding.rev)
 <2>1. answer = "transition" => stream[r].receipts[e] = 0 /\ ~inserted /\ (~current \/ Obsolete(stream[r], rev))
  BY <1>10 DEF Receipt
 <2>2. ASSUME Shared, ~current PROVE rev < binding.rev
  <3>1. binding = [realm |-> binding.realm, rev |-> binding.rev] BY <1>12 DEF Target
  <3>2. ~(binding.realm = r /\ binding.rev = rev) BY <2>2,<3>1 DEF Ready
  <3>3. rev <= binding.rev /\ (rev = binding.rev => r = binding.realm) BY <1>8 DEF Past
  <3> QED BY <1>12,<3>2,<3>3
 <2>3. ASSUME Shared, Obsolete(stream[r], rev) PROVE rev < binding.rev
  <3>1. stream[r].rev <= binding.rev /\ (stream[r].rev = binding.rev /\ stream[r].moved => binding.realm # r)
   BY DEF Informed, BindingInv, RealmKnows
  <3>2. rev < stream[r].rev \/ (rev = stream[r].rev /\ stream[r].moved) BY <2>3 DEF Obsolete
  <3>3. rev <= binding.rev /\ (rev = binding.rev => r = binding.realm) BY <1>8 DEF Past
  <3> QED BY <1>12,<1>13,<3>1,<3>2,<3>3
 <2> QED BY <2>1,<2>2,<2>3
<1>18. answer = "committed" => stream'[r].receipts[e] # 0 BY <1>13,<1>16 DEF Receipt
<1>19. Receipt(r, e) # 0 <=> stream[r].receipts[e] # 0 BY DEF Receipt
<1> HIDE DEF inserted, current
<1>20. OtherEvents(e) BY <1>1,<1>10,<1>16 DEF OtherEvents
<1>21. RowFine(e, ledger[e])'
 <2>1. ASSUME e \notin history.crossed, NEW q \in Realms, stream'[q].receipts[e] # 0 PROVE q = row.realm
  <3>1. CASE q = r /\ inserted BY <1>15,<2>1,<3>1
  <3>2. CASE ~(q = r /\ inserted) BY <1>8,<1>16,<2>1,<3>2 DEF RowFine
  <3> QED BY <3>1,<3>2
 <2>2. ASSUME e \notin history.crossed, row.state = "committed" PROVE stream'[row.realm].receipts[e] # 0
  BY <1>8,<1>13,<1>16,<2>2 DEF RowFine
 <2>3. ASSUME e \notin history.crossed, row.state = "rejected", e \notin history.overlapped PROVE FALSE
  BY <1>7,<1>8,<2>3 DEF Alone
 <2> QED BY <1>1,<1>4,<1>7,<1>8,<1>10,<2>1,<2>2,<2>3 DEF RowFine, Past
<1>22. ASSUME NEW d \in Commands, d # c, Running(d), commands[d].event = e, commands'[d] = commands[d]
       PROVE  CommandFine(commands[d])'
 <2>1. PICK k2 : k2 = commands[d] /\ k2.event = e /\ k2.pc # "idle" /\ commands'[d] = k2 BY <1>22 DEF Running
 <2>2. Placed(k2) /\ Behind(k2, row) /\ k2.realm \in Realms /\ k2.rev \in Nat BY <1>4,<1>7,<1>22,<2>1, InProgress
 <2>3. e \in history.overlapped BY <1>2,<1>9,<1>22 DEF Settling
 <2>4. Placed(k2)'
  <3>1. k2.pc = "finalize" /\ k2.outcome = "committed" => stream'[k2.realm].receipts[e] # 0
   BY <1>13,<1>16,<2>1,<2>2 DEF Placed
  <3> QED BY <1>1,<2>1,<2>2,<3>1 DEF Placed, Past
 <2>5. Behind(k2, row)'
  <3>1. ASSUME e \notin history.crossed, k2.pc \in {"resolve", "repin"}, k2.rev = row.rev
        PROVE  stream'[k2.realm].receipts[e] = 0
   <4>1. k2.rev < binding.rev /\ stream[k2.realm].receipts[e] = 0 BY <2>1,<2>2,<3>1 DEF Placed, Behind
   <4>2. ~inserted BY <1>12,<1>14,<1>15,<2>2,<3>1,<4>1
   <4> QED BY <1>16,<2>2,<4>1,<4>2
  <3> QED BY <1>10,<2>1,<2>2,<3>1 DEF Behind
 <2>6. Alone(k2, row)' BY <1>10,<2>1,<2>3 DEF Alone
 <2> QED BY <1>1,<1>4,<1>7,<2>1,<2>4,<2>5,<2>6 DEF CommandFine, Placed, Behind, Alone
<1>23. /\ commands' \in [Commands -> Command] /\ CommandFine(commands[c])'
       /\ commands'[c].pc # "idle" => commands'[c].event = e
       /\ \A d \in Commands : d # c => commands'[d] = commands[d]
 <2>1. CASE Ended(c) BY <2>1, Idle
 <2>2. ASSUME NEW k1 \in Command, commands' = [commands EXCEPT ![c] = k1], CommandFine(k1)', k1.event = e
       PROVE  /\ commands' \in [Commands -> Command] /\ CommandFine(commands[c])'
              /\ commands'[c].pc # "idle" => commands'[c].event = e
              /\ \A d \in Commands : d # c => commands'[d] = commands[d]
  BY <1>12,<2>2 DEF CommandFine, Placed, Behind, Alone
 <2>3. CASE answer # "transition"
  <3>1. PICK k1 : k1 = [k EXCEPT !.pc = "finalize", !.outcome = answer] OBVIOUS
  <3>2. /\ k1 \in Command /\ k1.pc = "finalize" /\ k1.outcome = answer /\ k1.event = e /\ k1.realm = r /\ k1.rev = rev
   BY <1>5,<1>6,<1>7,<1>10,<3>1 DEF Command
  <3>3. commands' = [commands EXCEPT ![c] = k1] BY <1>3,<1>11,<1>12,<2>3,<3>1 DEF Command
  <3>4. Placed(k1)' BY <1>1,<1>4,<1>7,<1>8,<1>18,<3>2 DEF Placed, Past
  <3>5. Behind(k1, row)' BY <1>5,<1>6,<1>7,<1>8,<1>10,<3>2 DEF Behind
  <3>6. Alone(k1, row)'
   <4>1. ASSUME e \notin history.overlapped
         PROVE  row.state = "pending" /\ (e \notin history.crossed => rev = row.rev)
    BY <1>6,<1>7,<1>8,<4>1 DEF Alone
   <4>2. ASSUME e \notin history.overlapped, e \notin history.crossed, answer # "committed"
         PROVE  \A q \in Realms : stream'[q].receipts[e] = 0
    <5>1. stream[r].receipts[e] = 0 /\ ~inserted BY <1>10,<1>19,<4>2 DEF inserted
    <5>2. rev = row.rev BY <4>1,<4>2
    <5>3. row.realm = r BY <1>5,<1>6,<1>7,<1>8,<4>2,<5>2 DEF Behind
    <5> QED BY <1>8,<1>16,<4>2,<5>1,<5>3 DEF RowFine
   <4> QED BY <1>10,<3>2,<4>1,<4>2 DEF Alone, Unwritten
  <3>7. CommandFine(k1)' BY <1>1,<1>4,<1>7,<3>2,<3>4,<3>5,<3>6 DEF CommandFine, Placed, Behind, Alone
  <3> QED BY <2>2,<3>2,<3>3,<3>7
 <2>4. CASE answer = "transition" /\ Shared /\ ~commands[c].second
  <3>1. PICK k1 : k1 = [k EXCEPT !.pc = "resolve"] OBVIOUS
  <3>2. /\ k1 \in Command /\ k1.pc = "resolve" /\ k1.event = e /\ k1.realm = r /\ k1.rev = rev
   BY <1>5,<1>6,<1>7,<3>1 DEF Command
  <3>3. commands' = [commands EXCEPT ![c] = k1] BY <1>3,<1>11,<1>12,<2>4,<3>1 DEF Command
  <3>4. Placed(k1)' BY <1>1,<1>4,<1>7,<1>8,<1>17,<2>4,<3>2 DEF Placed, Past
  <3>5. Behind(k1, row)' BY <1>5,<1>6,<1>7,<1>8,<1>10,<1>16,<1>17,<2>4,<3>2 DEF Behind
  <3>6. Alone(k1, row)' BY <1>6,<1>7,<1>8,<1>10,<3>2 DEF Alone
  <3>7. CommandFine(k1)' BY <1>1,<1>4,<1>7,<3>2,<3>4,<3>5,<3>6 DEF CommandFine, Placed, Behind, Alone
  <3> QED BY <2>2,<3>2,<3>3,<3>7
 <2> QED BY <1>11,<2>1,<2>3,<2>4
<1>24. \A d \in Commands : d # c /\ Running(d) /\ commands[d].event = e => CommandFine(commands[d])'
 BY <1>22,<1>23
<1>25. Settling' BY <1>1,<1>2,<1>9,<1>10,<1>20,<1>21,<1>23,<1>24, SettlingAt
<1> QED BY <1>23,<1>25

-----------------------------------------------------------------------------
(* Every step keeps the invariant                                            *)

\* Grants are of realms.
LEMMA GrantRealms ==
  ASSUME Serving
  PROVE  \A g \in Grants : grants[g].status # "none" => grants[g].realm \in Realms
BY DEF Serving, GrantsFine

LEMMA AppendInformed ==
  ASSUME Types, Serving, Informed, NEW c \in Commands, append(c), NEW r \in Realms, NEW rev \in Nat, NEW e \in Events,
         commands[c].realm = r, commands[c].rev = rev, commands[c].event = e
  PROVE  Informed' /\ interest' \in [Realms -> Interest]
<1>1. /\ UNCHANGED <<setting, binding, notices, posting, grants>>
      /\ IF Ready(r, rev) THEN Watched(r, rev, TRUE) ELSE UNCHANGED interest BY DEF append
<1> DEFINE current == Ready(r, rev)
           answer == AppendAnswer(r, e, rev, Ready(r, rev))
<1>2. AppendEffect(r, rev, e, current, answer) BY AppendServing
<1> HIDE DEF answer
<1>3. GrantsKept BY <1>1, SteadyBinding
<1>4. CASE ~(Shared /\ current)
 <2>1. SameBinding /\ history'.forgotten = history.forgotten BY <1>2,<1>4 DEF AppendEffect, SameBinding
 <2>2. UNCHANGED interest BY <1>1,<1>4 DEF Watched
 <2>3. Informed' BY <1>1,<1>3,<2>1,<2>2, GrantRealms, InformedStays
 <2> QED BY <2>2,<2>3 DEF Types
<1>5. CASE Shared /\ current
 <2>1. binding.realm = r /\ binding.rev = rev BY <1>5 DEF Ready
 <2>2. PICK byAppend \in BOOLEAN : byAppend = TRUE OBVIOUS
 <2>3. interest' = [interest EXCEPT ![r] = [rev |-> binding.rev, byAppend |-> byAppend]]
  BY <1>1,<1>5,<2>1,<2>2 DEF Watched
 <2>4. /\ \A q \in Realms : q # r => stream'[q] = stream[q]
       /\ \/ stream'[r].rev = binding.rev /\ (stream'[r].moved => stream[r].moved /\ binding.rev = stream[r].rev)
          \/ stream'[r].rev = stream[r].rev /\ stream'[r].moved = stream[r].moved
       /\ history'.forgotten = IF stream'[r].rev = binding.rev THEN history.forgotten \ {r} ELSE history.forgotten
  BY <1>2,<1>5,<2>1 DEF AppendEffect
 <2> QED BY <1>1,<1>3,<1>5,<2>1,<2>3,<2>4, GrantRealms, WatchInformed
<1> QED BY <1>4,<1>5

LEMMA IssueInformed ==
  ASSUME Types, Serving, Informed, NEW g \in Grants, NEW resetBacklog \in BOOLEAN, issueGrant(g, resetBacklog),
         NEW r \in Realms, r = binding.realm
  PROVE  Informed' /\ interest' \in [Realms -> Interest]
<1>1. UNCHANGED <<setting, binding, notices, posting>> /\ Watched(r, binding.rev, FALSE) BY DEF issueGrant
<1>2. /\ history'.forgotten = IF Shared THEN history.forgotten \ {r} ELSE history.forgotten
      /\ Bound(r, binding.rev) /\ (GrantsKept \/ Replaces(g, r, binding.rev)) BY IssueServing
<1>3. CASE ~Shared
 <2>1. UNCHANGED interest BY <1>1,<1>3 DEF Watched
 <2>2. SameBinding BY <1>2,<1>3 DEF Bound, SameBinding
 <2>3. CASE GrantsKept BY <1>1,<1>2,<1>3,<2>1,<2>2,<2>3, GrantRealms, InformedStays DEF Types
 <2>4. CASE Replaces(g, r, binding.rev) BY <1>1,<1>2,<1>3,<2>1,<2>2,<2>4, GrantRealms, OwnGrantInformed DEF Types
 <2> QED BY <1>2,<2>3,<2>4
<1>4. CASE Shared
 <2>1. PICK byAppend \in BOOLEAN : byAppend = FALSE OBVIOUS
 <2>2. interest' = [interest EXCEPT ![r] = [rev |-> binding.rev, byAppend |-> byAppend]]
  BY <1>1,<1>4,<2>1 DEF Watched
 <2>3. /\ \A q \in Realms : q # r => stream'[q] = stream[q]
       /\ stream'[r].rev = binding.rev /\ (stream'[r].moved => stream[r].moved /\ binding.rev = stream[r].rev)
  BY <1>2,<1>4 DEF Bound
 <2> QED BY <1>1,<1>2,<1>4,<2>2,<2>3, GrantRealms, WatchInformed
<1> QED BY <1>3,<1>4

\* A step of a stream and its connections: the registry, the commands and the
\* ledger stay, and so does what the streams know of the binding.
Quiet == UNCHANGED <<setting, binding, interest, notices, posting, ledger, commands>>
Untold == /\ history'.overlapped = history.overlapped /\ history'.crossed = history.crossed
          /\ history'.forgotten = history.forgotten

LEMMA QuietStep ==
  ASSUME IInv, Quiet, Untold, Serving', Typed, Steady, GrantsKept, grants' \in [Grants -> Grant],
         history' \in History, UNCHANGED failures, aged' \in [Realms -> Nat]
  PROVE  IInv'
<1>1. Types' BY DEF IInv, Types, Quiet, Typed
<1>2. Informed' BY SteadyBinding, GrantRealms, InformedStays DEF IInv, Quiet, Untold
<1>3. Settling'
 <2>1. SameReceipts BY DEF Steady, Frame, SameReceipts
 <2>2. binding.rev \in Nat BY DEF IInv, Types, Target
 <2> QED BY <2>1,<2>2, SettlingStays DEF IInv, Quiet, Untold
<1> QED BY <1>1,<1>2,<1>3 DEF IInv

LEMMA AcceptStep ==
  ASSUME IInv, NEW s \in Sockets, NEW g \in Grants, acceptDurableEventSocket(s, g)
  PROVE  IInv'
<1>1. Quiet /\ Untold /\ UNCHANGED <<grants, history, failures, aged>>
 BY DEF acceptDurableEventSocket, Quiet, Untold
<1>2. Serving' /\ Typed /\ Steady BY AcceptServing DEF IInv
<1> QED BY <1>1,<1>2, SteadyBinding, QuietStep DEF IInv, Types

LEMMA RegisterStep ==
  ASSUME IInv, NEW s \in Sockets, registerSocket(s)
  PROVE  IInv'
<1>1. Quiet /\ Untold /\ UNCHANGED <<grants, history, failures, aged>> BY DEF registerSocket, Quiet, Untold
<1>2. Serving' /\ Typed /\ Steady BY RegisterServing DEF IInv
<1> QED BY <1>1,<1>2, SteadyBinding, QuietStep DEF IInv, Types

LEMMA HandlesStep ==
  ASSUME IInv, NEW s \in Sockets, PageHandles(s)
  PROVE  IInv'
<1>1. /\ Quiet /\ UNCHANGED <<grants, failures, aged>> /\ sockets[s].phase = "registered"
      /\ history' = [history EXCEPT !.handled[grants[sockets[s].grant].realm] = @ \cup {sockets[s].sent}]
 BY DEF PageHandles, Quiet
<1>2. Serving' /\ Typed /\ Steady BY HandlesServing DEF IInv
<1>3. PICK r \in Realms : r = grants[sockets[s].grant].realm BY <1>1, OfRealm DEF IInv
<1>4. PICK q \in Nat : q = sockets[s].sent BY DEF IInv, Types, Socket
<1>5. history \in History /\ history' = [history EXCEPT !.handled[r] = @ \cup {q}]
 BY <1>1,<1>3,<1>4 DEF IInv, Types
<1>6. history' \in History /\ Untold BY <1>5 DEF History, Untold
<1> QED BY <1>1,<1>2,<1>6, SteadyBinding, QuietStep DEF IInv, Types

LEMMA LeaveStep ==
  ASSUME IInv, NEW s \in Sockets, PageLeaves(s)
  PROVE  IInv'
<1>1. Quiet /\ Untold /\ UNCHANGED <<grants, history, failures, aged>> BY DEF PageLeaves, Quiet, Untold
<1>2. Serving' /\ Typed /\ Steady BY LeaveServing DEF IInv
<1> QED BY <1>1,<1>2, SteadyBinding, QuietStep DEF IInv, Types

LEMMA CloseStep ==
  ASSUME IInv, NEW s \in Sockets, closeDurableEventSocket(s)
  PROVE  IInv'
<1>1. Quiet /\ Untold /\ UNCHANGED <<grants, history, failures, aged>>
 BY DEF closeDurableEventSocket, Quiet, Untold
<1>2. Serving' /\ Typed /\ Steady BY CloseServing DEF IInv
<1> QED BY <1>1,<1>2, SteadyBinding, QuietStep DEF IInv, Types

LEMMA AckStep ==
  ASSUME IInv, NEW s \in Sockets, acknowledgeSocketEvent(s)
  PROVE  IInv'
<1>1. Quiet /\ Untold /\ UNCHANGED <<grants, history, failures, aged>>
 BY DEF acknowledgeSocketEvent, Quiet, Untold
<1>2. Serving' /\ Typed /\ Steady BY AckServing DEF IInv
<1> QED BY <1>1,<1>2, SteadyBinding, QuietStep DEF IInv, Types

LEMMA AlarmStep ==
  ASSUME IInv, NEW r \in Realms, alarm(r)
  PROVE  IInv'
<1>1. Quiet /\ UNCHANGED <<grants, failures, aged>> /\ history' = Gapped(r) BY DEF alarm, Quiet
<1>2. Serving' /\ Typed /\ Steady /\ history' \in History BY AlarmServing DEF IInv
<1>3. Untold BY <1>1,<1>2, GappedHistory DEF IInv, Types, Typed, Untold
<1> QED BY <1>1,<1>2,<1>3, SteadyBinding, QuietStep DEF IInv, Types

LEMMA GrantExpiresStep ==
  ASSUME IInv, NEW g \in Grants, GrantExpires(g)
  PROVE  IInv'
<1>1. Quiet /\ Untold /\ UNCHANGED <<history, failures, aged>> BY DEF GrantExpires, Quiet, Untold
<1>2. Serving' /\ Typed /\ Steady /\ grants' \in [Grants -> Grant] /\ GrantsKept BY ExpireServing DEF IInv
<1> QED BY <1>1,<1>2, QuietStep DEF IInv, Types

LEMMA RevokeStep ==
  ASSUME IInv, NEW g \in Grants, revokeGrant(g)
  PROVE  IInv'
<1>1. Quiet /\ Untold /\ UNCHANGED <<history, failures, aged>> BY DEF revokeGrant, Quiet, Untold
<1>2. Serving' /\ Typed /\ Steady /\ grants' \in [Grants -> Grant] /\ GrantsKept BY RevokeServing DEF IInv
<1> QED BY <1>1,<1>2, QuietStep DEF IInv, Types

LEMMA EventExpiresStep ==
  ASSUME IInv, NEW r \in Realms, EventExpires(r)
  PROVE  IInv'
<1>1. /\ Quiet /\ Untold /\ UNCHANGED <<setting, stream, grants, sockets, history, failures>>
      /\ aged' = [aged EXCEPT ![r] = @ + 1] BY DEF EventExpires, Quiet, Untold
<1>2. Serving' /\ Typed /\ Steady BY <1>1, ServingStays DEF IInv
<1>3. aged' \in [Realms -> Nat] BY <1>1 DEF IInv, Types
<1> QED BY <1>1,<1>2,<1>3, SteadyBinding, QuietStep DEF IInv, Types

\* A step of a command that leaves registry, streams and connections alone
LEMMA CommandStep ==
  ASSUME IInv, UNCHANGED <<setting, binding, interest, notices, posting, stream, grants, sockets, aged>>,
         Settling', commands' \in [Commands -> Command], ledger' \in [Events -> LedgerRow], history' \in History,
         history'.forgotten = history.forgotten, failures' \in Nat,
         history'.handled = history.handled, history'.declared = history.declared
  PROVE  IInv'
<1>1. Serving' /\ Typed /\ Steady BY ServingStays DEF IInv
<1>2. Informed' BY <1>1, SteadyBinding, GrantRealms, InformedStays DEF IInv
<1>3. Types' BY DEF IInv, Types
<1> QED BY <1>1,<1>2,<1>3 DEF IInv

LEMMA PrepareStep ==
  ASSUME IInv, NEW c \in Commands, NEW e \in Events, prepare(c, e)
  PROVE  IInv'
<1>1. UNCHANGED <<setting, binding, interest, notices, posting, stream, grants, sockets, aged, failures>>
 BY DEF prepare
<1> QED BY <1>1, PrepareSettling, CommandStep DEF IInv, Types

LEMMA FinalizeStep ==
  ASSUME IInv, NEW c \in Commands, finalize(c)
  PROVE  IInv'
<1>1. UNCHANGED <<setting, binding, interest, notices, posting, stream, grants, sockets, aged, failures, history>>
 BY DEF finalize
<1> QED BY <1>1, FinalizeSettling, CommandStep DEF IInv, Types

LEMMA ResolveStep ==
  ASSUME IInv, NEW c \in Commands, resolve(c)
  PROVE  IInv'
<1>1. UNCHANGED <<setting, binding, interest, notices, posting, ledger, stream, grants, sockets, aged, failures, history>>
 BY DEF resolve
<1> QED BY <1>1, ResolveSettling, CommandStep DEF IInv, Types

LEMMA RepinStep ==
  ASSUME IInv, NEW c \in Commands, repin(c)
  PROVE  IInv'
<1>1. UNCHANGED <<setting, binding, interest, notices, posting, stream, grants, sockets, aged, failures>>
 BY DEF repin
<1> QED BY <1>1, RepinSettling, CommandStep DEF IInv, Types

LEMMA DiesStep ==
  ASSUME IInv, NEW c \in Commands, CommandDies(c)
  PROVE  IInv'
<1>1. UNCHANGED <<setting, binding, interest, notices, posting, ledger, stream, grants, sockets, aged, history>>
 BY DEF CommandDies
<1> QED BY <1>1, DiesSettling, CommandStep DEF IInv, Types

LEMMA AppendStep ==
  ASSUME IInv, NEW c \in Commands, append(c)
  PROVE  IInv'
<1>1. UNCHANGED <<setting, binding, notices, posting, ledger, grants, aged, failures>> /\ Running(c)
 BY DEF append, Running
<1>2. PICK r \in Realms : r = commands[c].realm BY <1>1, InProgress DEF IInv
<1>3. PICK rev \in Nat : rev = commands[c].rev BY <1>1, InProgress DEF IInv
<1>4. PICK e \in Events : e = commands[c].event BY <1>1, InProgress DEF IInv
<1>5. Serving' /\ Typed /\ history' \in History BY <1>2,<1>3,<1>4, AppendServing DEF IInv
<1>6. Informed' /\ interest' \in [Realms -> Interest] BY <1>2,<1>3,<1>4, AppendInformed DEF IInv
<1>7. Settling' /\ commands' \in [Commands -> Command] BY AppendSettling DEF IInv
<1>8. Types' BY <1>1,<1>5,<1>6,<1>7 DEF IInv, Types, Typed
<1> QED BY <1>5,<1>6,<1>7,<1>8 DEF IInv

\* A step of the registry or of an operator, about the binding
LEMMA BindingStep ==
  ASSUME IInv, UNCHANGED <<setting, ledger, commands, aged>>, SameReceipts, Serving', Typed, Informed',
         binding' \in Target, binding.rev < binding'.rev \/ UNCHANGED binding,
         interest' \in [Realms -> Interest], notices' \in [Realms -> Notice], posting' \in [Realms -> Notice],
         grants' \in [Grants -> Grant], history' \in History, failures' \in Nat,
         history'.overlapped = history.overlapped, history'.crossed = history.crossed
  PROVE  IInv'
<1>1. binding.rev \in Nat /\ binding'.rev \in Nat BY DEF IInv, Types, Target
<1>2. Settling' BY <1>1, SettlingStays DEF IInv
<1>3. Types' BY DEF IInv, Types, Typed
<1> QED BY <1>2,<1>3 DEF IInv

LEMMA AdvanceStep ==
  ASSUME IInv, NEW to \in SomeRealm, advanceDurableEventBindings(to)
  PROVE  IInv'
<1>1. UNCHANGED <<setting, interest, posting, ledger, commands, stream, grants, sockets, aged, failures>>
 BY DEF advanceDurableEventBindings
<1>2. /\ Informed' /\ binding' \in Target /\ notices' \in [Realms -> Notice] /\ history' \in History
      /\ history'.handled = history.handled /\ history'.declared = history.declared
      /\ history'.overlapped = history.overlapped /\ history'.crossed = history.crossed
 BY AdvanceInformed DEF IInv
<1>3. Serving' /\ Typed BY <1>1,<1>2, ServingStays DEF IInv
<1>4. binding.rev < binding'.rev
 <2>1. binding.rev \in Nat BY DEF IInv, Types, Target
 <2>2. binding'.rev = binding.rev + 1 BY DEF advanceDurableEventBindings
 <2> QED BY <2>1,<2>2
<1>5. SameReceipts BY <1>1 DEF SameReceipts
<1> QED BY <1>1,<1>2,<1>3,<1>4,<1>5, BindingStep DEF IInv, Types

LEMMA LapseStep ==
  ASSUME IInv, NEW r \in Realms, InterestLapses(r)
  PROVE  IInv'
<1>1. UNCHANGED <<setting, binding, notices, posting, ledger, commands, stream, grants, sockets, aged, failures>>
 BY DEF InterestLapses
<1>2. /\ Informed' /\ interest' \in [Realms -> Interest] /\ history' \in History
      /\ history'.handled = history.handled /\ history'.declared = history.declared
      /\ history'.overlapped = history.overlapped /\ history'.crossed = history.crossed BY LapseInformed DEF IInv
<1>3. Serving' /\ Typed BY <1>1,<1>2, ServingStays DEF IInv
<1>4. SameReceipts BY <1>1 DEF SameReceipts
<1> QED BY <1>1,<1>2,<1>3,<1>4, BindingStep DEF IInv, Types

LEMMA ClaimStep ==
  ASSUME IInv, NEW r \in Realms, claimDue(r)
  PROVE  IInv'
<1>1. UNCHANGED <<setting, binding, interest, notices, ledger, commands, stream, grants, sockets, aged, failures, history>>
 BY DEF claimDue
<1>2. Informed' /\ posting' \in [Realms -> Notice] BY ClaimInformed DEF IInv
<1>3. Serving' /\ Typed BY <1>1, ServingStays DEF IInv
<1>4. SameReceipts BY <1>1 DEF SameReceipts
<1> QED BY <1>1,<1>2,<1>3,<1>4, BindingStep DEF IInv, Types

\* What a stream does with a notice, for the three parts
LEMMA Applied ==
  ASSUME IInv, NEW r \in Realms, Commit(r, applyBindingNotification(r, posting[r])),
         UNCHANGED <<setting, grants, history>>
  PROVE  Serving' /\ Typed /\ SameReceipts /\ Told(r, posting[r])
<1>1. /\ Serving' /\ Typed /\ stream'[r].receipts = stream[r].receipts
      /\ \A q \in Realms : q # r => stream'[q] = stream[q]
      /\ IF Stale(stream[r], posting[r]) THEN stream'[r].rev = stream[r].rev /\ stream'[r].moved = stream[r].moved
         ELSE stream'[r].rev = posting[r].rev /\ (stream'[r].moved <=> posting[r].to # r) BY ApplyServing DEF IInv
<1> QED BY <1>1 DEF SameReceipts, Told

LEMMA DeliverStep ==
  ASSUME IInv, NEW r \in Realms, deliverOne(r)
  PROVE  IInv'
<1>1. /\ Commit(r, applyBindingNotification(r, posting[r]))
      /\ UNCHANGED <<setting, binding, ledger, commands, grants, aged, failures, history>> BY DEF deliverOne
<1>2. Serving' /\ Typed /\ SameReceipts /\ Told(r, posting[r]) BY <1>1, Applied
<1>3. /\ Informed' /\ interest' \in [Realms -> Interest] /\ notices' \in [Realms -> Notice]
      /\ posting' \in [Realms -> Notice] BY <1>2, GrantRealms, DeliverInformed DEF IInv
<1> QED BY <1>1,<1>2,<1>3, BindingStep DEF IInv, Types

LEMMA FailStep ==
  ASSUME IInv, NEW r \in Realms, DeliveryFails(r)
  PROVE  IInv'
<1>1. /\ Commit(r, applyBindingNotification(r, posting[r])) \/ UNCHANGED <<stream, sockets>>
      /\ UNCHANGED <<setting, binding, interest, notices, ledger, commands, grants, aged, history>>
 BY DEF DeliveryFails
<1>2. Serving' /\ Typed /\ SameReceipts /\ (Told(r, posting[r]) \/ UNCHANGED stream)
 <2>1. CASE Commit(r, applyBindingNotification(r, posting[r])) BY <1>1,<2>1, Applied
 <2>2. CASE UNCHANGED <<stream, sockets>> BY <1>1,<2>2, ServingStays DEF IInv, SameReceipts
 <2> QED BY <1>1,<2>1,<2>2
<1>3. Informed' /\ posting' \in [Realms -> Notice] /\ failures' \in Nat
 BY <1>2, GrantRealms, FailInformed DEF IInv
<1> QED BY <1>1,<1>2,<1>3, BindingStep DEF IInv, Types

LEMMA IssueStep ==
  ASSUME IInv, NEW g \in Grants, NEW resetBacklog \in BOOLEAN, issueGrant(g, resetBacklog)
  PROVE  IInv'
<1>1. UNCHANGED <<setting, binding, notices, posting, ledger, commands, aged, failures>> /\ binding.realm # None
 BY DEF issueGrant
<1>2. PICK r \in Realms : r = binding.realm BY <1>1 DEF IInv, Types, Target, SomeRealm
<1>3. /\ Serving' /\ Typed /\ grants' \in [Grants -> Grant] /\ history' \in History
      /\ history'.overlapped = history.overlapped /\ history'.crossed = history.crossed
      /\ Bound(r, binding.rev) BY <1>2, IssueServing DEF IInv
<1>4. SameReceipts BY <1>3 DEF Bound, SameReceipts
<1>5. Informed' /\ interest' \in [Realms -> Interest] BY <1>2, IssueInformed DEF IInv
<1> QED BY <1>1,<1>3,<1>4,<1>5, BindingStep DEF IInv, Types

-----------------------------------------------------------------------------
(* The invariant                                                             *)

LEMMA InitTypes ==
  ASSUME Init
  PROVE  Types
<1>1. setting \in Settings /\ setting.revisions \in Nat BY SettingTypes DEF Init
<1>2. binding \in Target BY HomeAssumption DEF Init, Target, SomeRealm
<1>3. NoInterest \in Interest /\ NoNotice \in Notice /\ NoRow \in LedgerRow /\ NoGrant \in Grant
 BY DEF NoInterest, Interest, NoNotice, Notice, SomeRealm, NoRow, LedgerRow, NoGrant, Grant
<1>4. NoCommand \in Command BY DEF NoCommand, Command, Target, SomeRealm, Outcomes
<1>5. EmptyStream \in Stream
 <2>1. [e \in Events |-> 0] \in [Events -> Nat] /\ NoGap \in [first : Nat, last : Nat] BY DEF NoGap
 <2> HIDE DEF NoGap
 <2> QED BY <2>1 DEF EmptyStream, Stream, SomeGrant
<1>6. NoSocket \in Socket BY DEF NoSocket, Socket, SomeGrant
<1>7. NoHistory \in History BY DEF NoHistory, History
<1> QED BY <1>1,<1>2,<1>3,<1>4,<1>5,<1>6,<1>7 DEF Init, Types

LEMMA InitServing ==
  ASSUME Init
  PROVE  Serving
<1>1. /\ \A r \in Realms : stream[r] = EmptyStream /\ history.handled[r] = {} /\ history.declared[r] = {}
      /\ \A s \in Sockets : sockets[s].phase = "closed"
      /\ \A g \in Grants : grants[g].status = "none" BY DEF Init, NoHistory, NoSocket, NoGrant
<1>2. /\ EmptyStream.next = 1 /\ EmptyStream.acked = 0 /\ EmptyStream.kept = {} /\ EmptyStream.gap = NoGap
      /\ EmptyStream.ready = FALSE /\ EmptyStream.holder = None
      /\ EmptyStream.receipts = [e \in Events |-> 0] BY DEF EmptyStream
<1>3. Range(EmptyStream.receipts) \ {0} = {} /\ 1 .. 0 = {}
 <2>1. \A x \in Range([e \in Events |-> 0]) : x = 0 BY DEF Range
 <2> QED BY <1>2,<2>1
<1>4. ASSUME NEW r \in Realms PROVE Good(r, stream[r], sockets, grants, history.handled[r], history.declared[r])
 <2>1. PICK st : st = stream[r] /\ st = EmptyStream BY <1>1
 <2>2. StreamFine(r, st, grants) BY <1>2,<1>3,<2>1 DEF StreamFine
 <2>3. At(r, sockets, grants) = {} BY <1>1 DEF At
 <2>4. Served(r, st, sockets, grants, {}) BY <2>3 DEF Served
 <2>5. Accounted(st, {}, {}) BY <1>2,<1>3,<2>1 DEF Accounted
 <2> QED BY <1>1,<2>1,<2>2,<2>4,<2>5 DEF Good
<1>5. ASSUME NEW r \in Realms PROVE Cardinality(stream[r].kept) <= setting.retained
 <2>1. setting.retained \in Nat BY SettingTypes DEF Init
 <2>2. Cardinality({}) = 0 BY FS_EmptySet
 <2>3. stream[r].kept = {} BY <1>1,<1>2
 <2> QED BY <2>1,<2>2,<2>3
<1>6. \A s \in Sockets : SocketFine(sockets[s], grants) BY <1>1 DEF SocketFine
<1>7. GrantsFine(grants) BY <1>1 DEF GrantsFine
<1> QED BY <1>4,<1>5,<1>6,<1>7 DEF Serving

LEMMA InitInformed ==
  ASSUME Init
  PROVE  Informed
<1>1. /\ binding = [realm |-> Home, rev |-> IF Shared THEN 1 ELSE 0]
      /\ \A r \in Realms : stream[r].rev = 0 /\ ~stream[r].moved /\ interest[r].rev = 0
                           /\ notices[r] = NoNotice /\ posting[r] = NoNotice
      /\ \A g \in Grants : grants[g].status = "none" BY DEF Init, EmptyStream, NoInterest, NoGrant
<1>2. BindingFine
 <2>1. setting \in Settings /\ setting.revisions \in Nat BY SettingTypes DEF Init
 <2>2. Shared => setting.revisions >= 1 BY <2>1, RevisionsAssumption DEF Shared
 <2> QED BY <1>1,<2>1,<2>2 DEF BindingFine
<1>3. \A r \in Realms : RealmKnows(r) BY <1>1 DEF RealmKnows, NoticeFine
<1>4. \A g \in Grants : GrantKnows(g) BY <1>1 DEF GrantKnows
<1>5. \A r \in Realms : MoveKnown(r) BY <1>1 DEF MoveKnown, Issued
<1> QED BY <1>2,<1>3,<1>4,<1>5 DEF Informed, BindingInv

LEMMA InitSettling ==
  ASSUME Init
  PROVE  Settling
<1>1. /\ \A e \in Events : ledger[e].state = "none"
      /\ \A c \in Commands : commands[c].pc = "idle"
      /\ \A r \in Realms, e \in Events : stream[r].receipts[e] = 0 BY DEF Init, NoRow, NoCommand, EmptyStream
<1> QED BY <1>1 DEF Settling, RowFine, CommandFine, Placed, Behind, Alone, Running

LEMMA InitInv == Init => IInv
BY InitTypes, InitServing, InitInformed, InitSettling DEF IInv

LEMMA IdleStep == IInv /\ UNCHANGED vars => IInv'
<1> SUFFICES ASSUME IInv, UNCHANGED vars PROVE IInv' OBVIOUS
<1>1. UNCHANGED <<setting, binding, interest, notices, posting, ledger, commands, stream, grants, sockets,
                  aged, failures, history>> BY DEF vars
<1> QED BY <1>1, CommandStep, SteadyBinding, ServingStays, SettlingStays DEF IInv, Types, Target, SameReceipts

LEMMA EveryStep == IInv /\ Next => IInv'
<1> SUFFICES ASSUME IInv, Next PROVE IInv' OBVIOUS
<1>1. ASSUME NEW c \in Commands, Publication(c) PROVE IInv'
 BY <1>1, PrepareStep, AppendStep, FinalizeStep, ResolveStep, RepinStep, DiesStep DEF Publication
<1>2. ASSUME Lifecycle PROVE IInv'
 BY <1>2, AdvanceStep, LapseStep, ClaimStep, DeliverStep, FailStep DEF Lifecycle, SomeRealm
<1>3. ASSUME NEW g \in Grants, Operator(g) \/ GrantExpires(g) PROVE IInv'
 BY <1>3, IssueStep, RevokeStep, GrantExpiresStep DEF Operator
<1>4. ASSUME NEW s \in Sockets, Connection(s) PROVE IInv'
 BY <1>4, AcceptStep, RegisterStep, HandlesStep, LeaveStep, CloseStep, AckStep DEF Connection
<1>5. ASSUME NEW r \in Realms, alarm(r) \/ EventExpires(r) PROVE IInv' BY <1>5, AlarmStep, EventExpiresStep
<1> QED BY <1>1,<1>2,<1>3,<1>4,<1>5 DEF Next

\* Streams, consumers, registry, ledger and commands agree in every state.
THEOREM StreamInvariant == Spec => []IInv
<1>1. Init => IInv BY InitInv
<1>2. IInv /\ [Next]_vars => IInv' BY EveryStep, IdleStep
<1> QED BY <1>1,<1>2, PTL DEF Spec

-----------------------------------------------------------------------------
(* What it means                                                             *)

\* A consumer is the one socket registered at the stream.
LEMMA ConsumerAt ==
  ASSUME IInv, NEW r \in Realms, NEW s \in Sockets, Consumer(r, s)
  PROVE  /\ s \in At(r, sockets, grants) /\ Follows(sockets[s], stream[r], grants)
         /\ InHand(sockets[s], stream[r], history.handled[r]) /\ stream[r].holder # None
         /\ \A t \in Sockets : Consumer(r, t) => t = s
<1>1. \A t \in Sockets : Consumer(r, t) => t \in At(r, sockets, grants) BY DEF Consumer, Holds, World, At
<1>2. Served(r, stream[r], sockets, grants, history.handled[r]) /\ SocketFine(sockets[s], grants)
 BY DEF IInv, Serving, Good
<1>3. sockets[s].phase = "registered" /\ sockets[s].grant = stream[r].holder BY DEF Consumer, Holds, World
<1>4. stream[r].holder # None BY <1>2,<1>3, NoneAssumption DEF SocketFine
<1> QED BY <1>1,<1>2,<1>4 DEF Served

\* The tables agree: TypeOK of the run.
THEOREM TypeCorrect == Spec => []TypeOK
<1>1. ASSUME IInv PROVE TypeOK
 <2>1. /\ setting \in Settings /\ binding.realm \in Realms \cup {None} /\ binding.rev \in 0 .. setting.revisions
  <3>1. setting \in Settings /\ binding \in Target /\ setting.revisions \in Nat
   BY <1>1, SettingTypes DEF IInv, Types
  <3>2. binding.rev <= setting.revisions BY <1>1 DEF IInv, Informed, BindingInv, BindingFine
  <3> QED BY <3>1,<3>2 DEF Target, SomeRealm
 <2>2. \A e \in Events : ledger[e].state \in {"none", "pending", "committed", "rejected"}
  BY <1>1 DEF IInv, Types, LedgerRow
 <2>3. ASSUME NEW r \in Realms
       PROVE  /\ stream[r].kept \subseteq stream[r].acked + 1 .. stream[r].next - 1
              /\ Cardinality(stream[r].kept) <= setting.retained
              /\ Range(stream[r].receipts) \ {0} = Sequences(r)
              /\ stream[r].ready => stream[r].holder # None /\ stream[r].gap = NoGap
  <3>1. StreamFine(r, stream[r], grants) /\ Cardinality(stream[r].kept) <= setting.retained
   BY <1>1 DEF IInv, Serving, Good
  <3> QED BY <3>1 DEF StreamFine, Sequences
 <2>4. ASSUME NEW r \in Realms PROVE Cardinality({s \in Sockets : Consumer(r, s)}) <= 1
  <3> DEFINE S == {s \in Sockets : Consumer(r, s)}
  <3>1. \A x, y \in S : x = y BY <1>1, ConsumerAt
  <3> HIDE DEF S
  <3> QED BY <3>1, AtMostOne DEF S
 <2>5. ASSUME NEW r \in Realms
       PROVE  Cardinality({g \in Grants : grants[g].realm = r /\ grants[g].status = "active"}) <= 1
  <3> DEFINE S == {g \in Grants : grants[g].realm = r /\ grants[g].status = "active"}
  <3>1. \A x, y \in S : x = y BY <1>1 DEF IInv, Serving, GrantsFine
  <3> HIDE DEF S
  <3> QED BY <3>1, AtMostOne DEF S
 <2>6. ASSUME NEW r \in Realms, NEW s \in Sockets, Consumer(r, s) PROVE sockets[s].acked = stream[r].acked
  BY <1>1,<2>6, ConsumerAt DEF Follows
 <2> QED BY <2>1,<2>2,<2>3,<2>4,<2>5,<2>6 DEF TypeOK
<1> QED BY <1>1, StreamInvariant, PTL

\* No accepted event disappears silently, or is in two streams, or settled in
\* the ledger otherwise than in its stream.
THEOREM EventsAlwaysAccounted == Spec => []EventsAccounted
<1>1. ASSUME IInv PROVE NothingLostSilently
 <2>1. \A r \in Realms : Accounted(stream[r], history.handled[r], history.declared[r])
  BY <1>1 DEF IInv, Serving, Good
 <2> QED BY <2>1 DEF NothingLostSilently, Accounted, Sequences
<1>2. ASSUME IInv PROVE OneStreamPerEvent
 <2> SUFFICES ASSUME NEW e \in Events, e \notin history.crossed
              PROVE  LET where == {r \in Realms : Receipt(r, e) # 0} IN
                     /\ Cardinality(where) <= 1
                     /\ ledger[e].state = "committed" => where = {ledger[e].realm}
                     /\ ledger[e].state = "rejected" /\ e \notin history.overlapped => where = {}
  BY DEF OneStreamPerEvent
 <2> DEFINE where == {r \in Realms : Receipt(r, e) # 0}
 <2>1. RowFine(e, ledger[e]) BY <1>2 DEF IInv, Settling
 <2>2. \A r \in where : r = ledger[e].realm BY <2>1 DEF RowFine, Receipt
 <2>3. ledger[e].state = "committed" => ledger[e].realm \in where BY <2>1 DEF RowFine, Receipt
 <2>4. ledger[e].state = "rejected" /\ e \notin history.overlapped => where = {}
  BY <2>1 DEF RowFine, Receipt, Unwritten
 <2> HIDE DEF where
 <2>5. Cardinality(where) <= 1 BY <2>2, AtMostOne
 <2>6. ledger[e].state = "committed" => where = {ledger[e].realm} BY <2>2,<2>3
 <2> QED BY <2>4,<2>5,<2>6 DEF where
<1>3. IInv => EventsAccounted BY <1>1,<1>2 DEF EventsAccounted
<1> QED BY <1>3, StreamInvariant, PTL

\* A consumer's next event is in its hands, and the news of a move on its way.
THEOREM ConsumersAlwaysServed == Spec => []ConsumersServed
<1>1. ASSUME IInv PROVE NoStalledConsumer
 <2> SUFFICES ASSUME NEW r \in Realms, NEW s \in Sockets, Consumer(r, s), stream[r].kept # {}
              PROVE  stream[r].gap = NoGap /\ sockets[s].sent > sockets[s].acked BY DEF NoStalledConsumer
 <2>1. /\ Follows(sockets[s], stream[r], grants) /\ InHand(sockets[s], stream[r], history.handled[r])
       /\ stream[r].holder # None BY <1>1, ConsumerAt
 <2>2. StreamFine(r, stream[r], grants) BY <1>1 DEF IInv, Serving, Good
 <2>3. stream[r] \in Stream /\ sockets[s] \in Socket BY <1>1 DEF IInv, Types
 <2>4. stream[r].acked \in Nat /\ stream[r].next \in Nat /\ sockets[s].sent \in Nat BY <2>3 DEF Stream, Socket
 <2>5. sockets[s].sent \in stream[r].acked + 1 .. stream[r].next - 1 /\ sockets[s].acked = stream[r].acked
  BY <2>1,<2>2 DEF InHand, Follows, StreamFine
 <2>6. stream[r].gap = NoGap BY <2>1,<2>2 DEF StreamFine
 <2> QED BY <2>4,<2>5,<2>6
<1>2. ASSUME IInv PROVE MovesAccounted
 <2> SUFFICES ASSUME NEW r \in Realms, NEW g, g = stream[r].holder, g # None, r \notin history.forgotten,
                     ~grantMoved(stream[r], g)
              PROVE  Selected(g) \/ \E n \in {notices[r], posting[r]} : n # NoNotice /\ ~Stale(stream[r], n)
  BY DEF MovesAccounted, Known
 <2>1. stream[r] \in Stream /\ binding \in Target BY <1>2 DEF IInv, Types
 <2>2. g \in Grants /\ stream[r].rev \in Nat /\ binding.rev \in Nat BY <2>1 DEF Stream, SomeGrant, Target
 <2>3. grants[g].realm = r /\ grants[g].status # "none" BY <1>2 DEF IInv, Serving, Good, StreamFine
 <2>4. Past(r, grants[g].rev) /\ (Shared => 1 <= grants[g].rev) /\ grants[g].rev <= stream[r].rev
  BY <1>2,<2>2,<2>3 DEF IInv, Informed, BindingInv, GrantKnows
 <2>5. grants[g].rev \in Nat BY <1>2,<2>2, InformedTypes DEF IInv
 <2>6. grants[g].rev = stream[r].rev /\ ~stream[r].moved BY <2>2,<2>4,<2>5 DEF grantMoved
 <2>7. CASE ~Shared
  <3>1. binding = [realm |-> Home, rev |-> 0] BY <1>2,<2>7 DEF IInv, Informed, BindingInv, BindingFine
  <3>2. grants[g].rev = 0 /\ r = Home BY <2>4,<2>5,<3>1 DEF Past
  <3> QED BY <2>3,<3>1,<3>2 DEF Selected
 <2>8. CASE Shared
  <3>1. Announced(r) BY <1>2,<2>2,<2>3,<2>6,<2>8 DEF IInv, Informed, MoveKnown, Issued
  <3>2. CASE binding = [realm |-> r, rev |-> stream[r].rev] BY <2>3,<2>6,<3>2 DEF Selected
  <3>3. CASE notices[r] # NoNotice /\ notices[r].prev = stream[r].rev
   <4>1. notices[r].prev < notices[r].rev /\ notices[r].rev \in Nat
    BY <1>2,<3>3, InformedTypes DEF IInv, Informed, BindingInv, RealmKnows, NoticeFine
   <4>2. ~Stale(stream[r], notices[r]) BY <2>2,<2>4,<2>6,<2>8,<3>3,<4>1 DEF Stale
   <4> QED BY <3>3,<4>2
  <3> QED BY <3>1,<3>2,<3>3 DEF Announced
 <2> QED BY <2>7,<2>8
<1>3. IInv => ConsumersServed BY <1>1,<1>2 DEF ConsumersServed
<1> QED BY <1>3, StreamInvariant, PTL
=============================================================================

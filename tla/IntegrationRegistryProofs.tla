---------------------- MODULE IntegrationRegistryProofs ----------------------
(***************************************************************************)
(* Proofs about the integration registry, for every set of groups,         *)
(* channels, sides and invitations and every value of the limits and       *)
(* contents: the invariant of the rows, the waiting requests and the alarm *)
(* (IInv); that links and recorded bindings agree; that an activation      *)
(* carries the chosen content while its seals hold; that a successor       *)
(* continues the archive; and that a group job ends with nothing live.     *)
(***************************************************************************)
EXTENDS IntegrationRegistry, SequenceTheorems, FiniteSetTheorems, WellFoundedInduction, TLAPS


\* What the rows hold; realms are named by triples whether or not they exist.
RealmNames == ({"standalone"} \X Groups \X Nat) \cup ({"integration"} \X Invitations \X Nat)
Looks == [val : Nat, ver : Nat]
Finds == UNION {[S -> RealmNames] : S \in SUBSET Sides}
Sights == UNION {[S -> Looks] : S \in SUBSET Sides}
Inquiry == {"candidate", "clone", "ready", "inventory", "persist"}
Finalization == {"plan", "seal", "materialize", "commit"}
Points == {"idle", "release", "freeze", "repair", "batch", "drain", "deliver"} \cup Inquiry \cup Finalization
Invites == [status : Statuses, guild : Guilds \cup {None}, channel : Channels \cup {None}]
Discovered == [version : 0..MaxVersion, found : Finds, seen : Sights,
               collision : BOOLEAN, choice : Selections \cup {None}]
Content == [val : Nat, ver : Nat, frozen : BOOLEAN, seal : {None} \cup (Invitations \X Nat), expired : BOOLEAN]
Work == [pc : Points, kind : {"none", "page", "activate", "resolve", "revoke", "group", "alarm"},
         inv : Invitations \cup {None}, group : Groups \cup {None}, side : Sides, found : Finds,
         seen : Sights \cup [Groups -> Nat], version : 0..MaxVersion, refresh : BOOLEAN,
         target : {<<>>} \cup (Groups \X Nat \X Invitations), seals : SUBSET Realms, done : Nat]

InvitationTypes ==
  /\ inv \in [Invitations -> Invites] /\ late \subseteq Invitations
  /\ discovery \in [Invitations -> Discovered]
LinkTypes ==
  /\ integ \in [Invitations -> [status : {"none", "active", "revoking", "revoked"}, gen : 0..MaxVersion]]
  /\ created \in Seq(Invitations) /\ jobs \in Seq(Invitations) /\ groupJobs \in Seq(Groups)
  /\ default \in [Groups -> Invitations \cup {None}]
  /\ succ \in [Groups -> [gen : Nat, status : {"none", "pending", "ready"}, src : Invitations \cup {None}]]
BindingTypes ==
  /\ binding \in [Groups -> [rev : Nat, status : {"ready", "transitioning"}, source : RealmNames \cup {None}]]
  /\ watchers \subseteq Groups
  /\ outbox \in [Groups -> Nat]
  /\ \A g \in Groups : outbox[g] <= binding[g].rev
RealmTypes ==
  /\ realm \in [Realms -> Content]
  /\ spent \in [deadlines : Nat, writes : Nat, changes : Nat, failures : Nat, evictions : Nat]
WorkTypes == proc \in [Processes -> Work] /\ alarm \in {"none", "later", "due"}
Types == InvitationTypes /\ LinkTypes /\ BindingTypes /\ RealmTypes /\ WorkTypes

\* Both groups of the invitation are known.
Named(i) == inv[i].guild \in Guilds /\ inv[i].channel \in Channels

\* An integration is made once, from an invitation that stays closed.
RowOf(row) ==
  /\ row.status # "none" => row.guild \in Guilds
  /\ row.status \in {"none", "invited", "reserved"} => row.channel = None
  /\ row.status \in {"awaiting_state_resolution", "active"} => row.guild \in Guilds /\ row.channel \in Channels
Rows ==
  \A i \in Invitations :
    /\ RowOf(inv[i])
    /\ integ[i].status # "none" <=> i \in Range(created)
    /\ integ[i].status # "none" => inv[i].status \in {"active", "pruned"} /\ Named(i) /\ integ[i].gen >= 1
    /\ integ[i].status = "revoking" <=> i \in Range(jobs)
Queues == IsInjective(created) /\ IsInjective(jobs) /\ IsInjective(groupJobs)
Pairs == \A i, j \in Invitations :
           integ[i].status = "active" /\ integ[j].status = "active" /\ Members(i) = Members(j) => i = j

Revoked == {i \in Invitations : integ[i].status = "revoked"}
Successors ==
  \A g \in Groups :
    /\ succ[g].gen \in 1..(1 + Cardinality(Revoked))
    /\ succ[g].status = "none" <=> succ[g].gen = 1
    /\ succ[g].status = "pending" => succ[g].src \in Revoked
Tables == Rows /\ Queues /\ Pairs /\ Successors

\* What was found may be used by the group it was found for.
Known(i, found) == \A s \in DOMAIN found : found[s] \in Published(GroupOf(i, s))
DiscoveryOf(i, d) ==
  IF d.version = 0 THEN d.choice = None
  ELSE Named(i) /\ DOMAIN d.found = Sides /\ DOMAIN d.seen = Sides /\ Known(i, d.found)
Discoveries == \A i \in Invitations : DiscoveryOf(i, discovery[i])

\* Archives are frozen, and successors in use were copied.
Archived == \A i \in Revoked : realm[RealmOfIntegration(i)].frozen
Supplied == \A g \in Groups : \A n \in 2..succ[g].gen :
              n < succ[g].gen \/ succ[g].status # "pending" => realm[Standalone(g, n)].ver # 0
Stores == Archived /\ Supplied

\* The authority works on what its tables still say.
DutyOf(q) ==
  /\ q.pc = "idle" => q = Idle
  /\ q.pc \in {"freeze", "repair"} => q.inv \in Invitations /\ integ[q.inv].status = "revoking"
  /\ q.pc = "repair" => realm[RealmOfIntegration(q.inv)].frozen
  /\ q.pc = "batch" => q.group \in Groups /\ q.kind # "activate"
  /\ q.pc \in Finalization \cup {"release"} => q.kind = "activate"
  /\ q.seals # {} => q.kind = "activate" /\ q.version > 0
  /\ q.pc \in Inquiry => q.kind \in {"activate", "resolve"}
  /\ q.kind = "activate" =>
       /\ q.inv \in Invitations
       /\ q.pc # "release" => Named(q.inv) /\ integ[q.inv].status = "none"
  /\ q.pc = "commit" /\ q.version = 0 => Existing(q.inv) # None
  /\ q.pc \in Inquiry \cup {"plan"} /\ ~q.refresh => q.version = 0 /\ q.seals = {}
  /\ q.pc = "plan" => ~q.refresh
VisitorOf(p, q) ==
  /\ q.pc \in Inquiry \cup {"idle"}
  /\ q.pc # "idle" => q.kind = "page" /\ q.inv = p /\ Named(p)
  /\ q.seals = {} /\ ~q.refresh

FindingOf(q) ==
  q.pc \in Inquiry =>
    /\ q.kind = "resolve" => q.group \in Groups /\ q.pc \in {"candidate", "clone", "ready"}
    /\ q.kind # "resolve" =>
         /\ q.inv \in Invitations /\ Known(q.inv, q.found)
         /\ DOMAIN q.found = IF q.pc \in {"inventory", "persist"} THEN Sides
                             ELSE IF q.side = "discord" THEN {} ELSE {"discord"}
    /\ q.pc = "persist" => q.seen \in [Sides -> Looks]

\* A copy under way is the one of the group's successor, or of one already
\* used; a finished copy is what was archived.
Asked(q) == IF q.kind = "resolve" THEN q.group ELSE GroupOf(q.inv, q.side)
CopyOf(q) ==
  LET t == q.target IN
  /\ q.pc \in {"clone", "ready"} =>
       /\ t # <<>> /\ t[1] = Asked(q)
       /\ t[2] \in 2..succ[t[1]].gen /\ t[3] \in Revoked
       /\ t[2] = succ[t[1]].gen => t[3] = succ[t[1]].src
  /\ q.pc = "ready" =>
       /\ realm[Standalone(t[1], t[2])].ver # 0
       /\ t[2] = succ[t[1]].gen /\ succ[t[1]].status = "pending" =>
            realm[Standalone(t[1], t[2])].val = realm[RealmOfIntegration(t[3])].val

\* The finalization holds the seals of what it has looked at, and its discovery stands.
Shown(i) == IF discovery[i].choice = "reset" THEN 0
            ELSE discovery[i].seen[discovery[i].choice].val
\* What a sealed realm showed is what it holds, unless the seal expired.
Holds(r, look) == realm[r].expired \/ look.val = realm[r].val
Sealing == {"seal", "materialize", "commit"}
SealOf(q) ==
  /\ \A r \in q.seals : realm[r].seal = <<q.inv, q.version>>
  /\ q.pc \in Sealing /\ q.version > 0 =>
       /\ discovery[q.inv].version = q.version /\ discovery[q.inv].choice # None
       /\ q.found = discovery[q.inv].found
  /\ q.pc \in {"seal", "materialize"} =>
       /\ q.version > 0 /\ q.seen \in Sights
       /\ DOMAIN q.seen = IF q.pc = "materialize" THEN Sides ELSE DOMAIN q.seen \cap {"discord"}
       /\ q.seals = {q.found[s] : s \in DOMAIN q.seen}
       /\ \A s \in DOMAIN q.seen : Holds(q.found[s], q.seen[s])
  /\ q.pc = "commit" /\ q.version > 0 =>
       /\ q.seals = {q.found[s] : s \in Sides}
       /\ realm[Integrated(q.inv, q.version)].ver # 0
       /\ realm[Integrated(q.inv, q.version)].val = Shown(q.inv)
       /\ \A s \in Sides : Holds(q.found[s], discovery[q.inv].seen[s])

RecordOf(p, q) ==
  /\ p = Authority => DutyOf(q) /\ SealOf(q)
  /\ p # Authority => VisitorOf(p, q)
  /\ FindingOf(q) /\ CopyOf(q)
Records == \A p \in Processes : RecordOf(p, proc[p])

IInv == Types /\ Tables /\ LinksAgree /\ Discoveries /\ Stores /\ Records

-----------------------------------------------------------------------------
(* Sequences: the rows of a table in the order of their creation           *)

LEMMA RangeIs ==
  ASSUME NEW S, NEW s \in Seq(S)
  PROVE  /\ Range(s) = {s[n] : n \in 1..Len(s)} /\ Range(s) \subseteq S
         /\ \A x : x \in Range(s) <=> \E n \in 1..Len(s) : s[n] = x
<1>1. DOMAIN s = 1..Len(s) /\ \A n \in 1..Len(s) : s[n] \in S BY LenProperties, ElementOfSeq
<1> QED BY <1>1 DEF Range

LEMMA AppendRow ==
  ASSUME NEW S, NEW s \in Seq(S), IsInjective(s), NEW x \in S, x \notin Range(s)
  PROVE  /\ Append(s, x) \in Seq(S) /\ IsInjective(Append(s, x))
         /\ Range(Append(s, x)) = Range(s) \cup {x}
<1> DEFINE t == Append(s, x)
<1>1. t \in Seq(S) /\ Len(t) = Len(s) + 1 /\ (\A n \in 1..Len(s) : t[n] = s[n]) /\ t[Len(s) + 1] = x
 BY AppendProperties
<1>2. Len(s) \in Nat /\ DOMAIN s = 1..Len(s) /\ DOMAIN t = 1..(Len(s) + 1) BY <1>1, LenProperties
<1>3. \A n \in 1..(Len(s) + 1) : n \in 1..Len(s) \/ n = Len(s) + 1 BY <1>2
<1>4. \A y : y \in Range(t) <=> y \in Range(s) \cup {x}
 <2> SUFFICES ASSUME NEW y PROVE y \in Range(t) <=> y \in Range(s) \cup {x} OBVIOUS
 <2>1. (y \in Range(t) <=> \E n \in 1..(Len(s) + 1) : t[n] = y) /\ (y \in Range(s) <=> \E n \in 1..Len(s) : s[n] = y)
  BY <1>1, RangeIs
 <2>2. Len(s) + 1 \in 1..(Len(s) + 1) /\ 1..Len(s) \subseteq 1..(Len(s) + 1) BY <1>2
 <2> QED BY <2>1,<2>2,<1>1,<1>3
<1>5. IsInjective(t)
 <2> SUFFICES ASSUME NEW a \in 1..(Len(s) + 1), NEW b \in 1..(Len(s) + 1), t[a] = t[b] PROVE a = b
  BY <1>2 DEF IsInjective
 <2>1. \A n \in 1..Len(s) : t[n] = s[n] /\ s[n] # x BY <1>1, RangeIs
 <2>2. CASE a \in 1..Len(s) /\ b \in 1..Len(s) BY <2>1,<2>2,<1>2 DEF IsInjective
 <2> QED BY <2>1,<2>2,<1>1,<1>3
<1> QED BY <1>1,<1>4,<1>5

\* A finite set has an element with a least part.
HasLeast(S, Part) == \E x \in S : \A y \in S : ~(Part[y] \subseteq Part[x] /\ Part[y] # Part[x])
LEMMA LeastPart ==
  ASSUME NEW S, IsFiniteSet(S), S # {}, NEW Part \in [S -> SUBSET S]
  PROVE  HasLeast(S, Part)
<1> DEFINE Parts == {Part[x] : x \in S}
           Order == StrictSubsetOrdering(S)
<1>1. IsWellFoundedOn(Order, FiniteSubsetsOf(S)) BY FS_StrictSubsetOrderingWellFounded
<1>2. Parts \subseteq FiniteSubsetsOf(S) /\ Parts # {} BY FS_Subset DEF FiniteSubsetsOf
<1>3. \E P \in Parts : \A Q \in Parts : ~(<<Q, P>> \in Order)
 <2> HIDE DEF Parts, Order
 <2> QED BY <1>1,<1>2, WFMin
<1>4. PICK x \in S : \A Q \in Parts : ~(<<Q, Part[x]>> \in Order) BY <1>3
<1>5. \A Q \in SUBSET S, P \in SUBSET S : <<Q, P>> \in Order <=> Q \subseteq P /\ Q # P
 BY DEF StrictSubsetOrdering
<1>6. ASSUME NEW y \in S PROVE ~(Part[y] \subseteq Part[x] /\ Part[y] # Part[x])
 <2>1. Part[y] \in Parts /\ Part[y] \in SUBSET S /\ Part[x] \in SUBSET S OBVIOUS
 <2>2. <<Part[y], Part[x]>> \notin Order BY <1>4,<2>1
 <2>3. PICK Q \in SUBSET S, P \in SUBSET S : Q = Part[y] /\ P = Part[x] BY <2>1
 <2> HIDE DEF Parts, Order
 <2>4. <<Q, P>> \notin Order BY <2>2,<2>3
 <2>5. ~(Q \subseteq P /\ Q # P) BY <1>5,<2>4
 <2> QED BY <2>3,<2>5
<1> QED BY <1>6 DEF HasLeast

\* FiniteSetsExt's Min and Max
LEMMA MinOf ==
  ASSUME NEW S, IsFiniteSet(S), S \subseteq Nat, S # {}
  PROVE  Min(S) \in S /\ \A y \in S : Min(S) <= y
<1> DEFINE Below == [x \in S |-> {y \in S : y < x}]
<1>1. PICK x \in S : \A y \in S : ~(Below[y] \subseteq Below[x] /\ Below[y] # Below[x])
 <2>1. PICK Part \in [S -> SUBSET S] : Part = Below OBVIOUS
 <2>2. HasLeast(S, Part) BY LeastPart
 <2> QED BY <2>1,<2>2 DEF HasLeast
<1>2. ASSUME NEW y \in S, y < x PROVE FALSE
 <2>1. Below[y] \subseteq Below[x]
  <3>1. \A z \in S : z < y => z < x BY <1>2
  <3> QED BY <3>1
 <2>2. y \in Below[x] /\ y \notin Below[y] BY <1>2
 <2> QED BY <1>1,<2>1,<2>2
<1>3. \A y \in S : x <= y BY <1>2
<1> QED BY <1>3 DEF Min

\* The oldest of a set of rows is one of them.
LEMMA OldestIs ==
  ASSUME created \in Seq(Invitations), NEW S, S \subseteq Range(created), S # {}
  PROVE  Oldest(S) \in S
<1> DEFINE N == {n \in DOMAIN created : created[n] \in S}
<1>1. DOMAIN created = 1..Len(created) /\ Len(created) \in Nat BY LenProperties
<1>2. N \subseteq 1..Len(created) /\ N # {} BY <1>1, RangeIs
<1>3. IsFiniteSet(N) /\ N \subseteq Nat
 <2>1. IsFiniteSet(1..Len(created)) BY <1>1, FS_Interval
 <2> QED BY <2>1,<1>1,<1>2, FS_Subset
<1>4. Min(N) \in N BY <1>2,<1>3, MinOf
<1> QED BY <1>4 DEF Oldest

\* What is left of a queue without one of its jobs.
LEMMA RemoveJob ==
  ASSUME NEW S, NEW s \in Seq(S), IsInjective(s), NEW x
  PROVE  /\ RemoveFirst(s, x) \in Seq(S) /\ IsInjective(RemoveFirst(s, x))
         /\ Range(RemoveFirst(s, x)) = Range(s) \ {x}
<1>1. Len(s) \in Nat /\ DOMAIN s = 1..Len(s) BY LenProperties
<1>2. CASE x \notin Range(s)
 <2>1. ~\E i \in 1..Len(s) : s[i] = x BY <1>2, RangeIs
 <2>2. RemoveFirst(s, x) = s BY <2>1 DEF RemoveFirst
 <2> QED BY <2>2,<1>2
<1>3. CASE x \in Range(s)
 <2>1. PICK k \in 1..Len(s) : s[k] = x BY <1>3, RangeIs
 <2>2. \A n \in 1..Len(s) : s[n] = x => n = k BY <2>1,<1>1 DEF IsInjective
 <2>3. RemoveFirst(s, x) = RemoveAt(s, k)
  <3> DEFINE I == {i \in 1..Len(s) : s[i] = x}
  <3>1. I = {k} BY <2>1,<2>2
  <3>2. Min({k}) = k BY <2>1,<1>1 DEF Min
  <3>3. SelectInSeq(s, LAMBDA v : v = x) = Min(I) BY <3>1 DEF SelectInSeq
  <3> QED BY <2>1,<3>1,<3>2,<3>3 DEF RemoveFirst
 <2> DEFINE a == SubSeq(s, 1, k - 1)
            b == SubSeq(s, k + 1, Len(s))
            t == a \o b
 <2>4. a \in Seq(S) /\ Len(a) = k - 1 /\ \A n \in 1..(k - 1) : a[n] = s[n] BY <1>1,<2>1
 <2>5. b \in Seq(S) /\ Len(b) = Len(s) - k /\ \A n \in 1..(Len(s) - k) : b[n] = s[n + k]
  <3>1. k + 1 \in Int /\ Len(s) \in Int /\ \A n \in (k + 1)..Len(s) : s[n] \in S BY <1>1,<2>1, ElementOfSeq
  <3>2. /\ b \in Seq(S) /\ Len(b) = IF k + 1 <= Len(s) THEN Len(s) - (k + 1) + 1 ELSE 0
        /\ \A n \in 1..(Len(s) - (k + 1) + 1) : b[n] = s[(k + 1) + n - 1] BY <3>1, SubSeqProperties
  <3> HIDE DEF b
  <3>3. Len(s) - (k + 1) + 1 = Len(s) - k /\ (k + 1 <= Len(s) \/ Len(s) - k = 0)
   <4>1. \A L \in Nat : \A n \in 1..L : L - (n + 1) + 1 = L - n /\ (n + 1 <= L \/ L - n = 0) OBVIOUS
   <4> QED BY <4>1,<1>1
  <3>4. \A n \in 1..(Len(s) - k) : (k + 1) + n - 1 = n + k BY <1>1,<2>1
  <3>5. \A n \in 1..(Len(s) - k) : b[n] = s[n + k] BY <3>2,<3>3,<3>4
  <3>6. Len(b) = Len(s) - k
   <4>1. CASE k + 1 <= Len(s) BY <4>1,<3>2,<3>3
   <4>2. CASE ~(k + 1 <= Len(s)) BY <4>2,<3>2,<3>3
   <4> QED BY <4>1,<4>2
  <3> QED BY <3>2,<3>5,<3>6
 <2>6. t = RemoveFirst(s, x) BY <2>3 DEF RemoveAt
 <2> HIDE DEF a, b
 <2>7. t \in Seq(S) /\ Len(t) = Len(s) - 1 /\ DOMAIN t = 1..(Len(s) - 1)
  <3>1. t \in Seq(S) /\ Len(t) = Len(a) + Len(b) BY <2>4,<2>5, ConcatProperties
  <3>2. Len(a) + Len(b) = Len(s) - 1 BY <2>4,<2>5,<1>1,<2>1
  <3> QED BY <3>1,<3>2, LenProperties
 <2>8. \A n \in 1..(Len(s) - 1) : t[n] = IF n < k THEN s[n] ELSE s[n + 1]
  <3> SUFFICES ASSUME NEW n \in 1..(Len(s) - 1) PROVE t[n] = IF n < k THEN s[n] ELSE s[n + 1] OBVIOUS
  <3>1. n \in 1..(Len(a) + Len(b)) BY <2>4,<2>5,<1>1,<2>1
  <3>2. t[n] = IF n <= Len(a) THEN a[n] ELSE b[n - Len(a)] BY <3>1,<2>4,<2>5, ConcatProperties
  <3>3. CASE n < k BY <3>2,<3>3,<2>4,<1>1,<2>1
  <3>4. CASE n >= k
   <4>1. n - Len(a) \in 1..(Len(s) - k) /\ (n - Len(a)) + k = n + 1 /\ ~(n <= Len(a)) /\ ~(n < k)
    BY <3>4,<2>4,<1>1,<2>1
   <4>2. b[n - Len(a)] = s[(n - Len(a)) + k] BY <4>1,<2>5
   <4> QED BY <3>2,<4>1,<4>2
  <3>5. n < k \/ n >= k BY <2>1,<1>1
  <3> QED BY <3>3,<3>4,<3>5
 <2> HIDE DEF t
 <2>9. IsInjective(t) BY <2>7,<2>8,<2>1,<1>1 DEF IsInjective
 <2>10. \A y \in Range(t) : y \in Range(s) /\ y # x
  <3> SUFFICES ASSUME NEW n \in 1..(Len(s) - 1) PROVE t[n] \in Range(s) /\ t[n] # x BY <2>7, RangeIs
  <3>1. CASE n < k BY <3>1,<2>8,<2>2,<2>1,<1>1 DEF Range
  <3>2. CASE n >= k BY <3>2,<2>8,<2>2,<2>1,<1>1 DEF Range
  <3> QED BY <3>1,<3>2,<2>1,<1>1
 <2>11. \A y \in Range(s) : y # x => y \in Range(t)
  <3> SUFFICES ASSUME NEW n \in 1..Len(s), s[n] # x PROVE s[n] \in Range(t) BY RangeIs
  <3>1. CASE n < k BY <3>1,<2>7,<2>8,<2>1,<1>1 DEF Range
  <3>2. CASE n > k
   <4>1. n - 1 \in 1..(Len(s) - 1) /\ t[n - 1] = s[n] BY <3>2,<2>8,<2>1,<1>1
   <4> QED BY <4>1,<2>7 DEF Range
  <3> QED BY <3>1,<3>2,<2>1,<1>1
 <2> QED BY <2>6,<2>7,<2>9,<2>10,<2>11
<1> QED BY <1>2,<1>3

LEMMA FirstJob ==
  ASSUME NEW S, NEW s \in Seq(S), s # <<>>
  PROVE  Head(s) \in Range(s) /\ Head(s) \in S
<1>1. Len(s) \in Nat \ {0} /\ Head(s) = s[1] BY HeadTailProperties, EmptySeq, LenProperties
<1> QED BY <1>1, RangeIs

-----------------------------------------------------------------------------
(* The realms                                                               *)

LEMMA CountRevoked ==
  /\ IsFiniteSet(Revoked) /\ Cardinality(Revoked) \in Nat /\ Cardinality(Invitations) \in Nat
  /\ Cardinality(Revoked) <= Cardinality(Invitations)
<1>1. IsFiniteSet(Invitations) /\ Revoked \subseteq Invitations BY ConstantsAssumption DEF Revoked
<1> QED BY <1>1, FS_Subset, FS_CardinalityType

LEMMA RealmsAre ==
  /\ Realms \subseteq RealmNames
  /\ \A g \in Groups : \A n \in 1..(Cardinality(Invitations) + 1) : Standalone(g, n) \in Realms
  /\ \A i \in Invitations : \A v \in 1..MaxVersion : Integrated(i, v) \in Realms
  /\ \A g, i, n, v : Standalone(g, n) # Integrated(i, v)
<1>1. MaxVersion \in Nat /\ Cardinality(Invitations) \in Nat BY ConstantsAssumption, CountRevoked
<1>2. 1..(Cardinality(Invitations) + 1) \subseteq Nat /\ 1..MaxVersion \subseteq Nat BY <1>1
<1> QED BY <1>1,<1>2 DEF Realms, RealmNames, Standalone, Integrated

\* The realms a group's commands may use exist.
LEMMA RealmsKnown ==
  ASSUME Types, Tables
  PROVE  /\ \A g \in Groups : \A n \in 1..succ[g].gen : Standalone(g, n) \in Realms
         /\ \A i \in Invitations : integ[i].status # "none" => RealmOfIntegration(i) \in Realms
         /\ \A g \in Groups : Published(g) \subseteq Realms
<1>1. \A g \in Groups : \A n \in 1..succ[g].gen : Standalone(g, n) \in Realms
 <2> SUFFICES ASSUME NEW g \in Groups, NEW n \in 1..succ[g].gen PROVE n \in 1..(Cardinality(Invitations) + 1)
  BY RealmsAre
 <2>1. succ[g].gen \in 1..(1 + Cardinality(Revoked)) BY DEF Tables, Successors
 <2> QED BY <2>1, CountRevoked
<1>2. \A i \in Invitations : integ[i].status # "none" => RealmOfIntegration(i) \in Realms
 <2> SUFFICES ASSUME NEW i \in Invitations, integ[i].status # "none" PROVE integ[i].gen \in 1..MaxVersion
  BY RealmsAre DEF RealmOfIntegration
 <2>1. integ[i].gen >= 1 /\ integ[i].gen \in 0..MaxVersion BY DEF Tables, Rows, Types, LinkTypes
 <2> QED BY <2>1, ConstantsAssumption
<1>3. \A i \in Range(created) : i \in Invitations /\ integ[i].status # "none"
 BY RangeIs DEF Types, LinkTypes, Tables, Rows
<1> QED BY <1>1,<1>2,<1>3 DEF Published

\* The integrations of a group are those of the invitations that name it.
LEMMA RowsAre ==
  ASSUME Types, Tables
  PROVE  /\ Range(created) \subseteq Invitations /\ Range(jobs) \subseteq Invitations /\ Range(groupJobs) \subseteq Groups
         /\ \A i \in Invitations : i \in Range(created) <=> integ[i].status # "none"
         /\ \A i \in Range(created) : Named(i) /\ Members(i) \subseteq Groups /\ inv[i].status \in {"active", "pruned"}
<1>1. Range(created) \subseteq Invitations /\ Range(jobs) \subseteq Invitations /\ Range(groupJobs) \subseteq Groups
 BY RangeIs DEF Types, LinkTypes
<1>2. \A i \in Invitations : Named(i) => Members(i) \subseteq Groups BY DEF Named, Members, Groups
<1> QED BY <1>1,<1>2 DEF Tables, Rows

LEMMA ActiveForAre ==
  ASSUME Types, Tables, NEW g
  PROVE  /\ ActiveFor(g) = {i \in Invitations : integ[i].status = "active" /\ g \in Members(i)}
         /\ LiveFor(g) = {i \in Invitations : integ[i].status \in {"active", "revoking"} /\ g \in Members(i)}
         /\ ActiveFor(g) \subseteq Range(created) /\ LiveFor(g) \subseteq Range(created)
BY RowsAre DEF ActiveFor, LiveFor

LEMMA OldestFor ==
  ASSUME Types, NEW S, S \subseteq Range(created), S # {}
  PROVE  Oldest(S) \in S
BY OldestIs DEF Types, LinkTypes

\* Two invitations of one pair share its integration.
LEMMA ExistingIs ==
  ASSUME Types, Tables, NEW i \in Invitations, Existing(i) # None
  PROVE  Existing(i) \in Invitations /\ integ[Existing(i)].status = "active" /\ Members(Existing(i)) = Members(i)
<1> DEFINE same == {j \in Range(created) : integ[j].status = "active" /\ Members(j) = Members(i)}
<1>1. same # {} /\ Existing(i) = Oldest(same) BY DEF Existing
<1>2. Existing(i) \in same BY <1>1, OldestFor
<1> QED BY <1>2, RowsAre

LEMMA NoneExisting ==
  ASSUME Types, Tables, NEW i \in Invitations, Existing(i) = None
  PROVE  \A j \in Invitations : integ[j].status = "active" => Members(j) # Members(i)
<1> DEFINE same == {j \in Range(created) : integ[j].status = "active" /\ Members(j) = Members(i)}
<1>1. same # {} => Existing(i) \in same BY OldestFor DEF Existing
<1>2. same = {} BY <1>1, RowsAre, ConstantsAssumption
<1> QED BY <1>2, RowsAre

-----------------------------------------------------------------------------
(* What a step leaves alone                                                 *)

\* An invitation whose groups are known keeps them, and a closed one stays closed.
InvitationsStep ==
  \A i \in Invitations :
    /\ RowOf(inv'[i])
    /\ Named(i) => inv'[i].guild = inv[i].guild /\ inv'[i].channel = inv[i].channel
    /\ inv[i].status \in {"active", "pruned"} => inv'[i].status \in {"active", "pruned"}

\* What a group may use, it may use from then on; its successors are numbered.
Onward ==
  /\ \A i \in Invitations : Named(i) => inv'[i].guild = inv[i].guild /\ inv'[i].channel = inv[i].channel
  /\ \A g \in Groups : Published(g) \subseteq Published(g)'
  /\ \A g \in Groups :
       /\ succ'[g].gen \in Nat /\ succ[g].gen <= succ'[g].gen
       /\ succ'[g].gen = succ[g].gen =>
            succ'[g].src = succ[g].src /\ (succ'[g].status = "pending" => succ[g].status = "pending")
  /\ \A i \in Revoked : i \in Revoked' /\ integ'[i].gen = integ[i].gen

\* Frozen realms stay as they are, and so do the copies that are not in use yet.
Kept ==
  /\ \A i \in Revoked : realm'[RealmOfIntegration(i)].val = realm[RealmOfIntegration(i)].val
  /\ \A r \in Realms : /\ realm[r].frozen => realm'[r].frozen
                       /\ realm[r].ver # 0 => realm'[r].ver # 0
  /\ \A g \in Groups :
       succ[g].status = "pending" /\ realm[Standalone(g, succ[g].gen)].ver # 0 =>
         realm'[Standalone(g, succ[g].gen)].val = realm[Standalone(g, succ[g].gen)].val

\* Nothing the finalization relies on changes.
Undisturbed(q) ==
  /\ q.pc \in Sealing /\ q.version > 0 =>
       /\ discovery'[q.inv].version = discovery[q.inv].version
       /\ discovery'[q.inv].choice = discovery[q.inv].choice
       /\ discovery'[q.inv].found = discovery[q.inv].found
       /\ discovery'[q.inv].seen = discovery[q.inv].seen
  /\ q.pc = "commit" /\ q.version > 0 =>
       realm'[Integrated(q.inv, q.version)].val = realm[Integrated(q.inv, q.version)].val
  /\ \A r \in q.seals :
       /\ realm'[r].seal = realm[r].seal /\ (realm[r].expired => realm'[r].expired)
       /\ q.pc \in Sealing => realm'[r].expired \/ realm'[r].val = realm[r].val

LEMMA KnownStays ==
  ASSUME Types, Onward, NEW i \in Invitations, Named(i), NEW f, DOMAIN f \subseteq Sides, Known(i, f)
  PROVE  Known(i, f)'
<1>1. \A s : GroupOf(i, s) \in Groups /\ GroupOf(i, s)' = GroupOf(i, s) BY DEF Onward, Named, GroupOf, Groups
<1> QED BY <1>1 DEF Known, Onward

LEMMA NamedStays ==
  ASSUME Onward, NEW i \in Invitations, Named(i)
  PROVE  Named(i)' /\ Members(i)' = Members(i) /\ \A s : GroupOf(i, s)' = GroupOf(i, s)
BY DEF Onward, Named, Members, GroupOf

\* A process that does not move finds what it found before.
LEMMA FindingStays ==
  ASSUME Types, Onward, NEW q \in Work, FindingOf(q), q.pc \in Inquiry /\ q.kind # "resolve" => Named(q.inv)
  PROVE  FindingOf(q)'
<1> SUFFICES ASSUME q.pc \in Inquiry, q.kind # "resolve" PROVE Known(q.inv, q.found)' BY DEF FindingOf
<1>1. q.inv \in Invitations /\ Named(q.inv) /\ Known(q.inv, q.found) /\ DOMAIN q.found \subseteq Sides
 BY DEF FindingOf, Sides
<1> QED BY <1>1, KnownStays

LEMMA CopyStays ==
  ASSUME Types, Tables, Stores, Onward, Kept, NEW q \in Work, FindingOf(q), CopyOf(q),
         q.pc \in Inquiry /\ q.kind # "resolve" => Named(q.inv)
  PROVE  CopyOf(q)'
<1> SUFFICES ASSUME q.pc \in {"clone", "ready"} PROVE CopyOf(q)' BY DEF CopyOf
<1> DEFINE t == q.target
<1>1. /\ t # <<>> /\ t[1] = Asked(q) /\ t[2] \in 2..succ[t[1]].gen /\ t[3] \in Revoked
      /\ t[2] = succ[t[1]].gen => t[3] = succ[t[1]].src BY DEF CopyOf
<1>2. t[1] \in Groups /\ t[2] \in Nat /\ t[3] \in Invitations BY <1>1 DEF Work
<1>3. Asked(q)' = Asked(q)
 <2>1. CASE q.kind = "resolve" BY <2>1 DEF Asked
 <2>2. CASE q.kind # "resolve"
  <3>1. q.inv \in Invitations /\ Named(q.inv) BY <2>2 DEF FindingOf, Inquiry
  <3> QED BY <3>1,<2>2, NamedStays DEF Asked
 <2> QED BY <2>1,<2>2
<1>4. /\ succ[t[1]].gen \in Nat /\ succ'[t[1]].gen \in Nat /\ succ[t[1]].gen <= succ'[t[1]].gen
      /\ succ'[t[1]].gen = succ[t[1]].gen =>
           succ'[t[1]].src = succ[t[1]].src /\ (succ'[t[1]].status = "pending" => succ[t[1]].status = "pending")
 BY <1>2 DEF Onward, Types, LinkTypes
<1>5. t[3] \in Revoked' /\ RealmOfIntegration(t[3])' = RealmOfIntegration(t[3])
 BY <1>1 DEF Onward, RealmOfIntegration
<1>6. t[2] \in 2..succ'[t[1]].gen /\ (t[2] = succ'[t[1]].gen => t[3] = succ'[t[1]].src) BY <1>1,<1>2,<1>4
<1>7. ASSUME q.pc = "ready" PROVE
        /\ realm'[Standalone(t[1], t[2])].ver # 0
        /\ t[2] = succ'[t[1]].gen /\ succ'[t[1]].status = "pending" =>
             realm'[Standalone(t[1], t[2])].val = realm'[RealmOfIntegration(t[3])].val
 <2>1. /\ realm[Standalone(t[1], t[2])].ver # 0
       /\ t[2] = succ[t[1]].gen /\ succ[t[1]].status = "pending" =>
            realm[Standalone(t[1], t[2])].val = realm[RealmOfIntegration(t[3])].val BY <1>7 DEF CopyOf
 <2>2. Standalone(t[1], t[2]) \in Realms BY <1>1,<1>2, RealmsKnown
 <2>3. t[2] = succ'[t[1]].gen => t[2] = succ[t[1]].gen BY <1>1,<1>2,<1>4
 <2> QED BY <2>1,<2>2,<2>3,<1>1,<1>2,<1>4 DEF Kept
<1> QED BY <1>1,<1>3,<1>5,<1>6,<1>7 DEF CopyOf

\* The authority's own record, while the integrations stay as they are.
LEMMA ExistingStays ==
  ASSUME Types, Tables, Onward, UNCHANGED <<integ, created>>, NEW i \in Invitations, Named(i)
  PROVE  Existing(i)' = Existing(i)
<1>1. \A j \in Range(created) : Members(j)' = Members(j) BY RowsAre, NamedStays
<1>2. Members(i)' = Members(i) BY NamedStays
<1>3. {j \in Range(created) : integ[j].status = "active" /\ Members(j) = Members(i)}
        = {j \in Range(created)' : integ'[j].status = "active" /\ Members(j)' = Members(i)'} BY <1>1,<1>2
<1> QED BY <1>3 DEF Existing, Oldest

LEMMA DutyStays ==
  ASSUME Types, Tables, Onward, Kept, UNCHANGED <<integ, created>>, NEW q \in Work, DutyOf(q)
  PROVE  DutyOf(q)'
<1>1. q.pc \in {"freeze", "repair"} => q.inv \in Invitations /\ integ'[q.inv].status = "revoking" BY DEF DutyOf
<1>2. q.pc = "repair" => realm'[RealmOfIntegration(q.inv)'].frozen
 <2>1. RealmOfIntegration(q.inv)' = RealmOfIntegration(q.inv) BY DEF RealmOfIntegration
 <2>2. q.pc = "repair" => RealmOfIntegration(q.inv) \in Realms BY RealmsKnown DEF DutyOf
 <2> QED BY <2>1,<2>2 DEF DutyOf, Kept
<1>3. q.kind = "activate" =>
       /\ q.inv \in Invitations
       /\ q.pc # "release" => Named(q.inv)' /\ integ'[q.inv].status = "none" BY NamedStays DEF DutyOf
<1>4. q.pc = "commit" /\ q.version = 0 => Existing(q.inv)' # None BY ExistingStays DEF DutyOf, Finalization
<1> QED BY <1>1,<1>2,<1>3,<1>4 DEF DutyOf

LEMMA VisitorStays ==
  ASSUME Onward, NEW p \in Invitations, NEW q \in Work, VisitorOf(p, q)
  PROVE  VisitorOf(p, q)'
BY NamedStays DEF VisitorOf

\* What the finalization sealed is known.
LEMMA SealedKnown ==
  ASSUME Types, Tables, Discoveries, NEW q \in Work, DutyOf(q), SealOf(q), q.pc \in Sealing, q.version > 0
  PROVE  /\ q.inv \in Invitations /\ Named(q.inv) /\ integ[q.inv].status = "none" /\ q.version \in 1..MaxVersion
         /\ discovery[q.inv].version = q.version /\ q.found = discovery[q.inv].found
         /\ DOMAIN q.found = Sides /\ DOMAIN discovery[q.inv].seen = Sides
         /\ \A s \in Sides : q.found[s] \in Published(GroupOf(q.inv, s)) /\ GroupOf(q.inv, s) \in Groups /\ q.found[s] \in Realms
         /\ Integrated(q.inv, q.version) \in Realms /\ discovery[q.inv].choice \in Selections
<1>1. q.inv \in Invitations /\ Named(q.inv) /\ integ[q.inv].status = "none" BY DEF DutyOf, Sealing, Finalization
<1>2. q.version \in 1..MaxVersion BY ConstantsAssumption DEF Work
<1>3. /\ discovery[q.inv].version = q.version /\ q.found = discovery[q.inv].found
      /\ discovery[q.inv].choice # None BY DEF SealOf
<1>4. /\ DOMAIN q.found = Sides /\ DOMAIN discovery[q.inv].seen = Sides /\ Known(q.inv, q.found)
 BY <1>1,<1>2,<1>3 DEF Discoveries, DiscoveryOf
<1>5. \A s \in Sides : GroupOf(q.inv, s) \in Groups BY <1>1 DEF Named, GroupOf, Groups
<1>6. \A s \in Sides : q.found[s] \in Published(GroupOf(q.inv, s)) BY <1>4 DEF Known
<1>7. discovery[q.inv] \in Discovered BY <1>1 DEF Types, InvitationTypes
<1> QED BY <1>1,<1>2,<1>3,<1>4,<1>5,<1>6,<1>7, RealmsKnown, RealmsAre DEF Discovered

LEMMA SealStays ==
  ASSUME Types, Tables, Discoveries, Kept, NEW q \in Work, DutyOf(q), SealOf(q), Undisturbed(q)
  PROVE  SealOf(q)'
<1>1. \A r \in q.seals : realm'[r].seal = <<q.inv, q.version>> BY DEF SealOf, Undisturbed
<1>2. q.pc \in Sealing /\ q.version > 0 =>
       /\ discovery'[q.inv].version = q.version /\ discovery'[q.inv].choice # None
       /\ q.found = discovery'[q.inv].found BY DEF SealOf, Undisturbed
<1>3. ASSUME q.pc \in Sealing, NEW r \in q.seals, NEW look, Holds(r, look) PROVE Holds(r, look)'
 BY <1>3 DEF Holds, Undisturbed
<1>4. ASSUME q.pc \in {"seal", "materialize"}
      PROVE  \A s \in DOMAIN q.seen : Holds(q.found[s], q.seen[s])'
 <2>1. \A s \in DOMAIN q.seen : q.found[s] \in q.seals /\ Holds(q.found[s], q.seen[s]) BY <1>4 DEF SealOf
 <2> QED BY <1>3,<1>4,<2>1 DEF Sealing
<1>5. ASSUME q.pc = "commit", q.version > 0
      PROVE  /\ realm'[Integrated(q.inv, q.version)].ver # 0
             /\ realm'[Integrated(q.inv, q.version)].val = Shown(q.inv)'
             /\ \A s \in Sides : Holds(q.found[s], discovery[q.inv].seen[s])'
 <2>1. Integrated(q.inv, q.version) \in Realms BY <1>5, SealedKnown DEF Sealing
 <2>2. /\ q.seals = {q.found[s] : s \in Sides} /\ realm[Integrated(q.inv, q.version)].ver # 0
       /\ realm[Integrated(q.inv, q.version)].val = Shown(q.inv)
       /\ \A s \in Sides : Holds(q.found[s], discovery[q.inv].seen[s]) BY <1>5 DEF SealOf
 <2>3. /\ discovery'[q.inv].choice = discovery[q.inv].choice
       /\ discovery'[q.inv].seen = discovery[q.inv].seen BY <1>5 DEF Undisturbed, Sealing
 <2>4. \A s \in Sides : Holds(q.found[s], discovery[q.inv].seen[s])'
  <3> SUFFICES ASSUME NEW s \in Sides PROVE Holds(q.found[s], discovery[q.inv].seen[s])' OBVIOUS
  <3>1. PICK look : look = discovery[q.inv].seen[s] OBVIOUS
  <3>2. Holds(q.found[s], look)' BY <1>3,<1>5,<2>2,<3>1 DEF Sealing
  <3> QED BY <2>3,<3>1,<3>2 DEF Holds
 <2> QED BY <1>5,<2>1,<2>2,<2>3,<2>4 DEF Kept, Undisturbed, Shown
<1> QED BY <1>1,<1>2,<1>4,<1>5 DEF SealOf

LEMMA RecordStays ==
  ASSUME IInv, Onward, Kept, NEW p \in Processes, NEW q \in Work, RecordOf(p, q),
         p = Authority => UNCHANGED <<integ, created>> /\ Undisturbed(q)
  PROVE  RecordOf(p, q)'
<1>1. q.pc \in Inquiry /\ q.kind # "resolve" => Named(q.inv)
 BY DEF RecordOf, DutyOf, VisitorOf, Processes, Inquiry
<1>2. FindingOf(q)' /\ CopyOf(q)' BY <1>1, FindingStays, CopyStays DEF IInv, RecordOf
<1>3. CASE p = Authority BY <1>2,<1>3, DutyStays, SealStays DEF IInv, RecordOf
<1>4. CASE p # Authority BY <1>2,<1>4, VisitorStays DEF RecordOf, Processes
<1> QED BY <1>3,<1>4

\* The tables of the links do not notice what happens to open invitations.
LEMMA LinksHold ==
  ASSUME IInv, Types', InvitationsStep, UNCHANGED <<integ, created, default, succ, jobs, binding>>,
         IsInjective(groupJobs)'
  PROVE  Tables' /\ LinksAgree' /\ Onward
<1>1. \A i \in Range(created) : Named(i)' /\ Members(i)' = Members(i) /\ inv'[i].status \in {"active", "pruned"}
 BY RowsAre DEF IInv, InvitationsStep, Named, Members
<1>2. Onward
 <2>1. \A g \in Groups : Published(g)' = Published(g) BY <1>1 DEF Published, RealmOfIntegration
 <2>2. \A g \in Groups : succ[g].gen \in Nat BY DEF IInv, Types, LinkTypes
 <2> QED BY <2>1,<2>2 DEF InvitationsStep, Onward, Revoked
<1>3. Rows' BY <1>1, RowsAre DEF IInv, Tables, Rows, InvitationsStep
<1>4. Queues' /\ Successors' BY DEF IInv, Tables, Queues, Successors, Revoked
<1>5. Pairs' BY <1>1, RowsAre DEF IInv, Tables, Pairs
<1>6. \A g \in Groups : ActiveFor(g)' = ActiveFor(g) BY <1>1 DEF ActiveFor
<1>7. \A g \in Groups : default[g] # None => default[g] \in Range(created)
 BY RowsAre DEF IInv, LinksAgree, EveryLinkSelected, Types, LinkTypes
<1>8. EveryLinkSelected' BY <1>1,<1>6,<1>7 DEF IInv, LinksAgree, EveryLinkSelected
<1>9. \A g \in Groups : CurrentBinding(g)' = CurrentBinding(g)
 BY DEF CurrentBinding, Transitioning, CandidateRealm, HasActiveDefault, RealmOfIntegration
<1>10. BindingTellsTruth' BY <1>9 DEF IInv, LinksAgree, BindingTellsTruth
<1> QED BY <1>2,<1>3,<1>4,<1>5,<1>8,<1>10 DEF Tables, LinksAgree

LEMMA LinksStay ==
  ASSUME IInv, Types', InvitationsStep, UNCHANGED <<linkVars, binding>>
  PROVE  Tables' /\ LinksAgree' /\ Onward
<1>1. IsInjective(groupJobs)' BY DEF IInv, Tables, Queues, linkVars, IsInjective
<1> QED BY <1>1, LinksHold DEF linkVars

LEMMA InvitationsStay ==
  ASSUME IInv, UNCHANGED inv
  PROVE  InvitationsStep
BY DEF IInv, Tables, Rows, InvitationsStep

LEMMA DiscoveriesStay ==
  ASSUME IInv, Onward, NEW i \in Invitations, discovery'[i] = discovery[i]
  PROVE  DiscoveryOf(i, discovery[i])'
<1>1. DiscoveryOf(i, discovery[i]) BY DEF IInv, Discoveries
<1>2. CASE discovery[i].version = 0 BY <1>1,<1>2 DEF DiscoveryOf
<1>3. CASE discovery[i].version # 0
 <2>1. Named(i) /\ DOMAIN discovery[i].found = Sides /\ DOMAIN discovery[i].seen = Sides /\ Known(i, discovery[i].found)
  BY <1>1,<1>3 DEF DiscoveryOf
 <2>2. PICK f : f = discovery[i].found OBVIOUS
 <2>3. Known(i, f)' BY <2>1,<2>2, KnownStays DEF IInv
 <2>4. Known(i, discovery[i].found)' BY <2>2,<2>3 DEF Known
 <2> QED BY <2>1,<2>4,<1>3, NamedStays DEF DiscoveryOf
<1> QED BY <1>2,<1>3

LEMMA StoresStay ==
  ASSUME IInv, Kept, UNCHANGED <<succ, integ>>
  PROVE  Stores'
<1>1. Archived'
 <2>1. \A i \in Revoked : RealmOfIntegration(i) \in Realms BY RealmsKnown DEF IInv, Revoked
 <2> QED BY <2>1 DEF IInv, Stores, Archived, Revoked, RealmOfIntegration, Kept
<1>2. Supplied'
 <2>1. \A g \in Groups : \A n \in 2..succ[g].gen : Standalone(g, n) \in Realms
  <3>1. \A g \in Groups : \A n \in 2..succ[g].gen : n \in 1..succ[g].gen BY DEF IInv, Types, LinkTypes
  <3> QED BY <3>1, RealmsKnown DEF IInv
 <2> QED BY <2>1 DEF IInv, Stores, Supplied, Kept
<1> QED BY <1>1,<1>2 DEF Stores

\* A step of one process, and one of none.
LEMMA OneMoves ==
  ASSUME IInv, Types', Tables', LinksAgree', Onward, Kept, Discoveries', Stores',
         NEW p \in Processes, NEW n \in Work, proc' = [proc EXCEPT ![p] = n], RecordOf(p, n)',
         p # Authority => UNCHANGED <<integ, created>> /\ Undisturbed(proc[Authority])
  PROVE  IInv'
<1>1. ASSUME NEW o \in Processes PROVE RecordOf(o, proc[o])'
 <2>1. CASE o = p
  <3>1. PICK q \in Work : q = n /\ q = proc'[o] BY <2>1 DEF IInv, Types, WorkTypes
  <3>2. RecordOf(o, q)'
   <4>1. RecordOf(p, q)' BY <3>1
   <4> QED BY <4>1,<2>1
  <3> QED BY <3>1,<3>2 DEF RecordOf, DutyOf, SealOf, VisitorOf, FindingOf, CopyOf, Asked, Known
 <2>2. CASE o # p
  <3>1. PICK q \in Work : q = proc[o] /\ q = proc'[o] BY <2>2 DEF IInv, Types, WorkTypes
  <3>2. RecordOf(o, q) /\ (o = Authority => Undisturbed(q)) BY <3>1,<2>2 DEF IInv, Records
  <3>3. RecordOf(o, q)' BY <3>2,<2>2, RecordStays
  <3> QED BY <3>1,<3>3 DEF RecordOf, DutyOf, SealOf, VisitorOf, FindingOf, CopyOf, Asked, Known
 <2> QED BY <2>1,<2>2
<1> QED BY <1>1 DEF IInv, Records

LEMMA NoneMoves ==
  ASSUME IInv, Types', Tables', LinksAgree', Onward, Kept, Discoveries', Stores',
         UNCHANGED <<proc, integ, created>>, Undisturbed(proc[Authority])
  PROVE  IInv'
<1>1. ASSUME NEW o \in Processes PROVE RecordOf(o, proc[o])'
 <2>1. PICK q \in Work : q = proc[o] /\ q = proc'[o] BY DEF IInv, Types, WorkTypes
 <2>2. RecordOf(o, q) /\ (o = Authority => Undisturbed(q)) BY <2>1 DEF IInv, Records
 <2>3. RecordOf(o, q)' BY <2>2, RecordStays
 <2> QED BY <2>1,<2>3 DEF RecordOf, DutyOf, SealOf, VisitorOf, FindingOf, CopyOf, Asked, Known
<1> QED BY <1>1 DEF IInv, Records

\* Nothing but invitations and one process moves.
LEMMA KeptIfSame ==
  ASSUME UNCHANGED realm
  PROVE  Kept
BY DEF Kept

LEMMA LinksAside ==
  ASSUME IInv, Types', InvitationsStep, UNCHANGED <<linkVars, binding, realm, discovery>>
  PROVE  Tables' /\ LinksAgree' /\ Onward /\ Kept /\ Discoveries' /\ Stores'
<1>1. Tables' /\ LinksAgree' /\ Onward /\ Kept BY LinksStay, KeptIfSame
<1>2. Stores' BY <1>1, StoresStay DEF linkVars
<1>3. ASSUME NEW i \in Invitations PROVE DiscoveryOf(i, discovery[i])' BY <1>1, DiscoveriesStay
<1> QED BY <1>1,<1>2,<1>3 DEF Discoveries

LEMMA SameUndisturbed ==
  ASSUME NEW q, UNCHANGED <<realm, discovery>>
  PROVE  Undisturbed(q)
BY DEF Undisturbed

LEMMA OpenStep ==
  ASSUME IInv, Types', InvitationsStep, UNCHANGED <<linkVars, binding, realm, discovery, proc>>
  PROVE  IInv'
<1>1. Tables' /\ LinksAgree' /\ Onward /\ Kept /\ Discoveries' /\ Stores' BY LinksAside
<1>2. UNCHANGED <<proc, integ, created>> /\ Undisturbed(proc[Authority]) BY SameUndisturbed DEF linkVars
<1> QED BY <1>1,<1>2, NoneMoves

LEMMA MoveAndOpen ==
  ASSUME IInv, Types', InvitationsStep, UNCHANGED <<linkVars, binding, realm, discovery>>,
         NEW p \in Processes, NEW n \in Work, proc' = [proc EXCEPT ![p] = n], RecordOf(p, n)'
  PROVE  IInv'
<1>1. Tables' /\ LinksAgree' /\ Onward /\ Kept /\ Discoveries' /\ Stores' BY LinksAside
<1>2. UNCHANGED <<integ, created>> /\ Undisturbed(proc[Authority]) BY SameUndisturbed DEF linkVars
<1> QED BY <1>1,<1>2, OneMoves

LEMMA StaysAside ==
  ASSUME IInv, Types', InvitationsStep, UNCHANGED <<linkVars, binding, realm, discovery>>,
         NEW p \in Processes, NEW n \in Work, RecordOf(p, n)
  PROVE  RecordOf(p, n)'
<1>1. Onward /\ Kept BY LinksAside
<1>2. UNCHANGED <<integ, created>> /\ Undisturbed(n) BY SameUndisturbed DEF linkVars
<1> QED BY <1>1,<1>2, RecordStays

LEMMA OnlyWork ==
  ASSUME IInv, Types', InvitationsStep, UNCHANGED <<linkVars, binding, realm, discovery>>,
         NEW p \in Processes, NEW n \in Work, proc' = [proc EXCEPT ![p] = n], RecordOf(p, n)
  PROVE  IInv'
BY StaysAside, MoveAndOpen

-----------------------------------------------------------------------------
(* Records of work                                                          *)

LEMMA NothingFound == <<>> \in Finds /\ <<>> \in Sights
<1>1. <<>> \in [{} -> RealmNames] /\ <<>> \in [{} -> Looks] OBVIOUS
<1> QED BY <1>1 DEF Finds, Sights

LEMMA FindsAre ==
  /\ \A f : f \in Finds <=> f \in [DOMAIN f -> RealmNames] /\ DOMAIN f \subseteq Sides
  /\ \A f : f \in Sights <=> f \in [DOMAIN f -> Looks] /\ DOMAIN f \subseteq Sides
BY DEF Finds, Sights

LEMMA IdleFine ==
  ASSUME NEW p \in Processes
  PROVE  Idle \in Work /\ RecordOf(p, Idle) /\ RecordOf(p, Idle)'
<1>1. Idle \in Work BY NothingFound, ConstantsAssumption DEF Idle, Work, Points, Sides
<1>2. RecordOf(p, Idle)
 BY DEF RecordOf, Idle, DutyOf, SealOf, VisitorOf, FindingOf, CopyOf, Inquiry, Finalization, Sealing
<1>3. RecordOf(p, Idle)'
 BY DEF RecordOf, Idle, DutyOf, SealOf, VisitorOf, FindingOf, CopyOf, Inquiry, Finalization, Sealing
<1> QED BY <1>1,<1>2,<1>3

Aborted(p) == IF proc[p].seals # {} THEN At(p, "release") ELSE Idle
LEMMA AbortFine ==
  ASSUME IInv, NEW p \in Processes
  PROVE  Aborted(p) \in Work /\ RecordOf(p, Aborted(p))
<1> PICK q \in Work : q = proc[p] BY DEF IInv, Types, WorkTypes
<1>1. RecordOf(p, q) BY DEF IInv, Records
<1>2. CASE q.seals = {} BY <1>2, IdleFine DEF Aborted
<1>3. CASE q.seals # {}
 <2>1. p = Authority BY <1>1,<1>3 DEF RecordOf, VisitorOf
 <2>2. PICK n \in Work : n = [q EXCEPT !.pc = "release"] BY DEF Work, Points
 <2>3. Aborted(p) = n BY <1>3,<2>2 DEF Aborted, At
 <2>4. DutyOf(n) BY <2>1,<2>2,<1>1,<1>3 DEF RecordOf, DutyOf, Inquiry, Finalization, Work
 <2>5. SealOf(n) BY <2>1,<2>2,<1>1 DEF RecordOf, SealOf, Sealing, Work
 <2>6. FindingOf(n) /\ CopyOf(n) BY <2>2 DEF FindingOf, CopyOf, Inquiry, Work
 <2> QED BY <2>1,<2>3,<2>4,<2>5,<2>6 DEF RecordOf
<1> QED BY <1>2,<1>3

LEMMA TypesStay ==
  ASSUME IInv
  PROVE  /\ UNCHANGED invitationVars => InvitationTypes'
         /\ UNCHANGED linkVars => LinkTypes'
         /\ UNCHANGED bindingVars => BindingTypes'
         /\ UNCHANGED <<realm, spent>> => RealmTypes'
         /\ Rearm \/ Prearm \/ UNCHANGED alarm => alarm' \in {"none", "later", "due"}
<1>1. UNCHANGED invitationVars => InvitationTypes' BY DEF IInv, Types, InvitationTypes, invitationVars
<1>2. UNCHANGED linkVars => LinkTypes' BY DEF IInv, Types, LinkTypes, linkVars
<1>3. UNCHANGED bindingVars => BindingTypes' BY DEF IInv, Types, BindingTypes, bindingVars
<1>4. UNCHANGED <<realm, spent>> => RealmTypes' BY DEF IInv, Types, RealmTypes
<1>5. Rearm \/ Prearm \/ UNCHANGED alarm => alarm' \in {"none", "later", "due"}
 BY DEF IInv, Types, WorkTypes, Rearm, Prearm
<1> QED BY <1>1,<1>2,<1>3,<1>4,<1>5

LEMMA WorkStays ==
  ASSUME IInv, Rearm \/ Prearm \/ UNCHANGED alarm
  PROVE  /\ UNCHANGED proc => WorkTypes'
         /\ \A p \in Processes, n \in Work : proc' = [proc EXCEPT ![p] = n] => WorkTypes'
BY TypesStay DEF IInv, Types, WorkTypes

LEMMA SpentStays ==
  ASSUME IInv, UNCHANGED realm,
         \/ UNCHANGED spent
         \/ spent' = [spent EXCEPT !.deadlines = @ + 1]
         \/ spent' = [spent EXCEPT !.changes = @ + 1]
         \/ spent' = [spent EXCEPT !.failures = @ + 1]
         \/ spent' = [spent EXCEPT !.evictions = @ + 1]
  PROVE  RealmTypes'
BY DEF IInv, Types, RealmTypes

-----------------------------------------------------------------------------
(* Invitations                                                              *)

LEMMA ExpireFine ==
  ASSUME IInv, UNCHANGED discovery, NEW S \in SUBSET Invitations, Expire(S),
         \A i \in S : inv[i].status \in Pending \cup {"invited"}
  PROVE  InvitationsStep /\ InvitationTypes'
<1>1. inv \in [Invitations -> Invites] /\ late \subseteq Invitations /\ discovery \in [Invitations -> Discovered]
 BY DEF IInv, Types, InvitationTypes
<1>2. ASSUME NEW i \in Invitations
      PROVE  /\ inv'[i] \in Invites /\ inv'[i].guild = inv[i].guild /\ inv'[i].channel = inv[i].channel
             /\ RowOf(inv'[i]) /\ (inv[i].status \in {"active", "pruned"} => inv'[i] = inv[i])
 <2>1. PICK row \in Invites : row = inv[i] /\ RowOf(row) BY <1>1 DEF IInv, Tables, Rows
 <2>2. CASE i \in S
  <3>1. inv'[i] = [row EXCEPT !.status = "expired"] /\ row.status \in Pending \cup {"invited"}
   BY <2>1,<2>2,<1>1 DEF Expire
  <3> QED BY <2>1,<3>1 DEF Invites, Statuses, Terminal, RowOf, Pending
 <2>3. CASE i \notin S BY <2>1,<2>3,<1>1 DEF Expire
 <2> QED BY <2>2,<2>3
<1>3. inv' \in [Invitations -> Invites] /\ late' \subseteq Invitations
 <2>1. DOMAIN inv' = Invitations /\ inv' = [i \in Invitations |-> inv'[i]] BY DEF Expire
 <2> QED BY <1>1,<1>2,<2>1 DEF Expire
<1> QED BY <1>1,<1>2,<1>3 DEF InvitationsStep, InvitationTypes

LEMMA RowFine ==
  ASSUME IInv, UNCHANGED discovery, NEW i \in Invitations, NEW row \in Invites, inv' = [inv EXCEPT ![i] = row],
         RowOf(row), inv[i].status \notin {"active", "pruned"}, Named(i) => row.guild = inv[i].guild /\ row.channel = inv[i].channel,
         late' \subseteq late
  PROVE  InvitationsStep /\ InvitationTypes'
<1>1. inv \in [Invitations -> Invites] /\ late \subseteq Invitations /\ discovery \in [Invitations -> Discovered]
 BY DEF IInv, Types, InvitationTypes
<1>2. \A j \in Invitations : RowOf(inv[j]) BY DEF IInv, Tables, Rows
<1> QED BY <1>1,<1>2 DEF InvitationsStep, InvitationTypes

LEMMA CreateInvitationKeeps ==
  ASSUME IInv, NEW i \in Invitations, NEW g \in Guilds, CreateInvitation(i, g)
  PROVE  IInv'
<1>1. PICK row \in Invites : row = [status |-> "invited", guild |-> g, channel |-> None] BY DEF Invites, Statuses
<1>2. RowOf(row) /\ inv' = [inv EXCEPT ![i] = row] /\ inv[i].status = "none" BY <1>1 DEF RowOf, CreateInvitation
<1>3. ~Named(i) BY <1>2, ConstantsAssumption DEF IInv, Tables, Rows, RowOf, Named, Groups
<1>4. InvitationsStep /\ InvitationTypes' BY <1>2,<1>3, RowFine DEF CreateInvitation
<1>5. Types' BY <1>4, TypesStay, WorkStays DEF CreateInvitation, Types
<1> QED BY <1>4,<1>5, OpenStep DEF CreateInvitation, bindingVars

LEMMA ReserveInvitationKeeps ==
  ASSUME IInv, NEW i \in Invitations, ReserveInvitation(i)
  PROVE  IInv'
<1>1. PICK old \in Invites : old = inv[i] /\ RowOf(old) /\ old.status = "invited"
 BY DEF IInv, Types, InvitationTypes, Tables, Rows, ReserveInvitation
<1>2. PICK row \in Invites : row = [old EXCEPT !.status = "reserved"] BY <1>1 DEF Invites, Statuses, Pending
<1>3. RowOf(row) /\ row.guild = old.guild /\ row.channel = old.channel BY <1>1,<1>2 DEF RowOf, Invites
<1>4. inv' = [inv EXCEPT ![i] = row] BY <1>1,<1>2 DEF ReserveInvitation, SetStatus
<1>5. InvitationsStep /\ InvitationTypes' BY <1>1,<1>3,<1>4, RowFine DEF ReserveInvitation
<1>6. Types' BY <1>5, TypesStay, WorkStays DEF ReserveInvitation, Types
<1> QED BY <1>5,<1>6, OpenStep DEF ReserveInvitation, bindingVars

\* The record of a discovery that starts.
Started(n, i, kind) ==
  /\ n \in Work /\ n.pc = "candidate" /\ n.kind = kind /\ n.inv = i /\ n.side = "discord"
  /\ n.found = <<>> /\ n.version = 0 /\ n.seals = {} /\ n.refresh = FALSE
LEMMA StartFine ==
  ASSUME NEW i \in Invitations, NEW kind \in {"page", "activate"}, NEW p
  PROVE  Started(StartDiscovery(p, i, kind), i, kind)
<1>1. PICK d \in Work : /\ d = Idle /\ d.side = "discord" /\ d.found = <<>>
                       /\ d.version = 0 /\ d.seals = {} /\ d.refresh = FALSE BY IdleFine DEF Idle, Processes
<1>2. StartDiscovery(p, i, kind) = [d EXCEPT !.pc = "candidate", !.kind = kind, !.inv = i]
 BY <1>1 DEF StartDiscovery
<1> QED BY <1>1,<1>2 DEF Started, Work, Points, Inquiry

LEMMA PageFine ==
  ASSUME NEW i \in Invitations
  PROVE  /\ Named(i) => RecordOf(i, StartDiscovery(i, i, "page"))
         /\ Named(i)' => RecordOf(i, StartDiscovery(i, i, "page"))'
<1>1. PICK n \in Work : n = StartDiscovery(i, i, "page") /\ Started(n, i, "page")
 <2>1. Started(StartDiscovery(i, i, "page"), i, "page")
  <3>1. "page" \in {"page", "activate"} OBVIOUS
  <3> QED BY <3>1, StartFine
 <2> QED BY <2>1 DEF Started
<1>3. i # Authority BY ConstantsAssumption
<1>4. Known(i, n.found) /\ Known(i, n.found)' /\ DOMAIN n.found = {} BY <1>1 DEF Known, Started
<1>5. (Named(i) => VisitorOf(i, n)) /\ (Named(i)' => VisitorOf(i, n)') BY <1>1 DEF Started, VisitorOf, Inquiry
<1>6. FindingOf(n) /\ FindingOf(n)' /\ CopyOf(n) /\ CopyOf(n)' BY <1>1,<1>4 DEF Started, FindingOf, CopyOf
<1> QED BY <1>1,<1>3,<1>5,<1>6 DEF RecordOf

LEMMA VerifyInvitationKeeps ==
  ASSUME IInv, NEW i \in Invitations, NEW c \in Channels, VerifyInvitation(i, c)
  PROVE  IInv'
<1>1. PICK old \in Invites : old = inv[i] /\ RowOf(old) /\ old.status = "reserved"
 BY DEF IInv, Types, InvitationTypes, Tables, Rows, VerifyInvitation
<1>2. PICK row \in Invites : row = [old EXCEPT !.status = "awaiting_state_resolution", !.channel = c]
 BY <1>1 DEF Invites, Statuses, Pending
<1>3. RowOf(row) /\ row.guild \in Guilds /\ row.channel = c BY <1>1,<1>2 DEF RowOf, Invites
<1>4. inv' = [inv EXCEPT ![i] = row] BY <1>1,<1>2 DEF VerifyInvitation
<1>5. ~Named(i) BY <1>1, ConstantsAssumption DEF Named, RowOf, Groups
<1>6. InvitationsStep /\ InvitationTypes' BY <1>1,<1>3,<1>4,<1>5, RowFine DEF VerifyInvitation
<1>7. Named(i)' BY <1>3,<1>4 DEF Named, IInv, Types, InvitationTypes
<1>8. PICK n \in Work : n = StartDiscovery(i, i, "page") /\ RecordOf(i, n)'
 BY <1>7, StartFine, PageFine DEF Started
<1>9. proc' = [proc EXCEPT ![i] = n] /\ i \in Processes BY <1>8 DEF VerifyInvitation, Goto, Processes
<1>10. Types' BY <1>6,<1>9, TypesStay, WorkStays DEF VerifyInvitation, Types
<1> QED BY <1>6,<1>8,<1>9,<1>10, MoveAndOpen DEF VerifyInvitation, bindingVars

LEMMA OpenIs ==
  ASSUME IInv, NEW i \in Invitations, inv[i].status \notin {"active", "pruned"}
  PROVE  integ[i].status = "none" /\ (Open(i) => Named(i))
BY DEF IInv, Tables, Rows, RowOf, Open, Named

LEMMA ResumeInvitationKeeps ==
  ASSUME IInv, NEW i \in Invitations, ResumeInvitation(i)
  PROVE  IInv'
<1>1. inv[i].status \in Pending BY DEF ResumeInvitation
<1>2. CASE Expire({i}) /\ UNCHANGED proc
 <2>1. InvitationsStep /\ InvitationTypes' BY <1>1,<1>2, ExpireFine DEF ResumeInvitation
 <2>2. Types' BY <1>2,<2>1, TypesStay, WorkStays DEF ResumeInvitation, Types
 <2> QED BY <1>2,<2>1,<2>2, OpenStep DEF ResumeInvitation, bindingVars
<1>3. CASE Open(i) /\ Goto(i, StartDiscovery(i, i, "page")) /\ UNCHANGED <<inv, late>>
 <2>1. Named(i) BY <1>1,<1>3, OpenIs DEF Pending
 <2>2. "page" \in {"page", "activate"} OBVIOUS
 <2>3. PICK n \in Work : n = StartDiscovery(i, i, "page") BY <2>2, StartFine DEF Started
 <2>4. RecordOf(i, n) /\ i \in Processes /\ proc' = [proc EXCEPT ![i] = n]
  BY <1>3,<2>1,<2>3, PageFine DEF Goto, Processes
 <2>5. Types' BY <1>3,<2>4, TypesStay, WorkStays DEF ResumeInvitation, Types, invitationVars
 <2>6. InvitationsStep BY <1>3, InvitationsStay
 <2> QED BY <2>4,<2>5,<2>6, OnlyWork DEF ResumeInvitation, bindingVars
<1> QED BY <1>2,<1>3 DEF ResumeInvitation

LEMMA CancelInvitationKeeps ==
  ASSUME IInv, NEW i \in Invitations, CancelInvitation(i)
  PROVE  IInv'
<1>1. PICK old \in Invites : old = inv[i] /\ RowOf(old) /\ old.status \in Pending
 BY DEF IInv, Types, InvitationTypes, Tables, Rows, CancelInvitation
<1>2. InvitationsStep /\ InvitationTypes'
 <2>1. CASE Overdue(i) BY <1>1,<2>1, ExpireFine DEF CancelInvitation
 <2>2. CASE ~Overdue(i)
  <3>1. PICK row \in Invites : row = [old EXCEPT !.status = "cancelled"] BY <1>1 DEF Invites, Statuses, Terminal
  <3>2. RowOf(row) /\ row.guild = old.guild /\ row.channel = old.channel BY <1>1,<3>1 DEF RowOf, Invites, Pending
  <3>3. inv' = [inv EXCEPT ![i] = row] BY <1>1,<2>2,<3>1 DEF CancelInvitation, SetStatus
  <3> QED BY <1>1,<2>2,<3>2,<3>3, RowFine DEF CancelInvitation, Pending
 <2> QED BY <2>1,<2>2
<1>3. Types' BY <1>2, TypesStay, WorkStays DEF CancelInvitation, Types
<1> QED BY <1>2,<1>3, OpenStep DEF CancelInvitation, bindingVars

LEMMA DeadlinePassesKeeps ==
  ASSUME IInv, NEW i \in Invitations, DeadlinePasses(i)
  PROVE  IInv'
<1>1. InvitationTypes' BY DEF DeadlinePasses, IInv, Types, InvitationTypes
<1>2. RealmTypes' BY SpentStays DEF DeadlinePasses
<1>3. Types' BY <1>1,<1>2, TypesStay, WorkStays DEF DeadlinePasses, Types
<1>4. InvitationsStep BY InvitationsStay DEF DeadlinePasses
<1> QED BY <1>3,<1>4, OpenStep DEF DeadlinePasses, bindingVars

\* The choice of a discovery that has none.
LEMMA ResolveInvitationStateKeeps ==
  ASSUME IInv, NEW i \in Invitations, NEW s \in Selections, ResolveInvitationState(i, s)
  PROVE  IInv'
<1>1. CASE Expire({i}) /\ UNCHANGED discovery
 <2>1. InvitationsStep /\ InvitationTypes' BY <1>1, ExpireFine DEF ResolveInvitationState, Open, Pending
 <2>2. Types' BY <2>1, TypesStay, WorkStays DEF ResolveInvitationState, Types
 <2> QED BY <1>1,<2>1,<2>2, OpenStep DEF ResolveInvitationState, bindingVars
<1>2. CASE /\ discovery[i].version > 0 /\ discovery[i].choice = None
           /\ discovery' = [discovery EXCEPT ![i].choice = s] /\ UNCHANGED <<inv, late>>
 <2>1. PICK d \in Discovered : d = discovery[i] /\ DiscoveryOf(i, d)
  BY DEF IInv, Types, InvitationTypes, Discoveries
 <2>2. PICK e \in Discovered : e = [d EXCEPT !.choice = s] BY DEF Discovered
 <2>3. discovery' = [discovery EXCEPT ![i] = e] /\ e.version = d.version /\ e.found = d.found /\ e.seen = d.seen
  BY <1>2,<2>1,<2>2 DEF Discovered
 <2>4. InvitationTypes' BY <1>2,<2>3 DEF IInv, Types, InvitationTypes
 <2>5. Types' BY <2>4, TypesStay, WorkStays DEF ResolveInvitationState, Types
 <2>6. InvitationsStep BY <1>2, InvitationsStay
 <2>7. Tables' /\ LinksAgree' /\ Onward /\ Kept
  BY <2>5,<2>6, LinksStay, KeptIfSame DEF ResolveInvitationState, bindingVars
 <2>8. Stores' BY <2>7, StoresStay DEF ResolveInvitationState, linkVars
 <2>9. DiscoveryOf(i, e) BY <1>2,<2>1,<2>3 DEF DiscoveryOf, Discovered
 <2>10. DiscoveryOf(i, e)'
  <3>1. \A g : Published(g)' = Published(g)
   BY <1>2 DEF ResolveInvitationState, linkVars, Published, Members, RealmOfIntegration
  <3> QED BY <1>2,<2>9,<3>1 DEF DiscoveryOf, Named, Known, GroupOf
 <2>11. discovery'[i] = e /\ \A j \in Invitations : j # i => discovery'[j] = discovery[j]
  BY <2>3 DEF IInv, Types, InvitationTypes
 <2>12. Discoveries'
  <3> SUFFICES ASSUME NEW j \in Invitations PROVE DiscoveryOf(j, discovery[j])' BY DEF Discoveries
  <3>1. CASE j = i BY <3>1,<2>10,<2>11 DEF DiscoveryOf, Known
  <3>2. CASE j # i
   <4>1. DiscoveryOf(j, discovery[j])' BY <3>2,<2>7,<2>11, DiscoveriesStay
   <4> QED BY <4>1
  <3> QED BY <3>1,<3>2
 <2>13. Undisturbed(proc[Authority])
  <3>1. PICK q \in Work : q = proc[Authority] BY DEF IInv, Types, WorkTypes, Processes
  <3>2. SealOf(q) BY <3>1 DEF IInv, Records, RecordOf, Processes
  <3>3. q.pc \in Sealing /\ q.version > 0 => discovery[q.inv].choice # None BY <3>2 DEF SealOf
  <3>4. q.pc \in Sealing /\ q.version > 0 => discovery'[q.inv] = discovery[q.inv]
   BY <1>2,<3>3 DEF IInv, Types, InvitationTypes
  <3> QED BY <3>1,<3>4 DEF Undisturbed, ResolveInvitationState
 <2> QED BY <2>5,<2>7,<2>8,<2>12,<2>13, NoneMoves DEF ResolveInvitationState, linkVars
<1> QED BY <1>1,<1>2 DEF ResolveInvitationState

LEMMA ActivateInvitationKeeps ==
  ASSUME IInv, NEW i \in Invitations, ActivateInvitation(i)
  PROVE  IInv'
<1>1. CASE Expire({i}) /\ UNCHANGED proc /\ Rearm
 <2>1. InvitationsStep /\ InvitationTypes' BY <1>1, ExpireFine DEF ActivateInvitation, Open, Pending
 <2>2. Types' BY <1>1,<2>1, TypesStay, WorkStays DEF ActivateInvitation, Types
 <2> QED BY <1>1,<2>1,<2>2, OpenStep DEF ActivateInvitation, bindingVars
<1>2. CASE /\ Goto(Authority, [StartDiscovery(Authority, i, "activate") EXCEPT
                                  !.pc = IF discovery[i].version = 0 THEN @ ELSE "plan"])
           /\ UNCHANGED <<inv, late>> /\ Prearm
 <2>1. Named(i) /\ integ[i].status = "none" BY OpenIs DEF ActivateInvitation, Open
 <2>2. "activate" \in {"page", "activate"} OBVIOUS
 <2>3. PICK d \in Work : d = StartDiscovery(Authority, i, "activate") /\ Started(d, i, "activate")
  <3>1. Started(StartDiscovery(Authority, i, "activate"), i, "activate") BY <2>2, StartFine
  <3> QED BY <3>1 DEF Started
 <2>4. PICK pc \in {"candidate", "plan"} : pc = IF discovery[i].version = 0 THEN d.pc ELSE "plan"
  BY <2>3 DEF Started
 <2>5. PICK n \in Work : n = [d EXCEPT !.pc = pc] BY DEF Work, Points, Inquiry, Finalization
 <2>6. /\ n.pc = pc /\ n.kind = "activate" /\ n.inv = i /\ n.side = "discord" /\ n.found = <<>>
       /\ n.version = 0 /\ n.seals = {} /\ n.refresh = FALSE BY <2>3,<2>5 DEF Started, Work
 <2>7. Authority \in Processes /\ proc' = [proc EXCEPT ![Authority] = n]
  BY <1>2,<2>3,<2>4,<2>5 DEF Goto, Processes
 <2>8. DutyOf(n) BY <2>1,<2>4,<2>6 DEF DutyOf, Inquiry, Finalization
 <2>9. SealOf(n) BY <2>4,<2>6 DEF SealOf, Sealing
 <2>10. FindingOf(n) /\ CopyOf(n) BY <2>4,<2>6 DEF FindingOf, CopyOf, Known, Inquiry
 <2>11. RecordOf(Authority, n) BY <2>8,<2>9,<2>10 DEF RecordOf
 <2>12. Types' BY <1>2,<2>7, TypesStay, WorkStays DEF ActivateInvitation, Types, invitationVars
 <2>13. InvitationsStep BY <1>2, InvitationsStay
 <2> QED BY <2>7,<2>11,<2>12,<2>13, OnlyWork DEF ActivateInvitation, bindingVars
<1> QED BY <1>1,<1>2 DEF ActivateInvitation

-----------------------------------------------------------------------------
(* The alarm, the group jobs and the notifications                          *)

LEMMA AuthorityIs ==
  ASSUME IInv
  PROVE  /\ Authority \in Processes /\ proc[Authority] \in Work
         /\ DutyOf(proc[Authority]) /\ SealOf(proc[Authority])
         /\ FindingOf(proc[Authority]) /\ CopyOf(proc[Authority])
<1>1. Authority \in Processes BY DEF Processes
<1> QED BY <1>1 DEF IInv, Types, WorkTypes, Records, RecordOf

\* The group jobs and one process move.
LEMMA GroupJobsMove ==
  ASSUME IInv, Types', UNCHANGED <<inv, discovery, integ, created, default, succ, jobs, binding, realm>>,
         IsInjective(groupJobs)', NEW p \in Processes, NEW n \in Work, proc' = [proc EXCEPT ![p] = n], RecordOf(p, n)
  PROVE  IInv'
<1>1. Tables' /\ LinksAgree' /\ Onward /\ Kept BY InvitationsStay, LinksHold, KeptIfSame
<1>2. Stores' BY <1>1, StoresStay
<1>3. ASSUME NEW i \in Invitations PROVE DiscoveryOf(i, discovery[i])' BY <1>1, DiscoveriesStay
<1>4. Undisturbed(n) /\ Undisturbed(proc[Authority]) BY SameUndisturbed
<1>5. RecordOf(p, n)' BY <1>1,<1>4, RecordStays
<1> QED BY <1>1,<1>2,<1>3,<1>4,<1>5, OneMoves DEF Discoveries

\* Work that neither asks for a realm nor seals one.
LEMMA PlainFine ==
  ASSUME NEW n \in Work, n.pc \in {"batch", "drain", "deliver"}, n.kind # "activate", n.seals = {},
         n.pc = "batch" => n.group \in Groups
  PROVE  RecordOf(Authority, n) /\ RecordOf(Authority, n)'
<1>1. RecordOf(Authority, n) BY DEF RecordOf, DutyOf, SealOf, FindingOf, CopyOf, Inquiry, Finalization, Sealing
<1>2. RecordOf(Authority, n)' BY DEF RecordOf, DutyOf, SealOf, FindingOf, CopyOf, Inquiry, Finalization, Sealing
<1> QED BY <1>1,<1>2

LEMMA IdleIs ==
  \E n \in Work : n = Idle /\ n.pc = "idle" /\ n.kind = "none" /\ n.inv = None /\ n.group = None
                  /\ n.side = "discord" /\ n.found = <<>> /\ n.version = 0 /\ n.refresh = FALSE /\ n.seals = {}
<1>1. Idle \in Work BY IdleFine DEF Processes
<1> QED BY <1>1 DEF Idle

LEMMA RevokeForGroupKeeps ==
  ASSUME IInv, NEW g \in Groups, RevokeForGroup(g)
  PROVE  IInv'
<1>1. PICK d \in Work : d = Idle /\ d.seals = {} BY IdleIs
<1>2. PICK n \in Work : n = [d EXCEPT !.pc = "batch", !.kind = "group", !.group = g] BY DEF Work, Points
<1>3. n.pc = "batch" /\ n.kind = "group" /\ n.group = g /\ n.seals = {} BY <1>1,<1>2 DEF Work
<1>4. proc' = [proc EXCEPT ![Authority] = n] /\ Authority \in Processes
 BY <1>1,<1>2 DEF RevokeForGroup, Goto, Processes
<1>5. RecordOf(Authority, n) BY <1>3, PlainFine
<1>6. groupJobs' \in Seq(Groups) /\ IsInjective(groupJobs)'
 <2>1. groupJobs \in Seq(Groups) /\ IsInjective(groupJobs) BY DEF IInv, Types, LinkTypes, Tables, Queues
 <2>2. CASE g \in Range(groupJobs) BY <2>1,<2>2 DEF RevokeForGroup, IsInjective
 <2>3. CASE g \notin Range(groupJobs)
  <3>1. PICK s : s = Append(groupJobs, g) OBVIOUS
  <3>2. s \in Seq(Groups) /\ IsInjective(s) /\ groupJobs' = s BY <2>1,<2>3,<3>1, AppendRow DEF RevokeForGroup
  <3> QED BY <3>2 DEF IsInjective
 <2> QED BY <2>2,<2>3
<1>7. LinkTypes' BY <1>6 DEF RevokeForGroup, IInv, Types, LinkTypes
<1>8. RealmTypes' BY SpentStays DEF RevokeForGroup, Requested
<1>9. Types' BY <1>4,<1>7,<1>8, TypesStay, WorkStays DEF RevokeForGroup, Types
<1> QED BY <1>4,<1>5,<1>6,<1>9, GroupJobsMove DEF RevokeForGroup, invitationVars, bindingVars

LEMMA JobsAre ==
  ASSUME IInv, jobs # <<>>
  PROVE  Head(jobs) \in Invitations /\ integ[Head(jobs)].status = "revoking"
<1>1. jobs \in Seq(Invitations) BY DEF IInv, Types, LinkTypes
<1>2. Head(jobs) \in Range(jobs) /\ Head(jobs) \in Invitations BY <1>1, FirstJob
<1> QED BY <1>2 DEF IInv, Tables, Rows

\* What the alarm does after the group jobs.
LEMMA AfterGroupsFine ==
  ASSUME IInv
  PROVE  \E n \in Work : /\ n = AlarmAfterGroups /\ RecordOf(Authority, n)
                         /\ n.pc \in {"drain", "freeze"} /\ n.seals = {}
<1>1. PICK d \in Work : d = Idle /\ d.seals = {} BY IdleIs
<1>2. CASE jobs = <<>>
 <2>1. PICK n \in Work : n = [d EXCEPT !.pc = "drain", !.kind = "alarm"] BY DEF Work, Points
 <2>2. n.pc = "drain" /\ n.kind = "alarm" /\ n.seals = {} BY <1>1,<2>1 DEF Work
 <2>3. RecordOf(Authority, n) BY <2>2, PlainFine
 <2> QED BY <1>1,<1>2,<2>1,<2>2,<2>3 DEF AlarmAfterGroups
<1>3. CASE jobs # <<>>
 <2>1. PICK i \in Invitations : i = Head(jobs) /\ integ[i].status = "revoking" BY <1>3, JobsAre
 <2>2. PICK n \in Work : n = [d EXCEPT !.pc = "freeze", !.kind = "alarm", !.inv = i] BY DEF Work, Points
 <2>3. n.pc = "freeze" /\ n.kind = "alarm" /\ n.seals = {} /\ n.inv = i BY <1>1,<2>2 DEF Work
 <2>4. RecordOf(Authority, n)
  BY <2>1,<2>3 DEF RecordOf, DutyOf, SealOf, FindingOf, CopyOf, Inquiry, Finalization, Sealing
 <2> QED BY <1>1,<1>3,<2>1,<2>2,<2>3,<2>4 DEF AlarmAfterGroups
<1> QED BY <1>2,<1>3

LEMMA BatchEndsKeeps ==
  ASSUME IInv, BatchEnds
  PROVE  IInv'
<1> DEFINE g == proc[Authority].group
<1>1. g \in Groups /\ Authority \in Processes BY AuthorityIs DEF DutyOf, BatchEnds
<1>2. groupJobs' \in Seq(Groups) /\ IsInjective(groupJobs)'
 <2>1. groupJobs \in Seq(Groups) /\ IsInjective(groupJobs) BY DEF IInv, Types, LinkTypes, Tables, Queues
 <2>2. PICK s : /\ s = RemoveFirst(groupJobs, g) /\ s \in Seq(Groups) /\ IsInjective(s)
                /\ Range(s) = Range(groupJobs) \ {g} BY <2>1, RemoveJob
 <2>3. PICK t : t = Append(s, g) /\ t \in Seq(Groups) /\ IsInjective(t) BY <1>1,<2>2, AppendRow
 <2>4. groupJobs' \in {s, t} BY <2>2,<2>3 DEF BatchEnds, Batched
 <2> QED BY <2>2,<2>3,<2>4 DEF IsInjective
<1>3. PICK n \in Work : RecordOf(Authority, n) /\ proc' = [proc EXCEPT ![Authority] = n]
 <2>1. CASE proc[Authority].kind = "alarm" BY <2>1, AfterGroupsFine DEF BatchEnds, Goto
 <2>2. CASE proc[Authority].kind # "alarm" BY <2>2,<1>1, IdleFine DEF BatchEnds, Goto
 <2> QED BY <2>1,<2>2
<1>4. LinkTypes' BY <1>2 DEF BatchEnds, IInv, Types, LinkTypes
<1>5. Types' BY <1>1,<1>3,<1>4, TypesStay, WorkStays DEF BatchEnds, Types
<1> QED BY <1>1,<1>2,<1>3,<1>5, GroupJobsMove DEF BatchEnds, invitationVars, bindingVars

LEMMA AlarmFiresKeeps ==
  ASSUME IInv, AlarmFires
  PROVE  IInv'
<1> DEFINE overdue == {i \in late : inv[i].status \in Pending \cup {"invited"}}
           old == {i \in late : inv[i].status \in Terminal}
<1>1. inv \in [Invitations -> Invites] /\ late \subseteq Invitations /\ discovery \in [Invitations -> Discovered]
 BY DEF IInv, Types, InvitationTypes
<1>2. ASSUME NEW i \in Invitations
      PROVE  /\ inv'[i] \in Invites /\ inv'[i].guild = inv[i].guild /\ inv'[i].channel = inv[i].channel
             /\ RowOf(inv'[i]) /\ (inv[i].status \in {"active", "pruned"} => inv'[i].status \in {"active", "pruned"})
 <2>1. PICK row \in Invites : row = inv[i] /\ RowOf(row) BY <1>1 DEF IInv, Tables, Rows
 <2>2. CASE i \in overdue
  <3>1. inv'[i] = [row EXCEPT !.status = "expired"] /\ row.status \in Pending \cup {"invited"}
   BY <2>1,<2>2,<1>1 DEF AlarmFires
  <3> QED BY <2>1,<3>1 DEF Invites, Statuses, Terminal, RowOf, Pending
 <2>3. CASE i \in old /\ i \notin overdue
  <3>1. inv'[i] = [row EXCEPT !.status = "pruned"] /\ row.status \in Terminal BY <2>1,<2>3,<1>1 DEF AlarmFires
  <3> QED BY <2>1,<3>1 DEF Invites, Statuses, Terminal, RowOf, Pending
 <2>4. CASE i \notin overdue /\ i \notin old BY <2>1,<2>4,<1>1 DEF AlarmFires
 <2> QED BY <2>2,<2>3,<2>4
<1>3. NoDiscovery \in Discovered /\ NoDiscovery.version = 0 /\ NoDiscovery.choice = None
 <2>1. 0 \in 0..MaxVersion
  <3>1. MaxVersion \in Nat BY ConstantsAssumption
  <3> QED BY <3>1
 <2> QED BY <2>1, NothingFound DEF NoDiscovery, Discovered
<1>4. \A i \in Invitations : discovery'[i] \in {NoDiscovery, discovery[i]} BY DEF AlarmFires
<1>5. InvitationTypes'
 <2>1. inv' = [i \in Invitations |-> inv'[i]] /\ discovery' = [i \in Invitations |-> discovery'[i]]
  BY DEF AlarmFires
 <2>2. late' \subseteq late BY DEF AlarmFires
 <2> QED BY <1>1,<1>2,<1>3,<1>4,<2>1,<2>2 DEF InvitationTypes
<1>6. InvitationsStep BY <1>2 DEF InvitationsStep
<1>7. PICK n \in Work : /\ RecordOf(Authority, n) /\ proc' = [proc EXCEPT ![Authority] = n]
                        /\ n.pc \notin Sealing /\ n.seals = {}
 <2>1. CASE groupJobs = <<>> BY <2>1, AfterGroupsFine DEF AlarmFires, Goto, Sealing
 <2>2. CASE groupJobs # <<>>
  <3>1. PICK h \in Groups : h = Head(groupJobs)
   <4>1. groupJobs \in Seq(Groups) BY DEF IInv, Types, LinkTypes
   <4> QED BY <2>2,<4>1, FirstJob
  <3>2. PICK d \in Work : d = Idle /\ d.seals = {} BY IdleIs
  <3>3. PICK n \in Work : n = [d EXCEPT !.pc = "batch", !.kind = "alarm", !.group = h] BY DEF Work, Points
  <3>4. n.pc = "batch" /\ n.kind = "alarm" /\ n.group = h /\ n.seals = {} BY <3>2,<3>3 DEF Work
  <3>5. RecordOf(Authority, n) BY <3>4, PlainFine
  <3>6. proc' = [proc EXCEPT ![Authority] = n] BY <2>2,<3>1,<3>2,<3>3 DEF AlarmFires, Goto
  <3> QED BY <3>4,<3>5,<3>6 DEF Sealing
 <2> QED BY <2>1,<2>2
<1>8. Authority \in Processes BY AuthorityIs
<1>9. alarm' \in {"none", "later", "due"} /\ WorkTypes' BY <1>7,<1>8 DEF AlarmFires, IInv, Types, WorkTypes
<1>10. Types' BY <1>5,<1>9, TypesStay DEF AlarmFires, Types
<1>11. Tables' /\ LinksAgree' /\ Onward /\ Kept BY <1>6,<1>10, LinksStay, KeptIfSame DEF AlarmFires, bindingVars
<1>12. Stores' BY <1>11, StoresStay DEF AlarmFires, linkVars
<1>13. Discoveries'
 <2> SUFFICES ASSUME NEW i \in Invitations PROVE DiscoveryOf(i, discovery[i])' BY DEF Discoveries
 <2>1. CASE discovery'[i] = discovery[i] BY <2>1,<1>11, DiscoveriesStay
 <2>2. CASE discovery'[i] = NoDiscovery BY <2>2,<1>3 DEF DiscoveryOf
 <2> QED BY <2>1,<2>2,<1>4
<1>14. Undisturbed(n) BY <1>7 DEF Undisturbed, Sealing
<1>15. RecordOf(Authority, n)' BY <1>7,<1>8,<1>11,<1>14, RecordStays DEF AlarmFires, linkVars
<1> QED BY <1>7,<1>8,<1>10,<1>11,<1>12,<1>13,<1>15, OneMoves

LEMMA AlarmMoves ==
  ASSUME IInv, NEW p \in Processes, Abort(p)
  PROVE  /\ \E n \in Work : n = Aborted(p) /\ RecordOf(p, n) /\ proc' = [proc EXCEPT ![p] = n]
         /\ alarm' \in {"none", "later", "due"} /\ WorkTypes'
<1>1. PICK n \in Work : n = Aborted(p) /\ RecordOf(p, n) BY AbortFine
<1>2. proc' = [proc EXCEPT ![p] = n] BY <1>1 DEF Abort, Goto, Aborted
<1>3. Rearm \/ UNCHANGED alarm BY DEF Abort
<1> QED BY <1>1,<1>2,<1>3, TypesStay, WorkStays

LEMMA ClaimNotificationsKeeps ==
  ASSUME IInv, ClaimNotifications
  PROVE  IInv'
<1>1. PICK n \in Work : RecordOf(Authority, n) /\ proc' = [proc EXCEPT ![Authority] = n]
 <2>1. CASE \A g \in Groups : outbox[g] = 0 BY <2>1, IdleFine, AuthorityIs DEF ClaimNotifications, Goto
 <2>2. CASE ~\A g \in Groups : outbox[g] = 0
  <3>1. PICK q \in Work : q = proc[Authority] /\ DutyOf(q) BY AuthorityIs
  <3>2. outbox \in [Groups -> Nat] BY DEF IInv, Types, BindingTypes
  <3>3. PICK n \in Work : n = [q EXCEPT !.pc = "deliver", !.seen = outbox] BY <3>2 DEF Work, Points
  <3>4. n.pc = "deliver" /\ n.kind = q.kind /\ n.seals = q.seals /\ n.inv = q.inv /\ n.version = q.version
   BY <3>3 DEF Work
  <3>5. q.pc = "drain" BY <3>1 DEF ClaimNotifications
  <3>6. DutyOf(n) BY <3>1,<3>4,<3>5 DEF DutyOf, Inquiry, Finalization
  <3>7. SealOf(n) BY <3>1,<3>4,<3>5, AuthorityIs DEF SealOf, Sealing
  <3>8. RecordOf(Authority, n) BY <3>4,<3>6,<3>7 DEF RecordOf, FindingOf, CopyOf, Inquiry
  <3>9. proc' = [proc EXCEPT ![Authority] = n] BY <2>2,<3>1,<3>3 DEF ClaimNotifications, Goto
  <3> QED BY <3>8,<3>9
 <2> QED BY <2>1,<2>2
<1>2. Authority \in Processes /\ Types'
 <2>1. Rearm \/ UNCHANGED alarm BY DEF ClaimNotifications
 <2> QED BY <2>1,<1>1, AuthorityIs, TypesStay, WorkStays DEF ClaimNotifications, Types
<1>3. InvitationsStep BY InvitationsStay DEF ClaimNotifications, invitationVars
<1> QED BY <1>1,<1>2,<1>3, OnlyWork DEF ClaimNotifications, invitationVars, bindingVars

LEMMA OutboxFine ==
  ASSUME IInv, UNCHANGED binding, watchers' \subseteq Groups, outbox' \in [Groups -> Nat],
         \A g \in Groups : outbox'[g] \in {0, outbox[g]}
  PROVE  BindingTypes'
<1>1. \A g \in Groups : outbox[g] <= binding[g].rev /\ binding[g].rev \in Nat BY DEF IInv, Types, BindingTypes
<1> QED BY <1>1 DEF IInv, Types, BindingTypes

LEMMA DeliverNotificationsKeeps ==
  ASSUME IInv, DeliverNotifications
  PROVE  IInv'
<1>1. Authority \in Processes /\ Idle \in Work /\ RecordOf(Authority, Idle) BY AuthorityIs, IdleFine
<1>2. proc' = [proc EXCEPT ![Authority] = Idle] BY DEF DeliverNotifications, Goto
<1>3. outbox \in [Groups -> Nat] /\ watchers \subseteq Groups BY DEF IInv, Types, BindingTypes
<1>4. outbox' \in [Groups -> Nat] /\ \A g \in Groups : outbox'[g] \in {0, outbox[g]}
 BY <1>3 DEF DeliverNotifications
<1>5. BindingTypes' BY <1>3,<1>4, OutboxFine DEF DeliverNotifications
<1>6. RealmTypes' BY SpentStays DEF DeliverNotifications
<1>7. Types' BY <1>1,<1>2,<1>5,<1>6, TypesStay, WorkStays DEF DeliverNotifications, Types
<1>8. InvitationsStep BY InvitationsStay DEF DeliverNotifications, invitationVars
<1> QED BY <1>1,<1>2,<1>7,<1>8, OnlyWork DEF DeliverNotifications, invitationVars

LEMMA WatchKeeps ==
  ASSUME IInv, NEW g \in Watched, WatchBinding(g) \/ UnwatchBinding(g)
  PROVE  IInv'
<1>1. g \in Groups BY ConstantsAssumption
<1>2. outbox \in [Groups -> Nat] /\ watchers \subseteq Groups BY DEF IInv, Types, BindingTypes
<1>3. watchers' \subseteq Groups /\ outbox' \in [Groups -> Nat] /\ \A h \in Groups : outbox'[h] \in {0, outbox[h]}
 BY <1>1,<1>2 DEF WatchBinding, UnwatchBinding
<1>4. BindingTypes' BY <1>3, OutboxFine DEF WatchBinding, UnwatchBinding
<1>5. Types' BY <1>4, TypesStay, WorkStays DEF WatchBinding, UnwatchBinding, Types
<1>6. InvitationsStep BY InvitationsStay DEF WatchBinding, UnwatchBinding, invitationVars
<1> QED BY <1>5,<1>6, OpenStep DEF WatchBinding, UnwatchBinding, invitationVars

LEMMA ResolveShareableStateKeeps ==
  ASSUME IInv, NEW g \in Groups, ResolveShareableState(g)
  PROVE  IInv'
<1>1. PICK d \in Work : d = Idle /\ d.side = "discord" /\ d.seals = {} /\ d.version = 0 /\ ~d.refresh BY IdleIs
<1>2. PICK n \in Work : n = [d EXCEPT !.pc = "candidate", !.kind = "resolve", !.group = g]
 BY DEF Work, Points, Inquiry
<1>3. n.pc = "candidate" /\ n.kind = "resolve" /\ n.group = g /\ n.seals = {} /\ n.version = 0 /\ ~n.refresh
 BY <1>1,<1>2 DEF Work
<1>4. proc' = [proc EXCEPT ![Authority] = n] /\ Authority \in Processes
 BY <1>1,<1>2, AuthorityIs DEF ResolveShareableState, Goto
<1>5. RecordOf(Authority, n)
 BY <1>3 DEF RecordOf, DutyOf, SealOf, FindingOf, CopyOf, Inquiry, Finalization, Sealing
<1>6. Types' BY <1>4, TypesStay, WorkStays DEF ResolveShareableState, Types
<1>7. InvitationsStep BY InvitationsStay DEF ResolveShareableState, invitationVars
<1> QED BY <1>4,<1>5,<1>6,<1>7, OnlyWork DEF ResolveShareableState, invitationVars, bindingVars

-----------------------------------------------------------------------------
(* Realms                                                                   *)

LEMMA RealmCallFailsKeeps ==
  ASSUME IInv, NEW p \in Processes, RealmCallFails(p)
  PROVE  IInv'
<1>1. PICK n \in Work : RecordOf(p, n) /\ proc' = [proc EXCEPT ![p] = n] BY AlarmMoves DEF RealmCallFails
<1>2. RealmTypes' BY SpentStays DEF RealmCallFails
<1>3. Types' BY <1>2, AlarmMoves, TypesStay DEF RealmCallFails, Types
<1>4. InvitationsStep BY InvitationsStay DEF RealmCallFails, invitationVars
<1> QED BY <1>1,<1>3,<1>4, OnlyWork DEF RealmCallFails, invitationVars, bindingVars

LEMMA EvictedKeeps ==
  ASSUME IInv, Evicted
  PROVE  IInv'
<1>1. \A p \in Processes : Idle \in Work /\ RecordOf(p, Idle)' BY IdleFine
<1>2. \A p \in Processes : proc'[p] = Idle BY DEF Evicted
<1>3. WorkTypes' BY <1>1 DEF Evicted, IInv, Types, WorkTypes
<1>4. RealmTypes' BY SpentStays DEF Evicted
<1>5. Types' BY <1>3,<1>4, TypesStay DEF Evicted, Types
<1>6. InvitationsStep BY InvitationsStay DEF Evicted, invitationVars
<1>7. Tables' /\ LinksAgree' /\ Discoveries' /\ Stores'
 BY <1>5,<1>6, LinksAside DEF Evicted, invitationVars, bindingVars
<1>8. ASSUME NEW p \in Processes PROVE RecordOf(p, proc[p])'
 BY <1>1,<1>2 DEF RecordOf, DutyOf, SealOf, VisitorOf, FindingOf, CopyOf, Inquiry, Finalization, Sealing, Idle
<1> QED BY <1>5,<1>7,<1>8 DEF IInv, Records

LEMMA FreezeIntegrationKeeps ==
  ASSUME IInv, FreezeIntegration
  PROVE  IInv'
<1>1. PICK q \in Work : q = proc[Authority] /\ DutyOf(q) /\ SealOf(q) /\ q.pc = "freeze"
 BY AuthorityIs DEF FreezeIntegration
<1>2. q.inv \in Invitations /\ integ[q.inv].status = "revoking" BY <1>1 DEF DutyOf
<1>3. PICK r \in Realms : r = RealmOfIntegration(q.inv) BY <1>2, RealmsKnown DEF IInv
<1>4. realm' = [realm EXCEPT ![r].frozen = TRUE] /\ realm \in [Realms -> Content]
 BY <1>1,<1>3 DEF FreezeIntegration, Frozen, IInv, Types, RealmTypes
<1>5. \A s \in Realms : /\ realm'[s].val = realm[s].val /\ realm'[s].ver = realm[s].ver
                        /\ realm'[s].seal = realm[s].seal /\ (realm[s].frozen => realm'[s].frozen)
                        /\ realm'[s].expired = realm[s].expired BY <1>4 DEF Content
<1>6. realm'[r].frozen /\ realm' \in [Realms -> Content] BY <1>4 DEF Content
<1>7. PICK n \in Work : n = [q EXCEPT !.pc = "repair"] BY DEF Work, Points
<1>8. n.pc = "repair" /\ n.inv = q.inv /\ n.seals = q.seals /\ n.kind = q.kind /\ n.version = q.version
 BY <1>7 DEF Work
<1>9. Authority \in Processes /\ proc' = [proc EXCEPT ![Authority] = n]
 BY <1>1,<1>7, AuthorityIs DEF FreezeIntegration, Goto, At
<1>10. Types' BY <1>6,<1>9, TypesStay, WorkStays DEF FreezeIntegration, Types, IInv, RealmTypes
<1>11. InvitationsStep BY InvitationsStay DEF FreezeIntegration, invitationVars
<1>12. Tables' /\ LinksAgree' /\ Onward BY <1>10,<1>11, LinksStay DEF FreezeIntegration, bindingVars
<1>13. Kept
 <2>1. \A i \in Revoked : RealmOfIntegration(i) \in Realms BY RealmsKnown DEF IInv, Revoked
 <2>2. \A g \in Groups : Standalone(g, succ[g].gen) \in Realms
  <3>1. \A g \in Groups : succ[g].gen \in 1..succ[g].gen BY DEF IInv, Types, LinkTypes, Tables, Successors
  <3> QED BY <3>1, RealmsKnown DEF IInv
 <2> QED BY <1>5,<2>1,<2>2 DEF Kept
<1>14. Stores' BY <1>13, StoresStay DEF FreezeIntegration, linkVars
<1>15. Discoveries' BY <1>12, DiscoveriesStay DEF FreezeIntegration, invitationVars, Discoveries
<1>16. DutyOf(n)'
 <2>1. RealmOfIntegration(q.inv)' = r /\ integ'[q.inv].status = "revoking"
  BY <1>2,<1>3 DEF FreezeIntegration, linkVars, RealmOfIntegration
 <2> QED BY <1>1,<1>2,<1>6,<1>8,<2>1 DEF DutyOf, Inquiry, Finalization
<1>17. SealOf(n)'
 <2>1. \A s \in q.seals : s \in Realms BY DEF Work
 <2> QED BY <1>1,<1>5,<1>8,<2>1 DEF SealOf, Sealing
<1>18. RecordOf(Authority, n)' BY <1>8,<1>16,<1>17 DEF RecordOf, FindingOf, CopyOf, Inquiry
<1> QED BY <1>9,<1>10,<1>12,<1>13,<1>14,<1>15,<1>18, OneMoves

LEMMA RealmsMove ==
  ASSUME IInv, Types', UNCHANGED <<inv, discovery, linkVars, binding, proc>>, Kept, Undisturbed(proc[Authority])
  PROVE  IInv'
<1>1. Tables' /\ LinksAgree' /\ Onward BY InvitationsStay, LinksStay
<1>2. Stores' BY StoresStay DEF linkVars
<1>3. Discoveries' BY <1>1, DiscoveriesStay DEF Discoveries
<1> QED BY <1>1,<1>2,<1>3, NoneMoves DEF linkVars

LEMMA RealmsAndWork ==
  ASSUME IInv, Types', UNCHANGED <<inv, discovery, linkVars, binding>>, Kept,
         NEW p \in Processes, NEW n \in Work, proc' = [proc EXCEPT ![p] = n], RecordOf(p, n)',
         p # Authority => Undisturbed(proc[Authority])
  PROVE  IInv'
<1>1. Tables' /\ LinksAgree' /\ Onward BY InvitationsStay, LinksStay
<1>2. Stores' BY StoresStay DEF linkVars
<1>3. Discoveries' BY <1>1, DiscoveriesStay DEF Discoveries
<1> QED BY <1>1,<1>2,<1>3, OneMoves DEF linkVars

\* The realms that the tables speak of.
LEMMA RealmsOfTables ==
  ASSUME IInv
  PROVE  /\ \A i \in Revoked : RealmOfIntegration(i) \in Realms /\ realm[RealmOfIntegration(i)].frozen
         /\ \A g \in Groups : succ[g].gen \in Nat \ {0} /\ Standalone(g, succ[g].gen) \in Realms
         /\ realm \in [Realms -> Content]
<1>1. \A i \in Revoked : RealmOfIntegration(i) \in Realms /\ realm[RealmOfIntegration(i)].frozen
 BY RealmsKnown DEF IInv, Revoked, Stores, Archived
<1>2. ASSUME NEW g \in Groups PROVE succ[g].gen \in Nat \ {0} /\ Standalone(g, succ[g].gen) \in Realms
 <2>1. succ[g].gen \in Nat /\ succ[g].gen \in 1..(1 + Cardinality(Revoked))
  BY DEF IInv, Types, LinkTypes, Tables, Successors
 <2>2. succ[g].gen \in 1..succ[g].gen BY <2>1, CountRevoked
 <2> QED BY <2>1,<2>2, RealmsKnown DEF IInv
<1> QED BY <1>1,<1>2 DEF IInv, Types, RealmTypes

LEMMA WriteKeeps ==
  ASSUME IInv, NEW g \in Groups, NEW r \in Published(g), Write(g, r)
  PROVE  IInv'
<1>1. r \in Realms /\ realm \in [Realms -> Content] BY RealmsKnown DEF IInv, Types, RealmTypes
<1>2. PICK w \in Nat : w = spent.writes + 1 BY DEF IInv, Types, RealmTypes
<1>3. PICK c \in Content : c = realm[r] /\ ~c.frozen /\ (c.seal = None \/ c.expired) BY <1>1 DEF Write, Sealless
<1>4. PICK d \in Content : d = [c EXCEPT !.val = w, !.ver = c.ver + 1] /\ d.ver # 0
 <2>1. PICK v \in Nat : v = c.ver + 1 /\ v # 0 BY DEF Content
 <2>2. [c EXCEPT !.val = w, !.ver = v] \in Content /\ [c EXCEPT !.val = w, !.ver = v].ver = v BY DEF Content
 <2> QED BY <2>1,<2>2
<1>5. realm' = [realm EXCEPT ![r] = d] BY <1>1,<1>2,<1>3,<1>4 DEF Write, Content
<1>6. d.ver # 0 /\ d.frozen = c.frozen /\ d.seal = c.seal /\ d.expired = c.expired BY <1>4 DEF Content
<1>7. \A s \in Realms : s # r => realm'[s] = realm[s] BY <1>5,<1>1
<1>8. realm'[r] = d /\ realm' \in [Realms -> Content] BY <1>5,<1>1
<1>9. spent' \in [deadlines : Nat, writes : Nat, changes : Nat, failures : Nat, evictions : Nat]
 BY DEF Write, IInv, Types, RealmTypes
<1>10. Types' BY <1>8,<1>9, TypesStay, WorkStays DEF Write, Types, RealmTypes
<1>11. Kept
 <2>1. \A i \in Revoked : RealmOfIntegration(i) # r BY <1>3, RealmsOfTables
 <2>2. ASSUME NEW h \in Groups, succ[h].status = "pending" PROVE Standalone(h, succ[h].gen) # r
  <3>1. CASE r \in {RealmOfIntegration(i) : i \in {j \in Range(created) : g \in Members(j)}}
   BY <3>1, RealmsAre DEF RealmOfIntegration
  <3>2. CASE r \in {Standalone(g, n) : n \in {m \in 1..succ[g].gen : m < succ[g].gen \/ succ[g].status # "pending"}}
   <4>1. PICK n \in 1..succ[g].gen : r = Standalone(g, n) /\ (n < succ[g].gen \/ succ[g].status # "pending")
    BY <3>2
   <4>2. Standalone(h, succ[h].gen) = r => h = g /\ succ[h].gen = n BY <4>1 DEF Standalone
   <4>3. succ[g].gen \in Nat BY RealmsOfTables
   <4> QED BY <2>2,<4>1,<4>2,<4>3
  <3> QED BY <3>1,<3>2 DEF Published
 <2> QED BY <1>3,<1>6,<1>7,<1>8,<2>1,<2>2, RealmsOfTables DEF Kept
<1>12. Undisturbed(proc[Authority])
 <2>1. PICK q \in Work : q = proc[Authority] /\ DutyOf(q) /\ SealOf(q) BY AuthorityIs
 <2>2. r \in q.seals => c.expired
  <3> SUFFICES ASSUME r \in q.seals PROVE c.expired OBVIOUS
  <3>1. q.inv \in Invitations /\ q.version \in Nat
   <4>1. MaxVersion \in Nat BY ConstantsAssumption
   <4> QED BY <2>1,<4>1 DEF DutyOf, Work
  <3>2. <<q.inv, q.version>> \in Invitations \X Nat /\ realm[r].seal = <<q.inv, q.version>>
   BY <2>1,<3>1 DEF SealOf
  <3>3. None \notin Invitations \X Nat BY ConstantsAssumption
  <3> QED BY <1>3,<3>2,<3>3
 <2>3. ASSUME q.pc = "commit", q.version > 0 PROVE Integrated(q.inv, q.version) \in Realms \ {r}
  <3>1. q.inv \in Invitations /\ integ[q.inv].status = "none" /\ Integrated(q.inv, q.version) \in Realms
   BY <2>1,<2>3, SealedKnown DEF IInv, Sealing
  <3>2. CASE r \in {RealmOfIntegration(i) : i \in {j \in Range(created) : g \in Members(j)}}
   <4>1. PICK i \in Range(created) : r = RealmOfIntegration(i) BY <3>2
   <4>2. i # q.inv BY <3>1,<4>1, RowsAre DEF IInv
   <4> QED BY <3>1,<4>1,<4>2 DEF RealmOfIntegration, Integrated
  <3>3. CASE r \in {Standalone(g, n) : n \in {m \in 1..succ[g].gen : m < succ[g].gen \/ succ[g].status # "pending"}}
   BY <3>1,<3>3, RealmsAre
  <3> QED BY <3>2,<3>3 DEF Published
 <2>4. q.seals \subseteq Realms BY DEF Work
 <2>5. UNCHANGED discovery BY DEF Write, invitationVars
 <2> QED BY <1>3,<1>6,<1>7,<1>8,<2>1,<2>2,<2>3,<2>4,<2>5 DEF Undisturbed
<1> QED BY <1>10,<1>11,<1>12, RealmsMove DEF Write, invitationVars, bindingVars

LEMMA SealLapsesKeeps ==
  ASSUME IInv, NEW r \in Realms, SealLapses(r)
  PROVE  IInv'
<1>1. PICK c \in Content : c = realm[r] BY RealmsOfTables
<1>2. PICK d \in Content : d = [c EXCEPT !.expired = TRUE] BY DEF Content
<1>3. d.val = c.val /\ d.ver = c.ver /\ d.frozen = c.frozen /\ d.seal = c.seal /\ d.expired BY <1>2 DEF Content
<1>4. realm' = [realm EXCEPT ![r] = d] BY <1>1,<1>2 DEF SealLapses
<1>5. realm' \in [Realms -> Content] /\ realm'[r] = d /\ \A s \in Realms : s # r => realm'[s] = realm[s]
 BY <1>4, RealmsOfTables
<1>6. Types' BY <1>5, TypesStay, WorkStays DEF SealLapses, Types, IInv, RealmTypes
<1>7. Kept BY <1>1,<1>3,<1>5, RealmsOfTables DEF Kept
<1>8. Undisturbed(proc[Authority])
 <2>1. PICK q \in Work : q = proc[Authority] /\ DutyOf(q) /\ SealOf(q) BY AuthorityIs
 <2>2. q.pc = "commit" /\ q.version > 0 => Integrated(q.inv, q.version) \in Realms
  BY <2>1, SealedKnown DEF IInv, Sealing
 <2>3. q.seals \subseteq Realms BY DEF Work
 <2>4. UNCHANGED discovery BY DEF SealLapses, invitationVars
 <2> QED BY <1>1,<1>3,<1>5,<2>1,<2>2,<2>3,<2>4 DEF Undisturbed
<1> QED BY <1>6,<1>7,<1>8, RealmsMove DEF SealLapses, invitationVars, bindingVars

-----------------------------------------------------------------------------
(* Discovery                                                                *)

\* A realm is found for one more side.
LEMMA AddFind ==
  ASSUME NEW s \in Sides, NEW r \in RealmNames, NEW f \in Finds
  PROVE  \E h \in Finds : /\ h = Extended(f, s, r) /\ DOMAIN h = DOMAIN f \cup {s} /\ h[s] = r
                          /\ \A t \in DOMAIN f \ {s} : h[t] = f[t]
<1> DEFINE h == Extended(f, s, r)
<1>1. DOMAIN h = DOMAIN f \cup {s} /\ h[s] = r /\ \A t \in DOMAIN f \ {s} : h[t] = f[t] BY DEF Extended
<1>2. h = [t \in DOMAIN f \cup {s} |-> h[t]] BY <1>1 DEF Extended
<1>3. f \in [DOMAIN f -> RealmNames] /\ DOMAIN f \subseteq Sides BY FindsAre
<1> HIDE DEF h
<1>4. \A t \in DOMAIN h : h[t] \in RealmNames BY <1>1,<1>3
<1>5. h \in [DOMAIN h -> RealmNames] /\ DOMAIN h \subseteq Sides BY <1>1,<1>2,<1>3,<1>4
<1>6. h \in Finds BY <1>5, FindsAre
<1> QED BY <1>1,<1>6 DEF h

LEMMA AddSight ==
  ASSUME NEW s \in Sides, NEW r \in Looks, NEW f \in Sights
  PROVE  \E h \in Sights : /\ h = Extended(f, s, r) /\ DOMAIN h = DOMAIN f \cup {s} /\ h[s] = r
                           /\ \A t \in DOMAIN f \ {s} : h[t] = f[t]
<1> DEFINE h == Extended(f, s, r)
<1>1. DOMAIN h = DOMAIN f \cup {s} /\ h[s] = r /\ \A t \in DOMAIN f \ {s} : h[t] = f[t] BY DEF Extended
<1>2. h = [t \in DOMAIN f \cup {s} |-> h[t]] BY <1>1 DEF Extended
<1>3. f \in [DOMAIN f -> Looks] /\ DOMAIN f \subseteq Sides BY FindsAre
<1> HIDE DEF h
<1>4. \A t \in DOMAIN h : h[t] \in Looks BY <1>1,<1>3
<1>5. h \in [DOMAIN h -> Looks] /\ DOMAIN h \subseteq Sides BY <1>1,<1>2,<1>3,<1>4
<1>6. h \in Sights BY <1>5, FindsAre
<1> QED BY <1>1,<1>6 DEF h

FoundAs(q, r) ==
  IF q.kind = "resolve" THEN Idle
  ELSE LET found == Extended(q.found, q.side, r) IN
       IF q.side = "discord"
         THEN [q EXCEPT !.pc = "candidate", !.side = "twitch", !.found = found]
         ELSE [q EXCEPT !.pc = "inventory", !.side = "discord", !.found = found]

LEMMA FoundWork ==
  ASSUME NEW q \in Work, NEW r \in RealmNames
  PROVE  FoundAs(q, r) \in Work
<1>1. PICK f \in Finds, s \in Sides : f = q.found /\ s = q.side BY DEF Work
<1>2. PICK h \in Finds : /\ h = Extended(f, s, r) /\ DOMAIN h = DOMAIN f \cup {s} /\ h[s] = r
                        /\ \A t \in DOMAIN f \ {s} : h[t] = f[t] BY AddFind
<1>3. [q EXCEPT !.pc = "candidate", !.side = "twitch", !.found = h] \in Work BY DEF Work, Points, Inquiry, Sides
<1>4. [q EXCEPT !.pc = "inventory", !.side = "discord", !.found = h] \in Work BY DEF Work, Points, Inquiry, Sides
<1>5. Idle \in Work BY IdleIs
<1> QED BY <1>1,<1>2,<1>3,<1>4,<1>5 DEF FoundAs

LEMMA FoundFine ==
  ASSUME NEW p \in Processes, NEW q \in Work, RecordOf(p, q)', q.pc \in {"candidate", "ready"},
         NEW r \in RealmNames, r \in Published(Asked(q))'
  PROVE  \E n \in Work : n = FoundAs(q, r) /\ RecordOf(p, n)'
<1>1. CASE q.kind = "resolve" BY <1>1, IdleFine DEF FoundAs
<1>2. CASE q.kind # "resolve"
 <2>1. PICK h \in Finds : /\ h = Extended(q.found, q.side, r) /\ DOMAIN h = DOMAIN q.found \cup {q.side} /\ h[q.side] = r
                          /\ \A t \in DOMAIN q.found \ {q.side} : h[t] = q.found[t]
  <3>1. PICK f \in Finds, s \in Sides : f = q.found /\ s = q.side BY DEF Work
  <3>2. \E h \in Finds : /\ h = Extended(f, s, r) /\ DOMAIN h = DOMAIN f \cup {s} /\ h[s] = r
                        /\ \A t \in DOMAIN f \ {s} : h[t] = f[t] BY AddFind
  <3> QED BY <3>1,<3>2
 <2>2. PICK pc \in {"candidate", "inventory"} : pc = IF q.side = "discord" THEN "candidate" ELSE "inventory"
  OBVIOUS
 <2>3. PICK side \in Sides : side = IF q.side = "discord" THEN "twitch" ELSE "discord" BY DEF Sides
 <2>4. PICK n \in Work : n = [q EXCEPT !.pc = pc, !.side = side, !.found = h] BY DEF Work, Points, Inquiry
 <2>5. n = FoundAs(q, r) BY <1>2,<2>1,<2>2,<2>3,<2>4 DEF FoundAs
 <2>6. /\ n.pc = pc /\ n.side = side /\ n.found = h /\ n.kind = q.kind /\ n.inv = q.inv /\ n.seals = q.seals
       /\ n.version = q.version /\ n.refresh = q.refresh /\ n.group = q.group BY <2>4 DEF Work
 <2>7. /\ q.inv \in Invitations /\ Known(q.inv, q.found)'
       /\ DOMAIN q.found = IF q.side = "discord" THEN {} ELSE {"discord"} BY <1>2 DEF RecordOf, FindingOf, Inquiry
 <2>8. Known(q.inv, h)' BY <1>2,<2>1,<2>7 DEF Known, Asked
 <2>9. DOMAIN h = IF n.pc = "inventory" THEN Sides ELSE {"discord"} BY <2>1,<2>2,<2>6,<2>7 DEF Sides, Work
 <2>10. FindingOf(n)' BY <1>2,<2>2,<2>3,<2>6,<2>7,<2>8,<2>9 DEF FindingOf
 <2>11. CopyOf(n)' BY <2>2,<2>6 DEF CopyOf
 <2>12. p = Authority => DutyOf(n)' BY <2>2,<2>6 DEF RecordOf, DutyOf, Inquiry, Finalization
 <2>13. p = Authority => SealOf(n)' BY <2>2,<2>6 DEF RecordOf, SealOf, Sealing
 <2>14. p # Authority => VisitorOf(p, n)' BY <2>2,<2>6 DEF RecordOf, VisitorOf, Inquiry
 <2> QED BY <2>5,<2>10,<2>11,<2>12,<2>13,<2>14 DEF RecordOf
<1> QED BY <1>1,<1>2

\* Who asks, and for which group.
LEMMA AskedIs ==
  ASSUME IInv, NEW p \in Processes, NEW q \in Work, q = proc[p], q.pc \in Inquiry
  PROVE  /\ RecordOf(p, q) /\ ResolvedGroup(p) = Asked(q)
         /\ q.kind # "resolve" => q.inv \in Invitations /\ Named(q.inv)
         /\ q.pc \in {"candidate", "clone", "ready"} => Asked(q) \in Groups
<1>1. RecordOf(p, q) BY DEF IInv, Records
<1>2. q.kind # "resolve" => q.inv \in Invitations /\ Named(q.inv)
 BY <1>1 DEF RecordOf, DutyOf, VisitorOf, FindingOf, Inquiry
<1>3. Asked(q) \in Groups BY <1>1,<1>2 DEF RecordOf, FindingOf, Asked, GroupOf, Named, Groups
<1> QED BY <1>1,<1>2,<1>3 DEF ResolvedGroup, Asked

LEMMA CandidateIs ==
  ASSUME IInv, NEW g \in Groups, HasActiveDefault(g) \/ succ[g].status # "pending"
  PROVE  CandidateRealm(g) \in Published(g)
<1>1. CASE HasActiveDefault(g)
 <2>1. default[g] \in Range(created) /\ g \in Members(default[g])
  BY <1>1, RowsAre DEF HasActiveDefault, IInv, LinksAgree, EveryLinkSelected, Types, LinkTypes
 <2> QED BY <1>1,<2>1 DEF CandidateRealm, Published
<1>2. CASE ~HasActiveDefault(g)
 <2>1. succ[g].gen \in 1..succ[g].gen BY RealmsOfTables
 <2> QED BY <1>2,<2>1 DEF CandidateRealm, Published
<1> QED BY <1>1,<1>2

LEMMA ResolveCandidateKeeps ==
  ASSUME IInv, NEW p \in Processes, ResolveCandidate(p)
  PROVE  IInv'
<1>1. PICK q \in Work : q = proc[p] /\ q.pc = "candidate" BY DEF ResolveCandidate, IInv, Types, WorkTypes
<1> PICK g \in Groups : g = ResolvedGroup(p) /\ g = Asked(q) BY <1>1, AskedIs DEF Inquiry
<1>2. RecordOf(p, q) BY <1>1, AskedIs DEF Inquiry
<1>3. InvitationsStep /\ UNCHANGED <<linkVars, binding, realm, discovery, inv>>
 BY InvitationsStay DEF ResolveCandidate, invitationVars, bindingVars
<1>4. InvitationTypes' /\ LinkTypes' /\ BindingTypes' /\ RealmTypes' BY TypesStay DEF ResolveCandidate
<1>5. CASE Abort(p) BY <1>3,<1>4,<1>5, AlarmMoves, OnlyWork DEF Types
<1>6. CASE /\ HasActiveDefault(g) \/ succ[g].status # "pending"
           /\ Found(p, CandidateRealm(g)) /\ UNCHANGED alarm
 <2>1. PICK r \in RealmNames : r = CandidateRealm(g) /\ r \in Published(g)
  BY <1>6, CandidateIs, RealmsKnown, RealmsAre DEF IInv
 <2>2. proc' = [proc EXCEPT ![p] = FoundAs(q, r)] BY <1>1,<1>6,<2>1 DEF Found, FoundAs, Goto
 <2>3. Types' /\ RecordOf(p, q)' /\ r \in Published(Asked(q))'
  <3>1. FoundAs(q, r) \in Work BY FoundWork
  <3>2. Types' BY <1>4,<1>6,<2>2,<3>1, WorkStays DEF Types
  <3>3. RecordOf(p, q)' BY <1>2,<1>3,<3>2, StaysAside
  <3>4. Asked(q)' = Asked(q) /\ Published(g)' = Published(g)
   BY <1>3 DEF linkVars, Asked, GroupOf, Published, Members, RealmOfIntegration
  <3> QED BY <2>1,<3>2,<3>3,<3>4 DEF Published
 <2>4. PICK n \in Work : n = FoundAs(q, r) /\ RecordOf(p, n)' BY <1>1,<2>3, FoundFine
 <2> QED BY <1>3,<2>2,<2>3,<2>4, MoveAndOpen
<1>7. CASE /\ default[g] = None /\ succ[g].status = "pending"
           /\ Goto(p, [proc[p] EXCEPT !.pc = "clone", !.target = <<g, succ[g].gen, succ[g].src>>])
           /\ UNCHANGED alarm
 <2>1. /\ succ[g].gen \in Nat /\ succ[g].gen \in 2..succ[g].gen /\ succ[g].src \in Revoked /\ succ[g].src \in Invitations
  <3>1. succ[g].gen \in Nat \ {0} BY RealmsOfTables
  <3>2. succ[g].gen # 1 /\ succ[g].src \in Revoked BY <1>7 DEF IInv, Tables, Successors
  <3> QED BY <3>1,<3>2 DEF Revoked
 <2>2. PICK t \in Groups \X Nat \X Invitations :
         t = <<g, succ[g].gen, succ[g].src>> /\ t # <<>> /\ t[1] = g /\ t[2] = succ[g].gen /\ t[3] = succ[g].src
  <3>1. <<g, succ[g].gen, succ[g].src>> \in Groups \X Nat \X Invitations BY <2>1
  <3> QED BY <3>1
 <2>3. PICK n \in Work : n = [q EXCEPT !.pc = "clone", !.target = t] BY DEF Work, Points, Inquiry
 <2>4. /\ n.pc = "clone" /\ n.target = t /\ n.side = q.side /\ n.found = q.found /\ n.kind = q.kind /\ n.inv = q.inv
       /\ n.seals = q.seals /\ n.version = q.version /\ n.refresh = q.refresh /\ n.group = q.group
  BY <2>3 DEF Work
 <2>5. proc' = [proc EXCEPT ![p] = n] BY <1>1,<1>7,<2>2,<2>3 DEF Goto
 <2>6. FindingOf(n) BY <1>1,<1>2,<2>4 DEF RecordOf, FindingOf, Inquiry
 <2>7. CopyOf(n) BY <2>1,<2>2,<2>4 DEF CopyOf, Asked
 <2>8. (p = Authority => DutyOf(n) /\ SealOf(n)) /\ (p # Authority => VisitorOf(p, n))
  BY <1>1,<1>2,<2>4 DEF RecordOf, DutyOf, SealOf, VisitorOf, Inquiry, Finalization, Sealing
 <2>9. RecordOf(p, n) BY <2>6,<2>7,<2>8 DEF RecordOf
 <2>10. Types' BY <1>4,<1>7,<2>5, WorkStays DEF Types
 <2> QED BY <1>3,<2>5,<2>9,<2>10, OnlyWork
<1> QED BY <1>5,<1>6,<1>7 DEF ResolveCandidate

\* What copying one realm into another leaves alone.
LEMMA CopiedIs ==
  ASSUME IInv, NEW r \in Realms, NEW val \in Nat, realm' = Copied(r, val)
  PROVE  /\ realm' \in [Realms -> Content] /\ \A s \in Realms : s # r => realm'[s] = realm[s]
         /\ realm'[r].ver # 0 /\ realm'[r].frozen = realm[r].frozen /\ realm'[r].seal = realm[r].seal
         /\ realm'[r].expired = realm[r].expired
         /\ realm[r].ver # 0 => realm'[r].val = realm[r].val
<1>1. PICK c \in Content : c = realm[r] BY RealmsOfTables
<1>2. CASE c.ver # 0 BY <1>1,<1>2, RealmsOfTables DEF Copied
<1>3. CASE c.ver = 0
 <2>1. PICK d \in Content : d = [c EXCEPT !.val = val, !.ver = 1] BY DEF Content
 <2>2. d.ver = 1 /\ d.frozen = c.frozen /\ d.seal = c.seal /\ d.expired = c.expired BY <2>1 DEF Content
 <2>3. realm' = [realm EXCEPT ![r] = d] BY <1>1,<1>3,<2>1 DEF Copied
 <2> QED BY <1>1,<1>3,<2>2,<2>3, RealmsOfTables
<1> QED BY <1>2,<1>3

LEMMA CloneSuccessorKeeps ==
  ASSUME IInv, NEW p \in Processes, CloneSuccessor(p)
  PROVE  IInv'
<1>1. PICK q \in Work : q = proc[p] /\ q.pc = "clone" /\ RecordOf(p, q)
 BY DEF CloneSuccessor, IInv, Types, WorkTypes, Records
<1> DEFINE t == q.target
<1>2. /\ t # <<>> /\ t[1] = Asked(q) /\ t[2] \in 2..succ[t[1]].gen /\ t[3] \in Revoked
      /\ t[2] = succ[t[1]].gen => t[3] = succ[t[1]].src BY <1>1 DEF RecordOf, CopyOf
<1>3. t[1] \in Groups /\ t[2] \in Nat /\ t[2] >= 2 /\ t[2] \in 1..succ[t[1]].gen /\ t[3] \in Invitations
 BY <1>2, RealmsOfTables DEF Work
<1>4. PICK new \in Realms : new = Standalone(t[1], t[2]) BY <1>3, RealmsKnown DEF IInv
<1>5. PICK old \in Realms : old = RealmOfIntegration(t[3]) /\ old # new
 BY <1>2,<1>4, RealmsOfTables, RealmsAre DEF RealmOfIntegration
<1>6. PICK val \in Nat : val = realm[old].val BY RealmsOfTables DEF Content
<1>7. realm' = Copied(new, val) /\ Goto(p, IF realm'[new].ver = 1 /\ realm'[new].val = val THEN At(p, "ready") ELSE Aborted(p))
 BY <1>1,<1>4,<1>5,<1>6 DEF CloneSuccessor, Abort, Aborted, Goto
<1>8. /\ realm' \in [Realms -> Content] /\ \A s \in Realms : s # new => realm'[s] = realm[s]
      /\ realm'[new].ver # 0 /\ realm'[new].frozen = realm[new].frozen /\ realm'[new].seal = realm[new].seal /\ realm'[new].expired = realm[new].expired
      /\ realm[new].ver # 0 => realm'[new].val = realm[new].val BY <1>7, CopiedIs
<1>9. Kept
 <2>1. \A i \in Revoked : RealmOfIntegration(i) # new BY <1>4, RealmsAre DEF RealmOfIntegration
 <2>2. \A s \in Realms : /\ realm[s].frozen => realm'[s].frozen
                         /\ realm[s].ver # 0 => realm'[s].ver # 0 /\ realm'[s].val = realm[s].val BY <1>8
 <2> QED BY <1>8,<2>1,<2>2, RealmsOfTables DEF Kept
<1>10. \A s \in Realms : realm'[s].seal = realm[s].seal /\ realm'[s].expired = realm[s].expired BY <1>8
<1>11. UNCHANGED <<invitationVars, linkVars, bindingVars, spent>> /\ InvitationTypes' /\ LinkTypes' /\ BindingTypes' /\ RealmTypes'
 BY <1>8, TypesStay DEF CloneSuccessor, RealmTypes, IInv, Types
<1>12. Rearm \/ UNCHANGED alarm BY DEF CloneSuccessor, Abort
<1>13. Undisturbed(proc[Authority])
 <2>1. PICK a \in Work : a = proc[Authority] /\ DutyOf(a) /\ SealOf(a) BY AuthorityIs
 <2>2. a.seals \subseteq Realms BY DEF Work
 <2>3. ASSUME a.pc \in Sealing, a.version > 0, NEW r \in a.seals PROVE realm'[r].val = realm[r].val
  <3>1. PICK s \in Sides : r = a.found[s] /\ r \in Published(GroupOf(a.inv, s)) /\ GroupOf(a.inv, s) \in Groups
   <4>1. PICK s \in Sides : r = a.found[s] BY <2>1,<2>3 DEF SealOf, Sealing, Sides
   <4> QED BY <4>1,<2>1,<2>3, SealedKnown DEF IInv
  <3>2. CASE r # new BY <1>8,<2>2,<3>2
  <3>3. CASE r = new
   <4>1. r \notin {RealmOfIntegration(i) : i \in {j \in Range(created) : GroupOf(a.inv, s) \in Members(j)}}
    BY <1>4,<3>3, RealmsAre DEF RealmOfIntegration
   <4>2. PICK n \in 1..succ[GroupOf(a.inv, s)].gen :
           /\ r = Standalone(GroupOf(a.inv, s), n)
           /\ n < succ[GroupOf(a.inv, s)].gen \/ succ[GroupOf(a.inv, s)].status # "pending"
    BY <3>1,<4>1 DEF Published
   <4>3. n = t[2] /\ GroupOf(a.inv, s) = t[1] BY <1>4,<3>3,<4>2 DEF Standalone
   <4>4. realm[Standalone(t[1], t[2])].ver # 0 BY <1>2,<1>3,<4>2,<4>3 DEF IInv, Stores, Supplied
   <4> QED BY <1>4,<1>8,<3>3,<4>4
  <3> QED BY <3>2,<3>3
 <2>4. a.pc = "commit" /\ a.version > 0 =>
         realm'[Integrated(a.inv, a.version)].val = realm[Integrated(a.inv, a.version)].val
  BY <1>4,<1>8,<2>1, SealedKnown, RealmsAre DEF IInv, Sealing
 <2>5. UNCHANGED discovery BY <1>11 DEF invitationVars
 <2>6. ASSUME a.pc \in Sealing, a.version = 0 PROVE a.seals = {} BY <2>1,<2>6 DEF DutyOf
 <2>7. a.version \in Nat
  <3>1. MaxVersion \in Nat BY ConstantsAssumption
  <3> QED BY <3>1 DEF Work
 <2>8. \A r \in a.seals : a.pc \in Sealing => realm'[r].val = realm[r].val BY <2>3,<2>6,<2>7
 <2> QED BY <1>10,<2>1,<2>2,<2>4,<2>5,<2>8 DEF Undisturbed
<1>14. Onward
 <2>1. InvitationTypes' /\ LinkTypes' BY <1>11
 <2>2. \A g \in Groups : Published(g)' = Published(g)
  BY <1>11 DEF invitationVars, linkVars, Published, Members, RealmOfIntegration
 <2> QED BY <1>11,<2>2, RealmsOfTables DEF Onward, invitationVars, linkVars, Revoked
<1>15. PICK n \in Work : proc' = [proc EXCEPT ![p] = n] /\ RecordOf(p, n)'
 <2>1. CASE realm'[new].ver = 1 /\ realm'[new].val = val
  <3>1. PICK n \in Work : n = [q EXCEPT !.pc = "ready"] BY DEF Work, Points, Inquiry
  <3>2. /\ n.pc = "ready" /\ n.target = t /\ n.side = q.side /\ n.found = q.found /\ n.kind = q.kind /\ n.inv = q.inv
        /\ n.seals = q.seals /\ n.version = q.version /\ n.refresh = q.refresh /\ n.group = q.group
   BY <3>1 DEF Work
  <3>3. proc' = [proc EXCEPT ![p] = n] BY <1>1,<1>7,<2>1,<3>1 DEF Goto, At
  <3>4. UNCHANGED <<inv, integ, created, succ, discovery>> BY <1>11 DEF invitationVars, linkVars
  <3>5. FindingOf(n)'
   <4>1. FindingOf(n) BY <1>1,<3>2 DEF RecordOf, FindingOf, Inquiry
   <4> QED BY <3>4,<4>1 DEF FindingOf, Known, Published, GroupOf, Members, RealmOfIntegration
  <3>6. CopyOf(n)'
   <4>1. realm'[RealmOfIntegration(t[3])'].val = val /\ RealmOfIntegration(t[3])' = RealmOfIntegration(t[3])
    BY <1>5,<1>6,<1>8,<3>4 DEF RealmOfIntegration
   <4>2. Asked(n)' = Asked(q) BY <3>2,<3>4 DEF Asked, GroupOf
   <4> QED BY <1>2,<1>4,<1>8,<2>1,<3>2,<3>4,<4>1,<4>2 DEF CopyOf, Revoked
  <3>7. p = Authority => DutyOf(n)' BY <1>1,<3>2,<3>4 DEF RecordOf, DutyOf, Inquiry, Finalization, Named
  <3>8. p = Authority => SealOf(n)'
   <4>1. q.seals \subseteq Realms BY DEF Work
   <4> QED BY <1>1,<1>10,<3>2,<4>1 DEF RecordOf, SealOf, Sealing
  <3>9. p # Authority => VisitorOf(p, n)' BY <1>1,<3>2,<3>4 DEF RecordOf, VisitorOf, Inquiry, Named
  <3> QED BY <3>3,<3>5,<3>6,<3>7,<3>8,<3>9 DEF RecordOf
 <2>2. CASE ~(realm'[new].ver = 1 /\ realm'[new].val = val)
  <3>1. PICK n \in Work : n = Aborted(p) /\ RecordOf(p, n) /\ (n = Idle \/ n = At(p, "release"))
   BY AbortFine DEF Aborted
  <3>2. Undisturbed(n)
   <4>1. n.pc \notin Sealing BY <1>1,<3>1 DEF Idle, At, Sealing, Work
   <4>2. n.seals \subseteq Realms /\ UNCHANGED discovery BY <1>11 DEF Work, invitationVars
   <4> QED BY <1>10,<4>1,<4>2 DEF Undisturbed, Sealing
  <3>3. RecordOf(p, n)' BY <1>9,<1>11,<1>14,<3>1,<3>2, RecordStays DEF linkVars
  <3> QED BY <1>7,<2>2,<3>1,<3>3 DEF Goto
 <2> QED BY <2>1,<2>2
<1>16. Types' BY <1>11,<1>12,<1>15, WorkStays DEF Types
<1> QED BY <1>9,<1>11,<1>13,<1>15,<1>16, RealmsAndWork DEF invitationVars, bindingVars

\* What an announcement leaves in the binding revisions.
Announces(g, change) ==
  IF g \in DOMAIN change
    THEN binding'[g].status = change[g].status /\ binding'[g].source = change[g].source
    ELSE binding'[g].status = binding[g].status /\ binding'[g].source = binding[g].source
LEMMA AnnounceFine ==
  ASSUME IInv, NEW change, Announce(change), DOMAIN change \subseteq Groups,
         \A g \in DOMAIN change : /\ change[g].status \in {"ready", "transitioning"}
                                  /\ change[g].source \in RealmNames \cup {None}
  PROVE  BindingTypes' /\ \A g \in Groups : Announces(g, change)
<1> DEFINE Bound == [rev : Nat, status : {"ready", "transitioning"}, source : RealmNames \cup {None}]
<1>1. /\ binding \in [Groups -> Bound] /\ outbox \in [Groups -> Nat] /\ watchers \subseteq Groups
      /\ \A g \in Groups : outbox[g] <= binding[g].rev BY DEF IInv, Types, BindingTypes
<1>2. ASSUME NEW g \in Groups
      PROVE  binding'[g] \in Bound /\ Announces(g, change) /\ outbox'[g] \in Nat /\ outbox'[g] <= binding'[g].rev
 <2>1. PICK b \in Bound : b = binding[g] BY <1>1
 <2>2. PICK v \in Nat : v = b.rev + 1 /\ b.rev <= v /\ b.rev \in Nat OBVIOUS
 <2>3. outbox[g] \in Nat /\ outbox[g] <= b.rev /\ outbox[g] <= v BY <1>1,<2>1,<2>2
 <2>4. CASE g \in DOMAIN change
  <3>1. PICK st \in {"ready", "transitioning"}, so \in RealmNames \cup {None} : st = change[g].status /\ so = change[g].source
   BY <2>4
  <3>2. binding'[g] = [rev |-> v, status |-> st, source |-> so] BY <2>1,<2>2,<2>4,<3>1 DEF Announce
  <3>3. outbox'[g] \in {v, outbox[g]} BY <2>1,<2>2,<2>4 DEF Announce
  <3> QED BY <2>2,<2>3,<2>4,<3>1,<3>2,<3>3 DEF Announces
 <2>5. CASE g \notin DOMAIN change
  <3>1. binding'[g] = binding[g] /\ outbox'[g] = outbox[g] BY <2>5 DEF Announce
  <3> QED BY <2>1,<2>3,<2>5,<3>1 DEF Announces
 <2> QED BY <2>4,<2>5
<1>3. binding' = [g \in Groups |-> binding'[g]] /\ outbox' = [g \in Groups |-> outbox'[g]] /\ watchers' = watchers
 BY DEF Announce
<1>4. binding' \in [Groups -> Bound] /\ outbox' \in [Groups -> Nat] BY <1>2,<1>3
<1> QED BY <1>1,<1>2,<1>3,<1>4 DEF BindingTypes

\* The tables, when the successor of a group becomes usable.
LEMMA SuccessorReady ==
  ASSUME IInv, Types', NEW g \in Groups, succ[g].status = "pending", realm[Standalone(g, succ[g].gen)].ver # 0,
         succ' = [succ EXCEPT ![g].status = "ready"], NEW change, DOMAIN change = {g},
         change[g] = Ready(Standalone(g, succ[g].gen)), \A h \in Groups : Announces(h, change),
         UNCHANGED <<inv, integ, created, default, jobs, groupJobs, realm>>
  PROVE  /\ Tables' /\ LinksAgree' /\ Onward /\ Stores' /\ Standalone(g, succ[g].gen) \in Published(g)'
         /\ succ'[g].status = "ready" /\ succ'[g].gen = succ[g].gen
<1>1. \A h \in Groups : succ'[h].gen = succ[h].gen /\ succ'[h].src = succ[h].src /\ (h # g => succ'[h] = succ[h])
 BY DEF IInv, Types, LinkTypes
<1>2. succ'[g].status = "ready" /\ succ[g].gen # 1
 <2>1. succ[g].gen # 1 BY DEF IInv, Tables, Successors
 <2> QED BY <2>1 DEF IInv, Types, LinkTypes
<1>3. Revoked' = Revoked BY DEF Revoked
<1>4. Rows' /\ Queues' /\ Pairs' BY DEF IInv, Tables, Rows, Queues, Pairs, Named, Members
<1>5. Successors'
 <2> SUFFICES ASSUME NEW h \in Groups
              PROVE  /\ succ'[h].gen \in 1..(1 + Cardinality(Revoked))
                     /\ succ'[h].status = "none" <=> succ'[h].gen = 1
                     /\ succ'[h].status = "pending" => succ'[h].src \in Revoked BY <1>3 DEF Successors
 <2>1. /\ succ[h].gen \in 1..(1 + Cardinality(Revoked))
       /\ succ[h].status = "none" <=> succ[h].gen = 1
       /\ succ[h].status = "pending" => succ[h].src \in Revoked BY DEF IInv, Tables, Successors
 <2> QED BY <1>1,<1>2,<2>1
<1>6. \A h \in Groups : Published(h) \subseteq Published(h)'
 <2> SUFFICES ASSUME NEW h \in Groups PROVE Published(h) \subseteq Published(h)' OBVIOUS
 <2>1. {m \in 1..succ[h].gen : m < succ[h].gen \/ succ[h].status # "pending"}
         \subseteq {m \in 1..succ'[h].gen : m < succ'[h].gen \/ succ'[h].status # "pending"} BY <1>1,<1>2
 <2> QED BY <2>1 DEF Published, Members, RealmOfIntegration
<1>7. Standalone(g, succ[g].gen) \in Published(g)'
 <2>1. succ[g].gen \in 1..succ'[g].gen BY <1>1, RealmsOfTables
 <2> QED BY <1>2,<2>1 DEF Published
<1>8. Onward
 <2>1. \A h \in Groups : succ[h].gen \in Nat BY RealmsOfTables
 <2> QED BY <1>1,<1>2,<1>3,<1>6,<2>1 DEF Onward
<1>9. Stores'
 <2>1. Archived' BY DEF IInv, Stores, Archived, Revoked, RealmOfIntegration
 <2>2. Supplied'
  <3> SUFFICES ASSUME NEW h \in Groups, NEW n \in 2..succ'[h].gen, n < succ'[h].gen \/ succ'[h].status # "pending"
               PROVE  realm'[Standalone(h, n)].ver # 0 BY DEF Supplied
  <3>1. n \in 2..succ[h].gen /\ (n < succ[h].gen \/ n = succ[h].gen) BY <1>1, RealmsOfTables
  <3>2. CASE h = g /\ n = succ[g].gen BY <3>2
  <3>3. CASE ~(h = g /\ n = succ[g].gen) BY <1>1,<3>1,<3>3 DEF IInv, Stores, Supplied
  <3> QED BY <3>2,<3>3
 <2> QED BY <2>1,<2>2 DEF Stores
<1>10. default[g] = None BY DEF IInv, LinksAgree, EveryLinkSelected
<1>11. EveryLinkSelected'
 <2>1. \A h \in Groups : ActiveFor(h)' = ActiveFor(h) BY DEF ActiveFor, Members
 <2> QED BY <1>1,<1>2,<1>10,<2>1 DEF IInv, LinksAgree, EveryLinkSelected, Members
<1>12. BindingTellsTruth'
 <2> SUFFICES ASSUME NEW h \in Groups
              PROVE  [status |-> binding'[h].status, source |-> binding'[h].source] = CurrentBinding(h)'
  BY DEF BindingTellsTruth
 <2>1. CASE h = g
  <3>1. CurrentBinding(g)' = Ready(Standalone(g, succ[g].gen))
   BY <1>1,<1>2,<1>10 DEF CurrentBinding, Transitioning, CandidateRealm, HasActiveDefault, Ready
  <3>2. binding'[g].status = change[g].status /\ binding'[g].source = change[g].source BY DEF Announces
  <3> QED BY <2>1,<3>1,<3>2 DEF Ready
 <2>2. CASE h # g
  <3>1. CurrentBinding(h)' = CurrentBinding(h)
   BY <1>1,<2>2 DEF CurrentBinding, Transitioning, CandidateRealm, HasActiveDefault, RealmOfIntegration
  <3>2. binding'[h].status = binding[h].status /\ binding'[h].source = binding[h].source BY <2>2 DEF Announces
  <3> QED BY <3>1,<3>2 DEF IInv, LinksAgree, BindingTellsTruth
 <2> QED BY <2>1,<2>2
<1> QED BY <1>1,<1>2,<1>4,<1>5,<1>7,<1>8,<1>9,<1>11,<1>12 DEF Tables, LinksAgree

LEMMA MarkSuccessorReadyKeeps ==
  ASSUME IInv, NEW p \in Processes, MarkSuccessorReady(p)
  PROVE  IInv'
<1>1. PICK q \in Work : q = proc[p] /\ q.pc = "ready" /\ RecordOf(p, q)
 BY DEF MarkSuccessorReady, IInv, Types, WorkTypes, Records
<1> DEFINE t == q.target
           g == t[1]
           own == Standalone(g, t[2])
           stale == succ[g].gen # t[2] \/ succ[g].src # t[3]
<1>2. t # <<>> /\ g = Asked(q) /\ t[2] \in 2..succ[g].gen /\ realm[own].ver # 0 BY <1>1 DEF RecordOf, CopyOf
<1>3. g \in Groups BY <1>1,<1>2, AskedIs DEF Inquiry
<1>4. own \in RealmNames /\ succ[g].gen \in Nat /\ t[2] \in 1..succ[g].gen
 BY <1>2,<1>3, RealmsOfTables, RealmsKnown, RealmsAre DEF IInv
<1>5. UNCHANGED <<invitationVars, integ, created, default, jobs, groupJobs, realm, spent>>
 BY DEF MarkSuccessorReady
<1>6. InvitationTypes' /\ RealmTypes' BY <1>5, TypesStay
<1>7. PICK w \in Work : /\ proc' = [proc EXCEPT ![p] = w]
                        /\ \/ w = Aborted(p)
                           \/ ~stale /\ w = FoundAs(q, IF HasActiveDefault(g) THEN CandidateRealm(g) ELSE own)
 <2>1. Aborted(p) \in Work BY AbortFine
 <2>2. PICK r \in RealmNames : r = IF HasActiveDefault(g) THEN CandidateRealm(g) ELSE own
  BY <1>3,<1>4, CandidateIs, RealmsKnown, RealmsAre DEF IInv
 <2>3. FoundAs(q, r) \in Work BY FoundWork
 <2>4. CASE stale \/ Transitioning(g) BY <1>1,<2>1,<2>4 DEF MarkSuccessorReady, Abort, Aborted, Goto
 <2>5. CASE ~(stale \/ Transitioning(g))
  <3>1. proc' = [proc EXCEPT ![p] = FoundAs(q, r)] BY <1>1,<2>2,<2>5 DEF MarkSuccessorReady, Found, FoundAs, Goto
  <3> QED BY <2>2,<2>3,<2>5,<3>1
 <2> QED BY <2>4,<2>5
<1>8. Rearm \/ UNCHANGED alarm BY DEF MarkSuccessorReady, Abort
<1>9. WorkTypes' BY <1>7,<1>8, WorkStays
<1>10. /\ Types' /\ Tables' /\ LinksAgree' /\ Onward /\ Stores'
       /\ ~stale => own \in Published(g)'
 <2>1. CASE stale \/ succ[g].status = "ready"
  <3>1. UNCHANGED <<succ, bindingVars>> BY <1>1,<2>1 DEF MarkSuccessorReady
  <3>2. Types' /\ UNCHANGED <<linkVars, binding>>
   BY <1>5,<1>6,<1>9,<3>1, TypesStay DEF Types, linkVars, bindingVars
  <3>3. Tables' /\ LinksAgree' /\ Onward /\ Kept
   BY <1>5,<3>2, InvitationsStay, LinksStay, KeptIfSame DEF invitationVars
  <3>4. Stores' BY <1>5,<3>1,<3>3, StoresStay
  <3>5. ~stale => own \in Published(g) BY <1>4,<2>1 DEF Published
  <3> QED BY <1>3,<3>2,<3>3,<3>4,<3>5 DEF Onward
 <2>2. CASE ~(stale \/ succ[g].status = "ready")
  <3>1. PICK change : change = [h \in {g} |-> Ready(own)] OBVIOUS
  <3>2. succ' = [succ EXCEPT ![g].status = "ready"] /\ Announce(change) BY <1>1,<2>2,<3>1 DEF MarkSuccessorReady
  <3>3. DOMAIN change = {g} /\ change[g] = Ready(own) BY <3>1
  <3>4. succ[g].gen = t[2] /\ succ[g].status = "pending"
   <4>1. succ[g].status # "none" BY <1>2,<1>3,<2>2 DEF IInv, Tables, Successors
   <4> QED BY <1>3,<2>2,<4>1 DEF IInv, Types, LinkTypes
  <3>5. BindingTypes' /\ \A h \in Groups : Announces(h, change) BY <1>3,<1>4,<3>2,<3>3, AnnounceFine DEF Ready
  <3>6. LinkTypes' BY <1>3,<1>5,<3>2 DEF IInv, Types, LinkTypes
  <3>7. Types' BY <1>6,<1>9,<3>5,<3>6 DEF Types
  <3> QED BY <1>2,<1>3,<1>5,<3>2,<3>3,<3>4,<3>5,<3>7, SuccessorReady DEF invitationVars
 <2> QED BY <2>1,<2>2
<1>11. Kept /\ \A a : Undisturbed(a) BY <1>5, KeptIfSame, SameUndisturbed DEF invitationVars
<1>12. Discoveries' BY <1>5,<1>10, DiscoveriesStay DEF Discoveries, invitationVars
<1>13. RecordOf(p, w)'
 <2>1. CASE w = Aborted(p) BY <1>5,<1>10,<1>11,<2>1, AbortFine, RecordStays
 <2>2. CASE ~stale /\ w = FoundAs(q, IF HasActiveDefault(g) THEN CandidateRealm(g) ELSE own)
  <3>1. PICK r \in RealmNames : r = IF HasActiveDefault(g) THEN CandidateRealm(g) ELSE own
   BY <1>3,<1>4, CandidateIs, RealmsKnown, RealmsAre DEF IInv
  <3>2. r \in Published(g)' BY <1>3,<1>10,<2>2,<3>1, CandidateIs DEF Onward
  <3>3. RecordOf(p, q)' BY <1>1,<1>5,<1>10,<1>11, RecordStays
  <3>4. Asked(q)' = g BY <1>2,<1>5 DEF Asked, GroupOf, invitationVars
  <3>5. r \in Published(Asked(q))' BY <3>2,<3>4 DEF Published
  <3> QED BY <1>1,<2>2,<3>1,<3>3,<3>5, FoundFine
 <2> QED BY <1>7,<2>1,<2>2
<1> QED BY <1>5,<1>7,<1>10,<1>11,<1>12,<1>13, OneMoves

LEMMA InventoryKeeps ==
  ASSUME IInv, NEW p \in Processes, Inventory(p)
  PROVE  IInv'
<1>1. PICK q \in Work : q = proc[p] /\ q.pc = "inventory" /\ RecordOf(p, q)
 BY DEF Inventory, IInv, Types, WorkTypes, Records
<1>2. /\ q.kind # "resolve" /\ q.inv \in Invitations /\ Named(q.inv) /\ Known(q.inv, q.found) /\ DOMAIN q.found = Sides
 BY <1>1, AskedIs DEF RecordOf, FindingOf, Inquiry
<1>3. \A s \in Sides : q.found[s] \in Realms BY <1>2, RealmsKnown DEF Known, Named, GroupOf, Groups, IInv
<1>4. PICK seen \in [Sides -> Looks] : seen = [s \in Sides |-> Look(q.found[s])]
 BY <1>3, RealmsOfTables DEF Look, Looks, Content
<1>5. seen \in Sights BY <1>4, FindsAre
<1>6. PICK n \in Work : n = [q EXCEPT !.pc = "persist", !.seen = seen] BY <1>5 DEF Work, Points, Inquiry
<1>7. /\ n.pc = "persist" /\ n.seen = seen /\ n.side = q.side /\ n.found = q.found /\ n.kind = q.kind /\ n.inv = q.inv
      /\ n.seals = q.seals /\ n.version = q.version /\ n.refresh = q.refresh /\ n.group = q.group BY <1>6 DEF Work
<1>8. proc' = [proc EXCEPT ![p] = n] BY <1>1,<1>4,<1>6 DEF Inventory, Goto
<1>9. FindingOf(n) /\ CopyOf(n) BY <1>2,<1>7 DEF FindingOf, CopyOf
<1>10. (p = Authority => DutyOf(n) /\ SealOf(n)) /\ (p # Authority => VisitorOf(p, n))
 BY <1>1,<1>7 DEF RecordOf, DutyOf, SealOf, VisitorOf, Inquiry, Finalization, Sealing
<1>11. RecordOf(p, n) BY <1>9,<1>10 DEF RecordOf
<1>12. Types' BY <1>8, TypesStay, WorkStays DEF Inventory, Types
<1>13. InvitationsStep BY InvitationsStay DEF Inventory, invitationVars
<1> QED BY <1>8,<1>11,<1>12,<1>13, OnlyWork DEF Inventory, invitationVars, bindingVars

LEMMA PersistDiscoveryKeeps ==
  ASSUME IInv, NEW p \in Processes, PersistDiscovery(p)
  PROVE  IInv'
<1>1. PICK q \in Work : q = proc[p] /\ q.pc = "persist" /\ RecordOf(p, q)
 BY DEF PersistDiscovery, IInv, Types, WorkTypes, Records
<1> DEFINE i == q.inv
           auto == AutomaticSelection(q.seen)
           kept == IF q.refresh THEN discovery[i].version # q.version ELSE discovery[i].version > 0
           refused == ~Open(i) \/ Overdue(i) \/ (~kept /\ discovery[i].version = MaxVersion)
<1>2. /\ q.kind # "resolve" /\ i \in Invitations /\ Named(i) /\ Known(i, q.found) /\ DOMAIN q.found = Sides
      /\ q.seen \in [Sides -> Looks] BY <1>1, AskedIs DEF RecordOf, FindingOf, Inquiry
<1>3. PICK v \in 0..MaxVersion : v = discovery[i].version BY <1>2 DEF IInv, Types, InvitationTypes, Discovered
<1>4. UNCHANGED <<linkVars, bindingVars, realm, spent>> BY DEF PersistDiscovery
<1>5. CASE Open(i) /\ Overdue(i)
 <2>1. Expire({i}) /\ UNCHANGED discovery /\ Abort(p) BY <1>1,<1>5 DEF PersistDiscovery
 <2>2. InvitationsStep /\ InvitationTypes' BY <1>2,<1>5,<2>1, ExpireFine DEF Open, Pending
 <2>3. Types' BY <1>4,<2>1,<2>2, TypesStay, AlarmMoves DEF Types
 <2> QED BY <1>4,<2>1,<2>2,<2>3, AlarmMoves, OnlyWork DEF bindingVars
<1>6. CASE ~(Open(i) /\ Overdue(i))
 <2>1. UNCHANGED <<inv, late>> BY <1>1,<1>6 DEF PersistDiscovery
 <2>2. PICK n \in Work : RecordOf(p, n) /\ proc' = [proc EXCEPT ![p] = n] /\ (n.pc \notin Sealing)
  <3>1. CASE Abort(p)
   <4>1. Aborted(p).pc \notin Sealing BY <1>1 DEF Aborted, At, Idle, Sealing, Work
   <4> QED BY <3>1,<4>1, AlarmMoves
  <3>2. CASE ~q.refresh /\ Goto(p, IF q.kind = "page" THEN Idle ELSE At(p, "plan"))
   <4>1. CASE q.kind = "page" BY <3>2,<4>1, IdleIs, IdleFine DEF Goto, Sealing
   <4>2. CASE q.kind # "page"
    <5>1. PICK n \in Work : n = [q EXCEPT !.pc = "plan"] BY DEF Work, Points, Finalization
    <5>2. /\ n.pc = "plan" /\ n.kind = q.kind /\ n.inv = q.inv /\ n.seals = q.seals
          /\ n.version = q.version /\ n.refresh = q.refresh /\ n.group = q.group BY <5>1 DEF Work
    <5>3. p = Authority /\ q.kind = "activate" BY <1>1,<1>2,<4>2 DEF RecordOf, VisitorOf, DutyOf, Inquiry
    <5>4. DutyOf(n) BY <1>1,<3>2,<5>2,<5>3 DEF RecordOf, DutyOf, Inquiry, Finalization
    <5>5. SealOf(n) /\ FindingOf(n) /\ CopyOf(n)
     BY <1>1,<5>2,<5>3 DEF RecordOf, SealOf, FindingOf, CopyOf, Inquiry, Sealing
    <5>6. proc' = [proc EXCEPT ![p] = n] BY <1>1,<3>2,<4>2,<5>1 DEF Goto, At
    <5> QED BY <5>2,<5>3,<5>4,<5>5,<5>6 DEF RecordOf, Sealing
   <4> QED BY <4>1,<4>2
  <3> QED BY <1>1,<3>1,<3>2 DEF PersistDiscovery
 <2>3. Rearm \/ UNCHANGED alarm BY DEF PersistDiscovery, Abort
 <2>4. CASE refused \/ kept
  <3>1. UNCHANGED discovery BY <1>1,<2>4 DEF PersistDiscovery
  <3>2. Types' BY <1>4,<2>1,<2>2,<2>3,<3>1, TypesStay, WorkStays DEF Types, invitationVars
  <3> QED BY <1>4,<2>1,<2>2,<3>1,<3>2, InvitationsStay, OnlyWork DEF bindingVars
 <2>5. CASE ~(refused \/ kept)
  <3>1. PICK c \in Selections \cup {None} : c = auto BY DEF AutomaticSelection, Selections, Sides
  <3>2. v + 1 \in 1..MaxVersion
   <4>1. MaxVersion \in Nat BY ConstantsAssumption
   <4> QED BY <1>3,<2>5,<4>1
  <3>3. q.seen \in Sights BY <1>2, FindsAre
  <3>4. PICK e \in Discovered : /\ e = [version |-> v + 1, found |-> q.found, seen |-> q.seen,
                                        collision |-> c = None, choice |-> c]
                                /\ e.version # 0 /\ e.found = q.found /\ e.seen = q.seen
   <4>1. PICK w \in 0..MaxVersion : w = v + 1 /\ w # 0 BY <3>2
   <4>2. PICK b \in BOOLEAN : b <=> c = None OBVIOUS
   <4>3. PICK f \in Finds, sn \in Sights : f = q.found /\ sn = q.seen BY <3>3 DEF Work
   <4>4. PICK e \in Discovered : e = [version |-> w, found |-> f, seen |-> sn, collision |-> b, choice |-> c]
    BY DEF Discovered
   <4>5. e.version = w /\ e.found = f /\ e.seen = sn BY <4>4
   <4>6. b = (c = None) BY <4>2
   <4> QED BY <4>1,<4>3,<4>4,<4>5,<4>6
  <3>5. discovery' = [discovery EXCEPT ![i] = e] BY <1>1,<1>3,<2>5,<3>1,<3>4 DEF PersistDiscovery
  <3>6. InvitationTypes' BY <2>1,<3>5 DEF IInv, Types, InvitationTypes
  <3>7. Types' BY <1>4,<2>2,<2>3,<3>6, TypesStay, WorkStays DEF Types
  <3>8. Tables' /\ LinksAgree' /\ Onward /\ Kept
   BY <1>4,<2>1,<3>7, InvitationsStay, LinksStay, KeptIfSame DEF bindingVars
  <3>9. Stores' BY <1>4,<3>8, StoresStay DEF linkVars
  <3>10. discovery'[i] = e /\ \A j \in Invitations : j # i => discovery'[j] = discovery[j]
   BY <1>2,<3>5 DEF IInv, Types, InvitationTypes
  <3>11. DiscoveryOf(i, e)'
   <4>1. Known(i, q.found)' BY <1>2,<3>8, KnownStays DEF IInv
   <4>2. Known(i, e.found)' BY <3>4,<4>1 DEF Known
   <4> QED BY <1>2,<3>4,<3>8,<4>2, NamedStays DEF DiscoveryOf
  <3>12. Discoveries'
   <4> SUFFICES ASSUME NEW j \in Invitations PROVE DiscoveryOf(j, discovery[j])' BY DEF Discoveries
   <4>1. CASE j = i BY <3>10,<3>11,<4>1 DEF DiscoveryOf, Known
   <4>2. CASE j # i BY <3>8,<3>10,<4>2, DiscoveriesStay
   <4> QED BY <4>1,<4>2
  <3>13. Undisturbed(n) BY <1>4,<2>2 DEF Undisturbed
  <3>14. RecordOf(p, n)' BY <1>4,<2>2,<3>8,<3>13, RecordStays DEF linkVars
  <3>15. p # Authority => Undisturbed(proc[Authority])
   <4> SUFFICES ASSUME p # Authority PROVE Undisturbed(proc[Authority]) OBVIOUS
   <4>1. PICK a \in Work : a = proc[Authority] /\ DutyOf(a) /\ SealOf(a) BY AuthorityIs
   <4>2. ~q.refresh BY <1>1 DEF RecordOf, VisitorOf
   <4>3. v = 0 BY <1>3,<2>5,<4>2
   <4>4. ASSUME a.pc \in Sealing, a.version > 0 PROVE a.inv \in Invitations /\ a.inv # i
    <5>1. a.inv \in Invitations /\ discovery[a.inv].version = a.version /\ a.version \in 1..MaxVersion
     BY <4>1,<4>4, SealedKnown DEF IInv
    <5>2. a.version # 0 BY <4>4,<5>1
    <5> QED BY <1>3,<4>3,<5>1,<5>2
   <4> QED BY <1>4,<3>10,<4>1,<4>4 DEF Undisturbed
  <3> QED BY <1>4,<2>2,<3>7,<3>8,<3>9,<3>12,<3>14,<3>15, OneMoves DEF linkVars
 <2> QED BY <2>4,<2>5
<1> QED BY <1>5,<1>6

-----------------------------------------------------------------------------
(* Activation                                                               *)

LEMMA RediscoverFine ==
  ASSUME IInv, NEW q \in Work, q = proc[Authority], q.pc \in Finalization, NEW S \in SUBSET Realms,
         S = {} \/ (S = q.seals /\ q.version > 0 /\ q.version = discovery[q.inv].version)
  PROVE  \E n \in Work : /\ n = [Rediscover(Authority) EXCEPT !.seals = S] /\ n.pc = "candidate" /\ n.seals = S
                         /\ RecordOf(Authority, n)
<1>1. DutyOf(q) /\ SealOf(q) BY AuthorityIs
<1>2. q.kind = "activate" /\ q.inv \in Invitations /\ Named(q.inv) /\ integ[q.inv].status = "none"
 BY <1>1 DEF DutyOf, Finalization
<1>3. PICK v \in 0..MaxVersion : v = discovery[q.inv].version BY <1>2 DEF IInv, Types, InvitationTypes, Discovered
<1>4. PICK n \in Work : n = [q EXCEPT !.pc = "candidate", !.side = "discord", !.found = <<>>,
                                      !.refresh = TRUE, !.version = v, !.seals = S]
 BY NothingFound DEF Work, Points, Inquiry, Sides
<1>5. n = [Rediscover(Authority) EXCEPT !.seals = S] BY <1>3,<1>4 DEF Rediscover
<1>6. /\ n.pc = "candidate" /\ n.side = "discord" /\ n.found = <<>> /\ n.refresh = TRUE /\ n.version = v /\ n.seals = S
      /\ n.kind = "activate" /\ n.inv = q.inv BY <1>2,<1>4 DEF Work
<1>7. DutyOf(n) BY <1>2,<1>3,<1>6 DEF DutyOf, Inquiry, Finalization
<1>8. SealOf(n) BY <1>1,<1>3,<1>6 DEF SealOf, Sealing
<1>9. FindingOf(n) /\ CopyOf(n) BY <1>2,<1>6 DEF FindingOf, CopyOf, Known
<1> QED BY <1>5,<1>6,<1>7,<1>8,<1>9 DEF RecordOf

LEMMA PlanFinalizationKeeps ==
  ASSUME IInv, PlanFinalization
  PROVE  IInv'
<1>1. PICK q \in Work : q = proc[Authority] /\ DutyOf(q) /\ SealOf(q) /\ q.pc = "plan"
 BY AuthorityIs DEF PlanFinalization
<1>2. /\ q.kind = "activate" /\ q.inv \in Invitations /\ Named(q.inv) /\ integ[q.inv].status = "none"
      /\ q.version = 0 /\ q.seals = {} /\ ~q.refresh BY <1>1 DEF DutyOf, Finalization
<1>3. InvitationsStep /\ UNCHANGED <<linkVars, binding, realm, discovery>>
 BY InvitationsStay DEF PlanFinalization, invitationVars, bindingVars
<1>4. InvitationTypes' /\ LinkTypes' /\ BindingTypes' /\ RealmTypes' BY TypesStay DEF PlanFinalization
<1>5. Rearm \/ UNCHANGED alarm BY DEF PlanFinalization, Abort
<1>6. PICK n \in Work : proc' = [proc EXCEPT ![Authority] = n] /\ RecordOf(Authority, n)
 <2>1. CASE Abort(Authority) BY <2>1, AuthorityIs, AlarmMoves
 <2>2. CASE Existing(q.inv) # None /\ Goto(Authority, At(Authority, "commit"))
  <3>1. PICK n \in Work : n = [q EXCEPT !.pc = "commit"] BY DEF Work, Points, Finalization
  <3>2. /\ n.pc = "commit" /\ n.kind = q.kind /\ n.inv = q.inv /\ n.version = q.version /\ n.seals = q.seals
        /\ n.refresh = q.refresh BY <3>1 DEF Work
  <3>3. DutyOf(n) BY <1>2,<2>2,<3>2 DEF DutyOf, Finalization, Inquiry
  <3>4. SealOf(n) /\ FindingOf(n) /\ CopyOf(n) BY <1>2,<3>2 DEF SealOf, FindingOf, CopyOf, Inquiry
  <3> QED BY <1>1,<2>2,<3>1,<3>3,<3>4 DEF RecordOf, Goto, At
 <2>3. CASE /\ discovery[q.inv].choice # None
            /\ Goto(Authority, [q EXCEPT !.pc = "seal", !.version = discovery[q.inv].version,
                                         !.found = discovery[q.inv].found, !.seen = <<>>])
  <3>1. PICK d \in Discovered : d = discovery[q.inv] BY <1>2 DEF IInv, Types, InvitationTypes
  <3>2. d.version \in 0..MaxVersion /\ d.found \in Finds /\ d.choice # None /\ d.version # 0
   BY <1>2,<2>3,<3>1 DEF Discovered, IInv, Discoveries, DiscoveryOf
  <3>3. d.version > 0 BY <3>2
  <3>4. PICK n \in Work : n = [q EXCEPT !.pc = "seal", !.version = d.version, !.found = d.found, !.seen = <<>>]
   BY <3>2, NothingFound DEF Work, Points, Finalization
  <3>5. /\ n.pc = "seal" /\ n.kind = q.kind /\ n.inv = q.inv /\ n.version = d.version /\ n.seals = q.seals
        /\ n.found = d.found /\ n.seen = <<>> BY <3>4 DEF Work
  <3>6. DutyOf(n) BY <1>2,<3>5 DEF DutyOf, Finalization, Inquiry
  <3>7. SealOf(n) BY <1>2,<3>1,<3>2,<3>3,<3>5, NothingFound DEF SealOf, Sealing
  <3>8. FindingOf(n) /\ CopyOf(n) BY <3>5 DEF FindingOf, CopyOf, Inquiry
  <3> QED BY <2>3,<3>1,<3>4,<3>6,<3>7,<3>8 DEF RecordOf, Goto
 <2>4. CASE Goto(Authority, Rediscover(Authority))
  <3>1. PICK n \in Work : n = [Rediscover(Authority) EXCEPT !.seals = {}] /\ RecordOf(Authority, n)
   BY <1>1, RediscoverFine DEF Finalization
  <3>2. n = Rediscover(Authority) BY <1>1,<1>2,<3>1 DEF Rediscover, Work
  <3> QED BY <2>4,<3>1,<3>2 DEF Goto
 <2> QED BY <1>1,<2>1,<2>2,<2>3,<2>4 DEF PlanFinalization
<1>7. Types' BY <1>4,<1>5,<1>6, AuthorityIs, WorkStays DEF Types
<1> QED BY <1>3,<1>6,<1>7, AuthorityIs, OnlyWork

LEMMA AcquireSealKeeps ==
  ASSUME IInv, AcquireSeal
  PROVE  IInv'
<1>1. PICK q \in Work : q = proc[Authority] /\ DutyOf(q) /\ SealOf(q) /\ q.pc = "seal"
 BY AuthorityIs DEF AcquireSeal
<1>2. PICK side \in Sides : side = IF DOMAIN q.seen = {} THEN "discord" ELSE "twitch" BY DEF Sides
<1>3. /\ q.version > 0 /\ q.seen \in Sights /\ DOMAIN q.seen \subseteq {"discord"} /\ side \notin DOMAIN q.seen
      /\ DOMAIN q.seen \cup {side} = IF side = "twitch" THEN Sides ELSE {"discord"}
      /\ q.seals = {q.found[s] : s \in DOMAIN q.seen} BY <1>1,<1>2 DEF SealOf, Sides
<1>4. /\ q.inv \in Invitations /\ Named(q.inv) /\ integ[q.inv].status = "none" /\ q.version \in 1..MaxVersion
      /\ discovery[q.inv].version = q.version /\ q.found = discovery[q.inv].found /\ DOMAIN q.found = Sides
      /\ discovery[q.inv].choice # None BY <1>1,<1>3, SealedKnown DEF IInv, Sealing, SealOf
<1>5. PICK r \in Realms : r = q.found[side] BY <1>1,<1>3, SealedKnown DEF IInv, Sealing
<1>6. PICK seal \in Invitations \X Nat : seal = <<q.inv, q.version>>
 <2>1. MaxVersion \in Nat BY ConstantsAssumption
 <2>2. q.version \in Nat BY <1>4,<2>1
 <2>3. <<q.inv, q.version>> \in Invitations \X Nat BY <1>4,<2>2
 <2> QED BY <2>3
<1>7. InvitationsStep /\ UNCHANGED <<linkVars, binding, discovery, inv, spent>>
 BY InvitationsStay DEF AcquireSeal, invitationVars, bindingVars
<1>8. InvitationTypes' /\ LinkTypes' /\ BindingTypes' BY TypesStay DEF AcquireSeal
<1>9. CASE Abort(Authority) /\ UNCHANGED realm
 <2>1. RealmTypes' BY <1>7,<1>9, TypesStay
 <2>2. Types' BY <1>8,<1>9,<2>1, AuthorityIs, AlarmMoves DEF Types
 <2> QED BY <1>7,<1>9,<2>2, AuthorityIs, AlarmMoves, OnlyWork
<1>10. CASE /\ \A s \in q.seals : ~realm[s].expired
            /\ realm' = [realm EXCEPT ![r].seal = seal, ![r].expired = FALSE]
            /\ Goto(Authority, [q EXCEPT !.seen = Extended(@, side, Look(r)), !.seals = @ \cup {r},
                                         !.pc = IF side = "twitch" THEN "materialize" ELSE "seal"])
            /\ UNCHANGED alarm
 <2>1. PICK c \in Content : c = realm[r] BY RealmsOfTables
 <2>2. PICK d \in Content : d = [c EXCEPT !.seal = seal, !.expired = FALSE] BY DEF Content
 <2>3. d.val = c.val /\ d.ver = c.ver /\ d.frozen = c.frozen /\ d.seal = seal BY <2>2 DEF Content
 <2>4. realm' = [realm EXCEPT ![r] = d] BY <1>10,<2>1,<2>2
 <2>5. realm' \in [Realms -> Content] /\ realm'[r] = d /\ \A s \in Realms : s # r => realm'[s] = realm[s]
  BY <2>4, RealmsOfTables
 <2>6. \A s \in Realms : /\ realm'[s].val = realm[s].val /\ realm'[s].ver = realm[s].ver
                         /\ realm'[s].frozen = realm[s].frozen /\ realm'[s].seal \in {realm[s].seal, seal}
  BY <2>1,<2>3,<2>5
 <2>7. Kept BY <2>6, RealmsOfTables DEF Kept
 <2>8. PICK look \in Looks : look = Look(r) /\ look.val = realm[r].val
  <3>1. PICK x \in Nat, w \in Nat : x = c.val /\ w = c.ver BY DEF Content
  <3>2. PICK look \in Looks : look = [val |-> x, ver |-> w] BY DEF Looks
  <3>3. look.val = x BY <3>2
  <3> QED BY <2>1,<3>1,<3>2,<3>3 DEF Look
 <2>9. PICK seen \in Sights : /\ seen = Extended(q.seen, side, look) /\ DOMAIN seen = DOMAIN q.seen \cup {side}
                              /\ seen[side] = look /\ \A s \in DOMAIN q.seen \ {side} : seen[s] = q.seen[s]
  BY <1>3, AddSight
 <2>10. PICK pc \in {"seal", "materialize"} : pc = IF side = "twitch" THEN "materialize" ELSE "seal" OBVIOUS
 <2>11. PICK S \in SUBSET Realms : S = q.seals \cup {r} BY DEF Work
 <2>12. PICK n \in Work : n = [q EXCEPT !.seen = seen, !.seals = S, !.pc = pc] BY DEF Work, Points, Finalization
 <2>13. /\ n.pc = pc /\ n.seals = S /\ n.seen = seen /\ n.kind = q.kind /\ n.inv = q.inv /\ n.version = q.version
        /\ n.found = q.found BY <2>12 DEF Work
 <2>14. proc' = [proc EXCEPT ![Authority] = n] BY <1>10,<2>8,<2>9,<2>10,<2>11,<2>12 DEF Goto
 <2>15. DutyOf(n)'
  <3>1. DutyOf(n) BY <1>1,<1>3,<1>4,<2>10,<2>13 DEF DutyOf, Inquiry, Finalization
  <3>2. pc \notin {"idle", "freeze", "repair", "batch", "commit", "release"} /\ pc \notin Inquiry /\ pc # "plan"
   BY <2>10 DEF Inquiry
  <3> QED BY <1>3,<1>4,<1>7,<3>1,<3>2,<2>13 DEF DutyOf, linkVars, Named
 <2>16. SealOf(n)'
  <3>1. \A s \in S : realm'[s].seal = realm[s].seal \/ realm'[s].seal = seal BY <2>6
  <3>2. \A s \in S : realm'[s].seal = <<q.inv, q.version>> BY <1>1,<1>6,<2>3,<2>5,<2>11,<3>1 DEF SealOf
  <3>3. /\ discovery'[q.inv].version = q.version /\ discovery'[q.inv].choice # None
        /\ q.found = discovery'[q.inv].found BY <1>4,<1>7
  <3>4. S = {q.found[s] : s \in DOMAIN seen} BY <1>3,<1>5,<2>9,<2>11
  <3>5. \A s \in DOMAIN seen : Holds(q.found[s], seen[s])'
   <4> SUFFICES ASSUME NEW s \in DOMAIN seen PROVE seen[s].val = realm'[q.found[s]].val BY DEF Holds
   <4>1. CASE s = side BY <1>5,<2>1,<2>3,<2>5,<2>8,<2>9,<4>1
   <4>2. CASE s # side
    <5>1. s \in DOMAIN q.seen /\ q.found[s] \in Realms /\ seen[s] = q.seen[s] BY <1>3,<2>9,<2>11,<3>4,<4>2
    <5>2. q.found[s] \in q.seals /\ q.seen[s].val = realm[q.found[s]].val
     BY <1>1,<1>3,<1>10,<5>1 DEF SealOf, Holds
    <5> QED BY <2>6,<5>1,<5>2
   <4> QED BY <4>1,<4>2
  <3>6. DOMAIN seen = IF pc = "materialize" THEN Sides ELSE DOMAIN seen \cap {"discord"} BY <1>3,<2>9,<2>10
  <3> QED BY <1>3,<2>10,<2>13,<3>2,<3>3,<3>4,<3>5,<3>6 DEF SealOf
 <2>17. FindingOf(n)' /\ CopyOf(n)' BY <2>10,<2>13 DEF FindingOf, CopyOf, Inquiry
 <2>18. Types' BY <1>7,<1>8,<1>10,<2>5,<2>14, AuthorityIs, WorkStays DEF Types, RealmTypes, IInv
 <2> QED BY <1>7,<2>7,<2>14,<2>15,<2>16,<2>17,<2>18, AuthorityIs, RealmsAndWork DEF RecordOf
<1> QED BY <1>1,<1>2,<1>5,<1>6,<1>9,<1>10 DEF AcquireSeal, Sealed

\* Releasing seals touches nothing else.
LEMMA ReleaseFine ==
  ASSUME IInv, Release(Authority)
  PROVE  /\ RealmTypes' /\ Kept
         /\ \A r \in Realms : realm'[r].val = realm[r].val /\ realm'[r].ver = realm[r].ver /\ realm'[r].frozen = realm[r].frozen
<1>1. CASE UNCHANGED realm /\ spent' = [spent EXCEPT !.failures = @ + 1] BY <1>1, SpentStays, KeptIfSame
<1>2. CASE realm' = Unsealed(Authority) /\ UNCHANGED spent
 <2>1. ASSUME NEW r \in Realms
       PROVE  /\ realm'[r] \in Content /\ realm'[r].val = realm[r].val /\ realm'[r].ver = realm[r].ver
              /\ realm'[r].frozen = realm[r].frozen
  <3>1. PICK c \in Content : c = realm[r] BY RealmsOfTables
  <3>2. PICK d \in Content : d = [c EXCEPT !.seal = None, !.expired = FALSE] BY DEF Content
  <3>3. d.val = c.val /\ d.ver = c.ver /\ d.frozen = c.frozen BY <3>2 DEF Content
  <3>4. realm'[r] = c \/ realm'[r] = d BY <1>2,<3>1,<3>2 DEF Unsealed
  <3> QED BY <3>1,<3>3,<3>4
 <2>2. realm' = [r \in Realms |-> realm'[r]] BY <1>2 DEF Unsealed
 <2>3. realm' \in [Realms -> Content] BY <2>1,<2>2
 <2>4. Kept BY <2>1, RealmsOfTables DEF Kept
 <2> QED BY <1>2,<2>1,<2>3,<2>4 DEF RealmTypes, IInv, Types
<1> QED BY <1>1,<1>2 DEF Release

LEMMA ReleaseSealsKeeps ==
  ASSUME IInv, ReleaseSeals
  PROVE  IInv'
<1>1. RealmTypes' /\ Kept BY ReleaseFine DEF ReleaseSeals
<1>2. Authority \in Processes /\ Idle \in Work /\ RecordOf(Authority, Idle)' BY AuthorityIs, IdleFine
<1>3. proc' = [proc EXCEPT ![Authority] = Idle] BY DEF ReleaseSeals, Goto
<1>4. Types' BY <1>1,<1>2,<1>3, TypesStay, WorkStays DEF ReleaseSeals, Types
<1> QED BY <1>1,<1>2,<1>3,<1>4, RealmsAndWork DEF ReleaseSeals, invitationVars, bindingVars

LEMMA MaterializeFinalizationKeeps ==
  ASSUME IInv, MaterializeFinalization
  PROVE  IInv'
<1>1. PICK q \in Work : q = proc[Authority] /\ DutyOf(q) /\ SealOf(q) /\ q.pc = "materialize"
 BY AuthorityIs DEF MaterializeFinalization
<1>2. q.version > 0 /\ DOMAIN q.seen = Sides /\ q.seals = {q.found[s] : s \in Sides} /\ discovery[q.inv].choice # None
 BY <1>1 DEF SealOf, Sealing
<1>3. /\ q.inv \in Invitations /\ Named(q.inv) /\ integ[q.inv].status = "none" /\ q.version \in 1..MaxVersion
      /\ discovery[q.inv].version = q.version /\ q.found = discovery[q.inv].found /\ DOMAIN q.found = Sides
      /\ discovery[q.inv].choice \in Selections
      /\ \A s \in Sides : q.found[s] \in Realms /\ q.found[s] \in Published(GroupOf(q.inv, s))
 BY <1>1,<1>2, SealedKnown DEF IInv, Sealing
<1> DEFINE i == q.inv
           choice == discovery[i].choice
<1>4. PICK new \in Realms : new = Integrated(i, q.version) BY <1>1,<1>2, SealedKnown DEF IInv, Sealing
<1>5. UNCHANGED <<inv, linkVars, binding, discovery>> BY DEF MaterializeFinalization, invitationVars, bindingVars
<1>6. InvitationTypes' /\ LinkTypes' /\ BindingTypes' BY TypesStay DEF MaterializeFinalization
<1>7. CASE /\ Release(Authority) /\ UNCHANGED alarm
           /\ Goto(Authority, [Rediscover(Authority) EXCEPT !.seals = {}])
 <2>1. RealmTypes' /\ Kept BY <1>7, ReleaseFine
 <2>2. PICK n \in Work : /\ n = [Rediscover(Authority) EXCEPT !.seals = {}] /\ n.pc = "candidate" /\ n.seals = {}
                         /\ RecordOf(Authority, n) BY <1>1, RediscoverFine DEF Finalization
 <2>3. proc' = [proc EXCEPT ![Authority] = n] BY <1>7,<2>2 DEF Goto
 <2>4. Types' BY <1>6,<1>7,<2>1,<2>3, AuthorityIs, WorkStays DEF Types
 <2>5. Onward BY <1>5,<2>4, InvitationsStay, LinksStay
 <2>6. Undisturbed(n) BY <2>2 DEF Undisturbed, Sealing
 <2>7. RecordOf(Authority, n)' BY <1>5,<2>1,<2>2,<2>5,<2>6, AuthorityIs, RecordStays DEF linkVars
 <2> QED BY <1>5,<2>1,<2>3,<2>4,<2>7, AuthorityIs, RealmsAndWork
<1>8. ASSUME q.seen = discovery[i].seen, NEW val, val = (IF choice = "reset" THEN 0 ELSE q.seen[choice].val),
             realm' = Copied(new, val), UNCHANGED spent,
             IF realm'[new].val = val /\ realm'[new].ver = 1
               THEN Goto(Authority, At(Authority, "commit")) /\ UNCHANGED alarm
               ELSE Abort(Authority)
      PROVE  IInv'
 <2>1. val \in Nat
  <3>1. CASE choice = "reset" BY <1>8,<3>1
  <3>2. CASE choice # "reset"
   <4>1. choice \in Sides /\ q.seen \in Sights BY <1>1,<1>3,<3>2 DEF Selections, SealOf
   <4>2. q.seen[choice] \in Looks BY <1>2,<4>1, FindsAre
   <4> QED BY <1>8,<3>2,<4>2 DEF Looks
  <3> QED BY <3>1,<3>2
 <2>2. /\ realm' \in [Realms -> Content] /\ \A s \in Realms : s # new => realm'[s] = realm[s]
       /\ realm'[new].ver # 0 /\ realm'[new].frozen = realm[new].frozen /\ realm'[new].seal = realm[new].seal /\ realm'[new].expired = realm[new].expired
       /\ realm[new].ver # 0 => realm'[new].val = realm[new].val BY <1>8,<2>1, CopiedIs
 <2>3. \A j \in Invitations : integ[j].status # "none" => RealmOfIntegration(j) # new
  BY <1>3,<1>4 DEF RealmOfIntegration, Integrated
 <2>4. \A g, n : Standalone(g, n) # new BY <1>4, RealmsAre
 <2>5. Kept
  <3>1. \A j \in Revoked : realm'[RealmOfIntegration(j)].val = realm[RealmOfIntegration(j)].val
   BY <2>2,<2>3, RealmsOfTables DEF Revoked
  <3>2. \A s \in Realms : (realm[s].frozen => realm'[s].frozen) /\ (realm[s].ver # 0 => realm'[s].ver # 0) BY <2>2
  <3>3. \A g \in Groups : realm'[Standalone(g, succ[g].gen)].val = realm[Standalone(g, succ[g].gen)].val
   BY <2>2,<2>4, RealmsOfTables
  <3> QED BY <3>1,<3>2,<3>3 DEF Kept
 <2>6. RealmTypes' BY <1>8,<2>2 DEF RealmTypes, IInv, Types
 <2>7. \A s \in Sides : q.found[s] # new BY <1>3,<2>3,<2>4, RowsAre DEF Published, IInv
 <2>8. \A s \in q.seals : s \in Realms /\ realm'[s].seal = realm[s].seal /\ realm'[s].val = realm[s].val
                        /\ realm'[s].expired = realm[s].expired BY <1>2,<1>3,<2>2,<2>7
 <2>9. Rearm \/ UNCHANGED alarm BY <1>8 DEF Abort
 <2>10. CASE Abort(Authority)
  <3>1. PICK n \in Work : n = Aborted(Authority) /\ RecordOf(Authority, n) /\ proc' = [proc EXCEPT ![Authority] = n]
   BY <2>10, AuthorityIs, AlarmMoves
  <3>2. n = Idle \/ n = At(Authority, "release") BY <3>1 DEF Aborted
  <3>3. n.pc \notin Sealing /\ (n.seals = {} \/ n.seals = q.seals) BY <1>1,<3>2 DEF Idle, At, Sealing, Work
  <3>4. Undisturbed(n) BY <1>5,<2>8,<3>3 DEF Undisturbed, Sealing
  <3>5. Types' BY <1>6,<2>6,<2>9,<3>1, AuthorityIs, WorkStays DEF Types
  <3>6. Onward BY <1>5,<3>5, InvitationsStay, LinksStay
  <3>7. RecordOf(Authority, n)' BY <1>5,<2>5,<3>1,<3>4,<3>6, AuthorityIs, RecordStays DEF linkVars
  <3> QED BY <1>5,<2>5,<3>1,<3>5,<3>7, AuthorityIs, RealmsAndWork
 <2>11. CASE realm'[new].val = val /\ Goto(Authority, At(Authority, "commit"))
  <3>1. PICK n \in Work : n = [q EXCEPT !.pc = "commit"] BY DEF Work, Points, Finalization
  <3>2. /\ n.pc = "commit" /\ n.seals = q.seals /\ n.kind = q.kind /\ n.inv = q.inv /\ n.version = q.version
        /\ n.found = q.found /\ n.refresh = q.refresh BY <3>1 DEF Work
  <3>3. proc' = [proc EXCEPT ![Authority] = n] BY <1>1,<2>11,<3>1 DEF Goto, At
  <3>4. DutyOf(n)' BY <1>1,<1>2,<1>3,<1>5,<3>2 DEF DutyOf, Inquiry, Finalization, linkVars, Named
  <3>5. Shown(i)' = val BY <1>5,<1>8 DEF Shown
  <3>6. \A s \in Sides : Holds(q.found[s], discovery[i].seen[s])'
   <4>1. \A s \in Sides : Holds(q.found[s], q.seen[s]) BY <1>1,<1>2 DEF SealOf
   <4>2. \A s \in Sides : q.found[s] \in q.seals BY <1>2
   <4> QED BY <1>5,<1>8,<2>8,<4>1,<4>2 DEF Holds
  <3>7. SealOf(n)'
   <4>1. \A r \in n.seals : realm'[r].seal = <<n.inv, n.version>> BY <1>1,<2>8,<3>2 DEF SealOf
   <4>2. /\ discovery'[n.inv].version = n.version /\ discovery'[n.inv].choice # None
         /\ n.found = discovery'[n.inv].found BY <1>2,<1>3,<1>5,<3>2
   <4>3. /\ n.seals = {n.found[s] : s \in Sides}
         /\ realm'[Integrated(n.inv, n.version)].ver # 0
         /\ realm'[Integrated(n.inv, n.version)].val = Shown(n.inv)'
         /\ \A s \in Sides : Holds(n.found[s], discovery[n.inv].seen[s])' BY <1>2,<1>4,<2>2,<2>11,<3>2,<3>5,<3>6
   <4> QED BY <3>2,<4>1,<4>2,<4>3 DEF SealOf
  <3>8. FindingOf(n)' /\ CopyOf(n)' BY <3>2 DEF FindingOf, CopyOf, Inquiry
  <3>9. Types' BY <1>6,<2>6,<2>9,<3>3, AuthorityIs, WorkStays DEF Types
  <3> QED BY <1>5,<2>5,<3>3,<3>4,<3>7,<3>8,<3>9, AuthorityIs, RealmsAndWork DEF RecordOf
 <2> QED BY <1>8,<2>10,<2>11
<1> QED
 <2>1. PICK val : val = (IF choice = "reset" THEN 0 ELSE q.seen[choice].val) OBVIOUS
 <2>2. \/ /\ Release(Authority) /\ UNCHANGED alarm
          /\ Goto(Authority, [Rediscover(Authority) EXCEPT !.seals = {}])
       \/ /\ q.seen = discovery[i].seen
          /\ realm' = Copied(new, val) /\ UNCHANGED spent
          /\ IF realm'[new].val = val /\ realm'[new].ver = 1
               THEN Goto(Authority, At(Authority, "commit")) /\ UNCHANGED alarm
               ELSE Abort(Authority) BY <1>1,<1>4,<2>1 DEF MaterializeFinalization
 <2> QED BY <1>7,<1>8,<2>1,<2>2

\* A pair that is linked already gets its integration; every direction of it
\* has a default.
LEMMA JoinKeeps ==
  ASSUME IInv, NEW q \in Work, q = proc[Authority], q.pc = "commit", Existing(q.inv) # None,
         Types', SetStatus(q.inv, "active"), UNCHANGED <<late, discovery, realm, succ, jobs, groupJobs, created>>,
         integ' = [integ EXCEPT ![Existing(q.inv)] = [status |-> "active", gen |-> integ[Existing(q.inv)].gen]],
         NEW assigned, assigned = {g \in Members(q.inv) : default[g] = None},
         default' = [g \in Groups |-> IF g \in assigned THEN Existing(q.inv) ELSE default[g]],
         NEW change, DOMAIN change = assigned, Announce(change), InvitationsStep,
         NEW n \in Work, proc' = [proc EXCEPT ![Authority] = n], RecordOf(Authority, n)
  PROVE  IInv'
<1> DEFINE i == q.inv
<1>1. DutyOf(q) BY AuthorityIs
<1>2. i \in Invitations /\ Named(i) /\ integ[i].status = "none" BY <1>1 DEF DutyOf, Finalization
<1>3. PICK id \in Invitations : id = Existing(i) /\ integ[id].status = "active" /\ Members(id) = Members(i)
 BY <1>2, ExistingIs DEF IInv
<1>4. integ' = integ BY <1>3 DEF IInv, Types, LinkTypes
<1>5. \A g \in Members(i) : g \in Groups /\ default[g] # None
 <2>1. \A g \in Members(i) : g \in Groups BY <1>2 DEF Members, Named, Groups
 <2>2. \A g \in Members(i) : id \in ActiveFor(g) BY <1>3, ActiveForAre DEF IInv
 <2> QED BY <2>1,<2>2 DEF IInv, LinksAgree, EveryLinkSelected
<1>6. default' = default
 <2>1. default \in [Groups -> Invitations \cup {None}] BY DEF IInv, Types, LinkTypes
 <2> QED BY <1>5,<2>1
<1>7. binding' = binding
 <2>1. \A g \in Groups : g \notin DOMAIN change BY <1>5
 <2>2. binding' = [g \in Groups |-> binding[g]] BY <2>1 DEF Announce
 <2>3. binding = [g \in Groups |-> binding[g]] BY DEF IInv, Types, BindingTypes
 <2> QED BY <2>2,<2>3
<1> QED BY <1>4,<1>6,<1>7, AuthorityIs, OnlyWork DEF linkVars

\* A new integration: it is made of the invitation's discovery, which found the
\* realms that both groups use now.
LEMMA CreateKeeps ==
  ASSUME IInv, NEW q \in Work, q = proc[Authority], q.pc = "commit", Existing(q.inv) = None, q.version > 0,
         CandidatesCurrent(q.inv),
         Types', SetStatus(q.inv, "active"), UNCHANGED <<late, discovery, realm, succ, jobs, groupJobs>>,
         integ' = [integ EXCEPT ![q.inv] = [status |-> "active", gen |-> q.version]],
         created' = Append(created, q.inv), NEW assigned, assigned = {g \in Members(q.inv) : default[g] = None},
         default' = [g \in Groups |-> IF g \in assigned THEN q.inv ELSE default[g]],
         NEW change, DOMAIN change = assigned, \A g \in assigned : change[g] = Ready(Integrated(q.inv, q.version)),
         \A g \in Groups : Announces(g, change), InvitationsStep,
         NEW n \in Work, proc' = [proc EXCEPT ![Authority] = n],
         n.pc = "release", n.kind = "activate", n.inv = q.inv, n.version = q.version, n.seals = q.seals
  PROVE  IInv'
<1> DEFINE i == q.inv
           v == q.version
<1>1. DutyOf(q) /\ SealOf(q) BY AuthorityIs
<1>2. /\ i \in Invitations /\ Named(i) /\ integ[i].status = "none" /\ v \in 1..MaxVersion
      /\ discovery[i].version = v /\ q.found = discovery[i].found
      /\ \A s \in Sides : q.found[s] \in Published(GroupOf(i, s)) /\ GroupOf(i, s) \in Groups
 BY <1>1, SealedKnown DEF IInv, Sealing
<1>3. /\ integ \in [Invitations -> [status : {"none", "active", "revoking", "revoked"}, gen : 0..MaxVersion]]
      /\ created \in Seq(Invitations) /\ default \in [Groups -> Invitations \cup {None}]
      /\ inv \in [Invitations -> Invites] BY DEF IInv, Types, LinkTypes, InvitationTypes
<1>4. integ'[i].status = "active" /\ integ'[i].gen = v /\ \A j \in Invitations : j # i => integ'[j] = integ[j]
 BY <1>2,<1>3
<1>5. i \notin Range(created) /\ i \notin Range(jobs) BY <1>2 DEF IInv, Tables, Rows
<1>6. created' \in Seq(Invitations) /\ IsInjective(created') /\ Range(created') = Range(created) \cup {i}
 BY <1>2,<1>3,<1>5, AppendRow DEF IInv, Tables, Queues
<1>7. inv'[i].status = "active" /\ \A j \in Invitations : j # i => inv'[j] = inv[j]
 BY <1>2,<1>3 DEF SetStatus, Invites
<1>8. \A j \in Invitations : /\ inv'[j].guild = inv[j].guild /\ inv'[j].channel = inv[j].channel
                             /\ Members(j)' = Members(j) /\ (Named(j) <=> Named(j)')
 <2>1. \A j \in Invitations : inv'[j].guild = inv[j].guild /\ inv'[j].channel = inv[j].channel
  BY <1>2,<1>3 DEF SetStatus, Invites
 <2> QED BY <2>1 DEF Members, Named
<1>9. Members(i) \subseteq Groups /\ \A g \in Members(i) : \E s \in Sides : g = GroupOf(i, s)
 BY <1>2 DEF Members, Named, Groups, GroupOf, Sides
<1>10. \A g \in assigned : g \in Groups /\ succ[g].status # "pending"
 <2> SUFFICES ASSUME NEW g \in assigned PROVE g \in Groups /\ succ[g].status # "pending" OBVIOUS
 <2>1. PICK s \in Sides : g = GroupOf(i, s) BY <1>9
 <2>2. default[g] = None /\ g \in Groups BY <1>9
 <2>3. Standalone(g, succ[g].gen) \in Published(g)
  BY <1>2,<2>1,<2>2 DEF CandidatesCurrent, CandidateRealm, HasActiveDefault
 <2>4. \A j : Standalone(g, succ[g].gen) # RealmOfIntegration(j) BY RealmsAre DEF RealmOfIntegration
 <2>5. PICK m \in 1..succ[g].gen : /\ m < succ[g].gen \/ succ[g].status # "pending"
                                   /\ Standalone(g, succ[g].gen) = Standalone(g, m) BY <2>3,<2>4 DEF Published
 <2>6. m = succ[g].gen BY <2>5 DEF Standalone
 <2>7. succ[g].gen \in Nat BY <2>2, RealmsOfTables
 <2> QED BY <2>2,<2>5,<2>6,<2>7
<1>11. \A g \in Groups : default[g] # None => default[g] \in Invitations /\ default[g] # i
 BY <1>2,<1>3 DEF IInv, LinksAgree, EveryLinkSelected
<1>12. \A g \in Groups : default'[g] = IF g \in assigned THEN i ELSE default[g] OBVIOUS
<1>13. Revoked' = Revoked /\ \A j \in Revoked : integ'[j] = integ[j] /\ RealmOfIntegration(j)' = RealmOfIntegration(j)
 <2>1. Revoked' = Revoked BY <1>2,<1>4 DEF Revoked
 <2>2. \A j \in Revoked : j \in Invitations /\ j # i BY <1>2 DEF Revoked
 <2> QED BY <1>4,<2>1,<2>2 DEF RealmOfIntegration
<1>14. Rows'
 <2> SUFFICES ASSUME NEW j \in Invitations
              PROVE /\ RowOf(inv'[j])
                    /\ integ'[j].status # "none" <=> j \in Range(created')
                    /\ integ'[j].status # "none" => inv'[j].status \in {"active", "pruned"} /\ Named(j)' /\ integ'[j].gen >= 1
                    /\ integ'[j].status = "revoking" <=> j \in Range(jobs') BY DEF Rows
 <2>1. RowOf(inv'[j]) BY DEF InvitationsStep
 <2>2. CASE j = i BY <1>2,<1>4,<1>5,<1>6,<1>7,<1>8,<2>1,<2>2
 <2>3. CASE j # i BY <1>4,<1>6,<1>7,<1>8,<2>1,<2>3 DEF IInv, Tables, Rows
 <2> QED BY <2>2,<2>3
<1>15. Queues' /\ Successors' BY <1>6,<1>13 DEF IInv, Tables, Queues, Successors
<1>16. Pairs'
 <2> SUFFICES ASSUME NEW j \in Invitations, NEW k \in Invitations, integ'[j].status = "active",
                     integ'[k].status = "active", Members(j)' = Members(k)'
              PROVE  j = k BY DEF Pairs
 <2>1. \A l \in Invitations : integ[l].status = "active" => Members(l) # Members(i) BY <1>2, NoneExisting DEF IInv
 <2>2. Members(j) = Members(k) BY <1>8
 <2>3. CASE j # i /\ k # i BY <1>4,<2>2,<2>3 DEF IInv, Tables, Pairs
 <2>4. CASE j = i \/ k = i BY <1>4,<2>1,<2>2,<2>4
 <2> QED BY <2>3,<2>4
<1>17. Tables' BY <1>14,<1>15,<1>16 DEF Tables
<1>18. Onward
 <2>1. \A g \in Groups : Published(g) \subseteq Published(g)'
  <3>1. \A j \in Range(created) : j \in Range(created') /\ Members(j)' = Members(j) /\ RealmOfIntegration(j)' = RealmOfIntegration(j)
   BY <1>4,<1>5,<1>6,<1>8, RowsAre DEF IInv, RealmOfIntegration
  <3> QED BY <3>1 DEF Published
 <2>2. \A g \in Groups : succ[g].gen \in Nat BY RealmsOfTables
 <2> QED BY <1>8,<1>13,<2>1,<2>2 DEF Onward
<1>19. EveryLinkSelected'
 <2> SUFFICES ASSUME NEW g \in Groups
              PROVE  /\ default'[g] # None => /\ g \in {inv'[default'[g]].guild, inv'[default'[g]].channel}
                                             /\ integ'[default'[g]].status \in {"active", "revoking"}
                                             /\ succ'[g].status # "pending"
                     /\ ActiveFor(g)' # {} => default'[g] # None BY DEF EveryLinkSelected, Members
 <2>1. i # None BY <1>2, ConstantsAssumption
 <2>2. CASE g \in assigned
  <3>1. g \in Members(i) /\ default'[g] = i BY <1>12,<2>2
  <3>2. g \in {inv'[i].guild, inv'[i].channel} BY <1>2,<1>8,<3>1 DEF Members
  <3> QED BY <1>4,<1>10,<2>1,<2>2,<3>1,<3>2
 <2>3. CASE g \notin assigned
  <3>1. default'[g] = default[g] BY <1>12,<2>3
  <3>2. default[g] # None => /\ g \in Members(default[g]) /\ integ[default[g]].status \in {"active", "revoking"}
                             /\ succ[g].status # "pending" BY DEF IInv, LinksAgree, EveryLinkSelected
  <3>3. ASSUME default[g] = None PROVE ActiveFor(g)' = {}
   <4>1. ActiveFor(g) = {} /\ g \notin Members(i) BY <2>3,<3>3 DEF IInv, LinksAgree, EveryLinkSelected
   <4>2. \A j \in Range(created) : j \in Invitations /\ j # i BY <1>5, RowsAre DEF IInv
   <4> QED BY <1>2,<1>4,<1>6,<1>8,<4>1,<4>2 DEF ActiveFor
  <3>4. default[g] # None => integ'[default[g]] = integ[default[g]] /\ g \in {inv'[default[g]].guild, inv'[default[g]].channel}
   BY <1>4,<1>8,<1>11,<3>2 DEF Members
  <3> QED BY <3>1,<3>2,<3>3,<3>4
 <2> QED BY <2>2,<2>3
<1>20. BindingTellsTruth'
 <2> SUFFICES ASSUME NEW g \in Groups
              PROVE  [status |-> binding'[g].status, source |-> binding'[g].source] = CurrentBinding(g)'
  BY DEF BindingTellsTruth
 <2>1. CASE g \in assigned
  <3>1. default'[g] = i /\ i # None BY <1>2,<1>12,<2>1, ConstantsAssumption
  <3>2. CurrentBinding(g)' = Ready(Integrated(i, v))
   BY <1>4,<3>1 DEF CurrentBinding, Transitioning, CandidateRealm, HasActiveDefault, RealmOfIntegration, Ready
  <3>3. binding'[g].status = change[g].status /\ binding'[g].source = change[g].source BY <2>1 DEF Announces
  <3>4. change[g] = Ready(Integrated(i, v)) BY <2>1
  <3> QED BY <3>2,<3>3,<3>4 DEF Ready
 <2>2. CASE g \notin assigned
  <3>1. default'[g] = default[g] /\ (default[g] # None => integ'[default[g]] = integ[default[g]])
   BY <1>4,<1>11,<1>12,<2>2
  <3>2. CurrentBinding(g)' = CurrentBinding(g)
   BY <3>1 DEF CurrentBinding, Transitioning, CandidateRealm, HasActiveDefault, RealmOfIntegration
  <3>3. binding'[g].status = binding[g].status /\ binding'[g].source = binding[g].source BY <2>2 DEF Announces
  <3> QED BY <3>2,<3>3 DEF IInv, LinksAgree, BindingTellsTruth
 <2> QED BY <2>1,<2>2
<1>21. Stores' BY <1>13 DEF IInv, Stores, Archived, Supplied
<1>22. Discoveries' BY <1>18, DiscoveriesStay DEF Discoveries
<1>23. DutyOf(n)'
 <2>1. n.seals # {} => v > 0 OBVIOUS
 <2> QED BY <1>2,<2>1 DEF DutyOf, Inquiry, Finalization
<1>24. SealOf(n)' /\ FindingOf(n)' /\ CopyOf(n)' BY <1>1 DEF SealOf, FindingOf, CopyOf, Inquiry, Sealing
<1>25. Kept BY KeptIfSame
<1> QED BY <1>17,<1>18,<1>19,<1>20,<1>21,<1>22,<1>23,<1>24,<1>25, AuthorityIs, OneMoves DEF RecordOf, LinksAgree

LEMMA CommitActivationKeeps ==
  ASSUME IInv, CommitActivation
  PROVE  IInv'
<1>1. PICK q \in Work : q = proc[Authority] /\ DutyOf(q) /\ SealOf(q) /\ q.pc = "commit"
 BY AuthorityIs DEF CommitActivation
<1>2. q.kind = "activate" /\ q.inv \in Invitations /\ Named(q.inv) /\ integ[q.inv].status = "none"
 BY <1>1 DEF DutyOf, Finalization
<1>3. q.version \in Nat /\ q.version \in 0..MaxVersion
 <2>1. MaxVersion \in Nat BY ConstantsAssumption
 <2> QED BY <2>1 DEF Work
<1> DEFINE i == q.inv
           v == q.version
           id == IF Existing(i) = None THEN i ELSE Existing(i)
           gen == IF Existing(i) = None THEN v ELSE integ[id].gen
           assigned == {g \in Members(i) : default[g] = None}
           change == [g \in assigned |-> Ready(Integrated(id, gen))]
<1>4. UNCHANGED <<discovery, realm, spent>> BY DEF CommitActivation
<1>5. RealmTypes' BY <1>4, TypesStay
<1>6. CASE v > 0 /\ Goto(Authority, Rediscover(Authority)) /\ UNCHANGED <<inv, late, linkVars, bindingVars, alarm>>
 <2>1. q.seals \in SUBSET Realms /\ v = discovery[i].version BY <1>1,<1>6 DEF Work, SealOf, Sealing
 <2>2. PICK n \in Work : n = [Rediscover(Authority) EXCEPT !.seals = q.seals] /\ RecordOf(Authority, n)
  BY <1>1,<1>6,<2>1, RediscoverFine DEF Finalization
 <2>3. n = Rediscover(Authority) BY <1>1,<2>2 DEF Rediscover, Work
 <2>4. proc' = [proc EXCEPT ![Authority] = n] BY <1>6,<2>3 DEF Goto
 <2>5. InvitationsStep BY <1>6, InvitationsStay
 <2>6. Types' BY <1>4,<1>5,<1>6,<2>4, TypesStay, WorkStays, AuthorityIs DEF Types, invitationVars
 <2> QED BY <1>4,<1>6,<2>2,<2>4,<2>5,<2>6, OnlyWork, AuthorityIs DEF bindingVars
<1>7. CASE UNCHANGED <<inv, late, linkVars, bindingVars>> /\ Abort(Authority)
 <2>1. InvitationsStep BY <1>7, InvitationsStay
 <2>2. Types' BY <1>4,<1>5,<1>7, TypesStay, AlarmMoves, AuthorityIs DEF Types, invitationVars
 <2> QED BY <1>4,<1>7,<2>1,<2>2, AlarmMoves, OnlyWork, AuthorityIs DEF bindingVars
<1>8. PICK n \in Work : n = [q EXCEPT !.pc = "release", !.done = 1] BY DEF Work, Points
<1>9. n.pc = "release" /\ n.kind = "activate" /\ n.inv = i /\ n.version = v /\ n.seals = q.seals
 BY <1>2,<1>8 DEF Work
<1>10. RecordOf(Authority, n)
 <2>1. DutyOf(n) BY <1>1,<1>2,<1>9 DEF DutyOf, Inquiry, Finalization
 <2>2. SealOf(n) /\ FindingOf(n) /\ CopyOf(n) BY <1>1,<1>9 DEF SealOf, FindingOf, CopyOf, Inquiry, Sealing
 <2> QED BY <2>1,<2>2 DEF RecordOf
<1>11. CASE Open(i) /\ Expire({i}) /\ Goto(Authority, n) /\ UNCHANGED <<linkVars, bindingVars, alarm>>
 <2>1. InvitationsStep /\ InvitationTypes' BY <1>2,<1>4,<1>11, ExpireFine DEF Open, Pending
 <2>2. Types' BY <1>5,<1>11,<2>1, TypesStay, WorkStays, AuthorityIs DEF Types, Goto
 <2> QED BY <1>4,<1>10,<1>11,<2>1,<2>2, OnlyWork, AuthorityIs DEF bindingVars, Goto
<1>12. ASSUME Open(i), v > 0 => CandidatesCurrent(i), SetStatus(i, "active"), UNCHANGED late,
              integ' = [integ EXCEPT ![id] = [status |-> "active", gen |-> gen]],
              created' = IF Existing(i) = None THEN Append(created, i) ELSE created,
              default' = [g \in Groups |-> IF g \in assigned THEN id ELSE default[g]],
              Announce(change), Goto(Authority, n), UNCHANGED <<succ, jobs, groupJobs, alarm>>
       PROVE  IInv'
 <2>1. PICK row \in Invites : row = [inv[i] EXCEPT !.status = "active"]
  BY <1>2 DEF IInv, Types, InvitationTypes, Invites, Statuses, Terminal
 <2>2. row.status = "active" /\ row.guild = inv[i].guild /\ row.channel = inv[i].channel
  BY <1>2,<2>1 DEF IInv, Types, InvitationTypes, Invites
 <2>3. InvitationsStep /\ InvitationTypes'
  <3>1. inv' = [inv EXCEPT ![i] = row] BY <1>2,<1>12,<2>1 DEF SetStatus
  <3>2. RowOf(row) BY <1>2,<2>2 DEF RowOf, Named
  <3> QED BY <1>2,<1>4,<1>12,<2>2,<3>1,<3>2, RowFine DEF Open
 <2>4. id \in Invitations /\ gen \in 0..MaxVersion
  <3>1. Existing(i) # None => Existing(i) \in Invitations BY <1>2, ExistingIs DEF IInv
  <3>2. \A j \in Invitations : integ[j].gen \in 0..MaxVersion BY DEF IInv, Types, LinkTypes
  <3> QED BY <1>2,<1>3,<3>1,<3>2
 <2>5. assigned \subseteq Groups BY <1>2 DEF Members, Named, Groups
 <2>6. BindingTypes' /\ \A g \in Groups : Announces(g, change)
  <3>1. Integrated(id, gen) \in RealmNames
   <4>1. MaxVersion \in Nat BY ConstantsAssumption
   <4>2. gen \in Nat BY <2>4,<4>1
   <4> QED BY <2>4,<4>2 DEF Integrated, RealmNames
  <3>2. \A g \in DOMAIN change : change[g].status = "ready" /\ change[g].source = Integrated(id, gen) BY DEF Ready
  <3>3. DOMAIN change = assigned OBVIOUS
  <3> HIDE DEF change
  <3> QED BY <1>12,<2>5,<3>1,<3>2,<3>3, AnnounceFine
 <2>7. LinkTypes'
  <3>1. created' \in Seq(Invitations) BY <1>2,<1>12, AppendProperties DEF IInv, Types, LinkTypes
  <3>2. integ' \in [Invitations -> [status : {"none", "active", "revoking", "revoked"}, gen : 0..MaxVersion]]
   BY <1>12,<2>4 DEF IInv, Types, LinkTypes
  <3>3. default' \in [Groups -> Invitations \cup {None}] BY <1>12,<2>4 DEF IInv, Types, LinkTypes
  <3> QED BY <1>12,<3>1,<3>2,<3>3 DEF IInv, Types, LinkTypes
 <2>8. proc' = [proc EXCEPT ![Authority] = n] BY <1>12 DEF Goto
 <2>9. Types' BY <1>5,<1>12,<2>3,<2>6,<2>7,<2>8, WorkStays, AuthorityIs DEF Types
 <2>10. CASE Existing(i) # None
  <3>1. DOMAIN change = assigned OBVIOUS
  <3>2. integ' = [integ EXCEPT ![Existing(i)] = [status |-> "active", gen |-> integ[Existing(i)].gen]]
   BY <1>12,<2>10
  <3>3. default' = [g \in Groups |-> IF g \in assigned THEN Existing(i) ELSE default[g]] BY <1>12,<2>10
  <3>4. created' = created BY <1>12,<2>10
  <3> HIDE DEF change, assigned
  <3>5. assigned = {g \in Members(i) : default[g] = None} BY DEF assigned
  <3> QED BY <1>1,<1>4,<1>10,<1>12,<2>3,<2>8,<2>9,<2>10,<3>1,<3>2,<3>3,<3>4,<3>5, JoinKeeps
 <2>11. CASE Existing(i) = None
  <3>1. DOMAIN change = assigned /\ \A g \in assigned : change[g] = Ready(Integrated(i, v)) BY <2>11
  <3>2. integ' = [integ EXCEPT ![i] = [status |-> "active", gen |-> v]] BY <1>12,<2>11
  <3>3. default' = [g \in Groups |-> IF g \in assigned THEN i ELSE default[g]] BY <1>12,<2>11
  <3>4. created' = Append(created, i) BY <1>12,<2>11
  <3>5. v > 0 /\ CandidatesCurrent(i) BY <1>1,<1>3,<1>12,<2>11 DEF DutyOf
  <3> HIDE DEF change, assigned
  <3>6. assigned = {g \in Members(i) : default[g] = None} BY DEF assigned
  <3> QED BY <1>1,<1>4,<1>9,<1>12,<2>3,<2>6,<2>8,<2>9,<2>11,<3>1,<3>2,<3>3,<3>4,<3>5,<3>6, CreateKeeps
 <2> QED BY <2>10,<2>11
<1>13. \/ v > 0 /\ Goto(Authority, Rediscover(Authority)) /\ UNCHANGED <<inv, late, linkVars, bindingVars, alarm>>
       \/ UNCHANGED <<inv, late, linkVars, bindingVars>> /\ Abort(Authority)
       \/ Open(i) /\ Expire({i}) /\ Goto(Authority, n) /\ UNCHANGED <<linkVars, bindingVars, alarm>>
       \/ /\ Open(i) /\ (v > 0 => CandidatesCurrent(i)) /\ SetStatus(i, "active") /\ UNCHANGED late
          /\ integ' = [integ EXCEPT ![id] = [status |-> "active", gen |-> gen]]
          /\ created' = IF Existing(i) = None THEN Append(created, i) ELSE created
          /\ default' = [g \in Groups |-> IF g \in assigned THEN id ELSE default[g]]
          /\ Announce(change) /\ Goto(Authority, n) /\ UNCHANGED <<succ, jobs, groupJobs, alarm>>
 BY <1>1,<1>8 DEF CommitActivation
<1> QED BY <1>6,<1>7,<1>11,<1>12,<1>13

-----------------------------------------------------------------------------
(* Default links and revocation                                             *)

LEMMA SetDefaultLinkKeeps ==
  ASSUME IInv, NEW g \in Groups, NEW i \in Range(created), SetDefaultLink(g, i)
  PROVE  IInv'
<1>1. /\ i \in Invitations /\ i # None /\ integ[i].status = "active" /\ g \in Members(i)
      /\ default' = [default EXCEPT ![g] = i] /\ default \in [Groups -> Invitations \cup {None}]
 BY RowsAre, ConstantsAssumption DEF SetDefaultLink, IInv, Types, LinkTypes
<1>2. PICK change : change = [h \in {g} |-> Ready(RealmOfIntegration(i))] OBVIOUS
<1>3. Announce(change) /\ DOMAIN change = {g} /\ change[g] = Ready(RealmOfIntegration(i))
 BY <1>2 DEF SetDefaultLink
<1>4. RealmOfIntegration(i) \in RealmNames BY <1>1, RealmsKnown, RealmsAre DEF IInv
<1>5. BindingTypes' /\ \A h \in Groups : Announces(h, change) BY <1>3,<1>4, AnnounceFine DEF Ready
<1>6. UNCHANGED <<invitationVars, inv, discovery, integ, created, succ, jobs, groupJobs, realm, proc>>
 BY DEF SetDefaultLink, invitationVars
<1>7. Types'
 <2>1. InvitationTypes' BY <1>6, TypesStay
 <2>2. LinkTypes' BY <1>1,<1>6 DEF IInv, Types, LinkTypes
 <2>3. RealmTypes' BY SpentStays DEF SetDefaultLink, Requested
 <2>4. WorkTypes' BY WorkStays DEF SetDefaultLink
 <2> QED BY <1>5,<2>1,<2>2,<2>3,<2>4 DEF Types
<1>8. Tables'
 <2>1. Rows' BY <1>6 DEF IInv, Tables, Rows, Named
 <2>2. Queues' /\ Pairs' BY <1>6 DEF IInv, Tables, Queues, Pairs, Members
 <2>3. Successors' BY <1>6 DEF IInv, Tables, Successors, Revoked
 <2> QED BY <2>1,<2>2,<2>3 DEF Tables
<1>9. Onward
 <2>1. \A h \in Groups : Published(h)' = Published(h) BY <1>6 DEF Published, Members, RealmOfIntegration
 <2> QED BY <1>6,<2>1, RealmsOfTables DEF Onward, Revoked
<1>10. succ[g].status # "pending"
 <2>1. i \in ActiveFor(g) BY <1>1 DEF ActiveFor
 <2> QED BY <2>1 DEF IInv, LinksAgree, EveryLinkSelected
<1>11. default'[g] = i /\ \A h \in Groups : h # g => default'[h] = default[h] BY <1>1
<1>12. EveryLinkSelected'
 <2> SUFFICES ASSUME NEW h \in Groups
              PROVE  /\ default'[h] # None => /\ h \in {inv[default'[h]].guild, inv[default'[h]].channel}
                                              /\ integ[default'[h]].status \in {"active", "revoking"}
                                              /\ succ[h].status # "pending"
                     /\ ActiveFor(h) # {} => default'[h] # None BY <1>6 DEF EveryLinkSelected, ActiveFor, Members
 <2>1. CASE h = g BY <1>1,<1>10,<1>11,<2>1 DEF Members
 <2>2. CASE h # g BY <1>11,<2>2 DEF IInv, LinksAgree, EveryLinkSelected, Members
 <2> QED BY <2>1,<2>2
<1>13. BindingTellsTruth'
 <2> SUFFICES ASSUME NEW h \in Groups
              PROVE  [status |-> binding'[h].status, source |-> binding'[h].source] = CurrentBinding(h)'
  BY DEF BindingTellsTruth
 <2>1. CASE h = g
  <3>1. CurrentBinding(g)' = Ready(RealmOfIntegration(i))
   BY <1>1,<1>6,<1>11 DEF CurrentBinding, Transitioning, CandidateRealm, HasActiveDefault, RealmOfIntegration,
      Ready
  <3> QED BY <1>3,<1>5,<2>1,<3>1 DEF Announces, Ready
 <2>2. CASE h # g
  <3>1. CurrentBinding(h)' = CurrentBinding(h)
   BY <1>6,<1>11,<2>2 DEF CurrentBinding, Transitioning, CandidateRealm, HasActiveDefault, RealmOfIntegration
  <3>2. binding'[h].status = binding[h].status /\ binding'[h].source = binding[h].source
   BY <1>3,<1>5,<2>2 DEF Announces
  <3> QED BY <3>1,<3>2 DEF IInv, LinksAgree, BindingTellsTruth
 <2> QED BY <2>1,<2>2
<1>14. Kept BY <1>6, KeptIfSame
<1>15. Stores' BY <1>6,<1>14, StoresStay
<1>16. Discoveries' BY <1>6,<1>9, DiscoveriesStay DEF Discoveries
<1>17. Undisturbed(proc[Authority]) BY <1>6, SameUndisturbed
<1> QED BY <1>6,<1>7,<1>8,<1>9,<1>12,<1>13,<1>14,<1>15,<1>16,<1>17, NoneMoves DEF LinksAgree

\* An integration starts to be revoked; the authority freezes it next.
LEMMA BeginKeeps ==
  ASSUME IInv, NEW i \in Invitations, integ[i].status \in {"active", "revoking"}, Begin(i),
         UNCHANGED <<invitationVars, created, default, succ, groupJobs, realm>>, RealmTypes', Rearm \/ UNCHANGED alarm,
         NEW n \in Work, proc' = [proc EXCEPT ![Authority] = n],
         n.pc = "freeze", n.inv = i, n.kind # "activate", n.seals = {}
  PROVE  IInv'
<1>1. UNCHANGED <<inv, late, discovery>> /\ InvitationTypes' /\ WorkTypes'
 BY TypesStay, WorkStays, AuthorityIs DEF invitationVars
<1>2. /\ integ \in [Invitations -> [status : {"none", "active", "revoking", "revoked"}, gen : 0..MaxVersion]]
      /\ jobs \in Seq(Invitations) /\ default \in [Groups -> Invitations \cup {None}]
      /\ integ' = [integ EXCEPT ![i].status = "revoking"] BY DEF IInv, Types, LinkTypes, Begin
<1>3. /\ integ'[i].status = "revoking" /\ integ'[i].gen = integ[i].gen
      /\ \A j \in Invitations : integ'[j].gen = integ[j].gen /\ (j # i => integ'[j] = integ[j]) BY <1>2
<1>4. jobs' \in Seq(Invitations) /\ IsInjective(jobs') /\ Range(jobs') = Range(jobs) \cup {i}
 <2>1. CASE i \in Range(jobs) BY <1>2,<2>1 DEF Begin, IInv, Tables, Queues, IsInjective
 <2>2. CASE i \notin Range(jobs) BY <1>2,<2>2, AppendRow DEF Begin, IInv, Tables, Queues
 <2> QED BY <2>1,<2>2
<1>5. LinkTypes'
 <2>1. integ' \in [Invitations -> [status : {"none", "active", "revoking", "revoked"}, gen : 0..MaxVersion]]
  BY <1>2
 <2> QED BY <1>4,<2>1 DEF IInv, Types, LinkTypes
<1>6. Revoked' = Revoked /\ \A j \in Invitations : RealmOfIntegration(j)' = RealmOfIntegration(j)
 BY <1>3 DEF Revoked, RealmOfIntegration
<1>7. Rows'
 <2> SUFFICES ASSUME NEW j \in Invitations
              PROVE /\ RowOf(inv[j])
                    /\ integ'[j].status # "none" <=> j \in Range(created)
                    /\ integ'[j].status # "none" => inv[j].status \in {"active", "pruned"} /\ Named(j) /\ integ'[j].gen >= 1
                    /\ integ'[j].status = "revoking" <=> j \in Range(jobs') BY <1>1 DEF Rows, Named
 <2>1. /\ RowOf(inv[j])
       /\ integ[j].status # "none" <=> j \in Range(created)
       /\ integ[j].status # "none" => inv[j].status \in {"active", "pruned"} /\ Named(j) /\ integ[j].gen >= 1
       /\ integ[j].status = "revoking" <=> j \in Range(jobs) BY DEF IInv, Tables, Rows
 <2>2. CASE j = i BY <1>3,<1>4,<2>1,<2>2
 <2>3. CASE j # i BY <1>3,<1>4,<2>1,<2>3
 <2> QED BY <2>2,<2>3
<1>8. Queues' /\ Successors' BY <1>4,<1>6 DEF IInv, Tables, Queues, Successors, IsInjective
<1>9. \A j \in Invitations : Members(j)' = Members(j) /\ (integ'[j].status = "active" => integ[j].status = "active")
 BY <1>1,<1>3 DEF Members
<1>10. Pairs' BY <1>9 DEF IInv, Tables, Pairs
<1>11. Onward
 <2>1. \A g \in Groups : Published(g)' = Published(g)
  <3>1. \A j \in Range(created) : Members(j)' = Members(j) /\ RealmOfIntegration(j)' = RealmOfIntegration(j)
   BY <1>6,<1>9, RowsAre DEF IInv
  <3> QED BY <3>1 DEF Published
 <2>2. \A j \in Revoked : integ'[j].gen = integ[j].gen BY <1>3 DEF Revoked
 <2> QED BY <1>1,<1>6,<2>1,<2>2, RealmsOfTables DEF Onward
<1>12. EveryLinkSelected'
 <2> SUFFICES ASSUME NEW g \in Groups
              PROVE  /\ default[g] # None => /\ g \in Members(default[g])
                                             /\ integ'[default[g]].status \in {"active", "revoking"}
                                             /\ succ[g].status # "pending"
                     /\ ActiveFor(g)' # {} => default[g] # None BY <1>1 DEF EveryLinkSelected, Members
 <2>1. /\ default[g] # None => /\ g \in Members(default[g]) /\ default[g] \in Invitations
                               /\ integ[default[g]].status \in {"active", "revoking"}
                               /\ succ[g].status # "pending"
       /\ ActiveFor(g) # {} => default[g] # None BY <1>2 DEF IInv, LinksAgree, EveryLinkSelected
 <2>2. ActiveFor(g)' \subseteq ActiveFor(g) BY <1>9, RowsAre DEF IInv, ActiveFor
 <2>3. default[g] # None => integ'[default[g]].status \in {"active", "revoking"} BY <1>3,<2>1
 <2> QED BY <2>1,<2>2,<2>3
<1>13. BindingTypes' /\ BindingTellsTruth'
 <2>1. CASE integ[i].status = "active"
  <3>1. PICK change : change = [g \in {h \in Groups : default[h] = i} |-> Moving] OBVIOUS
  <3>2. Announce(change) /\ DOMAIN change = {h \in Groups : default[h] = i} /\ \A g \in DOMAIN change : change[g] = Moving
   BY <2>1,<3>1 DEF Begin
  <3>3. BindingTypes' /\ \A h \in Groups : Announces(h, change) BY <3>2, AnnounceFine DEF Moving
  <3>4. ASSUME NEW g \in Groups
        PROVE  [status |-> binding'[g].status, source |-> binding'[g].source] = CurrentBinding(g)'
   <4>1. CASE default[g] = i
    <5>1. CurrentBinding(g)' = Moving BY <1>3,<4>1, ConstantsAssumption DEF CurrentBinding, Transitioning, Moving
    <5> QED BY <3>2,<3>3,<4>1,<5>1 DEF Announces, Moving
   <4>2. CASE default[g] # i
    <5>1. default[g] # None => integ'[default[g]] = integ[default[g]] BY <1>2,<1>3,<4>2
    <5>2. CurrentBinding(g)' = CurrentBinding(g)
     BY <5>1 DEF CurrentBinding, Transitioning, CandidateRealm, HasActiveDefault, RealmOfIntegration
    <5>3. binding'[g].status = binding[g].status /\ binding'[g].source = binding[g].source
     BY <3>2,<3>3,<4>2 DEF Announces
    <5> QED BY <5>2,<5>3 DEF IInv, LinksAgree, BindingTellsTruth
   <4> QED BY <4>1,<4>2
  <3> QED BY <3>3,<3>4 DEF BindingTellsTruth
 <2>2. CASE integ[i].status # "active"
  <3>1. integ' = integ BY <1>2,<2>2
  <3>2. UNCHANGED bindingVars BY <2>2 DEF Begin
  <3>3. BindingTypes' BY <3>2, TypesStay
  <3>4. \A g \in Groups : CurrentBinding(g)' = CurrentBinding(g)
   BY <3>1 DEF CurrentBinding, Transitioning, CandidateRealm, HasActiveDefault, RealmOfIntegration
  <3> QED BY <3>2,<3>3,<3>4 DEF IInv, LinksAgree, BindingTellsTruth, bindingVars
 <2> QED BY <2>1,<2>2
<1>14. Types' /\ Tables' /\ LinksAgree' /\ Kept
 BY <1>1,<1>5,<1>7,<1>8,<1>10,<1>12,<1>13, KeptIfSame DEF Types, Tables, LinksAgree
<1>15. Stores'
 <2>1. \A j \in Revoked : RealmOfIntegration(j)' = RealmOfIntegration(j) BY <1>6 DEF Revoked
 <2> QED BY <1>6,<2>1 DEF IInv, Stores, Archived, Supplied
<1>16. Discoveries' BY <1>1,<1>11, DiscoveriesStay DEF Discoveries
<1>17. RecordOf(Authority, n)'
 <2>1. DutyOf(n)' BY <1>3 DEF DutyOf, Inquiry, Finalization
 <2> QED BY <2>1 DEF RecordOf, SealOf, FindingOf, CopyOf, Inquiry, Sealing
<1> QED BY <1>11,<1>14,<1>15,<1>16,<1>17, AuthorityIs, OneMoves

LEMMA RevokeIntegrationKeeps ==
  ASSUME IInv, NEW i \in Invitations, RevokeIntegration(i)
  PROVE  IInv'
<1>1. PICK d \in Work : d = Idle /\ d.seals = {} BY IdleIs
<1>2. PICK n \in Work : n = [d EXCEPT !.pc = "freeze", !.kind = "revoke", !.inv = i] BY DEF Work, Points
<1>3. n.pc = "freeze" /\ n.kind = "revoke" /\ n.inv = i /\ n.seals = {} BY <1>1,<1>2 DEF Work
<1>4. proc' = [proc EXCEPT ![Authority] = n] BY <1>1,<1>2 DEF RevokeIntegration, Goto
<1>5. RealmTypes' BY SpentStays DEF RevokeIntegration, Requested
<1> QED BY <1>3,<1>4,<1>5, BeginKeeps DEF RevokeIntegration

LEMMA BatchNextKeeps ==
  ASSUME IInv, BatchNext
  PROVE  IInv'
<1>1. PICK q \in Work : q = proc[Authority] /\ DutyOf(q) /\ q.pc = "batch" BY AuthorityIs DEF BatchNext
<1>2. PICK i \in Invitations : i = Oldest(LiveFor(q.group)) /\ integ[i].status \in {"active", "revoking"}
 <2>1. LiveFor(q.group) # {} /\ LiveFor(q.group) \subseteq Range(created)
  BY <1>1, ActiveForAre DEF BatchNext, IInv
 <2>2. Oldest(LiveFor(q.group)) \in LiveFor(q.group) BY <2>1, OldestFor DEF IInv
 <2>3. \A j \in LiveFor(q.group) : j \in Invitations /\ integ[j].status \in {"active", "revoking"}
  BY ActiveForAre DEF IInv
 <2> QED BY <2>2,<2>3
<1>3. PICK n \in Work : n = [q EXCEPT !.pc = "freeze", !.inv = i] BY DEF Work, Points
<1>4. n.pc = "freeze" /\ n.inv = i /\ n.kind = q.kind /\ n.seals = q.seals BY <1>3 DEF Work
<1>5. n.kind # "activate" /\ n.seals = {} BY <1>1,<1>4 DEF DutyOf
<1>6. proc' = [proc EXCEPT ![Authority] = n] /\ UNCHANGED alarm BY <1>1,<1>2,<1>3 DEF BatchNext, Goto
<1>7. RealmTypes' BY TypesStay DEF BatchNext
<1>8. CASE integ[i].status = "active"
 <2>1. Begin(i) BY <1>1,<1>2,<1>8 DEF BatchNext
 <2> QED BY <1>2,<1>4,<1>5,<1>6,<1>7,<2>1, BeginKeeps DEF BatchNext
<1>9. CASE integ[i].status # "active"
 <2>1. UNCHANGED <<invitationVars, linkVars, bindingVars, realm>> BY <1>1,<1>2,<1>9 DEF BatchNext, linkVars
 <2>2. Types' BY <1>6,<1>7,<2>1, TypesStay, WorkStays, AuthorityIs DEF Types
 <2>3. DutyOf(n) BY <1>2,<1>4,<1>5,<1>9 DEF DutyOf, Inquiry, Finalization
 <2>4. RecordOf(Authority, n) BY <1>4,<1>5,<2>3 DEF RecordOf, SealOf, FindingOf, CopyOf, Inquiry, Sealing
 <2>5. InvitationsStep BY <2>1, InvitationsStay DEF invitationVars
 <2> QED BY <1>6,<2>1,<2>2,<2>4,<2>5, AuthorityIs, OnlyWork DEF invitationVars, bindingVars
<1> QED BY <1>8,<1>9

\* The last step of a revocation repairs the directions that selected the
\* integration; a group left without one gets a new successor.
CompleteKeeps(i, alone, edges) ==
  /\ default' = Repaired(edges) /\ succ' = Succeeded(alone, i)
  /\ integ' = [integ EXCEPT ![i].status = "revoked"] /\ jobs' = RemoveFirst(jobs, i)

LEMMA RevokedStep ==
  ASSUME IInv, UNCHANGED <<invitationVars, created, groupJobs, realm>>,
         NEW i \in Invitations, integ[i].status = "revoking", realm[RealmOfIntegration(i)].frozen,
         NEW edges, edges = {g \in Groups : default[g] = i}, NEW alone, alone = {g \in edges : ActiveFor(g) = {}},
         CompleteKeeps(i, alone, edges)
  PROVE  LinkTypes' /\ (Types' => Tables' /\ EveryLinkSelected' /\ Onward /\ Stores')
<1>1. UNCHANGED <<inv, late, discovery>> BY DEF invitationVars
<1>2. /\ integ \in [Invitations -> [status : {"none", "active", "revoking", "revoked"}, gen : 0..MaxVersion]]
      /\ jobs \in Seq(Invitations) /\ default \in [Groups -> Invitations \cup {None}]
      /\ succ \in [Groups -> [gen : Nat, status : {"none", "pending", "ready"}, src : Invitations \cup {None}]]
      /\ integ' = [integ EXCEPT ![i].status = "revoked"] BY DEF IInv, Types, LinkTypes, CompleteKeeps
<1>3. /\ integ'[i].status = "revoked"
      /\ \A j \in Invitations : integ'[j].gen = integ[j].gen /\ (j # i => integ'[j] = integ[j]) BY <1>2
<1>4. jobs' \in Seq(Invitations) /\ IsInjective(jobs') /\ Range(jobs') = Range(jobs) \ {i}
 BY <1>2, RemoveJob DEF CompleteKeeps, IInv, Tables, Queues
<1>5. ASSUME NEW g \in edges \ alone
      PROVE  /\ default'[g] = Oldest(ActiveFor(g)) /\ default'[g] \in Invitations /\ g \in Members(default'[g])
             /\ integ[default'[g]].status = "active"
 <2>1. g \in Groups /\ ActiveFor(g) # {} /\ ActiveFor(g) \subseteq Range(created) BY ActiveForAre DEF IInv
 <2>2. default'[g] = Oldest(ActiveFor(g)) BY <2>1 DEF CompleteKeeps, Repaired
 <2>3. default'[g] \in ActiveFor(g) BY <2>1,<2>2, OldestFor DEF IInv
 <2> QED BY <2>2,<2>3, ActiveForAre DEF IInv
<1>6. /\ \A g \in alone : default'[g] = None
      /\ \A g \in Groups \ edges : default'[g] = default[g] /\ default[g] # i BY DEF CompleteKeeps, Repaired
<1>7. ASSUME NEW g \in Groups
      PROVE  /\ g \in alone => /\ succ'[g].gen = succ[g].gen + 1 /\ succ'[g].status = "pending" /\ succ'[g].src = i
                               /\ succ'[g] \in [gen : Nat, status : {"none", "pending", "ready"}, src : Invitations \cup {None}]
             /\ g \notin alone => succ'[g] = succ[g]
 <2>1. PICK w \in Nat : w = succ[g].gen + 1 BY <1>2
 <2>2. g \in alone => succ'[g] = [gen |-> w, status |-> "pending", src |-> i] BY <2>1 DEF CompleteKeeps, Succeeded
 <2>3. g \notin alone => succ'[g] = succ[g] BY DEF CompleteKeeps, Succeeded
 <2> QED BY <2>1,<2>2,<2>3
<1>8. LinkTypes'
 <2>1. \A g \in Groups : default'[g] \in Invitations \cup {None} BY <1>2,<1>5,<1>6
 <2>2. default' = [g \in Groups |-> default'[g]] /\ succ' = [g \in Groups |-> succ'[g]]
  BY DEF CompleteKeeps, Repaired, Succeeded
 <2>3. default' \in [Groups -> Invitations \cup {None}] BY <2>1,<2>2
 <2>4. succ' \in [Groups -> [gen : Nat, status : {"none", "pending", "ready"}, src : Invitations \cup {None}]]
  BY <1>2,<1>7,<2>2
 <2>5. integ' \in [Invitations -> [status : {"none", "active", "revoking", "revoked"}, gen : 0..MaxVersion]]
  BY <1>2
 <2> QED BY <1>4,<2>3,<2>4,<2>5 DEF IInv, Types, LinkTypes
<1> SUFFICES ASSUME Types' PROVE Tables' /\ EveryLinkSelected' /\ Onward /\ Stores' BY <1>8
<1>9. Revoked' = Revoked \cup {i} /\ i \notin Revoked /\ \A j \in Invitations : RealmOfIntegration(j)' = RealmOfIntegration(j)
 BY <1>3 DEF Revoked, RealmOfIntegration
<1>10. Cardinality(Revoked)' = Cardinality(Revoked) + 1 /\ Cardinality(Revoked) \in Nat
 <2>1. IsFiniteSet(Revoked) /\ Cardinality(Revoked) \in Nat BY CountRevoked
 <2>2. Cardinality(Revoked \cup {i}) = Cardinality(Revoked) + 1 BY <1>9,<2>1, FS_AddElement
 <2> QED BY <1>9,<2>1,<2>2
<1>11. \A j \in Invitations : Members(j)' = Members(j) /\ (integ'[j].status = "active" <=> integ[j].status = "active")
 BY <1>1,<1>3 DEF Members
<1>12. Rows'
 <2> SUFFICES ASSUME NEW j \in Invitations
              PROVE /\ RowOf(inv[j])
                    /\ integ'[j].status # "none" <=> j \in Range(created)
                    /\ integ'[j].status # "none" => inv[j].status \in {"active", "pruned"} /\ Named(j) /\ integ'[j].gen >= 1
                    /\ integ'[j].status = "revoking" <=> j \in Range(jobs') BY <1>1 DEF Rows, Named
 <2>1. /\ RowOf(inv[j])
       /\ integ[j].status # "none" <=> j \in Range(created)
       /\ integ[j].status # "none" => inv[j].status \in {"active", "pruned"} /\ Named(j) /\ integ[j].gen >= 1
       /\ integ[j].status = "revoking" <=> j \in Range(jobs) BY DEF IInv, Tables, Rows
 <2>2. CASE j = i BY <1>3,<1>4,<2>1,<2>2
 <2>3. CASE j # i BY <1>3,<1>4,<2>1,<2>3
 <2> QED BY <2>2,<2>3
<1>13. Queues' BY <1>4 DEF IInv, Tables, Queues
<1>14. Pairs' BY <1>11 DEF IInv, Tables, Pairs
<1>15. Successors'
 <2> SUFFICES ASSUME NEW g \in Groups
              PROVE  /\ succ'[g].gen \in 1..(1 + Cardinality(Revoked)')
                     /\ succ'[g].status = "none" <=> succ'[g].gen = 1
                     /\ succ'[g].status = "pending" => succ'[g].src \in Revoked' BY DEF Successors
 <2>1. /\ succ[g].gen \in 1..(1 + Cardinality(Revoked))
       /\ succ[g].status = "none" <=> succ[g].gen = 1
       /\ succ[g].status = "pending" => succ[g].src \in Revoked BY DEF IInv, Tables, Successors
 <2>2. CASE g \in alone
  <3>1. succ'[g].gen = succ[g].gen + 1 /\ succ'[g].status = "pending" /\ succ'[g].src = i BY <1>7,<2>2
  <3> QED BY <1>9,<1>10,<2>1,<3>1
 <2>3. CASE g \notin alone
  <3>1. succ'[g] = succ[g] BY <1>7,<2>3
  <3> QED BY <1>9,<1>10,<2>1,<3>1
 <2> QED BY <2>2,<2>3
<1>16. Onward
 <2>1. \A g \in Groups : succ[g].gen \in Nat /\ succ'[g].gen \in Nat /\ succ[g].gen <= succ'[g].gen
                         /\ (succ'[g].gen = succ[g].gen => succ'[g] = succ[g])
  <3> SUFFICES ASSUME NEW g \in Groups
               PROVE  succ[g].gen \in Nat /\ succ'[g].gen \in Nat /\ succ[g].gen <= succ'[g].gen
                      /\ (succ'[g].gen = succ[g].gen => succ'[g] = succ[g]) OBVIOUS
  <3>1. succ[g].gen \in Nat BY RealmsOfTables
  <3> QED BY <1>7,<3>1
 <2>2. ASSUME NEW g \in Groups PROVE Published(g) \subseteq Published(g)'
  <3>1. {m \in 1..succ[g].gen : m < succ[g].gen \/ succ[g].status # "pending"}
          \subseteq {m \in 1..succ'[g].gen : m < succ'[g].gen \/ succ'[g].status # "pending"} BY <1>7,<2>1
  <3>2. \A j \in Range(created) : Members(j)' = Members(j) /\ RealmOfIntegration(j)' = RealmOfIntegration(j)
   BY <1>9,<1>11, RowsAre DEF IInv
  <3> QED BY <3>1,<3>2 DEF Published
 <2>3. \A j \in Revoked : j \in Revoked' /\ integ'[j].gen = integ[j].gen BY <1>3,<1>9 DEF Revoked
 <2> QED BY <1>1,<2>1,<2>2,<2>3 DEF Onward
<1>17. \A g \in Groups : ActiveFor(g)' = ActiveFor(g) BY <1>11, RowsAre DEF IInv, ActiveFor
<1>18. ASSUME NEW g \in Groups
       PROVE  /\ default[g] # None => /\ g \in Members(default[g]) /\ default[g] \in Invitations
                                      /\ integ[default[g]].status \in {"active", "revoking"}
                                      /\ succ[g].status # "pending"
              /\ ActiveFor(g) # {} => default[g] # None BY <1>2 DEF IInv, LinksAgree, EveryLinkSelected
<1>19. i # None BY ConstantsAssumption
<1>20. EveryLinkSelected'
 <2> SUFFICES ASSUME NEW g \in Groups
              PROVE  /\ default'[g] # None => /\ g \in {inv[default'[g]].guild, inv[default'[g]].channel}
                                              /\ integ'[default'[g]].status \in {"active", "revoking"}
                                              /\ succ'[g].status # "pending"
                     /\ ActiveFor(g) # {} => default'[g] # None BY <1>1,<1>17 DEF EveryLinkSelected, Members
 <2>1. CASE g \in alone BY <1>6,<2>1
 <2>2. CASE g \in edges \ alone
  <3>1. /\ default'[g] \in Invitations /\ g \in Members(default'[g]) /\ integ[default'[g]].status = "active"
        /\ succ'[g] = succ[g] /\ default[g] = i BY <1>5,<1>7,<2>2
  <3>2. integ'[default'[g]] = integ[default'[g]] BY <1>3,<3>1
  <3>3. default'[g] # None BY <3>1, ConstantsAssumption
  <3> QED BY <1>18,<1>19,<3>1,<3>2,<3>3 DEF Members
 <2>3. CASE g \in Groups \ edges
  <3>1. default'[g] = default[g] /\ default[g] # i /\ succ'[g] = succ[g] BY <1>6,<1>7,<2>3
  <3>2. default[g] # None => integ'[default[g]] = integ[default[g]] BY <1>3,<1>18,<3>1
  <3> QED BY <1>18,<3>1,<3>2 DEF Members
 <2> QED BY <2>1,<2>2,<2>3
<1>21. Stores'
 <2>1. Archived' BY <1>9 DEF IInv, Stores, Archived, Revoked
 <2>2. Supplied'
  <3> SUFFICES ASSUME NEW g \in Groups, NEW n \in 2..succ'[g].gen, n < succ'[g].gen \/ succ'[g].status # "pending"
               PROVE  realm[Standalone(g, n)].ver # 0 BY DEF Supplied
  <3>1. CASE g \in alone
   <4>1. succ'[g].gen = succ[g].gen + 1 /\ succ'[g].status = "pending" /\ succ[g].status # "pending" /\ succ[g].gen \in Nat
    BY <1>7,<1>18,<1>19,<3>1, RealmsOfTables
   <4>2. n \in 2..succ[g].gen BY <4>1
   <4> QED BY <4>1,<4>2 DEF IInv, Stores, Supplied
  <3>2. CASE g \notin alone BY <1>7,<3>2 DEF IInv, Stores, Supplied
  <3> QED BY <3>1,<3>2
 <2> QED BY <2>1,<2>2 DEF Stores
<1> QED BY <1>12,<1>13,<1>14,<1>15,<1>16,<1>20,<1>21 DEF Tables

LEMMA CompleteRevocationKeeps ==
  ASSUME IInv, CompleteRevocation
  PROVE  IInv'
<1>1. PICK q \in Work : q = proc[Authority] /\ DutyOf(q) /\ SealOf(q) /\ q.pc = "repair"
 BY AuthorityIs DEF CompleteRevocation
<1> DEFINE i == q.inv
           edges == {g \in Groups : default[g] = i}
           alone == {g \in edges : ActiveFor(g) = {}}
<1>2. i \in Invitations /\ integ[i].status = "revoking" /\ realm[RealmOfIntegration(i)].frozen BY <1>1 DEF DutyOf
<1>3. q.kind # "activate" /\ q.seals = {} /\ i # None BY <1>1,<1>2, ConstantsAssumption DEF DutyOf
<1>4. UNCHANGED <<inv, discovery, invitationVars, created, groupJobs, realm, spent>>
 BY DEF CompleteRevocation, invitationVars
<1>5. CASE UNCHANGED <<integ, default, succ, jobs, bindingVars>> /\ Abort(Authority)
 <2>1. InvitationsStep BY <1>4, InvitationsStay
 <2>2. UNCHANGED linkVars BY <1>4,<1>5 DEF linkVars
 <2>3. Types' BY <1>4,<1>5,<2>2, TypesStay, AlarmMoves, AuthorityIs DEF Types
 <2> QED BY <1>4,<1>5,<2>1,<2>2,<2>3, AlarmMoves, AuthorityIs, OnlyWork DEF bindingVars
<1>6. ASSUME NEW change, change = [g \in edges |-> IF g \in alone THEN Moving
                                                   ELSE Ready(RealmOfIntegration(Repaired(edges)[g]))],
             Announce(change), CompleteKeeps(i, alone, edges), Rearm \/ UNCHANGED alarm,
             Goto(Authority, IF q.group # None THEN [q EXCEPT !.pc = "batch", !.done = @ + 1]
                             ELSE IF q.kind = "alarm" THEN At(Authority, "drain") ELSE Idle)
      PROVE  IInv'
 <2>1. LinkTypes' /\ (Types' => Tables' /\ EveryLinkSelected' /\ Onward /\ Stores') BY <1>2,<1>4,<1>6, RevokedStep
 <2>2. DOMAIN change = edges /\ edges \subseteq Groups BY <1>6
 <2>3. ASSUME NEW g \in edges \ alone
       PROVE  /\ g \in Groups /\ default'[g] = Repaired(edges)[g] /\ default'[g] \in Invitations /\ default'[g] # None
              /\ integ[default'[g]].status = "active"
  <3>1. g \in Groups /\ ActiveFor(g) # {} /\ ActiveFor(g) \subseteq Range(created) BY ActiveForAre DEF IInv
  <3>2. default'[g] = Oldest(ActiveFor(g)) /\ default'[g] = Repaired(edges)[g]
   BY <1>6,<3>1 DEF CompleteKeeps, Repaired
  <3>3. default'[g] \in ActiveFor(g) BY <3>1,<3>2, OldestFor DEF IInv
  <3> QED BY <3>1,<3>2,<3>3, ActiveForAre, ConstantsAssumption DEF IInv
 <2>4. ASSUME NEW g \in edges
       PROVE  /\ g \in alone => change[g] = Moving
              /\ g \notin alone => change[g] = Ready(RealmOfIntegration(default'[g])) /\ RealmOfIntegration(default'[g]) \in RealmNames
  <3>1. CASE g \in alone BY <1>6,<3>1
  <3>2. CASE g \notin alone BY <1>6,<2>3,<3>2, RealmsKnown, RealmsAre DEF IInv
  <3> QED BY <3>1,<3>2
 <2>5. BindingTypes' /\ \A g \in Groups : Announces(g, change) BY <1>6,<2>2,<2>4, AnnounceFine DEF Moving, Ready
 <2>6. PICK n \in Work : proc' = [proc EXCEPT ![Authority] = n] /\ RecordOf(Authority, n)'
  <3>1. CASE q.group # None
   <4>1. PICK d \in Nat : d = q.done + 1 BY DEF Work
   <4>2. PICK n \in Work : n = [q EXCEPT !.pc = "batch", !.done = d] BY DEF Work, Points
   <4>3. n.pc = "batch" /\ n.kind = q.kind /\ n.seals = q.seals /\ n.group = q.group /\ q.group \in Groups
    BY <3>1,<4>2 DEF Work
   <4> QED BY <1>3,<1>6,<3>1,<4>1,<4>2,<4>3, PlainFine DEF Goto
  <3>2. CASE q.group = None /\ q.kind = "alarm"
   <4>1. PICK n \in Work : n = [q EXCEPT !.pc = "drain"] BY DEF Work, Points
   <4>2. n.pc = "drain" /\ n.kind = q.kind /\ n.seals = q.seals BY <4>1 DEF Work
   <4> QED BY <1>1,<1>3,<1>6,<3>2,<4>1,<4>2, PlainFine DEF Goto, At
  <3>3. CASE q.group = None /\ q.kind # "alarm" BY <1>6,<3>3, IdleFine, AuthorityIs DEF Goto
  <3> QED BY <3>1,<3>2,<3>3
 <2>7. Types' BY <1>4,<1>6,<2>1,<2>5,<2>6, TypesStay, WorkStays, AuthorityIs DEF Types
 <2>8. BindingTellsTruth'
  <3> SUFFICES ASSUME NEW g \in Groups
               PROVE  [status |-> binding'[g].status, source |-> binding'[g].source] = CurrentBinding(g)'
   BY DEF BindingTellsTruth
  <3>1. \A j \in Invitations : integ'[j].gen = integ[j].gen /\ (j # i => integ'[j] = integ[j])
   BY <1>6 DEF CompleteKeeps, IInv, Types, LinkTypes
  <3>2. CASE g \in alone
   <4>1. default'[g] = None BY <1>6,<3>2 DEF CompleteKeeps, Repaired
   <4>2. succ'[g] = [gen |-> succ[g].gen + 1, status |-> "pending", src |-> i]
    BY <1>6,<3>2 DEF CompleteKeeps, Succeeded
   <4>3. CurrentBinding(g)' = Moving BY <4>1,<4>2 DEF CurrentBinding, Moving
   <4> QED BY <2>2,<2>4,<2>5,<3>2,<4>3 DEF Announces, Moving
  <3>3. CASE g \in edges \ alone
   <4>1. PICK j \in Invitations : j = default'[g] /\ j # None /\ integ[j].status = "active" BY <2>3,<3>3
   <4>2. integ'[j] = integ[j] BY <1>2,<3>1,<4>1
   <4>3. CurrentBinding(g)' = Ready(RealmOfIntegration(j))
    BY <4>1,<4>2 DEF CurrentBinding, Transitioning, CandidateRealm, HasActiveDefault, RealmOfIntegration, Ready
   <4> QED BY <2>2,<2>4,<2>5,<3>3,<4>1,<4>3 DEF Announces, Ready
  <3>4. CASE g \notin edges
   <4>1. default'[g] = default[g] /\ default[g] # i /\ default[g] \in Invitations \cup {None}
    BY <1>6,<3>4 DEF CompleteKeeps, Repaired, IInv, Types, LinkTypes
   <4>2. succ'[g] = succ[g] BY <1>6,<3>4 DEF CompleteKeeps, Succeeded
   <4>3. default[g] # None => integ'[default[g]] = integ[default[g]] BY <3>1,<4>1
   <4>4. CurrentBinding(g)' = CurrentBinding(g)
    BY <4>1,<4>2,<4>3 DEF CurrentBinding, Transitioning, CandidateRealm, HasActiveDefault, RealmOfIntegration
   <4>5. binding'[g].status = binding[g].status /\ binding'[g].source = binding[g].source
    BY <2>2,<2>5,<3>4 DEF Announces
   <4> QED BY <4>4,<4>5 DEF IInv, LinksAgree, BindingTellsTruth
  <3> QED BY <3>2,<3>3,<3>4
 <2>9. Kept BY <1>4, KeptIfSame
 <2>10. Discoveries' BY <1>4,<2>1,<2>7, DiscoveriesStay DEF Discoveries
 <2> QED BY <2>1,<2>6,<2>7,<2>8,<2>9,<2>10, AuthorityIs, OneMoves DEF LinksAgree
<1>7. \/ UNCHANGED <<integ, default, succ, jobs, bindingVars>> /\ Abort(Authority)
      \/ \E change :
           /\ change = [g \in edges |-> IF g \in alone THEN Moving ELSE Ready(RealmOfIntegration(Repaired(edges)[g]))]
           /\ Announce(change) /\ CompleteKeeps(i, alone, edges) /\ (Rearm \/ UNCHANGED alarm)
           /\ Goto(Authority, IF q.group # None THEN [q EXCEPT !.pc = "batch", !.done = @ + 1]
                              ELSE IF q.kind = "alarm" THEN At(Authority, "drain") ELSE Idle)
 BY <1>1 DEF CompleteRevocation, CompleteKeeps
<1> QED BY <1>5,<1>6,<1>7

-----------------------------------------------------------------------------
(* The invariant                                                            *)

LEMMA InitFine == Init => IInv
<1> SUFFICES ASSUME Init PROVE IInv OBVIOUS
<1>1. MaxVersion \in Nat /\ None \notin Invitations \cup Groups /\ Contents \in [Groups -> Nat]
 BY ConstantsAssumption
<1>2. /\ created = <<>> /\ jobs = <<>> /\ groupJobs = <<>>
      /\ created \in Seq(Invitations) /\ jobs \in Seq(Invitations) /\ groupJobs \in Seq(Groups) BY DEF Init
<1>3. Range(created) = {} /\ Range(jobs) = {} BY <1>2 DEF Range
<1>4. InvitationTypes
 <2>1. PICK row \in Invites : row = [status |-> "none", guild |-> None, channel |-> None] BY DEF Invites, Statuses
 <2>2. PICK d \in Discovered : d = NoDiscovery
  <3>1. <<>> \in Finds /\ <<>> \in Sights /\ 0 \in 0..MaxVersion BY <1>1, NothingFound
  <3> QED BY <3>1 DEF NoDiscovery, Discovered
 <2> QED BY <2>1,<2>2 DEF Init, InvitationTypes
<1>5. LinkTypes BY <1>1,<1>2 DEF Init, LinkTypes
<1>6. BindingTypes
 <2>1. \A g \in Groups : Standalone(g, 1) \in RealmNames BY DEF Standalone, RealmNames
 <2> QED BY <2>1 DEF Init, BindingTypes
<1>7. RealmTypes
 <2>1. ASSUME NEW r \in Realms PROVE realm[r] \in Content
  <3>1. CASE r[1] = "standalone" /\ r[3] = 1
   <4>1. r[2] \in Groups BY <3>1 DEF Realms
   <4>2. PICK c \in Nat : c = Contents[r[2]] BY <1>1,<4>1
   <4>3. realm[r] = [Fresh EXCEPT !.val = c] BY <3>1,<4>2 DEF Init
   <4>4. PICK d \in Content : d = [val |-> 0, ver |-> 0, frozen |-> FALSE, seal |-> None, expired |-> FALSE]
    BY DEF Content
   <4>5. [d EXCEPT !.val = c] \in Content BY DEF Content
   <4> QED BY <4>3,<4>4,<4>5 DEF Fresh
  <3>2. CASE ~(r[1] = "standalone" /\ r[3] = 1) BY <3>2 DEF Init, Fresh, Content
  <3> QED BY <3>1,<3>2
 <2>2. realm = [r \in Realms |-> realm[r]] BY DEF Init
 <2>3. realm \in [Realms -> Content] BY <2>1,<2>2
 <2> QED BY <2>3 DEF Init, RealmTypes
<1>8. WorkTypes BY IdleFine DEF Init, WorkTypes
<1>9. Types BY <1>4,<1>5,<1>6,<1>7,<1>8 DEF Types
<1>10. Rows BY <1>3 DEF Init, Rows, RowOf
<1>11. Queues /\ Pairs BY <1>2 DEF Init, Queues, Pairs, IsInjective
<1>12. Successors BY CountRevoked DEF Init, Successors
<1>13. EveryLinkSelected BY <1>3 DEF Init, EveryLinkSelected, ActiveFor
<1>14. BindingTellsTruth
 BY DEF Init, BindingTellsTruth, CurrentBinding, Transitioning, CandidateRealm, HasActiveDefault
<1>15. Discoveries BY DEF Init, Discoveries, DiscoveryOf, NoDiscovery
<1>16. Stores BY DEF Init, Stores, Archived, Supplied, Revoked
<1>17. Records BY IdleFine DEF Init, Records
<1> QED BY <1>9,<1>10,<1>11,<1>12,<1>13,<1>14,<1>15,<1>16,<1>17 DEF IInv, Tables, LinksAgree

\* One step of a process.
LEMMA StepKeeps ==
  ASSUME IInv, NEW p \in Processes, Step(p)
  PROVE  IInv'
<1>1. CASE ResolveCandidate(p) BY <1>1, ResolveCandidateKeeps
<1>2. CASE CloneSuccessor(p) BY <1>2, CloneSuccessorKeeps
<1>3. CASE MarkSuccessorReady(p) BY <1>3, MarkSuccessorReadyKeeps
<1>4. CASE Inventory(p) BY <1>4, InventoryKeeps
<1>5. CASE PersistDiscovery(p) BY <1>5, PersistDiscoveryKeeps
<1>6. CASE AuthorityStep
 BY <1>6, PlanFinalizationKeeps, AcquireSealKeeps, MaterializeFinalizationKeeps, CommitActivationKeeps,
    ReleaseSealsKeeps, BatchNextKeeps, BatchEndsKeeps, FreezeIntegrationKeeps, CompleteRevocationKeeps,
    ClaimNotificationsKeeps, DeliverNotificationsKeeps DEF AuthorityStep
<1> QED BY <1>1,<1>2,<1>3,<1>4,<1>5,<1>6 DEF Step, DiscoveryStep

LEMMA RequestKeeps ==
  ASSUME IInv, LinkRequest \/ \E i \in Invitations : InvitationRequest(i)
  PROVE  IInv'
<1>1. CASE LinkRequest
 BY <1>1, SetDefaultLinkKeeps, ResolveShareableStateKeeps, RevokeForGroupKeeps, RevokeIntegrationKeeps, WatchKeeps
    DEF LinkRequest
<1>2. ASSUME NEW i \in Invitations, InvitationRequest(i) PROVE IInv'
 BY <1>2, CreateInvitationKeeps, ReserveInvitationKeeps, VerifyInvitationKeeps, ResumeInvitationKeeps,
    CancelInvitationKeeps, ActivateInvitationKeeps, ResolveInvitationStateKeeps DEF InvitationRequest
<1> QED BY <1>1,<1>2

LEMMA OutsideKeeps ==
  ASSUME IInv, Outside
  PROVE  IInv'
BY AlarmFiresKeeps, EvictedKeeps, DeadlinePassesKeeps, RealmCallFailsKeeps, WriteKeeps, SealLapsesKeeps DEF
  Outside

LEMMA NothingMoves ==
  ASSUME IInv, UNCHANGED vars
  PROVE  IInv'
<1>1. UNCHANGED <<invitationVars, inv, linkVars, bindingVars, binding, realm, spent, discovery, proc, alarm>>
 BY DEF vars, invitationVars, linkVars, bindingVars
<1>2. Types' BY <1>1, TypesStay, WorkStays DEF Types
<1> QED BY <1>1,<1>2, InvitationsStay, OpenStep

LEMMA NextKeeps == IInv /\ [Next]_vars => IInv'
BY StepKeeps, RequestKeeps, OutsideKeeps, NothingMoves DEF Next

LEMMA AlwaysIInv == Spec => []IInv
BY InitFine, NextKeeps, PTL DEF Spec

-----------------------------------------------------------------------------
(* Theorems                                                                 *)

LEMMA TypesHold == IInv => TypeOK
<1> SUFFICES ASSUME IInv PROVE TypeOK OBVIOUS
<1>1. ASSUME NEW i \in Invitations, integ[i].status = "active" PROVE Existing(i) = i
 <2>1. Existing(i) # None BY <1>1, NoneExisting DEF IInv
 <2>2. Existing(i) \in Invitations /\ integ[Existing(i)].status = "active" /\ Members(Existing(i)) = Members(i)
  BY <2>1, ExistingIs DEF IInv
 <2> QED BY <1>1,<2>2 DEF IInv, Tables, Pairs
<1>2. ASSUME NEW i \in Invitations
      PROVE  /\ inv[i].status \in Statuses
             /\ inv[i].guild \in Guilds \cup {None} /\ inv[i].channel \in Channels \cup {None}
             /\ discovery[i].version \in 0..MaxVersion
             /\ integ[i].status \in {"none", "active", "revoking", "revoked"}
             /\ integ[i].status = "revoking" <=> i \in Range(jobs)
 <2>1. inv[i] \in Invites /\ discovery[i] \in Discovered BY DEF IInv, Types, InvitationTypes
 <2>2. /\ integ[i].status \in {"none", "active", "revoking", "revoked"}
       /\ integ[i].status = "revoking" <=> i \in Range(jobs) BY DEF IInv, Types, LinkTypes, Tables, Rows
 <2> QED BY <2>1,<2>2 DEF Invites, Discovered
<1>3. ASSUME NEW g \in Groups
      PROVE  /\ default[g] \in Invitations \cup {None}
             /\ succ[g].status \in {"none", "pending", "ready"}
             /\ outbox[g] \in 0..binding[g].rev
 <2>1. default[g] \in Invitations \cup {None} /\ succ[g].status \in {"none", "pending", "ready"}
  BY DEF IInv, Types, LinkTypes
 <2>2. outbox[g] \in Nat /\ binding[g].rev \in Nat /\ outbox[g] <= binding[g].rev BY DEF IInv, Types, BindingTypes
 <2> QED BY <2>1,<2>2
<1>4. \A r \in Realms : realm[r].val \in Nat /\ realm[r].ver \in Nat BY RealmsOfTables DEF Content
<1>5. alarm \in {"none", "later", "due"} /\ IsInjective(created) /\ IsInjective(jobs) /\ IsInjective(groupJobs)
 BY DEF IInv, Types, WorkTypes, Tables, Queues
<1> QED BY <1>1,<1>2,<1>3,<1>4,<1>5 DEF TypeOK

\* The tables of the registry keep their types and agree on what there is: one
\* active integration for a pair of groups, a revocation job for exactly the
\* integrations that are being revoked.
THEOREM TypeCorrect == Spec => []TypeOK
BY AlwaysIInv, TypesHold, PTL

\* Every direction selects an integration of its group while there is an active
\* one, never one that was revoked, and its recorded binding is what it selects.
THEOREM LinksAlwaysAgree == Spec => []LinksAgree
<1>1. IInv => LinksAgree BY DEF IInv
<1> QED BY <1>1, AlwaysIInv, PTL

-----------------------------------------------------------------------------
(* What a step carries over                                                 *)

Carries ==
  \A i \in Invitations :
     integ[i].status = "none" /\ integ'[i].status = "active" =>
       LET d == discovery[i]
           made == realm[Integrated(i, integ'[i].gen)].val
       IN IF d.choice = "reset" THEN made = 0
          ELSE LET source == realm[d.found[d.choice]]
               IN made = d.seen[d.choice].val /\ (made = source.val \/ source.expired)

Continues ==
  \A g \in Groups :
     succ[g].status = "pending" /\ succ'[g].status = "ready" =>
       LET archive == realm[RealmOfIntegration(succ[g].src)] IN
       archive.frozen /\ realm[Standalone(g, succ[g].gen)].val = archive.val

Finishes == \A g \in Range(groupJobs) : g \notin Range(groupJobs') => LiveFor(g) = {}

\* The steps that leave the links alone.
LEMMA LinksAlone ==
  ASSUME UNCHANGED linkVars
  PROVE  UNCHANGED <<integ, succ, groupJobs>>
BY DEF linkVars

LEMMA OthersAlone ==
  ASSUME Next
  PROVE  \/ UNCHANGED <<integ, succ, groupJobs>>
         \/ \E p \in Processes : MarkSuccessorReady(p)
         \/ CommitActivation \/ BatchNext \/ BatchEnds \/ CompleteRevocation
         \/ \E i \in Invitations : RevokeIntegration(i)
         \/ \E g \in Groups : RevokeForGroup(g)
<1> DEFINE Alone == UNCHANGED <<integ, succ, groupJobs>>
<1>1. ASSUME NEW p \in Processes, DiscoveryStep(p) PROVE Alone \/ MarkSuccessorReady(p)
 BY <1>1, LinksAlone DEF DiscoveryStep, ResolveCandidate, CloneSuccessor, Inventory, PersistDiscovery
<1>2. ASSUME AuthorityStep PROVE Alone \/ CommitActivation \/ BatchNext \/ BatchEnds \/ CompleteRevocation
 BY <1>2, LinksAlone DEF AuthorityStep, PlanFinalization, AcquireSeal, MaterializeFinalization, ReleaseSeals,
    FreezeIntegration, ClaimNotifications, DeliverNotifications
<1>3. ASSUME LinkRequest
      PROVE  Alone \/ (\E i \in Invitations : RevokeIntegration(i)) \/ \E g \in Groups : RevokeForGroup(g)
 <2>1. \A g \in Groups, i \in Range(created) : SetDefaultLink(g, i) => Alone BY DEF SetDefaultLink
 <2>2. \A g \in Groups : ResolveShareableState(g) => Alone BY LinksAlone DEF ResolveShareableState
 <2>3. \A g \in Watched : WatchBinding(g) \/ UnwatchBinding(g) => Alone
  BY LinksAlone DEF WatchBinding, UnwatchBinding
 <2> QED BY <1>3,<2>1,<2>2,<2>3 DEF LinkRequest
<1>4. ASSUME Outside PROVE Alone
 BY <1>4, LinksAlone DEF Outside, AlarmFires, Evicted, DeadlinePasses, RealmCallFails, Write, SealLapses
<1>5. ASSUME NEW i \in Invitations, InvitationRequest(i) PROVE Alone
 BY <1>5, LinksAlone DEF InvitationRequest, CreateInvitation, ReserveInvitation, VerifyInvitation,
    ResumeInvitation, CancelInvitation, ActivateInvitation, ResolveInvitationState
<1> QED BY <1>1,<1>2,<1>3,<1>4,<1>5 DEF Next, Step

\* Only a commit makes an integration, of what its seals kept.
LEMMA CommitCarries ==
  ASSUME IInv, CommitActivation
  PROVE  Carries
<1>1. PICK q \in Work : q = proc[Authority] /\ DutyOf(q) /\ SealOf(q) /\ q.pc = "commit"
 BY AuthorityIs DEF CommitActivation
<1> DEFINE i == q.inv
           v == q.version
<1>2. i \in Invitations BY <1>1 DEF DutyOf, Finalization
<1>3. integ \in [Invitations -> [status : {"none", "active", "revoking", "revoked"}, gen : 0..MaxVersion]]
 BY DEF IInv, Types, LinkTypes
<1>4. v \in Nat
 <2>1. MaxVersion \in Nat BY ConstantsAssumption
 <2> QED BY <2>1 DEF Work
<1>5. CASE UNCHANGED integ BY <1>5 DEF Carries
<1>6. CASE Existing(i) # None /\ integ' = [integ EXCEPT ![Existing(i)] = [status |-> "active", gen |-> integ[Existing(i)].gen]]
 <2>1. Existing(i) \in Invitations /\ integ[Existing(i)].status = "active" BY <1>2,<1>6, ExistingIs DEF IInv
 <2>2. integ' = integ BY <1>3,<1>6,<2>1
 <2> QED BY <2>2 DEF Carries
<1>7. CASE Existing(i) = None /\ integ' = [integ EXCEPT ![i] = [status |-> "active", gen |-> v]]
 <2>1. v > 0 BY <1>1,<1>4,<1>7 DEF DutyOf
 <2>2. /\ realm[Integrated(i, v)].val = Shown(i) /\ discovery[i].choice \in Selections
       /\ \A s \in Sides : Holds(discovery[i].found[s], discovery[i].seen[s])
  BY <1>1,<2>1, SealedKnown DEF SealOf, Sealing, IInv
 <2>3. integ'[i].gen = v /\ \A j \in Invitations : j # i => integ'[j] = integ[j] BY <1>2,<1>3,<1>7
 <2>4. LET d == discovery[i]
           made == realm[Integrated(i, v)].val
       IN IF d.choice = "reset" THEN made = 0
          ELSE LET source == realm[d.found[d.choice]]
               IN made = d.seen[d.choice].val /\ (made = source.val \/ source.expired)
  BY <2>2 DEF Shown, Holds, Selections
 <2> QED BY <2>3,<2>4 DEF Carries
<1>8. \/ UNCHANGED integ
      \/ Existing(i) # None /\ integ' = [integ EXCEPT ![Existing(i)] = [status |-> "active", gen |-> integ[Existing(i)].gen]]
      \/ Existing(i) = None /\ integ' = [integ EXCEPT ![i] = [status |-> "active", gen |-> v]]
 BY <1>1 DEF CommitActivation, linkVars
<1> QED BY <1>5,<1>6,<1>7,<1>8

LEMMA BeginCarries ==
  ASSUME IInv, NEW i \in Invitations, Begin(i)
  PROVE  Carries
<1>1. \A j \in Invitations : integ'[j].status \in {integ[j].status, "revoking"}
 BY DEF Begin, IInv, Types, LinkTypes
<1> QED BY <1>1 DEF Carries

LEMMA AlwaysCarries ==
  ASSUME IInv, Next
  PROVE  Carries
<1>1. CASE UNCHANGED <<integ, succ, groupJobs>> BY <1>1 DEF Carries
<1>2. CASE CommitActivation BY <1>2, CommitCarries
<1>3. CASE BatchNext
 <2>1. CASE UNCHANGED integ BY <2>1 DEF Carries
 <2>2. CASE Begin(Oldest(LiveFor(proc[Authority].group)))
  <3>1. LiveFor(proc[Authority].group) # {} /\ LiveFor(proc[Authority].group) \subseteq Range(created)
   BY <1>3, ActiveForAre DEF BatchNext, IInv
  <3>2. Oldest(LiveFor(proc[Authority].group)) \in Invitations BY <3>1, OldestFor, RowsAre DEF IInv
  <3> QED BY <2>2,<3>2, BeginCarries
 <2> QED BY <1>3,<2>1,<2>2 DEF BatchNext
<1>4. CASE CompleteRevocation
 <2>1. UNCHANGED integ \/ integ' = [integ EXCEPT ![proc[Authority].inv].status = "revoked"]
  BY <1>4 DEF CompleteRevocation
 <2>2. \A j \in Invitations : integ'[j].status \in {integ[j].status, "revoked"} BY <2>1 DEF IInv, Types, LinkTypes
 <2> QED BY <2>2 DEF Carries
<1>5. ASSUME NEW i \in Invitations, RevokeIntegration(i) PROVE Carries BY <1>5, BeginCarries DEF RevokeIntegration
<1>6. CASE (\E p \in Processes : MarkSuccessorReady(p)) \/ BatchEnds \/ \E g \in Groups : RevokeForGroup(g)
 BY <1>6 DEF MarkSuccessorReady, BatchEnds, RevokeForGroup, Carries
<1> QED BY <1>1,<1>2,<1>3,<1>4,<1>5,<1>6, OthersAlone

\* Only a finished copy makes a successor usable.
LEMMA ReadyContinues ==
  ASSUME IInv, NEW p \in Processes, MarkSuccessorReady(p)
  PROVE  Continues
<1>1. PICK q \in Work : q = proc[p] /\ q.pc = "ready" /\ RecordOf(p, q)
 BY DEF MarkSuccessorReady, IInv, Types, WorkTypes, Records
<1> DEFINE t == q.target
           g == t[1]
<1>2. CASE UNCHANGED succ BY <1>2 DEF Continues
<1>3. CASE succ[g].gen = t[2] /\ succ[g].src = t[3] /\ succ' = [succ EXCEPT ![g].status = "ready"]
 <2>1. /\ t # <<>> /\ t[3] \in Revoked
       /\ succ[g].status = "pending" => realm[Standalone(g, t[2])].val = realm[RealmOfIntegration(t[3])].val
  BY <1>1,<1>3 DEF RecordOf, CopyOf
 <2>2. realm[RealmOfIntegration(t[3])].frozen BY <2>1 DEF IInv, Stores, Archived
 <2>3. \A h \in Groups : h # g => succ'[h] = succ[h] BY <1>3 DEF IInv, Types, LinkTypes
 <2> QED BY <1>3,<2>1,<2>2,<2>3 DEF Continues
<1> QED BY <1>1,<1>2,<1>3 DEF MarkSuccessorReady

LEMMA AlwaysContinues ==
  ASSUME IInv, Next
  PROVE  Continues
<1>1. CASE UNCHANGED succ BY <1>1 DEF Continues
<1>2. ASSUME NEW p \in Processes, MarkSuccessorReady(p) PROVE Continues BY <1>2, ReadyContinues
<1>3. CASE CompleteRevocation
 <2>1. ASSUME UNCHANGED succ PROVE Continues BY <2>1 DEF Continues
 <2>2. ASSUME NEW alone, NEW i, succ' = Succeeded(alone, i) PROVE Continues
  <3>1. \A g \in Groups : succ'[g] = succ[g] \/ succ'[g].status = "pending" BY <2>2 DEF Succeeded
  <3> QED BY <3>1 DEF Continues
 <2> QED BY <1>3,<2>1,<2>2 DEF CompleteRevocation
<1>4. CASE CommitActivation \/ BatchNext \/ BatchEnds \/ (\E i \in Invitations : RevokeIntegration(i))
           \/ \E g \in Groups : RevokeForGroup(g)
 BY <1>1,<1>4 DEF CommitActivation, BatchNext, BatchEnds, RevokeIntegration, RevokeForGroup, linkVars
<1> QED BY <1>1,<1>2,<1>3,<1>4, OthersAlone

\* A group's job leaves the queue with the last integration of the group.
LEMMA BatchFinishes ==
  ASSUME IInv, BatchEnds
  PROVE  Finishes
<1> DEFINE g == proc[Authority].group
           others == RemoveFirst(groupJobs, g)
<1>1. g \in Groups BY AuthorityIs DEF DutyOf, BatchEnds
<1>2. others \in Seq(Groups) /\ IsInjective(others) /\ Range(others) = Range(groupJobs) \ {g}
 BY RemoveJob DEF IInv, Types, LinkTypes, Tables, Queues
<1>3. CASE LiveFor(g) = {}
 <2>1. groupJobs' = others BY <1>3 DEF BatchEnds, Batched
 <2> QED BY <1>2,<1>3,<2>1 DEF Finishes
<1>4. CASE LiveFor(g) # {}
 <2>1. groupJobs' = Append(others, g) BY <1>4 DEF BatchEnds, Batched
 <2>2. Range(groupJobs') = Range(others) \cup {g} BY <1>1,<1>2,<2>1, AppendRow
 <2> QED BY <1>2,<2>2 DEF Finishes
<1> QED BY <1>3,<1>4

LEMMA AlwaysFinishes ==
  ASSUME IInv, Next
  PROVE  Finishes
<1>1. CASE UNCHANGED groupJobs BY <1>1 DEF Finishes
<1>2. CASE BatchEnds BY <1>2, BatchFinishes
<1>3. ASSUME NEW g \in Groups, RevokeForGroup(g) PROVE Finishes
 <2>1. CASE g \in Range(groupJobs) BY <1>1,<1>3,<2>1 DEF RevokeForGroup
 <2>2. CASE g \notin Range(groupJobs)
  <3>1. groupJobs' = Append(groupJobs, g) BY <1>3,<2>2 DEF RevokeForGroup
  <3>2. Range(groupJobs') = Range(groupJobs) \cup {g}
   BY <2>2,<3>1, AppendRow DEF IInv, Types, LinkTypes, Tables, Queues
  <3> QED BY <3>2 DEF Finishes
 <2> QED BY <2>1,<2>2
<1>4. CASE CommitActivation \/ BatchNext \/ CompleteRevocation \/ (\E i \in Invitations : RevokeIntegration(i))
           \/ \E p \in Processes : MarkSuccessorReady(p)
 BY <1>1,<1>4 DEF CommitActivation, BatchNext, CompleteRevocation, RevokeIntegration, MarkSuccessorReady, linkVars
<1> QED BY <1>1,<1>2,<1>3,<1>4, OthersAlone

\* A new integration starts with what the broadcaster was shown of the chosen
\* side, which is what that side holds at that moment unless its seal expired
\* first.  A group that loses its last integration continues from the archive.
THEOREM StateIsCarriedOver == Spec => StateCarriedOver
<1>1. IInv /\ [Next]_vars => [Carries /\ Continues]_vars BY AlwaysCarries, AlwaysContinues
<1>2. Spec => [][Carries /\ Continues]_vars BY <1>1, AlwaysIInv, PTL DEF Spec
<1>3. [][Carries /\ Continues]_vars => StateCarriedOver
 BY PTL DEF StateCarriedOver, ActivationCarriesChoice, SuccessorContinuesArchive, Carries, Continues
<1> QED BY <1>2,<1>3

\* Whatever the leases do, a successor continues from the archive.
THEOREM SuccessorContinues == Spec => SuccessorContinuesArchive
<1>1. IInv /\ [Next]_vars => [Continues]_vars BY AlwaysContinues
<1>2. Spec => [][Continues]_vars BY <1>1, AlwaysIInv, PTL DEF Spec
<1> QED BY <1>2 DEF SuccessorContinuesArchive, Continues

\* A group's revocation job is dropped only when the group has nothing left to
\* revoke, however many batches, failures and evictions that takes.
THEOREM GroupJobsFinish == Spec => GroupJobFinishes
<1>1. IInv /\ [Next]_vars => [Finishes]_vars BY AlwaysFinishes
<1>2. Spec => [][Finishes]_vars BY <1>1, AlwaysIInv, PTL DEF Spec
<1> QED BY <1>2 DEF GroupJobFinishes, Finishes
=============================================================================

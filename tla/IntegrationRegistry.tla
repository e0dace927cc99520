--------------------------- MODULE IntegrationRegistry ---------------------------
(***************************************************************************)
(* The IntegrationRegistry Durable Object: how an invitation becomes an    *)
(* active integration, how an integration is revoked, and which shareable  *)
(* realm each group uses meanwhile.                                        *)
(*                                                                         *)
(* Every operation that can move a binding runs under one FIFO of the      *)
(* object (withBindingAuthority): the process Authority.  Verifying and    *)
(* resuming an invitation run beside it, one page process an invitation.   *)
(* Each await on a realm is a step of its own, where the other processes,  *)
(* commands writing to realms, deadlines and evictions interleave.         *)
(*                                                                         *)
(* Abstractions: one shareable namespace; a value is the number of the     *)
(* write that produced it (0 is empty), so it is also its fingerprint; an  *)
(* invitation's pending integration id is the invitation's; there is one   *)
(* other platform, so a direction is named by its source group.            *)
(***************************************************************************)
EXTENDS Naturals, FiniteSets, Sequences, SequencesExt, Functions

CONSTANTS
  Guilds,          \* the Discord groups
  Channels,        \* the Twitch groups
  Invitations,     \* the invitations, and the integrations they become
  None,            \* no value
  Authority,       \* the process that runs the binding FIFO
  BatchSize,       \* REGISTRY_MAINTENANCE_BATCH_SIZE
  Watched,         \* the groups some observer may watch
  MaxVersion,      \* bound on the discoveries of one invitation
  MaxDeadlines,    \* bound on the deadlines that pass
  MaxWrites,       \* bound on the commands that write
  Contents,        \* what the groups' own realms hold before the first invitation
  MaxChanges,      \* bound on the default changes and revocations requested
  MaxFailures,     \* bound on the realm calls that fail
  MaxEvictions     \* bound on the evictions of the object

Groups == Guilds \cup Channels
Processes == {Authority} \cup Invitations
Sides == {"discord", "twitch"}
Selections == Sides \cup {"reset"}

ASSUME ConstantsAssumption ==
  /\ Guilds \cap Channels = {}
  /\ None \notin Groups \cup Invitations /\ None \notin Invitations \X Nat
  /\ Authority \notin Invitations /\ IsFiniteSet(Invitations)
  /\ Watched \subseteq Groups
  /\ {BatchSize, MaxVersion} \subseteq Nat \ {0}
  /\ Contents \in [Groups -> Nat]
  /\ {MaxDeadlines, MaxWrites, MaxChanges, MaxFailures, MaxEvictions} \subseteq Nat

VARIABLES
  inv,        \* the rows of integration_invitations and of their pending links
  late,       \* the invitations whose current deadline has passed
  discovery,  \* the latest pending discovery of an invitation, with its choice
  integ,      \* the rows of integrations
  created,    \* the integrations in the order of created_at_ms
  default,    \* integration_default_links: the integration a group selects
  succ,       \* shareable_state_standalone_successors
  jobs,       \* integration_revocation_jobs, by requested_at_ms
  groupJobs,  \* integration_group_revocations, by requested_at_ms
  binding,    \* state_query_binding_revisions
  watchers,   \* the groups whose binding some observer watches
  outbox,     \* the revision waiting in state_query_binding_outbox, 0 for none
  alarm,      \* the object's alarm: due at once, due later, or not set
  realm,      \* the namespace in every shareable-state realm
  proc,       \* what each process is doing
  spent       \* how much of each bound is used

vars == <<inv, late, discovery, integ, created, default, succ, jobs, groupJobs,
          binding, watchers, outbox, alarm, realm, proc, spent>>

invitationVars == <<inv, late, discovery>>
linkVars == <<integ, created, default, succ, jobs, groupJobs>>
bindingVars == <<binding, watchers, outbox>>

-----------------------------------------------------------------------------
(* Realms and the state a group uses                                         *)

Standalone(g, n) == <<"standalone", g, n>>
Integrated(i, v) == <<"integration", i, v>>

\* A group gets a successor each time it loses its last integration.
Realms == ({"standalone"} \X Groups \X (1..(Cardinality(Invitations) + 1)))
            \cup ({"integration"} \X Invitations \X (1..MaxVersion))

\* A seal whose lease has ended holds nothing; its row goes with the next access.
Fresh == [val |-> 0, ver |-> 0, frozen |-> FALSE, seal |-> None, expired |-> FALSE]
Sealless(r) == realm[r].seal = None \/ realm[r].expired

GroupOf(i, side) == IF side = "discord" THEN inv[i].guild ELSE inv[i].channel
Members(i) == {inv[i].guild, inv[i].channel}
ActiveFor_FaultRevoking(g) == {i \in Range(created) : integ[i].status \in {"active", "revoking"} /\ g \in Members(i)}
ActiveFor(g) == {i \in Range(created) : integ[i].status = "active" /\ g \in Members(i)}
LiveFor(g) == {i \in Range(created) : integ[i].status \in {"active", "revoking"} /\ g \in Members(i)}
Oldest(S) == created[Min({n \in DOMAIN created : created[n] \in S})]

\* The default link points at an integration that is being revoked.
Transitioning(g) == default[g] # None /\ integ[default[g]].status # "active"
HasActiveDefault(g) == default[g] # None /\ integ[default[g]].status = "active"
RealmOfIntegration(i) == Integrated(i, integ[i].gen)

CandidateRealm(g) ==
  IF HasActiveDefault(g) THEN RealmOfIntegration(default[g])
                         ELSE Standalone(g, succ[g].gen)

\* What the registry answers when asked for a direction's binding.
CurrentBinding(g) ==
  IF Transitioning(g) \/ (default[g] = None /\ succ[g].status = "pending")
    THEN [status |-> "transitioning", source |-> None]
    ELSE [status |-> "ready", source |-> CandidateRealm(g)]

\* The oldest active integration for that pair of groups, if any.
Existing(i) ==
  LET same == {j \in Range(created) : integ[j].status = "active" /\ Members(j) = Members(i)}
  IN IF same = {} THEN None ELSE Oldest(same)

-----------------------------------------------------------------------------
(* Processes                                                                 *)

Idle == [pc |-> "idle", kind |-> "none", inv |-> None, group |-> None,
         side |-> "discord", found |-> <<>>, seen |-> <<>>, version |-> 0,
         refresh |-> FALSE, target |-> <<>>, seals |-> {}, done |-> 0]

NoDiscovery == [version |-> 0, found |-> <<>>, seen |-> <<>>, collision |-> FALSE, choice |-> None]

AuthorityIdle == proc[Authority].pc = "idle"

\* At these points the code does not wait: it runs on before anything else does.
Running(p) == proc[p].pc \in {"candidate", "plan", "batch", "drain"}
Quiet == \A p \in Processes : ~Running(p)

Goto(p, next) == proc' = [proc EXCEPT ![p] = next]
At(p, pc) == [proc[p] EXCEPT !.pc = pc]

Init ==
  /\ inv = [i \in Invitations |-> [status |-> "none", guild |-> None, channel |-> None]]
  /\ late = {}
  /\ discovery = [i \in Invitations |-> NoDiscovery]
  /\ integ = [i \in Invitations |-> [status |-> "none", gen |-> 0]]
  /\ created = <<>>
  /\ default = [g \in Groups |-> None]
  /\ succ = [g \in Groups |-> [gen |-> 1, status |-> "none", src |-> None]]
  /\ jobs = <<>> /\ groupJobs = <<>>
  /\ binding = [g \in Groups |-> [rev |-> 0, status |-> "ready", source |-> Standalone(g, 1)]]
  /\ watchers = {} /\ outbox = [g \in Groups |-> 0]
  /\ alarm = "none"
  /\ realm = [r \in Realms |-> IF r[1] = "standalone" /\ r[3] = 1
                               THEN [Fresh EXCEPT !.val = Contents[r[2]]] ELSE Fresh]
  /\ proc = [p \in Processes |-> Idle]
  /\ spent = [deadlines |-> 0, writes |-> 0, changes |-> 0, failures |-> 0, evictions |-> 0]

\* advanceStateQueryBinding for every direction in the domain of change: the
\* revision and the coalesced notification are written in one transaction.
Announce(change) ==
  /\ binding' = [g \in Groups |->
       IF g \in DOMAIN change
         THEN [rev |-> binding[g].rev + 1, status |-> change[g].status, source |-> change[g].source]
         ELSE binding[g]]
  /\ outbox' = [g \in Groups |->
       IF g \in DOMAIN change \cap watchers THEN binding[g].rev + 1 ELSE outbox[g]]
  /\ UNCHANGED watchers

Ready(r) == [status |-> "ready", source |-> r]
Moving == [status |-> "transitioning", source |-> None]

Rearm_FaultForgetsJobs ==
  alarm' = IF \E g \in Groups : outbox'[g] # 0 THEN "due"
           ELSE IF (\E i \in Invitations : inv'[i].status \notin {"none", "pruned"}) \/ watchers' # {}
             THEN "later" ELSE "none"

\* armNextExpiration: the earliest of everything the alarm has to look after.
Rearm ==
  alarm' = IF \E g \in Groups : outbox'[g] # 0 THEN "due"
           ELSE IF \/ \E i \in Invitations : inv'[i].status \notin {"none", "pruned"}
                   \/ jobs' # <<>> \/ groupJobs' # <<>> \/ watchers' # {}
             THEN "later" ELSE "none"

\* prepareStateQueryBindingMutation: recovery is armed before the mutation runs.
Prearm == alarm' = IF watchers # {} THEN "due" ELSE alarm

-----------------------------------------------------------------------------
(* Invitations                                                               *)

Pending == {"reserved", "awaiting_state_resolution"}
Terminal == {"active", "cancelled", "expired"}
SetStatus(i, status) == inv' = [inv EXCEPT ![i].status = status]
Overdue(i) == i \in late
Open(i) == inv[i].status = "awaiting_state_resolution"

\* The rows in S expire; a new deadline (their retention) starts.
Expire(S) ==
  /\ inv' = [i \in Invitations |-> IF i \in S THEN [inv[i] EXCEPT !.status = "expired"] ELSE inv[i]]
  /\ late' = late \ S

CreateInvitation(i, g) ==
  /\ inv[i].status = "none"
  /\ inv' = [inv EXCEPT ![i] = [status |-> "invited", guild |-> g, channel |-> None]]
  /\ UNCHANGED <<late, discovery, linkVars, bindingVars, realm, proc, spent>>
  /\ Rearm

\* The token is spent by the reservation that presents it first.
ReserveInvitation(i) ==
  /\ inv[i].status = "invited" /\ ~Overdue(i)
  /\ SetStatus(i, "reserved")
  /\ late' = late \ {i}
  /\ UNCHANGED <<discovery, linkVars, bindingVars, realm, proc, spent>>
  /\ Rearm

StartDiscovery(p, i, kind) == [Idle EXCEPT !.pc = "candidate", !.kind = kind, !.inv = i]

VerifyInvitation(i, c) ==
  /\ inv[i].status = "reserved" /\ ~Overdue(i)
  /\ inv' = [inv EXCEPT ![i].status = "awaiting_state_resolution", ![i].channel = c]
  /\ late' = late \ {i}
  /\ Goto(i, StartDiscovery(i, i, "page"))
  /\ UNCHANGED <<discovery, linkVars, bindingVars, realm, spent>>
  /\ Rearm

\* A resumed page (or a repeated verification): an overdue row expires, a
\* row without a discovery gets one.
ResumeInvitation(i) ==
  /\ inv[i].status \in Pending
  /\ \/ /\ Overdue(i)
        /\ Expire({i})
        /\ UNCHANGED proc
     \/ /\ ~Overdue(i) /\ Open(i) /\ discovery[i].version = 0 /\ proc[i].pc = "idle"
        /\ Goto(i, StartDiscovery(i, i, "page"))
        /\ UNCHANGED <<inv, late>>
  /\ UNCHANGED <<discovery, linkVars, bindingVars, realm, spent>>
  /\ Rearm

CancelInvitation(i) ==
  /\ inv[i].status \in Pending
  /\ IF Overdue(i) THEN Expire({i})
                   ELSE SetStatus(i, "cancelled") /\ UNCHANGED late
  /\ UNCHANGED <<discovery, linkVars, bindingVars, realm, proc, spent>>
  /\ Rearm

\* The broadcaster chooses what a collision becomes, once per discovery.
ResolveInvitationState(i, selection) ==
  /\ Open(i)
  /\ IF Overdue(i)
       THEN Expire({i}) /\ UNCHANGED discovery
       ELSE /\ discovery[i].version > 0 /\ discovery[i].collision /\ discovery[i].choice = None
            /\ discovery' = [discovery EXCEPT ![i].choice = selection]
            /\ UNCHANGED <<inv, late>>
  /\ UNCHANGED <<linkVars, bindingVars, realm, proc, spent>>
  /\ Rearm

\* Time reaches the deadline (or, of a terminal row, the end of its retention).
DeadlinePasses(i) ==
  /\ inv[i].status \notin {"none", "pruned"} /\ ~Overdue(i)
  /\ spent.deadlines < MaxDeadlines
  /\ late' = late \cup {i}
  /\ spent' = [spent EXCEPT !.deadlines = @ + 1]
  /\ UNCHANGED <<inv, discovery, linkVars, bindingVars, alarm, realm, proc>>

-----------------------------------------------------------------------------
(* Resolving the realms of the two groups and discovering what they hold     *)

\* The operation of p throws: its seals are released first, and the routes
\* and the alarm that re-arm in a finally block do so.
Abort(p) ==
  /\ Goto(p, IF proc[p].seals # {} THEN At(p, "release") ELSE Idle)
  /\ IF proc[p].kind \in {"revoke", "group", "alarm"} THEN Rearm ELSE UNCHANGED alarm

ResolvedGroup(p) ==
  IF proc[p].kind = "resolve" THEN proc[p].group ELSE GroupOf(proc[p].inv, proc[p].side)

\* The function f with one more value.
Extended(f, s, x) == [t \in DOMAIN f \cup {s} |-> IF t = s THEN x ELSE f[t]]

\* The realm of this side is known: the other side is next, then the inventories.
Found(p, r) ==
  Goto(p, IF proc[p].kind = "resolve" THEN Idle
          ELSE LET found == Extended(proc[p].found, proc[p].side, r) IN
               IF proc[p].side = "discord"
                 THEN [proc[p] EXCEPT !.pc = "candidate", !.side = "twitch", !.found = found]
                 ELSE [proc[p] EXCEPT !.pc = "inventory", !.side = "discord", !.found = found])

\* resolveEffectiveShareableState: the selected integration's realm, the
\* group's own realm, or first a pending successor to be copied.
ResolveCandidate(p) ==
  LET g == ResolvedGroup(p) IN
  /\ proc[p].pc = "candidate"
  /\ UNCHANGED <<invitationVars, linkVars, bindingVars, realm, spent>>
  /\ \/ Transitioning(g) /\ Abort(p)
     \/ /\ ~Transitioning(g) /\ (HasActiveDefault(g) \/ succ[g].status # "pending")
        /\ Found(p, CandidateRealm(g))
        /\ UNCHANGED alarm
     \/ /\ default[g] = None /\ succ[g].status = "pending"
        /\ Goto(p, [proc[p] EXCEPT !.pc = "clone", !.target = <<g, succ[g].gen, succ[g].src>>])
        /\ UNCHANGED alarm

Copied(r, val) ==
  IF realm[r].ver = 0 THEN [realm EXCEPT ![r].val = val, ![r].ver = 1] ELSE realm

\* The archived realm is copied into the new generation under an idempotency
\* key, and the copy is read back.
CloneSuccessor(p) ==
  LET t == proc[p].target
      new == Standalone(t[1], t[2])
      old == RealmOfIntegration(t[3])
  IN
  /\ proc[p].pc = "clone"
  /\ UNCHANGED <<invitationVars, linkVars, bindingVars, spent>>
  /\ realm' = Copied(new, realm[old].val)
  /\ IF realm'[new].ver = 1 /\ realm'[new].val = realm[old].val
       THEN Goto(p, At(p, "ready")) /\ UNCHANGED alarm
       ELSE Abort(p)

\* The transaction that publishes the successor, then the second look at the
\* default link, which may have changed during the copy.
MarkSuccessorReady(p) ==
  LET g == proc[p].target[1]
      own == Standalone(g, proc[p].target[2])
      stale == succ[g].gen # proc[p].target[2] \/ succ[g].src # proc[p].target[3]
  IN
  /\ proc[p].pc = "ready"
  /\ UNCHANGED <<invitationVars, integ, created, default, jobs, groupJobs, realm, spent>>
  /\ IF stale \/ succ[g].status = "ready"
       THEN UNCHANGED <<succ, bindingVars>>
       ELSE succ' = [succ EXCEPT ![g].status = "ready"] /\ Announce([h \in {g} |-> Ready(own)])
  /\ IF stale \/ Transitioning(g)
       THEN Abort(p)
       ELSE Found(p, IF HasActiveDefault(g) THEN CandidateRealm(g) ELSE own) /\ UNCHANGED alarm

Look(r) == [val |-> realm[r].val, ver |-> realm[r].ver]

Inventory(p) ==
  /\ proc[p].pc = "inventory"
  /\ Goto(p, [proc[p] EXCEPT !.pc = "persist",
                             !.seen = [s \in Sides |-> Look(proc[p].found[s])]])
  /\ UNCHANGED <<invitationVars, linkVars, bindingVars, alarm, realm, spent>>

\* classifyShareableStateCandidates: None when the broadcaster has to choose.
AutomaticSelection(seen) ==
  LET d == seen["discord"].val
      t == seen["twitch"].val
  IN IF d = 0 /\ t = 0 THEN "reset"
     ELSE IF t = 0 \/ d = t THEN "discord"
     ELSE IF d = 0 THEN "twitch" ELSE None

\* A first discovery never replaces one; a refresh replaces only the version
\* it was started for.  A new version carries no choice over.
PersistDiscovery(p) ==
  LET i == proc[p].inv
      q == proc[p]
      auto == AutomaticSelection(q.seen)
      kept == IF q.refresh THEN discovery[i].version # q.version ELSE discovery[i].version > 0
      refused == ~Open(i) \/ Overdue(i) \/ (~kept /\ discovery[i].version = MaxVersion)
  IN
  /\ q.pc = "persist"
  /\ UNCHANGED <<linkVars, bindingVars, realm, spent>>
  /\ IF Open(i) /\ Overdue(i) THEN Expire({i}) ELSE UNCHANGED <<inv, late>>
  /\ discovery' = IF refused \/ kept THEN discovery
                  ELSE [discovery EXCEPT ![i] =
                         [version |-> discovery[i].version + 1, found |-> q.found, seen |-> q.seen,
                          collision |-> auto = None, choice |-> auto]]
  /\ IF refused \/ q.refresh THEN Abort(p)
     ELSE /\ Goto(p, IF q.kind = "page" THEN Idle ELSE At(p, "plan"))
          /\ UNCHANGED alarm

-----------------------------------------------------------------------------
(* Activation: seal, compare, copy, commit                                   *)

CandidatesCurrent(i) ==
  \A s \in Sides : CandidateRealm(GroupOf(i, s)) = discovery[i].found[s]

Rediscover(p) == [proc[p] EXCEPT !.pc = "candidate", !.side = "discord", !.found = <<>>,
                                 !.refresh = TRUE, !.version = discovery[proc[p].inv].version]

ActivateInvitation(i) ==
  /\ AuthorityIdle /\ Open(i)
  /\ UNCHANGED <<discovery, linkVars, bindingVars, realm, spent>>
  /\ IF Overdue(i)
       THEN Expire({i}) /\ UNCHANGED proc /\ Rearm
       ELSE /\ discovery[i].version = 0 \/ discovery[i].choice # None \/ Existing(i) # None
            /\ Goto(Authority, [StartDiscovery(Authority, i, "activate") EXCEPT
                                  !.pc = IF discovery[i].version = 0 THEN @ ELSE "plan"])
            /\ UNCHANGED <<inv, late>>
            /\ Prearm

\* A pair that is linked already needs no realm of its own.
PlanFinalization ==
  LET p == Authority
      i == proc[p].inv
  IN
  /\ proc[p].pc = "plan"
  /\ UNCHANGED <<invitationVars, linkVars, bindingVars, realm, spent>>
  /\ \/ /\ Existing(i) # None
        /\ Goto(p, At(p, "commit")) /\ UNCHANGED alarm
     \/ /\ Existing(i) = None /\ discovery[i].choice = None
        /\ Abort(p)
     \/ /\ Existing(i) = None /\ discovery[i].choice # None
        /\ Goto(p, IF CandidatesCurrent(i)
                     THEN [proc[p] EXCEPT !.pc = "seal", !.version = discovery[i].version,
                                          !.found = discovery[i].found, !.seen = <<>>]
                     ELSE Rediscover(p))
        /\ UNCHANGED alarm

Sealed_FaultNoSeal(r, seal) == realm
Sealed(r, seal) == [realm EXCEPT ![r].seal = seal, ![r].expired = FALSE]

\* One realm after the other, for a lease that began with the first; a seal of
\* another finalization stops this one, as does the end of the lease.
AcquireSeal ==
  LET p == Authority
      q == proc[p]
      side == IF DOMAIN q.seen = {} THEN "discord" ELSE "twitch"
      r == q.found[side]
      seal == <<q.inv, q.version>>
  IN
  /\ q.pc = "seal"
  /\ UNCHANGED <<invitationVars, linkVars, bindingVars, spent>>
  /\ IF (~Sealless(r) /\ realm[r].seal # seal) \/ \E s \in q.seals : realm[s].expired
       THEN UNCHANGED realm /\ Abort(p)
       ELSE /\ realm' = Sealed(r, seal)
            /\ Goto(p, [q EXCEPT !.seen = Extended(@, side, Look(r)), !.seals = @ \cup {r},
                                 !.pc = IF side = "twitch" THEN "materialize" ELSE "seal"])
            /\ UNCHANGED alarm

Unsealed(p) == [r \in Realms |->
  IF r \in proc[p].seals /\ realm[r].seal = <<proc[p].inv, proc[p].version>>
    THEN [realm[r] EXCEPT !.seal = None, !.expired = FALSE] ELSE realm[r]]

\* Every seal is released, whatever happened, unless a call is lost.
Release(p) ==
  \/ realm' = Unsealed(p) /\ UNCHANGED spent
  \/ /\ proc[p].seals # {} /\ spent.failures < MaxFailures
     /\ spent' = [spent EXCEPT !.failures = @ + 1]
     /\ UNCHANGED realm

\* What was sealed is what was discovered, or the discovery is made again.
\* Then the sealed snapshot of the chosen side, or nothing, becomes the content
\* of the new realm; the same key replays the same copy.
MaterializeFinalization ==
  LET p == Authority
      i == proc[p].inv
      choice == discovery[i].choice
      val == IF choice = "reset" THEN 0 ELSE proc[p].seen[choice].val
      new == Integrated(i, proc[p].version)
      current == CandidatesCurrent(i) /\ proc[p].seen = discovery[i].seen
  IN
  /\ proc[p].pc = "materialize"
  /\ UNCHANGED <<invitationVars, linkVars, bindingVars>>
  /\ \/ /\ ~current
        /\ Release(p)
        /\ Goto(p, [Rediscover(p) EXCEPT !.seals = {}])
        /\ UNCHANGED alarm
     \/ /\ current
        /\ realm' = Copied(new, val)
        /\ UNCHANGED spent
        /\ IF realm'[new].val = val /\ realm'[new].ver = 1
             THEN Goto(p, At(p, "commit")) /\ UNCHANGED alarm
             ELSE Abort(p)

\* The transaction that makes the integration, or joins the existing one, and
\* gives it the directions that select nothing yet.
CommitActivation ==
  LET p == Authority
      i == proc[p].inv
      v == proc[p].version
      id == IF Existing(i) = None THEN i ELSE Existing(i)
      gen == IF Existing(i) = None THEN v ELSE integ[id].gen
      assigned == {g \in Members(i) : default[g] = None}
  IN
  /\ proc[p].pc = "commit"
  /\ UNCHANGED <<discovery, realm, spent>>
  /\ IF v > 0 /\ Open(i) /\ ~CandidatesCurrent(i)
       THEN Goto(p, Rediscover(p)) /\ UNCHANGED <<inv, late, linkVars, bindingVars, alarm>>
     ELSE IF ~Open(i) \/ (~Overdue(i) /\ v > 0 /\ discovery[i].version # v)
       THEN UNCHANGED <<inv, late, linkVars, bindingVars>> /\ Abort(p)
     ELSE IF Overdue(i)
       THEN /\ Expire({i})
            /\ Goto(p, [proc[p] EXCEPT !.pc = "release", !.done = 1])
            /\ UNCHANGED <<linkVars, bindingVars, alarm>>
     ELSE /\ SetStatus(i, "active") /\ UNCHANGED late
          /\ integ' = [integ EXCEPT ![id] = [status |-> "active", gen |-> gen]]
          /\ created' = IF Existing(i) = None THEN Append(created, i) ELSE created
          /\ default' = [g \in Groups |-> IF g \in assigned THEN id ELSE default[g]]
          /\ Announce([g \in assigned |-> Ready(Integrated(id, gen))])
          /\ Goto(p, [proc[p] EXCEPT !.pc = "release", !.done = 1])
          /\ UNCHANGED <<succ, jobs, groupJobs, alarm>>

\* activateInvitation's finally block.
ReleaseSeals ==
  LET p == Authority IN
  /\ proc[p].pc = "release"
  /\ Release(p)
  /\ Goto(p, Idle)
  /\ UNCHANGED <<invitationVars, linkVars, bindingVars>>
  /\ IF proc[p].done = 1 THEN Rearm ELSE UNCHANGED alarm

-----------------------------------------------------------------------------
(* Default links                                                             *)

Requested ==
  /\ spent.changes < MaxChanges
  /\ spent' = [spent EXCEPT !.changes = @ + 1]

SetDefaultLink(g, i) ==
  /\ AuthorityIdle
  /\ integ[i].status = "active" /\ g \in Members(i) /\ default[g] # i
  /\ default' = [default EXCEPT ![g] = i]
  /\ Announce([h \in {g} |-> Ready(RealmOfIntegration(i))])
  /\ Requested
  /\ UNCHANGED <<invitationVars, integ, created, succ, jobs, groupJobs, realm, proc>>
  /\ Rearm

\* /shareable-state/resolve, where it does more than read.
ResolveShareableState(g) ==
  /\ AuthorityIdle /\ default[g] = None /\ succ[g].status = "pending"
  /\ Goto(Authority, [Idle EXCEPT !.pc = "candidate", !.kind = "resolve", !.group = g])
  /\ UNCHANGED <<invitationVars, linkVars, bindingVars, realm, spent>>
  /\ Prearm

-----------------------------------------------------------------------------
(* Revocation                                                                *)

Begin_FaultNoJob(i) ==
  /\ integ' = [integ EXCEPT ![i].status = "revoking"]
  /\ UNCHANGED jobs
  /\ Announce([g \in {h \in Groups : default[h] = i} |-> Moving])

\* beginIntegrationRevocation: the directions that selected the integration
\* are told at once, and the job that will finish the work is on record.
Begin(i) ==
  /\ integ' = [integ EXCEPT ![i].status = "revoking"]
  /\ jobs' = IF i \in Range(jobs) THEN jobs ELSE Append(jobs, i)
  /\ IF integ[i].status = "active"
       THEN Announce([g \in {h \in Groups : default[h] = i} |-> Moving])
       ELSE UNCHANGED bindingVars

RevokeIntegration(i) ==
  /\ AuthorityIdle /\ integ[i].status \in {"active", "revoking"}
  /\ Begin(i)
  /\ Requested
  /\ Goto(Authority, [Idle EXCEPT !.pc = "freeze", !.kind = "revoke", !.inv = i])
  /\ UNCHANGED <<invitationVars, created, default, succ, groupJobs, realm>>
  /\ Rearm

RevokeForGroup(g) ==
  /\ AuthorityIdle /\ LiveFor(g) # {}
  /\ groupJobs' = IF g \in Range(groupJobs) THEN groupJobs ELSE Append(groupJobs, g)
  /\ Goto(Authority, [Idle EXCEPT !.pc = "batch", !.kind = "group", !.group = g])
  /\ Requested
  /\ UNCHANGED <<invitationVars, integ, created, default, succ, jobs, bindingVars, realm>>
  /\ Rearm

\* The next integration of the batch starts to be revoked, unless it already did.
BatchNext ==
  LET p == Authority
      i == Oldest(LiveFor(proc[p].group))
  IN
  /\ proc[p].pc = "batch" /\ proc[p].done < BatchSize /\ LiveFor(proc[p].group) # {}
  /\ IF integ[i].status = "active" THEN Begin(i) ELSE UNCHANGED <<integ, jobs, bindingVars>>
  /\ Goto(p, [proc[p] EXCEPT !.pc = "freeze", !.inv = i])
  /\ UNCHANGED <<invitationVars, created, default, succ, groupJobs, alarm, realm, spent>>

\* The alarm's next stage: the oldest integration job, or the notifications.
AlarmAfterGroups ==
  IF jobs = <<>> THEN [Idle EXCEPT !.pc = "drain", !.kind = "alarm"]
                 ELSE [Idle EXCEPT !.pc = "freeze", !.kind = "alarm", !.inv = Head(jobs)]

Batched_FaultDone(g) == RemoveFirst(groupJobs, g)

\* The group's job is kept, behind the others, while it has integrations.
Batched(g) ==
  LET others == RemoveFirst(groupJobs, g)
  IN IF LiveFor(g) = {} THEN others ELSE Append(others, g)

BatchEnds ==
  LET p == Authority
      g == proc[p].group
  IN
  /\ proc[p].pc = "batch" /\ (proc[p].done >= BatchSize \/ LiveFor(g) = {})
  /\ groupJobs' = Batched(g)
  /\ UNCHANGED <<invitationVars, integ, created, default, succ, jobs, bindingVars, realm, spent>>
  /\ IF proc[p].kind = "alarm"
       THEN Goto(p, AlarmAfterGroups) /\ UNCHANGED alarm
       ELSE Goto(p, Idle) /\ Rearm

Frozen_FaultOpen(r) == realm
Frozen(r) == [realm EXCEPT ![r].frozen = TRUE]

\* No write reaches the integration's realm any more, for good.
FreezeIntegration ==
  LET p == Authority IN
  /\ proc[p].pc = "freeze"
  /\ realm' = Frozen(RealmOfIntegration(proc[p].inv))
  /\ Goto(p, At(p, "repair"))
  /\ UNCHANGED <<invitationVars, linkVars, bindingVars, alarm, spent>>

\* repairDefaultLinks: every direction that selected the integration takes the
\* oldest active one of its group, or nothing.
Repaired(edges) ==
  [g \in Groups |-> IF g \notin edges THEN default[g]
                    ELSE IF ActiveFor(g) = {} THEN None ELSE Oldest(ActiveFor(g))]

\* recordStandaloneSuccessor: a new standalone generation, still to be copied.
Succeeded(alone, i) ==
  [g \in Groups |-> IF g \in alone THEN [gen |-> succ[g].gen + 1, status |-> "pending", src |-> i]
                    ELSE succ[g]]

CompleteRevocation ==
  LET p == Authority
      i == proc[p].inv
      edges == {g \in Groups : default[g] = i}
      alone == {g \in edges : ActiveFor(g) = {}}
  IN
  /\ proc[p].pc = "repair"
  /\ UNCHANGED <<invitationVars, created, groupJobs, realm, spent>>
  /\ IF \E g \in alone : succ[g].status = "pending"
       THEN UNCHANGED <<integ, default, succ, jobs, bindingVars>> /\ Abort(p)
       ELSE /\ default' = Repaired(edges)
            /\ succ' = Succeeded(alone, i)
            /\ Announce([g \in edges |-> IF g \in alone THEN Moving
                                         ELSE Ready(RealmOfIntegration(Repaired(edges)[g]))])
            /\ integ' = [integ EXCEPT ![i].status = "revoked"]
            /\ jobs' = RemoveFirst(jobs, i)
            /\ Goto(p, IF proc[p].group # None THEN [proc[p] EXCEPT !.pc = "batch", !.done = @ + 1]
                       ELSE IF proc[p].kind = "alarm" THEN At(p, "drain") ELSE Idle)
            /\ IF proc[p].kind = "revoke" THEN Rearm ELSE UNCHANGED alarm

-----------------------------------------------------------------------------
(* The alarm                                                                 *)

\* Overdue invitations expire, old ones are dropped, then the oldest group
\* job, the oldest integration job and the notifications are worked on.
AlarmFires ==
  LET overdue == {i \in late : inv[i].status \in Pending \cup {"invited"}}
      old == {i \in late : inv[i].status \in Terminal}
  IN
  /\ AuthorityIdle
  /\ alarm # "none"
  /\ alarm = "due" \/ overdue \cup old # {} \/ jobs # <<>> \/ groupJobs # <<>>
  /\ alarm' = "none"
  /\ inv' = [i \in Invitations |-> IF i \in overdue THEN [inv[i] EXCEPT !.status = "expired"]
                                   ELSE IF i \in old THEN [inv[i] EXCEPT !.status = "pruned"]
                                   ELSE inv[i]]
  /\ late' = late \ (overdue \cup old)
  /\ discovery' = [i \in Invitations |-> IF i \in old THEN NoDiscovery ELSE discovery[i]]
  /\ Goto(Authority,
       IF groupJobs # <<>>
         THEN [Idle EXCEPT !.pc = "batch", !.kind = "alarm", !.group = Head(groupJobs)]
         ELSE AlarmAfterGroups)
  /\ UNCHANGED <<linkVars, bindingVars, realm, spent>>

\* The notifications that are due are claimed ...
ClaimNotifications ==
  LET p == Authority IN
  /\ proc[p].pc = "drain"
  /\ UNCHANGED <<invitationVars, linkVars, bindingVars, realm, spent>>
  /\ IF \A g \in Groups : outbox[g] = 0
       THEN Goto(p, Idle) /\ Rearm
       ELSE Goto(p, [proc[p] EXCEPT !.pc = "deliver", !.seen = outbox]) /\ UNCHANGED alarm

\* ... and those the observer accepts are removed, unless a newer revision has
\* taken the row meanwhile.
DeliverNotifications ==
  LET p == Authority IN
  /\ proc[p].pc = "deliver"
  /\ \/ /\ outbox' = [g \in Groups |-> IF outbox[g] = proc[p].seen[g] THEN 0 ELSE outbox[g]]
        /\ UNCHANGED spent
     \/ /\ spent.failures < MaxFailures
        /\ spent' = [spent EXCEPT !.failures = @ + 1]
        /\ UNCHANGED outbox
  /\ Goto(p, Idle)
  /\ UNCHANGED <<invitationVars, linkVars, binding, watchers, realm>>
  /\ Rearm

-----------------------------------------------------------------------------
(* The world around the registry                                             *)

WatchBinding(g) ==
  /\ g \notin watchers
  /\ watchers' = watchers \cup {g}
  /\ UNCHANGED <<invitationVars, linkVars, binding, outbox, realm, proc, spent>>
  /\ Rearm

UnwatchBinding(g) ==
  /\ g \in watchers
  /\ watchers' = watchers \ {g}
  /\ outbox' = [outbox EXCEPT ![g] = 0]
  /\ UNCHANGED <<invitationVars, linkVars, binding, realm, proc, spent>>
  /\ Rearm

\* The realms commands of g may still be using, the scope of a command being
\* resolved once, when it starts.
Published(g) ==
  {Standalone(g, n) : n \in {m \in 1..succ[g].gen : m < succ[g].gen \/ succ[g].status # "pending"}}
    \cup {RealmOfIntegration(i) : i \in {j \in Range(created) : g \in Members(j)}}

Write(g, r) ==
  /\ r \in Published(g) /\ spent.writes < MaxWrites
  /\ ~realm[r].frozen /\ Sealless(r)
  /\ realm' = [realm EXCEPT ![r].val = spent.writes + 1, ![r].ver = @ + 1]
  /\ spent' = [spent EXCEPT !.writes = @ + 1]
  /\ UNCHANGED <<invitationVars, linkVars, bindingVars, alarm, proc>>

\* The lease of a seal ends, sixty seconds after its finalization asked for it,
\* whether or not that is still waiting for a realm: no call of it has a timeout.
SealLapses(r) ==
  /\ ~Sealless(r)
  /\ realm' = [realm EXCEPT ![r].expired = TRUE]
  /\ UNCHANGED <<invitationVars, linkVars, bindingVars, alarm, proc, spent>>

RealmCallFails(p) ==
  /\ proc[p].pc \in {"clone", "inventory", "seal", "materialize", "freeze"}
  /\ spent.failures < MaxFailures
  /\ spent' = [spent EXCEPT !.failures = @ + 1]
  /\ UNCHANGED <<invitationVars, linkVars, bindingVars, realm>>
  /\ Abort(p)

\* The object leaves memory; only an alarm that was running is run again.
Evicted ==
  /\ \E p \in Processes : proc[p].pc # "idle"
  /\ spent.evictions < MaxEvictions
  /\ spent' = [spent EXCEPT !.evictions = @ + 1]
  /\ proc' = [p \in Processes |-> Idle]
  /\ alarm' = IF proc[Authority].kind = "alarm" THEN "due" ELSE alarm
  /\ UNCHANGED <<invitationVars, linkVars, bindingVars, realm>>

DiscoveryStep(p) ==
  ResolveCandidate(p) \/ CloneSuccessor(p) \/ MarkSuccessorReady(p) \/ Inventory(p) \/ PersistDiscovery(p)

AuthorityStep ==
  \/ PlanFinalization \/ AcquireSeal \/ MaterializeFinalization
  \/ CommitActivation \/ ReleaseSeals
  \/ BatchNext \/ BatchEnds \/ FreezeIntegration \/ CompleteRevocation
  \/ ClaimNotifications \/ DeliverNotifications

Step(p) ==
  /\ Running(p) \/ Quiet
  /\ DiscoveryStep(p) \/ (p = Authority /\ AuthorityStep)

InvitationRequest(i) ==
  \/ \E g \in Guilds : CreateInvitation(i, g)
  \/ ReserveInvitation(i)
  \/ \E c \in Channels : VerifyInvitation(i, c)
  \/ ResumeInvitation(i) \/ CancelInvitation(i) \/ ActivateInvitation(i)
  \/ \E s \in Selections : ResolveInvitationState(i, s)

LinkRequest ==
  \/ \E g \in Groups, i \in Range(created) : SetDefaultLink(g, i)
  \/ \E g \in Groups : ResolveShareableState(g) \/ RevokeForGroup(g)
  \/ \E i \in Invitations : RevokeIntegration(i)
  \/ \E g \in Watched : WatchBinding(g) \/ UnwatchBinding(g)

Outside ==
  \/ AlarmFires \/ Evicted
  \/ \E i \in Invitations : DeadlinePasses(i)
  \/ \E p \in Processes : RealmCallFails(p)
  \/ \E g \in Groups : \E r \in Published(g) : Write(g, r)
  \/ \E r \in Realms : SealLapses(r)

Next ==
  \/ \E p \in Processes : Step(p)
  \/ Quiet /\ (LinkRequest \/ Outside \/ \E i \in Invitations : InvitationRequest(i))

\* Calls return, an armed alarm fires, and leases end however often work is retried.
Fairness ==
  /\ \A p \in Processes : WF_vars(Step(p))
  /\ SF_vars(Quiet /\ AlarmFires)
  /\ SF_vars(Quiet /\ \E r \in Realms : SealLapses(r))

Spec == Init /\ [][Next]_vars /\ Fairness

-----------------------------------------------------------------------------
(* Properties                                                                *)

Statuses == {"none", "invited", "pruned"} \cup Pending \cup Terminal

\* Types, and what the tables say of each other: one active integration a
\* pair, a job for exactly the integrations that are being revoked.
TypeOK ==
  /\ \A i \in Invitations :
       /\ inv[i].status \in Statuses
       /\ inv[i].guild \in Guilds \cup {None} /\ inv[i].channel \in Channels \cup {None}
       /\ discovery[i].version \in 0..MaxVersion
       /\ integ[i].status \in {"none", "active", "revoking", "revoked"}
       /\ integ[i].status = "revoking" <=> i \in Range(jobs)
       /\ integ[i].status = "active" => Existing(i) = i
  /\ \A g \in Groups :
       /\ default[g] \in Invitations \cup {None}
       /\ succ[g].status \in {"none", "pending", "ready"}
       /\ outbox[g] \in 0..binding[g].rev
  /\ IsInjective(created) /\ IsInjective(jobs) /\ IsInjective(groupJobs)
  /\ \A r \in Realms : realm[r].val \in Nat /\ realm[r].ver \in Nat
  /\ alarm \in {"none", "later", "due"}

\* A direction always selects an integration of its group that is not revoked
\* yet, and a group with an active integration always selects one: activation,
\* default changes and the repair after a revocation leave no direction behind.
\* Nothing is selected over a successor that was not copied yet, so
\* recordStandaloneSuccessor, which refuses to replace such a successor, never
\* stops the revocation of a selected integration.
EveryLinkSelected ==
  \A g \in Groups :
    /\ default[g] # None => /\ g \in Members(default[g])
                           /\ integ[default[g]].status \in {"active", "revoking"}
                           /\ succ[g].status # "pending"
    /\ ActiveFor(g) # {} => default[g] # None

\* The recorded binding of a direction, which watchers and grants are told, is
\* the one its tables give: whatever moved it advanced the revision with it.
BindingTellsTruth ==
  \A g \in Groups : [status |-> binding[g].status, source |-> binding[g].source] = CurrentBinding(g)

\* The tables of the links agree with each other and with what was announced.
LinksAgree == EveryLinkSelected /\ BindingTellsTruth

\* A new integration starts with what the broadcaster was shown of the chosen
\* side, and that side still holds it: a command is included or rejected, unless
\* the seal expired before the integration was made.  Nothing checks the lease
\* again, and a command accepted since then is left behind in the old realm.
ActivationCarriesChoice ==
  [][\A i \in Invitations :
       integ[i].status = "none" /\ integ'[i].status = "active" =>
         LET d == discovery[i]
             made == realm[Integrated(i, integ'[i].gen)].val
         IN IF d.choice = "reset" THEN made = 0
            ELSE LET source == realm[d.found[d.choice]]
                 IN made = d.seen[d.choice].val /\ (made = source.val \/ source.expired)]_vars

\* A group that loses its last integration continues from the state that was
\* archived, not from an older standalone state nor from a half-made copy.
SuccessorContinuesArchive ==
  [][\A g \in Groups :
       succ[g].status = "pending" /\ succ'[g].status = "ready" =>
         LET archive == realm[RealmOfIntegration(succ[g].src)] IN
         archive.frozen /\ realm[Standalone(g, succ[g].gen)].val = archive.val]_vars

\* State follows the binding: into a new integration, and out of its last one.
StateCarriedOver == ActivationCarriesChoice /\ SuccessorContinuesArchive

\* A revocation that began is completed by its job, whatever failed meanwhile,
\* and a group's job is dropped only when it has nothing left to revoke.
RevocationCompletes ==
  \A i \in Invitations : integ[i].status = "revoking" ~> integ[i].status = "revoked"

GroupJobFinishes ==
  [][\A g \in Range(groupJobs) : g \notin Range(groupJobs') => LiveFor(g) = {}]_vars

=============================================================================

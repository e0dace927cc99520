-------------------------- MODULE DurableEventStream --------------------------
(***************************************************************************)
(* Ordinary durable events, src/src/durable-events/: the commands of one   *)
(* group publish through the ledger of their group into the stream of a    *)
(* realm, whose one consumer, a browser page holding a grant, receives     *)
(* them in order over a socket.                                            *)
(*                                                                         *)
(* A group-local stream belongs to the group; an effective-shareable one   *)
(* to the realm the registry binds the group to.  Appends and grants of    *)
(* the second kind go through the registry's queue, which also moves the   *)
(* binding: with the stream's part, which waits for nothing, each is one   *)
(* step.                                                                   *)
(***************************************************************************)
EXTENDS Integers, FiniteSets, FiniteSetsExt, Functions

CONSTANTS
  Realms,             \* realms the group may be bound to, each with its stream
  Home,               \* the realm at the beginning, and of the local stream
  Events,             \* source events that publish
  Commands,           \* invocations of those events' commands, retries included
  Grants, Sockets,    \* grants an operator issues, connections of pages
  None,
  Settings            \* what a behaviour meets, see SettingsAssumption

ASSUME NoneAssumption == None \notin Realms \cup Grants
ASSUME HomeAssumption == Home \in Realms
ASSUME SettingsAssumption ==
  Settings \subseteq [scope : {"group_local", "effective_shareable"}, events : SUBSET Events,
                      grants : SUBSET Grants, pages : SUBSET Sockets,
                      commands : SUBSET Commands, retained : Nat, epochs : Nat, revisions : Nat, ages : BOOLEAN,
                      failures : Nat, lapses : BOOLEAN, unrest : BOOLEAN]
\* The first revision of a shared binding is 1.
ASSUME RevisionsAssumption == \A s \in Settings : s.scope = "effective_shareable" => s.revisions >= 1

VARIABLES
  setting,   \* chosen at the start
  binding,   \* the registry's binding of the group: realm (None in a transition), rev
  interest,  \* durable_event_binding_watchers, by realm: expected revision
             \* (0: no row), and whether an append set its expiry
  notices,   \* durable_event_binding_outbox, by realm
  posting,   \* the notice being delivered to a stream, as it was read
  ledger,    \* durable_event_publications, by event
  commands,  \* invocations in progress
  stream,    \* by realm: metadata, events, receipts and binding row of its stream
  grants,    \* durable_event_stream_grants of all streams
  sockets,   \* connections with their attachments, and the page's end
  aged,      \* by realm: the last sequence whose retention has ended
  failures,  \* failed deliveries of notices and commands that died so far
  history    \* what the code does not keep: see NoHistory

vars == <<setting, binding, interest, notices, posting, ledger, commands, stream, grants,
          sockets, aged, failures, history>>

Shared == setting.scope = "effective_shareable"

NoRow == [state |-> "none", realm |-> None, rev |-> 0]
NoInterest == [rev |-> 0, byAppend |-> FALSE]
NoNotice == [prev |-> 0, rev |-> 0, to |-> None]
NoCommand == [pc |-> "idle", event |-> None, realm |-> None, rev |-> 0,
              second |-> FALSE, next |-> [realm |-> None, rev |-> 0], outcome |-> "none"]
NoGrant == [status |-> "none", realm |-> None, rev |-> 0]
NoSocket == [phase |-> "closed", grant |-> None, epoch |-> 0, sent |-> 0, acked |-> 0,
             ack |-> 0, here |-> FALSE]
NoGap == [first |-> 0, last |-> 0]
EmptyStream == [next |-> 1, acked |-> 0, kept |-> {}, gap |-> NoGap, ready |-> FALSE,
                epoch |-> 0, holder |-> None, rev |-> 0, moved |-> FALSE,
                receipts |-> [e \in Events |-> 0]]

\* handled: sequences a page's handler finished; declared: sequences whose loss
\* was declared by a gap or a reset; overlapped: events with two commands at
\* once; forgotten: realms of which a move of the binding is not announced;
\* taught: realms whose consumer, with nothing to drain, a publication moved;
\* crossed: events repinned from a route that had moved away and back.
NoHistory == [handled |-> [r \in Realms |-> {}], declared |-> [r \in Realms |-> {}],
              overlapped |-> {}, forgotten |-> {}, taught |-> {},
              crossed |-> {}]

-----------------------------------------------------------------------------
\* Variants named X_Fault are faults a change to X could introduce; nothing
\* uses them, and with X replaced by one a property of this module fails.

\* The stream of a realm and all sockets, as its handlers see and change them
World(r) == [st |-> stream[r], so |-> sockets]
Commit(r, w) == stream' = [stream EXCEPT ![r] = w.st] /\ sockets' = w.so

Registered(w, r) ==
  {s \in Sockets : w.so[s].phase = "registered" /\ grants[w.so[s].grant].realm = r}

\* Whose attachment has the stream's consumer epoch and grant
Holds(w, s) == /\ w.so[s].phase = "registered"
               /\ w.so[s].epoch = w.st.epoch
               /\ w.so[s].grant = w.st.holder

grantMoved_FaultMovedOnly(st, g) == st.moved
grantMoved(st, g) == st.rev > grants[g].rev \/ st.moved

NoConsumer(st) == [st EXCEPT !.ready = FALSE, !.holder = None]

\* Status frame and close; detachSocket clears the consumer if it was one of them
terminateSockets(w, S) ==
  [st |-> IF \E s \in S : Holds(w, s) THEN NoConsumer(w.st) ELSE w.st,
   so |-> [s \in Sockets |-> IF s \in S THEN NoSocket ELSE w.so[s]]]
Closed(w, s) == [w EXCEPT !.so[s] = NoSocket]

currentSocket(w) == {s \in Sockets : w.st.ready /\ Holds(w, s)}

Unacknowledged_FaultFromSent(w) == {q \in w.st.kept : q >= w.st.acked + 2}
Unacknowledged(w) == {q \in w.st.kept : q > w.st.acked}

sendNextEvent_FaultNeverMoved(w, s) ==
  IF ~Holds(w, s) THEN Closed(w, s)
  ELSE IF w.st.gap # NoGap \/ grants[w.so[s].grant].status # "active"
  THEN terminateSockets(w, {s})
  ELSE IF w.so[s].sent > w.so[s].acked \/ Unacknowledged(w) = {} THEN w
  ELSE [w EXCEPT !.so[s].sent = Min(Unacknowledged(w))]

\* The next retained event to the consumer, one at a time; or the status that
\* ends its connection
sendNextEvent(w, s) ==
  LET g == w.so[s].grant IN
  IF ~Holds(w, s) THEN Closed(w, s)
  ELSE IF w.st.gap # NoGap \/ grants[g].status # "active" THEN terminateSockets(w, {s})
  ELSE IF w.so[s].sent > w.so[s].acked THEN w
  ELSE IF Unacknowledged(w) # {} THEN [w EXCEPT !.so[s].sent = Min(Unacknowledged(w))]
  ELSE IF grantMoved(w.st, g) THEN terminateSockets(w, {s})
  ELSE w

Expired(r) == stream[r].kept \cap 1 .. aged[r]

pruneExpired_FaultNoGap(r) == [World(r) EXCEPT !.st.kept = @ \ Expired(r)]

\* Events past their retention become a gap, and the consumer is told
pruneExpired(r) ==
  LET w == World(r)
      gap == [first |-> IF w.st.gap = NoGap THEN Min(Expired(r)) ELSE w.st.gap.first,
              last |-> Max(Expired(r))]
  IN IF Expired(r) = {} THEN w
     ELSE terminateSockets([w EXCEPT !.st = [NoConsumer(w.st) EXCEPT !.kept = @ \ Expired(r),
                                                                  !.gap = gap]],
                           Registered(w, r))
\* (after stream' is known)
Gapped(r) == [history EXCEPT !.declared[r] = @ \cup stream'[r].gap.first .. stream'[r].gap.last]

\* requireEffectiveBinding: the stream's row of the binding follows the
\* registry upwards; a consumer has to register again for the new revision.
Obsolete(st, rev) == Shared /\ (rev < st.rev \/ (rev = st.rev /\ st.moved))
requireEffectiveBinding(st, rev) ==
  IF ~Shared \/ rev = st.rev THEN st
  ELSE [st EXCEPT !.rev = rev, !.moved = FALSE, !.ready = @ /\ st.rev = 0]

-----------------------------------------------------------------------------
\* append of an event at a stream whose authority confirmed the route (current)
\* or asks only whether it was appended before (recoveryOnly)
Viable(w, rev) ==
  LET g == w.st.holder IN
  /\ w.st.ready
  /\ g # None
  /\ grants[g].status = "active" /\ grants[g].rev = rev /\ ~grantMoved(w.st, g)
  /\ currentSocket(w) # {}

Receipt(r, e) == stream[r].receipts[e]

Answer(w, r, e, rev, current) ==
  IF Receipt(r, e) # 0 THEN "committed"
  ELSE IF ~current \/ Obsolete(stream[r], rev) THEN "transition"
  ELSE IF w.st.gap # NoGap THEN "gap_requires_reset"
  ELSE IF ~Viable(w, rev) THEN "consumer_unavailable"
  ELSE IF Cardinality(w.st.kept) >= setting.retained THEN "stream_full" ELSE "committed"

Inserted(w, e) ==
  LET st == w.st
      put == [w EXCEPT !.st = [st EXCEPT !.next = st.next + 1, !.kept = @ \cup {st.next},
                                         !.receipts[e] = st.next]]
      sockets1 == currentSocket(put)
  IN IF sockets1 = {} THEN put ELSE sendNextEvent(put, CHOOSE s \in sockets1 : TRUE)

\* The stream's part of an append: prune, replay, take over the binding, refuse
\* or insert and push.
Appended(r, e, rev, current) ==
  LET pruned == pruneExpired(r)
      bound == [pruned EXCEPT !.st = requireEffectiveBinding(pruned.st, rev)]
  IN IF Receipt(r, e) # 0 \/ ~current \/ Obsolete(pruned.st, rev) THEN pruned
     ELSE IF Answer(bound, r, e, rev, current) # "committed" THEN bound
     ELSE Inserted(bound, e)

AppendAnswer(r, e, rev, current) ==
  LET pruned == pruneExpired(r) IN
  Answer([pruned EXCEPT !.st = requireEffectiveBinding(pruned.st, rev)], r, e, rev, current)

-----------------------------------------------------------------------------
\* publish(): resolve the route and pin it in the ledger of the group
Running(c) == commands[c].pc # "idle"
Ended(c) == commands' = [commands EXCEPT ![c] = NoCommand]

prepare(c, e) ==
  /\ c \in setting.commands /\ commands[c].pc = "idle" /\ e \in setting.events
  /\ binding.realm # None
  /\ ledger[e].state \in {"none", "pending"}
  /\ ledger' = IF ledger[e].state = "pending" THEN ledger
               ELSE [ledger EXCEPT ![e] = [state |-> "pending", realm |-> binding.realm,
                                           rev |-> binding.rev]]
  /\ commands' = [commands EXCEPT ![c] = [NoCommand EXCEPT !.pc = "append", !.event = e,
                                            !.realm = ledger'[e].realm, !.rev = ledger'[e].rev]]
  /\ history' = IF \E d \in Commands : Running(d) /\ commands[d].event = e
                THEN [history EXCEPT !.overlapped = @ \cup {e}] ELSE history
  /\ UNCHANGED <<setting, binding, interest, notices, posting, stream, grants, sockets,
                 aged, failures>>

\* appendToStream, for a shared route through appendWithDurableEventBindingAuthority
Ready(r, rev) == ~Shared \/ binding = [realm |-> r, rev |-> rev]

Watched(r, rev, byAppend) ==
  IF ~Shared THEN UNCHANGED interest
  ELSE interest' = [interest EXCEPT ![r] = [rev |-> rev, byAppend |-> byAppend]]
\* (after stream' is known: a replayed append leaves the stream at its revision)
Remembered(r, rev, h) == IF Shared /\ stream'[r].rev = rev
                         THEN [h EXCEPT !.forgotten = @ \ {r}] ELSE h
Taught(r, rev, h) == IF Shared /\ rev > stream[r].rev /\ stream[r].holder # None /\ stream[r].kept = {}
                     THEN [h EXCEPT !.taught = @ \cup {r}] ELSE h

append(c) ==
  LET r == commands[c].realm  rev == commands[c].rev  e == commands[c].event
      current == Ready(r, rev)
      answer == AppendAnswer(r, e, rev, current)
  IN
  /\ commands[c].pc = "append"
  /\ Commit(r, Appended(r, e, rev, current))
  /\ IF current THEN Watched(r, rev, TRUE) /\ history' = Taught(r, rev, Remembered(r, rev, Gapped(r)))
     ELSE UNCHANGED interest /\ history' = Gapped(r)
  /\ CASE answer # "transition" ->
            commands' = [commands EXCEPT ![c].pc = "finalize", ![c].outcome = answer]
       [] answer = "transition" /\ Shared /\ ~commands[c].second ->
            commands' = [commands EXCEPT ![c].pc = "resolve"]
       [] OTHER -> Ended(c)
  /\ UNCHANGED <<setting, binding, notices, posting, ledger, grants, aged, failures>>

\* publishAccepted: the outcome is final in the ledger unless it has one
finalize(c) ==
  LET e == commands[c].event IN
  /\ commands[c].pc = "finalize"
  /\ ledger' = IF ledger[e].state # "pending" THEN ledger
               ELSE [ledger EXCEPT ![e].state =
                       IF commands[c].outcome = "committed" THEN "committed" ELSE "rejected"]
  /\ Ended(c)
  /\ UNCHANGED <<setting, binding, interest, notices, posting, stream, grants, sockets,
                 aged, failures, history>>

\* resolveAfterTransition: a command that finds the same route gives up
resolve(c) ==
  /\ commands[c].pc = "resolve"
  /\ IF binding.realm = None
        \/ binding = [realm |-> commands[c].realm, rev |-> commands[c].rev]
     THEN Ended(c)
     ELSE commands' = [commands EXCEPT ![c].pc = "repin", ![c].next = binding]
  /\ UNCHANGED <<setting, binding, interest, notices, posting, ledger, stream, grants,
                 sockets, aged, failures, history>>

SameRoute_FaultUnchecked(c) == TRUE
SameRoute(c) == ledger[commands[c].event].realm = commands[c].realm
repin(c) ==
  LET e == commands[c].event IN
  /\ commands[c].pc = "repin"
  /\ ledger' = IF ledger[e].state # "pending" \/ ~SameRoute(c) THEN ledger
               ELSE [ledger EXCEPT ![e].realm = commands[c].next.realm,
                                   ![e].rev = commands[c].next.rev]
  /\ IF ledger[e].state # "pending" THEN Ended(c)
     ELSE commands' = [commands EXCEPT ![c].pc = "append", ![c].second = TRUE,
                         ![c].realm = ledger'[e].realm, ![c].rev = ledger'[e].rev]
  /\ history' = IF ledger'[e] # ledger[e] /\ ledger[e].realm = commands[c].realm
                   /\ ledger[e].rev # commands[c].rev
                THEN [history EXCEPT !.crossed = @ \cup {e}] ELSE history
  /\ UNCHANGED <<setting, binding, interest, notices, posting, stream, grants, sockets,
                 aged, failures>>

\* A command ends at a wait: an eviction, or an answer that is lost
CommandDies(c) ==
  /\ Running(c) /\ failures < setting.failures
  /\ failures' = failures + 1
  /\ Ended(c)
  /\ UNCHANGED <<setting, binding, interest, notices, posting, ledger, stream, grants, sockets,
                 aged, history>>

-----------------------------------------------------------------------------
\* advanceStateQueryBinding with advanceDurableEventBindings: whoever watches
\* an older revision is sent the new one, in the notice it may still have.
Noticed(r, to) ==
  IF interest[r].rev = 0 THEN notices[r]
  ELSE IF notices[r] # NoNotice THEN [notices[r] EXCEPT !.rev = binding.rev + 1, !.to = to]
  ELSE [prev |-> interest[r].rev, rev |-> binding.rev + 1, to |-> to]

advanceDurableEventBindings(to) ==
  /\ Shared /\ binding.rev < setting.revisions
  /\ to # binding.realm \/ to = None
  /\ binding' = [realm |-> to, rev |-> binding.rev + 1]
  /\ notices' = [r \in Realms |-> Noticed(r, to)]
  /\ history' = [history EXCEPT !.forgotten = @ \cup
       {r \in Realms : notices[r] # NoNotice /\ interest[r].rev \notin {0, notices[r].prev}}]
  /\ UNCHANGED <<setting, interest, posting, ledger, commands, stream, grants, sockets, aged,
                 failures>>

\* pruneDurableEventBindingNotifications: a watcher's row expires.  An append
\* gives it two hours, whatever it had before.
InterestLapses(r) ==
  /\ setting.lapses
  /\ interest[r].byAppend
  /\ interest' = [interest EXCEPT ![r] = NoInterest]
  /\ history' = [history EXCEPT !.forgotten = @ \cup {r}]
  /\ UNCHANGED <<setting, binding, notices, posting, ledger, commands, stream, grants, sockets,
                 aged, failures>>

\* drainDurableEventBindingNotifications and deliverOne: the notice that was
\* read, its arrival at the stream, and what the registry does after the call
claimDue(r) ==
  /\ posting[r] = NoNotice /\ notices[r] # NoNotice
  /\ posting' = [posting EXCEPT ![r] = notices[r]]
  /\ UNCHANGED <<setting, binding, interest, notices, ledger, commands, stream, grants, sockets,
                 aged, failures, history>>

Delivered(r) ==
  /\ posting' = [posting EXCEPT ![r] = NoNotice]
  /\ notices' = IF notices[r].rev = posting[r].rev THEN [notices EXCEPT ![r] = NoNotice]
                ELSE notices
  /\ interest' = IF interest[r].rev = posting[r].prev THEN [interest EXCEPT ![r] = NoInterest]
                 ELSE interest

Stale(st, n) == st.rev = 0 \/ n.rev <= st.rev \/ n.prev # st.rev \/ st.moved

applyBindingNotification(r, n) ==
  LET w == World(r)
      told == [w EXCEPT !.st = [w.st EXCEPT !.rev = n.rev, !.moved = n.to # r, !.ready = FALSE]]
  IN IF Stale(w.st, n) THEN w
     ELSE IF told.st.kept = {} THEN terminateSockets(told, Registered(told, r))
     ELSE told

deliverOne(r) ==
  /\ posting[r] # NoNotice
  /\ Commit(r, applyBindingNotification(r, posting[r]))
  /\ Delivered(r)
  /\ UNCHANGED <<setting, binding, ledger, commands, grants, aged, failures, history>>

\* The call fails, before or after the stream took it; the row stays.
DeliveryFails(r) ==
  /\ posting[r] # NoNotice /\ failures < setting.failures
  /\ failures' = failures + 1
  /\ \/ Commit(r, applyBindingNotification(r, posting[r]))
     \/ UNCHANGED <<stream, sockets>>
  /\ posting' = [posting EXCEPT ![r] = NoNotice]
  /\ UNCHANGED <<setting, binding, interest, notices, ledger, commands, grants, aged, history>>

-----------------------------------------------------------------------------
\* An operator issues a grant, discarding the backlog or not, for the realm
\* the group is bound to (issueWithDurableEventBindingAuthority).
Reset(st) == [NoConsumer(st) EXCEPT !.acked = st.next - 1, !.kept = {}, !.gap = NoGap]

issueGrant(g, resetBacklog) ==
  LET r == binding.realm
      w == World(r)
      bound == requireEffectiveBinding(w.st, binding.rev)
      old == {h \in Grants : grants[h].realm = r /\ grants[h].status \in {"active", "expired"}}
      prior == {s \in Registered(w, r) : w.so[s].grant \in old}
      reset == IF resetBacklog THEN Reset(bound) ELSE NoConsumer(bound)
  IN
  /\ g \in setting.grants /\ grants[g].status = "none"
  /\ resetBacklog => setting.unrest
  /\ r # None
  /\ Watched(r, binding.rev, FALSE)
  /\ IF bound.gap # NoGap /\ ~resetBacklog
     THEN Commit(r, [w EXCEPT !.st = bound]) /\ UNCHANGED grants /\ history' = Remembered(r, binding.rev, history)
     ELSE /\ Commit(r, terminateSockets([w EXCEPT !.st = reset], prior))
          /\ grants' = [h \in Grants |->
                          IF h = g THEN [status |-> "active", realm |-> r, rev |-> binding.rev]
                          ELSE IF h \in old THEN [grants[h] EXCEPT !.status = "replaced"]
                          ELSE grants[h]]
          /\ history' = Remembered(r, binding.rev, IF resetBacklog
                                      THEN [history EXCEPT !.declared[r] = @ \cup bound.kept]
                                      ELSE history)
  /\ UNCHANGED <<setting, binding, notices, posting, ledger, commands, aged, failures>>

revokeGrant(g) ==
  LET r == grants[g].realm  w == World(r) IN
  /\ setting.unrest
  /\ grants[g].status = "active"
  /\ grants' = [grants EXCEPT ![g].status = "revoked"]
  /\ Commit(r, terminateSockets(
       [w EXCEPT !.st = IF w.st.holder = g THEN NoConsumer(w.st) ELSE w.st],
       {s \in Registered(w, r) : w.so[s].grant = g}))
  /\ UNCHANGED <<setting, binding, interest, notices, posting, ledger, commands, aged, failures,
                 history>>

\* A page opens a socket with its grant, registers, handles an event at a time
\* and acknowledges what it handled (public/event-stream/client.js).
acceptDurableEventSocket(s, g) ==
  /\ s \in setting.pages /\ sockets[s].phase = "closed" /\ grants[g].status = "active"
  /\ stream[grants[g].realm].epoch < setting.epochs
  /\ sockets' = [sockets EXCEPT ![s] = [NoSocket EXCEPT !.phase = "open", !.grant = g,
                                                        !.here = TRUE]]
  /\ UNCHANGED <<setting, binding, interest, notices, posting, ledger, commands, stream, grants,
                 aged, failures, history>>

Resumed_FaultSkipsBacklog(st) == st.next - 1
Resumed(st) == st.acked
registerSocket(s) ==
  LET g == sockets[s].grant  r == grants[g].realm  w == World(r)
      epoch == w.st.epoch + 1
      so1 == [x \in Sockets |-> IF x \in Registered(w, r) THEN NoSocket ELSE w.so[x]]
      so2 == [so1 EXCEPT ![s] = [sockets[s] EXCEPT !.phase = "registered", !.epoch = epoch,
                                                   !.sent = Resumed(w.st), !.acked = Resumed(w.st)]]
      st == [w.st EXCEPT !.epoch = epoch, !.holder = g, !.ready = ~grantMoved(w.st, g)]
  IN
  /\ sockets[s].phase = "open" /\ sockets[s].here
  /\ w.st.epoch < setting.epochs
  /\ IF grants[g].status # "active" \/ w.st.gap # NoGap THEN Commit(r, Closed(w, s))
     ELSE Commit(r, sendNextEvent([st |-> st, so |-> so2], s))
  /\ UNCHANGED <<setting, binding, interest, notices, posting, ledger, commands, grants, aged,
                 failures, history>>

PageHandles(s) ==
  /\ sockets[s].phase = "registered" /\ sockets[s].here
  /\ sockets[s].sent > sockets[s].acked /\ sockets[s].ack # sockets[s].sent
  /\ sockets' = [sockets EXCEPT ![s].ack = sockets[s].sent]
  /\ history' = [history EXCEPT !.handled[grants[sockets[s].grant].realm] =
                   @ \cup {sockets[s].sent}]
  /\ UNCHANGED <<setting, binding, interest, notices, posting, ledger, commands, stream, grants,
                 aged, failures>>

\* A handler that fails, a page that is closed, a connection that breaks
PageLeaves(s) ==
  /\ setting.unrest
  /\ sockets[s].here
  /\ sockets' = [sockets EXCEPT ![s].here = FALSE]
  /\ UNCHANGED <<setting, binding, interest, notices, posting, ledger, commands, stream, grants,
                 aged, failures, history>>

\* webSocketClose, webSocketError
closeDurableEventSocket(s) ==
  LET r == grants[sockets[s].grant].realm IN
  /\ sockets[s].phase # "closed" /\ ~sockets[s].here
  /\ Commit(r, terminateSockets(World(r), {s}))
  /\ UNCHANGED <<setting, binding, interest, notices, posting, ledger, commands, grants, aged,
                 failures, history>>

\* acknowledgeSocketEvent: everything up to the event sent is forgotten, and
\* the next one follows; an acknowledgement of anything else ends the socket.
Forgotten(st, q) == {p \in st.kept : p > q}
acknowledgeSocketEvent(s) ==
  LET r == grants[sockets[s].grant].realm
      w == World(r)
      q == sockets[s].ack
      rest == [w EXCEPT !.st = [w.st EXCEPT !.kept = Forgotten(w.st, q), !.acked = q],
                        !.so[s].acked = q, !.so[s].ack = 0]
  IN
  /\ sockets[s].phase = "registered" /\ q # 0
  /\ Commit(r, IF Holds(w, s) /\ q > w.st.acked /\ q \in w.st.kept THEN sendNextEvent(rest, s)
               ELSE terminateSockets(w, {s}))
  /\ UNCHANGED <<setting, binding, interest, notices, posting, ledger, commands, grants, aged,
                 failures, history>>

\* alarm(): expired events, consumers without a grant, a stream that moved away
\* with nothing left
Invalid(w, r) == {s \in Registered(w, r) : grants[w.so[s].grant].status # "active"}
alarm(r) ==
  LET pruned == pruneExpired(r)
      valid == terminateSockets(pruned, Invalid(pruned, r))
      g == valid.st.holder
  IN
  /\ Commit(r, IF valid.st.kept = {} /\ g # None /\ grantMoved(valid.st, g)
               THEN terminateSockets(valid, Registered(valid, r)) ELSE valid)
  /\ history' = Gapped(r)
  /\ UNCHANGED <<setting, binding, interest, notices, posting, ledger, commands, grants, aged,
                 failures>>

\* Time: a grant ends, the retention of the oldest events ends
GrantExpires(g) ==
  /\ setting.ages
  /\ grants[g].status = "active"
  /\ grants' = [grants EXCEPT ![g].status = "expired"]
  /\ UNCHANGED <<setting, binding, interest, notices, posting, ledger, commands, stream, sockets,
                 aged, failures, history>>
EventExpires(r) ==
  /\ setting.ages
  /\ aged[r] + 1 < stream[r].next
  /\ aged' = [aged EXCEPT ![r] = @ + 1]
  /\ UNCHANGED <<setting, binding, interest, notices, posting, ledger, commands, stream, grants,
                 sockets, failures, history>>

-----------------------------------------------------------------------------
Init ==
  /\ setting \in Settings
  /\ binding = [realm |-> Home, rev |-> IF Shared THEN 1 ELSE 0]
  /\ interest = [r \in Realms |-> NoInterest]
  /\ notices = [r \in Realms |-> NoNotice] /\ posting = [r \in Realms |-> NoNotice]
  /\ ledger = [e \in Events |-> NoRow]
  /\ commands = [c \in Commands |-> NoCommand]
  /\ stream = [r \in Realms |-> EmptyStream]
  /\ grants = [g \in Grants |-> NoGrant]
  /\ sockets = [s \in Sockets |-> NoSocket]
  /\ aged = [r \in Realms |-> 0]
  /\ failures = 0
  /\ history = NoHistory

Publication(c) == \/ \E e \in Events : prepare(c, e)
                  \/ append(c) \/ finalize(c) \/ resolve(c) \/ repin(c) \/ CommandDies(c)
Lifecycle == \/ \E to \in Realms \cup {None} : advanceDurableEventBindings(to)
             \/ \E r \in Realms : InterestLapses(r) \/ claimDue(r) \/ deliverOne(r) \/ DeliveryFails(r)
Operator(g) == (\E resetBacklog \in BOOLEAN : issueGrant(g, resetBacklog)) \/ revokeGrant(g)
Connection(s) == \/ \E g \in Grants : acceptDurableEventSocket(s, g)
                 \/ registerSocket(s) \/ PageHandles(s) \/ PageLeaves(s)
                 \/ closeDurableEventSocket(s) \/ acknowledgeSocketEvent(s)

Next == \/ \E c \in Commands : Publication(c)
        \/ Lifecycle
        \/ \E g \in Grants : Operator(g) \/ GrantExpires(g)
        \/ \E s \in Sockets : Connection(s)
        \/ \E r \in Realms : alarm(r) \/ EventExpires(r)

\* Fairness: the registry's alarm delivers its notices; a page handles what it
\* was sent or goes away, and its messages and its end reach the stream.  Each
\* can happen a bounded number of times, so fairness to them together is enough.
\* The stream's alarm is left out: it may be as far away as the end of a grant.
Scheduled ==
  \/ \E r \in Realms : claimDue(r) \/ deliverOne(r)
  \/ \E s \in Sockets : \/ PageHandles(s) \/ acknowledgeSocketEvent(s)
                        \/ closeDurableEventSocket(s)

Spec == Init /\ [][Next]_vars
FairSpec == Spec /\ WF_vars(Scheduled)

-----------------------------------------------------------------------------
Sequences(r) == 1 .. stream[r].next - 1
Consumer(r, s) == Holds(World(r), s) /\ grants[sockets[s].grant].realm = r

\* The tables agree: what is retained lies above what was acknowledged, one
\* socket at most is the consumer of a stream, its attachment follows the
\* acknowledgements, and its grant is the only one that may be active.
TypeOK ==
  /\ setting \in Settings
  /\ binding.realm \in Realms \cup {None} /\ binding.rev \in 0 .. setting.revisions
  /\ \A r \in Realms :
       LET st == stream[r] IN
       /\ st.kept \subseteq st.acked + 1 .. st.next - 1
       /\ Cardinality(st.kept) <= setting.retained
       /\ Range(st.receipts) \ {0} = Sequences(r)
       /\ st.ready => st.holder # None /\ st.gap = NoGap
       /\ Cardinality({s \in Sockets : Consumer(r, s)}) <= 1
       /\ Cardinality({g \in Grants : grants[g].realm = r /\ grants[g].status = "active"}) <= 1
       /\ \A s \in Sockets : Consumer(r, s) => sockets[s].acked = st.acked
  /\ \A e \in Events : ledger[e].state \in {"none", "pending", "committed", "rejected"}

\* docs/durable-event-contract.md:312-345: no accepted event disappears.  Its
\* sequence is retained, or a page has handled it, or its loss was declared; and
\* whatever a page handles, it has handled, or been told of, everything before.
NothingLostSilently ==
  \A r \in Realms :
    LET known == history.handled[r] \cup history.declared[r] IN
    /\ \A q \in Sequences(r) : q \in stream[r].kept \cup known
    /\ \A q \in history.handled[r] : 1 .. q - 1 \subseteq known

\* docs/durable-event-contract.md:302 "prevents that identity from being
\* committed into two physical streams", and the ledger's outcome is the
\* streams'.  But repin compares the route alone: a command that saw the binding
\* on its way back repins what another one pinned to the newer revision
\* (crossed), and then neither holds.  And of two commands of one event at once,
\* each may settle it differently: the ledger keeps the first answer.
OneStreamPerEvent ==
  \A e \in Events \ history.crossed :
    LET where == {r \in Realms : Receipt(r, e) # 0} IN
    /\ Cardinality(where) <= 1
    /\ ledger[e].state = "committed" => where = {ledger[e].realm}
    /\ ledger[e].state = "rejected" /\ e \notin history.overlapped => where = {}

\* Every accepted event is in one stream, and its loss is never silent.
EventsAccounted == NothingLostSilently /\ OneStreamPerEvent

\* A connected consumer with a backlog always has an event in its hands: its
\* acknowledgement brings the next one, so delivery never waits for a publication.
NoStalledConsumer ==
  \A r \in Realms, s \in Sockets :
    /\ Consumer(r, s) /\ stream[r].kept # {}
    => stream[r].gap = NoGap /\ sockets[s].sent > sockets[s].acked

\* A move of the binding away from a consumer's grant is known to its stream, or
\* on its way there in a notice the stream will accept; or the registry's
\* interest in the stream lapsed, or two moves share a notice (see README).
Known(r, g) == \/ grantMoved(stream[r], g)
               \/ \E n \in {notices[r], posting[r]} : n # NoNotice /\ ~Stale(stream[r], n)
Selected(g) == binding = [realm |-> grants[g].realm, rev |-> grants[g].rev]
MovesAccounted ==
  \A r \in Realms :
    LET g == stream[r].holder IN
    g # None => Selected(g) \/ Known(r, g) \/ r \in history.forgotten

\* What a consumer depends on is on its way: its next event, and the news of a move.
ConsumersServed == NoStalledConsumer /\ MovesAccounted

\* docs/durable-event-contract.md:392-399: a consumer whose grant is no longer of
\* the binding selected drains what was retained and is told, with no further
\* publication (but for a lapsed interest, and for a stream that a publication
\* taught the move before the notice came: the notice is stale then, and a
\* consumer with nothing to drain stays connected, see README).
LeftBehind(r) == /\ r \notin history.forgotten \cup history.taught
                 /\ \E s \in Sockets : Consumer(r, s) /\ ~Selected(sockets[s].grant)
MovedConsumerTold == \A r \in Realms : LeftBehind(r) ~> ~LeftBehind(r)
=============================================================================

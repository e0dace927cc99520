--------------------------- MODULE StateQueryObserver --------------------------
(***************************************************************************)
(* Live state queries, src/src/state-querying/: the observer object of a   *)
(* group keeps one row per query with its last result, watches the sources *)
(* the result was read from, evaluates a query again when a source says it *)
(* changed, and publishes the results to the pages over WebSockets.        *)
(*                                                                         *)
(* Outside the observer: the sources (the group's own state, realms of     *)
(* shareable state and the binding that selects one), which keep a watcher *)
(* and a notification to deliver; the grant; and the page (browser client).*)
(* A handler of the observer is one action per stretch between two calls   *)
(* to another object: everything else may happen in between.               *)
(***************************************************************************)
EXTENDS Integers, FiniteSets

CONSTANTS Pages,    \* browser pages, each with one socket and one subscription
          Keys,     \* names of their queries; "shared" reads a realm, the others the group's state
          Attempts, \* ATTACH_ATTEMPTS, evaluations until one is given up
          Settings  \* what a behaviour meets, see SettingsAssumption

ASSUME SettingsAssumption ==
  /\ Attempts \in Nat \ {0}
  /\ Settings \subseteq [pages : SUBSET Pages, keys : SUBSET Keys, commits : Nat,
                         moves : BOOLEAN, revokes : BOOLEAN, losses : Nat, delays : Nat]

VARIABLES
  setting,  \* chosen at the start
  source,   \* per edge: revision, whether the observer watches it, whether it owes a notification
  bound,    \* realm the binding selects, or "moving"
  grant,    \* read grant of the pages: revoked, invalidation to deliver, known to the observer
  row,      \* state_query_observer_queries with their query_sources
  edge,     \* state_query_observer_sources; stray (history): made active when no query used it
  seen,     \* highest revision in the inbox of notifications
  ev,       \* evaluations in progress, by query and by who asked
  alarm,    \* the alarm handler
  sub,      \* stream subscription: its lease, and what was last published of each query
  reg,      \* registration handler of the page's socket
  link,     \* the registered socket: event in flight, and history after it
  page,     \* the client: connection and the results it shows
  late,     \* pages with an older socket whose close the observer has not handled
  det,      \* the detach of an edge, by the call it waits for
  faults,   \* lost calls, dropped sockets and restarts so far; alarms that came too late
  history   \* pages that lost an update, or their rows, while they registered

vars == <<setting, source, bound, grant, row, edge, seen, ev, alarm, sub, reg, link, page, late,
          det, faults, history>>

Realms == {"first", "second"}
Edges == Realms \cup {"local", "binding"}
Users == {"alarm", "register"}

\* A result is a pair of where it was read and the revision it was read at
Transitioning == <<"transitioning", 0>>
Unavailable == <<"unavailable", 0>>
Ended == <<"ended", 0>>
Nothing == <<"nothing", 0>>
Ready(val) == val[1] \in Realms \cup {"local"}

NoRow == [state |-> "none", val |-> Nothing, seq |-> 0, pending |-> FALSE, edges |-> {}]
NoEdge == [state |-> "none", expected |-> 0, stray |-> FALSE]
NoDetach == [pc |-> "idle", expected |-> 0, revision |-> 0]
NoEval == [pc |-> "idle", val |-> Nothing, exp |-> <<>>, todo |-> {}, fresh |-> {}, bad |-> FALSE,
           tries |-> 0]
NoAlarm == [pc |-> "idle", todo |-> {}, done |-> {}]
Reads(n) == [NoEval EXCEPT !.pc = "read", !.tries = n]
NoReg == [on |-> FALSE, got |-> <<>>]
NoEvent == [kind |-> "none", results |-> <<>>]
NoLink == [flight |-> NoEvent, backlog |-> NoEvent, gap |-> FALSE]
Untold == [k \in Keys |-> [seq |-> 0, bind |-> ""]]
Blank == [k \in Keys |-> [val |-> Nothing, seq |-> 0]]

Queries == Pages \X Keys
Mine(p) == {p} \X setting.keys
Asked == setting.pages \X setting.keys
Current(k) == IF k # "shared" THEN <<"local", source["local"].rev>>
              ELSE IF bound = "moving" THEN Transitioning ELSE <<bound, source[bound].rev>>

Fault == faults.losses < setting.losses /\ faults' = [faults EXCEPT !.losses = @ + 1]

-----------------------------------------------------------------------------
\* Variants named X_Fault are faults a change to X could introduce; nothing
\* uses them, and with X replaced by one a property of this module fails.

(* The tables of the observer *)

\* Queries whose lease has not run out, the ones this alarm renewed included
Alive == {q \in Queries : sub[q[1]].lease \in {"fresh", "due"}} \cup alarm.done

Used(rows) == UNION {rows[q].edges : q \in Queries}
markOrphanSources_FaultKeeps(rows, edges) == edges
markOrphanSources(rows, edges) ==
  [e \in Edges |-> IF edges[e].state = "active" /\ e \notin Used(rows)
                   THEN [edges[e] EXCEPT !.state = "detaching"] ELSE edges[e]]
pruneExpiredQueries_FaultDenied(rows, alive) ==
  [q \in Queries |-> IF q \in alive \/ rows[q].state = "active" THEN rows[q] ELSE NoRow]
pruneExpiredQueries(rows, alive) == [q \in Queries |-> IF q \in alive THEN rows[q] ELSE NoRow]

\* What a handler leaves behind: scheduleLiveObservationAlarm prunes. Orphans are looked for
\* when a query was stored, denied or removed, here or by the handler itself ("gives").
Observe(gives, rows, edges, alive) ==
  LET left == pruneExpiredQueries(rows, alive)
  IN /\ row' = left
     /\ edge' = IF gives \/ left # rows THEN markOrphanSources(left, edges) ELSE edges

denyQuery(r) == IF r.state = "none" THEN r
                ELSE [r EXCEPT !.state = "denied", !.pending = FALSE, !.edges = {}]
retryQuery(r) == IF r.state = "none" THEN r ELSE [r EXCEPT !.pending = TRUE]
Without(rows, qs) == [q \in Queries |-> IF q \in qs THEN NoRow ELSE rows[q]]

-----------------------------------------------------------------------------
(* The streams: events, and the one in flight on each socket *)

Public(r) == [val |-> IF r.state = "active" THEN r.val ELSE Ended, seq |-> r.seq]

latestResults(old, new) ==
  [k \in DOMAIN old \cup DOMAIN new |-> IF k \in DOMAIN new THEN new[k] ELSE old[k]]

\* A socket has one event in flight; the history after it is sent merged, once it is acknowledged
sendSocketEvent(l, event, moved) ==
  IF l.flight.kind = "none" THEN [l EXCEPT !.flight = event]
  ELSE IF l.gap \/ (moved /\ l.backlog.kind # "none")
  THEN [l EXCEPT !.gap = TRUE, !.backlog = NoEvent]      \* a new source voids the history
  ELSE [l EXCEPT !.backlog =
          [kind |-> IF "status" \in {event.kind, @.kind} THEN "status" ELSE "update",
           results |-> latestResults(@.results, event.results)]]

Changed(p, rows) ==
  {k \in setting.keys : /\ sub[p].told[k].seq # 0
                        /\ \/ rows[<<p, k>>].state # "active"
                           \/ rows[<<p, k>>].seq # sub[p].told[k].seq}
EventFor(p, rows) ==
  [kind |-> IF \E k \in Changed(p, rows) : rows[<<p, k>>].state # "active" THEN "status" ELSE "update",
   results |-> [k \in Changed(p, rows) |-> Public(rows[<<p, k>>])]]
Moved(p, rows) ==
  \E k \in Changed(p, rows) : /\ rows[<<p, k>>].state = "active"
                              /\ rows[<<p, k>>].val[1] # sub[p].told[k].bind
Told(r, old) == IF r.state = "none" THEN old ELSE [seq |-> r.seq, bind |-> r.val[1]]

\* publishStateQueryStreamUpdates
ToldAfter(p, rows) ==
  [k \in Keys |-> IF k \in Changed(p, rows) THEN Told(rows[<<p, k>>], sub[p].told[k])
                  ELSE sub[p].told[k]]
LinkAfter(p, rows) ==
  IF page[p].state = "live" /\ Changed(p, rows) # {}
  THEN sendSocketEvent(link[p], EventFor(p, rows), Moved(p, rows)) ELSE link[p]

replacementSnapshot(p) ==
  LET ks == {k \in setting.keys : sub[p].told[k].seq # 0}
  IN [kind |-> IF \E k \in ks : row[<<p, k>>].state # "active" THEN "status" ELSE "snapshot",
      results |-> [k \in ks |-> Public(row[<<p, k>>])]]

-----------------------------------------------------------------------------
(* The sources *)

\* The triggers of the state tables, and advanceStateQueryBinding
Bump(sources, e) == [sources EXCEPT ![e].rev = @ + 1, ![e].out = @ \/ sources[e].watch]
Unwatched(e) == [source[e] EXCEPT !.watch = FALSE, !.out = FALSE]
Unwatch(e) == [source EXCEPT ![e] = Unwatched(e)]

Commit(e) ==
  /\ e = "local" \/ (e = bound /\ "shared" \in setting.keys)
  /\ source["local"].rev + source["first"].rev + source["second"].rev < setting.commits
  /\ source' = Bump(source, e)
  /\ UNCHANGED <<setting, bound, grant, row, edge, seen, ev, alarm, sub, reg, link, page, late,
                 det, faults, history>>

BindingLeaves ==
  /\ setting.moves /\ bound = "first" /\ bound' = "moving"
  /\ source' = Bump(source, "binding")
  /\ UNCHANGED <<setting, grant, row, edge, seen, ev, alarm, sub, reg, link, page, late, det,
                 faults, history>>

BindingArrives ==
  /\ bound = "moving" /\ bound' = "second"
  /\ source' = Bump(source, "binding")
  /\ UNCHANGED <<setting, grant, row, edge, seen, ev, alarm, sub, reg, link, page, late, det,
                 faults, history>>

\* A delivery whose answer is lost is repeated
deliverOne(e) ==
  /\ source[e].out
  /\ \/ source' = [source EXCEPT ![e].out = FALSE] /\ UNCHANGED faults
     \/ Fault /\ UNCHANGED source

\* A revision beyond those seen makes the queries that use the edge pending
invalidateForNotification(e) ==
  [q \in Queries |-> IF source[e].rev > seen[e] /\ e \in row[q].edges
                     THEN [row[q] EXCEPT !.pending = TRUE] ELSE row[q]]
receiveNotification(e) ==
  /\ deliverOne(e)
  /\ seen' = [seen EXCEPT ![e] = source[e].rev]
  /\ Observe(FALSE, invalidateForNotification(e), edge, Alive)
  /\ UNCHANGED <<setting, bound, grant, ev, alarm, sub, reg, link, page, late, det, history>>

\* The source's own lease of a watcher ends, once nothing renews it
WatchLapses(e) ==
  /\ source[e].watch
  /\ ~\E q \in Alive : e \in row[q].edges
  /\ ~\E q \in Queries, by \in Users :
        ev[<<q, by>>].pc = "attach" /\ e \in DOMAIN ev[<<q, by>>].exp \ ev[<<q, by>>].todo
  /\ source' = Unwatch(e)
  /\ UNCHANGED <<setting, bound, grant, row, edge, seen, ev, alarm, sub, reg, link, page, late,
                 det, faults, history>>

-----------------------------------------------------------------------------
(* The grant *)

revokeGrant ==
  /\ setting.revokes /\ ~grant.revoked
  /\ grant' = [grant EXCEPT !.revoked = TRUE, !.out = TRUE]
  /\ UNCHANGED <<setting, source, bound, row, edge, seen, ev, alarm, sub, reg, link, page, late,
                 det, faults, history>>

invalidateStateQueryGrant(denied) ==
  /\ sub' = [p \in Pages |-> [sub[p] EXCEPT !.told = ToldAfter(p, denied)]]
  /\ link' = [p \in Pages |-> LinkAfter(p, denied)]
  /\ Observe(denied # row, denied, edge, Alive)

invalidateLiveQueriesForGrant == [q \in Queries |-> denyQuery(row[q])]
deliverGrantInvalidation ==
  /\ grant.out
  /\ \/ grant' = [grant EXCEPT !.out = FALSE, !.barred = TRUE] /\ UNCHANGED faults
     \/ Fault /\ grant' = [grant EXCEPT !.barred = TRUE]
  /\ invalidateStateQueryGrant(invalidateLiveQueriesForGrant)
  /\ UNCHANGED <<setting, source, bound, seen, ev, alarm, reg, page, late, det, history>>

-----------------------------------------------------------------------------
(* Registration of a socket *)

\* cleanupExpiredStateQueryStreams: subscriptions whose lease is over go, with their sockets
Over == {p \in Pages : sub[p].lease = "over"}
Gone == [lease |-> "absent", told |-> Untold]
Swept(pages) == [p \in Pages |-> IF p \in Over /\ pages[p].state = "live"
                                 THEN [pages[p] EXCEPT !.state = "ended"] ELSE pages[p]]
\* Only the queries with a stream row
RowsOf(ps) == {q \in Queries : q[1] \in ps /\ sub[q[1]].told[q[2]].seq # 0}
removeSubscriptionQueries(ps) ==
  Observe(RowsOf(ps) # {}, Without(row, RowsOf(ps)), edge, Alive)

connect(p) ==
  /\ p \in setting.pages /\ page[p].state = "offline" /\ ~reg[p].on
  /\ IF grant.revoked
     THEN /\ page' = [page EXCEPT ![p].state = "ended"]
          /\ UNCHANGED <<row, edge, ev, sub, reg, link, history>>
     ELSE /\ page' = [Swept(page) EXCEPT ![p].state = "joining"]
          /\ sub' = [s \in Pages |-> IF s = p THEN [lease |-> "fresh", told |-> Untold]
                                     ELSE IF s \in Over THEN Gone ELSE sub[s]]
          /\ link' = [s \in Pages |-> IF s \in Over \cup {p} THEN NoLink ELSE link[s]]
          /\ reg' = [reg EXCEPT ![p].on = TRUE]
          /\ \E k \in setting.keys : ev' = [ev EXCEPT ![<<<<p, k>>, "register">>] = Reads(1)]
          /\ history' = [lost |-> history.lost \ {p}, removed |-> history.removed \ {p}]
          /\ removeSubscriptionQueries(Over \cup {p})
  /\ UNCHANGED <<setting, source, bound, grant, seen, alarm, late, det, faults>>

\* The registration gives its queries up; the page comes back unless it was refused
RegistrationFails(p, then, stored, edges) ==
  /\ reg' = [reg EXCEPT ![p] = NoReg]
  /\ sub' = [sub EXCEPT ![p] = [lease |-> "over", told |-> Untold]]
  /\ page' = [page EXCEPT ![p].state = then]
  /\ Observe(stored \/ RowsOf({p}) # {}, Without(row, RowsOf({p})), edges, Alive)

\* A query was attached: its stream row, then the next one, or the snapshot of all
registered(p, k, r) ==
  LET got == latestResults(reg[p].got, [n \in {k} |-> Public(r)])
      told == [sub[p].told EXCEPT ![k] = [seq |-> r.seq, bind |-> r.val[1]]]
      stop == [ev EXCEPT ![<<<<p, k>>, "register">>] = NoEval]
  IN /\ sub' = [sub EXCEPT ![p].told = told]
     /\ IF DOMAIN got # setting.keys
        THEN /\ \E n \in setting.keys \ DOMAIN got : ev' = [stop EXCEPT ![<<<<p, n>>, "register">>] = Reads(1)]
             /\ reg' = [reg EXCEPT ![p].got = got]
             /\ UNCHANGED <<link, page, history>>
        ELSE /\ ev' = stop
             /\ reg' = [reg EXCEPT ![p] = NoReg]
             /\ page' = [page EXCEPT ![p].state = "live"]
             /\ link' = [link EXCEPT ![p].flight = [kind |-> "snapshot", results |-> got]]
             /\ history' = [history EXCEPT !.lost =
                  IF \E n \in setting.keys : told[n].seq # got[n].seq THEN @ \cup {p} ELSE @]

-----------------------------------------------------------------------------
(* evaluateAttachAndSwap: read the query, watch what it was read from, and *)
(* store the result if nothing changed in between                          *)

Becomes(q, by, record) == ev' = [ev EXCEPT ![<<q, by>>] = record]
\* Watches the observer had no row for when it began to attach: undone on a mismatch
Attaching(evaluation, val, exp) ==
  [evaluation EXCEPT !.pc = "attach", !.val = val, !.exp = exp, !.todo = DOMAIN exp,
                     !.fresh = {e \in DOMAIN exp : edge[e].state = "none"}, !.bad = FALSE]

\* The evaluator returns one consistent reading: it compares the revisions and the binding
\* before and after
Reading(k) == IF k = "shared"
              THEN [e \in {bound, "binding"} |-> source[e].rev]
              ELSE [e \in {"local"} |-> source[e].rev]

\* Without a reading, the binding is watched, at the revision of a call of its own
AfterReading(q, by, val) ==
  Becomes(q, by, IF Ready(val) THEN Attaching(ev[<<q, by>>], val, Reading(q[2]))
                 ELSE IF q[2] = "shared" THEN [ev[<<q, by>>] EXCEPT !.pc = "binding", !.val = val]
                 ELSE Attaching(ev[<<q, by>>], val, <<>>))

authorizedEvaluation(q, by) ==
  /\ ev[<<q, by>>].pc = "read" /\ ~grant.revoked
  /\ \/ AfterReading(q, by, Current(q[2])) /\ UNCHANGED faults
     \/ Fault /\ AfterReading(q, by, Unavailable)
  /\ UNCHANGED <<setting, source, bound, grant, row, edge, seen, alarm, sub, reg, link, page,
                 late, det, history>>

\* An evaluation ends without a result: the query is tried again, or the page connects again
EvaluationFails(q, by) ==
  /\ Becomes(q, by, NoEval)
  /\ IF by = "register" THEN RegistrationFails(q[1], "offline", FALSE, edge)
     ELSE /\ Observe(FALSE, [row EXCEPT ![q] = retryQuery(@)], edge, Alive)
          /\ UNCHANGED <<sub, reg, page>>

refused(q, by) ==
  /\ ev[<<q, by>>].pc = "read" /\ grant.revoked
  /\ Becomes(q, by, NoEval)
  /\ IF by = "register" THEN RegistrationFails(q[1], "ended", FALSE, edge)
     ELSE /\ Observe(TRUE, [row EXCEPT ![q] = denyQuery(@)], edge, Alive)
          /\ UNCHANGED <<sub, reg, page>>
  /\ UNCHANGED <<setting, source, bound, grant, seen, alarm, link, late, det, faults, history>>

bindingDescriptorsForPlan(q, by) ==
  /\ ev[<<q, by>>].pc = "binding"
  /\ Becomes(q, by, Attaching(ev[<<q, by>>], ev[<<q, by>>].val,
                              [e \in {"binding"} |-> source["binding"].rev]))
  /\ UNCHANGED <<setting, source, bound, grant, row, edge, seen, alarm, sub, reg, link, page,
                 late, det, faults, history>>

\* The source tells whether its revision is the expected one
Watched(e) == [source EXCEPT ![e].watch = TRUE]
registerDescriptor(q, by, e) ==
  /\ ev[<<q, by>>].pc = "attach" /\ e \in ev[<<q, by>>].todo
  /\ source' = Watched(e)
  /\ LET bad == ev[<<q, by>>].bad \/ source[e].rev # ev[<<q, by>>].exp[e]
     IN Becomes(q, by, [ev[<<q, by>>] EXCEPT !.bad = bad, !.todo = @ \ {e}])
  /\ UNCHANGED <<setting, bound, grant, row, edge, seen, alarm, sub, reg, link, page, late, det,
                 faults, history>>

\* The dependencies changed while they were attached: the new watches are given up
unregisterDescriptor(q, by) ==
  [e \in Edges |-> IF e \in ev[<<q, by>>].fresh THEN Unwatched(e) ELSE source[e]]
again(q, by) ==
  /\ ev[<<q, by>>].pc = "attach" /\ ev[<<q, by>>].todo = {} /\ ev[<<q, by>>].bad
  /\ source' = unregisterDescriptor(q, by)
  /\ IF ev[<<q, by>>].tries < Attempts
     THEN /\ Becomes(q, by, Reads(ev[<<q, by>>].tries + 1))
          /\ UNCHANGED <<row, edge, sub, reg, page>>
     ELSE EvaluationFails(q, by)
  /\ UNCHANGED <<setting, bound, grant, seen, alarm, link, late, det, faults, history>>

\* A call to a source fails: what was registered there stays until its lease ends
callFails(q, by) ==
  /\ ev[<<q, by>>].pc \in {"binding", "attach"} /\ (ev[<<q, by>>].pc = "attach" => ev[<<q, by>>].todo # {})
  /\ Fault /\ EvaluationFails(q, by)
  /\ UNCHANGED <<setting, source, bound, grant, seen, alarm, link, late, det, history>>

Stored(r, val) ==
  [NoRow EXCEPT !.state = "active", !.val = val, !.pending = val = Unavailable,
                !.seq = IF r.state = "none" THEN 1 ELSE IF r.val = val THEN r.seq ELSE r.seq + 1]

Expected(exp) ==
  [e \in Edges |-> IF e \in DOMAIN exp THEN [NoEdge EXCEPT !.state = "active", !.expected = exp[e]]
                   ELSE edge[e]]

\* Clears what a notification that arrived since the edges matched left pending
storeEvaluation(q, by) ==
  LET exp == ev[<<q, by>>].exp
      r == [Stored(row[q], ev[<<q, by>>].val) EXCEPT !.edges = DOMAIN exp]
  IN /\ ev[<<q, by>>].pc = "attach" /\ ev[<<q, by>>].todo = {} /\ ~ev[<<q, by>>].bad
     /\ IF by = "register" /\ grant.barred
        THEN /\ Becomes(q, by, NoEval)
             /\ RegistrationFails(q[1], "ended", TRUE, Expected(exp)) /\ UNCHANGED <<link, history>>
        ELSE /\ Observe(TRUE, [row EXCEPT ![q] = r], Expected(exp), Alive)
             /\ IF by = "register" THEN registered(q[1], q[2], r)
                ELSE Becomes(q, by, NoEval) /\ UNCHANGED <<reg, sub, link, page, history>>
     /\ UNCHANGED <<setting, source, bound, grant, seen, alarm, late, det, faults>>

-----------------------------------------------------------------------------
(* alarm: renew the leases of connected pages, evaluate what is pending, publish *)

\* socketForSubscription: an older socket the page has given up counts
Socketed(p) == page[p].state = "live" \/ p \in late
Listed(p) == {q \in Mine(p) : sub[p].told[q[2]].seq # 0}
Renewable(p) == Socketed(p) /\ ~grant.barred /\ \A q \in Listed(p) : row[q].state = "active"
NeedsRenewal == {p \in Pages : sub[p].lease \in {"due", "over"} /\ Socketed(p) /\ ~grant.barred}
Pending == {q \in Queries : row[q].state = "active" /\ row[q].pending}

alarmFires ==
  /\ alarm.pc = "idle"
  /\ Pending # {} \/ Over # {} \/ \E p \in NeedsRenewal : Renewable(p)
  /\ alarm' = [NoAlarm EXCEPT !.pc = "renew", !.todo = UNION {Listed(p) : p \in NeedsRenewal}]
  /\ sub' = [p \in Pages |-> IF p \in NeedsRenewal /\ Listed(p) = {}
                             THEN [sub[p] EXCEPT !.lease = "fresh"] ELSE sub[p]]
  /\ UNCHANGED <<setting, source, bound, grant, row, edge, seen, ev, reg, link, page, late, det,
                 faults, history>>

\* All edges of a query are registered again; one that moved on makes the query pending
Mismatched_FaultTrusts(es) == FALSE
Mismatched(es) == \E e \in es : edge[e].expected # source[e].rev

renewLiveStateQuery(q) ==
  LET p == q[1]
      es == {e \in row[q].edges : edge[e].state = "active"}
      renewed == IF Mismatched(es) THEN [row EXCEPT ![q].pending = TRUE] ELSE row
  IN /\ alarm.pc = "renew" /\ q \in alarm.todo
     /\ row[q].state = "active" /\ ~grant.barred
     /\ source' = [e \in Edges |-> [source[e] EXCEPT !.watch = @ \/ e \in es]]
     /\ alarm' = [alarm EXCEPT !.todo = @ \ {q}, !.done = @ \cup {q}]
     /\ sub' = IF alarm.todo \cap Mine(p) = {q} THEN [sub EXCEPT ![p].lease = "fresh"] ELSE sub
     /\ Observe(FALSE, renewed, edge, Alive \cup {q})
     /\ UNCHANGED <<setting, bound, grant, seen, ev, reg, link, page, late, det, faults, history>>

\* No such query, a denied one, or a call that fails: the page's lease is left as it is
renewalFails(q) ==
  /\ alarm.pc = "renew" /\ q \in alarm.todo
  /\ IF row[q].state = "active" /\ ~grant.barred THEN Fault ELSE UNCHANGED faults
  /\ alarm' = [alarm EXCEPT !.todo = @ \ Mine(q[1])]
  /\ UNCHANGED <<setting, source, bound, grant, row, edge, seen, ev, sub, reg, link, page, late,
                 det, history>>

claimDueQueries ==
  /\ alarm.pc = "renew" /\ alarm.todo = {}
  /\ LET due == Pending \cap Alive
     IN ev' = [c \in Queries \X Users |->
                 IF c[2] = "alarm" /\ c[1] \in due THEN Reads(1)
                 ELSE ev[c]]
  /\ Observe(FALSE, row, edge, Alive)
  /\ alarm' = [alarm EXCEPT !.pc = "drain", !.done = {}]
  /\ UNCHANGED <<setting, source, bound, grant, seen, sub, reg, link, page, late, det, faults,
                 history>>

publishStateQueryStreamUpdates ==
  /\ alarm.pc = "drain" /\ \A q \in Queries : ev[<<q, "alarm">>].pc = "idle"
  /\ alarm' = NoAlarm
  /\ LET rows == pruneExpiredQueries(row, Alive)
     IN /\ sub' = [p \in Pages |-> IF p \in Over THEN Gone
                                   ELSE [sub[p] EXCEPT !.told = ToldAfter(p, rows)]]
        /\ link' = [p \in Pages |-> IF p \in Over THEN NoLink ELSE LinkAfter(p, rows)]
        /\ page' = Swept(page)
        /\ Observe(rows # row \/ RowsOf(Over) # {}, Without(rows, RowsOf(Over)), edge, Alive)
  /\ UNCHANGED <<setting, source, bound, grant, seen, ev, reg, late, det, faults, history>>

\* Unregister an edge, one detach of it at a time
cleanupDetachedSources(e) ==
  /\ edge[e].state = "detaching" /\ det[e].pc = "idle"
  /\ source' = Unwatch(e) /\ det' = [det EXCEPT ![e].pc = "gone"]
  /\ UNCHANGED <<setting, bound, grant, row, edge, seen, ev, alarm, sub, reg, link, page, late,
                 faults, history>>

\* Then look at the row again: unless a query uses it by now it goes
examine(e) ==
  /\ det[e].pc = "gone"
  /\ IF e \in Used(row)
     THEN /\ det' = [det EXCEPT ![e] = [NoDetach EXCEPT !.pc = "asks", !.expected = edge[e].expected]]
          /\ UNCHANGED edge
     ELSE /\ det' = [det EXCEPT ![e] = NoDetach]
          /\ edge' = IF edge[e].state = "detaching" THEN [edge EXCEPT ![e] = NoEdge] ELSE edge
  /\ UNCHANGED <<setting, source, bound, grant, row, seen, ev, alarm, sub, reg, link, page, late,
                 faults, history>>

\* The source watches again, and answers with its revision
reattach(e) ==
  /\ det[e].pc = "asks"
  /\ source' = Watched(e)
  /\ det' = [det EXCEPT ![e].pc = "answered", ![e].revision = source[e].rev]
  /\ UNCHANGED <<setting, bound, grant, row, edge, seen, ev, alarm, sub, reg, link, page, late,
                 faults, history>>

\* The edge becomes active whatever became of the queries that used it
Reattached(e) ==
  {q \in Queries : e \in row[q].edges /\ det[e].revision # det[e].expected}
detach(e) ==
  /\ det[e].pc = "answered" /\ det' = [det EXCEPT ![e] = NoDetach]
  /\ Observe(FALSE,
             [q \in Queries |-> IF q \in Reattached(e) THEN [row[q] EXCEPT !.pending = TRUE] ELSE row[q]],
             [edge EXCEPT ![e] = [state |-> "active", expected |-> det[e].revision,
                                  stray |-> e \notin Used(row)]], Alive)
  /\ UNCHANGED <<setting, source, bound, grant, seen, ev, alarm, sub, reg, link, page, late, faults,
                 history>>

\* A call fails or its answer is lost: tried again, while the edge is still detaching
detachFails(e) ==
  /\ det[e].pc # "idle" /\ det' = [det EXCEPT ![e] = NoDetach] /\ Fault
  /\ UNCHANGED <<setting, source, bound, grant, row, edge, seen, ev, alarm, sub, reg, link, page, late,
                 history>>

-----------------------------------------------------------------------------
(* The page and its socket *)

Showing(p, state, shown) == page' = [page EXCEPT ![p] = [state |-> state, shown |-> shown]]

acceptEvent(p, event) ==
  LET old == IF event.kind = "snapshot" THEN Blank ELSE page[p].shown
  IN [k \in Keys |-> IF k \in DOMAIN event.results /\ event.results[k].seq > old[k].seq
                     THEN event.results[k] ELSE old[k]]

\* handleStateQueryStreamMessage: the history after the acknowledged event, or a snapshot
eventAfterSequence_FaultForgets(p) == IF sub[p].lease = "absent" THEN NoEvent ELSE link[p].backlog
eventAfterSequence(p) ==
  IF sub[p].lease = "absent" THEN NoEvent
  ELSE IF link[p].gap THEN replacementSnapshot(p) ELSE link[p].backlog

\* A page shows the results and acknowledges; one that is told of the end closes its socket
onMessage(p) ==
  /\ link[p].flight.kind # "none"
  /\ IF link[p].flight.kind = "status"
     THEN /\ Showing(p, "ended", Blank)
          /\ link' = [link EXCEPT ![p] = NoLink] /\ late' = late \cup {p}
     ELSE /\ Showing(p, "live", acceptEvent(p, link[p].flight))
          /\ link' = [link EXCEPT ![p] = [NoLink EXCEPT !.flight = eventAfterSequence(p)]]
          /\ UNCHANGED late
  /\ UNCHANGED <<setting, source, bound, grant, row, edge, seen, ev, alarm, sub, reg, det, faults,
                 history>>

\* pruneHistory: what a page did not fetch in time
pruneHistory(p) ==
  /\ link[p].backlog.kind # "none"
  /\ link' = [link EXCEPT ![p].backlog = NoEvent, ![p].gap = TRUE]
  /\ UNCHANGED <<setting, source, bound, grant, row, edge, seen, ev, alarm, sub, reg, page, late,
                 det, faults, history>>

\* A live page loses its connection, and the observer hears of it later
onClose(p) ==
  /\ page[p].state = "live" /\ Fault
  /\ Showing(p, "offline", Blank)
  /\ link' = [link EXCEPT ![p] = NoLink] /\ late' = late \cup {p}
  /\ UNCHANGED <<setting, source, bound, grant, row, edge, seen, ev, alarm, sub, reg, det, history>>

closeStateQueryStream(p) ==
  IF page[p].state = "live" THEN UNCHANGED <<row, edge, sub, history>>
  ELSE /\ removeSubscriptionQueries({p})
       /\ sub' = [sub EXCEPT ![p].told = Untold]
       /\ history' = IF ~reg[p].on THEN history
                     ELSE [history EXCEPT !.removed = @ \cup {p}]
webSocketClose(p) ==
  /\ p \in late /\ late' = late \ {p}
  /\ closeStateQueryStream(p)
  /\ UNCHANGED <<setting, source, bound, grant, seen, ev, alarm, reg, link, page, det, faults>>

\* A lease that an alarm in time would have renewed ends only by a late alarm.
\* A registration ends before the lease it began with.
Expires(p, then) == sub' = [sub EXCEPT ![p].lease = then]
LeaseAges(p) ==
  /\ ~reg[p].on
  /\ \/ sub[p].lease = "fresh" /\ Expires(p, "due")
     \/ sub[p].lease = "due" /\ ~Renewable(p) /\ Expires(p, "over")
  /\ UNCHANGED <<setting, source, bound, grant, row, edge, seen, ev, alarm, reg, link, page, late,
                 det, faults, history>>
AlarmComesLate(p) ==
  /\ ~reg[p].on /\ sub[p].lease = "due" /\ Renewable(p)
  /\ faults.delays < setting.delays /\ faults' = [faults EXCEPT !.delays = @ + 1]
  /\ Expires(p, "over")
  /\ UNCHANGED <<setting, source, bound, grant, row, edge, seen, ev, alarm, reg, link, page, late,
                 det, history>>

\* The tables and the alarm survive; handlers and sockets do not
Restart ==
  /\ Fault
  /\ alarm' = NoAlarm /\ det' = [e \in Edges |-> NoDetach] /\ late' = {}
  /\ ev' = [c \in Queries \X Users |-> NoEval]
  /\ reg' = [p \in Pages |-> NoReg] /\ link' = [p \in Pages |-> NoLink]
  /\ page' = [p \in Pages |-> IF page[p].state \in {"live", "joining"}
                              THEN [state |-> "offline", shown |-> Blank] ELSE page[p]]
  /\ UNCHANGED <<setting, source, bound, grant, row, edge, seen, sub, history>>

-----------------------------------------------------------------------------
(* The specification *)

Init ==
  /\ setting \in Settings
  /\ source = [e \in Edges |-> [rev |-> 0, watch |-> FALSE, out |-> FALSE]]
  /\ bound = "first"
  /\ grant = [revoked |-> FALSE, out |-> FALSE, barred |-> FALSE]
  /\ row = [q \in Queries |-> NoRow]
  /\ edge = [e \in Edges |-> NoEdge]
  /\ seen = [e \in Edges |-> 0]
  /\ ev = [c \in Queries \X Users |-> NoEval]
  /\ alarm = NoAlarm
  /\ sub = [p \in Pages |-> Gone]
  /\ reg = [p \in Pages |-> NoReg]
  /\ link = [p \in Pages |-> NoLink]
  /\ page = [p \in Pages |-> [state |-> "offline", shown |-> Blank]]
  /\ late = {} /\ det = [e \in Edges |-> NoDetach]
  /\ faults = [losses |-> 0, delays |-> 0]
  /\ history = [lost |-> {}, removed |-> {}]

Evaluates(q, by) ==
  \/ authorizedEvaluation(q, by) \/ refused(q, by) \/ bindingDescriptorsForPlan(q, by)
  \/ \E e \in Edges : registerDescriptor(q, by, e)
  \/ again(q, by) \/ callFails(q, by) \/ storeEvaluation(q, by)

Detaches(e) ==
  cleanupDetachedSources(e) \/ examine(e) \/ reattach(e) \/ detach(e) \/ detachFails(e)

AlarmRuns ==
  \/ alarmFires \/ claimDueQueries \/ publishStateQueryStreamUpdates
  \/ \E q \in Asked : renewLiveStateQuery(q) \/ renewalFails(q)

\* What happens by itself; all of it ends when nothing changes outside
Proceeds ==
  \/ BindingArrives \/ deliverGrantInvalidation
  \/ \E e \in Edges : Detaches(e) \/ receiveNotification(e) \/ WatchLapses(e)
  \/ \E p \in setting.pages : connect(p) \/ onMessage(p) \/ webSocketClose(p)
  \/ \E q \in Asked, by \in Users : Evaluates(q, by)

Next ==
  \/ Proceeds \/ AlarmRuns
  \/ \E e \in Edges : Commit(e)
  \/ BindingLeaves \/ revokeGrant \/ Restart
  \/ \E p \in setting.pages : pruneHistory(p) \/ onClose(p) \/ LeaseAges(p) \/ AlarmComesLate(p)

Spec == Init /\ [][Next]_vars

\* Calls are answered, outboxes deliver, alarms fire and time passes. Nobody has to commit,
\* revoke, move the binding or lose anything.
FairSpec == /\ Spec /\ WF_vars(Proceeds) /\ WF_vars(AlarmRuns)
            /\ \A p \in Pages : WF_vars(LeaseAges(p))

-----------------------------------------------------------------------------
(* Properties *)

\* Types, and the tables agree: a query refers to edges that have a row, an active edge is
\* used, or was left active by a detach that a query's end overtook, and a page joins as long
\* as its registration runs
TypeOK ==
  /\ setting \in Settings
  /\ source \in [Edges -> [rev : Nat, watch : BOOLEAN, out : BOOLEAN]]
  /\ bound \in Realms \cup {"moving"}
  /\ grant \in [revoked : BOOLEAN, out : BOOLEAN, barred : BOOLEAN]
  /\ edge \in [Edges -> [state : {"none", "active", "detaching"}, expected : Nat, stray : BOOLEAN]]
  /\ \A q \in Queries : /\ row[q].state \in {"none", "active", "denied"}
                        /\ \A e \in row[q].edges : edge[e].state # "none"
                        /\ row[q].state # "active" => row[q].edges = {}
  /\ \A e \in Edges : /\ edge[e].state = "active" => edge[e].stray \/ e \in Used(row)
                      /\ source[e].out => source[e].watch
  /\ \A p \in Pages : /\ page[p].state = "joining" <=> reg[p].on
                      /\ link[p] # NoLink => page[p].state = "live" /\ link[p].flight # NoEvent
                      /\ page[p].state = "live" => sub[p].lease # "absent"

\* A page with nothing in flight shows the last result of each query that its subscription
\* counts as told: coalescing behind an unacknowledged event, gaps and snapshots lose
\* nothing. Two races of the registration are excused: the update published before its last
\* query was attached, and the rows that an older socket's close took away, whose sequence
\* starts again.
NothingUnsaid ==
  \A p \in setting.pages, k \in setting.keys :
    (/\ page[p].state = "live" /\ link[p] = NoLink
     /\ p \notin history.lost \cup history.removed
     /\ row[<<p, k>>].state = "active" /\ row[<<p, k>>].seq = sub[p].told[k].seq)
    => page[p].shown[k] = Public(row[<<p, k>>])

\* All the sources of a stale result are, for the observer, at the revision it expects:
\* another query moved the shared edge on after this one's notification was lost, or the
\* binding was watched at a later revision than the evaluation saw
Vouched(q) ==
  /\ row[q].state = "active" /\ ~row[q].pending /\ row[q].val # Current(q[2])
  /\ \A by \in Users : ev[<<q, by>>].pc = "idle"
  /\ row[q].edges # {}
  /\ \A e \in row[q].edges : edge[e].state = "active" /\ edge[e].expected = source[e].rev

\* A page that is connected comes to show the current result: lost or superseded
\* notifications, failed evaluations and restarts are made up for by the renewal of the
\* leases, but for the three races of the registration that are named here.
EventuallyCurrent ==
  \A p \in Pages, k \in Keys :
    (p \in setting.pages /\ k \in setting.keys)
      ~> \/ page[p].state # "live" \/ grant.revoked
         \/ page[p].shown[k].val = Current(k)
         \/ Vouched(<<p, k>>) \/ p \in history.lost \/ p \in history.removed

\* Access ends: after the grant is revoked every page is told so; and when all pages have
\* ended no query and no watch stays behind.
Released ==
  /\ grant.revoked ~> \A p \in setting.pages : page[p].state = "ended"
  /\ (\A p \in setting.pages : page[p].state = "ended")
      ~> (\A q \in Queries : row[q] = NoRow) /\ \A e \in Edges : ~source[e].watch

\* A page is served while it may be, and leaves nothing behind.
PagesServed == EventuallyCurrent /\ Released
=============================================================================

---------------------------- MODULE StateEventRelay ----------------------------
(***************************************************************************)
(* Combined delivery, src/src/state-events/: the owner of a state commits  *)
(* an operation with its event (module StateEventCommit) into its outbox;  *)
(* the relay of the owner appends the event to one stream in operation     *)
(* order, learns and confirms the outcome, and retires the row.            *)
(*                                                                         *)
(* Source: outbox rows and the stream's control row.  Destination: outcome *)
(* records, backlog, gap, reset fence and the producer's interest.  Between*)
(* them, for a shareable stream, the registry's binding queue with its     *)
(* barrier.  Appends and the fences that exclude them are messages that may*)
(* be handled after their sender gave up, by what the stream read before   *)
(* its awaits; the other calls are one step whose reply may be lost.       *)
(***************************************************************************)
EXTENDS Integers, Sequences, FiniteSets, FiniteSetsExt, SequencesExt

CONSTANTS Operations,      \* operations are 1 .. Operations, in the order of their commits
          Settings   \* what a behaviour meets, see SettingsAssumption

Ops == 1 .. Operations

ASSUME OperationsAssumption == Operations \in Nat \ {0}
ASSUME SettingsAssumption ==
  Settings \subseteq [shared : BOOLEAN, ops : Ops, capacity : Nat, automatic : Nat, total : Nat,
                      faults : Nat, expires : BOOLEAN, page : BOOLEAN, resets : Nat,
                      sameGrant : BOOLEAN]

VARIABLES
  setting,   \* chosen at the start
  rows,      \* state_event_outbox, by operation
  source,    \* state_event_source_streams, the row of the stream
  workers,   \* attempts of the relay in progress, by operation
  mail,      \* appends and fences on their way to the registry or to the stream
  registry,  \* its binding, its barriers and the call its queue is handling
  dest,      \* the stream: records, backlog, gap, reset fence, interest
  drainer,   \* the wakeup the stream is sending
  consumer,  \* registration of the page that acknowledges
  reset,     \* the operator's grant with resetBacklog
  expired,   \* operations whose thirty minutes are over
  faults,    \* lost replies, crashes and late messages so far
  history    \* what the code does not keep: see NoHistory

vars == <<setting, rows, source, workers, mail, registry, dest, drainer, consumer, reset,
          expired, faults, history>>

\* due: 0 as soon as no lease forbids it, -1 never, op at the deadline of op
Now == 0
Never == -1
NoRow == [state |-> "none", tries |-> 0, control |-> 0, lease |-> "none", due |-> Never,
          useful |-> FALSE, confirmed |-> FALSE, uncertain |-> FALSE, probe |-> 0,
          outcome |-> "none"]
NoStream == [blocked |-> FALSE, gap |-> FALSE, reset |-> 0, phase |-> "none", checkpoint |-> 0,
             completed |-> 0, epoch |-> 1, registered |-> 0, wake |-> 0, sequence |-> 0]
Idle == [step |-> "idle", try |-> 0, reply |-> "none", epoch |-> 0, releases |-> 0, last |-> FALSE,
         stirred |-> FALSE, probing |-> FALSE]
NoInterest == [epoch |-> 0, active |-> FALSE, version |-> 0, due |-> FALSE]
EmptyStream == [rec |-> [op \in Ops |-> "none"], fences |-> [op \in Ops |-> {}], noted |-> {},
                kept |-> {}, receipts |-> {}, gap |-> FALSE, reset |-> 0, checkpoint |-> 0,
                interest |-> NoInterest]
NoDrain == [step |-> "idle", version |-> 0, epoch |-> 0, pending |-> TRUE, lost |-> FALSE,
            void |-> FALSE]
NoCall == [op |-> 0, step |-> "idle", try |-> 0, head |-> FALSE, reply |-> "none", fence |-> "none",
           moving |-> FALSE]

\* A request.  early: the stream had no outcome of op when it was sent, or since, and may have
\* read that; late: nobody waits for its answer
Request(to, kind, op, try, call, head, early) ==
  [to |-> to, kind |-> kind, op |-> op, try |-> try, call |-> call, head |-> head,
   early |-> early, late |-> FALSE]
NoReset == [step |-> "idle", id |-> 0, granted |-> FALSE]

\* log: operations in the order of their events; gapped: recorded as a gap; acked,
\* lost: events acknowledged, or ended by their retention; dropped: discarded by a reset;
\* strays: events appended after the binding moved; overwritten: a stale write replaced "appended"
NoHistory == [log |-> <<>>, gapped |-> {}, acked |-> {}, lost |-> {}, dropped |-> {},
              strays |-> {}, overwritten |-> {}]

-----------------------------------------------------------------------------
\* Variants named X_Fault are faults a change to X could introduce; nothing
\* uses them, and with X replaced by one a property of this module fails.

Unresolved == {"pending", "gap_pending"}
Controls == {"retiring", "gap_recorded", "reset_discarded"}
Cleanup == Controls \cup {"appended"}
control(row) == row.state \in Controls
Present == {op \in Ops : rows[op].state \notin {"none", "gone"}}
Used(row) == IF control(row) THEN row.control ELSE row.tries
Ceiling(op, row) ==
  IF control(row) \/ op \in expired THEN setting.total ELSE setting.total - 1

\* The row a publication must wait for, 0 if there is none
Earliest_FaultSkipsGaps(op) == LET S == {o \in Ops : o < op /\ rows[o].state = "pending"}
                           IN IF S = {} THEN 0 ELSE Min(S)
Earliest(op) == LET S == {o \in Ops : o < op /\ rows[o].state \in Unresolved}
            IN IF S = {} THEN 0 ELSE Min(S)
IsDue(op) == rows[op].due = Now \/ rows[op].due \in expired

\* New work, or a change at the destination, is news to every attempt in progress
Stirred == [op \in Ops |-> IF workers[op].step = "idle" THEN Idle
                           ELSE [workers[op] EXCEPT !.stirred = TRUE]]

Fault == faults < setting.faults /\ faults' = faults + 1

-----------------------------------------------------------------------------
(* The end of an attempt *)

FinishDue(row, op, kind, useful) ==
  LET used == Used(row)
      late == op \in expired
      spent == used >= setting.automatic
  IN IF useful /\ used < Ceiling(op, row) THEN Now
     ELSE IF ~control(row) /\ late /\ kind \notin {"ok", "defer"} /\ (kind = "parked" \/ spent)
          THEN Never
     ELSE IF ~control(row) /\ ~late /\ used >= setting.total - 1 THEN op
     ELSE IF used >= setting.total THEN Never
     ELSE IF kind = "defer" THEN Now
     ELSE IF kind = "ok" /\ row.state = "appended" THEN op
     ELSE IF kind = "parked" \/ spent THEN (IF control(row) THEN Never ELSE op)
     ELSE Now

\* A row whose append may have happened keeps its lease, and may be probed once
Probes(row, kind, appending) ==
  appending /\ kind = "uncertain" /\ row.probe = 0 /\ source.reset = 0 /\ row.state \in Unresolved

finish(rs, op, kind, appending) ==
  LET useful == workers[op].stirred
      row == rs[op]
      done == [row EXCEPT !.lease = IF kind = "uncertain" THEN @ ELSE "none",
                          !.due = FinishDue(row, op, kind, useful),
                          !.useful = useful, !.uncertain = kind = "uncertain",
                          !.probe = IF Probes(row, kind, appending) THEN 1 ELSE @]
  IN [o \in Ops |->
        IF o = op THEN done
        ELSE IF kind = "parked" /\ ~control(row) /\ ~useful /\ rs[o].lease = "none"
                /\ rs[o].state = "pending" /\ o \notin expired
             THEN [rs[o] EXCEPT !.due = o] ELSE rs[o]]

Ends(rs, op, kind, appending) ==
  /\ rows' = finish(rs, op, kind, appending)
  /\ workers' = [workers EXCEPT ![op] = Idle]
Goes(op, w) == workers' = [workers EXCEPT ![op] = w]
Steps(op, step) == Goes(op, [workers[op] EXCEPT !.step = step])

-----------------------------------------------------------------------------
(* Commands and claims *)

Open == source.reset = 0 /\ ~source.blocked /\ ~source.gap

enqueueStateEventIntent(op) ==
  /\ op = source.sequence + 1 /\ op <= setting.ops /\ Open
  /\ source' = [source EXCEPT !.sequence = op, !.epoch = @ + 1]
  /\ rows' = [o \in Ops |->
                IF o = op THEN [NoRow EXCEPT !.state = "pending", !.due = Now]
                ELSE IF rows[o].state \in Unresolved /\ rows[o].lease # "live"
                        /\ rows[o].tries < setting.total - 1
                     THEN [rows[o] EXCEPT !.due = Now, !.useful = TRUE] ELSE rows[o]]
  /\ workers' = Stirred
  /\ UNCHANGED <<setting, mail, registry, dest, drainer, consumer, reset, expired, faults, history>>

SameLane_FaultStates(op, o) == rows[op].state = rows[o].state /\ op < o
SameLane(op, o) == (rows[op].state \in Cleanup) = (rows[o].state \in Cleanup)
Exhausted(op) ==
  LET row == rows[op] IN
  \/ Used(row) >= Ceiling(op, row)
  \/ Used(row) >= setting.automatic /\ (control(row) \/ op \notin expired) /\ ~row.useful

Waits(op) == rows[op].state = "pending" /\ op \notin expired /\ Earliest(op) # 0

Claimable(op) == /\ op \in Present /\ rows[op].lease # "live" /\ rows[op].probe # 1
                 /\ IsDue(op) /\ source.reset = 0
                 /\ workers[op].step = "idle" \/ workers[op].probing

\* A row the pass examines and leaves for later
PassOver(op) ==
  /\ Claimable(op) /\ (Waits(op) \/ Exhausted(op))
  /\ LET row == rows[op]
         head == rows[Earliest(op)]
         due == IF Waits(op) THEN (IF head.due = Never THEN Earliest(op) ELSE head.due)
                ELSE IF control(row) \/ op \in expired THEN Never ELSE op
     IN due # row.due /\ rows' = [rows EXCEPT ![op].due = due]
  /\ UNCHANGED <<setting, source, workers, mail, registry, dest, drainer, consumer, reset,
                 expired, faults, history>>

\* What a stored outcome says; a fenced call has none
Stored(d, op) == d.rec[op] \in {"appended", "gap"}

\* A shareable event goes through the registry
Authority == IF setting.shared THEN "registry" ELSE "stream"

\* The snapshot of the source goes with the request
reconcileStateEventIntent(op, w, row) ==
  IF row.state \in Unresolved
  THEN /\ mail' = mail \cup {Request(Authority, "append", op, w.try, 0, Earliest(op) = 0,
                                      ~setting.shared /\ ~Stored(dest, op))}
       /\ Goes(op, [w EXCEPT !.step = "waiting"])
  ELSE /\ Goes(op, [w EXCEPT !.step = IF row.state = "reset_discarded" THEN "cleanup"
                                      ELSE IF row.confirmed THEN "outcome" ELSE "confirm"])
       /\ UNCHANGED mail

claim(op) ==
  /\ Claimable(op) /\ ~Waits(op) /\ ~Exhausted(op)
  /\ ~\E o \in Ops \ {op} : rows[o].lease = "live" /\ SameLane(op, o)
  /\ LET row == rows[op]
         c == IF control(row) THEN 1 ELSE 0
         claimed == [row EXCEPT !.lease = "live", !.due = Now, !.tries = @ + 1 - c, !.control = @ + c,
                       !.state = IF @ = "pending" /\ op \in expired THEN "gap_pending" ELSE @]
         w == [Idle EXCEPT !.try = row.tries + row.control + 1]
     IN /\ rows' = [rows EXCEPT ![op] = claimed]
        /\ IF c = 1 \/ source.registered # source.epoch
           THEN Goes(op, [w EXCEPT !.step = IF c = 1 THEN "cleanup" ELSE "interest"]) /\ UNCHANGED mail
           ELSE reconcileStateEventIntent(op, w, claimed)
  /\ UNCHANGED <<setting, source, registry, dest, drainer, consumer, reset, expired, faults, history>>

\* Run by every pass for the rows it does not claim, and by a status request; an alarm
\* starts a pass only while some row has a wakeup
Alarmed == \E op \in Present : IsDue(op)
maintainStateEventOutbox(op) ==
  /\ rows[op].state = "pending" /\ op \in expired
  /\ rows' = [rows EXCEPT ![op].state = "gap_pending",
                ![op].due = IF rows[op].probe = 1 THEN @ ELSE IF rows[op].tries >= setting.total THEN Never ELSE Now]
  /\ UNCHANGED <<setting, source, workers, mail, registry, dest, drainer, consumer, reset,
                 expired, faults, history>>

\* Thirty seconds after the attempt; it ended at most five seconds after its start
LeaseEnds(op) ==
  /\ rows[op].lease = "live" /\ workers[op].step = "idle"
  /\ rows' = [rows EXCEPT ![op].lease = "lapsed"]
  /\ UNCHANGED <<setting, source, workers, mail, registry, dest, drainer, consumer, reset,
                 expired, faults, history>>

-----------------------------------------------------------------------------
(* The stream *)

\* Retention ends what is retained and old
Aged(d) == d.kept \cap expired
pruneExpired_FaultNoGap(d) == [d EXCEPT !.kept = @ \ Aged(d)]
pruneExpired(d) == [d EXCEPT !.kept = @ \ Aged(d), !.gap = @ \/ Aged(d) # {}]

registerProducerInterest(i, epoch) ==
  IF epoch > i.epoch \/ (epoch = i.epoch /\ i.active)
  THEN [i EXCEPT !.epoch = epoch, !.active = TRUE] ELSE i
queueProducerWakeup(i) ==
  IF i.active THEN [i EXCEPT !.version = @ + 1, !.due = TRUE] ELSE i

Gapped(d, op) == [d EXCEPT !.rec[op] = "gap", !.gap = TRUE, !.noted = @ \ {op}]
\* The call is excluded for ever; the outcome is replaced, whatever it is by now
Fenced(d, op, call) ==
  [d EXCEPT !.rec[op] = "fenced", !.fences[op] = @ \cup {call}, !.noted = @ \cup {op}]

Superseded(d, op) == d.checkpoint >= op

appendGuard_FaultNoFence(d, m) ==
  IF d.gap \/ d.reset # 0 THEN "needs_reset"
  ELSE IF Cardinality(d.kept) >= setting.capacity THEN "full" ELSE "appended"
appendGuard(d, m) ==
  IF d.gap THEN "needs_reset"
  ELSE IF Cardinality(d.kept) >= setting.capacity THEN "full"
  ELSE IF m.call \in d.fences[m.op] THEN "fenced"
  ELSE IF d.reset # 0 THEN "needs_reset" ELSE "appended"

Replayed_FaultNever(d, op) == FALSE
Replayed(d, op) == op \in d.receipts

\* The destination after a request, and its answer.  stale: it was begun before op had an
\* outcome; an event appended meanwhile is known by its receipt
combinedAppend(d, m, stale) ==
  IF Stored(d, m.op) /\ ~stale THEN [d |-> d, reply |-> d.rec[m.op]]
  ELSE IF m.kind = "fence" THEN [d |-> Fenced(d, m.op, m.call), reply |-> "fenced"]
  ELSE IF Superseded(d, m.op) THEN [d |-> d, reply |-> "discarded"]
  ELSE IF m.op \in expired THEN [d |-> Gapped(d, m.op), reply |-> "gap"]
  ELSE IF ~m.head THEN [d |-> d, reply |-> "order"]
  ELSE LET p == pruneExpired(d)
           answer == IF Replayed(p, m.op) THEN "appended" ELSE appendGuard(p, m)
       IN [d |-> IF answer = "appended" /\ ~Replayed(p, m.op)
                 THEN [p EXCEPT !.rec[m.op] = "appended", !.kept = @ \cup {m.op},
                                !.receipts = @ \cup {m.op}, !.noted = @ \ {m.op}] ELSE p,
           reply |-> answer]

\* History, and a page closed by a gap, whenever the stream goes from dest to d
Records(d) ==
  LET fresh == {op \in Ops : d.rec[op] = "appended" /\ op \in d.kept \ dest.kept}
  IN /\ dest' = d
     /\ history' = [history EXCEPT
          !.log = @ \o SetToSeq(fresh),
          !.gapped = @ \cup {op \in Ops : d.rec[op] = "gap"},
          !.lost = @ \cup ((dest.kept \cap expired) \ d.kept),
          !.strays = @ \cup (IF registry.moved THEN fresh ELSE {}),
          !.overwritten = @ \cup {op \in Ops : dest.rec[op] = "appended" /\ d.rec[op] # "appended"}]
     /\ consumer' = IF d.gap /\ ~dest.gap THEN "off" ELSE consumer

-----------------------------------------------------------------------------
(* An attempt: interest, append, confirmation *)

Unanswered(op, appending) == Fault /\ Ends(rows, op, "uncertain", appending)

interest(op) ==
  /\ workers[op].step = "interest"
  /\ LET d == [dest EXCEPT !.interest = registerProducerInterest(@, source.epoch)]
     IN \/ /\ Goes(op, [workers[op] EXCEPT !.step = "registered", !.epoch = source.epoch])
           /\ dest' = d /\ UNCHANGED <<rows, faults>>
        \/ dest' \in {d, dest} /\ Unanswered(op, FALSE)
  /\ UNCHANGED <<setting, source, mail, registry, drainer, consumer, reset, expired, history>>

\* A registration is the source's as long as nothing was committed since
registered(op) ==
  /\ workers[op].step = "registered"
  /\ source' = IF source.epoch = workers[op].epoch
               THEN [source EXCEPT !.registered = workers[op].epoch] ELSE source
  /\ reconcileStateEventIntent(op, workers[op], rows[op])
  /\ UNCHANGED <<setting, rows, registry, dest, drainer, consumer, reset, expired, faults, history>>

Awaits(op, try) == workers[op].step = "waiting" /\ workers[op].reply = "none" /\ workers[op].try = try
Reply(op, try, reply) ==
  IF Awaits(op, try) THEN [workers EXCEPT ![op].reply = reply] ELSE workers

\* What the stream answers to the registry's call
Answered(m, reply) ==
  IF m.late THEN registry
  ELSE IF m.kind = "fence" THEN [registry EXCEPT !.at.fence = reply]
  ELSE [registry EXCEPT !.at.reply = reply]

\* The stream handles an append or a fence, perhaps long after its caller gave up
append(m) ==
  /\ m \in mail /\ m.to = "stream"
  /\ \E stale \in {FALSE, m.early} :
       LET r == combinedAppend(dest, m, stale)
       IN /\ Records(r.d)
          /\ mail' = {[n EXCEPT !.early = @ \/ (n.op = m.op /\ n.to = "stream" /\ ~Stored(r.d, m.op))] :
                        n \in mail \ {m}}
          /\ IF setting.shared THEN registry' = Answered(m, r.reply) /\ UNCHANGED workers
             ELSE UNCHANGED registry /\ workers' = Reply(m.op, m.try, r.reply)
  /\ UNCHANGED <<setting, rows, source, drainer, reset, expired, faults>>

\* The caller gives up; its request may still be handled, or is lost
AppendTimesOut(op) ==
  /\ workers[op].step = "waiting"
  /\ Unanswered(op, TRUE)
  /\ mail' \in {mail, {m \in mail : m.op # op \/ m.to # Authority \/ m.try # workers[op].try}}
  /\ UNCHANGED <<setting, source, registry, dest, drainer, consumer, reset, expired, history>>

\* A terminal row keeps its state; the outcome is cached before it is confirmed
Cached(rs, op, reply) ==
  IF rs[op].state \notin Unresolved THEN rs
  ELSE [rs EXCEPT ![op] = [@ EXCEPT !.state = IF reply = "gap" THEN "gap_recorded" ELSE "appended",
                                    !.outcome = IF reply = "gap" THEN "gap" ELSE "appended",
                                    !.due = Now]]

\* An answer to a probe is for an undecided row outside a reset
Acceptable(op) == ~workers[op].probing \/ (source.reset = 0 /\ rows[op].state \in Unresolved)

acceptStateEventDeliveryOutcome(op) ==
  /\ workers[op].step = "waiting" /\ workers[op].reply \in {"appended", "terminal", "gap"}
  /\ IF Acceptable(op)
     THEN /\ rows' = Cached(rows, op, workers[op].reply)
          /\ source' = [source EXCEPT !.gap = @ \/ rows'[op].state = "gap_recorded"]
          /\ Steps(op, "confirm")
     ELSE Goes(op, Idle) /\ UNCHANGED <<rows, source>>
  /\ UNCHANGED <<setting, mail, registry, dest, drainer, consumer, reset, expired, faults, history>>

\* The append was refused: a stream that needs a reset blocks new commands
AppendRefused(op) ==
  /\ workers[op].step = "waiting"
  /\ workers[op].reply \in {"needs_reset", "full", "order", "discarded", "fenced"}
  /\ source' = [source EXCEPT !.blocked = @ \/ workers[op].reply = "needs_reset"]
  /\ Ends(rows, op, IF workers[op].reply \in {"needs_reset", "full"} THEN "parked" ELSE "retry", FALSE)
  /\ UNCHANGED <<setting, mail, registry, dest, drainer, consumer, reset, expired, faults, history>>

\* The registry could not tell
AppendUnknown(op) ==
  /\ workers[op].reply = "unknown" /\ Ends(rows, op, "uncertain", TRUE)
  /\ UNCHANGED <<setting, source, mail, registry, dest, drainer, consumer, reset, expired, faults, history>>

\* A receipt that expired after its confirmation is proved by the source's cache
Confirmable(op) ==
  \/ dest.rec[op] # "none" /\ rows[op].state \in {"appended", "gap_recorded"}
  \/ dest.rec[op] = "none" /\ rows[op].state = "gap_recorded"
  \/ dest.rec[op] = "none" /\ rows[op].outcome = "appended" /\ op \notin dest.kept
Noted(op) == IF dest.rec[op] # "none" THEN [dest EXCEPT !.noted = @ \cup {op}] ELSE dest
\* Appended now, the row rests until its deadline or a wakeup
Confirmed(op) == IF rows[op].state = "gap_recorded" \/ workers[op].reply = "terminal"
                 THEN "cleanup" ELSE "outcome"

confirmDestination(op) ==
  /\ workers[op].step = "confirm"
  /\ LET confirmed == [rows EXCEPT ![op].confirmed = TRUE]
     IN \/ /\ Confirmable(op) /\ dest' = Noted(op) /\ UNCHANGED faults
           /\ IF workers[op].reply = "appended" /\ rows[op].state = "appended"
              THEN Ends(confirmed, op, "ok", FALSE)
              ELSE rows' = confirmed /\ Steps(op, Confirmed(op))
        \/ ~Confirmable(op) /\ Ends(rows, op, "retry", FALSE) /\ UNCHANGED <<dest, faults>>
        \/ /\ Unanswered(op, FALSE)
           /\ dest' \in {dest, IF Confirmable(op) THEN Noted(op) ELSE dest}
  /\ UNCHANGED <<setting, source, mail, registry, drainer, consumer, reset, expired, history>>

\* terminal for a gap, and once acknowledged, ended by retention or discarded by a reset
terminalDestinationOutcome(d, op) == d.rec[op] = "gap" \/ op \notin d.kept

outcome(op) ==
  /\ workers[op].step = "outcome"
  /\ LET d == pruneExpired(dest)
     IN /\ Records(d)
        /\ \/ /\ terminalDestinationOutcome(d, op) /\ Steps(op, "cleanup")
              /\ UNCHANGED <<rows, faults>>
           \/ /\ ~terminalDestinationOutcome(d, op) /\ Ends(rows, op, "ok", FALSE)
              /\ UNCHANGED faults
           \/ Unanswered(op, FALSE)
  /\ UNCHANGED <<setting, source, mail, registry, drainer, reset, expired>>

-----------------------------------------------------------------------------
(* Probe: one read of the receipt, spent before it is sent *)

\* Through the registry a positive receipt also retires the barrier
probeStateEventReceipt(op) ==
  /\ rows[op].probe = 1 /\ rows[op].uncertain /\ rows[op].state \in Unresolved /\ source.reset = 0
  /\ workers[op].step = "idle"
  /\ rows' = [rows EXCEPT ![op].probe = 2]
  /\ \/ /\ Stored(dest, op) /\ (setting.shared => registry.at.op = 0)
        /\ Goes(op, [Idle EXCEPT !.step = "waiting", !.probing = TRUE, !.reply =
                       IF dest.rec[op] = "appended" /\ terminalDestinationOutcome(dest, op)
                       THEN "terminal" ELSE dest.rec[op]])
        /\ registry' = [registry EXCEPT !.barrier[op] = 0]
        /\ UNCHANGED faults
     \/ ~Stored(dest, op) /\ UNCHANGED <<workers, registry, faults>>
     \/ Fault /\ UNCHANGED <<workers, registry>>
  /\ UNCHANGED <<setting, source, mail, dest, drainer, consumer, reset, expired, history>>

-----------------------------------------------------------------------------
(* Cleanup *)

\* The owner's record keeps the outcome; the row becomes retiring
retire(op) ==
  /\ workers[op].step = "cleanup"
  /\ IF rows[op].state = "gap_recorded" /\ ~rows[op].confirmed
     THEN Goes(op, [workers[op] EXCEPT !.step = "confirm", !.reply = "none"]) /\ UNCHANGED rows
     ELSE /\ rows' = [rows EXCEPT ![op].state = "retiring"] /\ Steps(op, "origin")
  /\ UNCHANGED <<setting, source, mail, registry, dest, drainer, consumer, reset, expired, faults, history>>

\* The pass has no calls left for the remote half
deferCleanup(op) ==
  /\ workers[op].step = "origin" /\ rows[op].control = 0
  /\ Ends(rows, op, "defer", FALSE)
  /\ UNCHANGED <<setting, source, mail, registry, dest, drainer, consumer, reset, expired, faults, history>>

\* origin/retire for a shared owner, then the count that decides the release
RetireOrigin(op) ==
  /\ workers[op].step = "origin"
  /\ \/ /\ Goes(op, [workers[op] EXCEPT !.step = "release", !.epoch = source.epoch, !.releases = source.registered,
                                        !.last = Cardinality(Present) = 1])
        /\ UNCHANGED <<rows, faults>>
     \/ setting.shared /\ Unanswered(op, FALSE)
  /\ UNCHANGED <<setting, source, mail, registry, dest, drainer, consumer, reset, expired, history>>

releaseProducerInterest_FaultAnyEpoch(i, epoch) == [i EXCEPT !.active = FALSE, !.due = FALSE]
releaseProducerInterest(i, epoch) ==
  IF i.epoch = epoch THEN [i EXCEPT !.active = FALSE, !.due = FALSE] ELSE i

\* The epoch registered when the row was counted
release(op) ==
  /\ workers[op].step = "release"
  /\ IF workers[op].last /\ workers[op].releases # 0
     THEN LET d == [dest EXCEPT !.interest = releaseProducerInterest(@, workers[op].releases)] IN
          \/ /\ dest' = d /\ Steps(op, "delete")
             /\ drainer' = IF d.interest # dest.interest /\ drainer.step # "idle"
                           THEN [drainer EXCEPT !.void = TRUE] ELSE drainer
             /\ UNCHANGED <<rows, faults>>
          \/ dest' \in {dest, d} /\ Unanswered(op, FALSE) /\ UNCHANGED drainer
     ELSE Steps(op, "delete") /\ UNCHANGED <<rows, dest, drainer, faults>>
  /\ UNCHANGED <<setting, source, mail, registry, consumer, reset, expired, history>>

delete(op) ==
  /\ workers[op].step = "delete"
  /\ rows' = [rows EXCEPT ![op] = [NoRow EXCEPT !.state = "gone", !.outcome = rows[op].outcome]]
  /\ source' = IF workers[op].last /\ source.epoch = workers[op].epoch
               THEN [source EXCEPT !.registered = 0] ELSE source
  /\ Goes(op, Idle)
  /\ UNCHANGED <<setting, mail, registry, dest, drainer, consumer, reset, expired, faults, history>>

-----------------------------------------------------------------------------
(* The registry's binding queue: appends one at a time, and the move *)

\* resolveCombinedAppendBarrier: the stream gives the outcome of the call, or excludes it
Fence(op, try) == Request("stream", "fence", op, try, registry.barrier[op], FALSE, ~Stored(dest, op))

RegistryTakes(m) ==
  /\ m \in mail /\ m.to = "registry" /\ registry.at.op = 0
  /\ LET barred == registry.barrier[m.op] # 0
     IN /\ mail' = (mail \ {m}) \cup (IF barred THEN {Fence(m.op, m.try)} ELSE {})
        /\ registry' = [registry EXCEPT !.at = [NoCall EXCEPT !.op = m.op, !.try = m.try,
                          !.head = m.head, !.step = IF barred THEN "fence" ELSE "decide"]]
  /\ UNCHANGED <<setting, rows, source, workers, dest, drainer, consumer, reset, expired, faults, history>>

RegistryEnds(reply) ==
  /\ registry' = [registry EXCEPT !.at = NoCall]
  /\ workers' = Reply(registry.at.op, registry.at.try, reply)

\* resolveStateEventBarrier before a new append, after a refused one or for a move
RegistryFences ==
  /\ registry.at.step = "fence" /\ registry.at.fence # "none"
  /\ LET at == registry.at
         free == [registry EXCEPT !.barrier[at.op] = 0]
     IN IF at.reply = "none" /\ at.fence = "fenced" /\ ~at.moving
        THEN registry' = [free EXCEPT !.at.step = "decide", !.at.fence = "none"] /\ UNCHANGED workers
        ELSE /\ registry' = [free EXCEPT !.at = NoCall]
             /\ workers' = Reply(at.op, at.try, IF at.reply # "none" THEN at.reply ELSE at.fence)
  /\ UNCHANGED <<setting, rows, source, mail, dest, drainer, consumer, reset, expired, faults, history>>

\* The binding decides: an append under a durable barrier, or a gap of the lifecycle.  The gap
\* is one step: after the move every append of op is excluded or has its receipt.
RegistryDecides ==
  /\ registry.at.step = "decide"
  /\ LET op == registry.at.op IN
     IF registry.moved
     THEN LET reply == IF Stored(dest, op) THEN dest.rec[op]
                       ELSE IF Superseded(dest, op) THEN "discarded" ELSE "gap"
              d == IF reply = "gap" THEN Gapped(dest, op) ELSE dest
          IN /\ \/ Records(d) /\ RegistryEnds(reply) /\ UNCHANGED faults
                \/ (Records(d) \/ Records(dest)) /\ Fault /\ RegistryEnds("unknown")
             /\ UNCHANGED mail
     ELSE LET call == registry.calls + 1
          IN /\ registry' = [registry EXCEPT !.calls = call, !.barrier[op] = call, !.at.step = "waiting"]
             /\ mail' = mail \cup {Request("stream", "append", op, registry.at.try, call,
                                           registry.at.head, ~Stored(dest, op))}
             /\ UNCHANGED <<workers, dest, consumer, history, faults>>
  /\ UNCHANGED <<setting, rows, source, drainer, reset, expired>>

RegistryAnswers ==
  /\ registry.at.step = "waiting" /\ registry.at.reply # "none"
  /\ IF registry.at.reply \in {"appended", "gap"}
     THEN /\ registry' = [registry EXCEPT !.barrier[registry.at.op] = 0, !.at = NoCall]
          /\ workers' = Reply(registry.at.op, registry.at.try, registry.at.reply)
          /\ UNCHANGED mail
     ELSE /\ registry' = [registry EXCEPT !.at.step = "fence"] /\ UNCHANGED workers
          /\ mail' = mail \cup {Fence(registry.at.op, registry.at.try)}
  /\ UNCHANGED <<setting, rows, source, dest, drainer, consumer, reset, expired, faults, history>>

\* The reply of the stream is lost or late, or the registry restarts: the barrier stays
RegistryGivesUp ==
  /\ registry.at.op # 0 /\ Fault
  /\ RegistryEnds("unknown")
  /\ mail' = {[m EXCEPT !.late = @ \/ m.to = "stream"] : m \in mail}
  /\ UNCHANGED <<setting, rows, source, dest, drainer, consumer, reset, expired, history>>

\* recoverLifecycleStateEvents resolves every barrier before the binding changes.  Without
\* an outcome the stream asks the source for the row; when it is gone the barrier stays.
ResolveBarrier(op) ==
  /\ registry.at.op = 0 /\ registry.barrier[op] # 0 /\ ~registry.moved
  /\ op \in Present \/ Stored(dest, op)
  /\ registry' = [registry EXCEPT !.at = [NoCall EXCEPT !.op = op, !.step = "fence", !.moving = TRUE]]
  /\ mail' = mail \cup {Fence(op, 0)}
  /\ UNCHANGED <<setting, rows, source, workers, dest, drainer, consumer, reset, expired, faults, history>>

Unbarred == registry.at.op = 0 /\ \A op \in Ops : registry.barrier[op] = 0
BindingMoves ==
  /\ setting.shared /\ ~registry.moved /\ Unbarred
  /\ registry' = [registry EXCEPT !.moved = TRUE]
  /\ UNCHANGED <<setting, rows, source, workers, mail, dest, drainer, consumer, reset, expired, faults, history>>

-----------------------------------------------------------------------------
(* Wakeups: the stream tells the source that something changed *)

claimWakeup ==
  /\ dest.interest.active /\ dest.interest.due /\ drainer.step = "idle"
  /\ drainer' = [NoDrain EXCEPT !.step = "sent", !.version = dest.interest.version,
                                !.epoch = dest.interest.epoch]
  /\ UNCHANGED <<setting, rows, source, workers, mail, registry, dest, consumer, reset,
                 expired, faults, history>>

Woken == [op \in Ops |-> IF op \in Present /\ Used(rows[op]) < Ceiling(op, rows[op])
                         THEN [rows[op] EXCEPT !.useful = TRUE,
                                               !.due = IF rows[op].probe = 1 THEN @ ELSE Now]
                         ELSE rows[op]]
wakeStateEventRelay ==
  /\ drainer.step = "sent"
  /\ LET arrives == /\ source' = [source EXCEPT !.wake = Max({@, drainer.version})]
                    /\ IF drainer.version > source.wake
                       THEN rows' = Woken /\ workers' = Stirred ELSE UNCHANGED <<rows, workers>>
     IN \/ /\ arrives /\ UNCHANGED faults
           /\ drainer' = [drainer EXCEPT !.step = "back", !.pending = Present # {}]
        \/ /\ arrives \/ UNCHANGED <<source, rows, workers>>
           /\ Fault /\ drainer' = [drainer EXCEPT !.step = "back", !.lost = TRUE]
  /\ UNCHANGED <<setting, mail, registry, dest, consumer, reset, expired, history>>

\* News that came meanwhile is sent next; a producer with nothing left is forgotten
Changed(i) == i.version # drainer.version \/ i.epoch # drainer.epoch
drainProducerWakeup ==
  /\ drainer.step = "back"
  /\ dest' = IF drainer.void THEN dest ELSE [dest EXCEPT !.interest =
       [dest.interest EXCEPT !.due = Changed(dest.interest) \/ drainer.lost,
                 !.active = @ /\ (Changed(dest.interest) \/ drainer.lost \/ drainer.pending)]]
  /\ drainer' = NoDrain
  /\ UNCHANGED <<setting, rows, source, workers, mail, registry, consumer, reset, expired,
                 faults, history>>

-----------------------------------------------------------------------------
(* The consumer, and time *)

\* registerSocket asks the source, then registers
CheckSource ==
  /\ setting.page /\ consumer = "off" /\ Open /\ ~dest.gap
  /\ \A op \in Present : rows[op].state \in Unresolved => op \notin expired
  /\ consumer' = "checked"
  /\ UNCHANGED <<setting, rows, source, workers, mail, registry, dest, drainer, reset, expired,
                 faults, history>>

registerSocket ==
  /\ consumer = "checked" /\ ~dest.gap
  /\ consumer' = "on"
  /\ dest' = [dest EXCEPT !.interest = queueProducerWakeup(@)]
  /\ UNCHANGED <<setting, rows, source, workers, mail, registry, drainer, reset, expired,
                 faults, history>>

acknowledge ==
  /\ consumer = "on" /\ dest.kept # {} /\ ~dest.gap
  /\ dest' = [dest EXCEPT !.kept = @ \ {Min(@)}, !.interest = queueProducerWakeup(@)]
  /\ history' = [history EXCEPT !.acked = @ \cup {Min(dest.kept)}]
  /\ UNCHANGED <<setting, rows, source, workers, mail, registry, drainer, consumer, reset,
                 expired, faults>>

Expire(op) ==
  /\ setting.expires /\ op \notin expired /\ op <= source.sequence /\ (op > 1 => op - 1 \in expired)
  /\ expired' = expired \cup {op}
  /\ UNCHANGED <<setting, rows, source, workers, mail, registry, dest, drainer, consumer, reset,
                 faults, history>>

streamAlarm ==
  /\ Aged(dest) # {} /\ Records(pruneExpired(dest))
  /\ UNCHANGED <<setting, rows, source, workers, mail, registry, drainer, reset, expired, faults>>

\* Two hours after its confirmation or its fence, when no call of the operation is left
Prunable == dest.noted \cap expired
pruneCombinedRecords(op) ==
  /\ op \in Prunable /\ dest.rec[op] # "none" /\ op \notin dest.kept
  /\ registry.at.op # op /\ workers[op].step # "waiting" /\ ~\E m \in mail : m.op = op
  /\ dest' = [dest EXCEPT !.rec[op] = "none", !.noted = @ \ {op}, !.fences[op] = {}]
  /\ UNCHANGED <<setting, rows, source, workers, mail, registry, drainer, consumer, reset,
                 expired, faults, history>>

-----------------------------------------------------------------------------
(* The coordinated reset of a grant *)

ResetGoes(step) == reset' = [reset EXCEPT !.step = step]

issueGrant ==
  /\ reset.step \in {"idle", "done"} /\ reset.id < setting.resets
  /\ reset' = [step |-> "prepare", id |-> reset.id + 1, granted |-> FALSE]
  /\ UNCHANGED <<setting, rows, source, workers, mail, registry, dest, drainer, consumer,
                 expired, faults, history>>

resetPrepare ==
  /\ reset.step = "prepare"
  /\ IF source.completed = reset.id \/ source.reset \notin {0, reset.id}
     THEN ResetGoes("failed") /\ UNCHANGED source
     ELSE /\ ResetGoes("mark")
          /\ source' = IF source.reset = reset.id THEN source
                       ELSE [source EXCEPT !.reset = reset.id, !.phase = "prepared",
                                           !.checkpoint = Max({@, source.sequence})]
  /\ UNCHANGED <<setting, rows, workers, mail, registry, dest, drainer, consumer, expired,
                 faults, history>>

prepareCombinedGrant ==
  /\ reset.step = "mark"
  /\ IF dest.reset \notin {0, reset.id}
     THEN ResetGoes("failed") /\ UNCHANGED dest
     ELSE /\ ResetGoes("commit")
          /\ dest' = [dest EXCEPT !.reset = reset.id, !.checkpoint = source.checkpoint]
  /\ UNCHANGED <<setting, rows, source, workers, mail, registry, drainer, consumer, expired,
                 faults, history>>

resetCommit ==
  /\ reset.step = "commit" /\ ResetGoes("local")
  /\ rows' = [op \in Ops |->
                IF op \in Present /\ op <= source.checkpoint
                THEN [rows[op] EXCEPT !.state = "reset_discarded", !.due = Never,
                                      !.probe = IF @ = 1 THEN 2 ELSE @] ELSE rows[op]]
  /\ source' = [source EXCEPT !.phase = "committed", !.gap = FALSE, !.blocked = FALSE]
  /\ history' = [history EXCEPT !.dropped = @ \cup 1 .. source.checkpoint]
  /\ UNCHANGED <<setting, workers, mail, registry, dest, drainer, consumer, expired, faults>>

\* One transaction with the grant and the loss of the backlog
commitCombinedReset ==
  /\ reset.step = "local"
  /\ reset' = [reset EXCEPT !.step = "release", !.granted = TRUE]
  /\ dest' = [dest EXCEPT !.gap = FALSE, !.kept = {},
                          !.noted = @ \cup {op \in 1 .. dest.checkpoint : dest.rec[op] # "none"}]
  /\ consumer' = "off"
  /\ UNCHANGED <<setting, rows, source, workers, mail, registry, drainer, expired, faults, history>>

resetRelease ==
  /\ reset.step = "release"
  /\ IF source.completed = reset.id THEN ResetGoes("clear") /\ UNCHANGED <<rows, source>>
     ELSE IF source.reset # reset.id \/ source.phase # "committed"
     THEN ResetGoes("failed") /\ UNCHANGED <<rows, source>>
     ELSE /\ ResetGoes("clear")
          /\ source' = [source EXCEPT !.reset = 0, !.phase = "none", !.completed = reset.id]
          /\ rows' = [op \in Ops |-> IF op \in Present
                                     THEN [rows[op] EXCEPT !.due = Now, !.useful = TRUE] ELSE rows[op]]
  /\ UNCHANGED <<setting, workers, mail, registry, dest, drainer, consumer, expired, faults, history>>

finishCombinedReset ==
  /\ reset.step = "clear" /\ ResetGoes("done")
  /\ dest' = [dest EXCEPT !.reset = IF @ = reset.id THEN 0 ELSE @,
                          !.interest = queueProducerWakeup(@)]
  /\ UNCHANGED <<setting, rows, source, workers, mail, registry, drainer, consumer, expired,
                 faults, history>>

\* The same request again, or what issueDurableEventGrant does: a grant of its own
\* (identifiers above the last tell nothing apart)
RetryReset ==
  /\ reset.step = "failed"
  /\ reset' = IF setting.sameGrant
              THEN [reset EXCEPT !.step = IF reset.granted THEN "release" ELSE "prepare"]
              ELSE [step |-> "prepare", id |-> Min({reset.id + 1, setting.resets + 2}), granted |-> FALSE]
  /\ UNCHANGED <<setting, rows, source, workers, mail, registry, dest, drainer, consumer,
                 expired, faults, history>>

-----------------------------------------------------------------------------
(* Faults of an object *)

SourceRestarts ==
  /\ \E op \in Ops : workers[op].step # "idle"
  /\ Fault /\ workers' = [op \in Ops |-> Idle]
  /\ UNCHANGED <<setting, rows, source, mail, registry, dest, drainer, consumer, reset, expired, history>>

StreamRestarts ==
  /\ drainer.step # "idle" \/ reset.step \notin {"idle", "done", "failed"}
  /\ Fault /\ drainer' = NoDrain
  /\ reset' = IF reset.step \in {"idle", "done"} THEN reset ELSE [reset EXCEPT !.step = "failed"]
  /\ UNCHANGED <<setting, rows, source, workers, mail, registry, dest, consumer, expired, history>>

-----------------------------------------------------------------------------
Init == /\ setting \in Settings
        /\ rows = [op \in Ops |-> NoRow] /\ source = NoStream
        /\ workers = [op \in Ops |-> Idle] /\ mail = {}
        /\ registry = [moved |-> FALSE, barrier |-> [op \in Ops |-> 0], calls |-> 0, at |-> NoCall]
        /\ dest = EmptyStream /\ drainer = NoDrain /\ consumer = "off" /\ reset = NoReset
        /\ expired = {} /\ faults = 0 /\ history = NoHistory

Attempt(op) ==
  \/ claim(op) \/ PassOver(op) \/ (Alarmed /\ maintainStateEventOutbox(op)) \/ LeaseEnds(op)
  \/ interest(op) \/ registered(op)
  \/ acceptStateEventDeliveryOutcome(op) \/ AppendRefused(op) \/ AppendUnknown(op)
  \/ confirmDestination(op) \/ outcome(op) \/ probeStateEventReceipt(op)
Retirement(op) == retire(op) \/ deferCleanup(op) \/ RetireOrigin(op) \/ release(op) \/ delete(op)
Registry == \/ \E m \in mail : RegistryTakes(m)
            \/ RegistryFences \/ RegistryDecides \/ RegistryAnswers
Reset == \/ resetPrepare \/ prepareCombinedGrant \/ resetCommit \/ commitCombinedReset
         \/ resetRelease \/ finishCombinedReset \/ RetryReset
Stream == \/ \E m \in mail : append(m)
          \/ claimWakeup \/ wakeStateEventRelay \/ drainProducerWakeup \/ streamAlarm
Page == CheckSource \/ registerSocket \/ acknowledge
Progress == \/ \E op \in Ops : Attempt(op) \/ Retirement(op) \/ Expire(op)
            \/ Registry \/ Stream \/ Page

\* What may happen, or not
Chance == \/ \E op \in Ops : \/ enqueueStateEventIntent(op) \/ AppendTimesOut(op)
                             \/ pruneCombinedRecords(op) \/ ResolveBarrier(op)
                             \/ maintainStateEventOutbox(op)
          \/ issueGrant \/ BindingMoves \/ RegistryGivesUp \/ SourceRestarts \/ StreamRestarts

Next == Progress \/ Reset \/ Chance
Spec == Init /\ [][Next]_vars

\* Alarms, requests and time go on; a page stays; an operator retries a reset.
\* Every action of Progress is bounded, so that none can be put off for ever.
FairSpec == Spec /\ WF_vars(Progress) /\ WF_vars(Reset)

-----------------------------------------------------------------------------
(* Properties *)

Increasing(s) == \A i \in 1 .. Len(s) - 1 : s[i] < s[i + 1]
Logged == ToSet(history.log)

\* Shape of the state, and what the rows owe each other: an attempt without its lease, or two
\* leases of undecided rows, would let two outcomes race.
TypeOK ==
  /\ setting \in Settings /\ faults \in 0 .. setting.faults /\ expired \subseteq Ops
  /\ \A op \in Ops :
       /\ rows[op].state \in Cleanup \cup Unresolved \cup {"none", "gone"}
       /\ rows[op].due \in {Now, Never} \cup Ops /\ rows[op].lease \in {"none", "live", "lapsed"}
       /\ rows[op].tries + rows[op].control <= 2 * setting.total
       /\ rows[op].state = "none" <=> op > source.sequence
       /\ workers[op].step # "idle" /\ ~workers[op].probing => rows[op].lease = "live"
  /\ Cardinality({op \in Ops : rows[op].state \in Unresolved /\ rows[op].lease = "live"}) <= 1
  /\ dest.kept \subseteq Ops /\ dest.noted \subseteq Ops /\ consumer \in {"off", "checked", "on"}
  /\ \A m \in mail : m.to \in {"registry", "stream"} /\ m.kind \in {"append", "fence"}

\* What the source caches is what the stream recorded, and none is forgotten before its event
\* ended.  Each operation has one outcome, unless a request begun before its append was
\* committed wrote over the record: a fence, or a gap at the deadline.
OneOutcome ==
  /\ \A op \in Ops : (rows[op].outcome = "appended" => op \in Logged)
                     /\ (rows[op].outcome = "gap" => op \in history.gapped)
  /\ Logged \cap history.gapped \subseteq history.overwritten
NothingForgotten ==
  \A op \in Ops : rows[op].state \in {"gone", "retiring"} =>
                    op \in history.acked \cup history.lost \cup history.gapped \cup history.dropped
\* A gap stays declared until a reset covers it
GapDeclared == \A op \in history.gapped \cup history.lost : dest.gap \/ op \in history.dropped
\* No event of a shared stream is appended after the binding moved
NoneAfterMove == history.strays = {}
\* Nothing a reset covered is left, or comes back, once its fence is open
ResetIsFinal == dest.reset = 0 => dest.kept \cap history.dropped = {}
EveryOutcome == OneOutcome /\ NothingForgotten /\ GapDeclared /\ NoneAfterMove /\ ResetIsFinal

\* The events of a stream are in the order of the operations, each once, and nothing is
\* appended while an earlier operation is undecided.
InOrder == /\ Increasing(history.log)
           /\ \A op \in Logged : 1 .. op - 1 \subseteq Logged \cup history.gapped \cup history.dropped

\* What the owner, the relay and the stream say of every operation fits together.
OutcomesAgree == EveryOutcome /\ InOrder

\* A row rests only when its event waits for the page or the stream cannot take it
Spent(op) == Used(rows[op]) >= setting.automatic
Resting(op) == rows[op].state = "appended" /\ op \in dest.kept
Barred(op) == /\ rows[op].state \in Unresolved /\ op \notin expired
              /\ \/ Earliest(op) # 0 \/ Cardinality(dest.kept) >= setting.capacity
                 \/ dest.gap \/ dest.reset # 0
\* An attempt refused before the deadline and ended after it leaves a row without a wakeup
Overtaken(op) == rows[op].state \in Unresolved /\ op \in expired /\ rows[op].due = Never
Settled(op) == op \notin Present \/ Spent(op) \/ Resting(op) \/ Barred(op) \/ Overtaken(op)
               \/ source.reset # 0

\* Every committed event is in the end decided and its row retired, unless its attempts are
\* used up, the stream cannot take it and says so, or a reset fences the source.
Settles == \A op \in Ops : []<>Settled(op)
=============================================================================

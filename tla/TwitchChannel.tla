------------------------------ MODULE TwitchChannel ------------------------------
(***************************************************************************)
(* One Twitch channel of the bot, src/src/platforms/twitch/: the OAuth     *)
(* flows that authorize it, the object that keeps its authorization, the   *)
(* manager that keeps its EventSub subscriptions as desired, the service   *)
(* that changes them at Twitch, and its entry in the channel registry.     *)
(*                                                                         *)
(* A handler that calls another object waits, and other requests and the   *)
(* alarm are handled meanwhile: each call is an action.  Storage           *)
(* operations in a row are one action, no request is handled between them. *)
(* An alarm may fire any time after it was set.                            *)
(***************************************************************************)
EXTENDS Naturals, Sequences, FiniteSets, SequencesExt

CONSTANTS Flows,    \* OAuth states the coordinator issues
          Types,    \* EventSub subscriptions of a channel: "chat" and others
          Tokens,   \* 1 .. n, access tokens with their refresh tokens in the order issued
          Settings  \* what a behaviour meets, see SettingsAssumption

Budgets == {"operator", "failures", "faults", "crashes", "disconnects", "revokes", "expiries"}
FlowKinds == {"plain", "invited", "linking", "grant", "none"}

ASSUME SettingsAssumption ==
  /\ Tokens \subseteq Nat /\ Tokens = 1 .. Cardinality(Tokens)
  /\ "chat" \in Types
  /\ Settings \subseteq [kinds : {<<"chat">>} \cup {<<"chat", k>> : k \in Types \ {"chat"}},
                         flows : [Flows -> FlowKinds], manages : BOOLEAN, left : [Budgets -> Nat]]

VARIABLES
  setting,   \* chosen at the start
  left,      \* requests and faults that may still happen
  flow,      \* oauth states and invitations of the coordinator, and its alarm
  auth,      \* channelAuthorization
  authAlarm, \* alarm of the authorization object
  call,      \* handlers in progress: authorization object, and the operator's routes
  config,    \* channelConfig of the manager
  recovery,  \* pendingRecovery
  alarm,     \* alarm of the manager
  run,       \* its alarm handler
  queue,     \* channelOperations of the EventSub service
  entry,     \* row of the channel registry
  links,     \* whether the integration registry links the channel
  twitch,    \* Twitch: subscriptions, notices to deliver, live tokens
  history    \* what was asked, and the races and losses so far

vars == <<setting, left, flow, auth, authAlarm, call, config, recovery, alarm, run, queue, entry,
          links, twitch, history>>
managerVars == <<config, recovery, alarm, run, queue>>
outside == <<setting, flow, twitch>>

NoAuth == [status |-> "none", token |-> 0, provisioning |-> FALSE, deconfiguration |-> FALSE,
           completion |-> FALSE, deactivation |-> FALSE]
NoConfig == [state |-> "none", last |-> "none", status |-> "none"]
NoRun == [step |-> "idle", config |-> NoConfig, recovery |-> FALSE, result |-> "none"]
Idle == [todo |-> <<>>, auth |-> NoAuth, crossed |-> FALSE, read |-> 0]

Callers == {"authorize", "disconnect", "revoked", "alarm", "operator"}
AuthCallers == Callers \ {"operator"}
Due(a) == \/ a.status = "authorized"
          \/ a.provisioning \/ a.deconfiguration \/ a.completion \/ a.deactivation

Spend(b) == left[b] > 0 /\ left' = [left EXCEPT ![b] = @ - 1]
Note(flags) == history' = [f \in DOMAIN history |-> IF f \in DOMAIN flags THEN flags[f] ELSE history[f]]

\* A call to another object is handled and answered, handled with its answer lost, or not handled
Outcome(o) == \/ o = "done" /\ UNCHANGED left
              \/ o \in {"lost", "failed"} /\ Spend("faults")
Outcomes == {"done", "lost", "failed"}

-----------------------------------------------------------------------------
\* Variants named X_Fault are faults a change to X could introduce; nothing
\* uses them, and with X replaced by one a property of this module fails.

(* The manager: desired state, kept by an alarm *)

configureChannel ==
  /\ config' = [state |-> "enabled", last |-> IF config.state = "enabled" THEN config.last ELSE "pending",
                status |-> config.status]
  /\ alarm' = TRUE
  /\ UNCHANGED recovery

deconfigureChannel ==
  /\ config' = [config EXCEPT !.state = "disabled", !.last = "deconfiguration_pending"]
  /\ recovery' = FALSE
  /\ alarm' = TRUE

\* A second report of the subscription already queued changes nothing but the configuration
queueRecovery(same) ==
  IF config.state = "disabled" THEN UNCHANGED <<config, recovery, alarm>>
  ELSE /\ config' = [config EXCEPT !.state = "enabled",
                                   !.last = IF @ = "none" THEN "recovery_queued" ELSE @]
       /\ IF recovery /\ same THEN UNCHANGED <<recovery, alarm>> ELSE recovery' = TRUE /\ alarm' = TRUE

\* What alarm() asks of the service
Operation(kind, caller) == [kind |-> kind, waiting |-> caller, listed |-> FALSE, todo |-> <<>>,
                            status |-> "none"]
alarmBegins ==
  /\ alarm /\ run.step = "idle" /\ setting.manages
  /\ config.state # "none"
  /\ alarm' = FALSE
  /\ run' = [NoRun EXCEPT !.step = "service", !.config = config, !.recovery = recovery]
  /\ queue' = Append(queue, Operation(IF config.state = "disabled" THEN "remove" ELSE "ensure", TRUE))
  /\ UNCHANGED <<left, auth, authAlarm, call, config, recovery, entry, links, history, outside>>

\* The configuration the handler read may have been replaced while it waited
Stale == run.config # config
alarmRegisters(o) ==
  /\ run.step = "register"
  /\ Outcome(o)
  /\ entry' = (entry \/ o # "failed")
  /\ run' = [run EXCEPT !.step = IF o = "done" THEN "write" ELSE "failed"]
  /\ Note([overwritten |-> history.overwritten \/ (o # "failed" /\ Stale)])
  /\ UNCHANGED <<auth, authAlarm, call, config, recovery, alarm, queue, links, outside>>

alarmSettles_FaultForgets ==
  /\ run.step = "write"
  /\ config' = [run.config EXCEPT !.last = IF @ = "deconfiguration_pending" THEN "deconfigured" ELSE "settled",
                                  !.status = run.result]
  /\ recovery' = FALSE
  /\ alarm' = FALSE
  /\ run' = NoRun
  /\ Note([overwritten |-> history.overwritten \/ Stale])
  /\ UNCHANGED <<left, auth, authAlarm, call, queue, entry, links, outside>>
alarmSettles ==
  /\ run.step = "write"
  /\ IF run.config.state = "disabled"
     THEN /\ config' = [run.config EXCEPT !.last = "deconfigured"]
          /\ recovery' = FALSE
          /\ alarm' = FALSE
     ELSE /\ config' = [run.config EXCEPT !.last = "settled", !.status = run.result]
          /\ recovery' = (recovery /\ ~run.recovery)
          /\ alarm' = TRUE
  /\ run' = NoRun
  /\ Note([overwritten |-> history.overwritten \/ Stale])
  /\ UNCHANGED <<left, auth, authAlarm, call, queue, entry, links, outside>>

alarmRetries ==
  /\ run.step = "failed"
  /\ config' = [run.config EXCEPT !.last = "error"]
  /\ recovery' = (recovery \/ run.recovery)
  /\ alarm' = TRUE
  /\ run' = NoRun
  /\ Note([overwritten |-> history.overwritten \/ Stale])
  /\ UNCHANGED <<left, auth, authAlarm, call, queue, entry, links, outside>>

-----------------------------------------------------------------------------
(* The service: one operation per channel at a time; and Twitch *)

If(cond, steps) == IF cond THEN steps ELSE <<>>
Healthy(k) == "healthy" \in twitch.subs[k]

\* The changes ensureSubscriptions and removeSubscriptions make, from the list they read
Deletions(k, statuses) == If("healthy" \in statuses, <<<<"delete", k, "healthy">>>>) \o
                          If("stale" \in statuses, <<<<"delete", k, "stale">>>>)
ensureSubscriptions(k) == Deletions(k, twitch.subs[k] \ {"healthy"}) \o
                          If(~Healthy(k), <<<<"create", k, "healthy">>>>)
removeSubscriptions_FaultHealthyOnly(k) == Deletions(k, twitch.subs[k] \cap {"healthy"})
removeSubscriptions(k) == Deletions(k, twitch.subs[k])
Changes(kind, k) == IF kind = "ensure" THEN ensureSubscriptions(k) ELSE removeSubscriptions(k)
Mutations(kind) == Changes(kind, setting.kinds[1]) \o
                   (IF Len(setting.kinds) = 2 THEN Changes(kind, setting.kinds[2]) ELSE <<>>)

\* withChannelOperation: an operation starts when the one before it has ended
Running_FaultAll == DOMAIN queue
Running == DOMAIN queue \cap {1}

Answer(i, step) == /\ queue' = RemoveAt(queue, i)
                   /\ run' = IF queue[i].waiting
                             THEN [run EXCEPT !.step = step, !.result = queue[i].status] ELSE run

matchingSubscriptions(i, o) ==
  /\ ~queue[i].listed
  /\ Outcome(o)
  /\ IF o = "done"
     THEN /\ queue' = [queue EXCEPT ![i].listed = TRUE, ![i].todo = Mutations(queue[i].kind),
                                    ![i].status = "healthy"]
          /\ UNCHANGED run
     ELSE Answer(i, "failed")
  /\ UNCHANGED <<auth, authAlarm, call, config, recovery, alarm, entry, links, history, outside>>

\* Deleting what is gone fails the operation; creating what exists does not
serviceMutates(i, o) ==
  /\ queue[i].todo # <<>>
  /\ LET change == Head(queue[i].todo)
         k == change[2]
         exists == change[3] \in twitch.subs[k]
         fails == o # "done" \/ (change[1] = "delete" /\ ~exists)
     IN /\ Outcome(o)
        /\ twitch' = IF o = "failed" THEN twitch
                     ELSE [twitch EXCEPT !.subs[k] = IF change[1] = "delete" THEN @ \ {change[3]}
                                                     ELSE @ \cup {"healthy"}]
        /\ IF fails THEN Answer(i, "failed")
           ELSE /\ queue' = [queue EXCEPT ![i].todo = Tail(@),
                               ![i].status = IF change[1] = "create" /\ exists /\ k = setting.kinds[1]
                                             THEN "unknown" ELSE @]
                /\ UNCHANGED run
  /\ UNCHANGED <<setting, flow, auth, authAlarm, call, config, recovery, alarm, entry, links, history>>

serviceAnswers(i) ==
  /\ queue[i].listed /\ queue[i].todo = <<>>
  /\ Answer(i, IF queue[i].kind = "ensure" THEN "register" ELSE "write")
  /\ UNCHANGED <<left, auth, authAlarm, call, config, recovery, alarm, entry, links, history, outside>>

\* Evictions: the platform runs an interrupted alarm again; a service operation goes on without its caller
managerRestarts ==
  /\ run.step # "idle"
  /\ Spend("crashes")
  /\ run' = NoRun
  /\ alarm' = TRUE
  /\ queue' = [i \in DOMAIN queue |-> [queue[i] EXCEPT !.waiting = FALSE]]
  /\ UNCHANGED <<auth, authAlarm, call, config, recovery, entry, links, history, outside>>
serviceRestarts ==
  /\ queue # <<>>
  /\ Spend("crashes")
  /\ queue' = <<>>
  /\ run' = IF run.step = "service" THEN [run EXCEPT !.step = "failed"] ELSE run
  /\ UNCHANGED <<auth, authAlarm, call, config, recovery, alarm, entry, links, history, outside>>

\* Twitch gives up on a subscription, or forgets one it gave up on
SubscriptionFails(k) ==
  /\ Healthy(k)
  /\ Spend("failures")
  /\ twitch' = [twitch EXCEPT !.subs[k] = {"stale"}, !.notices = @ \cup {"failed"}]
  /\ UNCHANGED <<setting, flow, auth, authAlarm, call, managerVars, entry, links, history>>
SubscriptionForgotten(k) ==
  /\ "stale" \in twitch.subs[k]
  /\ Spend("failures")
  /\ twitch' = [twitch EXCEPT !.subs[k] = @ \ {"stale"}]
  /\ UNCHANGED <<setting, flow, auth, authAlarm, call, managerVars, entry, links, history>>

\* The broadcaster disconnects the bot at Twitch, which revokes every token and the chat subscription
\* (where the manager's alarm is left out, there may be one)
UserRevokes(noticed) ==
  /\ twitch.live \cup twitch.refreshable # {}
  /\ Spend("revokes")
  /\ twitch' = [twitch EXCEPT !.live = {}, !.refreshable = {},
                              !.subs["chat"] = IF Healthy("chat") THEN {"stale"} ELSE @,
                              !.notices = IF noticed THEN @ \cup {"revoked"} ELSE @]
  /\ setting.manages => noticed = Healthy("chat")
  /\ Note([ended |-> history.ended \cup twitch.live \cup twitch.refreshable])
  /\ UNCHANGED <<setting, flow, auth, authAlarm, call, managerVars, entry, links>>

\* handleChatRevocation and handleStreamOnlineRevocation of a failed subscription
failedNotice(same, o) ==
  /\ "failed" \in twitch.notices
  /\ Outcome(o)
  /\ IF o = "failed" THEN UNCHANGED <<config, recovery, alarm>> ELSE queueRecovery(same)
  /\ twitch' = IF o = "done" THEN [twitch EXCEPT !.notices = @ \ {"failed"}] ELSE twitch
  /\ UNCHANGED <<setting, flow, auth, authAlarm, call, run, queue, entry, links, history>>

-----------------------------------------------------------------------------
(* The authorization object and the operator's routes, call by call *)

Busy(c) == call[c].todo # <<>>
Step(c, s) == Busy(c) /\ Head(call[c].todo) = s
After(c) == Tail(call[c].todo)

\* c goes on with what is left; a change it made crosses every other handler in progress
Continue(c, a, todo, changes) ==
  call' = [d \in Callers |->
             IF d = c THEN IF todo = <<>> THEN Idle ELSE [call[c] EXCEPT !.auth = a, !.todo = todo]
             ELSE [call[d] EXCEPT !.crossed = @ \/ (changes /\ Busy(d))]]
Start(c, a, todo) == call' = [call EXCEPT ![c] = [todo |-> todo, auth |-> a, crossed |-> FALSE, read |-> a.token]]

\* The operator's request ends with the first call that fails, the object's goes on without the second
Failed(c) == IF c = "operator" THEN <<>>
             ELSE IF Len(After(c)) > 0 /\ Head(After(c)) \in {"register", "unregister"}
             THEN Tail(After(c)) ELSE After(c)

\* updateChannelDesiredState: the manager, then the registry
configure(c, o) ==
  /\ Step(c, "configure")
  /\ Outcome(o)
  /\ IF o = "failed" THEN UNCHANGED <<config, recovery, alarm, history>>
     ELSE configureChannel /\ Note([asked |-> "on", overwritten |-> FALSE])
  /\ Continue(c, [call[c].auth EXCEPT !.provisioning = o # "done"],
              IF o = "done" THEN After(c) ELSE Failed(c), o # "failed")
  /\ UNCHANGED <<auth, authAlarm, run, queue, entry, links, outside>>
register_FaultSettled(c, o) ==
  /\ Step(c, "register")
  /\ Outcome(o)
  /\ entry' = (entry \/ o # "failed")
  /\ Continue(c, [call[c].auth EXCEPT !.provisioning = FALSE], After(c), o # "failed")
  /\ UNCHANGED <<auth, authAlarm, managerVars, links, history, outside>>
register(c, o) ==
  /\ Step(c, "register")
  /\ Outcome(o)
  /\ entry' = (entry \/ o # "failed")
  /\ Continue(c, [call[c].auth EXCEPT !.provisioning = o # "done"], After(c), o # "failed")
  /\ UNCHANGED <<auth, authAlarm, managerVars, links, history, outside>>

\* disableChannelDesiredState; invalidate() leaves the registry's entry
deconfigure(c, o) ==
  /\ Step(c, "deconfigure")
  /\ Outcome(o)
  /\ IF o = "failed" THEN UNCHANGED <<config, recovery, alarm, history>>
     ELSE deconfigureChannel /\ Note([asked |-> "off", overwritten |-> FALSE])
  /\ Continue(c, [call[c].auth EXCEPT !.deconfiguration = o # "done"],
              IF o = "done" THEN After(c) ELSE Failed(c), o # "failed")
  /\ UNCHANGED <<auth, authAlarm, run, queue, entry, links, outside>>
unregister(c, o) ==
  /\ Step(c, "unregister")
  /\ Outcome(o)
  /\ entry' = (entry /\ o = "failed")
  /\ Continue(c, [call[c].auth EXCEPT !.deconfiguration = o # "done"], After(c), o # "failed")
  /\ UNCHANGED <<auth, authAlarm, managerVars, links, history, outside>>

\* The registry links the channel, refuses, or is asked again; it revokes all links of the channel
verifyPendingIntegration(c, o, linked) ==
  /\ Step(c, "verify")
  /\ Outcome(o)
  /\ links' = (links \/ (linked /\ o # "failed"))
  /\ Continue(c, [call[c].auth EXCEPT !.completion = o # "done"], After(c), o # "failed")
  /\ UNCHANGED <<auth, authAlarm, managerVars, entry, history, outside>>
deactivateLinkedIntegrations(c, o) ==
  /\ Step(c, "deactivate")
  /\ Outcome(o)
  /\ links' = (links /\ o = "failed")
  /\ Continue(c, [call[c].auth EXCEPT !.deactivation = o # "done"], After(c), o # "failed")
  /\ UNCHANGED <<auth, authAlarm, managerVars, entry, history, outside>>

\* What the handler read or made replaces what is stored; then its alarm
put(c) ==
  /\ Step(c, "put")
  /\ auth' = call[c].auth
  /\ authAlarm' = Due(call[c].auth)
  /\ Continue(c, NoAuth, <<>>, TRUE)
  /\ Note([crossed |-> call[c].crossed \/ (history.crossed /\ c = "alarm"),
           torn |-> history.torn /\ c = "alarm"])
  /\ UNCHANGED <<left, managerVars, entry, links, outside>>

-----------------------------------------------------------------------------
(* Requests to the authorization object, and its alarm *)

\* disconnect() of what is stored: the token is revoked first, best effort
disconnect ==
  /\ auth.status # "none" /\ ~Busy("disconnect")
  /\ Spend("disconnects")
  /\ Start("disconnect", [NoAuth EXCEPT !.status = "disconnected", !.token = auth.token,
                                        !.deconfiguration = TRUE, !.deactivation = TRUE],
           <<"revoke", "deconfigure", "unregister", "deactivate", "put">>)
  /\ UNCHANGED <<auth, authAlarm, managerVars, entry, links, history, outside>>
revokeTwitchToken(c, o) ==
  /\ Step(c, "revoke")
  /\ Outcome(o)
  /\ LET gone == IF o = "failed" THEN {} ELSE {call[c].auth.token}
     IN /\ twitch' = [twitch EXCEPT !.live = @ \ gone, !.refreshable = @ \ gone]
        /\ Note([ended |-> history.ended \cup gone])
        /\ Continue(c, [call[c].auth EXCEPT !.token = 0], After(c), gone # {})
  /\ UNCHANGED <<setting, flow, auth, authAlarm, managerVars, entry, links>>

\* invalidate()
Invalidated == [NoAuth EXCEPT !.status = "reauthorization_required",
                              !.deconfiguration = TRUE, !.deactivation = TRUE]
Invalidation == <<"deconfigure", "deactivate", "put">>

\* The notice says who revoked, not which authorization
revoked ==
  /\ "revoked" \in twitch.notices /\ ~Busy("revoked")
  /\ twitch' = [twitch EXCEPT !.notices = @ \ {"revoked"}]
  /\ IF auth.status # "authorized" THEN UNCHANGED call ELSE Start("revoked", Invalidated, Invalidation)
  /\ UNCHANGED <<setting, flow, left, auth, authAlarm, managerVars, entry, links, history>>

\* The operator's routes
operatorAsks(todo) ==
  /\ ~Busy("operator")
  /\ Spend("operator")
  /\ Start("operator", NoAuth, todo)
  /\ UNCHANGED <<auth, authAlarm, managerVars, entry, links, history, outside>>
configureTwitchChannel == operatorAsks(<<"configure", "register">>)
deconfigureTwitchChannel == operatorAsks(<<"deconfigure", "unregister">>)

Provision(a) == If(a.provisioning, <<"configure", "register">>) \o If(a.completion, <<"verify">>) \o
                <<"put">>
Deprovision(a) == If(a.deconfiguration, <<"deconfigure">>) \o
                  If(a.deconfiguration /\ a.status = "disconnected", <<"unregister">>) \o
                  If(a.deactivation, <<"deactivate">>) \o <<"put">>
authAlarmBegins ==
  /\ authAlarm /\ ~Busy("alarm")
  /\ auth.status # "none"
  /\ authAlarm' = FALSE
  /\ Start("alarm", auth, IF auth.status = "authorized" THEN <<"validate">> ELSE Deprovision(auth))
  /\ UNCHANGED <<left, auth, managerVars, entry, links, history, outside>>

\* The alarm gives up for now; tokens it had refreshed are lost
LostToken == IF call["alarm"].auth.token = call["alarm"].read THEN {} ELSE {call["alarm"].read}
alarmEnds(lost) ==
  /\ Continue("alarm", NoAuth, <<>>, FALSE)
  /\ authAlarm' = TRUE
  /\ Note([ended |-> history.ended \cup lost])
alarmInvalidates(refused) ==
  /\ Continue("alarm", Invalidated, Invalidation, FALSE)
  /\ Note([unjust |-> history.unjust \/
       (~refused /\ {call["alarm"].read, call["alarm"].auth.token} \cap history.ended = {})])
  /\ UNCHANGED authAlarm

validate_FaultUnavailable(o) ==
  /\ Step("alarm", "validate")
  /\ Outcome(o)
  /\ LET a == call["alarm"].auth
     IN IF o # "done" THEN alarmInvalidates(FALSE)
        ELSE /\ Continue("alarm", a, IF a.token \in twitch.live THEN Provision(a) ELSE <<"refresh">>, FALSE)
             /\ UNCHANGED <<authAlarm, history>>
  /\ UNCHANGED <<auth, managerVars, entry, links, outside>>
validate(o) ==
  /\ Step("alarm", "validate")
  /\ Outcome(o)
  /\ LET a == call["alarm"].auth
     IN IF o # "done" THEN alarmEnds({})
        ELSE /\ Continue("alarm", a, IF a.token \in twitch.live THEN Provision(a) ELSE <<"refresh">>, FALSE)
             /\ UNCHANGED <<authAlarm, history>>
  /\ UNCHANGED <<auth, managerVars, entry, links, outside>>
\* Twitch may replace the refresh token it was given
refresh(o, rotates) ==
  /\ Step("alarm", "refresh")
  /\ Outcome(o)
  /\ LET t == call["alarm"].auth.token
         n == twitch.next
     IN IF t \in twitch.refreshable /\ o # "failed"
        THEN /\ n \in Tokens
             /\ twitch' = [twitch EXCEPT !.live = @ \cup {n}, !.next = n + 1,
                              !.refreshable = (IF rotates THEN @ \ {t} ELSE @) \cup {n}]
             /\ IF o = "lost" THEN alarmEnds(IF rotates THEN {t} ELSE {})
                ELSE /\ Continue("alarm", [call["alarm"].auth EXCEPT !.token = n], <<"revalidate">>, FALSE)
                     /\ UNCHANGED <<authAlarm, history>>
        ELSE /\ IF o = "done" THEN alarmInvalidates(FALSE) ELSE alarmEnds({})
             /\ UNCHANGED twitch
  /\ UNCHANGED <<setting, flow, auth, managerVars, entry, links>>
\* twitchTokenRequest() takes every answer with an error status, a passing fault of the endpoint too, for
\* a refusal of the refresh token; only a request without an answer, or a malformed one, is tried again
refreshRejected ==
  /\ Step("alarm", "refresh")
  /\ Spend("faults")
  /\ alarmInvalidates(TRUE)
  /\ UNCHANGED <<setting, flow, twitch, auth, managerVars, entry, links>>
revalidate(o) ==
  /\ Step("alarm", "revalidate")
  /\ Outcome(o)
  /\ LET a == call["alarm"].auth
     IN CASE o # "done" -> alarmEnds(LostToken)
          [] o = "done" /\ a.token \notin twitch.live -> alarmInvalidates(FALSE)
          [] OTHER -> /\ Continue("alarm", a, Provision(a), FALSE)
                      /\ UNCHANGED <<authAlarm, history>>
  /\ UNCHANGED <<auth, managerVars, entry, links, outside>>

\* A token lives for hours; one that expires before the alarm that refreshed it used it counts as ended
TokenExpires(t) ==
  /\ t \in twitch.live
  /\ Spend("expiries")
  /\ twitch' = [twitch EXCEPT !.live = @ \ {t}]
  /\ Note([ended |-> history.ended \cup
                      (IF Step("alarm", "revalidate") /\ call["alarm"].auth.token = t THEN {t} ELSE {})])
  /\ UNCHANGED <<setting, flow, auth, authAlarm, call, managerVars, entry, links>>

\* The authorization object is evicted: an interrupted alarm or notice comes again, a request does not
Invalidating == Busy("alarm") /\ auth.status = "authorized" /\ call["alarm"].auth.status # auth.status
authRestarts ==
  /\ \E c \in AuthCallers : Busy(c)
  /\ Spend("crashes")
  /\ call' = [c \in Callers |-> IF c = "operator" THEN call[c] ELSE Idle]
  /\ authAlarm' = (authAlarm \/ Busy("alarm") \/ Due(auth))
  /\ twitch' = [twitch EXCEPT !.notices = @ \cup (IF Busy("revoked") THEN {"revoked"} ELSE {})]
  /\ Note([torn |-> history.torn \/ Busy("authorize") \/ Busy("disconnect") \/ Invalidating,
           crossed |-> history.crossed \/ \E c \in AuthCallers : call[c].crossed,
           ended |-> history.ended \cup (IF Busy("alarm") THEN LostToken ELSE {})])
  /\ UNCHANGED <<setting, flow, auth, managerVars, entry, links>>

-----------------------------------------------------------------------------
(* The OAuth coordinator: invitations and states are used once, or expire *)

Pending == flow.invites \cup flow.states
coordinatorVars == <<auth, authAlarm, managerVars, entry, links>>

createInvitation(f) ==
  /\ setting.flows[f] = "invited" /\ f \notin flow.begun
  /\ flow' = [flow EXCEPT !.begun = @ \cup {f}, !.invites = @ \cup {f}, !.alarm = TRUE]
  /\ UNCHANGED <<setting, left, call, twitch, history, coordinatorVars>>

\* The invitation goes in the transaction that stores the state
Opened(f) == [flow EXCEPT !.begun = @ \cup {f}, !.invites = @ \ {f}, !.states = @ \cup {f}, !.alarm = TRUE]
startOAuth_FaultKeeps(f) ==
  /\ IF setting.flows[f] = "invited" THEN f \in flow.invites
     ELSE setting.flows[f] \in {"plain", "linking"} /\ f \notin flow.begun
  /\ flow' = [Opened(f) EXCEPT !.invites = flow.invites]
  /\ UNCHANGED <<setting, left, call, twitch, history, coordinatorVars>>
startOAuth(f) ==
  /\ IF setting.flows[f] = "invited" THEN f \in flow.invites
     ELSE setting.flows[f] \in {"plain", "linking"} /\ f \notin flow.begun
  /\ flow' = Opened(f)
  /\ UNCHANGED <<setting, left, call, twitch, history, coordinatorVars>>
startGrantOAuth(f) ==
  /\ setting.flows[f] = "grant" /\ f \notin flow.begun
  /\ flow' = Opened(f)
  /\ UNCHANGED <<setting, left, call, twitch, history, coordinatorVars>>

\* The callback deletes the state, then exchanges the code
Called(f) ==
  /\ f \in flow.states
  /\ flow' = [flow EXCEPT !.states = @ \ {f}, !.exchanging = @ \cup {f}]
  /\ Note([uses |-> [history.uses EXCEPT ![f] = @ + 1]])
  /\ UNCHANGED <<setting, left, call, twitch, coordinatorVars>>
finishOAuth(f) == setting.flows[f] # "grant" /\ Called(f)
finishGrantOAuth(f) == setting.flows[f] = "grant" /\ Called(f)

Exchanged(f) == /\ f \in flow.exchanging
                /\ flow' = [flow EXCEPT !.exchanging = @ \ {f}]
Issued(n) == [twitch EXCEPT !.live = @ \cup {n}, !.refreshable = @ \cup {n}, !.next = n + 1]
\* authorize() of the object with the tokens of the code
authorize(f, o) ==
  /\ setting.flows[f] # "grant"
  /\ Exchanged(f) /\ Outcome(o)
  /\ IF o = "failed" THEN UNCHANGED <<call, twitch>>
     ELSE LET n == twitch.next
              a == [NoAuth EXCEPT !.status = "authorized", !.token = n,
                                  !.completion = setting.flows[f] = "linking"]
          IN /\ n \in Tokens
             /\ twitch' = Issued(n)
             /\ IF o = "lost" THEN UNCHANGED call
                ELSE /\ ~Busy("authorize")
                     /\ Start("authorize", a, <<"configure", "register">> \o Provision(a))
  /\ UNCHANGED <<setting, history, coordinatorVars>>
\* A grant is issued for the channel, and the token that proved it revoked whatever happened
issueGrant(f, o) ==
  /\ setting.flows[f] = "grant"
  /\ Exchanged(f) /\ Outcome(o)
  /\ IF o # "lost" THEN UNCHANGED twitch
     ELSE twitch.next \in Tokens /\ twitch' = Issued(twitch.next)
  /\ UNCHANGED <<setting, call, history, coordinatorVars>>

coordinatorAlarm(gone) ==
  /\ flow.alarm
  /\ gone \subseteq Pending /\ (gone = {} => Pending = {})
  /\ flow' = [flow EXCEPT !.invites = @ \ gone, !.states = @ \ gone, !.alarm = gone # Pending]
  /\ UNCHANGED <<setting, left, call, twitch, history, coordinatorVars>>

-----------------------------------------------------------------------------
Init ==
  /\ setting \in Settings
  /\ left = setting.left
  /\ flow = [begun |-> {}, invites |-> {}, states |-> {}, exchanging |-> {}, alarm |-> FALSE]
  /\ auth = NoAuth /\ authAlarm = FALSE
  /\ call = [c \in Callers |-> Idle]
  /\ config = NoConfig /\ recovery = FALSE /\ alarm = FALSE
  /\ run = NoRun /\ queue = <<>>
  /\ entry = FALSE /\ links = FALSE
  /\ twitch = [subs |-> [k \in Types |-> {}], notices |-> {}, live |-> {}, refreshable |-> {}, next |-> 1]
  /\ history = [asked |-> "none", overwritten |-> FALSE, crossed |-> FALSE, torn |-> FALSE,
                unjust |-> FALSE, ended |-> {}, uses |-> [f \in Flows |-> 0]]

CallStep(c, o) ==
  \/ configure(c, o)
  \/ register(c, o)
  \/ deconfigure(c, o)
  \/ unregister(c, o)
  \/ \E linked \in BOOLEAN : verifyPendingIntegration(c, o, linked)
  \/ deactivateLinkedIntegrations(c, o)
  \/ revokeTwitchToken(c, o)
ValidationStep(o) == \/ validate(o)
                     \/ \E rotates \in BOOLEAN : refresh(o, rotates)
                     \/ revalidate(o)
ManagerStep(o) == \/ alarmRegisters(o)
                  \/ \E i \in Running : matchingSubscriptions(i, o) \/ serviceMutates(i, o)
FlowStep(f, o) == authorize(f, o) \/ issueGrant(f, o)

Requests ==
  \/ disconnect \/ configureTwitchChannel \/ deconfigureTwitchChannel
  \/ \E f \in Flows : createInvitation(f) \/ startOAuth(f) \/ startGrantOAuth(f)
                     \/ finishOAuth(f) \/ finishGrantOAuth(f)
Environment ==
  \/ \E k \in Types : SubscriptionFails(k) \/ SubscriptionForgotten(k)
  \/ \E t \in Tokens : TokenExpires(t)
  \/ \E noticed \in BOOLEAN : UserRevokes(noticed)
Crash == managerRestarts \/ serviceRestarts \/ authRestarts

Next ==
  \/ \E o \in Outcomes : \/ \E c \in Callers : CallStep(c, o)
                         \/ ValidationStep(o) \/ ManagerStep(o)
                         \/ \E same \in BOOLEAN : failedNotice(same, o)
                         \/ \E f \in Flows : FlowStep(f, o)
  \/ \E c \in Callers : put(c)
  \/ revoked \/ authAlarmBegins \/ refreshRejected
  \/ alarmBegins \/ alarmSettles \/ alarmRetries
  \/ \E i \in Running : serviceAnswers(i)
  \/ \E gone \in SUBSET Flows : coordinatorAlarm(gone)
  \/ Requests \/ Environment \/ Crash

Spec == Init /\ [][Next]_vars

\* Each handler in progress goes on, alarms fire, and notices are delivered
ManagerProceeds == \/ alarmBegins \/ alarmSettles \/ alarmRetries \/ ManagerStep("done")
                   \/ \E i \in Running : serviceAnswers(i)
CallProceeds(c) == CallStep(c, "done") \/ put(c) \/ (c = "alarm" /\ (authAlarmBegins \/ ValidationStep("done")))
CoordinatorProceeds == \/ \E gone \in SUBSET Flows : coordinatorAlarm(gone)
                       \/ \E f \in Flows : FlowStep(f, "done")
NoticesArrive == failedNotice(TRUE, "done") \/ revoked
Fairness == /\ WF_vars(ManagerProceeds) /\ WF_vars(CoordinatorProceeds) /\ WF_vars(NoticesArrive)
            /\ \A c \in Callers : WF_vars(CallProceeds(c))
FairSpec == Spec /\ Fairness

-----------------------------------------------------------------------------
(* Properties *)

Statuses == {"none", "authorized", "disconnected", "reauthorization_required"}
AuthRecords == [status : Statuses, token : {0} \cup Tokens, provisioning : BOOLEAN,
                deconfiguration : BOOLEAN, completion : BOOLEAN, deactivation : BOOLEAN]
Configs == [state : {"none", "enabled", "disabled"}, status : {"none", "healthy", "unknown"},
            last : {"none", "pending", "recovery_queued", "settled", "error",
                    "deconfiguration_pending", "deconfigured"}]

\* Types of the variables; and what they never hold together: pending work belongs to the status it is for
TypeOK ==
  /\ auth \in AuthRecords
  /\ auth.status # "authorized" => ~auth.provisioning /\ ~auth.completion /\ auth.token = 0
  /\ auth.status \in {"none", "authorized"} => ~auth.deconfiguration /\ ~auth.deactivation
  /\ Due(auth) => authAlarm \/ Busy("alarm")
  /\ \A c \in Callers : call[c].auth \in AuthRecords
  /\ config \in Configs /\ run.config \in Configs
  /\ recovery => config.state = "enabled" \/ history.overwritten
  /\ run.step \in {"idle", "service", "register", "write", "failed"}
  /\ run.step = "service" <=> \E i \in DOMAIN queue : queue[i].waiting
  /\ config.state = "enabled" => alarm \/ run.step # "idle"
  /\ twitch.subs \in [Types -> SUBSET {"healthy", "stale"}]
  /\ twitch.refreshable \cup twitch.live \subseteq 1 .. (twitch.next - 1)
  /\ Pending # {} => flow.alarm

\* classifyHealth() of the answers of the manager and of the authorization object
classifyHealth ==
  IF auth.status = "reauthorization_required" THEN auth.status
  ELSE IF auth.status # "authorized" \/ config.state # "enabled" THEN "inactive"
  ELSE IF recovery \/ config.last = "error" THEN "degraded"
  ELSE IF config.last \in {"pending", "deconfiguration_pending"} THEN "pending"
  ELSE IF config.status = "unknown" THEN "degraded" ELSE "healthy"

\* An invitation and an OAuth state authorize once.  A channel is found in need of a new
\* authorization only when its tokens were revoked, were refreshed and lost, expired as soon as
\* they were refreshed, or the endpoint that refreshes them answered with an error.  What the
\* manager reports as deconfigured has no subscription at Twitch.
PromisesKept ==
  /\ \A f \in Flows : history.uses[f] <= 1
  /\ ~history.unjust
  /\ config.last = "deconfigured" => \A k \in Types : twitch.subs[k] = {}

\* Once requests and faults end, the subscriptions, the registry and the links are what was
\* last asked, and the status reported agrees: unless a handler overwrote what was changed
\* while it waited, or a request or the invalidation of refused tokens died half way.
Kinds == {setting.kinds[i] : i \in DOMAIN setting.kinds}
Agreed ==
  /\ setting.manages => \A k \in Kinds : twitch.subs[k] = IF config.state = "enabled" THEN {"healthy"} ELSE {}
  /\ setting.manages /\ config.state = "enabled" => entry
  /\ history.overwritten \/ (config.state = "enabled" <=> history.asked = "on")
  /\ \/ history.crossed \/ history.torn \/ history.overwritten \/ auth.status = "none"
     \/ /\ auth.status = "authorized" <=> history.asked = "on"
        /\ auth.status = "authorized" =>
             entry /\ ~auth.completion /\ classifyHealth = IF setting.manages THEN "healthy" ELSE "pending"
        /\ auth.status # "authorized" => ~links /\ ~Due(auth)
        /\ auth.status = "disconnected" => ~entry
  /\ Pending \cup flow.exchanging = {}
EventuallyAgreed == <>[]Agreed
=============================================================================

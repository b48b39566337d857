--------------------------- MODULE AlertScheduler ----------------------------
(***************************************************************************)
(* The alert scheduler of the search service (search/internal/scheduler/   *)
(* scheduler.go): one goroutine syncs a map of timers with the alert       *)
(* definitions (search/internal/service/alerts.go), one goroutine per      *)
(* timer runs its alert, and main stops everything on a signal             *)
(* (search/cmd/search/main.go).  The mutex is held for single steps only.  *)
(***************************************************************************)
EXTENDS Naturals, FiniteSets

CONSTANTS Alerts,      \* ids of alert definitions
          MaxTimers,   \* bound on timers ever made
          MaxChanges,  \* bound on changes of the alert definitions
          MayStop      \* TRUE if the service may get the signal

ASSUME SchedulerAssumption ==
    /\ MaxTimers \in Nat
    /\ MaxChanges \in Nat
    /\ MayStop \in BOOLEAN

Timers == 1 .. MaxTimers

VARIABLES status,   \* SearchService.alerts: "none" without a definition
          changes,  \* changes so far
          main,     \* where main is
          ctx,      \* schedulerCtx is done
          stopChan, \* the scheduler's stopChan is closed
          loop,     \* the goroutine of run
          alertTimers, \* the map of timers, 0 without one
          timer,    \* every timer made, and its goroutine
          made,     \* timers made so far
          wg        \* the WaitGroup's counter

vars == <<status, changes, main, ctx, stopChan, loop, alertTimers, timer, made, wg>>

Off == [at |-> "off", todo |-> {}, active |-> {}]
Idle == [at |-> "idle", todo |-> {}, active |-> {}]
NoTimer == [alert |-> "none", open |-> FALSE, at |-> "none"]

TypeOK ==
    /\ status \in [Alerts -> {"none", "active", "inactive"}]
    /\ changes \in 0 .. MaxChanges
    /\ main \in {"new", "running", "stopping", "clearing", "waiting", "stopped"}
    /\ ctx \in BOOLEAN /\ stopChan \in BOOLEAN
    /\ loop \in [at : {"off", "idle", "sync", "schedule", "launch", "exited"},
                 todo : SUBSET Alerts, active : SUBSET Alerts]
    /\ alertTimers \in [Alerts -> Timers \cup {0}]
    /\ timer \in [Timers -> [alert : Alerts \cup {"none"}, open : BOOLEAN,
                             at : {"none", "made", "wait", "search", "send", "gone"}]]
    /\ made \in 0 .. MaxTimers
    /\ wg \in 0 .. MaxTimers + 1

Init ==
    /\ status \in [Alerts -> {"none", "active"}]
    /\ changes = 0
    /\ main = "new"
    /\ ctx = FALSE /\ stopChan = FALSE
    /\ loop = Off
    /\ alertTimers = [a \in Alerts |-> 0]
    /\ timer = [t \in Timers |-> NoTimer]
    /\ made = 0
    /\ wg = 0

mainVars == <<main, ctx, stopChan>>
storeVars == <<status, changes>>

-----------------------------------------------------------------------------
(* The alert definitions.                                                  *)

(* UpsertAlert and PatchAlert: an alert is created, or its status changed. *)
ChangeAlert(a, s) ==
    /\ changes < MaxChanges
    /\ status[a] # s
    /\ status' = [status EXCEPT ![a] = s]
    /\ changes' = changes + 1
    /\ UNCHANGED <<mainVars, loop, alertTimers, timer, made, wg>>

-----------------------------------------------------------------------------
(* main: Start, the signal, Stop.                                          *)

Start ==
    /\ main = "new"
    /\ main' = "running"
    /\ loop' = [Off EXCEPT !.at = "idle"]
    /\ wg' = wg + 1
    /\ UNCHANGED <<storeVars, ctx, stopChan, alertTimers, timer, made>>

(* The signal ends schedulerCtx as well as main's wait. *)
Signal ==
    /\ MayStop
    /\ main = "running"
    /\ main' = "stopping"
    /\ ctx' = TRUE
    /\ UNCHANGED <<storeVars, stopChan, loop, alertTimers, timer, made, wg>>

(* Stop: running is FALSE, stopChan closed ... *)
StopCloses ==
    /\ main = "stopping"
    /\ main' = "clearing"
    /\ stopChan' = TRUE
    /\ UNCHANGED <<storeVars, ctx, loop, alertTimers, timer, made, wg>>

Registered == {alertTimers[a] : a \in Alerts} \ {0}

StopTimers(T) ==
    [t \in Timers |-> IF t \in T THEN [timer[t] EXCEPT !.open = FALSE] ELSE timer[t]]

(* Mutation of stopAllAlertTimers: the map is kept. *)
StopAllKeepsMap ==
    /\ main = "clearing"
    /\ main' = "waiting"
    /\ timer' = StopTimers(Registered)
    /\ UNCHANGED <<storeVars, ctx, stopChan, loop, alertTimers, made, wg>>

(* ... every timer in the map stopped and the map made anew ... *)
stopAllAlertTimers ==
    /\ main = "clearing"
    /\ main' = "waiting"
    /\ timer' = StopTimers(Registered)
    /\ alertTimers' = [a \in Alerts |-> 0]
    /\ UNCHANGED <<storeVars, ctx, stopChan, loop, made, wg>>

(* Mutation of StopReturns: without wg.Wait(). *)
StopWithoutWait ==
    /\ main = "waiting"
    /\ main' = "stopped"
    /\ UNCHANGED <<storeVars, ctx, stopChan, loop, alertTimers, timer, made, wg>>

(* ... and wg.Wait() has returned. *)
StopReturns ==
    /\ main = "waiting"
    /\ wg = 0
    /\ main' = "stopped"
    /\ UNCHANGED <<storeVars, ctx, stopChan, loop, alertTimers, timer, made, wg>>

-----------------------------------------------------------------------------
(* The goroutine of run.                                                   *)

(* The start or the ticker: the active alerts are listed. *)
syncAlerts ==
    /\ loop.at = "idle"
    /\ LET active == {a \in Alerts : status[a] = "active"}
       IN  loop' = [at |-> "sync", todo |-> active, active |-> active]
    /\ UNCHANGED <<storeVars, mainVars, alertTimers, timer, made, wg>>

(* Mutation of checkTimer: the map is not looked at. *)
ScheduleAgain(a) ==
    /\ loop.at = "sync"
    /\ a \in loop.todo
    /\ loop' = [loop EXCEPT !.at = "schedule", !.todo = @ \ {a}]
    /\ made < MaxTimers
    /\ made' = made + 1
    /\ timer' = [timer EXCEPT ![made + 1] = [alert |-> a, open |-> TRUE, at |-> "made"]]
    /\ UNCHANGED <<storeVars, mainVars, alertTimers, wg>>

(* One alert of the list: without a timer it is to be scheduled. *)
checkTimer(a) ==
    /\ loop.at = "sync"
    /\ a \in loop.todo
    /\ \/ /\ alertTimers[a] # 0
          /\ loop' = [loop EXCEPT !.todo = @ \ {a}]
          /\ UNCHANGED <<timer, made>>
       \/ /\ alertTimers[a] = 0
          /\ loop' = [loop EXCEPT !.at = "schedule", !.todo = @ \ {a}]
          /\ made < MaxTimers
          /\ made' = made + 1
          /\ timer' = [timer EXCEPT ![made + 1] = [alert |-> a, open |-> TRUE, at |-> "made"]]
    /\ UNCHANGED <<storeVars, mainVars, alertTimers, wg>>

(* scheduleAlert puts the timer into the map ... *)
register ==
    /\ loop.at = "schedule"
    /\ loop' = [loop EXCEPT !.at = "launch"]
    /\ alertTimers' = [alertTimers EXCEPT ![timer[made].alert] = made]
    /\ UNCHANGED <<storeVars, mainVars, timer, made, wg>>

(* ... and starts its goroutine. *)
launch ==
    /\ loop.at = "launch"
    /\ loop' = [loop EXCEPT !.at = "sync"]
    /\ timer' = [timer EXCEPT ![made].at = "wait"]
    /\ wg' = wg + 1
    /\ UNCHANGED <<storeVars, mainVars, alertTimers, made>>

(* Mutation of prune: nothing is stopped. *)
PruneNothing ==
    /\ loop.at = "sync"
    /\ loop.todo = {}
    /\ loop' = Idle
    /\ UNCHANGED <<storeVars, mainVars, alertTimers, timer, made, wg>>

(* The end of syncAlerts: timers of alerts that were not listed are        *)
(* stopped and removed.                                                    *)
prune ==
    /\ loop.at = "sync"
    /\ loop.todo = {}
    /\ loop' = Idle
    /\ timer' = StopTimers({alertTimers[a] : a \in Alerts \ loop.active} \ {0})
    /\ alertTimers' = [a \in Alerts |-> IF a \in loop.active THEN alertTimers[a] ELSE 0]
    /\ UNCHANGED <<storeVars, mainVars, made, wg>>

LoopExits ==
    /\ loop.at = "idle"
    /\ ctx \/ stopChan
    /\ loop' = [Off EXCEPT !.at = "exited"]
    /\ wg' = wg - 1
    /\ UNCHANGED <<storeVars, mainVars, alertTimers, timer, made>>

-----------------------------------------------------------------------------
(* The goroutine of a timer.                                               *)

Goes(t, at) == timer' = [timer EXCEPT ![t].at = at]

(* The ticker, which fires while the timer is open: the alert is looked up *)
(* and run if it is still active.                                          *)
executeAlert(t) ==
    /\ timer[t].at = "wait"
    /\ timer[t].open
    /\ status[timer[t].alert] = "active"
    /\ Goes(t, "search")
    /\ UNCHANGED <<storeVars, mainVars, loop, alertTimers, made, wg>>

(* ExecuteSearch fails or finds nothing, or there is something to send. *)
searchReturns(t) ==
    /\ timer[t].at = "search"
    /\ \E next \in {"wait", "send"} : Goes(t, next)
    /\ UNCHANGED <<storeVars, mainVars, loop, alertTimers, made, wg>>

(* channel.Send and UpdateLastTriggered, whatever they return. *)
sendReturns(t) ==
    /\ timer[t].at = "send"
    /\ Goes(t, "wait")
    /\ UNCHANGED <<storeVars, mainVars, loop, alertTimers, made, wg>>

(* Mutation of runAlertExits: only the timer's stopChan is looked at. *)
RunAlertIgnoresContext(t) ==
    /\ timer[t].at = "wait"
    /\ ~timer[t].open
    /\ Goes(t, "gone")
    /\ wg' = wg - 1
    /\ UNCHANGED <<storeVars, mainVars, loop, alertTimers, made>>

runAlertExits(t) ==
    /\ timer[t].at = "wait"
    /\ ctx \/ ~timer[t].open
    /\ Goes(t, "gone")
    /\ wg' = wg - 1
    /\ UNCHANGED <<storeVars, mainVars, loop, alertTimers, made>>

-----------------------------------------------------------------------------
Main == Start \/ StopCloses \/ stopAllAlertTimers \/ StopReturns

Loop == syncAlerts \/ (\E a \in Alerts : checkTimer(a)) \/ register \/ launch \/ prune

Next ==
    \/ \E a \in Alerts, s \in {"active", "inactive"} : ChangeAlert(a, s)
    \/ Main
    \/ Signal
    \/ Loop
    \/ LoopExits
    \/ \E t \in Timers : executeAlert(t) \/ searchReturns(t) \/ sendReturns(t) \/ runAlertExits(t)

Spec == Init /\ [][Next]_vars

(* Goroutines run on, tickers fire, searches and sends return (their        *)
(* clients have timeouts, and the context ends them).  Go's select picks    *)
(* at random among the ready cases, so a stop is not passed over for ever.  *)
Fairness ==
    /\ WF_vars(Main)
    /\ WF_vars(Loop)
    /\ SF_vars(LoopExits)
    /\ \A t \in Timers :
          /\ WF_vars(searchReturns(t) \/ sendReturns(t))
          /\ SF_vars(runAlertExits(t))

FairSpec == Spec /\ Fairness

-----------------------------------------------------------------------------
(* Properties.                                                             *)

Alive(t) == timer[t].at \notin {"none", "gone"}

(* A timer in the map has never been stopped: closing its stopChan a        *)
(* second time would panic, and both the sync and Stop close what they      *)
(* find there.                                                              *)
ClosedOnce == \A a \in Alerts : alertTimers[a] # 0 => timer[alertTimers[a]].open

(* An alert has at most one timer that is not stopped, however syncs, status *)
(* changes and Stop interleave: it is not run twice per interval.           *)
NoSecondTimer ==
    \A s, t \in Timers :
        (Alive(s) /\ Alive(t) /\ timer[s].open /\ timer[t].open
           /\ timer[s].alert = timer[t].alert) => s = t

(* What the map and the goroutines say of an alert's timer agrees, whoever  *)
(* is between his reading and his writing of the map.                       *)
OneOpenTimer == ClosedOnce /\ NoSecondTimer

(* After Stop has returned no goroutine of the scheduler does anything: no  *)
(* search runs and no notification is sent on closed connections.           *)
QuietAfterStop == [][main = "stopped" => UNCHANGED <<timer, alertTimers, loop>>]_vars

(* Stop returns, also if a sync was scheduling an alert meanwhile, whose    *)
(* timer Stop does not find in the map.                                     *)
StopEnds == main = "stopping" ~> main = "stopped"

(* An alert that is switched off for good ends with no goroutine running    *)
(* it, and one that stays active ends with a timer.                         *)
TimersFollowAlerts ==
    \A a \in Alerts :
        /\ <>[](status[a] = "inactive") =>
              <>[](\A t \in Timers : timer[t].alert = a => ~Alive(t))
        /\ <>[](status[a] = "active" /\ main = "running") => <>[](alertTimers[a] # 0)
=============================================================================

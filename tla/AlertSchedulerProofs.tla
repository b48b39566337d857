------------------------ MODULE AlertSchedulerProofs -------------------------
(***************************************************************************)
(* Proofs about the alert scheduler of the search service, for every set   *)
(* of alerts and every bound on timers and changes.                        *)
(*                                                                         *)
(* The map and the timers agree although scheduleAlert makes a timer, puts *)
(* it into the map and starts its goroutine in three steps, between which  *)
(* Stop may take the lock; and the WaitGroup counts exactly the goroutines *)
(* there are, so that Stop returns to a scheduler that is quiet.           *)
(***************************************************************************)
EXTENDS AlertScheduler, FiniteSetTheorems, TLAPS

TimerRecords == [alert : Alerts \cup {"none"}, open : BOOLEAN,
                 at : {"none", "made", "wait", "search", "send", "gone"}]

(* Timers are made one by one; the last one is without a goroutine while   *)
(* the loop schedules it.                                                  *)
MadeInv ==
    /\ \A t \in Timers : timer[t].at = "none" <=> t > made
    /\ \A t \in Timers :
          timer[t].at = "made" <=> (t = made /\ loop.at \in {"schedule", "launch"})
    /\ loop.at \in {"schedule", "launch"} => made \in Timers
    /\ \A t \in Timers : t <= made => timer[t].alert \in Alerts

(* The map leads to open timers of its alerts; the timer that is about to  *)
(* be put into it is open, and nothing is in its place.                    *)
MapInv ==
    /\ \A a \in Alerts : alertTimers[a] # 0 =>
          /\ alertTimers[a] <= made
          /\ timer[alertTimers[a]].alert = a
          /\ timer[alertTimers[a]].open
    /\ loop.at = "schedule" => timer[made].open /\ alertTimers[timer[made].alert] = 0

(* An open timer whose goroutine has not ended is in the map, or about to  *)
(* be put there.                                                           *)
OpenInv ==
    \A t \in Timers : Alive(t) /\ timer[t].open =>
        \/ alertTimers[timer[t].alert] = t
        \/ loop.at = "schedule" /\ t = made

Busy == {t \in Timers : timer[t].at \in {"wait", "search", "send"}}

(* The WaitGroup counts the loop and the goroutines of timers. *)
CountInv ==
    wg = (IF loop.at \in {"off", "exited"} THEN 0 ELSE 1) + Cardinality(Busy)

NewIsOff == main = "new" => loop.at = "off"

StoppedIsQuiet == main = "stopped" => wg = 0

TimerInv == MadeInv /\ MapInv /\ OpenInv

IInv == TypeOK /\ TimerInv /\ CountInv /\ NewIsOff /\ StoppedIsQuiet

-----------------------------------------------------------------------------
(* The timers and the map.                                                 *)

(* The facts about the types that the proofs below use. *)
LEMMA Typing ==
    ASSUME TypeOK
    PROVE  /\ Timers \subseteq Int /\ 0 \notin Timers /\ made \in Int /\ 0 <= made
           /\ alertTimers \in [Alerts -> Timers \cup {0}]
           /\ timer \in [Timers -> TimerRecords]
           /\ loop.at \in {"off", "idle", "sync", "schedule", "launch", "exited"}
<1>1. Timers \subseteq Int /\ 0 \notin Timers
  BY SchedulerAssumption DEF Timers
<1>2. made \in Int /\ 0 <= made
  BY SchedulerAssumption DEF TypeOK
<1>3. timer \in [Timers -> TimerRecords]
  BY DEF TypeOK, TimerRecords
<1>4. loop.at \in {"off", "idle", "sync", "schedule", "launch", "exited"}
  BY DEF TypeOK
<1>5. QED BY <1>1, <1>2, <1>3, <1>4 DEF TypeOK

(* A step that leaves the timers and the map alone, and does not begin or  *)
(* end scheduling.                                                         *)
LEMMA TimersFrame ==
    ASSUME TimerInv, UNCHANGED <<alertTimers, timer, made>>,
           loop'.at = "schedule" <=> loop.at = "schedule",
           loop'.at = "launch" <=> loop.at = "launch"
    PROVE  TimerInv'
<1>1. MadeInv'
  BY DEF TimerInv, MadeInv
<1>2. MapInv'
  BY DEF TimerInv, MapInv
<1>3. OpenInv'
  BY DEF TimerInv, OpenInv, Alive
<1>4. QED BY <1>1, <1>2, <1>3 DEF TimerInv

(* Stopping the timers of some alerts and taking them out of the map: the  *)
(* other timers in the map belong to other alerts.                         *)
LEMMA StopSome ==
    ASSUME TypeOK, TimerInv, NEW S \in SUBSET Alerts,
           timer' = StopTimers({alertTimers[a] : a \in S} \ {0}),
           alertTimers' = [a \in Alerts |-> IF a \in S THEN 0 ELSE alertTimers[a]],
           made' = made,
           loop'.at = "schedule" <=> loop.at = "schedule",
           loop'.at = "launch" <=> loop.at = "launch"
    PROVE  TimerInv' /\ timer' \in [Timers -> TimerRecords] /\ Busy' = Busy
<1> DEFINE T == {alertTimers[a] : a \in S} \ {0}
<1>0. /\ Timers \subseteq Int /\ 0 \notin Timers /\ made \in Int
      /\ alertTimers \in [Alerts -> Timers \cup {0}]
      /\ timer \in [Timers -> TimerRecords]
  BY Typing
<1>1. ASSUME NEW t \in Timers
      PROVE  /\ timer'[t] \in TimerRecords
             /\ timer'[t].at = timer[t].at /\ timer'[t].alert = timer[t].alert
             /\ timer'[t].open <=> timer[t].open /\ t \notin T
  <2>1. timer'[t] = IF t \in T THEN [timer[t] EXCEPT !.open = FALSE] ELSE timer[t]
    BY DEF StopTimers
  <2>2. timer[t] \in TimerRecords
    BY <1>0
  <2> HIDE DEF T
  <2>3. QED BY <2>1, <2>2 DEF TimerRecords
<1>2. timer' \in [Timers -> TimerRecords]
  <2>1. DOMAIN timer' = Timers /\ timer' = [t \in Timers |-> timer'[t]]
    BY DEF StopTimers
  <2>2. QED BY <1>1, <2>1
<1>3. MadeInv'
  <2>1. UNCHANGED made
    OBVIOUS
  <2>2. QED BY <1>1 DEF TimerInv, MadeInv
<1>4. \A a \in Alerts : /\ alertTimers'[a] = IF a \in S THEN 0 ELSE alertTimers[a]
                        /\ alertTimers[a] \in Timers \cup {0}
  BY <1>0
<1>5. ASSUME NEW a \in Alerts, alertTimers[a] # 0
      PROVE  alertTimers[a] \in T <=> a \in S
  <2>1. timer[alertTimers[a]].alert = a
    BY <1>5 DEF TimerInv, MapInv
  <2>2. ASSUME NEW b \in S, alertTimers[b] = alertTimers[a] PROVE b = a
    BY <1>5, <2>1, <2>2 DEF TimerInv, MapInv
  <2>3. QED BY <1>5, <2>2
<1>6. MapInv'
  <2>1. ASSUME NEW a \in Alerts, alertTimers'[a] # 0
        PROVE  /\ alertTimers'[a] <= made'
               /\ timer'[alertTimers'[a]].alert = a
               /\ timer'[alertTimers'[a]].open
    <3>1. a \notin S /\ alertTimers'[a] = alertTimers[a] /\ alertTimers[a] # 0
      BY <1>4, <2>1
    <3>2. alertTimers[a] \in Timers /\ alertTimers[a] \notin T
      BY <1>4, <1>5, <3>1
    <3>3. QED BY <1>1, <3>1, <3>2 DEF TimerInv, MapInv
  <2>2. ASSUME loop.at = "schedule"
        PROVE  timer'[made].open /\ alertTimers'[timer'[made].alert] = 0
    <3>1. /\ made \in Timers /\ timer[made].open /\ timer[made].alert \in Alerts
          /\ alertTimers[timer[made].alert] = 0
      BY <1>0, <2>2 DEF TimerInv, MadeInv, MapInv
    <3>2. made \notin T
      <4>1. ASSUME NEW b \in S, alertTimers[b] = made PROVE FALSE
        <5>1. made # 0 /\ timer[made].alert = b
          BY <1>0, <3>1, <4>1 DEF TimerInv, MapInv
        <5>2. QED BY <3>1, <4>1, <5>1
      <4>2. QED BY <4>1
    <3>3. QED BY <1>1, <1>4, <3>1, <3>2
  <2>3. QED BY <2>1, <2>2 DEF MapInv
<1>7. OpenInv'
  <2>1. ASSUME NEW t \in Timers, timer'[t].at \notin {"none", "gone"}, timer'[t].open
        PROVE  alertTimers'[timer'[t].alert] = t \/ (loop'.at = "schedule" /\ t = made')
    <3>1. timer[t].at \notin {"none", "gone"} /\ timer[t].open /\ t \notin T
      BY <1>1, <2>1
    <3>2. CASE loop.at = "schedule" /\ t = made
      BY <3>2
    <3>3. CASE alertTimers[timer[t].alert] = t
      <4>1. timer[t].alert \in Alerts
        BY <1>0, <3>1 DEF TimerInv, MadeInv
      <4>2. t # 0
        BY <1>0
      <4>3. timer[t].alert \notin S
        BY <3>1, <3>3, <4>1, <4>2
      <4>4. QED BY <1>1, <1>4, <3>3, <4>1, <4>3
    <3>4. QED BY <3>1, <3>2, <3>3 DEF TimerInv, OpenInv, Alive
  <2>2. QED BY <2>1 DEF OpenInv, Alive
<1>8. Busy' = Busy
  BY <1>1 DEF Busy
<1>9. QED BY <1>2, <1>3, <1>6, <1>7, <1>8 DEF TimerInv

(* A step of a timer's goroutine keeps its alert and its stopChan. *)
LEMMA GoroutineMoves ==
    ASSUME TypeOK, TimerInv, NEW t \in Timers,
           timer[t].at \in {"wait", "search", "send"},
           NEW at \in {"wait", "search", "send", "gone"},
           Goes(t, at), UNCHANGED <<loop, alertTimers, made>>
    PROVE  /\ TimerInv' /\ timer' \in [Timers -> TimerRecords]
           /\ Busy' = IF at = "gone" THEN Busy \ {t} ELSE Busy
<1>0. timer \in [Timers -> TimerRecords] /\ Timers \subseteq Int /\ made \in Int
  BY Typing
<1>1. timer' = [timer EXCEPT ![t].at = at]
  BY DEF Goes
<1>2. /\ timer'[t].at = at /\ timer'[t].alert = timer[t].alert /\ timer'[t].open = timer[t].open
      /\ timer'[t] \in TimerRecords
      /\ \A s \in Timers : s # t => timer'[s] = timer[s]
  BY <1>0, <1>1 DEF TimerRecords
<1>3. timer' \in [Timers -> TimerRecords]
  BY <1>0, <1>1, <1>2
<1>4. \A s \in Timers : timer'[s].alert = timer[s].alert /\ timer'[s].open = timer[s].open
  BY <1>2
<1>5. MadeInv'
  BY <1>2, <1>4 DEF TimerInv, MadeInv
<1>6. MapInv'
  <2>1. \A a \in Alerts : alertTimers[a] # 0 => alertTimers[a] \in Timers
    BY Typing
  <2>2. loop.at = "schedule" => made \in Timers
    BY DEF TimerInv, MadeInv
  <2>3. QED BY <1>4, <2>1, <2>2 DEF TimerInv, MapInv
<1>7. OpenInv'
  BY <1>2, <1>4 DEF TimerInv, OpenInv, Alive
<1>8. Busy' = IF at = "gone" THEN Busy \ {t} ELSE Busy
  BY <1>2 DEF Busy
<1>9. QED BY <1>3, <1>5, <1>6, <1>7, <1>8 DEF TimerInv

(* scheduleAlert makes a timer for an alert that has none. *)
LEMMA TimerMade ==
    ASSUME TypeOK, TimerInv, NEW a \in Alerts, loop.at = "sync", alertTimers[a] = 0,
           loop'.at = "schedule", made < MaxTimers, made' = made + 1,
           timer' = [timer EXCEPT ![made + 1] = [alert |-> a, open |-> TRUE, at |-> "made"]],
           UNCHANGED alertTimers
    PROVE  TimerInv' /\ timer' \in [Timers -> TimerRecords] /\ Busy' = Busy
<1>0. /\ timer \in [Timers -> TimerRecords] /\ Timers \subseteq Int /\ made \in Int /\ 0 <= made
      /\ alertTimers \in [Alerts -> Timers \cup {0}] /\ 0 \notin Timers
  BY Typing
<1>1. PICK n : n = made + 1
  OBVIOUS
<1>2. n \in Timers /\ n > made
  BY <1>0, <1>1, SchedulerAssumption DEF Timers
<1>3. [alert |-> a, open |-> TRUE, at |-> "made"] \in TimerRecords
  BY DEF TimerRecords
<1>4. /\ timer'[n].alert = a /\ timer'[n].open /\ timer'[n].at = "made"
      /\ \A t \in Timers : t # n => timer'[t] = timer[t]
      /\ timer' \in [Timers -> TimerRecords]
  BY <1>0, <1>1, <1>2, <1>3
<1>5. timer[n].at = "none"
  BY <1>2 DEF TimerInv, MadeInv
<1>6. \A t \in Timers : (t > n <=> (t > made /\ t # n)) /\ (t <= n <=> (t <= made \/ t = n))
  BY <1>0, <1>1, <1>2
<1>7. MadeInv'
  <2>1. \A t \in Timers : timer'[t].at = "none" <=> t > n
    BY <1>4, <1>6 DEF TimerInv, MadeInv
  <2>2. \A t \in Timers : timer'[t].at = "made" <=> t = n
    BY <1>4 DEF TimerInv, MadeInv
  <2>3. \A t \in Timers : t <= n => timer'[t].alert \in Alerts
    BY <1>4, <1>6 DEF TimerInv, MadeInv
  <2>4. QED BY <1>1, <1>2, <2>1, <2>2, <2>3 DEF MadeInv
<1>8. MapInv'
  <2>1. ASSUME NEW b \in Alerts, alertTimers[b] # 0
        PROVE  /\ alertTimers[b] <= n /\ timer'[alertTimers[b]].alert = b
               /\ timer'[alertTimers[b]].open
    <3>1. /\ alertTimers[b] <= made /\ timer[alertTimers[b]].alert = b
          /\ timer[alertTimers[b]].open
      BY <2>1 DEF TimerInv, MapInv
    <3>2. alertTimers[b] \in Timers
      BY <1>0, <2>1
    <3>3. alertTimers[b] # n /\ alertTimers[b] <= n
      <4>1. alertTimers[b] \in Int /\ n \in Int
        BY <1>0, <1>2, <3>2, Zenon
      <4>2. QED BY <1>0, <1>1, <3>1, <4>1
    <3>4. QED BY <1>4, <3>1, <3>2, <3>3
  <2>2. timer'[n].open /\ alertTimers[timer'[n].alert] = 0
    BY <1>4
  <2>3. QED BY <1>1, <2>1, <2>2 DEF MapInv
<1>9. OpenInv'
  BY <1>1, <1>4 DEF TimerInv, OpenInv, Alive
<1>10. Busy' = Busy
  BY <1>4, <1>5 DEF Busy
<1>11. QED BY <1>4, <1>7, <1>8, <1>9, <1>10 DEF TimerInv

(* ... puts it into the map ... *)
LEMMA TimerRegistered ==
    ASSUME TypeOK, TimerInv, register
    PROVE  TimerInv' /\ alertTimers' \in [Alerts -> Timers \cup {0}] /\ Busy' = Busy
<1>0. /\ timer \in [Timers -> TimerRecords] /\ Timers \subseteq Int /\ made \in Int /\ 0 <= made
      /\ alertTimers \in [Alerts -> Timers \cup {0}] /\ 0 \notin Timers
  BY Typing
<1>1. /\ loop.at = "schedule" /\ loop'.at = "launch"
      /\ UNCHANGED <<timer, made>>
      /\ alertTimers' = [alertTimers EXCEPT ![timer[made].alert] = made]
  BY DEF register, TypeOK
<1>2. PICK a : a = timer[made].alert
  OBVIOUS
<1>3. /\ made \in Timers /\ a \in Alerts /\ timer[made].open /\ alertTimers[a] = 0
  <2>1. made \in Timers
    BY <1>1 DEF TimerInv, MadeInv
  <2>2. made <= made
    BY <1>0
  <2>3. QED BY <1>1, <1>2, <2>1, <2>2 DEF TimerInv, MadeInv, MapInv
<1>4. /\ alertTimers' \in [Alerts -> Timers \cup {0}] /\ alertTimers'[a] = made
      /\ \A b \in Alerts : b # a => alertTimers'[b] = alertTimers[b]
  BY <1>0, <1>1, <1>2, <1>3
<1>5. MadeInv'
  BY <1>1 DEF TimerInv, MadeInv
<1>6. MapInv'
  BY <1>0, <1>1, <1>2, <1>3, <1>4 DEF TimerInv, MapInv
<1>7. OpenInv'
  <2>1. ASSUME NEW t \in Timers, Alive(t), timer[t].open
        PROVE  alertTimers'[timer[t].alert] = t
    <3>1. CASE t = made
      BY <1>2, <1>4, <3>1
    <3>2. CASE t # made
      <4>1. alertTimers[timer[t].alert] = t
        BY <2>1, <3>2 DEF TimerInv, OpenInv
      <4>2. t <= made
        BY <1>0, <2>1 DEF TimerInv, MadeInv, Alive
      <4>3. timer[t].alert \in Alerts /\ timer[t].alert # a
        BY <1>0, <1>3, <4>1, <4>2 DEF TimerInv, MadeInv
      <4>4. QED BY <1>4, <4>1, <4>3
    <3>3. QED BY <3>1, <3>2
  <2>2. QED BY <1>1, <2>1 DEF OpenInv, Alive
<1>8. Busy' = Busy
  BY <1>1 DEF Busy
<1>9. QED BY <1>4, <1>5, <1>6, <1>7, <1>8 DEF TimerInv

(* ... and starts its goroutine, whether or not Stop has closed it since. *)
LEMMA TimerLaunched ==
    ASSUME TypeOK, TimerInv, launch
    PROVE  /\ TimerInv' /\ timer' \in [Timers -> TimerRecords]
           /\ made \in Timers /\ made \notin Busy /\ Busy' = Busy \cup {made}
<1>0. timer \in [Timers -> TimerRecords] /\ Timers \subseteq Int /\ made \in Int
  BY Typing
<1>1. /\ loop.at = "launch" /\ loop'.at = "sync"
      /\ UNCHANGED <<alertTimers, made>>
      /\ timer' = [timer EXCEPT ![made].at = "wait"]
  BY DEF launch, TypeOK
<1>2. made \in Timers /\ timer[made].at = "made"
  BY <1>1 DEF TimerInv, MadeInv
<1>3. /\ timer'[made].at = "wait" /\ timer'[made].alert = timer[made].alert
      /\ timer'[made].open = timer[made].open /\ timer'[made] \in TimerRecords
      /\ \A s \in Timers : s # made => timer'[s] = timer[s]
  BY <1>0, <1>1, <1>2 DEF TimerRecords
<1>4. timer' \in [Timers -> TimerRecords]
  BY <1>0, <1>1, <1>2, <1>3
<1>5. \A s \in Timers : timer'[s].alert = timer[s].alert /\ timer'[s].open = timer[s].open
  BY <1>3
<1>6. MadeInv'
  BY <1>1, <1>2, <1>3, <1>5 DEF TimerInv, MadeInv
<1>7. MapInv'
  <2>1. \A a \in Alerts : alertTimers[a] # 0 => alertTimers[a] \in Timers
    BY Typing
  <2>2. QED BY <1>1, <1>5, <2>1 DEF TimerInv, MapInv
<1>8. OpenInv'
  BY <1>1, <1>2, <1>3, <1>5 DEF TimerInv, OpenInv, Alive
<1>9. made \notin Busy /\ Busy' = Busy \cup {made}
  BY <1>2, <1>3 DEF Busy
<1>10. QED BY <1>2, <1>4, <1>6, <1>7, <1>8, <1>9 DEF TimerInv

(* Every step keeps the map and the timers in agreement. *)
LEMMA TimersStep ==
    ASSUME IInv, [Next]_vars
    PROVE  /\ TimerInv' /\ timer' \in [Timers -> TimerRecords]
           /\ alertTimers' \in [Alerts -> Timers \cup {0}] /\ made' \in 0 .. MaxTimers
<1>. TypeOK /\ TimerInv
  BY DEF IInv
<1>0. /\ timer \in [Timers -> TimerRecords] /\ alertTimers \in [Alerts -> Timers \cup {0}]
      /\ made \in 0 .. MaxTimers
      /\ loop \in [at : {"off", "idle", "sync", "schedule", "launch", "exited"},
                   todo : SUBSET Alerts, active : SUBSET Alerts]
  BY Typing DEF TypeOK
<1>1. CASE /\ UNCHANGED <<alertTimers, timer, made>>
           /\ loop'.at = "schedule" <=> loop.at = "schedule"
           /\ loop'.at = "launch" <=> loop.at = "launch"
  BY <1>0, <1>1, TimersFrame
<1>2. ASSUME \/ \E a \in Alerts, s \in {"active", "inactive"} : ChangeAlert(a, s)
             \/ Signal \/ StopCloses \/ StopReturns \/ UNCHANGED vars
      PROVE  UNCHANGED <<alertTimers, timer, made, loop>>
  BY <1>2 DEF ChangeAlert, Signal, StopCloses, StopReturns, vars
<1>3. CASE Start
  <2>1. UNCHANGED <<alertTimers, timer, made>> /\ loop'.at = "idle"
    BY <1>3 DEF Start, Off
  <2>2. loop.at = "off"
    BY <1>3 DEF Start, IInv, NewIsOff
  <2>3. QED BY <1>1, <2>1, <2>2
<1>4. CASE syncAlerts \/ LoopExits
  <2>1. /\ UNCHANGED <<alertTimers, timer, made>>
        /\ loop.at = "idle" /\ loop'.at \in {"sync", "exited"}
    BY <1>4 DEF syncAlerts, LoopExits, Off
  <2>2. QED BY <1>1, <2>1
<1>5. ASSUME NEW a \in Alerts, checkTimer(a)
      PROVE  /\ TimerInv' /\ timer' \in [Timers -> TimerRecords]
             /\ alertTimers' \in [Alerts -> Timers \cup {0}] /\ made' \in 0 .. MaxTimers
  <2>1. /\ loop.at = "sync" /\ UNCHANGED alertTimers
        /\ \/ UNCHANGED <<timer, made>> /\ loop'.at = "sync"
           \/ /\ alertTimers[a] = 0 /\ loop'.at = "schedule"
              /\ made < MaxTimers /\ made' = made + 1
              /\ timer' = [timer EXCEPT ![made + 1] =
                              [alert |-> a, open |-> TRUE, at |-> "made"]]
    BY <1>0, <1>5 DEF checkTimer
  <2>2. CASE UNCHANGED <<timer, made>> /\ loop'.at = "sync"
    BY <1>1, <2>1, <2>2
  <2>3. CASE /\ alertTimers[a] = 0 /\ loop'.at = "schedule"
             /\ made < MaxTimers /\ made' = made + 1
             /\ timer' = [timer EXCEPT ![made + 1] =
                             [alert |-> a, open |-> TRUE, at |-> "made"]]
    <3>1. TimerInv' /\ timer' \in [Timers -> TimerRecords]
      BY <2>1, <2>3, TimerMade
    <3>2. made' \in 0 .. MaxTimers
      BY <1>0, <2>3, SchedulerAssumption
    <3>3. QED BY <1>0, <2>1, <3>1, <3>2
  <2>4. QED BY <2>1, <2>2, <2>3
<1>6. CASE register
  BY <1>0, <1>6, TimerRegistered DEF register
<1>7. CASE launch
  BY <1>0, <1>7, TimerLaunched DEF launch
<1>8. CASE prune
  <2> DEFINE S == Alerts \ loop.active
  <2>1. /\ timer' = StopTimers({alertTimers[a] : a \in S} \ {0})
        /\ made' = made /\ loop.at = "sync" /\ loop'.at = "idle"
    BY <1>8 DEF prune, Idle
  <2>2. alertTimers' = [a \in Alerts |-> IF a \in S THEN 0 ELSE alertTimers[a]]
    BY <1>8 DEF prune
  <2>3. TimerInv' /\ timer' \in [Timers -> TimerRecords]
    BY <2>1, <2>2, StopSome
  <2>4. alertTimers' \in [Alerts -> Timers \cup {0}]
    BY <1>0, <2>2
  <2>5. QED BY <1>0, <2>1, <2>3, <2>4
<1>9. CASE stopAllAlertTimers
  <2>1. /\ timer' = StopTimers({alertTimers[a] : a \in Alerts} \ {0})
        /\ made' = made /\ loop' = loop
    BY <1>9 DEF stopAllAlertTimers, Registered
  <2>2. alertTimers' = [a \in Alerts |-> IF a \in Alerts THEN 0 ELSE alertTimers[a]]
    BY <1>9 DEF stopAllAlertTimers
  <2>3. TimerInv' /\ timer' \in [Timers -> TimerRecords]
    BY <2>1, <2>2, StopSome
  <2>4. alertTimers' \in [Alerts -> Timers \cup {0}]
    BY <2>2
  <2>5. QED BY <1>0, <2>1, <2>3, <2>4
<1>10. ASSUME NEW t \in Timers,
              executeAlert(t) \/ searchReturns(t) \/ sendReturns(t) \/ runAlertExits(t)
       PROVE  TimerInv' /\ timer' \in [Timers -> TimerRecords] /\ UNCHANGED <<alertTimers, made>>
  <2>1. /\ timer[t].at \in {"wait", "search", "send"} /\ UNCHANGED <<loop, alertTimers, made>>
        /\ \E at \in {"wait", "search", "send", "gone"} : Goes(t, at)
    BY <1>10 DEF executeAlert, searchReturns, sendReturns, runAlertExits
  <2>2. QED BY <2>1, GoroutineMoves
<1>11. QED
  BY <1>0, <1>1, <1>2, <1>3, <1>4, <1>5, <1>6, <1>7, <1>8, <1>9, <1>10 DEF Next, Main, Loop

-----------------------------------------------------------------------------
(* The WaitGroup.                                                          *)

(* There are no more goroutines of timers than timers. *)
LEMMA BusyIsFinite ==
    /\ IsFiniteSet(Busy) /\ Cardinality(Busy) \in Nat /\ Cardinality(Busy) <= MaxTimers
    /\ IsFiniteSet(Busy)' /\ Cardinality(Busy)' \in Nat /\ Cardinality(Busy)' <= MaxTimers
<1>1. IsFiniteSet(Timers) /\ Cardinality(Timers) = MaxTimers
  <2>1. MaxTimers \in Nat
    BY SchedulerAssumption
  <2>2. /\ IsFiniteSet(1 .. MaxTimers)
        /\ Cardinality(1 .. MaxTimers) = IF 1 > MaxTimers THEN 0 ELSE MaxTimers - 1 + 1
    BY <2>1, FS_Interval
  <2>3. QED BY <2>1, <2>2 DEF Timers
<1>2. ASSUME NEW B \in SUBSET Timers
      PROVE  IsFiniteSet(B) /\ Cardinality(B) \in Nat /\ Cardinality(B) <= MaxTimers
  BY <1>1, FS_Subset, FS_CardinalityType
<1>3. Busy \in SUBSET Timers /\ Busy' \in SUBSET Timers
  BY DEF Busy
<1>4. QED BY <1>2, <1>3

(* The WaitGroup goes up with a goroutine and down with it. *)
LEMMA CountStep ==
    ASSUME IInv, [Next]_vars
    PROVE  CountInv'
<1>0. /\ TypeOK /\ TimerInv /\ CountInv
      /\ loop \in [at : {"off", "idle", "sync", "schedule", "launch", "exited"},
                   todo : SUBSET Alerts, active : SUBSET Alerts]
      /\ IsFiniteSet(Busy) /\ Cardinality(Busy) \in Nat
  BY BusyIsFinite DEF IInv, TypeOK
<1>1. ASSUME Busy' = Busy, wg' = wg,
             loop'.at \in {"off", "exited"} <=> loop.at \in {"off", "exited"}
      PROVE  CountInv'
  BY <1>0, <1>1 DEF CountInv
<1>2. ASSUME UNCHANGED timer PROVE Busy' = Busy
  BY <1>2 DEF Busy
<1>3. CASE \/ \E a \in Alerts, s \in {"active", "inactive"} : ChangeAlert(a, s)
           \/ Signal \/ StopCloses \/ StopReturns \/ UNCHANGED vars
  BY <1>1, <1>2, <1>3 DEF ChangeAlert, Signal, StopCloses, StopReturns, vars
<1>4. CASE Start
  <2>1. loop.at = "off" /\ loop'.at = "idle" /\ wg' = wg + 1 /\ Busy' = Busy
    BY <1>2, <1>4 DEF Start, Off, IInv, NewIsOff
  <2>2. QED BY <1>0, <2>1 DEF CountInv
<1>5. CASE syncAlerts
  BY <1>1, <1>2, <1>5 DEF syncAlerts
<1>6. CASE LoopExits
  <2>1. loop.at = "idle" /\ loop'.at = "exited" /\ wg' = wg - 1 /\ Busy' = Busy
    BY <1>2, <1>6 DEF LoopExits, Off
  <2>2. QED BY <1>0, <2>1 DEF CountInv
<1>7. ASSUME NEW a \in Alerts, checkTimer(a)
      PROVE  CountInv'
  <2>1. /\ loop.at = "sync" /\ UNCHANGED <<alertTimers, wg>>
        /\ \/ UNCHANGED <<timer, made>> /\ loop'.at = "sync"
           \/ /\ alertTimers[a] = 0 /\ loop'.at = "schedule"
              /\ made < MaxTimers /\ made' = made + 1
              /\ timer' = [timer EXCEPT ![made + 1] =
                              [alert |-> a, open |-> TRUE, at |-> "made"]]
    BY <1>0, <1>7 DEF checkTimer
  <2>2. Busy' = Busy
    BY <1>0, <1>2, <2>1, TimerMade
  <2>3. QED BY <1>1, <2>1, <2>2
<1>8. CASE register
  <2>1. loop.at = "schedule" /\ loop'.at = "launch" /\ wg' = wg
    BY <1>0, <1>8 DEF register
  <2>2. QED BY <1>0, <1>1, <1>8, <2>1, TimerRegistered
<1>9. CASE launch
  <2>1. loop.at = "launch" /\ loop'.at = "sync" /\ wg' = wg + 1
    BY <1>0, <1>9 DEF launch
  <2>2. made \notin Busy /\ Busy' = Busy \cup {made}
    BY <1>0, <1>9, TimerLaunched
  <2>3. Cardinality(Busy') = Cardinality(Busy) + 1
    BY <1>0, <2>2, FS_AddElement
  <2>4. QED BY <1>0, <2>1, <2>3 DEF CountInv
<1>10. CASE prune
  <2> DEFINE S == Alerts \ loop.active
  <2>1. /\ timer' = StopTimers({alertTimers[a] : a \in S} \ {0})
        /\ made' = made /\ loop.at = "sync" /\ loop'.at = "idle" /\ wg' = wg
    BY <1>10 DEF prune, Idle
  <2>2. alertTimers' = [a \in Alerts |-> IF a \in S THEN 0 ELSE alertTimers[a]]
    BY <1>10 DEF prune
  <2>3. Busy' = Busy
    BY <1>0, <2>1, <2>2, StopSome
  <2>4. QED BY <1>1, <2>1, <2>3
<1>11. CASE stopAllAlertTimers
  <2>1. /\ timer' = StopTimers({alertTimers[a] : a \in Alerts} \ {0})
        /\ made' = made /\ loop' = loop /\ wg' = wg
    BY <1>11 DEF stopAllAlertTimers, Registered
  <2>2. alertTimers' = [a \in Alerts |-> IF a \in Alerts THEN 0 ELSE alertTimers[a]]
    BY <1>11 DEF stopAllAlertTimers
  <2>3. Busy' = Busy
    BY <1>0, <2>1, <2>2, StopSome
  <2>4. QED BY <1>1, <2>1, <2>3
<1>12. ASSUME NEW t \in Timers, executeAlert(t) \/ searchReturns(t) \/ sendReturns(t)
       PROVE  CountInv'
  <2>1. /\ timer[t].at \in {"wait", "search", "send"} /\ UNCHANGED <<loop, alertTimers, made, wg>>
        /\ \E at \in {"wait", "search", "send"} : Goes(t, at)
    BY <1>12 DEF executeAlert, searchReturns, sendReturns
  <2>2. PICK at \in {"wait", "search", "send"} : Goes(t, at)
    BY <2>1
  <2>3. Busy' = Busy
    BY <1>0, <2>1, <2>2, GoroutineMoves
  <2>4. QED BY <1>1, <2>1, <2>3
<1>13. ASSUME NEW t \in Timers, runAlertExits(t)
       PROVE  CountInv'
  <2>1. /\ timer[t].at = "wait" /\ UNCHANGED <<loop, alertTimers, made>>
        /\ Goes(t, "gone") /\ wg' = wg - 1
    BY <1>13 DEF runAlertExits
  <2>2. Busy' = Busy \ {t}
    BY <1>0, <2>1, GoroutineMoves
  <2>3. t \in Busy
    BY <2>1 DEF Busy
  <2>4. Cardinality(Busy') = Cardinality(Busy) - 1
    BY <1>0, <2>2, <2>3, FS_RemoveElement
  <2>5. QED BY <1>0, <2>1, <2>4 DEF CountInv
<1>14. QED
  BY <1>3, <1>4, <1>5, <1>6, <1>7, <1>8, <1>9, <1>10, <1>11, <1>12, <1>13
  DEF Next, Main, Loop

(* Every step keeps the types; the counter's bounds follow from what it    *)
(* counts.                                                                 *)
LEMMA TypeStep ==
    ASSUME IInv, [Next]_vars
    PROVE  TypeOK'
<1>0. TypeOK /\ TimerInv
  BY DEF IInv
<1>1. /\ timer' \in [Timers -> TimerRecords]
      /\ alertTimers' \in [Alerts -> Timers \cup {0}] /\ made' \in 0 .. MaxTimers
  BY TimersStep
<1>2. wg' \in 0 .. MaxTimers + 1
  BY CountStep, BusyIsFinite, SchedulerAssumption DEF CountInv
<1>3. /\ status' \in [Alerts -> {"none", "active", "inactive"}]
      /\ changes' \in 0 .. MaxChanges
  <2>1. CASE UNCHANGED <<status, changes>>
    BY <1>0, <2>1 DEF TypeOK
  <2>2. ASSUME NEW a \in Alerts, NEW s \in {"active", "inactive"}, ChangeAlert(a, s)
        PROVE  /\ status' \in [Alerts -> {"none", "active", "inactive"}]
               /\ changes' \in 0 .. MaxChanges
    BY <1>0, <2>2, SchedulerAssumption DEF TypeOK, ChangeAlert
  <2>3. ASSUME \/ Main \/ Signal \/ Loop \/ LoopExits \/ UNCHANGED vars
               \/ \E t \in Timers : \/ executeAlert(t) \/ searchReturns(t) \/ sendReturns(t)
                                    \/ runAlertExits(t)
        PROVE  UNCHANGED <<status, changes>>
    BY <2>3 DEF Main, Start, StopCloses, stopAllAlertTimers, StopReturns, Signal, Loop,
          syncAlerts, checkTimer, register, launch, prune, LoopExits, vars, storeVars,
          executeAlert, searchReturns, sendReturns, runAlertExits
  <2>4. QED BY <2>1, <2>2, <2>3 DEF Next
<1>4. /\ main' \in {"new", "running", "stopping", "clearing", "waiting", "stopped"}
      /\ ctx' \in BOOLEAN /\ stopChan' \in BOOLEAN
  <2>1. CASE UNCHANGED <<main, ctx, stopChan>>
    BY <1>0, <2>1 DEF TypeOK
  <2>2. CASE Main \/ Signal
    BY <1>0, <2>2 DEF TypeOK, Main, Signal, Start, StopCloses, stopAllAlertTimers, StopReturns
  <2>3. ASSUME \/ \E a \in Alerts, s \in {"active", "inactive"} : ChangeAlert(a, s)
               \/ Loop \/ LoopExits \/ UNCHANGED vars
               \/ \E t \in Timers : \/ executeAlert(t) \/ searchReturns(t) \/ sendReturns(t)
                                    \/ runAlertExits(t)
        PROVE  UNCHANGED <<main, ctx, stopChan>>
    BY <2>3 DEF ChangeAlert, Loop, syncAlerts, checkTimer, register, launch, prune, LoopExits,
          vars, mainVars, executeAlert, searchReturns, sendReturns, runAlertExits
  <2>4. QED BY <2>1, <2>2, <2>3 DEF Next
<1>5. loop' \in [at : {"off", "idle", "sync", "schedule", "launch", "exited"},
                 todo : SUBSET Alerts, active : SUBSET Alerts]
  <2>0. loop \in [at : {"off", "idle", "sync", "schedule", "launch", "exited"},
                  todo : SUBSET Alerts, active : SUBSET Alerts]
    BY <1>0 DEF TypeOK
  <2>1. CASE Start \/ syncAlerts \/ prune \/ LoopExits
    BY <2>0, <2>1 DEF Start, syncAlerts, prune, LoopExits, Off, Idle
  <2>2. CASE register \/ launch
    BY <2>0, <2>2 DEF register, launch
  <2>3. ASSUME NEW a \in Alerts, checkTimer(a)
        PROVE  loop' \in [at : {"off", "idle", "sync", "schedule", "launch", "exited"},
                          todo : SUBSET Alerts, active : SUBSET Alerts]
    BY <2>0, <2>3 DEF checkTimer
  <2>4. ASSUME \/ \E a \in Alerts, s \in {"active", "inactive"} : ChangeAlert(a, s)
               \/ Signal \/ StopCloses \/ stopAllAlertTimers \/ StopReturns \/ UNCHANGED vars
               \/ \E t \in Timers : \/ executeAlert(t) \/ searchReturns(t) \/ sendReturns(t)
                                    \/ runAlertExits(t)
        PROVE  UNCHANGED loop
    BY <2>4 DEF ChangeAlert, Signal, StopCloses, stopAllAlertTimers, StopReturns, vars,
          executeAlert, searchReturns, sendReturns, runAlertExits
  <2>5. QED BY <2>0, <2>1, <2>2, <2>3, <2>4 DEF Next, Main, Loop
<1>6. QED BY <1>1, <1>2, <1>3, <1>4, <1>5 DEF TypeOK, TimerRecords

(* With the counter at zero no goroutine is left. *)
LEMMA ZeroIsQuiet ==
    ASSUME IInv, wg = 0
    PROVE  loop.at \in {"off", "exited"} /\ Busy = {}
<1>1. wg = (IF loop.at \in {"off", "exited"} THEN 0 ELSE 1) + Cardinality(Busy)
  BY DEF IInv, CountInv
<1>2. IsFiniteSet(Busy) /\ Cardinality(Busy) \in Nat
  BY BusyIsFinite
<1>3. loop.at \in {"off", "exited"} /\ Cardinality(Busy) = 0
  BY <1>1, <1>2
<1>4. QED BY <1>2, <1>3, FS_EmptySet

(* Nothing moves with the counter at zero but main and the definitions. *)
LEMMA ZeroStays ==
    ASSUME IInv, [Next]_vars, wg = 0, main # "new"
    PROVE  /\ UNCHANGED <<loop, wg>>
           /\ main = "stopped" => UNCHANGED <<timer, alertTimers>>
<1>1. loop.at \in {"off", "exited"} /\ \A t \in Timers : timer[t].at \notin {"wait", "search", "send"}
  BY ZeroIsQuiet DEF Busy
<1>2. ~Loop /\ ~LoopExits /\ ~Start
  BY <1>1 DEF Loop, LoopExits, syncAlerts, checkTimer, register, launch, prune, Start
<1>3. ASSUME NEW t \in Timers
      PROVE  ~executeAlert(t) /\ ~searchReturns(t) /\ ~sendReturns(t) /\ ~runAlertExits(t)
  BY <1>1 DEF executeAlert, searchReturns, sendReturns, runAlertExits
<1>4. CASE stopAllAlertTimers
  BY <1>4 DEF stopAllAlertTimers
<1>5. CASE \/ \E a \in Alerts, s \in {"active", "inactive"} : ChangeAlert(a, s)
           \/ Signal \/ StopCloses \/ StopReturns \/ UNCHANGED vars
  BY <1>5 DEF ChangeAlert, Signal, StopCloses, StopReturns, vars
<1>6. QED BY <1>2, <1>3, <1>4, <1>5 DEF Next, Main

(* Only Start starts the loop, and Stop returns with the counter at zero. *)
LEMMA MainStep ==
    ASSUME IInv, [Next]_vars
    PROVE  NewIsOff' /\ StoppedIsQuiet'
<1>1. NewIsOff'
  <2>1. CASE main' = "new"
    <3>1. main = "new"
      BY <2>1 DEF Next, Main, Start, StopCloses, stopAllAlertTimers, StopReturns, Signal,
            ChangeAlert, Loop, syncAlerts, checkTimer, register, launch, prune, LoopExits,
            executeAlert, searchReturns, sendReturns, runAlertExits, mainVars, vars
    <3>2. loop.at = "off"
      BY <3>1 DEF IInv, NewIsOff
    <3>3. loop' = loop
      BY <2>1, <3>1, <3>2 DEF Next, Main, Start, StopCloses, stopAllAlertTimers, StopReturns, Signal,
            ChangeAlert, Loop, syncAlerts, checkTimer, register, launch, prune, LoopExits,
            executeAlert, searchReturns, sendReturns, runAlertExits, vars
    <3>4. QED BY <3>2, <3>3 DEF NewIsOff
  <2>2. QED BY <2>1 DEF NewIsOff
<1>2. StoppedIsQuiet'
  <2>1. CASE main = "stopped"
    <3>1. wg = 0
      BY <2>1 DEF IInv, StoppedIsQuiet
    <3>2. QED BY <2>1, <3>1, ZeroStays DEF StoppedIsQuiet
  <2>2. CASE main # "stopped" /\ main' = "stopped"
    <3>1. StopReturns
      BY <2>2 DEF Next, Main, Start, StopCloses, stopAllAlertTimers, Signal,
            ChangeAlert, Loop, syncAlerts, checkTimer, register, launch, prune, LoopExits,
            executeAlert, searchReturns, sendReturns, runAlertExits, mainVars, vars
    <3>2. QED BY <3>1 DEF StopReturns, StoppedIsQuiet
  <2>3. QED BY <2>1, <2>2 DEF StoppedIsQuiet
<1>3. QED BY <1>1, <1>2

(* No timer and no goroutine before Start. *)
LEMMA InitInv == Init => IInv
<1> SUFFICES ASSUME Init PROVE IInv
  OBVIOUS
<1>0. MaxTimers \in Nat /\ MaxChanges \in Nat /\ Timers \subseteq Int /\ \A t \in Timers : t > 0
  BY SchedulerAssumption DEF Timers
<1>1. /\ \A t \in Timers : timer[t] = NoTimer
      /\ NoTimer.at = "none" /\ NoTimer.alert = "none" /\ NoTimer.open = FALSE
      /\ NoTimer \in TimerRecords
  BY DEF Init, NoTimer, TimerRecords
<1>2. TypeOK
  <2>1. timer \in [Timers -> TimerRecords]
    BY <1>1 DEF Init
  <2>2. status \in [Alerts -> {"none", "active", "inactive"}]
    BY DEF Init
  <2>3. loop \in [at : {"off", "idle", "sync", "schedule", "launch", "exited"},
                  todo : SUBSET Alerts, active : SUBSET Alerts]
    BY DEF Init, Off
  <2>4. /\ changes \in 0 .. MaxChanges /\ made \in 0 .. MaxTimers /\ wg \in 0 .. MaxTimers + 1
    BY <1>0 DEF Init
  <2>5. alertTimers \in [Alerts -> Timers \cup {0}]
    BY DEF Init
  <2>6. /\ main \in {"new", "running", "stopping", "clearing", "waiting", "stopped"}
        /\ ctx \in BOOLEAN /\ stopChan \in BOOLEAN
    BY DEF Init
  <2>7. QED BY <2>1, <2>2, <2>3, <2>4, <2>5, <2>6 DEF TypeOK, TimerRecords
<1>3. loop.at = "off" /\ made = 0 /\ wg = 0 /\ main = "new" /\ \A a \in Alerts : alertTimers[a] = 0
  BY DEF Init, Off
<1>4. TimerInv
  <2>1. MadeInv
    BY <1>0, <1>1, <1>3 DEF MadeInv
  <2>2. MapInv
    BY <1>3 DEF MapInv
  <2>3. OpenInv
    BY <1>1 DEF OpenInv, Alive
  <2>4. QED BY <2>1, <2>2, <2>3 DEF TimerInv
<1>5. CountInv
  <2>1. Busy = {}
    BY <1>1 DEF Busy
  <2>2. QED BY <1>3, <2>1, FS_EmptySet DEF CountInv
<1>6. QED BY <1>2, <1>3, <1>4, <1>5 DEF IInv, NewIsOff, StoppedIsQuiet

(* The map, the timers and the WaitGroup agree in every reachable state. *)
THEOREM SchedulerInvariance == Spec => []IInv
<1>1. IInv /\ [Next]_vars => IInv'
  BY TypeStep, TimersStep, CountStep, MainStep DEF IInv
<1>2. QED BY <1>1, InitInv, PTL DEF Spec

(* Stop and sync never close a timer's stopChan twice, and an alert has at *)
(* most one timer that runs, however Stop falls between the steps of       *)
(* scheduleAlert.                                                          *)
THEOREM OneOpenTimerHolds == Spec => []OneOpenTimer
<1>1. IInv => OneOpenTimer
  <2> SUFFICES ASSUME IInv PROVE ClosedOnce /\ NoSecondTimer
    BY DEF OneOpenTimer
  <2>1. ClosedOnce
    BY DEF IInv, TimerInv, MapInv, ClosedOnce
  <2>2. ASSUME NEW s \in Timers, NEW t \in Timers, Alive(s), Alive(t),
               timer[s].open, timer[t].open, timer[s].alert = timer[t].alert
        PROVE  s = t
    <3>1. s # 0 /\ t # 0
      BY Typing DEF IInv
    <3>2. /\ alertTimers[timer[s].alert] = s \/ (loop.at = "schedule" /\ s = made)
          /\ alertTimers[timer[t].alert] = t \/ (loop.at = "schedule" /\ t = made)
      BY <2>2 DEF IInv, TimerInv, OpenInv
    <3>3. loop.at = "schedule" => alertTimers[timer[made].alert] = 0
      BY DEF IInv, TimerInv, MapInv
    <3>4. QED BY <2>2, <3>1, <3>2, <3>3
  <2>3. QED BY <2>1, <2>2 DEF NoSecondTimer
<1>2. QED BY <1>1, SchedulerInvariance, PTL

(* Once Stop has returned no goroutine of the scheduler takes a step. *)
THEOREM QuietAfterStopHolds == Spec => QuietAfterStop
<1>1. IInv /\ [Next]_vars =>
          [main = "stopped" => UNCHANGED <<timer, alertTimers, loop>>]_vars
  <2> SUFFICES ASSUME IInv, [Next]_vars, main = "stopped"
               PROVE  UNCHANGED <<timer, alertTimers, loop>>
    OBVIOUS
  <2>1. wg = 0
    BY DEF IInv, StoppedIsQuiet
  <2>2. QED BY <2>1, ZeroStays
<1>2. QED BY <1>1, SchedulerInvariance, PTL DEF Spec, QuietAfterStop
=============================================================================

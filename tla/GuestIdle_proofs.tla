--------------------------- MODULE GuestIdle_proofs ---------------------------
(***************************************************************************)
(* What GuestIdle promises of a stop of the world, proved for any number   *)
(* of vCPUs and goroutines.                                                *)
(***************************************************************************)
EXTENDS GuestIdle, VcpuSMP_proofs

(***************************************************************************)
(* The invariant.                                                          *)
(***************************************************************************)

\* Where a board's vCPU may be: its run does not end.
BoardPlaces == {"start", "unstarted", "entry", "guest", "waking", "parked", "waiting", "woken",
                "deadline", "limit", "resuming", "hostwait", "inhost"}

\* No end is on its way, and a loop that wakes the parked begins at the first.
Endless ==
  /\ ~quit /\ ~killed
  /\ \A c \in CPUs : /\ pc[c] \in BoardPlaces
                     /\ result[c] = NoEnd
                     /\ pc[c] # "waking" => at[c] = 0

\* An M on its way to a park, from its look to it; and one in it, or back to it.
ToPark    == {"idle", "timed", "near", "rests"}
Asleep(c) == mode[c] \in ToPark \/ pc[c] \in {"parked", "waiting", "limit"}

ModesFit ==
  \A c \in CPUs :
    /\ mode[c] \in {"stopping", "stopwait", "world"} => stopper = c
    /\ mode[c] = "starts" => stopper = None
    /\ mode[c] \in {"stopped", "rests"} => c \in joined \union posted
    /\ mode[c] \in ToPark => pc[c] \in {"entry", "guest", "waking"}

\* The stopper's loop has passed c: c was woken then, and takes no new way
\* to a park before it joins.
WokenFor(s) ==
  stopper = s /\ mode[s] = "stopwait" =>
    \A c \in Others(s) \ joined :
      (pc[s] = "waking" => c < at[s]) /\ Asleep(c) => token[c]

StopInv == board => Endless /\ ModesFit /\ \A s \in CPUs : WokenFor(s)

IdleInv == IdleTypeOK /\ StopInv

-----------------------------------------------------------------------------
\* A step here is one of VcpuSMP's, or none of it.
LEMMA GoroutineSteps ==
  ASSUME NEW c \in CPUs, Goroutine(c)
  PROVE  GuestCalls(c) \/ UNCHANGED vars
  <1>1. CASE CallsHost(c) BY <1>1 DEF CallsHost, GuestCalls
  <1>2. ASSUME NEW t \in APs, Task(c, t) PROVE GuestCalls(c) BY <1>2 DEF Task, GuestCalls
  <1>3. CASE Makes(c) \/ SetsTimer(c) \/ Blocks(c) \/ BeginsStop(c)
    BY <1>3 DEF Makes, SetsTimer, Blocks, BeginsStop
  <1>4. QED BY <1>1, <1>2, <1>3 DEF Goroutine

LEMMA SchedulerSteps ==
  ASSUME IdleTypeOK, NEW c \in CPUs, Scheduler(c)
  PROVE  GuestCalls(c) \/ UNCHANGED vars
  <1>1. CASE JoinsStop(c)
    <2>1. stopper \in CPUs
      BY <1>1 DEF JoinsStop, Stopped, IdleTypeOK
    <2>2. QED BY <1>1, <2>1 DEF JoinsStop, GuestCalls
  <1>2. CASE LetsGo(c)
    <2>1. joined \subseteq CPUs
      BY Ids DEF IdleTypeOK, Begun, TypeOK
    <2>2. QED BY <1>2, <2>1 DEF LetsGo, GuestCalls
  <1>3. CASE IdleWakes(c) BY <1>3 DEF IdleWakes, GuestCalls
  <1>4. CASE IdleParks(c) BY <1>4 DEF IdleParks, GuestCalls
  <1>5. CASE TakesWork(c) \/ RunsTimer(c) \/ FindsNothing(c) \/ SeesStopped(c) \/ StartsWorld(c)
             \/ SemaTaken(c) \/ IdleReturns(c)
    BY <1>5 DEF TakesWork, RunsTimer, FindsNothing, SeesStopped, StartsWorld, SemaTaken, IdleReturns
  <1>6. QED BY <1>1, <1>2, <1>3, <1>4, <1>5 DEF Scheduler

LEMMA MonitorsStep == IdleTypeOK /\ [IdleNext]_idleVars => [Next]_vars
  <1> SUFFICES ASSUME IdleTypeOK, [IdleNext]_idleVars PROVE [Next]_vars
    OBVIOUS
  <1>1. CASE \E c \in CPUs : Goroutine(c) \/ Scheduler(c)
    BY <1>1, GoroutineSteps, SchedulerSteps DEF Next
  <1>2. CASE board /\ (Begins \/ TimerDue \/ \E c \in CPUs : MonitorStep(c) \/ HostStep(c))
    BY <1>2 DEF Begins, TimerDue, MonitorStep, HostStep, Next, RunMain, HostAnswers
  <1>3. CASE ~board /\ Next
    BY <1>3
  <1>4. CASE UNCHANGED idleVars
    BY <1>4 DEF idleVars, vars
  <1>5. QED BY <1>1, <1>2, <1>3, <1>4 DEF IdleNext

\* Only CPUStart begins an AP.
LEMMA StartedStep ==
  ASSUME TypeOK, [Next]_vars
  PROVE  \/ UNCHANGED started
         \/ \E c \in CPUs, t \in APs : CPUStart(c, t)
  <1>1. ASSUME NEW c \in CPUs, GuestCalls(c), \A t \in APs : ~CPUStart(c, t) PROVE UNCHANGED started
    BY <1>1 DEF GuestCalls, GuestFaults, QuickCall, WakeOne, WakeParked, CPUPark, LockHost
  <1>2. ASSUME NEW c \in CPUs, HostAnswers(c) PROVE UNCHANGED started
    BY <1>2 DEF HostAnswers, HostReturns, HostFails, ExitCalled
  <1>3. ASSUME NEW c \in CPUs, Monitor(c) PROVE UNCHANGED started
    BY <1>3 DEF Monitor, APStarts, APQuits, EnterGuest, Canceled, WakeNext, ParkLooks, WaitWoken,
       WaitTimesOut, ParkStops, ParkGoesOn, ParkEnds, Resume, HostGranted, HostRefused, ExitJoins,
       HostExits, Finish, Halt, LoopEnds, APDestroyed
  <1>4. CASE RunMain \/ WatchdogSteps
    BY <1>4 DEF RunMain, Serve, SeccompFails, RunReturns, Teardown, WatchdogSteps,
       WatchdogKills, WatchdogHalts, WatchdogStops
  <1>5. CASE UNCHANGED vars
    BY <1>5 DEF vars
  <1>6. QED
    BY <1>1, <1>2, <1>3, <1>4, <1>5 DEF Next

-----------------------------------------------------------------------------
(***************************************************************************)
(* The monitor's steps under a board's guest.                              *)
(***************************************************************************)

\* What such a step of c's does to the vCPUs' places, wakes and loops.
Passes(c) ==
  /\ \A o \in CPUs : o # c => pc'[o] = pc[o] /\ at'[o] = at[o]
  /\ \A o \in CPUs : token[o] => token'[o] \/ (o = c /\ pc'[c] = "woken")
  /\ pc'[c] \in {"parked", "waiting", "limit"} => pc[c] \in {"parked", "waiting", "limit"}
  /\ pc[c] \in {"entry", "guest", "waking"} => pc'[c] \in {"entry", "guest", "waking"}
  /\ pc'[c] = "waking" => pc[c] = "waking"
  /\ pc[c] = "waking" => /\ at[c] # c => token'[at[c]]
                         /\ IF pc'[c] = "waking" THEN at'[c] = at[c] + 1 ELSE at[c] = N - 1

LEMMA NextCPUIs == \A i \in CPUs : NextCPU(i) = IF i + 1 = N THEN 0 ELSE i + 1
  BY NAssumption DEF CPUs, NextCPU

LEMMA LastCPU == \A i \in CPUs : i + 1 = N => i = N - 1
  BY NAssumption DEF CPUs

LEMMA MonitorPasses ==
  ASSUME TypeOK, Endless, NEW c \in CPUs, Monitor(c), result' = result
  PROVE  Endless' /\ Passes(c) /\ UNCHANGED started
  <1>1. /\ pc \in [CPUs -> Locations] /\ token \in [CPUs -> BOOLEAN] /\ at \in [CPUs -> CPUs]
        /\ cancel \in [CPUs -> BOOLEAN]
        /\ pc[c] \in BoardPlaces /\ result[c] = NoEnd /\ ~quit /\ ~killed
    BY DEF TypeOK, Endless
  <1> USE <1>1 DEF BoardPlaces, Go, parkVars, haltVars, dogVars
  <1>2. CASE APStarts(c)
    <2>1. Go(c, "entry")
      BY <1>2 DEF APStarts, AfterCall, TypeOK, NoEnd
    <2>2. QED BY <1>2, <2>1 DEF APStarts, Endless, Passes
  <1>3. CASE EnterGuest(c) BY <1>3 DEF EnterGuest, Endless, Passes
  <1>4. CASE Canceled(c) BY <1>4 DEF Canceled, Endless, Passes, InGuest
  <1>5. CASE WakeNext(c)
    <2>1. at'[c] = IF at[c] + 1 = N THEN 0 ELSE at[c] + 1
      BY <1>5, NextCPUIs DEF WakeNext
    <2>2. at[c] + 1 = N => at[c] = N - 1
      BY LastCPU
    <2>3. QED
      BY <1>5, <2>1, <2>2 DEF WakeNext, Endless, Passes
  <1>6. CASE ParkLooks(c) BY <1>6 DEF ParkLooks, Endless, Passes
  <1>7. CASE WaitWoken(c) BY <1>7 DEF WaitWoken, Endless, Passes
  <1>8. CASE WaitTimesOut(c) BY <1>8 DEF WaitTimesOut, Endless, Passes
  <1>9. CASE ParkGoesOn(c) \/ ParkEnds(c)
    BY <1>9 DEF ParkGoesOn, ParkEnds, WaitOver, Endless, Passes
  <1>10. CASE Resume(c)
    <2>1. /\ Go(c, "entry") /\ pc[c] = "resuming" /\ UNCHANGED <<at, started, haltVars, dogVars, endVars>>
          /\ \A o \in CPUs : token[o] => token'[o]
      BY <1>10 DEF Resume, AfterCall
    <2>2. QED BY <2>1 DEF Endless, Passes
  <1>11. CASE HostGranted(c) BY <1>11 DEF HostGranted, Endless, Passes
  <1>12. /\ ~APQuits(c) /\ ~ParkStops(c) /\ ~HostRefused(c) /\ ~ExitJoins(c) /\ ~HostExits(c)
         /\ ~Finish(c) /\ ~Halt(c) /\ ~LoopEnds(c) /\ ~APDestroyed(c)
    BY DEF APQuits, ParkStops, HostRefused, ExitJoins, HostExits, Finish, Halt, LoopEnds,
       APDestroyed, HaltSteps
  <1>13. QED
    BY <1>2, <1>3, <1>4, <1>5, <1>6, <1>7, <1>8, <1>9, <1>10, <1>11, <1>12 DEF Monitor

LEMMA MonitorKeepsStop ==
  ASSUME IdleTypeOK, StopInv, board, NEW c \in CPUs, MonitorStep(c)
  PROVE  StopInv'
  <1>1. /\ TypeOK /\ Endless /\ ModesFit /\ Monitor(c) /\ result' = result
        /\ UNCHANGED <<board, mode, ready, timer, stopper, joined, posted>>
    BY DEF IdleTypeOK, StopInv, MonitorStep, schedVars
  <1>2. Endless' /\ Passes(c) /\ UNCHANGED started
    BY <1>1, MonitorPasses
  <1>3. mode \in [CPUs -> Modes] /\ at \in [CPUs -> CPUs] /\ Begun \subseteq CPUs
    BY Ids DEF IdleTypeOK, TypeOK, Begun
  <1>0. N \in Int /\ \A i \in CPUs : i \in Int /\ i <= N - 1
    BY NAssumption DEF CPUs
  <1>4. ModesFit'
    BY <1>1, <1>2 DEF ModesFit, Passes, ToPark
  <1>5. ASSUME NEW s \in CPUs, stopper = s, mode[s] = "stopwait", NEW o \in Others(s) \ joined,
               pc'[s] = "waking" => o < at'[s], Asleep(o)'
        PROVE  token'[o]
    <2>1. o \in CPUs /\ o # s /\ WokenFor(s) /\ o \in Int /\ o <= N - 1 /\ at[s] \in Int
      BY <1>0, <1>3 DEF Others, StopInv
    <2>2. Asleep(o)
      BY <1>1, <1>2, <1>5, <2>1 DEF Asleep, Passes
    <2>3. token[o] => token'[o]
      BY <1>1, <1>2, <1>5, <2>1 DEF Asleep, Passes, ModesFit
    <2>4. CASE s # c
      <3>1. token[o]
        BY <1>2, <1>5, <2>1, <2>2, <2>4 DEF Passes, WokenFor
      <3>2. QED BY <2>3, <3>1
    <2>5. CASE s = c /\ pc[c] # "waking"
      BY <1>5, <2>1, <2>2, <2>3, <2>5 DEF WokenFor
    <2>6. CASE s = c /\ pc[c] = "waking"
      <3>1. o < at[c] \/ o = at[c]
        BY <1>0, <1>2, <1>5, <2>1, <2>6 DEF Passes
      <3>2. CASE o = at[c]
        BY <1>2, <2>1, <2>6, <3>2 DEF Passes
      <3>3. CASE o < at[c]
        BY <1>5, <2>1, <2>2, <2>3, <2>6, <3>3 DEF WokenFor
      <3>4. QED BY <3>1, <3>2, <3>3
    <2>7. QED BY <2>4, <2>5, <2>6
  <1>6. \A s \in CPUs : WokenFor(s)'
    BY <1>1, <1>2, <1>5 DEF WokenFor, Others, Begun
  <1>7. QED
    BY <1>2, <1>4, <1>6 DEF StopInv

-----------------------------------------------------------------------------
(***************************************************************************)
(* The goroutines' and the scheduler's steps.                              *)
(***************************************************************************)

\* The guest is in its loop: the call it makes leaves no end.
LEMMA CallsEndless ==
  ASSUME TypeOK, Endless, NEW c \in CPUs, NEW to \in {"entry", "waking", "parked", "hostwait"},
         pc[c] = "guest", Go(c, to),
         UNCHANGED <<at, quit, killed, result>>
  PROVE  Endless'
  BY DEF TypeOK, Endless, BoardPlaces, Go

\* Its M goes on as m, the monitor's state as it was: it keeps what a stop
\* rests on unless m is one of the stopper's, or on the way to a park.
LEMMA TurnsKeepsStop ==
  ASSUME IdleTypeOK, StopInv, board, NEW c \in CPUs, NEW m, In(c, mode[c]), Turns(c, m),
         UNCHANGED <<vars, board, stopper, joined>>, posted \subseteq posted' \union {c},
         m \in {"stopping", "stopwait", "world"} => stopper = c,
         m \in {"stopped", "rests"} => c \in joined \union posted',
         m # "starts", m = "stopwait" => mode[c] = "stopwait",
         m \in ToPark => mode[c] \in ToPark \/ stopper \in {None, c} \/ c \in joined
  PROVE  StopInv'
  <1>1. /\ \A o \in CPUs : mode'[o] = IF o = c THEN m ELSE mode[o]
        /\ Endless /\ ModesFit /\ \A s \in CPUs : WokenFor(s)
        /\ UNCHANGED <<pc, at, token, quit, killed, result, started>>
    BY DEF Turns, IdleTypeOK, StopInv, vars, haltVars, dogVars, endVars, parkVars
  <1>2. Endless'
    BY <1>1 DEF Endless
  <1>3. ModesFit'
    BY <1>1 DEF ModesFit, ToPark, In
  <1>4. \A s \in CPUs : WokenFor(s)'
    <2> SUFFICES ASSUME NEW s \in CPUs, stopper = s, mode'[s] = "stopwait",
                        NEW o \in Others(s) \ joined, pc[s] = "waking" => o < at[s], Asleep(o)'
                 PROVE  token[o]
      BY <1>1 DEF WokenFor, Others, Begun
    <2>1. mode[s] = "stopwait" /\ o # s /\ o \in CPUs
      BY <1>1, Ids DEF Others, Begun, IdleTypeOK, TypeOK
    <2>2. s # None
      BY Ids
    <2>3. Asleep(o)
      BY <1>1, <2>1, <2>2 DEF Asleep
    <2>4. QED BY <1>1, <2>1, <2>3 DEF WokenFor
  <1>5. QED
    BY <1>1, <1>2, <1>3, <1>4 DEF StopInv

LEMMA GoroutineKeepsStop ==
  ASSUME IdleTypeOK, StopInv, NEW c \in CPUs, Goroutine(c)
  PROVE  StopInv'
  <1>1. board /\ In(c, "run") /\ pc[c] = "guest" /\ mode[c] = "run"
    BY DEF Goroutine, Makes, SetsTimer, Blocks, CallsHost, BeginsStop, Task, In
  <1>2. TypeOK /\ Endless /\ ModesFit /\ \A s \in CPUs : WokenFor(s)
    BY <1>1 DEF IdleTypeOK, StopInv
  <1>3. mode \in [CPUs -> Modes] /\ pc \in [CPUs -> Locations] /\ Begun \subseteq CPUs
    BY Ids DEF IdleTypeOK, TypeOK, Begun
  <1>4. CASE Makes(c) \/ SetsTimer(c)
    <2>1. UNCHANGED <<vars, board, mode, stopper, joined, posted>>
      BY <1>4 DEF Makes, SetsTimer
    <2>2. QED
      BY <1>2, <2>1 DEF StopInv, Endless, ModesFit, WokenFor, Asleep, Others, Begun, vars, haltVars,
         dogVars, endVars, parkVars
  <1>5. CASE Blocks(c)
    BY <1>1, <1>5, TurnsKeepsStop DEF Blocks, ToPark
  <1>6. CASE CallsHost(c)
    <2>1. /\ Go(c, "hostwait") /\ UNCHANGED <<at, quit, killed, result, token, started>>
          /\ UNCHANGED <<board, mode, stopper, joined, posted>>
      BY <1>6 DEF CallsHost, LockHost, schedVars, haltVars, dogVars, endVars, parkVars
    <2>2. Endless'
      BY <1>1, <1>2, <2>1, CallsEndless
    <2>3. \A o \in CPUs : pc'[o] = IF o = c THEN "hostwait" ELSE pc[o]
      BY <1>3, <2>1 DEF Go
    <2>4. ModesFit'
      BY <1>1, <1>2, <2>1, <2>3 DEF ModesFit, ToPark
    <2>5. \A s \in CPUs : WokenFor(s)'
      BY <1>1, <1>2, <1>3, <2>1, <2>3 DEF WokenFor, Asleep, Others, Begun
    <2>6. QED BY <2>2, <2>4, <2>5 DEF StopInv
  <1>7. ASSUME NEW t \in APs, Task(c, t) PROVE StopInv'
    <2>1. /\ Go(c, "entry") /\ UNCHANGED <<at, quit, killed, result, token>> /\ t \in CPUs
          /\ UNCHANGED <<board, stopper, joined, posted>> /\ stopper = None
          /\ \A o \in CPUs : mode'[o] = IF o = t THEN "look" ELSE mode[o]
      BY <1>3, <1>7, Ids DEF Task, CPUStart, Turns, haltVars, dogVars, endVars, parkVars
    <2>2. Endless'
      BY <1>1, <1>2, <2>1, CallsEndless
    <2>3. \A o \in CPUs : pc'[o] = IF o = c THEN "entry" ELSE pc[o]
      BY <1>3, <2>1 DEF Go
    <2>4. ModesFit'
      BY <1>1, <1>2, <2>1, <2>3 DEF ModesFit, ToPark
    <2>5. \A s \in CPUs : WokenFor(s)'
      BY <2>1, Ids DEF WokenFor
    <2>6. QED BY <2>2, <2>4, <2>5 DEF StopInv
  <1>8. CASE BeginsStop(c)
    <2>1. /\ UNCHANGED <<pc, at, quit, killed, result, token, started, board, joined, posted>>
          /\ stopper' = c /\ stopper = None /\ \A o \in CPUs : mode[o] # "starts"
          /\ \A o \in CPUs : mode'[o] = IF o = c THEN "stopping" ELSE mode[o]
      BY <1>3, <1>8 DEF BeginsStop, Turns, vars, haltVars, dogVars, endVars, parkVars
    <2>2. Endless'
      BY <1>2, <2>1 DEF Endless
    <2>3. ModesFit'
      BY <1>1, <1>2, <2>1, Ids DEF ModesFit, ToPark
    <2>4. \A s \in CPUs : WokenFor(s)'
      BY <2>1 DEF WokenFor
    <2>5. QED BY <2>2, <2>3, <2>4 DEF StopInv
  <1>9. QED BY <1>4, <1>5, <1>6, <1>7, <1>8 DEF Goroutine

\* goos.Wake of t by c.
LEMMA WakesOne ==
  ASSUME IdleTypeOK, StopInv, board, NEW c \in CPUs, NEW t, pc[c] = "guest", WakeOne(c, t)
  PROVE  /\ Endless'
         /\ \A o \in CPUs : pc'[o] = IF o = c THEN "entry" ELSE pc[o]
         /\ \A o \in CPUs : token'[o] = (token[o] \/ o = t)
         /\ UNCHANGED <<at, started>>
  <1>1. /\ TypeOK /\ Endless /\ Go(c, "entry") /\ UNCHANGED <<at, quit, killed, result, started>>
        /\ token' = [token EXCEPT ![t] = TRUE]
    BY DEF IdleTypeOK, StopInv, WakeOne, haltVars, dogVars, endVars
  <1>2. token \in [CPUs -> BOOLEAN] /\ pc \in [CPUs -> Locations]
    BY <1>1 DEF TypeOK
  <1>3. QED BY <1>1, <1>2, CallsEndless DEF Go

LEMMA JoinKeepsStop ==
  ASSUME IdleTypeOK, StopInv, NEW c \in CPUs, JoinsStop(c)
  PROVE  StopInv'
  <1>1. /\ board /\ pc[c] = "guest" /\ mode[c] = "look" /\ UNCHANGED <<board, stopper, posted>>
        /\ joined' = joined \union {c} /\ Turns(c, "stopped")
        /\ WakeOne(c, stopper) \/ UNCHANGED vars
    BY DEF JoinsStop, In
  <1>2. /\ TypeOK /\ Endless /\ ModesFit /\ \A s \in CPUs : WokenFor(s)
        /\ mode \in [CPUs -> Modes] /\ Begun \subseteq CPUs
    BY <1>1, Ids DEF IdleTypeOK, StopInv, Begun, TypeOK
  <1>3. /\ Endless' /\ UNCHANGED <<at, started>>
        /\ \A o \in CPUs : /\ pc'[o] = pc[o] \/ (o = c /\ pc'[o] = "entry")
                           /\ token[o] => token'[o]
    <2>1. CASE UNCHANGED vars
      BY <1>2, <2>1 DEF Endless, vars, haltVars, dogVars, endVars, parkVars
    <2>2. CASE WakeOne(c, stopper)
      BY <1>1, <2>2, WakesOne
    <2>3. QED BY <1>1, <2>1, <2>2
  <1>4. \A o \in CPUs : mode'[o] = IF o = c THEN "stopped" ELSE mode[o]
    BY <1>1, <1>2 DEF Turns
  <1>5. ModesFit'
    BY <1>1, <1>2, <1>3, <1>4 DEF ModesFit, ToPark
  <1>6. \A s \in CPUs : WokenFor(s)'
    BY <1>1, <1>2, <1>3, <1>4 DEF WokenFor, Asleep, Others, Begun
  <1>7. QED BY <1>3, <1>5, <1>6 DEF StopInv

LEMMA LettingGoKeepsStop ==
  ASSUME IdleTypeOK, StopInv, NEW c \in CPUs, LetsGo(c)
  PROVE  StopInv'
  <1>1. /\ board /\ pc[c] = "guest" /\ mode[c] = "starts" /\ UNCHANGED <<board, stopper>>
    BY DEF LetsGo, In
  <1>2. /\ TypeOK /\ Endless /\ ModesFit /\ stopper = None /\ mode \in [CPUs -> Modes]
    BY <1>1 DEF IdleTypeOK, StopInv, ModesFit
  <1>3. CASE joined = {}
    BY <1>1, <1>3, TurnsKeepsStop DEF LetsGo, ToPark, In
  <1>4. ASSUME NEW t \in joined, WakeOne(c, t), UNCHANGED mode,
               joined' = joined \ {t}, posted' = posted \union {t}
        PROVE  StopInv'
    <2>1. Endless' /\ \A o \in CPUs : pc'[o] = pc[o] \/ (o = c /\ pc'[o] = "entry")
      BY <1>1, <1>4, WakesOne
    <2>2. ModesFit'
      BY <1>1, <1>2, <1>4, <2>1 DEF ModesFit, ToPark
    <2>3. \A s \in CPUs : WokenFor(s)'
      BY <1>1, <1>2, Ids DEF WokenFor
    <2>4. QED BY <2>1, <2>2, <2>3 DEF StopInv
  <1>5. QED BY <1>3, <1>4 DEF LetsGo

LEMMA StartKeepsStop ==
  ASSUME IdleTypeOK, StopInv, NEW c \in CPUs, StartsWorld(c)
  PROVE  StopInv'
  <1>1. /\ board /\ pc[c] = "guest" /\ mode[c] = "world" /\ stopper' = None
        /\ UNCHANGED <<board, joined, posted, pc, at, token, quit, killed, result, started>>
        /\ Turns(c, "starts") /\ mode \in [CPUs -> Modes]
    BY DEF StartsWorld, In, vars, haltVars, dogVars, endVars, parkVars, IdleTypeOK
  <1>2. Endless /\ ModesFit /\ stopper = c
    BY <1>1 DEF StopInv, ModesFit
  <1>3. \A o \in CPUs : mode'[o] = IF o = c THEN "starts" ELSE mode[o]
    BY <1>1 DEF Turns
  <1>4. Endless'
    BY <1>1, <1>2 DEF Endless
  <1>5. ModesFit'
    BY <1>1, <1>2, <1>3 DEF ModesFit, ToPark
  <1>6. \A s \in CPUs : WokenFor(s)'
    BY <1>1, Ids DEF WokenFor
  <1>7. QED BY <1>4, <1>5, <1>6 DEF StopInv

\* The board's: a loop of wakes begins at the first vCPU, a park is entered.
LEMMA BoardKeepsStop ==
  ASSUME IdleTypeOK, StopInv, NEW c \in CPUs, IdleWakes(c) \/ IdleParks(c)
  PROVE  StopInv'
  <1>1. /\ board /\ pc[c] = "guest" /\ UNCHANGED <<board, stopper, joined, posted>>
        /\ mode \in [CPUs -> Modes] /\ Begun \subseteq CPUs /\ pc \in [CPUs -> Locations]
        /\ at \in [CPUs -> CPUs]
    BY Ids DEF IdleWakes, IdleParks, In, IdleTypeOK, TypeOK, Begun
  <1>2. TypeOK /\ Endless /\ ModesFit /\ at[c] = 0 /\ \A s \in CPUs : WokenFor(s)
    BY <1>1 DEF IdleTypeOK, StopInv, Endless
  <1>3. CASE IdleWakes(c)
    <2>1. PICK m \in {"timed", "stopwait"} :
            /\ m = "timed" => mode[c] = "near"
            /\ m = "stopwait" => mode[c] = "stopping"
            /\ Turns(c, m)
      BY <1>3 DEF IdleWakes, In
    <2>2. /\ Go(c, "waking") /\ UNCHANGED <<at, quit, killed, result, token, started>>
      BY <1>3 DEF IdleWakes, WakeParked, haltVars, dogVars, endVars, parkVars
    <2>3. \A o \in CPUs : /\ mode'[o] = IF o = c THEN m ELSE mode[o]
                          /\ pc'[o] = IF o = c THEN "waking" ELSE pc[o]
      BY <1>1, <2>1, <2>2 DEF Turns, Go
    <2>4. Endless'
      BY <1>1, <1>2, <2>2, CallsEndless
    <2>5. ModesFit'
      BY <1>1, <1>2, <2>1, <2>3 DEF ModesFit, ToPark
    <2>6. ASSUME NEW s \in CPUs, NEW o \in Others(s) \ joined, stopper = s, mode'[s] = "stopwait",
                 pc'[s] = "waking" => o < at[s], Asleep(o)'
          PROVE  token[o]
      <3>1. o \in CPUs /\ o # s
        BY <1>1 DEF Others
      <3>2. Asleep(o)
        BY <1>2, <2>1, <2>3, <2>6, <3>1 DEF Asleep, ToPark, ModesFit
      <3>3. ~(o < 0)
        BY <3>1, NAssumption DEF CPUs
      <3>4. s # c
        BY <1>2, <2>3, <2>6, <3>3
      <3>5. QED BY <1>2, <2>3, <2>6, <3>2, <3>4 DEF WokenFor
    <2>7. \A s \in CPUs : WokenFor(s)'
      BY <1>1, <2>2, <2>6 DEF WokenFor, Others, Begun
    <2>8. QED BY <2>4, <2>5, <2>7 DEF StopInv
  <1>4. CASE IdleParks(c)
    <2>1. /\ mode[c] \in {"idle", "timed", "stopwait", "rests"}
          /\ Turns(c, AfterIdle(c)) /\ Go(c, "parked")
          /\ UNCHANGED <<at, quit, killed, result, token, started>>
      BY <1>4 DEF IdleParks, CPUPark, In, haltVars, dogVars, endVars
    <2>2. /\ AfterIdle(c) \in {"look", "stopping", "stopped"}
          /\ AfterIdle(c) = "stopping" => mode[c] = "stopwait"
          /\ AfterIdle(c) = "stopped" => mode[c] = "rests"
      BY <2>1 DEF AfterIdle
    <2>3. \A o \in CPUs : /\ mode'[o] = IF o = c THEN AfterIdle(c) ELSE mode[o]
                          /\ pc'[o] = IF o = c THEN "parked" ELSE pc[o]
      BY <1>1, <2>1 DEF Turns, Go
    <2>4. Endless'
      BY <1>1, <1>2, <2>1, CallsEndless
    <2>5. ModesFit'
      BY <1>1, <1>2, <2>1, <2>2, <2>3 DEF ModesFit, ToPark
    <2>6. ASSUME NEW s \in CPUs, NEW o \in Others(s) \ joined, stopper = s, mode'[s] = "stopwait",
                 pc'[s] = "waking" => o < at[s], Asleep(o)'
          PROVE  token[o]
      <3>1. o \in CPUs /\ o # s
        BY <1>1 DEF Others
      <3>2. s # c /\ mode[s] = "stopwait" /\ (pc[s] = "waking" => o < at[s])
        BY <2>2, <2>3, <2>6
      <3>3. o = c => mode[c] \in ToPark
        BY <1>2, <2>1, <2>6, <3>1 DEF ModesFit, ToPark
      <3>4. Asleep(o)
        BY <2>3, <2>6, <3>1, <3>3 DEF Asleep
      <3>5. QED BY <1>2, <2>6, <3>2, <3>4 DEF WokenFor
    <2>7. \A s \in CPUs : WokenFor(s)'
      BY <1>1, <2>1, <2>6 DEF WokenFor, Others, Begun
    <2>8. QED BY <2>4, <2>5, <2>7 DEF StopInv
  <1>5. QED BY <1>3, <1>4

LEMMA SchedulerKeepsStop ==
  ASSUME IdleTypeOK, StopInv, NEW c \in CPUs, Scheduler(c)
  PROVE  StopInv'
  <1>1. board /\ pc[c] = "guest" /\ In(c, mode[c]) /\ ModesFit
    BY DEF Scheduler, JoinsStop, TakesWork, RunsTimer, FindsNothing, SeesStopped, StartsWorld,
       LetsGo, SemaTaken, IdleWakes, IdleParks, IdleReturns, In, StopInv
  <1>2. CASE TakesWork(c) \/ RunsTimer(c)
    BY <1>1, <1>2, TurnsKeepsStop DEF TakesWork, RunsTimer, ToPark
  <1>3. CASE FindsNothing(c)
    <2>1. PICK m \in {"timed", "near", "idle"} : Turns(c, m)
      BY <1>3 DEF FindsNothing
    <2>2. stopper \in {None, c}
      BY <1>3 DEF FindsNothing, Stopped
    <2>3. QED
      BY <1>1, <1>3, <2>1, <2>2, TurnsKeepsStop DEF FindsNothing
  <1>4. CASE SeesStopped(c)
    <2>1. stopper = c
      BY <1>1, <1>4 DEF SeesStopped, In, ModesFit
    <2>2. QED BY <1>1, <1>4, <2>1, TurnsKeepsStop DEF SeesStopped, ToPark
  <1>5. CASE SemaTaken(c)
    <2>1. mode[c] = "stopped" /\ c \in joined \union posted
      BY <1>1, <1>5 DEF SemaTaken, In, ModesFit
    <2>2. CASE c \in posted
      BY <1>1, <1>5, <2>2, TurnsKeepsStop DEF SemaTaken, ToPark
    <2>3. CASE c \notin posted
      <3>1. c \in joined /\ posted' = posted
        BY <1>5, <2>1, <2>3 DEF SemaTaken
      <3>2. QED BY <1>1, <1>5, <2>3, <3>1, TurnsKeepsStop DEF SemaTaken
    <2>4. QED BY <2>2, <2>3
  <1>6. CASE IdleReturns(c)
    <2>1. PICK m \in {"look", "stopping"} : Turns(c, m) /\ (m = "stopping" => mode[c] = "stopwait")
      BY <1>6 DEF IdleReturns, AfterIdle, In
    <2>2. m = "stopping" => stopper = c
      BY <1>1, <2>1 DEF ModesFit
    <2>3. QED BY <1>1, <1>6, <2>1, <2>2, TurnsKeepsStop DEF IdleReturns, ToPark
  <1>7. QED
    BY <1>2, <1>3, <1>4, <1>5, <1>6, JoinKeepsStop, LettingGoKeepsStop, StartKeepsStop,
       BoardKeepsStop DEF Scheduler

-----------------------------------------------------------------------------
(***************************************************************************)
(* The theorems.                                                           *)
(***************************************************************************)
LEMMA StopStep == IdleTypeOK /\ StopInv /\ [IdleNext]_idleVars => StopInv'
  <1> SUFFICES ASSUME IdleTypeOK, StopInv, [IdleNext]_idleVars PROVE StopInv'
    OBVIOUS
  <1>1. CASE \E c \in CPUs : Goroutine(c) \/ Scheduler(c)
    BY <1>1, GoroutineKeepsStop, SchedulerKeepsStop
  <1>2. ASSUME board, NEW c \in CPUs, MonitorStep(c) PROVE StopInv'
    BY <1>2, MonitorKeepsStop
  <1>3. CASE ~board /\ Next /\ UNCHANGED <<board, schedVars>>
    BY <1>3 DEF StopInv
  <1>4. CASE TimerDue \/ UNCHANGED idleVars
    <2>1. UNCHANGED <<vars, board, mode, stopper, joined, posted>>
      BY <1>4 DEF TimerDue, idleVars, schedVars, vars
    <2>2. QED
      BY <2>1 DEF StopInv, Endless, ModesFit, WokenFor, Asleep, Others, Begun, vars, haltVars,
         dogVars, endVars, parkVars
  <1>5. ASSUME board, NEW c \in CPUs, (Begins /\ c = Boot) \/ HostStep(c) PROVE StopInv'
    <2>1. /\ pc \in [CPUs -> Locations] /\ result \in [CPUs -> Ends \union {NoEnd}]
          /\ Endless /\ ModesFit /\ \A s \in CPUs : WokenFor(s) /\ Begun \subseteq CPUs
      BY <1>5, Ids DEF IdleTypeOK, TypeOK, StopInv, Begun
    <2>2. UNCHANGED <<board, mode, stopper, joined, posted, at, quit, killed, token, started>>
      BY <1>5 DEF Begins, Serve, HostStep, HostReturns, schedVars, haltVars, dogVars, parkVars
    <2>3. PICK to \in {"entry", "resuming"} : Go(c, to) /\ pc[c] \in {"start", "inhost"}
      BY <1>5 DEF Begins, Serve, HostStep, HostReturns, UnlockHost, AfterCall
    <2>4. \A o \in CPUs : result'[o] = NoEnd
      BY <1>5, <2>1 DEF Begins, Serve, HostStep, HostReturns, UnlockHost, endVars, Endless
    <2>5. \A o \in CPUs : pc'[o] = IF o = c THEN to ELSE pc[o]
      BY <2>1, <2>3 DEF Go
    <2>6. Endless'
      BY <2>1, <2>2, <2>3, <2>4, <2>5 DEF Endless, BoardPlaces
    <2>7. ModesFit'
      BY <2>1, <2>2, <2>3, <2>5 DEF ModesFit, ToPark
    <2>8. \A s \in CPUs : WokenFor(s)'
      <3> SUFFICES ASSUME NEW s \in CPUs, stopper = s, mode[s] = "stopwait",
                          NEW o \in Others(s) \ joined, pc'[s] = "waking" => o < at[s], Asleep(o)'
                   PROVE  token[o]
        BY <2>2 DEF WokenFor, Others, Begun
      <3>1. o \in CPUs
        BY <2>1 DEF Others
      <3>2. Asleep(o) /\ (pc[s] = "waking" => o < at[s])
        BY <2>2, <2>3, <2>5, <3>1 DEF Asleep
      <3>3. QED BY <2>1, <3>2 DEF WokenFor
    <2>9. QED BY <2>2, <2>6, <2>7, <2>8 DEF StopInv
  <1>6. QED
    BY <1>1, <1>2, <1>3, <1>4, <1>5, Ids DEF IdleNext

LEMMA IdleTypeStep == IdleTypeOK /\ StopInv /\ [IdleNext]_idleVars => IdleTypeOK'
  <1> SUFFICES ASSUME IdleTypeOK, StopInv, [IdleNext]_idleVars PROVE IdleTypeOK'
    OBVIOUS
  <1>1. TypeOK /\ TypeOK' /\ StopInv' /\ [Next]_vars
    BY MonitorsStep, TypeStep, StopStep DEF IdleTypeOK
  <1>2. board' = board /\ (board => ~quit')
    <2>1. board' = board
      BY DEF IdleNext, idleVars, Begins, TimerDue, MonitorStep, HostStep, Goroutine, Scheduler,
         Makes, SetsTimer, Blocks, CallsHost, BeginsStop, Task, JoinsStop, TakesWork, RunsTimer,
         FindsNothing, SeesStopped, StartsWorld, LetsGo, SemaTaken, IdleWakes, IdleParks, IdleReturns
    <2>2. QED BY <1>1, <2>1 DEF StopInv, Endless
  <1>3. started \subseteq started' /\ started \subseteq APs
    BY <1>1, StartedStep DEF CPUStart, TypeOK
  <1>4. Begun \subseteq Begun' /\ Begun \subseteq CPUs
    BY <1>3, Ids DEF Begun
  <1> USE <1>1, <1>2, <1>4, ReadyAssumption
  <1>5. CASE UNCHANGED schedVars /\ (board => UNCHANGED started)
    BY <1>5 DEF IdleTypeOK, schedVars, Begun
  <1>6. ASSUME NEW c \in CPUs, board, In(c, mode[c]), mode[c] # "off", UNCHANGED started,
               mode' = mode \/ \E m \in Modes \ {"off"} : Turns(c, m),
               ready' \in 0 .. MaxReady, timer' \in {"none", "set", "due"},
               stopper' \in CPUs \union {None}, joined' \subseteq Begun, posted' \subseteq Begun
        PROVE  IdleTypeOK'
    <2>1. c \in Begun
      BY <1>6 DEF IdleTypeOK
    <2>2. Begun' = Begun
      BY <1>6 DEF Begun
    <2>3. /\ mode' \in [CPUs -> Modes]
          /\ \A o \in CPUs : mode'[o] = "off" <=> mode[o] = "off"
      BY <1>6 DEF IdleTypeOK, Turns
    <2>4. QED BY <1>6, <2>2, <2>3 DEF IdleTypeOK
  <1>7. ASSUME NEW c \in CPUs, Goroutine(c) PROVE IdleTypeOK'
    <2>1. board /\ In(c, mode[c]) /\ mode[c] = "run"
      BY <1>7 DEF Goroutine, Makes, SetsTimer, Blocks, CallsHost, BeginsStop, Task, In
    <2>2. CASE Makes(c) \/ SetsTimer(c) \/ Blocks(c) \/ CallsHost(c) \/ BeginsStop(c)
      <3>1. UNCHANGED started
        BY <2>2 DEF Makes, SetsTimer, Blocks, CallsHost, BeginsStop, LockHost, vars
      <3>2. mode' = mode \/ \E m \in Modes \ {"off"} : Turns(c, m)
        BY <2>2 DEF Makes, SetsTimer, Blocks, CallsHost, BeginsStop, schedVars, Modes
      <3>3. /\ ready' \in 0 .. MaxReady /\ timer' \in {"none", "set", "due"}
            /\ stopper' \in CPUs \union {None} /\ joined' = joined /\ posted' = posted
        BY <2>2 DEF Makes, SetsTimer, Blocks, CallsHost, BeginsStop, schedVars, IdleTypeOK
      <3>4. joined \subseteq Begun /\ posted \subseteq Begun
        BY DEF IdleTypeOK
      <3>5. QED BY <1>6, <2>1, <3>1, <3>2, <3>3, <3>4
    <2>3. ASSUME NEW t \in APs, Task(c, t) PROVE IdleTypeOK'
      <3>1. /\ started' = started \union {t} /\ UNCHANGED <<ready, timer, stopper, joined, posted>>
            /\ t \in CPUs /\ mode' = [mode EXCEPT ![t] = "look"]
        BY <2>3, Ids DEF Task, CPUStart, Turns
      <3>2. Begun' = Begun \union {t}
        BY <3>1 DEF Begun
      <3>3. mode' \in [CPUs -> Modes]
        BY <3>1 DEF IdleTypeOK, Modes
      <3>4. \A o \in CPUs : mode'[o] = "off" <=> o \notin Begun'
        BY <2>1, <3>1, <3>2 DEF IdleTypeOK
      <3>5. QED BY <3>1, <3>3, <3>4 DEF IdleTypeOK
    <2>4. QED BY <1>7, <2>2, <2>3 DEF Goroutine
  <1>8. ASSUME NEW c \in CPUs, Scheduler(c) PROVE IdleTypeOK'
    <2>1. board /\ In(c, mode[c]) /\ mode[c] # "off"
      BY <1>8 DEF Scheduler, JoinsStop, TakesWork, RunsTimer, FindsNothing, SeesStopped, StartsWorld,
         LetsGo, SemaTaken, IdleWakes, IdleParks, IdleReturns, In
    <2>2. UNCHANGED started
      BY <1>8 DEF Scheduler, JoinsStop, TakesWork, RunsTimer, FindsNothing, SeesStopped, StartsWorld,
         LetsGo, SemaTaken, IdleWakes, IdleParks, IdleReturns, WakeOne, WakeParked, CPUPark, vars
    <2>3. mode' = mode \/ \E m \in Modes \ {"off"} : Turns(c, m)
      <3>1. CASE IdleParks(c) \/ IdleReturns(c)
        <4>1. AfterIdle(c) \in {"look", "stopping", "stopped"}
          BY <3>1 DEF IdleParks, IdleReturns, In, AfterIdle
        <4>2. QED BY <3>1, <4>1 DEF IdleParks, IdleReturns, Modes
      <3>2. QED
        BY <1>8, <3>1 DEF Scheduler, JoinsStop, TakesWork, RunsTimer, FindsNothing, SeesStopped,
           StartsWorld, LetsGo, SemaTaken, IdleWakes, Modes
    <2>4. c \in Begun
      BY <2>1 DEF IdleTypeOK
    <2>5. /\ ready' \in 0 .. MaxReady /\ timer' \in {"none", "set", "due"}
          /\ stopper' \in CPUs \union {None}
      <3>1. CASE TakesWork(c)
        BY <3>1 DEF TakesWork, IdleTypeOK
      <3>2. CASE ~TakesWork(c)
        BY <1>8, <3>2 DEF Scheduler, JoinsStop, RunsTimer, FindsNothing, SeesStopped, StartsWorld,
           LetsGo, SemaTaken, IdleWakes, IdleParks, IdleReturns, IdleTypeOK
      <3>3. QED BY <3>1, <3>2
    <2>6. joined' \subseteq Begun /\ posted' \subseteq Begun
      BY <1>8, <2>4 DEF Scheduler, JoinsStop, TakesWork, RunsTimer, FindsNothing, SeesStopped,
         StartsWorld, LetsGo, SemaTaken, IdleWakes, IdleParks, IdleReturns, IdleTypeOK
    <2>7. QED BY <1>6, <2>1, <2>2, <2>3, <2>5, <2>6
  <1>9. CASE TimerDue
    BY <1>9 DEF TimerDue, IdleTypeOK, vars, Begun
  <1>10. ASSUME board, NEW c \in CPUs, MonitorStep(c) PROVE IdleTypeOK'
    <2>1. UNCHANGED started
      BY <1>10, MonitorPasses DEF MonitorStep, StopInv
    <2>2. QED BY <1>5, <1>10, <2>1 DEF MonitorStep
  <1>11. ASSUME NEW c \in CPUs, Begins \/ HostStep(c) PROVE IdleTypeOK'
    BY <1>5, <1>11 DEF Begins, Serve, HostStep, HostReturns
  <1>12. CASE UNCHANGED idleVars
    BY <1>5, <1>12 DEF idleVars, vars
  <1>13. QED
    BY <1>5, <1>7, <1>8, <1>9, <1>10, <1>11, <1>12, Ids DEF IdleNext

LEMMA IdleInitInv == IdleInit => IdleInv
  <1> SUFFICES ASSUME IdleInit PROVE IdleInv
    OBVIOUS
  <1>1. Init /\ TypeOK
    BY TypeInit DEF IdleInit
  <1>2. IdleTypeOK
    <2>0. started = {} /\ quit = FALSE
      BY <1>1 DEF Init
    <2>1. Begun = {Boot}
      BY <2>0 DEF Begun
    <2>2. /\ board \in BOOLEAN
          /\ ready \in 0 .. MaxReady
      <3>1. CASE N > 1
        BY <3>1, ReadyAssumption DEF IdleInit
      <3>2. CASE ~(N > 1)
        <4>1. board = FALSE
          BY <3>2 DEF IdleInit
        <4>2. ready = 0
          BY DEF IdleInit
        <4>3. 0 \in 0 .. MaxReady
          BY ReadyAssumption
        <4>4. QED BY <4>1, <4>2, <4>3
      <3>3. QED BY <3>1, <3>2
    <2>3. mode \in [CPUs -> Modes] /\ \A c \in CPUs : mode[c] = "off" <=> c \notin {Boot}
      BY DEF IdleInit, Modes
    <2>4. QED BY <1>1, <2>0, <2>1, <2>2, <2>3 DEF IdleInit, IdleTypeOK
  <1>3. Endless
    BY <1>1 DEF Init, Endless, BoardPlaces
  <1>4. ModesFit /\ \A s \in CPUs : WokenFor(s)
    BY DEF IdleInit, ModesFit, WokenFor, ToPark
  <1>5. QED BY <1>2, <1>3, <1>4 DEF IdleInv, StopInv

LEMMA IdleInvariant == IdleSpec => []IdleInv
  <1>1. IdleInv /\ [IdleNext]_idleVars => IdleInv'
    BY StopStep, IdleTypeStep DEF IdleInv
  <1>2. QED
    BY <1>1, IdleInitInv, PTL DEF IdleSpec

\* The board's scheduler state stays in its range beside the monitor's, and
\* under a board's guest no run ends by itself.
THEOREM IdleTypeCorrect == IdleSpec => []IdleTypeOK
  BY IdleInvariant, PTL DEF IdleInv

\* A stop of the world does not wait for the monitor's limit, on any number
\* of vCPUs: when its stopper's CPUWake for all is over, each vCPU that has
\* not joined is awake or has its wake (vmm/smp.go:114).
THEOREM StopsAreSeen == IdleSpec => []StopSeen
  <1>1. IdleInv => StopSeen
    <2> SUFFICES ASSUME IdleInv, NEW s \in CPUs, board, stopper = s, mode[s] = "stopwait",
                        pc[s] # "waking", NEW c \in Others(s) \ joined, pc[c] = "waiting"
                 PROVE  token[c]
      BY DEF StopSeen
    <2>1. WokenFor(s)
      BY DEF IdleInv, StopInv
    <2>2. QED BY <2>1 DEF WokenFor, Asleep
  <1>2. QED
    BY <1>1, IdleInvariant, PTL
=============================================================================

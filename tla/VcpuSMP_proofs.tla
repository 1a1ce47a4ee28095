--------------------------- MODULE VcpuSMP_proofs ---------------------------
(***************************************************************************)
(* What VcpuSMP promises, proved for every number of vCPUs.                *)
(***************************************************************************)
EXTENDS VcpuSMP, FiniteSetTheorems, TLAPS

\* The ids: the boot vCPU is one, an AP another, the loops' index stays in.
LEMMA Ids ==
  /\ Boot \in CPUs
  /\ APs \subseteq CPUs
  /\ \A c \in CPUs : c # None /\ NextCPU(c) \in CPUs
  BY NAssumption DEF CPUs, Boot, APs, None, NextCPU

\* The locations the steps go to.
LEMMA Places ==
  {"start", "unstarted", "entry", "guest", "waking", "parked", "waiting", "woken",
   "deadline", "limit", "hostwait", "inhost", "exithalt", "exitjoin", "exiting",
   "resuming", "finish", "finishhalt", "stopped", "loopdone", "destroyhalt",
   "teardown", "gone"} = Locations
  BY DEF Locations, InCall, InGuest, Parking, WaitOver, HoldsHost, ExitSteps, LoopOver

\* One step of halt's loop keeps the types.
LEMMA KickStep ==
  ASSUME TypeOK, NEW t, HaltKicks(t)
  PROVE  /\ token' \in [CPUs -> BOOLEAN]
         /\ cancel' \in [CPUs -> BOOLEAN]
         /\ kick' \in 0 .. N
         /\ UNCHANGED <<quit, halter>>
  <1>1. kick' \in 0 .. N
    BY NAssumption DEF TypeOK, HaltKicks
  <1>2. (cancel[kick] \/ pc[kick] # "gone") \in BOOLEAN
    BY Zenon
  <1>3. QED
    BY <1>1, <1>2 DEF TypeOK, HaltKicks

\* Types: every location, flag and count stays in its range, whatever the
\* guest asks for (vmm.go, smp.go).
LEMMA TypeInit == Init => TypeOK
  <1> SUFFICES ASSUME Init PROVE TypeOK
    OBVIOUS
  <1>1. pc \in [CPUs -> Locations]
    BY Places DEF Init
  <1>2. /\ state \in [CPUs -> ParkStates] /\ token \in [CPUs -> BOOLEAN]
        /\ limited \in [CPUs -> BOOLEAN] /\ deadline \in [CPUs -> BOOLEAN]
        /\ cancel \in [CPUs -> BOOLEAN]
    BY DEF Init, ParkStates
  <1>3. at \in [CPUs -> CPUs] /\ result \in [CPUs -> Ends \union {NoEnd}]
    BY Ids DEF Init, Boot
  <1>4. kick \in 0 .. N
    BY NAssumption DEF Init
  <1>5. /\ started \in SUBSET APs /\ running \in Int
        /\ host \in CPUs \union {None} /\ halter \in CPUs \union {Dog, None}
        /\ end \in Ends \union {NoEnd} /\ ret \in Ends \union {NoEnd, "zero"}
        /\ dog \in {"off", "watch", "halt"}
    BY DEF Init
  <1>6. quit \in BOOLEAN /\ killed \in BOOLEAN /\ told \in BOOLEAN
    BY DEF Init
  <1>7. QED
    BY <1>1, <1>2, <1>3, <1>4, <1>5, <1>6 DEF TypeOK

LEMMA TypeStep == TypeOK /\ [Next]_vars => TypeOK'
  <1> SUFFICES ASSUME TypeOK, [Next]_vars PROVE TypeOK'
    OBVIOUS
  <1> USE NAssumption, Ids, Places DEF TypeOK, ParkStates,
     NoEnd, Ends, Go, parkVars, haltVars, dogVars, endVars, AfterCall
  <1>1. ASSUME NEW c \in CPUs, GuestCalls(c) PROVE TypeOK'
    <2>1. CASE GuestFaults(c)  BY <2>1 DEF GuestFaults
    <2>2. CASE QuickCall(c)    BY <2>2 DEF QuickCall
    <2>3. CASE \E t \in CPUs : WakeOne(c, t)  BY <2>3 DEF WakeOne
    <2>4. CASE WakeParked(c)   BY <2>4 DEF WakeParked
    <2>5. CASE \E t \in APs : CPUStart(c, t)  BY <2>5 DEF CPUStart
    <2>6. CASE CPUPark(c)      BY <2>6 DEF CPUPark
    <2>7. CASE LockHost(c)     BY <2>7 DEF LockHost
    <2>8. QED BY <1>1, <2>1, <2>2, <2>3, <2>4, <2>5, <2>6, <2>7 DEF GuestCalls
  <1>2. ASSUME NEW c \in CPUs, HostAnswers(c) PROVE TypeOK'
    BY <1>2 DEF HostAnswers, HostReturns, HostFails, ExitCalled, UnlockHost
  <1>3. ASSUME NEW c \in CPUs, Monitor(c) PROVE TypeOK'
    <2>1. CASE APStarts(c)     BY <2>1 DEF APStarts
    <2>2. CASE APQuits(c)      BY <2>2 DEF APQuits
    <2>3. CASE EnterGuest(c)   BY <2>3 DEF EnterGuest
    <2>4. CASE Canceled(c)     BY <2>4 DEF Canceled
    <2>5. CASE WakeNext(c)     BY <2>5 DEF WakeNext
    <2>6. CASE ParkLooks(c)    BY <2>6 DEF ParkLooks
    <2>7. CASE WaitWoken(c)    BY <2>7 DEF WaitWoken
    <2>8. CASE WaitTimesOut(c) BY <2>8 DEF WaitTimesOut
    <2>9. CASE ParkStops(c)    BY <2>9 DEF ParkStops
    <2>10. CASE ParkGoesOn(c)  BY <2>10 DEF ParkGoesOn
    <2>11. CASE ParkEnds(c)    BY <2>11 DEF ParkEnds
    <2>12. CASE Resume(c)      BY <2>12 DEF Resume
    <2>13. CASE HostGranted(c) BY <2>13 DEF HostGranted
    <2>14. CASE HostRefused(c) BY <2>14 DEF HostRefused
    <2>15. CASE ExitJoins(c)   BY <2>15 DEF ExitJoins
    <2>16. CASE HostExits(c)   BY <2>16 DEF HostExits, UnlockHost
    <2>17. CASE Finish(c)      BY <2>17 DEF Finish
    <2>18. CASE Halt(c)
      <3>1. pc[c] \in HaltSteps /\ AfterHalt(pc[c]) \in Locations
        BY <2>18 DEF Halt, HaltSteps, AfterHalt
      <3>2. UNCHANGED <<at, started, running, host, state, limited, deadline, dogVars, endVars>>
        BY <2>18 DEF Halt
      <3>3. CASE HaltCloses(c) /\ UNCHANGED <<pc, token, cancel>>
        BY <3>2, <3>3 DEF HaltCloses
      <3>4. CASE HaltKicks(c) /\ UNCHANGED pc
        BY <3>2, <3>4, KickStep
      <3>5. CASE HaltReturns(c) /\ Go(c, AfterHalt(pc[c])) /\ UNCHANGED <<token, cancel>>
        BY <3>1, <3>2, <3>5 DEF HaltReturns
      <3>6. QED BY <2>18, <3>3, <3>4, <3>5 DEF Halt
    <2>19. CASE LoopEnds(c)    BY <2>19 DEF LoopEnds
    <2>20. CASE APDestroyed(c) BY <2>20 DEF APDestroyed
    <2>21. QED BY <1>3, <2>1, <2>2, <2>3, <2>4, <2>5, <2>6, <2>7, <2>8, <2>9, <2>10, <2>11,
                  <2>12, <2>13, <2>14, <2>15, <2>16, <2>17, <2>18, <2>19, <2>20 DEF Monitor
  <1>4. CASE RunMain
    BY <1>4, WatchdogAssumption DEF RunMain, Serve, SeccompFails, RunReturns, Teardown
  <1>5. CASE WatchdogSteps
    <2>1. CASE WatchdogKills BY <2>1 DEF WatchdogKills
    <2>2. CASE WatchdogStops BY <2>2 DEF WatchdogStops
    <2>3. CASE WatchdogHalts
      <3>1. UNCHANGED <<pc, at, started, running, host, killed, state, limited, deadline, endVars>>
        BY <2>3 DEF WatchdogHalts
      <3>2. CASE HaltCloses(Dog) /\ UNCHANGED <<token, cancel, dog>>
        BY <3>1, <3>2 DEF HaltCloses
      <3>3. CASE HaltKicks(Dog) /\ UNCHANGED dog
        BY <3>1, <3>3, KickStep
      <3>4. CASE HaltReturns(Dog) /\ dog' = "off" /\ UNCHANGED <<token, cancel>>
        BY <3>1, <3>4 DEF HaltReturns
      <3>5. QED BY <2>3, <3>2, <3>3, <3>4 DEF WatchdogHalts
    <2>4. QED BY <1>5, <2>1, <2>2, <2>3 DEF WatchdogSteps
  <1>6. CASE UNCHANGED vars
    BY <1>6 DEF vars
  <1>7. QED
    BY <1>1, <1>2, <1>3, <1>4, <1>5, <1>6 DEF Next

\* The vCPUs' locations, the parks' words and tokens, the counts and the end
\* recorded stay what they are, for any number of vCPUs.
THEOREM TypeCorrect == Spec => []TypeOK
  BY TypeInit, TypeStep, PTL DEF Spec

-----------------------------------------------------------------------------
\* Which locations are counted in smp.running.
LEMMA CountedPlaces ==
  /\ {"entry", "guest", "waking", "finish", "finishhalt"} \subseteq Counted
  /\ \A l \in {"start", "unstarted", "parked", "waiting", "woken", "deadline", "limit",
               "resuming", "stopped", "loopdone", "destroyhalt", "teardown", "gone"} :
       l \notin Counted
  /\ \A l \in {"hostwait", "inhost", "exithalt", "exitjoin", "exiting"} :
       l \in Counted <=> N = 1
  BY DEF Counted, InGuest, HoldsHost, ExitSteps

LEMMA GuestSetFinite ==
  /\ IsFiniteSet(GuestSet)
  /\ Cardinality(GuestSet) \in Nat
  /\ GuestSet # {} => Cardinality(GuestSet) > 0
  /\ GuestSet = {} => Cardinality(GuestSet) = 0
  <1>1. IsFiniteSet(CPUs)
    BY NAssumption, FS_Interval DEF CPUs
  <1>2. GuestSet \subseteq CPUs
    BY DEF GuestSet
  <1>3. IsFiniteSet(GuestSet)
    BY <1>1, <1>2, FS_Subset
  <1>4. QED
    BY <1>3, FS_CardinalityType, FS_EmptySet

\* One vCPU moves: it enters GuestSet, leaves it or stays where it was.
LEMMA GuestSetMoves ==
  ASSUME TypeOK, NEW c \in CPUs, NEW to \in Locations, to # "unstarted",
         Go(c, to), UNCHANGED started
  PROVE  GuestSet' = IF to \in Counted THEN GuestSet \union {c} ELSE GuestSet \ {c}
  <1>1. pc' = [pc EXCEPT ![c] = to] /\ started' = started
    BY DEF Go
  <1>2. ASSUME NEW o \in CPUs
        PROVE  o \in GuestSet' <=> IF o = c THEN to \in Counted ELSE o \in GuestSet
    <2>1. pc'[o] = IF o = c THEN to ELSE pc[o]
      BY <1>1 DEF TypeOK
    <2>2. Counted' = Counted
      BY DEF Counted
    <2>3. QED
      BY <1>1, <2>1, <2>2 DEF GuestSet
  <1>3. GuestSet \subseteq CPUs /\ GuestSet' \subseteq CPUs
    BY DEF GuestSet
  <1>4. QED
    BY <1>2, <1>3

LEMMA CountMoves ==
  ASSUME TypeOK, NEW c \in CPUs, NEW to \in Locations, to # "unstarted",
         Go(c, to), UNCHANGED started
  PROVE  Cardinality(GuestSet') = IF to \in Counted /\ c \notin GuestSet
                                  THEN Cardinality(GuestSet) + 1
                                  ELSE IF to \notin Counted /\ c \in GuestSet
                                  THEN Cardinality(GuestSet) - 1
                                  ELSE Cardinality(GuestSet)
  <1>1. CASE to \in Counted /\ c \notin GuestSet
    BY <1>1, GuestSetMoves, GuestSetFinite, FS_AddElement
  <1>2. CASE to \notin Counted /\ c \in GuestSet
    BY <1>2, GuestSetMoves, GuestSetFinite, FS_RemoveElement
  <1>3. CASE (to \in Counted) = (c \in GuestSet)
    <2>1. GuestSet' = GuestSet
      BY <1>3, GuestSetMoves
    <2>2. QED
      BY <1>3, <2>1
  <1>4. QED
    BY <1>1, <1>2, <1>3

\* A step that moves one vCPU without changing the count or any park: most
\* of the monitor's steps.
LEMMA QuietStep ==
  ASSUME TypeOK, CountInv, pc[Boot] # "start",
         NEW c \in CPUs, NEW to \in Locations,
         to \notin {"start", "unstarted", "waiting"}, Go(c, to),
         to \in Counted <=> c \in GuestSet, pc[c] # "unstarted" \/ c \in started,
         to \in Parking => pc[c] \in Parking,
         UNCHANGED <<state, started, running>>, ~quit' => ~quit,
         \A o \in CPUs \ {c} : limited'[o] = limited[o] /\ (token[o] => token'[o])
  PROVE  CountInv'
  <1>1. pc' = [pc EXCEPT ![c] = to]
    BY DEF Go
  <1>2. NotServing'
    BY <1>1, Ids DEF NotServing, TypeOK
  <1>3. RunningCount'
    BY CountMoves DEF RunningCount, CountInv
  <1>4. UntilWokenIdle'
    BY DEF UntilWokenIdle, CountInv
  <1>5. WaitsForWake'
    BY <1>1 DEF WaitsForWake, CountInv, TypeOK
  <1>6. NotStarted'
    BY <1>1 DEF NotStarted, CountInv, TypeOK
  <1>7. ParkedState'
    BY <1>1 DEF ParkedState, CountInv, TypeOK
  <1>8. QED
    BY <1>2, <1>3, <1>4, <1>5, <1>6, <1>7 DEF CountInv

\* A vCPU that moves, moves after Serve.
LEMMA Serving ==
  ASSUME CountInv, NEW c \in CPUs, pc[c] \notin {"start", "unstarted"}
  PROVE  pc[Boot] # "start"
  BY DEF CountInv, NotServing, APs

\* Once quit is closed the count's promises are over.
LEMMA AfterQuit ==
  ASSUME quit', pc'[Boot] # "start"
  PROVE  CountInv'
  BY DEF CountInv, NotServing, NotStarted, ParkedState, RunningCount,
     UntilWokenIdle, WaitsForWake

\* The monitor's quiet steps, one vCPU each.
LEMMA QuietMonitor ==
  ASSUME TypeOK, CountInv, NEW c \in CPUs,
         \/ APStarts(c) \/ APQuits(c) \/ EnterGuest(c) \/ Canceled(c) \/ WakeNext(c)
         \/ WaitWoken(c) \/ WaitTimesOut(c) \/ ParkStops(c) \/ ParkEnds(c)
         \/ HostGranted(c) \/ HostRefused(c) \/ ExitJoins(c)
         \/ Finish(c) \/ LoopEnds(c) \/ APDestroyed(c)
  PROVE  CountInv'
  <1> USE Serving, CountedPlaces, Places DEF GuestSet, parkVars, haltVars, Parking, WaitOver
  <1>1. CASE APStarts(c)
    <2>1. PICK r \in {NoEnd, "fault"} : Go(c, AfterCall(r))
      BY <1>1 DEF APStarts
    <2>2. AfterCall(r) \in {"entry", "finish"}
      BY DEF AfterCall
    <2>3. pc[Boot] # "start"
      BY <1>1 DEF APStarts, CountInv, NotServing
    <2>4. QED
      BY <1>1, <2>1, <2>2, <2>3, QuietStep DEF APStarts
  <1>2. CASE APQuits(c)
    <2>1. pc[Boot] # "start"
      BY <1>2 DEF APQuits, CountInv, NotServing
    <2>2. quit' /\ pc'[Boot] # "start"
      BY <1>2, <2>1, Ids DEF APQuits, Go, TypeOK
    <2>3. QED BY <2>2, AfterQuit
  <1>3. CASE EnterGuest(c)
    BY <1>3, QuietStep DEF EnterGuest
  <1>4. CASE Canceled(c)
    <2>1. PICK to \in {"finish", "stopped", "entry"} :
             Go(c, to) /\ (to = "stopped" => quit /\ quit')
      BY <1>4 DEF Canceled
    <2>2. CASE to = "stopped"
      <3>1. pc'[Boot] # "start"
        BY <1>4, <2>1, <2>2, Ids DEF Canceled, Go, TypeOK, InGuest
      <3>2. QED BY <2>1, <2>2, <3>1, AfterQuit
    <2>3. CASE to # "stopped"
      <3>1. pc[c] \in {"entry", "guest"}
        BY <1>4 DEF Canceled, InGuest
      <3>2. QED BY <1>4, <2>1, <2>3, <3>1, QuietStep DEF Canceled
    <2>4. QED BY <2>2, <2>3
  <1>5. CASE WakeNext(c)
    <2>1. PICK to \in {"entry", "waking"} : Go(c, to)
      BY <1>5 DEF WakeNext
    <2>2. \A o \in CPUs : token[o] => token'[o]
      BY <1>5 DEF WakeNext, TypeOK
    <2>3. QED BY <1>5, <2>1, <2>2, QuietStep DEF WakeNext
  <1>6. CASE WaitWoken(c)
    BY <1>6, QuietStep DEF WaitWoken, TypeOK
  <1>7. CASE WaitTimesOut(c)
    <2>1. PICK to \in {"deadline", "limit"} : Go(c, to)
      BY <1>7 DEF WaitTimesOut
    <2>2. QED BY <1>7, <2>1, QuietStep DEF WaitTimesOut
  <1>8. CASE ParkStops(c)
    <2>1. quit' /\ pc'[Boot] # "start"
      BY <1>8, Ids DEF ParkStops, Go, TypeOK, WaitOver
    <2>2. QED BY <2>1, AfterQuit
  <1>9. CASE ParkEnds(c)
    <2>1. pc[c] \in {"woken", "deadline", "limit"}
      BY <1>9 DEF ParkEnds, WaitOver
    <2>2. QED BY <1>9, <2>1, QuietStep DEF ParkEnds, TypeOK
  <1>10. CASE HostGranted(c)
    BY <1>10, QuietStep DEF HostGranted
  <1>11. CASE HostRefused(c)
    <2>1. quit' /\ pc'[Boot] # "start"
      BY <1>11, Ids DEF HostRefused, Go, TypeOK
    <2>2. QED BY <2>1, AfterQuit
  <1>12. CASE ExitJoins(c)
    BY <1>12, QuietStep DEF ExitJoins
  <1>13. CASE Finish(c)
    BY <1>13, QuietStep DEF Finish
  <1>14. CASE LoopEnds(c)
    BY <1>14, QuietStep DEF LoopEnds
  <1>15. CASE APDestroyed(c)
    BY <1>15, QuietStep DEF APDestroyed
  <1>16. QED
    BY <1>1, <1>2, <1>3, <1>4, <1>5, <1>6, <1>7, <1>8, <1>9, <1>10, <1>11, <1>12,
       <1>13, <1>14, <1>15

\* What the guest asks for: a park or a Host's call takes the vCPU out of the
\* count, a start puts another in.
LEMMA CountGuest ==
  ASSUME TypeOK, CountInv, NEW c \in CPUs, GuestCalls(c)
  PROVE  CountInv'
  <1> USE CountedPlaces, Places DEF parkVars, haltVars, Parking, WaitOver
  <1>1. pc[c] = "guest"
    BY DEF GuestCalls, GuestFaults, QuickCall, WakeOne, WakeParked, CPUStart, CPUPark, LockHost
  <1>2. pc[Boot] # "start" /\ c \in GuestSet
    BY <1>1, Serving DEF GuestSet
  <1>3. CASE quit'
    <2>1. pc'[Boot] # "start"
      BY <1>1, <1>2, Ids DEF GuestCalls, GuestFaults, QuickCall, WakeOne, WakeParked,
         CPUStart, CPUPark, LockHost, Go, TypeOK
    <2>2. QED BY <1>3, <2>1, AfterQuit
  <1>4. CASE ~quit' /\ ~quit
    <2>1. running > 0 /\ running = Cardinality(GuestSet)
      BY <1>2, <1>4, GuestSetFinite DEF CountInv, RunningCount
    <2>2. \A o \in CPUs : state[o] # "parkedUntilWoken"
      BY <1>4, <2>1 DEF CountInv, UntilWokenIdle
    <2>3. CASE GuestFaults(c)
      BY <1>2, <2>3, QuietStep DEF GuestFaults
    <2>4. CASE QuickCall(c)
      BY <1>2, <2>4, QuietStep DEF QuickCall
    <2>5. CASE \E t \in CPUs : WakeOne(c, t)
      <3>1. PICK t \in CPUs : WakeOne(c, t)
        BY <2>5
      <3>2. \A o \in CPUs : token[o] => token'[o]
        BY <3>1 DEF WakeOne, TypeOK
      <3>3. QED BY <1>2, <3>1, <3>2, QuietStep DEF WakeOne
    <2>6. CASE WakeParked(c)
      BY <1>2, <2>6, QuietStep DEF WakeParked
    <2>7. CASE \E t \in APs : CPUStart(c, t)
      <3>1. PICK t \in APs : CPUStart(c, t)
        BY <2>7
      <3>2. t \in CPUs /\ t # c /\ t \notin started /\ pc[t] = "unstarted"
        BY <1>1, <1>4, <3>1, Ids DEF CPUStart, CountInv, NotStarted
      <3>3. /\ \A o \in CPUs : pc'[o] = IF o = c THEN "entry" ELSE pc[o]
            /\ started' = started \union {t} /\ running' = running + 1
            /\ UNCHANGED <<state, token, limited>>
        BY <3>1 DEF CPUStart, Go, TypeOK
      <3>4. GuestSet' = GuestSet \union {t} /\ t \notin GuestSet
        BY <1>1, <3>2, <3>3 DEF GuestSet, Counted, InGuest
      <3>5. RunningCount'
        BY <2>1, <3>3, <3>4, GuestSetFinite, FS_AddElement DEF RunningCount
      <3>6. UntilWokenIdle' /\ WaitsForWake' /\ NotServing' /\ NotStarted' /\ ParkedState'
        BY <1>1, <1>2, <1>4, <2>2, <3>3, Ids
           DEF UntilWokenIdle, WaitsForWake, NotServing, NotStarted, ParkedState, CountInv
      <3>7. QED BY <3>5, <3>6 DEF CountInv
    <2>8. CASE CPUPark(c)
      <3>1. Go(c, "parked") /\ running' = running - 1 /\ UNCHANGED <<started, token, limited>>
        BY <2>8 DEF CPUPark
      <3>2. RunningCount'
        BY <1>2, <2>1, <3>1, CountMoves DEF RunningCount
      <3>3. \A o \in CPUs : state'[o] = IF o = c THEN IF running' > 0 THEN "parkedLimited"
                                                                 ELSE "parkedUntilWoken"
                                        ELSE state[o]
        BY <2>8 DEF CPUPark, TypeOK
      <3>4. UntilWokenIdle'
        BY <2>1, <2>2, <3>1, <3>3 DEF UntilWokenIdle, TypeOK
      <3>5. \A o \in CPUs : pc'[o] = IF o = c THEN "parked" ELSE pc[o]
        BY <3>1 DEF Go, TypeOK
      <3>6. WaitsForWake' /\ NotServing' /\ NotStarted' /\ ParkedState'
        BY <1>1, <1>2, <1>4, <3>1, <3>3, <3>5, Ids DEF WaitsForWake, NotServing, NotStarted, ParkedState, CountInv
      <3>7. QED BY <3>2, <3>4, <3>6 DEF CountInv
    <2>9. CASE LockHost(c)
      <3>1. Go(c, "hostwait") /\ UNCHANGED <<started, token, limited, state>>
            /\ running' = IF N > 1 THEN running - 1 ELSE running
        BY <2>9 DEF LockHost
      <3>2. RunningCount'
        BY <1>2, <2>1, <3>1, CountMoves, NAssumption DEF RunningCount
      <3>3. UntilWokenIdle'
        BY <2>2, <3>1 DEF UntilWokenIdle
      <3>4. \A o \in CPUs : pc'[o] = IF o = c THEN "hostwait" ELSE pc[o]
        BY <3>1 DEF Go, TypeOK
      <3>5. WaitsForWake' /\ NotServing' /\ NotStarted' /\ ParkedState'
        BY <1>1, <1>2, <1>4, <3>1, <3>4, Ids DEF WaitsForWake, NotServing, NotStarted, ParkedState, CountInv
      <3>6. QED BY <3>2, <3>3, <3>5 DEF CountInv
    <2>10. QED
      BY <2>3, <2>4, <2>5, <2>6, <2>7, <2>8, <2>9 DEF GuestCalls
  <1>5. QED
    <2>1. quit' = quit
      BY DEF GuestCalls, GuestFaults, QuickCall, WakeOne, WakeParked, CPUStart, CPUPark, LockHost
    <2>2. QED BY <1>3, <1>4, <2>1

\* The Host's answers: the vCPU leaves the Host, to be counted by resume, or
\* at once when it is alone and was never counted out.
LEMMA CountHost ==
  ASSUME TypeOK, CountInv, NEW c \in CPUs, HostAnswers(c) \/ HostExits(c)
  PROVE  CountInv'
  <1> USE CountedPlaces, Places DEF parkVars, haltVars, Parking, WaitOver
  <1>1. pc[c] \in {"inhost", "exiting"} /\ pc[Boot] # "start"
    BY Serving DEF HostAnswers, HostReturns, HostFails, ExitCalled, HostExits
  <1>2. PICK to \in {"resuming", "entry", "finish", "exithalt", "exiting"} :
          /\ Go(c, to)
          /\ N = 1 => to \in {"entry", "finish", "exiting"}
          /\ N # 1 => to \in {"resuming", "exithalt", "exiting"}
    BY NAssumption DEF HostAnswers, HostReturns, HostFails, ExitCalled, HostExits, UnlockHost, AfterCall
  <1>3. to \in Counted <=> c \in GuestSet
    <2>1. N = 1 <=> c \in GuestSet
      BY <1>1 DEF GuestSet
    <2>2. CASE N = 1 BY <1>2, <2>1, <2>2
    <2>3. CASE N # 1 BY <1>2, <2>1, <2>3
    <2>4. QED BY <2>2, <2>3
  <1>4. UNCHANGED <<state, started, running, limited, token, quit>>
    BY DEF HostAnswers, HostReturns, HostFails, ExitCalled, HostExits
  <1>5. QED
    BY <1>1, <1>2, <1>3, <1>4, QuietStep

\* resume, and the park's own critical sections.
LEMMA CountPark ==
  ASSUME TypeOK, CountInv, NEW c \in CPUs, ParkLooks(c) \/ ParkGoesOn(c) \/ Resume(c)
  PROVE  CountInv'
  <1> USE CountedPlaces, Places DEF parkVars, haltVars, Parking, WaitOver
  <1>1. pc[c] \in {"parked", "limit", "resuming"} /\ pc[Boot] # "start"
    BY Serving DEF ParkLooks, ParkGoesOn, Resume
  <1>2. quit' = quit
    BY DEF ParkLooks, ParkGoesOn, Resume
  <1>3. PICK to \in {"waiting", "parked", "entry", "finish"} : Go(c, to)
    BY DEF ParkLooks, ParkGoesOn, Resume, AfterCall
  <1>4. \A o \in CPUs : pc'[o] = IF o = c THEN to ELSE pc[o]
    BY <1>3 DEF Go, TypeOK
  <1>5. NotServing' /\ NotStarted'
    <2>1. started' = started
      BY DEF ParkLooks, ParkGoesOn, Resume
    <2>2. QED BY <1>1, <1>2, <1>4, <2>1, Ids DEF NotServing, NotStarted, ParkedState, CountInv
  <1>6. CASE quit
    BY <1>2, <1>5, <1>6, AfterQuit DEF CountInv, NotServing, RunningCount, UntilWokenIdle, WaitsForWake
  <1>7. CASE ~quit /\ ParkLooks(c)
    <2>1. Go(c, "waiting") /\ UNCHANGED <<started, running, state, token>>
          /\ \A o \in CPUs : limited'[o] = IF o = c THEN state[c] = "parkedLimited" ELSE limited[o]
      BY <1>7 DEF ParkLooks, TypeOK
    <2>2. RunningCount'
      BY <1>1, <1>7, <2>1, CountMoves DEF RunningCount, CountInv, GuestSet
    <2>3. UntilWokenIdle'
      BY <1>2, <2>1 DEF UntilWokenIdle, CountInv
    <2>4. WaitsForWake'
      <3>1. pc[c] = "parked"
        BY <1>7 DEF ParkLooks
      <3>2. state[c] = "parkedLimited" \/ state[c] = "parkedUntilWoken"
        BY <1>7, <3>1 DEF ParkedState, CountInv, TypeOK, ParkStates
      <3>3. ASSUME NEW o \in CPUs, pc'[o] = "waiting", ~limited'[o]
            PROVE  state'[o] = "parkedUntilWoken" \/ token'[o]
        <4>1. CASE o = c BY <2>1, <3>2, <3>3, <4>1
        <4>2. CASE o # c BY <1>4, <1>7, <2>1, <3>3, <4>2 DEF WaitsForWake, CountInv
        <4>3. QED BY <4>1, <4>2
      <3>4. QED BY <3>3 DEF WaitsForWake
    <2>5. ParkedState'
      BY <1>2, <1>1, <1>4, <1>7, <2>1 DEF ParkedState, CountInv, ParkLooks
    <2>6. QED BY <1>5, <2>2, <2>3, <2>4, <2>5 DEF CountInv
  <1>8. CASE ~quit /\ ParkGoesOn(c)
    <2>1. Go(c, "parked") /\ UNCHANGED <<started, running, limited, token>> /\ running = 0
          /\ \A o \in CPUs : state'[o] = IF o = c THEN "parkedUntilWoken" ELSE state[o]
      BY <1>8 DEF ParkGoesOn, TypeOK
    <2>2. \A o \in CPUs : pc'[o] = IF o = c THEN "parked" ELSE pc[o]
      BY <2>1 DEF Go, TypeOK
    <2>3. RunningCount'
      BY <1>1, <1>8, <2>1, CountMoves DEF RunningCount, CountInv, GuestSet
    <2>4. UntilWokenIdle'
      BY <1>2, <2>1 DEF UntilWokenIdle, CountInv
    <2>5. WaitsForWake'
      BY <1>2, <2>1, <2>2 DEF WaitsForWake, CountInv
    <2>6. ParkedState'
      BY <1>2, <2>1, <2>2 DEF ParkedState, CountInv, TypeOK
    <2>7. QED BY <1>5, <2>3, <2>4, <2>5, <2>6 DEF CountInv
  <1>9. CASE ~quit /\ Resume(c)
    <2> DEFINE woken == IF running' = 1 THEN UntilWoken(c) ELSE {}
    <2>1. running' = running + 1 /\ UNCHANGED <<started, limited>> /\ to \in {"entry", "finish"}
          /\ pc[c] = "resuming"
      BY <1>3, <1>9 DEF Resume, AfterCall, Go, TypeOK
    <2>2. \A o \in CPUs :
            /\ state'[o] = IF o = c THEN "notParked" ELSE IF o \in woken THEN "parkedLimited"
                          ELSE state[o]
            /\ token'[o] = (token[o] \/ o \in woken)
      BY <1>9 DEF Resume
    <2>3. c \notin GuestSet /\ running >= 0
      BY <1>9, <2>1, GuestSetFinite DEF GuestSet, CountInv, RunningCount
    <2>4. RunningCount'
      BY <1>2, <1>3, <1>9, <2>1, <2>3, CountMoves DEF RunningCount, CountInv
    <2>5. \A o \in CPUs : state'[o] # "parkedUntilWoken"
      <3>1. CASE running' = 1
        BY <2>2, <3>1 DEF UntilWoken
      <3>2. CASE running' # 1
        <4>1. running > 0
          BY <2>1, <2>3, <3>2 DEF TypeOK
        <4>2. \A o \in CPUs : state[o] # "parkedUntilWoken"
          BY <1>9, <4>1 DEF CountInv, UntilWokenIdle
        <4>3. QED BY <2>2, <4>2
      <3>3. QED BY <3>1, <3>2
    <2>6. UntilWokenIdle'
      BY <2>5 DEF UntilWokenIdle
    <2>7. WaitsForWake'
      <3>1. SUFFICES ASSUME NEW o \in CPUs, pc'[o] = "waiting", ~limited'[o]
                     PROVE  token'[o]
        BY DEF WaitsForWake
      <3>2. o # c /\ pc[o] = "waiting" /\ ~limited[o]
        BY <1>4, <2>1, <3>1
      <3>3. state[o] = "parkedUntilWoken" \/ token[o]
        BY <1>9, <3>2 DEF CountInv, WaitsForWake
      <3>4. CASE token[o]
        BY <2>2, <3>4
      <3>5. CASE state[o] = "parkedUntilWoken"
        <4>1. running' = 1
          BY <1>9, <2>1, <3>5 DEF CountInv, UntilWokenIdle
        <4>2. o \in woken
          BY <3>2, <3>5, <4>1 DEF UntilWoken
        <4>3. QED BY <2>2, <4>2
      <3>6. QED BY <3>3, <3>4, <3>5
    <2>8. ParkedState'
      BY <1>2, <1>4, <2>1, <2>2 DEF ParkedState, CountInv
    <2>9. QED BY <1>5, <2>4, <2>6, <2>7, <2>8 DEF CountInv
  <1>10. QED
    BY <1>6, <1>7, <1>8, <1>9

\* Only halt touches quit and its loop's index.
LEMMA HaltVarsStep ==
  ASSUME [Next]_vars
  PROVE  \/ \E c \in CPUs : Halt(c)
         \/ WatchdogHalts
         \/ UNCHANGED haltVars
  <1>1. ASSUME NEW c \in CPUs, GuestCalls(c) PROVE UNCHANGED haltVars
    BY <1>1 DEF GuestCalls, GuestFaults, QuickCall, WakeOne, WakeParked, CPUStart, CPUPark, LockHost
  <1>2. ASSUME NEW c \in CPUs, HostAnswers(c) PROVE UNCHANGED haltVars
    BY <1>2 DEF HostAnswers, HostReturns, HostFails, ExitCalled
  <1>3. ASSUME NEW c \in CPUs, Monitor(c), ~Halt(c) PROVE UNCHANGED haltVars
    BY <1>3 DEF Monitor, APStarts, APQuits, EnterGuest, Canceled, WakeNext, ParkLooks, WaitWoken,
       WaitTimesOut, ParkStops, ParkGoesOn, ParkEnds, Resume, HostGranted, HostRefused, ExitJoins,
       HostExits, Finish, LoopEnds, APDestroyed
  <1>4. CASE RunMain
    BY <1>4 DEF RunMain, Serve, SeccompFails, RunReturns, Teardown
  <1>5. CASE WatchdogKills \/ WatchdogStops
    BY <1>5 DEF WatchdogKills, WatchdogStops
  <1>6. CASE UNCHANGED vars
    BY <1>6 DEF vars
  <1>7. QED
    BY <1>1, <1>2, <1>3, <1>4, <1>5, <1>6 DEF Next, WatchdogSteps

LEMMA HaltClosedStep == HaltClosed /\ [Next]_vars => HaltClosed'
  <1> SUFFICES ASSUME HaltClosed, [Next]_vars PROVE HaltClosed'
    OBVIOUS
  <1>1. ASSUME NEW t, HaltCloses(t) \/ HaltKicks(t) \/ HaltReturns(t) PROVE HaltClosed'
    BY <1>1 DEF HaltClosed, HaltCloses, HaltKicks, HaltReturns
  <1>2. CASE UNCHANGED haltVars
    BY <1>2 DEF haltVars, HaltClosed
  <1>3. QED
    BY <1>1, <1>2, HaltVarsStep DEF Halt, WatchdogHalts

\* halt's loop moves no vCPU, and it closes quit first.
LEMMA CountHalt ==
  ASSUME TypeOK, CountInv, HaltClosed, NEW c \in CPUs, Halt(c)
  PROVE  CountInv'
  <1>1. pc[c] \in {"finishhalt", "exithalt", "destroyhalt"} /\ pc[Boot] # "start"
    BY Serving DEF Halt, HaltSteps
  <1>2. PICK to \in {"stopped", "exitjoin", "teardown", pc[c]} : Go(c, to) /\ quit'
    <2>1. CASE HaltReturns(c) /\ Go(c, AfterHalt(pc[c]))
      BY <1>1, <2>1 DEF HaltReturns, AfterHalt
    <2>2. CASE UNCHANGED pc /\ quit'
      BY <1>1, <2>2 DEF Go, TypeOK
    <2>3. HaltKicks(c) => quit'
      BY Ids DEF HaltKicks, HaltClosed
    <2>4. QED
      BY <2>1, <2>2, <2>3 DEF Halt, HaltCloses
  <1>3. pc'[Boot] # "start"
    BY <1>1, <1>2, Ids DEF Go, TypeOK
  <1>4. QED BY <1>2, <1>3, AfterQuit

LEMMA CountWatchdog ==
  ASSUME TypeOK, CountInv, HaltClosed, WatchdogSteps
  PROVE  CountInv'
  <1>1. pc[Boot] # "start"
    <2>1. CASE dog # "off"
      BY <2>1 DEF CountInv, NotServing
    <2>2. QED
      BY <2>1 DEF WatchdogSteps, WatchdogKills, WatchdogHalts, WatchdogStops
  <1>2. UNCHANGED <<pc, started, running, state, limited>>
    BY DEF WatchdogSteps, WatchdogKills, WatchdogHalts, WatchdogStops, parkVars
  <1>3. CASE WatchdogHalts
    <2>1. Dog # None
      BY NAssumption DEF Dog, None
    <2>2. quit'
      BY <1>3, <2>1 DEF WatchdogHalts, HaltCloses, HaltKicks, HaltReturns, HaltClosed
    <2>3. QED BY <1>1, <1>2, <2>2, AfterQuit
  <1>4. CASE WatchdogKills \/ WatchdogStops
    <2>1. UNCHANGED <<token, quit>>
      BY <1>4 DEF WatchdogKills, WatchdogStops, parkVars, haltVars
    <2>2. GuestSet' = GuestSet
      BY <1>2 DEF GuestSet, Counted
    <2>3. QED
      BY <1>1, <1>2, <2>1, <2>2 DEF CountInv, NotServing, NotStarted, ParkedState, RunningCount,
         UntilWokenIdle, WaitsForWake
  <1>5. QED BY <1>3, <1>4 DEF WatchdogSteps

LEMMA CountRun ==
  ASSUME TypeOK, CountInv, RunMain
  PROVE  CountInv'
  <1> USE CountedPlaces, Places, Ids DEF parkVars, haltVars, Parking, WaitOver
  <1>1. CASE Serve
    <2>1. /\ pc[Boot] = "start" /\ Go(Boot, "entry") /\ running' = 1
          /\ UNCHANGED <<state, token, limited, quit, started>>
      BY <1>1 DEF Serve
    <2>2. /\ ~quit /\ started = {} /\ \A c \in APs : pc[c] = "unstarted"
          /\ \A c \in CPUs : state[c] = "notParked"
      BY <2>1 DEF CountInv, NotServing
    <2>3. \A c \in CPUs : pc'[c] = IF c = Boot THEN "entry" ELSE "unstarted"
      BY <2>1, <2>2 DEF Go, TypeOK, APs
    <2>4. GuestSet = {} /\ Boot \notin GuestSet
      BY <2>1, <2>2 DEF GuestSet, APs
    <2>5. RunningCount'
      BY <2>1, <2>4, CountMoves, GuestSetFinite DEF RunningCount
    <2>6. QED
      BY <2>1, <2>2, <2>3, <2>5 DEF CountInv, NotServing, NotStarted, ParkedState, UntilWokenIdle,
         WaitsForWake, APs
  <1>2. CASE SeccompFails
    <2>1. /\ pc[Boot] = "start" /\ Go(Boot, "destroyhalt")
          /\ UNCHANGED <<state, token, limited, quit, started, running>>
      BY <1>2 DEF SeccompFails
    <2>2. \A c \in CPUs : pc'[c] = IF c = Boot THEN "destroyhalt" ELSE pc[c]
      BY <2>1 DEF Go, TypeOK
    <2>3. Boot \notin GuestSet
      BY <2>1 DEF GuestSet
    <2>4. RunningCount'
      BY <2>1, <2>3, CountMoves DEF CountInv, RunningCount
    <2>5. QED
      BY <2>1, <2>2, <2>4 DEF CountInv, NotServing, NotStarted, ParkedState, UntilWokenIdle,
         WaitsForWake, APs
  <1>3. CASE RunReturns
    BY <1>3, QuietStep DEF RunReturns, GuestSet
  <1>4. CASE Teardown
    BY <1>4, QuietStep DEF Teardown, GuestSet
  <1>5. QED BY <1>1, <1>2, <1>3, <1>4 DEF RunMain

LEMMA CountInit == Init => CountInv
  <1> SUFFICES ASSUME Init PROVE CountInv
    OBVIOUS
  <1>1. GuestSet = {}
    BY CountedPlaces DEF Init, GuestSet
  <1>2. RunningCount
    BY <1>1, GuestSetFinite DEF Init, RunningCount
  <1>3. QED
    BY <1>2 DEF Init, CountInv, NotServing, NotStarted, ParkedState, UntilWokenIdle, WaitsForWake,
       APs, Parking, WaitOver

LEMMA CountStep == TypeOK /\ HaltClosed /\ CountInv /\ [Next]_vars => CountInv'
  <1> SUFFICES ASSUME TypeOK, HaltClosed, CountInv, [Next]_vars PROVE CountInv'
    OBVIOUS
  <1>1. ASSUME NEW c \in CPUs, Monitor(c) PROVE CountInv'
    BY <1>1, QuietMonitor, CountPark, CountHost, CountHalt DEF Monitor
  <1>2. CASE UNCHANGED vars
    <2>1. GuestSet' = GuestSet
      BY <1>2 DEF GuestSet, Counted, vars
    <2>2. QED
      BY <1>2, <2>1 DEF vars, CountInv, NotServing, NotStarted, ParkedState, RunningCount,
         UntilWokenIdle, WaitsForWake, parkVars, haltVars, dogVars
  <1>3. QED
    BY <1>1, <1>2, CountGuest, CountHost, CountRun, CountWatchdog DEF Next

\* smp.running is the number of vCPUs in the guest until the run ends, for
\* any number of vCPUs (smp.go:44).
THEOREM RunningCounted == Spec => []RunningCount
  <1>1. Init => HaltClosed
    BY DEF Init, HaltClosed
  <1>2. CountInv => RunningCount
    BY DEF CountInv
  <1>3. QED
    BY <1>1, <1>2, TypeInit, TypeStep, HaltClosedStep, CountInit, CountStep, PTL DEF Spec

\* The documented invariant of smp.go:29: while a vCPU runs the guest every
\* park ends within the limit, or has been woken.
THEOREM ParksBounded == Spec => []ParkBounded
  <1>1. Init => HaltClosed
    BY DEF Init, HaltClosed
  <1>2. TypeOK /\ CountInv => ParkBounded
    <2> SUFFICES ASSUME TypeOK, CountInv, ~quit, GuestSet # {},
                        NEW c \in CPUs, pc[c] = "waiting", ~limited[c]
                 PROVE  token[c]
      BY DEF ParkBounded
    <2>1. running > 0
      BY GuestSetFinite DEF CountInv, RunningCount
    <2>2. QED
      BY <2>1 DEF CountInv, WaitsForWake, UntilWokenIdle
  <1>3. QED
    BY <1>1, <1>2, TypeInit, TypeStep, HaltClosedStep, CountInit, CountStep, PTL DEF Spec

-----------------------------------------------------------------------------
\* The Host.

LEMMA HoldsHostPlaces == HoldsHost = {"inhost", "exithalt", "exitjoin", "exiting"}
  BY DEF HoldsHost, ExitSteps

\* A step of one vCPU that neither takes nor gives back the Host.
LEMMA HostQuiet ==
  ASSUME TypeOK, HostExclusive, NEW c \in CPUs, NEW to, Go(c, to),
         to \in HoldsHost <=> pc[c] \in HoldsHost, host' = host
  PROVE  HostExclusive'
  <1>1. \A o \in CPUs : pc'[o] = IF o = c THEN to ELSE pc[o]
    BY DEF Go, TypeOK
  <1>2. HoldsHost' = HoldsHost
    BY DEF HoldsHost, ExitSteps
  <1>3. QED
    BY <1>1, <1>2 DEF HostExclusive

LEMMA HostExclusiveStep == TypeOK /\ HostExclusive /\ [Next]_vars => HostExclusive'
  <1> SUFFICES ASSUME TypeOK, HostExclusive, [Next]_vars PROVE HostExclusive'
    OBVIOUS
  <1> USE HoldsHostPlaces
  <1>1. ASSUME NEW c \in CPUs, GuestCalls(c) PROVE HostExclusive'
    <2>1. PICK to \in {"finish", "entry", "waking", "parked", "hostwait"} : Go(c, to)
      BY <1>1 DEF GuestCalls, GuestFaults, QuickCall, WakeOne, WakeParked, CPUStart, CPUPark, LockHost
    <2>2. pc[c] = "guest" /\ host' = host
      BY <1>1 DEF GuestCalls, GuestFaults, QuickCall, WakeOne, WakeParked, CPUStart, CPUPark, LockHost
    <2>3. QED BY <2>1, <2>2, HostQuiet
  <1>2. ASSUME NEW c \in CPUs, HostReturns(c) \/ HostFails(c) \/ HostExits(c) PROVE HostExclusive'
    <2>1. PICK to \in {"resuming", "entry", "finish"} : Go(c, to)
      BY <1>2 DEF HostReturns, HostFails, HostExits, UnlockHost, AfterCall
    <2>2. host' = None /\ host = c
      BY <1>2 DEF HostReturns, HostFails, HostExits, UnlockHost, HostExclusive
    <2>3. \A o \in CPUs : pc'[o] = IF o = c THEN to ELSE pc[o]
      BY <2>1 DEF Go, TypeOK
    <2>4. QED BY <2>2, <2>3, Ids DEF HostExclusive, HoldsHost, ExitSteps
  <1>3. ASSUME NEW c \in CPUs, HostGranted(c) PROVE HostExclusive'
    <2>1. \A o \in CPUs : pc'[o] = IF o = c THEN "inhost" ELSE pc[o]
      BY <1>3 DEF HostGranted, Go, TypeOK
    <2>2. QED BY <1>3, <2>1, Ids DEF HostGranted, HostExclusive, HoldsHost, ExitSteps
  <1>4. ASSUME NEW c \in CPUs, ExitCalled(c) PROVE HostExclusive'
    BY <1>4, HostQuiet DEF ExitCalled
  <1>5. ASSUME NEW c \in CPUs, ExitJoins(c) PROVE HostExclusive'
    BY <1>5, HostQuiet DEF ExitJoins
  <1>6. ASSUME NEW c \in CPUs, Halt(c) PROVE HostExclusive'
    <2>1. host' = host /\ pc[c] \in {"finishhalt", "exithalt", "destroyhalt"}
      BY <1>6 DEF Halt, HaltSteps
    <2>2. CASE UNCHANGED pc
      BY <2>1, <2>2 DEF HostExclusive, HoldsHost, ExitSteps
    <2>3. CASE Go(c, AfterHalt(pc[c]))
      BY <2>1, <2>3, HostQuiet DEF AfterHalt
    <2>4. QED BY <1>6, <2>2, <2>3 DEF Halt
  <1>7. ASSUME NEW c \in CPUs,
               \/ APStarts(c) \/ APQuits(c) \/ EnterGuest(c) \/ Canceled(c) \/ WakeNext(c)
               \/ ParkLooks(c) \/ WaitWoken(c) \/ WaitTimesOut(c) \/ ParkStops(c)
               \/ ParkGoesOn(c) \/ ParkEnds(c) \/ Resume(c) \/ HostRefused(c) \/ Finish(c)
               \/ LoopEnds(c) \/ APDestroyed(c)
        PROVE HostExclusive'
    <2>1. PICK to \in Locations \ HoldsHost : Go(c, to)
      BY <1>7, Places DEF APStarts, APQuits, EnterGuest, Canceled, WakeNext, ParkLooks, WaitWoken,
         WaitTimesOut, ParkStops, ParkGoesOn, ParkEnds, Resume, HostRefused, Finish, LoopEnds,
         APDestroyed, AfterCall
    <2>2. host' = host /\ pc[c] \notin HoldsHost
      BY <1>7 DEF APStarts, APQuits, EnterGuest, Canceled, WakeNext, ParkLooks, WaitWoken,
         WaitTimesOut, ParkStops, ParkGoesOn, ParkEnds, Resume, HostRefused, Finish, LoopEnds,
         APDestroyed, InGuest, WaitOver
    <2>3. QED BY <2>1, <2>2, HostQuiet
  <1>8. CASE RunMain
    BY <1>8, HostQuiet, Ids DEF RunMain, Serve, SeccompFails, RunReturns, Teardown
  <1>9. CASE WatchdogSteps \/ UNCHANGED vars
    <2>1. UNCHANGED <<pc, host>>
      BY <1>9 DEF WatchdogSteps, WatchdogKills, WatchdogHalts, WatchdogStops, vars
    <2>2. QED BY <2>1 DEF HostExclusive, HoldsHost, ExitSteps
  <1>10. QED
    BY <1>1, <1>2, <1>3, <1>4, <1>5, <1>6, <1>7, <1>8, <1>9 DEF Next, Monitor, HostAnswers

\* Calls to the Host are made one at a time, an exit's wait for the other
\* loops and its report included (vmm.go:156, 581).
THEOREM HostCallsExclude == Spec => []HostExclusive
  <1>1. Init => HostExclusive
    BY Ids, HoldsHostPlaces DEF Init, HostExclusive
  <1>2. QED
    BY <1>1, TypeInit, TypeStep, HostExclusiveStep, PTL DEF Spec

-----------------------------------------------------------------------------
\* How the run ends.

\* A step of one vCPU that keeps the ends on their way.
LEMMA EndQuiet ==
  ASSUME TypeOK, EndInv, NEW c \in CPUs, NEW to, Go(c, to),
         quit' = quit, dog' \in {dog, "off", "watch"}, ret' = ret,
         Ending(c) => Ending(c)' \/ end' # NoEnd, end # NoEnd => end' # NoEnd,
         \A o \in CPUs \ {c} : result'[o] = result[o],
         to = "finish" => result'[c] # NoEnd,
         to = "finishhalt" => end' # NoEnd,
         to \in {"stopped", "loopdone", "teardown", "gone"} => quit,
         to = "destroyhalt" => ret # NoEnd,
         c = Boot /\ pc[c] \in {"destroyhalt", "teardown", "gone"}
           => to \in {"destroyhalt", "teardown", "gone"}
  PROVE  EndInv'
  <1>1. \A o \in CPUs : pc'[o] = IF o = c THEN to ELSE pc[o]
    BY DEF Go, TypeOK
  <1>2. \A o \in CPUs \ {c} : Ending(o) => Ending(o)'
    BY <1>1 DEF Ending, ExitSteps
  <1>3. (quit' /\ ret' = NoEnd) => (end' # NoEnd \/ \E o \in CPUs : Ending(o)')
    <2>1. SUFFICES ASSUME quit', ret' = NoEnd, end' = NoEnd
                   PROVE  \E o \in CPUs : Ending(o)'
      OBVIOUS
    <2>2. PICK o \in CPUs : Ending(o)
      BY <2>1 DEF EndInv
    <2>3. CASE o = c BY <2>1, <2>2, <2>3
    <2>4. CASE o # c BY <1>2, <2>2, <2>4
    <2>5. QED BY <2>3, <2>4
  <1>4. dog' # "halt" /\ EndRecorded'
    BY DEF EndInv, EndRecorded
  <1>5. \A o \in CPUs :
          /\ pc'[o] = "finish" => result'[o] # NoEnd
          /\ pc'[o] = "finishhalt" => end' # NoEnd
          /\ pc'[o] \in {"stopped", "loopdone", "teardown", "gone"} => quit'
          /\ pc'[o] = "destroyhalt" => ret' # NoEnd
    BY <1>1 DEF EndInv
  <1>6. ret' # NoEnd => pc'[Boot] \in {"destroyhalt", "teardown", "gone"}
    BY <1>1, Ids DEF EndInv
  <1>7. ((quit /\ ret = NoEnd) => (end # NoEnd \/ \E o \in CPUs : Ending(o)))'
    BY <1>3
  <1>8. QED
    BY <1>4, <1>5, <1>6, <1>7 DEF EndInv

LEMMA EndStep == TypeOK /\ HaltClosed /\ EndInv /\ [Next]_vars => killed' \/ EndInv'
  <1> SUFFICES ASSUME TypeOK, HaltClosed, EndInv, [Next]_vars PROVE killed' \/ EndInv'
    OBVIOUS
  <1> USE DEF endVars, haltVars, dogVars
  <1>1. ASSUME NEW c \in CPUs, GuestCalls(c) PROVE EndInv'
    <2>1. PICK to \in {"finish", "entry", "waking", "parked", "hostwait"} :
            Go(c, to) /\ (to = "finish" => result'[c] # NoEnd)
      BY <1>1 DEF GuestCalls, GuestFaults, QuickCall, WakeOne, WakeParked, CPUStart, CPUPark,
         LockHost, TypeOK, NoEnd
    <2>2. pc[c] = "guest" /\ UNCHANGED <<quit, dog, end, ret>>
          /\ \A o \in CPUs \ {c} : result'[o] = result[o]
      BY <1>1 DEF GuestCalls, GuestFaults, QuickCall, WakeOne, WakeParked, CPUStart, CPUPark,
         LockHost, TypeOK
    <2>3. ~Ending(c)
      BY <2>2 DEF Ending, ExitSteps
    <2>4. QED BY <2>1, <2>2, <2>3, EndQuiet
  <1>2. ASSUME NEW c \in CPUs, HostReturns(c) \/ HostFails(c) \/ HostExits(c) PROVE EndInv'
    <2>1. PICK r \in Ends \union {NoEnd} :
            UnlockHost(c, r) /\ (pc[c] = "exiting" => r # NoEnd)
      BY <1>2 DEF HostReturns, HostFails, HostExits, Ends, NoEnd
    <2>2. pc[c] \in {"inhost", "exiting"} /\ UNCHANGED <<quit, dog, end, ret>>
      BY <1>2 DEF HostReturns, HostFails, HostExits
    <2>3. PICK to \in {"resuming", "entry", "finish"} :
            /\ Go(c, to)
            /\ to = "finish" => r # NoEnd
            /\ r # NoEnd => to \in {"resuming", "finish"}
      BY <2>1 DEF UnlockHost, AfterCall
    <2>4. result'[c] = r /\ \A o \in CPUs \ {c} : result'[o] = result[o]
      BY <2>1 DEF UnlockHost, TypeOK
    <2>5. pc'[c] = to
      BY <2>3 DEF Go, TypeOK
    <2>6. Ending(c) => Ending(c)'
      BY <2>1, <2>2, <2>3, <2>4, <2>5 DEF Ending, ExitSteps
    <2>7. QED BY <2>2, <2>3, <2>4, <2>6, EndQuiet
  <1>3. ASSUME NEW c \in CPUs, ExitCalled(c) \/ ExitJoins(c) PROVE EndInv'
    <2>1. PICK to \in {"exithalt", "exiting"} : Go(c, to)
      BY <1>3 DEF ExitCalled, ExitJoins
    <2>2. pc[c] \in {"inhost", "exitjoin"} /\ UNCHANGED <<quit, dog, end, ret, result>>
      BY <1>3 DEF ExitCalled, ExitJoins
    <2>3. Ending(c)'
      BY <2>1 DEF Go, TypeOK, Ending, ExitSteps
    <2>4. QED BY <2>1, <2>2, <2>3, EndQuiet
  <1>4. ASSUME NEW c \in CPUs, Resume(c) PROVE EndInv'
    <2>1. Go(c, AfterCall(result[c])) /\ pc[c] = "resuming" /\ UNCHANGED <<quit, dog, end, ret, result>>
      BY <1>4 DEF Resume
    <2>2. Ending(c) => Ending(c)'
      BY <2>1 DEF Ending, ExitSteps, Go, TypeOK, AfterCall
    <2>3. AfterCall(result[c]) \in {"entry", "finish"}
          /\ (AfterCall(result[c]) = "finish" => result[c] # NoEnd)
      BY DEF AfterCall
    <2>4. QED BY <2>1, <2>2, <2>3, EndQuiet
  <1>5. ASSUME NEW c \in CPUs, Finish(c) PROVE EndInv'
    <2>1. Go(c, "finishhalt") /\ pc[c] = "finish" /\ UNCHANGED <<quit, dog, ret>> /\ end' # NoEnd
      BY <1>5 DEF Finish, EndInv
    <2>2. \A o \in CPUs \ {c} : result'[o] = result[o]
      BY <1>5 DEF Finish, TypeOK
    <2>3. QED BY <2>1, <2>2, EndQuiet
  <1>6. ASSUME NEW c \in CPUs, Halt(c) PROVE EndInv'
    <2>1. UNCHANGED <<dog, end, ret, result>> /\ pc[c] \in {"finishhalt", "exithalt", "destroyhalt"}
      BY <1>6 DEF Halt, HaltSteps
    <2>2. CASE HaltCloses(c) /\ UNCHANGED pc
      <3>1. ret' = NoEnd => end' # NoEnd \/ Ending(c)'
        BY <2>1, <2>2 DEF EndInv, Ending, ExitSteps
      <3>2. quit'
        BY <2>2 DEF HaltCloses
      <3>3. QED BY <2>1, <2>2, <3>1, <3>2 DEF EndInv, EndRecorded, Ending
    <2>3. CASE HaltKicks(c) /\ UNCHANGED pc
      BY <2>1, <2>3 DEF HaltKicks, EndInv, EndRecorded, Ending
    <2>4. CASE HaltReturns(c) /\ Go(c, AfterHalt(pc[c]))
      <3>1. AfterHalt(pc[c]) \in {"stopped", "exitjoin", "teardown"} /\ quit /\ quit' = quit
            /\ (pc[c] = "exithalt" <=> AfterHalt(pc[c]) = "exitjoin")
            /\ (pc[c] = "destroyhalt" <=> AfterHalt(pc[c]) = "teardown")
        BY <2>1, <2>4 DEF AfterHalt, HaltReturns
      <3>2. pc'[c] = AfterHalt(pc[c])
        BY <2>4 DEF Go, TypeOK
      <3>3. Ending(c) => Ending(c)'
        BY <2>1, <3>1, <3>2 DEF Ending, ExitSteps
      <3>4. QED BY <2>1, <2>4, <3>1, <3>3, EndQuiet
    <2>5. QED BY <1>6, <2>2, <2>3, <2>4 DEF Halt
  <1>7. ASSUME NEW c \in CPUs, APStarts(c) \/ Canceled(c) PROVE EndInv'
    <2>1. PICK to \in {"entry", "finish", "stopped"} :
            Go(c, to) /\ (to = "finish" => result'[c] # NoEnd) /\ (to = "stopped" => quit)
      BY <1>7 DEF APStarts, Canceled, AfterCall, TypeOK, NoEnd
    <2>2. pc[c] \in {"unstarted", "entry", "guest"} /\ UNCHANGED <<quit, dog, end, ret>>
          /\ \A o \in CPUs \ {c} : result'[o] = result[o]
      BY <1>7 DEF APStarts, Canceled, InGuest, TypeOK
    <2>3. ~Ending(c)
      BY <2>2 DEF Ending, ExitSteps
    <2>4. QED BY <2>1, <2>2, <2>3, EndQuiet
  <1>8. ASSUME NEW c \in CPUs,
               \/ APQuits(c) \/ EnterGuest(c) \/ WakeNext(c)
               \/ ParkLooks(c) \/ WaitWoken(c) \/ WaitTimesOut(c) \/ ParkStops(c)
               \/ ParkGoesOn(c) \/ ParkEnds(c) \/ HostGranted(c) \/ HostRefused(c)
               \/ LoopEnds(c) \/ APDestroyed(c)
        PROVE EndInv'
    <2>1. PICK to \in {"stopped", "guest", "entry", "waking", "waiting", "woken", "deadline", "limit",
                       "parked", "resuming", "inhost", "loopdone", "gone"} :
            Go(c, to) /\ (to \in {"stopped", "loopdone", "teardown", "gone"} => quit)
      BY <1>8 DEF APQuits, EnterGuest, WakeNext, ParkLooks, WaitWoken,
         WaitTimesOut, ParkStops, ParkGoesOn, ParkEnds, HostGranted, HostRefused, LoopEnds,
         APDestroyed, EndInv
    <2>2. UNCHANGED <<quit, dog, end, ret, result>>
          /\ pc[c] \notin {"finish", "resuming", "inhost"} \union ExitSteps
          /\ (c = Boot => pc[c] \notin {"destroyhalt", "teardown", "gone"})
      BY <1>8 DEF APQuits, EnterGuest, WakeNext, ParkLooks, WaitWoken,
         WaitTimesOut, ParkStops, ParkGoesOn, ParkEnds, HostGranted, HostRefused, LoopEnds,
         APDestroyed, WaitOver, ExitSteps
    <2>3. ~Ending(c)
      BY <2>2 DEF Ending
    <2>4. QED BY <2>1, <2>2, <2>3, EndQuiet
  <1>9. CASE RunMain
    <2>1. CASE Serve
      <3>1. Go(Boot, "entry") /\ pc[Boot] = "start" /\ UNCHANGED <<quit, end, ret, result>>
            /\ dog' \in {"off", "watch"}
        BY <2>1 DEF Serve
      <3>2. ~Ending(Boot)
        BY <3>1 DEF Ending, ExitSteps
      <3>3. QED BY <3>1, <3>2, EndQuiet, Ids
    <2>2. CASE SeccompFails
      <3>1. Go(Boot, "destroyhalt") /\ ret' = "seccomp" /\ pc[Boot] = "start"
            /\ UNCHANGED <<quit, dog, end, result>>
        BY <2>2 DEF SeccompFails
      <3>2. \A o \in CPUs : pc'[o] = IF o = Boot THEN "destroyhalt" ELSE pc[o]
        BY <3>1 DEF Go, TypeOK
      <3>3. QED BY <3>1, <3>2, Ids DEF EndInv, EndRecorded, NoEnd
    <2>3. CASE RunReturns
      <3>1. Go(Boot, "destroyhalt") /\ pc[Boot] = "loopdone" /\ UNCHANGED <<quit, dog, end, result>>
            /\ \A c \in APs : pc[c] \in LoopOver
        BY <2>3 DEF RunReturns
      <3>2. \A c \in CPUs : ~Ending(c)
        BY <3>1 DEF Ending, ExitSteps, LoopOver, APs
      <3>3. end # NoEnd
        BY <3>1, <3>2, Ids DEF EndInv
      <3>4. ret' = end
        BY <2>3, <3>3 DEF RunReturns
      <3>5. \A o \in CPUs : pc'[o] = IF o = Boot THEN "destroyhalt" ELSE pc[o]
        BY <3>1 DEF Go, TypeOK
      <3>6. end # "zero"
        BY DEF TypeOK, Ends, NoEnd
      <3>7. QED BY <3>1, <3>3, <3>4, <3>5, <3>6, Ids DEF EndInv, EndRecorded
    <2>4. CASE Teardown
      <3>1. Go(Boot, "gone") /\ pc[Boot] = "teardown" /\ UNCHANGED <<quit, dog, end, ret, result>>
        BY <2>4 DEF Teardown
      <3>2. ~Ending(Boot)
        BY <3>1 DEF Ending, ExitSteps
      <3>3. quit
        BY <3>1, Ids DEF EndInv
      <3>4. QED BY <3>1, <3>2, <3>3, EndQuiet, Ids
    <2>5. QED BY <1>9, <2>1, <2>2, <2>3, <2>4 DEF RunMain
  <1>10. CASE WatchdogSteps
    <2>1. CASE WatchdogKills
      BY <2>1 DEF WatchdogKills
    <2>2. CASE WatchdogHalts
      BY <2>2 DEF WatchdogHalts, EndInv
    <2>3. CASE WatchdogStops
      <3>1. dog' = "off" /\ UNCHANGED <<pc, quit, end, ret, result>>
        BY <2>3 DEF WatchdogStops
      <3>2. QED BY <3>1 DEF EndInv, EndRecorded, Ending
    <2>4. QED BY <1>10, <2>1, <2>2, <2>3 DEF WatchdogSteps
  <1>11. CASE UNCHANGED vars
    BY <1>11 DEF vars, EndInv, EndRecorded, Ending
  <1>12. QED
    BY <1>1, <1>2, <1>3, <1>4, <1>5, <1>6, <1>7, <1>8, <1>9, <1>10, <1>11 DEF Next, Monitor, HostAnswers

\* Whatever was halted is halted for good: a kill is not taken back.
LEMMA KilledStep == killed /\ [Next]_vars => killed'
  <1> SUFFICES ASSUME killed, [Next]_vars PROVE killed'
    OBVIOUS
  <1> USE DEF dogVars
  <1>1. ASSUME NEW c \in CPUs, GuestCalls(c) \/ HostAnswers(c) PROVE killed'
    BY <1>1 DEF GuestCalls, GuestFaults, QuickCall, WakeOne, WakeParked, CPUStart, CPUPark,
       LockHost, HostAnswers, HostReturns, HostFails, ExitCalled
  <1>2. ASSUME NEW c \in CPUs, Monitor(c) PROVE killed'
    BY <1>2 DEF Monitor, APStarts, APQuits, EnterGuest, Canceled, WakeNext, ParkLooks, WaitWoken,
       WaitTimesOut, ParkStops, ParkGoesOn, ParkEnds, Resume, HostGranted, HostRefused,
       ExitJoins, HostExits, Finish, Halt, LoopEnds, APDestroyed
  <1>3. CASE RunMain \/ WatchdogSteps
    BY <1>3 DEF RunMain, Serve, SeccompFails, RunReturns, Teardown, WatchdogSteps,
       WatchdogKills, WatchdogHalts, WatchdogStops
  <1>4. CASE UNCHANGED vars
    BY <1>4 DEF vars
  <1>5. QED
    BY <1>1, <1>2, <1>3, <1>4 DEF Next

\* run never returns the zero result, a success nobody reported (vmm.go:343),
\* unless the watchdog has killed the guest: the vCPU that ends the run
\* records it first.
THEOREM EndAlwaysRecorded == Spec => []EndUnlessKilled
  <1>1. Init => EndInv
    BY Ids DEF Init, EndInv, EndRecorded, Ending, ExitSteps, NoEnd
  <1>2. TypeOK /\ HaltClosed /\ (killed \/ EndInv) /\ [Next]_vars => (killed \/ EndInv)'
    BY EndStep, KilledStep
  <1>3. Init => HaltClosed
    BY DEF Init, HaltClosed
  <1>4. killed \/ EndInv => EndUnlessKilled
    BY DEF EndInv, EndUnlessKilled
  <1>5. QED
    BY <1>1, <1>2, <1>3, <1>4, TypeInit, TypeStep, HaltClosedStep, PTL DEF Spec

-----------------------------------------------------------------------------
\* halt's loop reaches every vCPU.

LEMMA HaltInvStep == TypeOK /\ HaltInv /\ [Next]_vars => HaltInv'
  <1> SUFFICES ASSUME TypeOK, HaltInv, [Next]_vars PROVE HaltInv'
    OBVIOUS
  <1>1. /\ pc \in [CPUs -> Locations]
        /\ token \in [CPUs -> BOOLEAN]
        /\ cancel \in [CPUs -> BOOLEAN]
        /\ at \in [CPUs -> CPUs]
        /\ kick \in 0 .. N
    BY DEF TypeOK
  <1>2. HaltClosed /\ HaltClosed'
    BY HaltClosedStep DEF HaltInv
  <1>3. \A o \in CPUs : Kicked(o) => /\ token[o] \/ pc[o] \in WaitOver \union Leaving
                                     /\ cancel[o] \/ pc[o] \in Leaving
    BY DEF HaltInv
  <1> USE <1>1, <1>2, <1>3 DEF Kicked, WaitOver, Leaving, LoopOver, Go, parkVars, haltVars
  <1>4. ASSUME NEW c \in CPUs, GuestCalls(c) PROVE HaltInv'
    <2>1. CASE GuestFaults(c) BY <2>1 DEF GuestFaults, HaltInv
    <2>2. CASE QuickCall(c) BY <2>2 DEF QuickCall, HaltInv
    <2>3. ASSUME NEW t \in CPUs, WakeOne(c, t) PROVE HaltInv' BY <2>3 DEF WakeOne, HaltInv
    <2>4. CASE WakeParked(c) BY <2>4 DEF WakeParked, HaltInv
    <2>5. ASSUME NEW t \in APs, CPUStart(c, t) PROVE HaltInv' BY <2>5 DEF CPUStart, HaltInv
    <2>6. CASE CPUPark(c) BY <2>6 DEF CPUPark, HaltInv
    <2>7. CASE LockHost(c) BY <2>7 DEF LockHost, HaltInv
    <2>8. QED BY <1>4, <2>1, <2>2, <2>3, <2>4, <2>5, <2>6, <2>7 DEF GuestCalls
  <1>5. ASSUME NEW c \in CPUs, HostReturns(c) \/ HostFails(c) \/ HostExits(c) PROVE HaltInv'
    BY <1>5 DEF HostReturns, HostFails, HostExits, UnlockHost, AfterCall, HaltInv
  <1>6. ASSUME NEW c \in CPUs, ExitCalled(c) \/ ExitJoins(c) PROVE HaltInv'
    BY <1>6 DEF ExitCalled, ExitJoins, HaltInv
  <1>7. ASSUME NEW c \in CPUs, APStarts(c) \/ APQuits(c) \/ EnterGuest(c) PROVE HaltInv'
    BY <1>7 DEF APStarts, APQuits, EnterGuest, AfterCall, HaltInv
  <1>8. ASSUME NEW c \in CPUs, Canceled(c) PROVE HaltInv'
    BY <1>8 DEF Canceled, InGuest, HaltInv
  <1>9. ASSUME NEW c \in CPUs, WakeNext(c) PROVE HaltInv'
    BY <1>9 DEF WakeNext, HaltInv
  <1>10. ASSUME NEW c \in CPUs, ParkLooks(c) \/ WaitWoken(c) \/ WaitTimesOut(c) PROVE HaltInv'
    BY <1>10 DEF ParkLooks, WaitWoken, WaitTimesOut, HaltInv
  <1>11. ASSUME NEW c \in CPUs, ParkStops(c) \/ ParkGoesOn(c) \/ ParkEnds(c) PROVE HaltInv'
    BY <1>11 DEF ParkStops, ParkGoesOn, ParkEnds, HaltInv
  <1>12. ASSUME NEW c \in CPUs, Resume(c) PROVE HaltInv'
    BY <1>12 DEF Resume, AfterCall, HaltInv
  <1>13. ASSUME NEW c \in CPUs, HostGranted(c) \/ HostRefused(c) PROVE HaltInv'
    BY <1>13 DEF HostGranted, HostRefused, HaltInv
  <1>14. ASSUME NEW c \in CPUs, Finish(c) \/ LoopEnds(c) \/ APDestroyed(c) PROVE HaltInv'
    BY <1>14 DEF Finish, LoopEnds, APDestroyed, HaltInv
  <1>15. ASSUME NEW t, t # None, HaltCloses(t), UNCHANGED <<pc, token, cancel>> PROVE HaltInv'
    BY <1>15 DEF HaltCloses, HaltInv, CPUs
  <1>16. ASSUME NEW t, t # None, HaltKicks(t), UNCHANGED pc PROVE HaltInv'
    <2>1. kick \in CPUs /\ kick' = kick + 1 /\ UNCHANGED <<quit, halter>> /\ quit /\ halter # None
      BY <1>16, NAssumption DEF HaltKicks, CPUs, HaltClosed
    <2>2. \A o \in CPUs : Kicked(o)' => Kicked(o) \/ o = kick
      BY <2>1 DEF CPUs
    <2>3. \A o \in CPUs : /\ token[o] \/ o = kick => token'[o]
                          /\ cancel[o] \/ (o = kick /\ pc[o] # "gone") => cancel'[o]
      BY <1>16, <2>1 DEF HaltKicks
    <2>4. QED
      BY <1>16, <2>2, <2>3 DEF HaltInv
  <1>17. ASSUME NEW t, HaltReturns(t), UNCHANGED <<token, cancel>>,
                \A o \in CPUs : pc[o] \in WaitOver \union Leaving
                                => pc'[o] = pc[o] \/ (pc[o] \in Leaving /\ pc'[o] \in Leaving)
         PROVE  HaltInv'
    <2>1. \A o \in CPUs : Kicked(o)
      BY <1>17, NAssumption DEF HaltReturns, CPUs
    <2>2. QED
      BY <1>17, <2>1 DEF HaltInv
  <1>18. ASSUME NEW c \in CPUs, Halt(c) PROVE HaltInv'
    <2>1. c # None /\ pc[c] \in {"finishhalt", "exithalt", "destroyhalt"}
      BY <1>18, Ids DEF Halt, HaltSteps
    <2>2. CASE HaltReturns(c) /\ Go(c, AfterHalt(pc[c])) /\ UNCHANGED <<token, cancel>>
      <3>1. pc[c] \in Leaving => AfterHalt(pc[c]) \in {"stopped", "teardown"}
        BY <2>1 DEF AfterHalt
      <3>2. \A o \in CPUs : pc[o] \in WaitOver \union Leaving
                            => pc'[o] = pc[o] \/ (pc[o] \in Leaving /\ pc'[o] \in Leaving)
        BY <2>1, <2>2, <3>1
      <3>3. QED BY <2>2, <3>2, <1>17
    <2>3. QED BY <1>15, <1>16, <1>18, <2>1, <2>2 DEF Halt
  <1>19. CASE RunMain
    BY <1>19, Ids DEF RunMain, Serve, SeccompFails, RunReturns, Teardown, HaltInv
  <1>20. CASE WatchdogSteps
    <2>1. Dog # None
      BY NAssumption DEF Dog, None
    <2>2. UNCHANGED pc
      BY <1>20 DEF WatchdogSteps, WatchdogKills, WatchdogHalts, WatchdogStops
    <2>3. CASE WatchdogHalts
      BY <1>15, <1>16, <1>17, <2>1, <2>2, <2>3 DEF WatchdogHalts
    <2>4. CASE WatchdogKills \/ WatchdogStops
      BY <2>2, <2>4 DEF WatchdogKills, WatchdogStops, HaltInv
    <2>5. QED BY <1>20, <2>3, <2>4 DEF WatchdogSteps
  <1>21. CASE UNCHANGED vars
    BY <1>21 DEF vars, HaltInv
  <1>22. QED
    BY <1>4, <1>5, <1>6, <1>7, <1>8, <1>9, <1>10, <1>11, <1>12, <1>13, <1>14, <1>18, <1>19, <1>20,
       <1>21 DEF Next, Monitor, HostAnswers

\* Once halt's loop is past a vCPU it cannot stay asleep or in the guest: a
\* wait has its wake, a run its exit (vmm.go:304), for any number of vCPUs
\* and whoever halts, the watchdog included.
THEOREM HaltReachesAll == Spec => []HaltReaches
  <1>1. Init => HaltInv
    BY Ids DEF Init, HaltInv, HaltClosed, Kicked
  <1>2. HaltInv => HaltReaches
    BY DEF HaltInv, HaltReaches, Leaving, LoopOver, WaitOver
  <1>3. QED
    BY <1>1, <1>2, TypeInit, TypeStep, HaltInvStep, PTL DEF Spec

-----------------------------------------------------------------------------
\* The end is reached in order: a loop that is over stays over, an exit waits
\* for the other loops, the teardown for halt's loop and the APs.

\* Where a vCPU's loop is over nothing but destroy moves it on; a vCPU that
\* begins to exit finds the other loops over; destroy's teardown comes after
\* its halt, the VM's end after the APs'.
Moves(c) ==
  /\ pc[c] \in LoopOver => pc'[c] \in LoopOver
  /\ pc[c] = "gone" => pc'[c] = "gone"
  /\ pc'[c] = "exiting" => pc[c] = "exiting" \/ \A o \in CPUs \ {c} : pc[o] \in LoopOver
  /\ pc'[c] = "teardown" => pc[c] = "teardown" \/ (quit' /\ halter' = None)
  /\ c = Boot /\ pc'[c] = "gone" => pc[c] = "gone" \/ (pc[c] = "teardown" /\ \A o \in APs : pc[o] = "gone")

LEMMA MovesQuiet ==
  ASSUME TypeOK, NEW c \in CPUs, NEW to, Go(c, to),
         pc[c] \in LoopOver => to \in LoopOver /\ pc[c] # "gone",
         to = "exiting" => \A o \in CPUs \ {c} : pc[o] \in LoopOver,
         to = "teardown" => quit' /\ halter' = None,
         c = Boot /\ to = "gone" => pc[c] = "teardown" /\ \A o \in APs : pc[o] = "gone"
  PROVE  \A o \in CPUs : Moves(o)
  <1>1. \A o \in CPUs : pc'[o] = IF o = c THEN to ELSE pc[o]
    BY DEF Go, TypeOK
  <1>2. QED
    BY <1>1 DEF Moves, LoopOver

LEMMA MovesStep == TypeOK /\ [Next]_vars => \A o \in CPUs : Moves(o)
  <1> SUFFICES ASSUME TypeOK, [Next]_vars PROVE \A o \in CPUs : Moves(o)
    OBVIOUS
  <1> USE DEF LoopOver
  <1>1. ASSUME NEW c \in CPUs, GuestCalls(c) \/ HostReturns(c) \/ HostFails(c) \/ HostExits(c)
        PROVE  \A o \in CPUs : Moves(o)
    <2>1. pc[c] \in {"guest", "inhost", "exiting"}
      BY <1>1 DEF GuestCalls, GuestFaults, QuickCall, WakeOne, WakeParked, CPUStart, CPUPark,
         LockHost, HostReturns, HostFails, HostExits
    <2>2. PICK to \in {"finish", "entry", "waking", "parked", "hostwait", "resuming"} : Go(c, to)
      BY <1>1 DEF GuestCalls, GuestFaults, QuickCall, WakeOne, WakeParked, CPUStart, CPUPark,
         LockHost, HostReturns, HostFails, HostExits, UnlockHost, AfterCall
    <2>3. QED BY <2>1, <2>2, MovesQuiet
  <1>2. ASSUME NEW c \in CPUs, ExitCalled(c) PROVE \A o \in CPUs : Moves(o)
    <2>1. N = 1 => CPUs \ {c} = {}
      BY DEF CPUs
    <2>2. PICK to \in {"exithalt", "exiting"} : Go(c, to) /\ (to = "exiting" => ~(N > 1))
      BY <1>2 DEF ExitCalled
    <2>3. to = "exiting" => CPUs \ {c} = {}
      BY <2>1, <2>2, NAssumption
    <2>4. pc[c] = "inhost"
      BY <1>2 DEF ExitCalled
    <2>5. QED BY <2>2, <2>3, <2>4, MovesQuiet
  <1>3. ASSUME NEW c \in CPUs, ExitJoins(c) PROVE \A o \in CPUs : Moves(o)
    BY <1>3, MovesQuiet DEF ExitJoins
  <1>4. ASSUME NEW c \in CPUs, Halt(c) PROVE \A o \in CPUs : Moves(o)
    <2>1. CASE UNCHANGED pc
      BY <2>1 DEF Moves
    <2>2. CASE HaltReturns(c) /\ Go(c, AfterHalt(pc[c]))
      <3>1. /\ pc[c] \in {"finishhalt", "exithalt", "destroyhalt"}
            /\ AfterHalt(pc[c]) \in {"stopped", "exitjoin", "teardown"}
            /\ pc[c] = "destroyhalt" => AfterHalt(pc[c]) = "teardown"
            /\ quit' /\ halter' = None
        BY <1>4, <2>2 DEF Halt, HaltSteps, AfterHalt, HaltReturns
      <3>2. QED BY <2>2, <3>1, MovesQuiet
    <2>3. QED BY <1>4, <2>1, <2>2 DEF Halt
  <1>5. ASSUME NEW c \in CPUs, LoopEnds(c) \/ APDestroyed(c) PROVE \A o \in CPUs : Moves(o)
    BY <1>5, MovesQuiet DEF LoopEnds, APDestroyed
  <1>6. ASSUME NEW c \in CPUs,
               \/ APStarts(c) \/ APQuits(c) \/ EnterGuest(c) \/ Canceled(c) \/ WakeNext(c)
               \/ ParkLooks(c) \/ WaitWoken(c) \/ WaitTimesOut(c) \/ ParkStops(c)
               \/ ParkGoesOn(c) \/ ParkEnds(c) \/ Resume(c) \/ HostGranted(c) \/ HostRefused(c)
               \/ Finish(c)
        PROVE  \A o \in CPUs : Moves(o)
    <2>1. PICK to \in Locations \ ({"exiting"} \union LoopOver) : Go(c, to)
      BY <1>6, Places DEF APStarts, APQuits, EnterGuest, Canceled, WakeNext, ParkLooks, WaitWoken,
         WaitTimesOut, ParkStops, ParkGoesOn, ParkEnds, Resume, HostGranted, HostRefused, Finish,
         AfterCall
    <2>2. pc[c] \notin LoopOver
      BY <1>6 DEF APStarts, APQuits, EnterGuest, Canceled, WakeNext, ParkLooks, WaitWoken,
         WaitTimesOut, ParkStops, ParkGoesOn, ParkEnds, Resume, HostGranted, HostRefused, Finish,
         InGuest, WaitOver
    <2>3. QED BY <2>1, <2>2, MovesQuiet
  <1>7. CASE RunMain
    BY <1>7, MovesQuiet, Ids DEF RunMain, Serve, SeccompFails, RunReturns, Teardown
  <1>8. CASE WatchdogSteps \/ UNCHANGED vars
    <2>1. UNCHANGED pc
      BY <1>8 DEF WatchdogSteps, WatchdogKills, WatchdogHalts, WatchdogStops, vars
    <2>2. QED BY <2>1 DEF Moves
  <1>9. QED
    BY <1>1, <1>2, <1>3, <1>4, <1>5, <1>6, <1>7, <1>8 DEF Next, Monitor, HostAnswers

\* An exit's report and Host.Exit come after every other loop has ended
\* (smp.go:233), and no other vCPU's begins again beside them.
THEOREM ExitsAlone == Spec => []ExitAlone
  <1>1. Init => ExitAlone
    BY DEF Init, ExitAlone
  <1>2. TypeOK /\ ExitAlone /\ [Next]_vars => ExitAlone'
    <2> SUFFICES ASSUME TypeOK, ExitAlone, [Next]_vars,
                        NEW c \in CPUs, pc'[c] = "exiting", NEW o \in CPUs \ {c}
                 PROVE  pc'[o] \in LoopOver
      BY DEF ExitAlone, LoopOver
    <2>1. pc[o] \in LoopOver
      BY MovesStep DEF Moves, ExitAlone
    <2>2. QED BY <2>1, MovesStep DEF Moves
  <1>3. QED
    BY <1>1, <1>2, TypeInit, TypeStep, PTL DEF Spec

\* From the teardown on no halt is under way, and none begins.
TeardownInv ==
  /\ pc[Boot] \in {"teardown", "gone"} => quit /\ halter = None
  /\ DestroyedLast

\* Once quit is closed and no loop of halt's is under way there is none again.
LEMMA HaltedStays ==
  ASSUME [Next]_vars, quit, halter = None
  PROVE  quit' /\ halter' = None
  <1>1. ASSUME NEW t, t # None, HaltCloses(t) \/ HaltKicks(t) \/ HaltReturns(t)
        PROVE  quit' /\ halter' = None
    BY <1>1 DEF HaltCloses, HaltKicks, HaltReturns
  <1>2. CASE UNCHANGED haltVars
    BY <1>2 DEF haltVars
  <1>3. Dog # None
    BY NAssumption DEF Dog, None
  <1>4. QED
    BY <1>1, <1>2, <1>3, Ids, HaltVarsStep DEF Halt, WatchdogHalts

\* The VM is destroyed after every AP's vCPU and after halt's loop, which
\* touches them all (vmm.go:285), a straggling watchdog's too.
THEOREM MachineDestroyedLast == Spec => []DestroyedLast
  <1>1. Init => TeardownInv
    BY Ids DEF Init, TeardownInv, DestroyedLast
  <1>2. TypeOK /\ TeardownInv /\ [Next]_vars => TeardownInv'
    <2> SUFFICES ASSUME TypeOK, TeardownInv, [Next]_vars PROVE TeardownInv'
      OBVIOUS
    <2>1. pc'[Boot] \in {"teardown", "gone"} => quit' /\ halter' = None
      BY MovesStep, HaltedStays, Ids DEF Moves, TeardownInv
    <2>2. pc'[Boot] = "gone" => \A c \in APs : pc'[c] = "gone"
      BY MovesStep, Ids DEF Moves, TeardownInv, DestroyedLast
    <2>3. QED
      BY <2>1, <2>2 DEF TeardownInv, DestroyedLast
  <1>3. TeardownInv => DestroyedLast
    BY DEF TeardownInv
  <1>4. QED
    BY <1>1, <1>2, <1>3, TypeInit, TypeStep, PTL DEF Spec
=============================================================================

---------------------------- MODULE Watchdog_proofs ----------------------------
(***************************************************************************)
(* The watchdog ends no guest for its calls, for any number of vCPUs.      *)
(*                                                                         *)
(* The argument is about the moments when inHost and lastCall disagree.    *)
(* Each of the monitor's own locations but those inside a call has a fresh *)
(* stamp, because the limit cannot go by there; the guest has one or has   *)
(* overrun.  The watchdog that has read inHost as false (look = "stamp")   *)
(* may find its vCPU in a call by now, but the limit has not gone by since *)
(* it looked, so the stamp is still the one of that moment.                *)
(***************************************************************************)
EXTENDS Watchdog, TLAPS

\* The locations with inHost set.
InCall == {"calling", "waiting", "starting", "restamped", "answered", "returning"}

Ages      == {"zero", "old", "fresh"}
Locations == {"unstarted", "sent", "looping", "guest", "stamped"} \union InCall

TypeOK ==
  /\ pc \in [CPUs -> Locations]
  /\ starting \in [CPUs -> APs \union {None}]
  /\ lastCall \in [CPUs -> Ages]
  /\ inHost \in [CPUs -> BOOLEAN]
  /\ started \subseteq APs
  /\ killed \in BOOLEAN
  /\ scan \in 0 .. N
  /\ look \in {"vcpu", "host", "call", "stamp"}
  /\ doomed \in CPUs \union {None}
  /\ overran \subseteq CPUs

\* t's CPUStart is between its swap of started and its send.
UnderWay(t) == \E c \in CPUs : starting[c] = t

\* inHost is set over a call, and starting over the start in one.
InHostIsInCall == \A c \in CPUs : inHost[c] <=> pc[c] \in InCall
StartIsInCall  == \A c \in CPUs : starting[c] # None <=> pc[c] \in {"starting", "restamped"}

\* The swap lets one CPUStart through for an AP ...
OneStart ==
  \A c, d \in CPUs : starting[c] # None /\ starting[c] = starting[d] => c = d

\* ... which waits for its start until that one has sent it.
WaitsForStart ==
  \A t \in CPUs : pc[t] = "unstarted" <=> t \in APs \ started \/ UnderWay(t)

StartIsSwapped == \A c \in CPUs : starting[c] # None => starting[c] \in started

\* The boot vCPU takes no start, and the scan begins after its loop does.
BootLoops == pc[Boot] # "sent" /\ (scan < N => pc[Boot] # "looping")

\* The monitor's own moments have a fresh stamp.
Stamped(c) ==
  /\ pc[c] \in {"sent", "stamped", "calling", "returning"} => lastCall[c] = "fresh"
  /\ pc[c] = "looping" /\ c # Boot => lastCall[c] = "fresh"
  /\ pc[c] = "guest" => lastCall[c] = "fresh" \/ c \in overran
  /\ pc[c] = "restamped" => lastCall[starting[c]] = "fresh"

\* What the watchdog knows of a vCPU it has seen out of its calls.
SeenOut ==
  scan < N /\ look = "stamp" /\ ~UnderWay(scan) =>
    lastCall[scan] = "fresh" \/ (pc[scan] = "guest" /\ scan \in overran)

\* What it looks at further is started, or the boot vCPU.
LooksAtStarted == scan < N /\ look # "vcpu" => scan \in {Boot} \union started

DogInv ==
  /\ TypeOK
  /\ InHostIsInCall
  /\ StartIsInCall
  /\ OneStart
  /\ StartIsSwapped
  /\ WaitsForStart
  /\ BootLoops
  /\ \A c \in CPUs : Stamped(c)
  /\ SeenOut
  /\ LooksAtStarted
  /\ doomed # None => killed
  /\ CallsDoNotCount

LEMMA Ids ==
  /\ Boot \in CPUs /\ Boot \notin APs /\ APs \subseteq CPUs
  /\ None \notin CPUs
  /\ \A i \in 0 .. N : i < N <=> i \in CPUs
  /\ \A i \in CPUs : i + 1 \in 0 .. N
  /\ 0 \in 0 .. N /\ N \in 0 .. N /\ ~(N < N)
  BY NAssumption DEF CPUs, APs, Boot, None

LEMMA DogInit == Init => DogInv
  <1> SUFFICES ASSUME Init PROVE DogInv
    OBVIOUS
  <1>1. TypeOK
    BY Ids DEF Init, TypeOK, Locations, InCall, Ages
  <1>2. InHostIsInCall /\ StartIsInCall /\ OneStart /\ StartIsSwapped /\ BootLoops
    BY Ids DEF Init, InHostIsInCall, StartIsInCall, OneStart, StartIsSwapped, BootLoops, InCall
  <1>3. WaitsForStart
    BY Ids DEF Init, WaitsForStart, UnderWay, APs
  <1>4. \A c \in CPUs : Stamped(c)
    BY Ids DEF Init, Stamped
  <1>5. SeenOut /\ LooksAtStarted /\ CallsDoNotCount /\ (doomed # None => killed)
    BY Ids DEF Init, SeenOut, LooksAtStarted, CallsDoNotCount
  <1>6. QED BY <1>1, <1>2, <1>3, <1>4, <1>5 DEF DogInv

(***************************************************************************)
(* A step of a vCPU's own: it moves c alone, or with it the AP it starts.  *)
(***************************************************************************)
LEMMA AnswerStep ==
  ASSUME DogInv, NEW c \in CPUs, Answers(c) \/ ExitToCall(c) \/ CallDone(c)
  PROVE  DogInv'
  <1> USE Ids DEF DogInv, TypeOK, Locations, InCall, Ages, InHostIsInCall, StartIsInCall, OneStart,
          StartIsSwapped, WaitsForStart, UnderWay, BootLoops, Stamped, SeenOut, LooksAtStarted,
          CallsDoNotCount, Go, Stamp, dogVars
  <1>1. CASE TakesStart(c)
    BY <1>1 DEF TakesStart
  <1>2. CASE LoopBegins(c)
    BY <1>2 DEF LoopBegins
  <1>3. CASE ExitToCall(c)
    BY <1>3 DEF ExitToCall
  <1>4. CASE EnterCall(c)
    BY <1>4 DEF EnterCall
  <1>5. CASE CallWaits(c)
    BY <1>5 DEF CallWaits
  <1>6. CASE StartSwaps(c)
    BY <1>6 DEF StartSwaps
  <1>7. CASE StartStamps(c)
    BY <1>7 DEF StartStamps
  <1>8. CASE StartSends(c)
    BY <1>8 DEF StartSends
  <1>9. CASE CallDone(c)
    BY <1>9 DEF CallDone
  <1>10. CASE LeaveFirst(c)
    BY <1>10 DEF LeaveFirst
  <1>11. CASE LeaveCall(c)
    BY <1>11 DEF LeaveCall
  <1>12. QED
    BY <1>1, <1>2, <1>3, <1>4, <1>5, <1>6, <1>7, <1>8, <1>9, <1>10, <1>11 DEF Answers

(***************************************************************************)
(* A look of the watchdog's.                                               *)
(***************************************************************************)
LEMMA DogStep ==
  ASSUME DogInv, Dog
  PROVE  DogInv'
  <1> USE Ids DEF DogInv, TypeOK, Locations, InCall, Ages, InHostIsInCall, StartIsInCall, OneStart,
          StartIsSwapped, WaitsForStart, UnderWay, BootLoops, Stamped, SeenOut, LooksAtStarted,
          CallsDoNotCount, Looks, LookOn, Stamp, loopVars
  <1>1. CASE Tick
    BY <1>1 DEF Tick
  <1>2. CASE LooksStarted
    BY <1>2 DEF LooksStarted
  <1>3. CASE LooksInHost
    BY <1>3 DEF LooksInHost
  <1>4. CASE StampsForCall
    BY <1>4 DEF StampsForCall
  <1>5. CASE LooksStamp
    <2>1. scan \in CPUs /\ doomed = None
      BY <1>5 DEF LooksStamp
    <2>2. CASE lastCall[scan] = "fresh"
      BY <1>5, <2>1, <2>2 DEF LooksStamp
    <2>3. CASE lastCall[scan] # "fresh"
      <3>1. scan \in overran \/ \E c \in CPUs : starting[c] = scan
        BY <1>5, <2>3 DEF LooksStamp
      <3>2. /\ killed' = TRUE /\ doomed' = scan
            /\ UNCHANGED <<pc, starting, lastCall, inHost, started, scan, look, overran>>
        BY <1>5, <2>3 DEF LooksStamp
      <3>3. QED BY <2>1, <3>1, <3>2
    <2>4. QED BY <2>2, <2>3
  <1>6. QED BY <1>1, <1>2, <1>3, <1>4, <1>5 DEF Dog

\* The limit goes by only where nothing has to be fresh but the guest, which
\* has then overrun, and between two scans.
LEMMA ElapseStep ==
  ASSUME DogInv, Elapse
  PROVE  DogInv'
  BY Ids DEF DogInv, TypeOK, Locations, InCall, Ages, InHostIsInCall, StartIsInCall, OneStart,
     StartIsSwapped, WaitsForStart, UnderWay, BootLoops, Stamped, SeenOut, LooksAtStarted,
     CallsDoNotCount, Elapse, Lasting, loopVars, dogVars

LEMMA DogInvariant == Spec => []DogInv
  <1>1. DogInv /\ [Next]_vars => DogInv'
    <2> SUFFICES ASSUME DogInv, [Next]_vars PROVE DogInv'
      OBVIOUS
    <2>1. CASE UNCHANGED vars
      BY <2>1 DEF vars, loopVars, dogVars, DogInv, TypeOK, InHostIsInCall, StartIsInCall, OneStart,
         StartIsSwapped, WaitsForStart, UnderWay, BootLoops, Stamped, SeenOut, LooksAtStarted,
         CallsDoNotCount
    <2>2. QED
      BY <2>1, AnswerStep, DogStep, ElapseStep DEF Next
  <1>2. QED
    BY <1>1, DogInit, PTL DEF Spec

\* The watchdog ends the guest for no call, no park, and none of the moments
\* about them when inHost and lastCall disagree (vmm.go:656, 658): for any
\* number of vCPUs, the one it finds overdue has run the guest for the limit,
\* or is an AP whose start is under way.
THEOREM CallsNeverCount == Spec => []CallsDoNotCount
  BY DogInvariant, PTL DEF DogInv
=============================================================================

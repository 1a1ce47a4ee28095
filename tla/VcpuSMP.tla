------------------------------- MODULE VcpuSMP -------------------------------
(***************************************************************************)
(* The vCPUs of one machine and the end of its run: vmm/smp.go and the     *)
(* exit loops, halt, finish and destroy of vmm/vmm.go.                     *)
(*                                                                         *)
(* A vCPU runs the guest, parks, or asks the Host something.  `running'    *)
(* counts those in the guest; a park is limited in time while it is        *)
(* positive and lasts until a wake while it is zero.  The run ends by an   *)
(* exit call, a fault, a Host's panic or the watchdog: `quit' is closed,   *)
(* and every vCPU is woken and made to leave the guest.                    *)
(*                                                                         *)
(* Every critical section of m.smp is one step, as is every operation on   *)
(* an atomic or a channel; the two loops over m.cpus that hold no lock     *)
(* (wakeParked's and halt's) take one step a vCPU.  Time is abstracted: a  *)
(* deadline or a limit may end a wait at any moment, and the watchdog may  *)
(* find any vCPU overdue that runs the guest (module Watchdog has the      *)
(* clock).  What the guest asks is chosen freely at each exit.             *)
(***************************************************************************)
EXTENDS Integers, FiniteSets

CONSTANTS N,             \* how many vCPUs the machine has (Config.CPUs)
          HasWatchdog    \* whether Config.Watchdog is set

ASSUME NAssumption == N \in Nat \ {0}
ASSUME WatchdogAssumption == HasWatchdog \in BOOLEAN

CPUs == 0 .. N - 1
Boot == 0
APs  == CPUs \ {Boot}
Dog  == N                \* the watchdog's goroutine, as a caller of halt
None == -1

\* How a run ends (the result of finish), and no end yet.
Ends  == {"exit", "fault", "watchdog", "seccomp"}
NoEnd == "none"

VARIABLES
  pc,        \* where each vCPU's goroutine is
  state,     \* vcpu.park.state
  token,     \* vcpu.park.p: the wake token
  limited,   \* parkFor's `limited', read under the lock before each wait
  deadline,  \* whether the park has a deadline of the guest's own (ns >= 0)
  at,        \* the next vCPU of wakeParked's loop
  started,   \* the APs whose CPUStart was accepted (vcpu.started)
  running,   \* m.smp.running
  host,      \* who holds m.host
  quit,      \* whether m.quit is closed
  halter,    \* who is inside halt's quitOnce.Do
  kick,      \* the next vCPU of halt's loop
  cancel,    \* hv: an exit is asked of the vCPU (VCPUsExit) and not yet seen
  killed,    \* m.killed
  dog,       \* where the watchdog's goroutine is
  result,    \* the end a vCPU's loop returned, on its way to finish
  end,       \* m.end, NoEnd before endOnce
  ret,       \* what run returned; "zero" is the zero result
  told       \* whether Host.Exit has been called

parkVars == <<state, token, limited, deadline>>
haltVars == <<quit, halter, kick>>
endVars  == <<result, end, ret, told>>
dogVars  == <<killed, dog>>
vars == <<pc, at, started, running, host, cancel, parkVars, haltVars, dogVars, endVars>>

(***************************************************************************)
(* Locations.                                                              *)
(***************************************************************************)
ParkStates == {"notParked", "parkedLimited", "parkedUntilWoken"}

InGuest   == {"entry", "guest"}                     \* in or about to enter hv.VCPURun
WaitOver  == {"woken", "deadline", "limit"}         \* wait returned, and why
Parking   == {"parked", "waiting"} \union WaitOver  \* inside parkFor's loop
ExitSteps == {"exithalt", "exitjoin", "exiting"}    \* inside call's callExit
HoldsHost == {"inhost"} \union ExitSteps
InCall    == {"waking", "hostwait", "resuming"} \union Parking \union HoldsHost
HaltSteps == {"finishhalt", "exithalt", "destroyhalt"}
LoopOver  == {"loopdone", "destroyhalt", "teardown", "gone"} \* loopDone is closed

Locations == {"start", "unstarted", "finish", "finishhalt", "stopped"}
             \union InGuest \union InCall \union LoopOver

\* Counted in m.smp.running: every location between a resume (or the
\* start) and the next park or Host call; a lone vCPU's Host calls too.
Counted == InGuest \union {"waking", "finish", "finishhalt"}
           \union (IF N = 1 THEN {"hostwait"} \union HoldsHost ELSE {})

\* Where a vCPU goes when the call it made is over.
AfterCall(r) == IF r = NoEnd THEN "entry" ELSE "finish"

Go(c, to) == pc' = [pc EXCEPT ![c] = to]

TypeOK ==
  /\ pc \in [CPUs -> Locations]
  /\ state \in [CPUs -> ParkStates]
  /\ token \in [CPUs -> BOOLEAN]
  /\ limited \in [CPUs -> BOOLEAN]
  /\ deadline \in [CPUs -> BOOLEAN]
  /\ at \in [CPUs -> CPUs]
  /\ started \in SUBSET APs
  /\ running \in Int
  /\ host \in CPUs \union {None}
  /\ quit \in BOOLEAN
  /\ halter \in CPUs \union {Dog, None}
  /\ kick \in 0 .. N
  /\ cancel \in [CPUs -> BOOLEAN]
  /\ killed \in BOOLEAN
  /\ dog \in {"off", "watch", "halt"}
  /\ result \in [CPUs -> Ends \union {NoEnd}]
  /\ end \in Ends \union {NoEnd}
  /\ ret \in Ends \union {NoEnd, "zero"}
  /\ told \in BOOLEAN

\* newMachine has returned: every vCPU created, the APs waiting to start.
Init ==
  /\ pc = [c \in CPUs |-> IF c = Boot THEN "start" ELSE "unstarted"]
  /\ state = [c \in CPUs |-> "notParked"]
  /\ token = [c \in CPUs |-> FALSE]
  /\ limited = [c \in CPUs |-> FALSE]
  /\ deadline = [c \in CPUs |-> FALSE]
  /\ at = [c \in CPUs |-> 0]
  /\ started = {}
  /\ running = 0
  /\ host = None
  /\ quit = FALSE
  /\ halter = None
  /\ kick = 0
  /\ cancel = [c \in CPUs |-> FALSE]
  /\ killed = FALSE
  /\ dog = "off"
  /\ result = [c \in CPUs |-> NoEnd]
  /\ end = NoEnd
  /\ ret = NoEnd
  /\ told = FALSE

(***************************************************************************)
(* run and ap: the loops begin.                                            *)
(***************************************************************************)

\* The filter goes on, the watchdog is set, and the boot vCPU serves.
Serve ==
  /\ pc[Boot] = "start"
  /\ Go(Boot, "entry")
  /\ running' = 1
  /\ dog' = IF HasWatchdog THEN "watch" ELSE "off"
  /\ UNCHANGED <<at, started, host, cancel, killed, parkVars, haltVars, endVars>>

\* The filter is refused: run returns its error, and destroy halts the APs.
SeccompFails ==
  /\ pc[Boot] = "start"
  /\ Go(Boot, "destroyhalt")
  /\ ret' = "seccomp"
  /\ UNCHANGED <<at, started, running, host, cancel, parkVars, haltVars, dogVars,
                 result, end, told>>

\* ap's select takes the start: its loop begins, or startAP fails.
APStarts(c) ==
  /\ pc[c] = "unstarted"
  /\ c \in started
  /\ \E r \in {NoEnd, "fault"} :
       /\ Go(c, AfterCall(r))
       /\ result' = [result EXCEPT ![c] = r]
  /\ UNCHANGED <<at, started, running, host, cancel, parkVars, haltVars, dogVars,
                 end, ret, told>>

\* ap's select sees quit first.
APQuits(c) ==
  /\ pc[c] = "unstarted"
  /\ quit
  /\ Go(c, "stopped")
  /\ UNCHANGED <<at, started, running, host, cancel, parkVars, haltVars, dogVars, endVars>>

(***************************************************************************)
(* loop: VCPURun and its exits.                                            *)
(***************************************************************************)
EnterGuest(c) ==
  /\ pc[c] = "entry"
  /\ ~cancel[c]
  /\ Go(c, "guest")
  /\ UNCHANGED <<at, started, running, host, cancel, parkVars, haltVars, dogVars, endVars>>

\* ExitReasonCanceled: killed is looked at before quit.  A VCPURun with the
\* exit already asked for returns it without entering the guest.
Canceled(c) ==
  /\ pc[c] \in InGuest
  /\ cancel[c]
  /\ cancel' = [cancel EXCEPT ![c] = FALSE]
  /\ result' = [result EXCEPT ![c] = IF killed THEN "watchdog" ELSE NoEnd]
  /\ Go(c, IF killed THEN "finish" ELSE IF quit THEN "stopped" ELSE "entry")
  /\ UNCHANGED <<at, started, running, host, parkVars, haltVars, dogVars, end, ret, told>>

\* The loop's own ends: a bad exit, a bad call, CPUFault, VCPURun's error.
GuestFaults(c) ==
  /\ pc[c] = "guest"
  /\ result' = [result EXCEPT ![c] = "fault"]
  /\ Go(c, "finish")
  /\ UNCHANGED <<at, started, running, host, cancel, parkVars, haltVars, dogVars,
                 end, ret, told>>

(***************************************************************************)
(* smpCall: the vCPUs' own calls.                                          *)
(***************************************************************************)

\* CPUSelf, a store's call, a CPUWake or a CPUStart of no such vCPU, a
\* CPUStart of one already started: answered at once.
QuickCall(c) ==
  /\ pc[c] = "guest"
  /\ Go(c, "entry")
  /\ UNCHANGED <<at, started, running, host, cancel, parkVars, haltVars, dogVars, endVars>>

WakeOne(c, t) ==
  /\ pc[c] = "guest"
  /\ token' = [token EXCEPT ![t] = TRUE]
  /\ Go(c, "entry")
  /\ UNCHANGED <<at, started, running, host, cancel, state, limited, deadline,
                 haltVars, dogVars, endVars>>

WakeParked(c) ==
  /\ pc[c] = "guest"
  /\ Go(c, "waking")
  /\ UNCHANGED <<at, started, running, host, cancel, parkVars, haltVars, dogVars, endVars>>

\* Mutant: the index runs past the last vCPU.
NextCPU_NoWrap(i) == i + 1

\* The index of the loop over m.cpus, and the loop's end.
NextCPU(i) == (i + 1) % N

WakeNext(c) ==
  /\ pc[c] = "waking"
  /\ token' = IF at[c] = c THEN token ELSE [token EXCEPT ![at[c]] = TRUE]
  /\ at' = [at EXCEPT ![c] = NextCPU(@)]
  /\ Go(c, IF at[c] + 1 = N THEN "entry" ELSE "waking")
  /\ UNCHANGED <<started, running, host, cancel, state, limited, deadline,
                 haltVars, dogVars, endVars>>

\* started is swapped, the count raised and the start sent.  The caller is
\* counted throughout, and t does nothing before the send: one step.
CPUStart(c, t) ==
  /\ pc[c] = "guest"
  /\ t \in APs \ started
  /\ started' = started \union {t}
  /\ running' = running + 1
  /\ Go(c, "entry")
  /\ UNCHANGED <<at, host, cancel, parkVars, haltVars, dogVars, endVars>>

(***************************************************************************)
(* parkFor and resume.                                                     *)
(***************************************************************************)
CPUPark(c) ==
  /\ pc[c] = "guest"
  /\ running' = running - 1
  /\ state' = [state EXCEPT ![c] = IF running' > 0 THEN "parkedLimited"
                                                  ELSE "parkedUntilWoken"]
  /\ \E d \in BOOLEAN : deadline' = [deadline EXCEPT ![c] = d]
  /\ Go(c, "parked")
  /\ UNCHANGED <<at, started, host, cancel, token, limited, haltVars, dogVars, endVars>>

\* Mutant: a wake given before the wait is drained as stale.
ParkLooks_Drains(c) ==
  /\ pc[c] = "parked"
  /\ limited' = [limited EXCEPT ![c] = (state[c] = "parkedLimited")]
  /\ token' = [token EXCEPT ![c] = FALSE]
  /\ Go(c, "waiting")
  /\ UNCHANGED <<at, started, running, host, cancel, state, deadline,
                 haltVars, dogVars, endVars>>

\* The loop's first critical section: how long this wait may last.
ParkLooks(c) ==
  /\ pc[c] = "parked"
  /\ limited' = [limited EXCEPT ![c] = (state[c] = "parkedLimited")]
  /\ Go(c, "waiting")
  /\ UNCHANGED <<at, started, running, host, cancel, state, token, deadline,
                 haltVars, dogVars, endVars>>

WaitWoken(c) ==
  /\ pc[c] = "waiting"
  /\ token[c]
  /\ token' = [token EXCEPT ![c] = FALSE]
  /\ Go(c, "woken")
  /\ UNCHANGED <<at, started, running, host, cancel, state, limited, deadline,
                 haltVars, dogVars, endVars>>

\* The wait's time is over: the guest's deadline, or the machine's limit.
\* The word was swapped and found 0 last; a token given later is kept.
WaitTimesOut(c) ==
  /\ pc[c] = "waiting"
  /\ ~token[c]
  /\ \/ deadline[c] /\ Go(c, "deadline")
     \/ limited[c] /\ Go(c, "limit")
  /\ UNCHANGED <<at, started, running, host, cancel, parkVars, haltVars, dogVars, endVars>>

\* After any wait quit is looked at first: the vCPU stops, uncounted.
ParkStops(c) ==
  /\ pc[c] \in WaitOver
  /\ quit
  /\ limited' = [limited EXCEPT ![c] = FALSE]
  /\ deadline' = [deadline EXCEPT ![c] = FALSE]
  /\ Go(c, "stopped")
  /\ UNCHANGED <<at, started, running, host, cancel, state, token, haltVars, dogVars, endVars>>

\* The limit ended the wait while none runs the guest: the park goes on.
ParkGoesOn(c) ==
  /\ pc[c] = "limit"
  /\ ~quit
  /\ running = 0
  /\ state' = [state EXCEPT ![c] = "parkedUntilWoken"]
  /\ Go(c, "parked")
  /\ UNCHANGED <<at, started, running, host, cancel, token, limited, deadline,
                 haltVars, dogVars, endVars>>

\* A wake, the deadline, or the limit while another runs: the park is over.
ParkEnds(c) ==
  /\ pc[c] \in WaitOver
  /\ ~quit
  /\ pc[c] = "limit" => running # 0
  /\ limited' = [limited EXCEPT ![c] = FALSE]
  /\ deadline' = [deadline EXCEPT ![c] = FALSE]
  /\ Go(c, "resuming")
  /\ UNCHANGED <<at, started, running, host, cancel, state, token, haltVars, dogVars, endVars>>

\* Mutant: resume does not look for the vCPUs parked until woken.
UntilWoken_None(c) == {}

\* Those resume finds parked until woken: their parks are limited from now on.
UntilWoken(c) == {o \in CPUs \ {c} : state[o] = "parkedUntilWoken"}

\* resume counts c in the guest again; the first one in wakes the parked.
Resume(c) ==
  /\ pc[c] = "resuming"
  /\ running' = running + 1
  /\ LET woken == IF running' = 1 THEN UntilWoken(c) ELSE {}
     IN /\ state' = [o \in CPUs |-> IF o = c THEN "notParked"
                                    ELSE IF o \in woken THEN "parkedLimited"
                                    ELSE state[o]]
        /\ token' = [o \in CPUs |-> token[o] \/ o \in woken]
  /\ Go(c, AfterCall(result[c]))
  /\ UNCHANGED <<at, started, host, cancel, limited, deadline, haltVars, dogVars, endVars>>

(***************************************************************************)
(* The Host's calls: lockHost, the call, unlockHost.                       *)
(***************************************************************************)
LockHost(c) ==
  /\ pc[c] = "guest"
  /\ running' = IF N > 1 THEN running - 1 ELSE running
  /\ Go(c, "hostwait")
  /\ UNCHANGED <<at, started, host, cancel, parkVars, haltVars, dogVars, endVars>>

\* Mutant: m.host has room for more than one call.
HostGranted_Wide(c) ==
  /\ pc[c] = "hostwait"
  /\ host' = c
  /\ Go(c, "inhost")
  /\ UNCHANGED <<at, started, running, cancel, parkVars, haltVars, dogVars, endVars>>

HostGranted(c) ==
  /\ pc[c] = "hostwait"
  /\ host = None
  /\ host' = c
  /\ Go(c, "inhost")
  /\ UNCHANGED <<at, started, running, cancel, parkVars, haltVars, dogVars, endVars>>

\* lockHost's select sees quit: errStopped, and c is not counted again.
HostRefused(c) ==
  /\ pc[c] = "hostwait"
  /\ quit
  /\ Go(c, "stopped")
  /\ UNCHANGED <<at, started, running, host, cancel, parkVars, haltVars, dogVars, endVars>>

\* Mutant: unlockHost forgets to count the vCPU in again.
UnlockHost_NoResume(c, r) ==
  /\ host' = None
  /\ result' = [result EXCEPT ![c] = r]
  /\ Go(c, AfterCall(r))

\* unlockHost with r the call's end, if it is one.
UnlockHost(c, r) ==
  /\ host' = None
  /\ result' = [result EXCEPT ![c] = r]
  /\ Go(c, IF N > 1 THEN "resuming" ELSE AfterCall(r))

\* The Host answers, or unwinds with a deadly signal (the call's event).
HostReturns(c) ==
  /\ pc[c] = "inhost"
  /\ UnlockHost(c, NoEnd)
  /\ UNCHANGED <<at, started, running, cancel, parkVars, haltVars, dogVars, end, ret, told>>

\* The Host panics, or the call names memory outside the guest's.
HostFails(c) ==
  /\ pc[c] = "inhost"
  /\ UnlockHost(c, "fault")
  /\ UNCHANGED <<at, started, running, cancel, parkVars, haltVars, dogVars, end, ret, told>>

\* callExit: the others are stopped first, the Host's lock kept.
ExitCalled(c) ==
  /\ pc[c] = "inhost"
  /\ Go(c, IF N > 1 THEN "exithalt" ELSE "exiting")
  /\ UNCHANGED <<at, started, running, host, cancel, parkVars, haltVars, dogVars, endVars>>

ExitJoins(c) ==
  /\ pc[c] = "exitjoin"
  /\ \A o \in CPUs \ {c} : pc[o] \in LoopOver
  /\ Go(c, "exiting")
  /\ UNCHANGED <<at, started, running, host, cancel, parkVars, haltVars, dogVars, endVars>>

\* report and Host.Exit; the terminal's Exit ends the process here, a
\* Host's that returns or panics with the code goes on to finish.
HostExits(c) ==
  /\ pc[c] = "exiting"
  /\ told' = TRUE
  /\ UnlockHost(c, "exit")
  /\ UNCHANGED <<at, started, running, cancel, parkVars, haltVars, dogVars, end, ret>>

(***************************************************************************)
(* finish and halt.                                                        *)
(***************************************************************************)
\* Mutant: an end that comes after the halt is not recorded.
Finish_TooLate(c) ==
  /\ pc[c] = "finish"
  /\ end' = IF end = NoEnd /\ ~quit THEN result[c] ELSE end
  /\ result' = [result EXCEPT ![c] = NoEnd]
  /\ Go(c, "finishhalt")
  /\ UNCHANGED <<at, started, running, host, cancel, parkVars, haltVars, dogVars, ret, told>>

Finish(c) ==
  /\ pc[c] = "finish"
  /\ end' = IF end = NoEnd THEN result[c] ELSE end
  /\ result' = [result EXCEPT ![c] = NoEnd]
  /\ Go(c, "finishhalt")
  /\ UNCHANGED <<at, started, running, host, cancel, parkVars, haltVars, dogVars, ret, told>>

\* quitOnce's first caller t closes quit; any other waits for it to end.
HaltCloses(t) ==
  /\ ~quit
  /\ quit' = TRUE
  /\ halter' = t
  /\ kick' = 0

\* Mutant: the vCPUs are made to leave the guest, the parked not woken.
HaltKicks_NoWake(t) ==
  /\ halter = t
  /\ kick < N
  /\ cancel' = [cancel EXCEPT ![kick] = @ \/ pc[kick] # "gone"]
  /\ kick' = kick + 1
  /\ UNCHANGED <<quit, halter, token>>

\* Mutant: the parked are woken, the guest left to run.
HaltKicks_NoExit(t) ==
  /\ halter = t
  /\ kick < N
  /\ token' = [token EXCEPT ![kick] = TRUE]
  /\ kick' = kick + 1
  /\ UNCHANGED <<quit, halter, cancel>>

\* One vCPU of halt's loop: its park is woken, its run is made to exit.
\* VCPUsExit refuses one already destroyed.
HaltKicks(t) ==
  /\ halter = t
  /\ kick < N
  /\ token' = [token EXCEPT ![kick] = TRUE]
  /\ cancel' = [cancel EXCEPT ![kick] = @ \/ pc[kick] # "gone"]
  /\ kick' = kick + 1
  /\ UNCHANGED <<quit, halter>>

\* Mutant: a later caller does not wait for the first one's loop.
HaltReturns_NoWait(t) ==
  /\ quit
  /\ halter = t => kick = N
  /\ halter' = IF halter = t THEN None ELSE halter
  /\ UNCHANGED <<quit, kick>>

HaltReturns(t) ==
  /\ quit
  /\ halter = None \/ (halter = t /\ kick = N)
  /\ halter' = None
  /\ UNCHANGED <<quit, kick>>

\* Mutant: an exit does not wait for the other loops.
AfterHalt_NoJoin(l) == CASE l = "finishhalt"  -> "stopped"
                         [] l = "exithalt"    -> "exiting"
                         [] l = "destroyhalt" -> "teardown"

AfterHalt(l) == CASE l = "finishhalt"  -> "stopped"
                  [] l = "exithalt"    -> "exitjoin"
                  [] l = "destroyhalt" -> "teardown"

Halt(c) ==
  /\ pc[c] \in HaltSteps
  /\ \/ HaltCloses(c) /\ UNCHANGED <<pc, token, cancel>>
     \/ HaltKicks(c) /\ UNCHANGED pc
     \/ HaltReturns(c) /\ Go(c, AfterHalt(pc[c])) /\ UNCHANGED <<token, cancel>>
  /\ UNCHANGED <<at, started, running, host, state, limited, deadline, dogVars, endVars>>

(***************************************************************************)
(* The loops end; run returns; the machine is torn down.                   *)
(***************************************************************************)
LoopEnds(c) ==
  /\ pc[c] = "stopped"
  /\ Go(c, "loopdone")
  /\ UNCHANGED <<at, started, running, host, cancel, parkVars, haltVars, dogVars, endVars>>

\* ap's last deferred calls: VCPUDestroy on its own thread, then done.
APDestroyed(c) ==
  /\ c # Boot
  /\ pc[c] = "loopdone"
  /\ Go(c, "gone")
  /\ cancel' = [cancel EXCEPT ![c] = FALSE]
  /\ UNCHANGED <<at, started, running, host, parkVars, haltVars, dogVars, endVars>>

RunReturns ==
  /\ pc[Boot] = "loopdone"
  /\ \A c \in APs : pc[c] \in LoopOver
  /\ ret' = IF end = NoEnd THEN "zero" ELSE end
  /\ Go(Boot, "destroyhalt")
  /\ UNCHANGED <<at, started, running, host, cancel, parkVars, haltVars, dogVars,
                 result, end, told>>

\* destroy, after its halt: the APs are waited for, then the VM goes.
Teardown ==
  /\ pc[Boot] = "teardown"
  /\ \A c \in APs : pc[c] = "gone"
  /\ Go(Boot, "gone")
  /\ UNCHANGED <<at, started, running, host, cancel, parkVars, haltVars, dogVars, endVars>>

(***************************************************************************)
(* The watchdog.                                                           *)
(***************************************************************************)

\* A started vCPU not in a call may be found overdue; then all are halted.
WatchdogKills ==
  /\ dog = "watch"
  /\ \E c \in {Boot} \union started : pc[c] \notin InCall
  /\ killed' = TRUE
  /\ dog' = "halt"
  /\ UNCHANGED <<pc, at, started, running, host, cancel, parkVars, haltVars, endVars>>

WatchdogHalts ==
  /\ dog = "halt"
  /\ \/ HaltCloses(Dog) /\ UNCHANGED <<token, cancel, dog>>
     \/ HaltKicks(Dog) /\ UNCHANGED dog
     \/ HaltReturns(Dog) /\ dog' = "off" /\ UNCHANGED <<token, cancel>>
  /\ UNCHANGED <<pc, at, started, running, host, killed, state, limited, deadline, endVars>>

\* run's deferred close(stop).
WatchdogStops ==
  /\ dog = "watch"
  /\ ret # NoEnd
  /\ dog' = "off"
  /\ UNCHANGED <<pc, at, started, running, host, cancel, killed, parkVars, haltVars, endVars>>

(***************************************************************************)
(* The specification.                                                      *)
(***************************************************************************)

\* What the guest may ask at an exit.
GuestCalls(c) ==
  \/ GuestFaults(c)
  \/ QuickCall(c)
  \/ \E t \in CPUs : WakeOne(c, t)
  \/ WakeParked(c)
  \/ \E t \in APs : CPUStart(c, t)
  \/ CPUPark(c)
  \/ LockHost(c)

\* What the Host does with a call.
HostAnswers(c) == HostReturns(c) \/ HostFails(c) \/ ExitCalled(c)

\* What the monitor's code does on c's thread, and hv.VCPURun's return.
Monitor(c) ==
  \/ APStarts(c) \/ APQuits(c)
  \/ EnterGuest(c) \/ Canceled(c)
  \/ WakeNext(c)
  \/ ParkLooks(c) \/ WaitWoken(c) \/ WaitTimesOut(c)
  \/ ParkStops(c) \/ ParkGoesOn(c) \/ ParkEnds(c)
  \/ Resume(c)
  \/ HostGranted(c) \/ HostRefused(c)
  \/ ExitJoins(c) \/ HostExits(c)
  \/ Finish(c) \/ Halt(c)
  \/ LoopEnds(c) \/ APDestroyed(c)

RunMain == Serve \/ SeccompFails \/ RunReturns \/ Teardown

WatchdogSteps == WatchdogKills \/ WatchdogHalts \/ WatchdogStops

Next ==
  \/ \E c \in CPUs : GuestCalls(c) \/ HostAnswers(c) \/ Monitor(c)
  \/ RunMain
  \/ WatchdogSteps

\* The monitor's threads are scheduled; the guest need never leave, nor the
\* Host ever answer.
Fairness ==
  /\ \A c \in CPUs : WF_vars(Monitor(c))
  /\ WF_vars(RunMain)
  /\ WF_vars(WatchdogHalts)

Spec == Init /\ [][Next]_vars

FairSpec == Spec /\ Fairness

(***************************************************************************)
(* What the code promises.                                                 *)
(***************************************************************************)

\* The vCPUs that smp.running stands for: those in the guest or about to be,
\* and those started that have not begun.
GuestSet == {c \in CPUs : pc[c] \in Counted \/ (pc[c] = "unstarted" /\ c \in started)}

\* smp.running is how many vCPUs are in the guest (smp.go:44), whatever
\* order parks, resumes, Host calls and starts come in, until the run ends.
RunningCount == ~quit => running = Cardinality(GuestSet)

\* "While a vCPU runs the guest, every park ends within the limit"
\* (smp.go:29): one that waits without the limit has a wake coming.
ParkBounded ==
  (~quit /\ GuestSet # {}) =>
    \A c \in CPUs : (pc[c] = "waiting" /\ ~limited[c]) => token[c]

\* One call to the Host at a time (vmm.go:156), the exit call's wait for the
\* other loops included.
HostExclusive == \A c \in CPUs : pc[c] \in HoldsHost <=> host = c

\* halt's loop has passed c.
Kicked(c) == quit /\ (halter = None \/ kick > c)

\* Once the run is halted no vCPU is left asleep: one that waits, its loop's
\* kick past, has the wake that makes it look at quit; one in the guest has
\* the exit that makes it leave (vmm.go:304).
HaltReaches ==
  \A c \in CPUs : Kicked(c) =>
    /\ pc[c] = "waiting" => token[c]
    /\ pc[c] = "guest" => cancel[c]

\* An exit's report and Host.Exit come after every other loop has ended
\* (smp.go:233): no vCPU counts, or calls the Host, beside it.
ExitAlone ==
  \A c \in CPUs : pc[c] = "exiting" =>
    \A o \in CPUs \ {c} : pc[o] \in LoopOver

\* The VM is destroyed last: every AP's vCPU gone and halt's loop, which
\* touches them all, over -- a straggling watchdog's too (vmm.go:285).
DestroyedLast ==
  pc[Boot] = "gone" => halter = None /\ \A c \in APs : pc[c] = "gone"

\* run never returns the zero result, a success nobody reported
\* (vmm.go:343): an end was recorded before the last loop stopped.
EndRecorded == ret # "zero"

\* The same with a watchdog: only one that has killed the guest can leave run
\* without an end, which the vCPU that sees the kill was to record.
EndUnlessKilled == killed \/ EndRecorded

\* "One that panics with editor.Exit has its code returned" (vmm.go:130): a
\* run whose Host was told to exit returns that exit.
ExitReturned == (told /\ ret # NoEnd) => ret = "exit"

(***************************************************************************)
(* The inductive invariant the proofs use.                                 *)
(***************************************************************************)

\* Nothing but the boot vCPU's Serve can happen first.
NotServing ==
  pc[Boot] = "start" =>
    /\ ~quit /\ started = {} /\ dog = "off"
    /\ \A c \in APs : pc[c] = "unstarted"
    /\ \A c \in CPUs : state[c] = "notParked"

\* A vCPU is parked until woken only while none runs the guest.
UntilWokenIdle ==
  ~quit => \A c \in CPUs : state[c] = "parkedUntilWoken" => running = 0

\* A vCPU that waits without the limit is parked until woken, or is woken.
WaitsForWake ==
  ~quit => \A c \in CPUs :
    (pc[c] = "waiting" /\ ~limited[c]) => state[c] = "parkedUntilWoken" \/ token[c]

\* Until the end an AP not started is where it was created.
NotStarted == ~quit => \A c \in APs \ started : pc[c] = "unstarted"

\* A vCPU in parkFor's loop has its park's state set.
ParkedState == ~quit => \A c \in CPUs : pc[c] \in Parking => state[c] # "notParked"

\* halt's loop runs only after quit is closed.
HaltClosed == halter # None => quit

CountInv == NotServing /\ NotStarted /\ ParkedState /\ RunningCount /\ UntilWokenIdle /\ WaitsForWake

\* A vCPU is on its way to recording how the run ended.
Ending(c) == pc[c] \in ExitSteps \/ (pc[c] \in {"resuming", "finish"} /\ result[c] # NoEnd)

\* Until the watchdog kills, quit is closed by a vCPU that has recorded an end
\* or is about to, and no loop is over before that.
EndInv ==
  /\ dog # "halt"
  /\ (quit /\ ret = NoEnd) => (end # NoEnd \/ \E c \in CPUs : Ending(c))
  /\ \A c \in CPUs : /\ pc[c] = "finish" => result[c] # NoEnd
                     /\ pc[c] = "finishhalt" => end # NoEnd
                     /\ pc[c] \in {"stopped", "loopdone", "teardown", "gone"} => quit
                     /\ pc[c] = "destroyhalt" => ret # NoEnd
  /\ ret # NoEnd => pc[Boot] \in {"destroyhalt", "teardown", "gone"}
  /\ EndRecorded

\* halt's kick of a vCPU leaves it its wake, until a wait takes it and looks
\* at quit, and its exit, until a run returns it.
Leaving   == {"finish", "finishhalt", "stopped"} \union LoopOver
HaltInv ==
  /\ HaltClosed
  /\ \A c \in CPUs : Kicked(c) => /\ token[c] \/ pc[c] \in WaitOver \union Leaving
                                  /\ cancel[c] \/ pc[c] \in Leaving

InPark(c) == pc[c] \in Parking

\* A park ends: while another vCPU stays in the guest no vCPU is parked for
\* ever (the limit), nor is one that was given a wake (smp.go:28, 48).
ParksEnd ==
  \A c \in CPUs : /\ InPark(c) /\ running > 0 ~> ~InPark(c) \/ running <= 0
                  /\ InPark(c) /\ token[c] ~> ~InPark(c)

\* halt ends the run: every loop is over, every AP destroyed and the VM torn
\* down, unless some call to the Host never returns (vmm.go:304, 327).
Stops == quit ~> (pc[Boot] = "gone" \/ [](\E c \in CPUs : pc[c] = "inhost"))
=============================================================================

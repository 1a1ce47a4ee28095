------------------------------- MODULE GuestIdle -------------------------------
(***************************************************************************)
(* A Go guest's side of the parks: TamaGo's scheduler on several vCPUs and *)
(* the board under it (guest/tamago/board/smp.go), over the monitor of     *)
(* module VcpuSMP.  An M is bound to its vCPU and never gives its P up, so *)
(* nobody is told of new work: an idle vCPU looks again when its park      *)
(* ends, which the monitor sees to.                                        *)
(*                                                                         *)
(* Init is given the guest: one with the board, whose calls are its        *)
(* scheduler's and its goroutines', or any (VcpuSMP's own, which calls     *)
(* what it likes).  The board's is not ended here: ends are the other's.   *)
(* The scheduler is external, TamaGo's runtime, at the grain smp.go and    *)
(* vmm/smp.go rest on.  A semaphore's post and its goos.Wake are one step. *)
(***************************************************************************)
EXTENDS VcpuSMP

CONSTANT MaxReady        \* bound: goroutines that can run and do not
ASSUME ReadyAssumption == MaxReady \in Nat \ {0}

VARIABLES
  board,     \* the guest has the board
  mode,      \* what the M of each vCPU is about
  ready,     \* how many goroutines wait to be run
  timer,     \* a goroutine's timer, "due" when its time has passed
  stopper,   \* the vCPU that stops the world
  joined,    \* those that have joined the stop and have still to be let go
  posted     \* those whose semaphore is posted (semasleep's)

schedVars == <<mode, ready, timer, stopper, joined, posted>>
idleVars == <<vars, board, schedVars>>

\* A goroutine runs; the scheduler looks; Idle without a deadline, with one,
\* or with one near; the world being stopped, waited for, stopped, started;
\* and an M stopped, or about to park for it.
Modes == {"off", "run", "look", "idle", "timed", "near",
          "stopping", "stopwait", "world", "starts", "stopped", "rests"}

Begun == {Boot} \union started
Others(c) == Begun \ {c}

IdleTypeOK ==
  /\ TypeOK
  /\ board \in BOOLEAN
  /\ mode \in [CPUs -> Modes]
  /\ \A c \in CPUs : board => (mode[c] = "off" <=> c \notin Begun)
  /\ ready \in 0 .. MaxReady
  /\ timer \in {"none", "set", "due"}
  /\ stopper \in CPUs \union {None}
  /\ joined \subseteq Begun /\ posted \subseteq Begun
  /\ board => ~quit

IdleInit ==
  /\ Init
  /\ board \in IF N > 1 THEN BOOLEAN ELSE {FALSE}
  /\ mode = [c \in CPUs |-> IF c = Boot THEN "run" ELSE "off"]
  /\ ready = 0 /\ timer = "none"
  /\ stopper = None /\ joined = {} /\ posted = {}

\* The M of c, in the guest, is at m.
In(c, m) == board /\ pc[c] = "guest" /\ mode[c] = m
Turns(c, m) == mode' = [mode EXCEPT ![c] = m]

(***************************************************************************)
(* Goroutines.                                                             *)
(***************************************************************************)
Makes(c) ==
  /\ In(c, "run") /\ ready < MaxReady
  /\ ready' = ready + 1
  /\ UNCHANGED <<vars, board, mode, timer, stopper, joined, posted>>

SetsTimer(c) ==
  /\ In(c, "run") /\ timer = "none"
  /\ timer' = "set"
  /\ UNCHANGED <<vars, board, mode, ready, stopper, joined, posted>>

\* It blocks, ends, or comes to where it can be stopped.
Blocks(c) ==
  /\ In(c, "run")
  /\ Turns(c, "look")
  /\ UNCHANGED <<vars, board, ready, timer, stopper, joined, posted>>

CallsHost(c) == In(c, "run") /\ LockHost(c) /\ UNCHANGED <<board, schedVars>>

\* Mutant: the AP's M is not begun.
Task_Self(c, t) ==
  /\ In(c, "run") /\ stopper = None /\ joined = {}
  /\ t = Cardinality(started) + 1
  /\ CPUStart(c, t)
  /\ Turns(c, "look")
  /\ UNCHANGED <<board, ready, timer, stopper, joined, posted>>

\* goos.Task: the next AP, its M looking for work from the start.
Task(c, t) ==
  /\ In(c, "run") /\ stopper = None /\ joined = {}
  /\ t = Cardinality(started) + 1
  /\ CPUStart(c, t)
  /\ Turns(t, "look")
  /\ UNCHANGED <<board, ready, timer, stopper, joined, posted>>

\* The runtime's worldsema is free: no stop is under way, nor being undone.
BeginsStop(c) ==
  /\ In(c, "run") /\ stopper = None /\ joined = {}
  /\ \A o \in CPUs : mode[o] # "starts"
  /\ stopper' = c
  /\ Turns(c, "stopping")
  /\ UNCHANGED <<vars, board, ready, timer, joined, posted>>

(***************************************************************************)
(* The scheduler: a stop is looked at first, then timers and goroutines.   *)
(***************************************************************************)

Stopped(c) == stopper \notin {None, c}

\* c joins a stop; the last to join posts the stopper's semaphore.
JoinsStop(c) ==
  /\ In(c, "look") /\ Stopped(c)
  /\ joined' = joined \union {c}
  /\ Turns(c, "stopped")
  /\ IF joined' = Others(stopper) THEN WakeOne(c, stopper) ELSE UNCHANGED vars
  /\ UNCHANGED <<board, ready, timer, stopper, posted>>

\* Mutant: a goroutine is taken though the world is being stopped.
TakesWork_First(c) ==
  /\ In(c, "look") /\ ready > 0
  /\ ready' = ready - 1
  /\ Turns(c, "run")
  /\ UNCHANGED <<vars, board, timer, stopper, joined, posted>>

TakesWork(c) ==
  /\ In(c, "look") /\ ~Stopped(c) /\ ready > 0
  /\ ready' = ready - 1
  /\ Turns(c, "run")
  /\ UNCHANGED <<vars, board, timer, stopper, joined, posted>>

RunsTimer(c) ==
  /\ In(c, "look") /\ ~Stopped(c) /\ timer = "due"
  /\ timer' = "none"
  /\ Turns(c, "run")
  /\ UNCHANGED <<vars, board, ready, stopper, joined, posted>>

\* Nothing: goos.Idle, until the timer if there is one.
FindsNothing(c) ==
  /\ In(c, "look") /\ ~Stopped(c) /\ ready = 0 /\ timer # "due"
  /\ \E m \in IF timer = "set" THEN {"timed", "near"} ELSE {"idle"} : Turns(c, m)
  /\ UNCHANGED <<vars, board, ready, timer, stopper, joined, posted>>

\* The stopper sees whether all have joined, and when they have lets them go.
SeesStopped(c) ==
  /\ In(c, "stopping") /\ joined = Others(c)
  /\ Turns(c, "world")
  /\ UNCHANGED <<vars, board, ready, timer, stopper, joined, posted>>

StartsWorld(c) ==
  /\ In(c, "world")
  /\ stopper' = None
  /\ Turns(c, "starts")
  /\ UNCHANGED <<vars, board, ready, timer, joined, posted>>

LetsGo(c) ==
  /\ In(c, "starts")
  /\ IF joined = {}
     THEN Turns(c, "run") /\ UNCHANGED <<vars, joined, posted>>
     ELSE \E t \in joined :
            /\ WakeOne(c, t)
            /\ joined' = joined \ {t} /\ posted' = posted \union {t}
            /\ UNCHANGED mode
  /\ UNCHANGED <<board, ready, timer, stopper>>

\* semasleep of an M whose P is stopped: posted, or Idle.
SemaTaken(c) ==
  /\ In(c, "stopped")
  /\ IF c \in posted THEN Turns(c, "look") ELSE Turns(c, "rests")
  /\ posted' = posted \ {c}
  /\ UNCHANGED <<vars, board, ready, timer, stopper, joined>>

(***************************************************************************)
(* The board: idleSMP.                                                     *)
(***************************************************************************)

\* Mutant: the parked are not woken.
IdleWakes_Not(c) ==
  /\ In(c, "near") \/ (In(c, "stopping") /\ joined # Others(c))
  /\ Turns(c, IF mode[c] = "near" THEN "timed" ELSE "stopwait")
  /\ UNCHANGED <<vars, board, ready, timer, stopper, joined, posted>>

\* A wait of at most stopWaitNs, a stop of the world's or a timer's: the
\* parked are woken.
IdleWakes(c) ==
  /\ In(c, "near") \/ (In(c, "stopping") /\ joined # Others(c))
  /\ WakeParked(c)
  /\ Turns(c, IF mode[c] = "near" THEN "timed" ELSE "stopwait")
  /\ UNCHANGED <<board, ready, timer, stopper, joined, posted>>

\* What the M is about when Idle has returned.
AfterIdle(c) == CASE mode[c] \in {"idle", "timed"} -> "look"
                  [] mode[c] = "stopwait" -> "stopping"
                  [] mode[c] = "rests" -> "stopped"

\* Mutant: a park has no deadline.
IdleParks_Timeless(c) ==
  /\ \E m \in {"idle", "timed", "stopwait", "rests"} : In(c, m)
  /\ CPUPark(c)
  /\ ~deadline'[c]
  /\ Turns(c, AfterIdle(c))
  /\ UNCHANGED <<board, ready, timer, stopper, joined, posted>>

\* After its spin the vCPU parks, until the deadline if it has one.
IdleParks(c) ==
  /\ \E m \in {"idle", "timed", "stopwait", "rests"} : In(c, m)
  /\ CPUPark(c)
  /\ deadline'[c] = (mode[c] \in {"timed", "stopwait"})
  /\ Turns(c, AfterIdle(c))
  /\ UNCHANGED <<board, ready, timer, stopper, joined, posted>>

\* Or the deadline has passed by then.
IdleReturns(c) ==
  /\ (In(c, "timed") /\ timer # "set") \/ In(c, "stopwait")
  /\ Turns(c, AfterIdle(c))
  /\ UNCHANGED <<vars, board, ready, timer, stopper, joined, posted>>

(***************************************************************************)
(* The specification.                                                      *)
(***************************************************************************)
TimerDue ==
  /\ board /\ timer = "set" /\ timer' = "due"
  /\ UNCHANGED <<vars, board, mode, ready, stopper, joined, posted>>

\* What a goroutine may do, or never do.
Goroutine(c) ==
  \/ Makes(c) \/ SetsTimer(c) \/ Blocks(c) \/ CallsHost(c) \/ BeginsStop(c)
  \/ \E t \in APs : Task(c, t)

Scheduler(c) ==
  \/ JoinsStop(c) \/ TakesWork(c) \/ RunsTimer(c) \/ FindsNothing(c)
  \/ SeesStopped(c) \/ StartsWorld(c) \/ LetsGo(c) \/ SemaTaken(c)
  \/ IdleWakes(c) \/ IdleParks(c) \/ IdleReturns(c)

\* The monitor's and the Host's part, as it is for any guest, no end made.
MonitorStep(c) == Monitor(c) /\ (board => result' = result) /\ UNCHANGED <<board, schedVars>>
HostStep(c) == HostReturns(c) /\ UNCHANGED <<board, schedVars>>
Begins == Serve /\ UNCHANGED <<board, schedVars>>

IdleNext ==
  \/ ~board /\ Next /\ UNCHANGED <<board, schedVars>>
  \/ board /\ (Begins \/ TimerDue \/ \E c \in CPUs : MonitorStep(c) \/ HostStep(c))
  \/ \E c \in CPUs : Goroutine(c) \/ Scheduler(c)

\* A park's deadline is a stop's wait, which passes, or the timer's.
InTime(c) == board /\ pc'[c] = "deadline" /\ pc[c] = "waiting" => mode[c] = "stopping" \/ timer # "set"

\* As VcpuSMP's, and a vCPU in the guest runs it: its scheduler goes on, and
\* is fair to goroutines and timers (a look is at both), a goroutine need not.
IdleSpec ==
  /\ IdleInit /\ [][IdleNext]_idleVars
  /\ \A c \in CPUs : /\ WF_idleVars(MonitorStep(c) /\ InTime(c))
                     /\ WF_idleVars(Scheduler(c))
  /\ SF_idleVars(\E c \in CPUs : TakesWork(c)) /\ SF_idleVars(\E c \in CPUs : RunsTimer(c))
  /\ WF_idleVars((IF board THEN Serve ELSE RunMain) /\ UNCHANGED <<board, schedVars>>)
  /\ WF_idleVars(WatchdogHalts /\ UNCHANGED <<board, schedVars>>)

(***************************************************************************)
(* What the code promises.                                                 *)
(***************************************************************************)

\* A stop of the world does not wait for the monitor's limit: once its
\* stopper has called CPUWake for all, each vCPU that has not joined is
\* awake or has its wake, one that looked just before and was on its way to
\* a park too (vmm/smp.go:114, "so that it looks again at once rather than at
\* the next call").
StopSeen ==
  \A s \in CPUs : board /\ stopper = s /\ (mode[s] = "stopwait" /\ pc[s] # "waking") =>
    \A c \in Others(s) \ joined : pc[c] = "waiting" => token[c]

InHost   == \E c \in CPUs : pc[c] = "inhost"
Stopping == stopper # None

\* The M of every vCPU begun has a goroutine, or a goroutine's stop, to go on with.
AllGoOn == \A c \in Begun : mode[c] \in {"run", "stopping", "stopwait", "world", "starts"}

\* A goroutine that can run is run and a timer that is due is, though every
\* vCPU has parked: an idle vCPU looks again while another runs the guest,
\* however long that one's goroutine goes on, and a park ends by its timer
\* (vmm/smp.go:20-29) -- unless a call of the Host's lasts or stops of the
\* world go on coming, or none is idle.
Excused == []InHost \/ []<>Stopping \/ []AllGoOn
WorkFound ==
  /\ ready > 0 ~> ready < MaxReady \/ Excused
  /\ timer = "due" ~> timer # "due" \/ Excused

\* A stop of the world is over, unless another's goroutine goes on: every
\* idle vCPU joins, and is let go.
WorldStops == Stopping ~> ~Stopping \/ [](\E c \in CPUs \ {stopper} : mode[c] = "run")

\* "[N]othing can make work but a Host call's return or a park's end"
\* (vmm/smp.go:27): so a park that lasts through a Host's call would leave
\* none undone.  It fails of a goroutine made before the call was: the
\* parked vCPU, its limit over in the call, does not look until it returns.
WorkFoundInCalls == ready > 0 ~> ready < MaxReady \/ []<>Stopping \/ []AllGoOn
================================================================================

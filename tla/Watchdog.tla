------------------------------- MODULE Watchdog -------------------------------
(***************************************************************************)
(* The watchdog of vmm/vmm.go and the clock it reads: vcpu.lastCall and    *)
(* vcpu.inHost, written by each vCPU's loop and by the CPUStart that       *)
(* starts it, read one field at a time by machine.watchdog.                *)
(*                                                                         *)
(* A stamp of lastCall is abstracted to its age against Config.Watchdog:   *)
(* "zero" is the field never written (the year 1970), "old" a stamp the    *)
(* limit has gone by since, "fresh" any other.  Elapse is the limit going  *)
(* by: every fresh stamp is old after it.  The monitor's own steps (the    *)
(* ones of a vCPU between its exit and its next entry but for the Host's   *)
(* call or the park, and the watchdog's look at one vCPU) take no time to  *)
(* speak of beside the limit, 60 s by default: Elapse waits for them.      *)
(*                                                                         *)
(* The model ends with the kill; module VcpuSMP has what it does.          *)
(***************************************************************************)
EXTENDS Integers

CONSTANT N               \* how many vCPUs the machine has (Config.CPUs)

ASSUME NAssumption == N \in Nat \ {0}

CPUs == 0 .. N - 1
Boot == 0
APs  == CPUs \ {Boot}
None == -1

VARIABLES
  pc,        \* where each vCPU's loop is
  starting,  \* the AP whose CPUStart each vCPU is inside, None if none
  lastCall,  \* the age of vcpu.lastCall
  inHost,    \* vcpu.inHost
  started,   \* the APs with vcpu.started
  killed,    \* m.killed
  scan,      \* the vCPU the watchdog looks at; N between ticks
  look,      \* what it has found of that vCPU so far
  doomed,    \* the vCPU it found overdue
  overran    \* the vCPUs the limit has gone by for without a call: what
             \* the watchdog is there to find (no variable of the code)

loopVars == <<pc, starting>>
dogVars  == <<killed, scan, look, doomed>>
vars     == <<loopVars, lastCall, inHost, started, dogVars, overran>>

(***************************************************************************)
(* Locations of a vCPU: an AP is "unstarted" until its goroutine takes the *)
(* start; "looping" is serve before loop's first line; a call is answered  *)
(* between "calling" and "called".                                         *)
(***************************************************************************)
\* Time may go by at these: the guest runs, or the Host answers, or a park.
Lasting == {"unstarted", "guest", "waiting"}

\* run has started the watchdog's goroutine and serves the boot vCPU.
Init ==
  /\ pc = [c \in CPUs |-> IF c = Boot THEN "looping" ELSE "unstarted"]
  /\ starting = [c \in CPUs |-> None]
  /\ lastCall = [c \in CPUs |-> "zero"]
  /\ inHost = [c \in CPUs |-> FALSE]
  /\ started = {}
  /\ killed = FALSE
  /\ scan = N
  /\ look = "vcpu"
  /\ doomed = None
  /\ overran = {}

(***************************************************************************)
(* A vCPU's loop.                                                          *)
(***************************************************************************)
Go(c, from, to) == ~killed /\ pc[c] = from /\ pc' = [pc EXCEPT ![c] = to]

Stamp(c) == lastCall' = [lastCall EXCEPT ![c] = "fresh"]

\* The AP's goroutine takes its start and serves.
TakesStart(c) ==
  /\ Go(c, "sent", "looping")
  /\ UNCHANGED <<starting, lastCall, inHost, started, dogVars, overran>>

\* loop's first line, and the guest is entered.
LoopBegins(c) ==
  /\ Go(c, "looping", "guest")
  /\ Stamp(c)
  /\ UNCHANGED <<starting, inHost, started, dogVars, overran>>

\* exception: the doorbell's store is a call, stamped before inHost is set.
\* c is out of the guest: had it overrun, it has called after all.
ExitToCall(c) ==
  /\ Go(c, "guest", "stamped")
  /\ Stamp(c)
  /\ overran' = overran \ {c}
  /\ UNCHANGED <<starting, inHost, started, dogVars>>

EnterCall(c) ==
  /\ Go(c, "stamped", "calling")
  /\ inHost' = [inHost EXCEPT ![c] = TRUE]
  /\ UNCHANGED <<starting, lastCall, started, dogVars, overran>>

\* The call is the Host's, the store's or a park: it may last.
CallWaits(c) ==
  /\ Go(c, "calling", "waiting")
  /\ UNCHANGED <<starting, lastCall, inHost, started, dogVars, overran>>

\* The call is CPUStart's, of an AP not started: its swap of started.
StartSwaps(c) ==
  /\ Go(c, "calling", "starting")
  /\ \E t \in APs \ started :
       /\ starting' = [starting EXCEPT ![c] = t]
       /\ started' = started \union {t}
  /\ UNCHANGED <<lastCall, inHost, dogVars, overran>>

\* ... then, the pages released, the AP's lastCall ...
StartStamps(c) ==
  /\ Go(c, "starting", "restamped")
  /\ Stamp(starting[c])
  /\ UNCHANGED <<starting, inHost, started, dogVars, overran>>

\* ... and its start sent.
StartSends(c) ==
  /\ ~killed
  /\ pc[c] = "restamped"
  /\ pc' = [pc EXCEPT ![c] = "answered", ![starting[c]] = "sent"]
  /\ starting' = [starting EXCEPT ![c] = None]
  /\ UNCHANGED <<lastCall, inHost, started, dogVars, overran>>

CallDone(c) ==
  /\ Go(c, "waiting", "answered")
  /\ UNCHANGED <<starting, lastCall, inHost, started, dogVars, overran>>

\* Mutant: a call's end is not stamped.
LeaveFirst_Unstamped(c) ==
  /\ Go(c, "answered", "returning")
  /\ UNCHANGED <<starting, lastCall, inHost, started, dogVars, overran>>

\* exception's deferred two: the stamp first ...
LeaveFirst(c) ==
  /\ Go(c, "answered", "returning")
  /\ Stamp(c)
  /\ UNCHANGED <<starting, inHost, started, dogVars, overran>>

\* ... then out of the call, and into the guest.
LeaveCall(c) ==
  /\ Go(c, "returning", "guest")
  /\ inHost' = [inHost EXCEPT ![c] = FALSE]
  /\ UNCHANGED <<starting, lastCall, started, dogVars, overran>>

(***************************************************************************)
(* The watchdog, and time.                                                 *)
(***************************************************************************)
Looks(at) == ~killed /\ scan < N /\ look = at

\* Mutant: the scan begins after the boot vCPU.
Tick_APsOnly ==
  /\ ~killed
  /\ scan = N
  /\ pc[Boot] # "looping"
  /\ scan' = 1
  /\ look' = "vcpu"
  /\ UNCHANGED <<loopVars, lastCall, inHost, started, killed, doomed, overran>>

\* The first tick is a quarter of the limit after the watchdog's start, the
\* boot vCPU's loop then begun.
Tick ==
  /\ ~killed
  /\ scan = N
  /\ pc[Boot] # "looping"
  /\ scan' = 0
  /\ look' = "vcpu"
  /\ UNCHANGED <<loopVars, lastCall, inHost, started, killed, doomed, overran>>

LookOn == scan' = scan + 1 /\ look' = "vcpu"

\* An AP not started is passed over.
LooksStarted ==
  /\ Looks("vcpu")
  /\ \/ scan \in APs \ started /\ LookOn
     \/ scan \in {Boot} \union started /\ look' = "host" /\ UNCHANGED scan
  /\ UNCHANGED <<loopVars, lastCall, inHost, started, killed, doomed, overran>>

LooksInHost ==
  /\ Looks("host")
  /\ look' = IF inHost[scan] THEN "call" ELSE "stamp"
  /\ UNCHANGED scan
  /\ UNCHANGED <<loopVars, lastCall, inHost, started, killed, doomed, overran>>

\* One in a call is stamped for it.
StampsForCall ==
  /\ Looks("call")
  /\ Stamp(scan)
  /\ LookOn
  /\ UNCHANGED <<loopVars, inHost, started, killed, doomed, overran>>

\* One in the guest is overdue when its stamp is old: killed, and halt.
LooksStamp ==
  /\ Looks("stamp")
  /\ IF lastCall[scan] = "fresh"
     THEN LookOn /\ UNCHANGED <<killed, doomed>>
     ELSE /\ killed' = TRUE
          /\ doomed' = scan
          /\ UNCHANGED <<scan, look>>
  /\ UNCHANGED <<loopVars, lastCall, inHost, started, overran>>

\* The limit goes by.
Elapse ==
  /\ ~killed
  /\ \A c \in CPUs : pc[c] \in Lasting
  /\ scan = N
  /\ lastCall' = [c \in CPUs |-> IF lastCall[c] = "fresh" THEN "old" ELSE lastCall[c]]
  /\ overran' = overran \union {c \in CPUs : pc[c] = "guest"}
  /\ UNCHANGED <<loopVars, inHost, started, dogVars>>

(***************************************************************************)
(* The specification.                                                      *)
(***************************************************************************)

\* The monitor's code on c's thread.
Answers(c) ==
  \/ TakesStart(c) \/ LoopBegins(c)
  \/ EnterCall(c)
  \/ CallWaits(c) \/ StartSwaps(c) \/ StartStamps(c) \/ StartSends(c)
  \/ LeaveFirst(c) \/ LeaveCall(c)

Dog == Tick \/ LooksStarted \/ LooksInHost \/ StampsForCall \/ LooksStamp

Next ==
  \/ \E c \in CPUs : Answers(c) \/ ExitToCall(c) \/ CallDone(c)
  \/ Dog
  \/ Elapse

Spec == Init /\ [][Next]_vars

\* The monitor's threads are scheduled.  The guest need not call, nor a
\* call end, nor time go by.
FairSpec == Spec /\ (\A c \in CPUs : WF_vars(Answers(c))) /\ WF_vars(Dog)

(***************************************************************************)
(* What the code promises.                                                 *)
(***************************************************************************)

\* "A vCPU in a call or parked is not running the guest" (vmm.go:658): the
\* watchdog finds a vCPU overdue only if it ran the guest for the limit;
\* neither a long Host call, nor a park, nor the moments about them when
\* inHost and lastCall disagree count against it.  The one vCPU it may find
\* wrongly is an AP whose start is under way (see OnlyOverrunKilled).
CallsDoNotCount ==
  doomed # None => doomed \in overran \/ \E c \in CPUs : starting[c] = doomed

\* "watchdog ends a guest one of whose vCPUs has run Watchdog without a
\* call" (vmm.go:656): and no other guest.  It
\* fails while a CPUStart has set started and not yet lastCall (smp.go:84-88).
OnlyOverrunKilled == killed => overran # {}

\* A vCPU that stays in the guest is found: the run is ended, unless the
\* vCPU calls after all (vmm.go:656).
OverrunEnds == \A c \in CPUs : c \in overran ~> (killed \/ c \notin overran)
=============================================================================

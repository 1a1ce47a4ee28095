-------------------------------- MODULE KvmRun --------------------------------
(***************************************************************************)
(* hv/kvm_linux.go: the process's one virtual machine, its vCPUs, and the  *)
(* protocol by which VCPUsExit makes a VCPURun on another thread return    *)
(* with ExitReasonCanceled: the vCPU's cancel flag, immediate_exit in its  *)
(* kvm_run page, and a signal to its thread, set in that order under the   *)
(* VM's lock and read and cleared by VCPURun without it.                   *)
(*                                                                         *)
(* A vCPU is its handle, its thread and its kernel state in one.  KVM_RUN  *)
(* is modelled by what it does with immediate_exit and with a signal: it   *)
(* returns EINTR at once when either is there at its start, and when a     *)
(* signal comes while the guest runs.  A signal to a thread outside the    *)
(* kernel is handled there and leaves nothing (the Go runtime's SIGURG).   *)
(* What a guest's exit says, and the registers, are left out.              *)
(***************************************************************************)
EXTENDS Integers, FiniteSets

CONSTANTS VCPUs,     \* the handles
          Askers     \* the threads that call VCPUsExit

None == "none"
ASSUME HandlesAssumption == None \notin VCPUs /\ None \notin Askers

VARIABLES
  created,   \* vm.created
  st,        \* a vCPU: not created, "alive", or destroyed (vm.vcpus[v] nil)
  pc,        \* where its thread is in VCPURun
  cancel,    \* vcpu.cancel
  immediate, \* immediate_exit of its kvm_run
  signal,    \* a signal is pending for its thread
  lock,      \* who holds vm's mutex across several steps
  todo,      \* the vCPUs an asker's VCPUsExit has still to make exit
  step,      \* where it is in the loop over them
  target,    \* the vCPU it is at
  owed       \* an exit asked of the vCPU and not yet returned Canceled to its
             \* caller (no variable of the code)

runVars == <<cancel, immediate, signal>>
askVars == <<lock, todo, step, target>>
vars == <<created, st, pc, runVars, askVars, owed>>

TypeOK ==
  /\ created \in BOOLEAN
  /\ st \in [VCPUs -> {"none", "alive", "gone"}]
  /\ pc \in [VCPUs -> {"out", "run", "guest", "eintr", "clear"}]
  /\ cancel \in [VCPUs -> BOOLEAN]
  /\ immediate \in [VCPUs -> BOOLEAN]
  /\ signal \in [VCPUs -> BOOLEAN]
  /\ lock \in Askers \union {None}
  /\ todo \in [Askers -> SUBSET VCPUs]
  /\ step \in [Askers -> {"idle", "cancel", "immediate", "signal"}]
  /\ target \in [Askers -> VCPUs \union {None}]
  /\ owed \in [VCPUs -> BOOLEAN]
  /\ \A k \in Askers : /\ lock = k <=> step[k] # "idle"
                       /\ target[k] = None <=> step[k] \in {"idle", "cancel"}

Init ==
  /\ created = FALSE
  /\ st = [c \in VCPUs |-> "none"]
  /\ pc = [c \in VCPUs |-> "out"]
  /\ cancel = [c \in VCPUs |-> FALSE]
  /\ immediate = [c \in VCPUs |-> FALSE]
  /\ signal = [c \in VCPUs |-> FALSE]
  /\ lock = None
  /\ todo = [k \in Askers |-> {}]
  /\ step = [k \in Askers |-> "idle"]
  /\ target = [k \in Askers |-> None]
  /\ owed = [c \in VCPUs |-> FALSE]

(***************************************************************************)
(* The machine and its vCPUs come and go, each call under the VM's lock.   *)
(***************************************************************************)

\* The one machine of the process; its table of vCPUs begins empty.
VMCreate ==
  /\ lock = None /\ ~created
  /\ created' = TRUE
  /\ st' = [c \in VCPUs |-> "none"]
  /\ UNCHANGED <<pc, runVars, askVars, owed>>

\* Refused (Busy) while a vCPU is left.
VMDestroy ==
  /\ lock = None /\ created
  /\ \A c \in VCPUs : st[c] # "alive"
  /\ created' = FALSE
  /\ UNCHANGED <<st, pc, runVars, askVars, owed>>

\* A new vCPU: a new handle, a new kvm_run page.
VCPUCreate(c) ==
  /\ lock = None /\ created
  /\ st[c] = "none"
  /\ st' = [st EXCEPT ![c] = "alive"]
  /\ cancel' = [cancel EXCEPT ![c] = FALSE]
  /\ immediate' = [immediate EXCEPT ![c] = FALSE]
  /\ UNCHANGED <<created, pc, signal, askVars, owed>>

\* Mutant: the VM's lock is not taken.
VCPUDestroy_Unlocked(c) ==
  /\ st[c] = "alive" /\ pc[c] = "out"
  /\ st' = [st EXCEPT ![c] = "gone"]
  /\ owed' = [owed EXCEPT ![c] = FALSE]
  /\ UNCHANGED <<created, pc, runVars, askVars>>

\* The kvm_run page is unmapped and the fd closed, by the vCPU's own thread.
VCPUDestroy(c) ==
  /\ lock = None
  /\ st[c] = "alive" /\ pc[c] = "out"
  /\ st' = [st EXCEPT ![c] = "gone"]
  /\ owed' = [owed EXCEPT ![c] = FALSE]
  /\ UNCHANGED <<created, pc, runVars, askVars>>

(***************************************************************************)
(* VCPURun.                                                                *)
(***************************************************************************)
Go(c, from, to) == pc[c] = from /\ pc' = [pc EXCEPT ![c] = to]

\* get finds the vCPU under the lock, and lets it go.
RunCalled(c) ==
  /\ lock = None
  /\ st[c] = "alive"
  /\ Go(c, "out", "run")
  /\ UNCHANGED <<created, st, runVars, askVars, owed>>

\* KVM_RUN enters the guest.
GuestEntered(c) ==
  /\ ~immediate[c] /\ ~signal[c]
  /\ Go(c, "run", "guest")
  /\ UNCHANGED <<created, st, runVars, askVars, owed>>

\* KVM_RUN returns EINTR without entering it.
NotEntered(c) ==
  /\ immediate[c] \/ signal[c]
  /\ Go(c, "run", "eintr")
  /\ signal' = [signal EXCEPT ![c] = FALSE]
  /\ UNCHANGED <<created, st, cancel, immediate, askVars, owed>>

\* A signal ends a KVM_RUN under way.
Interrupted(c) ==
  /\ signal[c]
  /\ Go(c, "guest", "eintr")
  /\ signal' = [signal EXCEPT ![c] = FALSE]
  /\ UNCHANGED <<created, st, cancel, immediate, askVars, owed>>

\* The guest makes an exit of its own, or KVM_RUN fails: VCPURun returns
\* with it, an exit asked for meanwhile kept for the next.
GuestExits(c) ==
  /\ Go(c, "guest", "out")
  /\ UNCHANGED <<created, st, runVars, askVars, owed>>

\* Interrupted for a VCPUsExit: cancel is taken ...
CancelTaken(c) ==
  /\ cancel[c]
  /\ Go(c, "eintr", "clear")
  /\ cancel' = [cancel EXCEPT ![c] = FALSE]
  /\ UNCHANGED <<created, st, immediate, signal, askVars, owed>>

\* ... then immediate_exit cleared, and ExitReasonCanceled returned.
ReturnsCanceled(c) ==
  /\ Go(c, "clear", "out")
  /\ immediate' = [immediate EXCEPT ![c] = FALSE]
  /\ owed' = [owed EXCEPT ![c] = FALSE]
  /\ UNCHANGED <<created, st, cancel, signal, askVars>>

\* Mutant: an interrupted run is run again whoever interrupted it.
Spurious_Always(c) ==
  /\ Go(c, "eintr", "run")
  /\ cancel' = [cancel EXCEPT ![c] = FALSE]
  /\ UNCHANGED <<created, st, immediate, signal, askVars, owed>>

\* Interrupted by a signal nobody asked for: run again.
Spurious(c) ==
  /\ ~cancel[c]
  /\ Go(c, "eintr", "run")
  /\ UNCHANGED <<created, st, runVars, askVars, owed>>

\* The Go runtime's own preemption of a thread.
Preempted(c) ==
  /\ st[c] = "alive" /\ ~signal[c]
  /\ signal' = [signal EXCEPT ![c] = TRUE]
  /\ UNCHANGED <<created, st, pc, cancel, immediate, askVars, owed>>

\* A signal handled outside the kernel.
SignalHandled(c) ==
  /\ pc[c] \in {"out", "eintr", "clear"}
  /\ signal[c]
  /\ signal' = [signal EXCEPT ![c] = FALSE]
  /\ UNCHANGED <<created, st, pc, cancel, immediate, askVars, owed>>

(***************************************************************************)
(* VCPUsExit.                                                              *)
(***************************************************************************)
ExitAsked(k) ==
  /\ step[k] = "idle"
  /\ lock = None
  /\ lock' = k
  /\ \E s \in SUBSET VCPUs \ {{}} : todo' = [todo EXCEPT ![k] = s]
  /\ step' = [step EXCEPT ![k] = "cancel"]
  /\ UNCHANGED <<created, st, pc, runVars, target, owed>>

\* Mutant: a return without the unlock.
AskOver_Locked(k) ==
  /\ UNCHANGED lock
  /\ todo' = [todo EXCEPT ![k] = {}]
  /\ step' = [step EXCEPT ![k] = "idle"]
  /\ target' = [target EXCEPT ![k] = None]

\* The call is over: k lets the lock go.
AskOver(k) ==
  /\ lock' = None
  /\ todo' = [todo EXCEPT ![k] = {}]
  /\ step' = [step EXCEPT ![k] = "idle"]
  /\ target' = [target EXCEPT ![k] = None]

\* One of those named is no vCPU any more: BadArgument, the rest left.
AskRefused(k) ==
  /\ step[k] = "cancel"
  /\ \E c \in todo[k] : st[c] # "alive"
  /\ AskOver(k)
  /\ UNCHANGED <<created, st, pc, runVars, owed>>

SetsCancel(k) ==
  /\ step[k] = "cancel"
  /\ \E c \in todo[k] :
       /\ st[c] = "alive"
       /\ cancel' = [cancel EXCEPT ![c] = TRUE]
       /\ owed' = [owed EXCEPT ![c] = TRUE]
       /\ target' = [target EXCEPT ![k] = c]
  /\ step' = [step EXCEPT ![k] = "immediate"]
  /\ UNCHANGED <<created, st, pc, immediate, signal, lock, todo>>

\* Mutant: only the signal is relied on.
SetsImmediate_Not(k) ==
  /\ step[k] = "immediate"
  /\ step' = [step EXCEPT ![k] = "signal"]
  /\ UNCHANGED <<created, st, pc, runVars, lock, todo, target, owed>>

SetsImmediate(k) ==
  /\ step[k] = "immediate"
  /\ immediate' = [immediate EXCEPT ![target[k]] = TRUE]
  /\ step' = [step EXCEPT ![k] = "signal"]
  /\ UNCHANGED <<created, st, pc, cancel, signal, lock, todo, target, owed>>

SendsSignal(k) ==
  /\ step[k] = "signal"
  /\ signal' = [signal EXCEPT ![target[k]] = TRUE]
  /\ IF todo[k] = {target[k]}
     THEN AskOver(k)
     ELSE /\ todo' = [todo EXCEPT ![k] = @ \ {target[k]}]
          /\ step' = [step EXCEPT ![k] = "cancel"]
          /\ target' = [target EXCEPT ![k] = None]
          /\ UNCHANGED lock
  /\ UNCHANGED <<created, st, pc, cancel, immediate, owed>>

(***************************************************************************)
(* The specification.                                                      *)
(***************************************************************************)

\* A vCPU's thread inside VCPURun, but for the guest's own exits.
Running(c) ==
  \/ GuestEntered(c) \/ NotEntered(c) \/ Interrupted(c)
  \/ CancelTaken(c) \/ ReturnsCanceled(c) \/ Spurious(c)

Asking(k) == AskRefused(k) \/ SetsCancel(k) \/ SetsImmediate(k) \/ SendsSignal(k)

Next ==
  \/ VMCreate \/ VMDestroy
  \/ \E c \in VCPUs : \/ VCPUCreate(c) \/ VCPUDestroy(c)
                      \/ RunCalled(c) \/ Running(c) \/ GuestExits(c)
                      \/ Preempted(c) \/ SignalHandled(c)
  \/ \E k \in Askers : ExitAsked(k) \/ Asking(k)

Spec == Init /\ [][Next]_vars

\* The threads are scheduled, a VCPUsExit begun is finished, and a vCPU is
\* run again for as long as it is not destroyed (strongly: its get waits for
\* a lock that others may keep taking).  The guest need never exit.
FairSpec ==
  /\ Spec
  /\ \A c \in VCPUs : WF_vars(Running(c)) /\ SF_vars(RunCalled(c))
  /\ \A k \in Askers : WF_vars(Asking(k))

(***************************************************************************)
(* What the code promises.                                                 *)
(***************************************************************************)

\* "A VCPUsExit from another thread finds the vCPU whole or not at all"
\* (kvm_linux.go:297): the page it writes and the thread it signals are the
\* ones of a vCPU not destroyed since it was looked up.
TargetWhole ==
  \A k \in Askers : step[k] \in {"immediate", "signal"} => st[target[k]] = "alive"

\* An asker has still to set immediate_exit of c, or to signal its thread.
BeingAsked(c) == \E k \in Askers : target[k] = c

\* "Each vCPU named, running or about to, returns from VCPURun with
\* ExitReasonCanceled" (kvm_linux.go:312): once the call is over, one that
\* runs the guest has a signal on its way, one about to enter does not.
AskedLeaves ==
  \A c \in VCPUs : owed[c] /\ ~BeingAsked(c) =>
    /\ pc[c] = "guest" => signal[c]
    /\ pc[c] = "run" => immediate[c]

\* The same over time: every exit asked for is returned to the vCPU's
\* caller, unless the vCPU is destroyed first, whatever signals of others
\* come between and however often it is asked.
AskedReturns == \A c \in VCPUs : owed[c] ~> ~owed[c]

\* "A KVM_RUN interrupted by a signal the caller did not ask for (VCPUsExit)
\* is run again, as the framework would not have returned" (kvm_linux.go:332):
\* a run nobody asks to leave is not refused by KVM.  It fails when the cancel
\* flag is taken before its asker has set immediate_exit: nothing clears it
\* then, and VCPURun calls KVM_RUN for ever, neither in the guest nor back.
UnaskedEnters ==
  \A c \in VCPUs : pc[c] = "run" /\ ~cancel[c] /\ ~BeingAsked(c) => ~immediate[c]
=============================================================================

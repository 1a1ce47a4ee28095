---------------------------- MODULE KvmRun_proofs ----------------------------
(***************************************************************************)
(* What KvmRun promises, proved for any vCPUs and any threads that ask.    *)
(***************************************************************************)
EXTENDS KvmRun, TLAPS

\* Types, and that the one asker inside VCPUsExit is the one with the lock.
LEMMA TypeInit == Init => TypeOK
  <1> SUFFICES ASSUME Init PROVE TypeOK
    OBVIOUS
  <1>1. /\ created \in BOOLEAN /\ st \in [VCPUs -> {"none", "alive", "gone"}]
        /\ pc \in [VCPUs -> {"out", "run", "guest", "eintr", "clear"}]
        /\ cancel \in [VCPUs -> BOOLEAN] /\ immediate \in [VCPUs -> BOOLEAN]
        /\ signal \in [VCPUs -> BOOLEAN] /\ owed \in [VCPUs -> BOOLEAN]
    BY DEF Init
  <1>2. /\ lock = None /\ todo \in [Askers -> SUBSET VCPUs]
        /\ step \in [Askers -> {"idle", "cancel", "immediate", "signal"}]
        /\ target \in [Askers -> VCPUs \union {None}]
    BY DEF Init
  <1>3. \A k \in Askers : step[k] = "idle" /\ target[k] = None
    BY DEF Init
  <1>4. QED
    BY <1>1, <1>2, <1>3, HandlesAssumption DEF TypeOK

LEMMA TypeStep == TypeOK /\ [Next]_vars => TypeOK'
  <1> SUFFICES ASSUME TypeOK, [Next]_vars PROVE TypeOK'
    OBVIOUS
  <1> USE HandlesAssumption DEF TypeOK, runVars, askVars, Go
  <1>1. CASE VMCreate BY <1>1 DEF VMCreate
  <1>2. CASE VMDestroy BY <1>2 DEF VMDestroy
  <1>3. ASSUME NEW c \in VCPUs,
               VCPUCreate(c) \/ VCPUDestroy(c) \/ RunCalled(c) \/ GuestExits(c)
        PROVE  TypeOK'
    <2>1. CASE VCPUCreate(c) BY <2>1 DEF VCPUCreate
    <2>2. CASE VCPUDestroy(c) BY <2>2 DEF VCPUDestroy
    <2>3. CASE RunCalled(c) BY <2>3 DEF RunCalled
    <2>4. CASE GuestExits(c) BY <2>4 DEF GuestExits
    <2>5. QED BY <1>3, <2>1, <2>2, <2>3, <2>4
  <1>4. ASSUME NEW c \in VCPUs, Running(c) PROVE TypeOK'
    <2>1. CASE GuestEntered(c) BY <2>1 DEF GuestEntered
    <2>2. CASE NotEntered(c) BY <2>2 DEF NotEntered
    <2>3. CASE Interrupted(c) BY <2>3 DEF Interrupted
    <2>4. CASE CancelTaken(c) BY <2>4 DEF CancelTaken
    <2>5. CASE ReturnsCanceled(c) BY <2>5 DEF ReturnsCanceled
    <2>6. CASE Spurious(c) BY <2>6 DEF Spurious
    <2>7. QED BY <1>4, <2>1, <2>2, <2>3, <2>4, <2>5, <2>6 DEF Running
  <1>5. ASSUME NEW c \in VCPUs, Preempted(c) \/ SignalHandled(c) PROVE TypeOK'
    BY <1>5 DEF Preempted, SignalHandled
  <1>6. ASSUME NEW k \in Askers, ExitAsked(k) PROVE TypeOK'
    BY <1>6 DEF ExitAsked
  <1>7. ASSUME NEW k \in Askers, Asking(k) PROVE TypeOK'
    <2>1. CASE AskRefused(k) BY <2>1 DEF AskRefused, AskOver
    <2>2. CASE SetsCancel(k) BY <2>2 DEF SetsCancel
    <2>3. CASE SetsImmediate(k) BY <2>3 DEF SetsImmediate
    <2>4. CASE SendsSignal(k) BY <2>4 DEF SendsSignal, AskOver
    <2>5. QED BY <1>7, <2>1, <2>2, <2>3, <2>4 DEF Asking
  <1>8. CASE UNCHANGED vars BY <1>8 DEF vars
  <1>9. QED
    BY <1>1, <1>2, <1>3, <1>4, <1>5, <1>6, <1>7, <1>8 DEF Next

\* The vCPUs' and the askers' locations stay what they are, and VCPUsExit
\* runs in one thread at a time, the one that has the VM's lock.
THEOREM TypeCorrect == Spec => []TypeOK
  BY TypeInit, TypeStep, PTL DEF Spec

-----------------------------------------------------------------------------
(***************************************************************************)
(* An exit asked for leaves marks on its vCPU until it is returned: cancel *)
(* from the first step on, immediate_exit from the second, a signal from   *)
(* the third.  Only the vCPU's own VCPURun takes them, in its last two     *)
(* steps.  AskInv says which marks are there at which step.                *)
(***************************************************************************)

\* Only an alive vCPU owes an exit; without a machine there is none.
OwedAlive ==
  /\ \A c \in VCPUs : owed[c] => st[c] = "alive"
  /\ ~created => \A c \in VCPUs : st[c] # "alive"

\* Between SetsCancel and SetsImmediate.
AboutToSet(c) == \E k \in Askers : step[k] = "immediate" /\ target[k] = c

OwedMarked ==
  \A c \in VCPUs : owed[c] /\ pc[c] # "clear" =>
    /\ cancel[c]
    /\ ~AboutToSet(c) => immediate[c]

OwedSignalled ==
  \A c \in VCPUs : owed[c] /\ ~BeingAsked(c) /\ pc[c] = "guest" => signal[c]

AskInv == TypeOK /\ TargetWhole /\ OwedAlive /\ OwedMarked /\ OwedSignalled

LEMMA AskInit == Init => AskInv
  BY TypeInit DEF Init, AskInv, TargetWhole, OwedAlive, OwedMarked, OwedSignalled

LEMMA AskStep == AskInv /\ [Next]_vars => AskInv'
  <1> SUFFICES ASSUME AskInv, [Next]_vars PROVE AskInv'
    OBVIOUS
  <1>1. TypeOK /\ TypeOK'
    BY TypeStep DEF AskInv
  <1>2. /\ TargetWhole /\ OwedAlive /\ OwedMarked /\ OwedSignalled
        /\ AskInv' <=> (TargetWhole /\ OwedAlive /\ OwedMarked /\ OwedSignalled)'
    BY <1>1 DEF AskInv
  <1> USE <1>1, <1>2, HandlesAssumption
      DEF TypeOK, runVars, askVars, Go, TargetWhole, OwedAlive, OwedMarked,
          OwedSignalled, AboutToSet, BeingAsked
  <1>3. CASE VMCreate BY <1>3 DEF VMCreate
  <1>4. CASE VMDestroy BY <1>4 DEF VMDestroy
  <1>5. ASSUME NEW c \in VCPUs, VCPUCreate(c) PROVE AskInv'
    BY <1>5 DEF VCPUCreate
  <1>6. ASSUME NEW c \in VCPUs, VCPUDestroy(c) PROVE AskInv'
    BY <1>6 DEF VCPUDestroy
  <1>7. ASSUME NEW c \in VCPUs, RunCalled(c) PROVE AskInv'
    BY <1>7 DEF RunCalled
  <1>8. ASSUME NEW c \in VCPUs, GuestExits(c) PROVE AskInv'
    BY <1>8 DEF GuestExits
  <1>9. ASSUME NEW c \in VCPUs, Running(c) PROVE AskInv'
    <2>1. CASE GuestEntered(c) BY <2>1 DEF GuestEntered
    <2>2. CASE NotEntered(c) BY <2>2 DEF NotEntered
    <2>3. CASE Interrupted(c) BY <2>3 DEF Interrupted
    <2>4. CASE CancelTaken(c) BY <2>4 DEF CancelTaken
    <2>5. CASE ReturnsCanceled(c) BY <2>5 DEF ReturnsCanceled
    <2>6. CASE Spurious(c) BY <2>6 DEF Spurious
    <2>7. QED BY <1>9, <2>1, <2>2, <2>3, <2>4, <2>5, <2>6 DEF Running
  <1>10. ASSUME NEW c \in VCPUs, Preempted(c) PROVE AskInv'
    BY <1>10 DEF Preempted
  <1>11. ASSUME NEW c \in VCPUs, SignalHandled(c) PROVE AskInv'
    BY <1>11 DEF SignalHandled
  <1>12. ASSUME NEW k \in Askers, ExitAsked(k) PROVE AskInv'
    BY <1>12 DEF ExitAsked
  <1>13. ASSUME NEW k \in Askers, Asking(k) PROVE AskInv'
    <2>1. CASE AskRefused(k) BY <2>1 DEF AskRefused, AskOver
    <2>2. CASE SetsCancel(k) BY <2>2 DEF SetsCancel
    <2>3. CASE SetsImmediate(k) BY <2>3 DEF SetsImmediate
    <2>4. CASE SendsSignal(k) BY <2>4 DEF SendsSignal, AskOver
    <2>5. QED BY <1>13, <2>1, <2>2, <2>3, <2>4 DEF Asking
  <1>14. CASE UNCHANGED vars BY <1>14 DEF vars
  <1>15. QED
    BY <1>3, <1>4, <1>5, <1>6, <1>7, <1>8, <1>9, <1>10, <1>11, <1>12, <1>13, <1>14 DEF Next

LEMMA AskInvariant == Spec => []AskInv
  BY AskInit, AskStep, PTL DEF Spec

\* The vCPU whose page is written and whose thread is signalled is one not
\* destroyed since it was looked up: VCPUsExit keeps the VM's lock over the
\* whole loop and VCPUDestroy takes it (kvm_linux.go:297, 312).
THEOREM ExitFindsItWhole == Spec => []TargetWhole
  BY AskInvariant, PTL DEF AskInv

\* Once a VCPUsExit is over, each vCPU it named that has not returned
\* Canceled yet cannot stay in the guest: it has a signal on its way there,
\* and immediate_exit set before (kvm_linux.go:312).
THEOREM ExitTakesHold == Spec => []AskedLeaves
  <1>1. AskInv => AskedLeaves
    BY DEF AskInv, AskedLeaves, OwedMarked, OwedSignalled, BeingAsked, AboutToSet
  <1>2. QED
    BY <1>1, AskInvariant, PTL
=============================================================================

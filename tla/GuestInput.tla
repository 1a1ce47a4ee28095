------------------------------ MODULE GuestInput ------------------------------
(***************************************************************************)
(* The way of a key from the terminal to the core, the whole of it: the    *)
(* terminal host (TermHost), and who calls it.  A native editor's core     *)
(* calls it itself.  A guest's core calls the guest runtime (guest/rt/     *)
(* rt.c, and guest/tamago/main.go, which is the same in Go), whose calls   *)
(* the monitor answers on its host (vmm/vmm.go, call), a wait and the read *)
(* after it as one: the runtime keeps what was read ahead and serves the   *)
(* core's next reads from it, with no exit.  A deadly signal unwinds the   *)
(* monitor's call and comes back to the guest as its event.                *)
(*                                                                         *)
(* Both are one specification: Init is given the core's deathtrap, or the  *)
(* monitor's.  A read that brings nothing stands for -1 and for 0.         *)
(***************************************************************************)
EXTENDS TermHost

CONSTANT InputBytes      \* WHIM_INPUT_BYTES, the most the merged read asks
ASSUME InputAssumption == InputBytes \in Nat /\ InputBytes >= 32

VARIABLES
  core,      \* the call the core's goroutine is in, "runs" in none
  held,      \* whim_input_kept: a read's answer is kept
  kept,      \* what is left of it, from whim_input_at, whim_input_ret long
  told,      \* the last wait said there is input, and no read since
  got,       \* what the last read brought the core
  known      \* the size last reported to the core (no variable of the code)

keptVars == <<held, kept>>
seenVars == <<told, got, known>>
coreVars == <<core, keptVars, seenVars>>
vars == <<hostVars, coreVars>>

guest == deathtrap = "monitor"

TypeOK ==
  /\ HostTypeOK
  /\ core \in {"runs", "waits", "wait_reads", "reads", "delays", "raises"}
  /\ <<held, told>> \in BOOLEAN \X BOOLEAN
  /\ kept \in Seq(Input) /\ (kept # <<>> => held) /\ (held => guest)
  /\ got \in Seq(Input)
  /\ known \in 0 .. size

Init ==
  /\ HostInit
  /\ core = "runs"
  /\ held = FALSE /\ kept = <<>>
  /\ told = FALSE /\ got = <<>>
  /\ known = 0

\* The call the core makes begins, what its last one brought taken in.
Enters(call) == core = "runs" /\ core' = call /\ told' = FALSE /\ got' = <<>> /\ UNCHANGED known

\* The host's call is over, its answer taken.
Leaves ==
  /\ pc = "done" /\ pc' = "out"
  /\ bytes' = <<>> /\ there' = FALSE /\ forever' = FALSE
  /\ core' = "runs"
  /\ UNCHANGED <<sigVars, flagVars, pipe, room, envVars>>

\* The core has read what: the last size it reports is known.
Reads(what) ==
  /\ got' = what
  /\ known' = IF \E i \in DOMAIN what : what[i][1] = "size"
              THEN (CHOOSE x \in ToSet(what) : x[1] = "size")[2]
              ELSE known
  /\ told' = FALSE

(***************************************************************************)
(* The waits.                                                              *)
(***************************************************************************)

\* Mutant: the wait is a call though a read's answer is kept.
CoreWaits_Always ==
  /\ Enters("waits")
  /\ \E for \in BOOLEAN : WaitCalled(for)
  /\ UNCHANGED keptVars

\* Nothing is kept: a call, the guest's WHIM_WAIT_READ.
CoreWaits ==
  /\ ~held
  /\ Enters("waits")
  /\ \E for \in BOOLEAN : WaitCalled(for)
  /\ UNCHANGED keptVars

\* While any is kept a wait is answered in the guest.
WaitsOnKept ==
  /\ core = "runs" /\ pc = "out"
  /\ held
  /\ told' = TRUE /\ got' = <<>>
  /\ UNCHANGED <<hostVars, core, keptVars, known>>

\* The monitor goes on to the read when the wait says yes.
WaitAnswered ==
  /\ core = "waits" /\ pc = "done"
  /\ IF guest /\ there
     THEN /\ pc' = "r_drain" /\ core' = "wait_reads"
          /\ room' = InputBytes /\ bytes' = <<>>
          /\ UNCHANGED <<sigVars, flagVars, pipe, forever, there, envVars, told>>
     ELSE Leaves /\ told' = there
  /\ UNCHANGED <<keptVars, got, known>>

WaitReadAnswered ==
  /\ core = "wait_reads" /\ Leaves
  /\ held' = TRUE /\ kept' = bytes
  /\ told' = TRUE
  /\ UNCHANGED <<got, known>>

(***************************************************************************)
(* The reads.                                                              *)
(***************************************************************************)
CoreReads ==
  /\ ~held
  /\ Enters("reads")
  /\ \E most \in Rooms : ReadCalled(most)
  /\ UNCHANGED keptVars

ReadAnswered ==
  /\ core = "reads" /\ Leaves
  /\ Reads(bytes)
  /\ UNCHANGED keptVars

\* A read served in the guest: as many as it asks of what is kept, or the -1.
ReadsKept ==
  /\ core = "runs" /\ pc = "out"
  /\ held
  /\ \E n \in 0 .. Len(kept) :
       /\ n > 0 \/ kept = <<>>
       /\ Reads(SubSeq(kept, 1, n))
       /\ kept' = SubSeq(kept, n + 1, Len(kept))
       /\ held' = (kept' # <<>>)
  /\ UNCHANGED <<hostVars, core>>

(***************************************************************************)
(* Delays and raises, and what a call unwound leaves the guest.            *)
(***************************************************************************)
CoreDelays == Enters("delays") /\ DelayCalled /\ UNCHANGED keptVars
CoreRaises == Enters("raises") /\ RaiseCalled /\ UNCHANGED keptVars

CallDone == core \in {"delays", "raises"} /\ Leaves /\ UNCHANGED <<keptVars, seenVars>>

\* Mutant: the call is over, its answer 0.
TakesEvent_Once ==
  /\ pc = "deadly"
  /\ \/ pc' = "ended" /\ UNCHANGED core
     \/ pc' = "out" /\ core' = "runs"
  /\ bytes' = <<>> /\ there' = FALSE
  /\ UNCHANGED <<sigVars, flagVars, pipe, room, forever, envVars, keptVars, seenVars>>

\* The event: deathtrap in the guest ends it, or returns, and a wait or a
\* read is made again.
TakesEvent ==
  /\ pc = "deadly"
  /\ \/ pc' = "ended" /\ UNCHANGED core
     \/ core \in {"waits", "wait_reads"} /\ pc' = "w_drain" /\ core' = "waits"
     \/ core = "reads" /\ pc' = "r_drain" /\ UNCHANGED core
     \/ core \in {"delays", "raises"} /\ pc' = "out" /\ core' = "runs"
  /\ bytes' = <<>> /\ there' = FALSE
  /\ UNCHANGED <<sigVars, flagVars, pipe, room, forever, envVars, keptVars, seenVars>>

(***************************************************************************)
(* The specification.                                                      *)
(***************************************************************************)
Answers == WaitAnswered \/ WaitReadAnswered \/ ReadAnswered \/ CallDone \/ TakesEvent
Hosts   == (World \/ Goroutine \/ InCall) /\ UNCHANGED coreVars

Next ==
  \/ Hosts \/ Answers
  \/ CoreWaits \/ WaitsOnKept \/ CoreReads \/ ReadsKept \/ CoreDelays \/ CoreRaises

Spec == Init /\ [][Next]_vars

\* The goroutines are scheduled, the monitor and the guest run; the core
\* polls (ui_breakcheck, or its wait for a key), and reads when a wait has
\* told it there is input (fill_input_buf, its buffer not full).
FairSpec ==
  /\ Spec
  /\ WF_vars(Goroutine /\ UNCHANGED coreVars) /\ WF_vars(InCall /\ UNCHANGED coreVars)
  /\ WF_vars(Answers)
  /\ SF_vars(CoreWaits \/ WaitsOnKept) /\ SF_vars(told /\ (CoreReads \/ ReadsKept))

(***************************************************************************)
(* What the code promises.                                                 *)
(***************************************************************************)

\* A read brings bytes of the tty, or one signal's key or report: its bytes.
BytesOf(s) == IF \A i \in DOMAIN s : s[i][1] = "byte" THEN s ELSE <<>>

\* What is typed comes to the core in order and once, the guest's reading
\* ahead and its calls made again between: the merged read is of bytes no
\* call since has passed, and a deadly signal unwinds before one is read
\* (vmm.go:569-571, rt.c:190-203).
TypedBytes == {Typed(b) : b \in Bytes}
Stream == INSTANCE TtyStream WITH
  Bytes <- TypedBytes,
  queue <- BytesOf(kept) \o BytesOf(bytes) \o tty,
  got   <- BytesOf(got)
TtyInOrder == Stream!Spec

\* A core told there is input can read without being held up: what a wait
\* saw is there until the read, in the guest, the flags or the tty.
ToldIsThere == told /\ Running => held \/ winch \/ tstp \/ int \/ tty # <<>>

\* A wait with no end answers only that there is input, the signals and the
\* calls unwound by a deadly one between (rt.c:96-99): an editor that is not
\* to die goes on waiting.
WaitsOn == [][core = "waits" /\ core' = "runs" /\ ~told' => ~forever]_vars

\* Every resize is reported to the core in the end, the last size with it,
\* however resizes, keys and other signals come between (term.go:369-374),
\* in the guest behind what was read ahead.
ResizeSeen == Running /\ known # size ~> ~Running \/ known = size

\* SIGTERM and SIGHUP run deathtrap "at the next point the host is entered
\* to wait, read or sleep" (term.go:21-23), a wait without an end left for
\* it, and a guest's waits on kept bytes not for ever in its way.
DeathComes == Running /\ dying > 0 ~> ~Running \/ dying = 0

\* The core polls, and may have no room to read into (fill_input_buf).
PollSpec ==
  /\ Spec
  /\ WF_vars(Goroutine /\ UNCHANGED coreVars) /\ WF_vars(InCall /\ UNCHANGED coreVars)
  /\ WF_vars(Answers)
  /\ SF_vars(CoreWaits \/ WaitsOnKept)
===============================================================================

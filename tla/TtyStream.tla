------------------------------ MODULE TtyStream ------------------------------
(***************************************************************************)
(* What the editor may count on of its terminal's input (editor/host.go's  *)
(* ReadInput): the bytes typed come to the core in the order they were     *)
(* typed, each once, however reads, signals and the guest's reading ahead  *)
(* come between.  Module GuestInput implements it.                         *)
(***************************************************************************)
EXTENDS Naturals, Sequences

CONSTANT Bytes

VARIABLES
  queue,     \* the bytes typed and not yet the core's
  got        \* what the core's last read brought

Init == queue = <<>> /\ got = <<>>

Types == \E b \in Bytes : queue' = Append(queue, b) /\ UNCHANGED got

Takes ==
  \E n \in 1 .. Len(queue) :
    /\ got' = SubSeq(queue, 1, n)
    /\ queue' = SubSeq(queue, n + 1, Len(queue))

\* The core goes on, or a read brings nothing.
GoesOn == got' = <<>> /\ UNCHANGED queue

Spec == Init /\ [][Types \/ Takes \/ GoesOn]_<<queue, got>>
==============================================================================

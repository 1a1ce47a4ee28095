------------------------------- MODULE TermHost -------------------------------
(***************************************************************************)
(* The terminal host of editor/term/term.go: the goroutine that stands for *)
(* the C's signal handlers (signals), and the calls of the core's          *)
(* goroutine that look for what it left, WaitForInput, ReadInput and       *)
(* Delay, with the wake-up pipe between them.                              *)
(*                                                                         *)
(* The pipe is whether it holds a byte.  The terminal's size is a number   *)
(* that goes up; a resize sends SIGWINCH.  What a read brings is a         *)
(* sequence: bytes of the tty, or one thing that stands for a signal's key *)
(* sequence.  SIGHUP goes as SIGTERM does, SIGCONT as SIGWINCH.  Who calls *)
(* the host, the core or the monitor for a guest's, is module GuestInput.  *)
(***************************************************************************)
EXTENDS Integers, Sequences, SequencesExt

CONSTANTS Bytes,      \* the bytes a tty may hold
          Rooms,      \* what the core's reads may ask for, in bytes
          MaxTyped,   \* bound: bytes typed and not read
          ChanCap,    \* bound: signals caught and not yet taken (the code's is
                      \* 64, and os/signal drops one more; it keeps up here)
          MaxSent,    \* bound: signals sent or raised, resizes' own apart
          MaxSize     \* bound: resizes

ASSUME TermAssumption ==
  /\ MaxTyped \in Nat
  /\ Rooms \subseteq Nat \ {0} /\ Rooms # {}
  /\ ChanCap \in Nat \ {0} /\ MaxSent \in Nat /\ MaxSize \in Nat

VARIABLES
  sigch,     \* signals os/signal has caught and the goroutine not taken
  taken,     \* the signal the goroutine is at, "none" between two
  at,        \* where in it: its flag to set, or the pipe to write
  winch, tstp, int,      \* winchPending, tstpPending, intPending
  dying,     \* how many are queued for deathtrap
  pipe,      \* the wake-up pipe holds a byte
  tty,       \* stdin's bytes not read
  size,      \* the terminal's size
  pc,        \* where the goroutine in the host is, "out" when none is
  room,      \* the read's
  forever,   \* the wait has no timeout
  there,     \* the wait's answer
  bytes,     \* the read's: what it brought, nothing for its -1
  deathtrap, \* what Init was given: the core's own, or the monitor's, a
             \* panic out of the call
  sent       \* signals sent or raised (bound)

flagVars == <<winch, tstp, int, dying>>
sigVars  == <<sigch, taken, at>>
callVars == <<room, forever, there, bytes>>
envVars  == <<tty, size, deathtrap, sent>>
hostVars == <<sigVars, flagVars, pipe, pc, callVars, envVars>>

Signals == {"winch", "tstp", "int", "term"}

\* What a read brings: the tty's bytes, or a signal as the editor reads it.
Typed(b)  == <<"byte", b>>
Key(k)    == <<"key", k>>
Report(n) == <<"size", n>>
Input     == {Typed(b) : b \in Bytes} \union {Key("int"), Key("tstp")} \union {Report(n) : n \in 0 .. MaxSize}

\* The host's caller: outside, in a call, the call done or unwound by the
\* monitor's deathtrap, or the process ended.  Each call drains the pipe,
\* delivers, looks at the flags, and selects, in its own order.
Selecting == {"w_select", "r_select"}
Locations == Selecting \union {"out", "done", "deadly", "ended", "w_drain", "w_deliver", "w_flags",
  "r_drain", "r_deliver", "r_int", "r_winch", "r_size", "r_tstp", "r_again", "r_last", "r_read",
  "d_deliver", "d_drain", "d_select", "d_last"}

HostTypeOK ==
  /\ sigch \in Seq(Signals) /\ Len(sigch) <= ChanCap
  /\ taken \in Signals \union {"none"}
  /\ at \in {"flag", "wake"}
  /\ <<winch, tstp, int, pipe, forever, there>> \in [1 .. 6 -> BOOLEAN]
  /\ tty \in Seq({Typed(b) : b \in Bytes}) /\ Len(tty) <= MaxTyped
  /\ bytes \in Seq(Input)
  /\ deathtrap \in {"core", "monitor"}
  /\ sent \in 0 .. MaxSent /\ size \in 0 .. MaxSize
  /\ pc \in Locations
  /\ room \in Nat \ {0}
  /\ dying + (IF taken = "term" /\ at = "flag" THEN 1 ELSE 0) \in 0 .. sent

HostInit ==
  /\ sigch = <<>> /\ taken = "none" /\ at = "flag"
  /\ winch = FALSE /\ tstp = FALSE /\ int = FALSE
  /\ dying = 0
  /\ pipe = FALSE
  /\ tty = <<>>
  /\ size = 0
  /\ pc = "out"
  /\ room \in Rooms
  /\ forever = FALSE /\ there = FALSE
  /\ bytes = <<>>
  /\ deathtrap \in {"core", "monitor"}
  /\ sent = 0

(***************************************************************************)
(* The world: keys, resizes, signals.                                      *)
(***************************************************************************)
Running == pc # "ended"

\* The bound leaves out a byte typed again while its like is all there is.
UserTypes ==
  /\ Running
  /\ Len(tty) < MaxTyped
  /\ \E b \in Bytes : tty # <<Typed(b)>> /\ tty' = Append(tty, Typed(b))
  /\ UNCHANGED <<sigVars, flagVars, pipe, pc, callVars, size, deathtrap, sent>>

Catches(s) ==
  /\ Running
  /\ Len(sigch) < ChanCap
  /\ sigch' = Append(sigch, s)
  /\ UNCHANGED <<taken, at>>

Resized ==
  /\ size < MaxSize
  /\ size' = size + 1
  /\ Catches("winch")
  /\ UNCHANGED <<flagVars, pipe, pc, callVars, tty, deathtrap, sent>>

\* The bound keeps SIGINTs from coming for ever, one before every read: each
\* is the Ctrl-C of a read, and the size report waits for a read without.
Signalled ==
  /\ sent < MaxSent
  /\ sent' = sent + 1
  /\ \E s \in {"tstp", "int", "term"} : Catches(s)
  /\ UNCHANGED <<flagVars, pipe, pc, callVars, tty, size, deathtrap>>

(***************************************************************************)
(* signals.                                                                *)
(***************************************************************************)
TakesSignal ==
  /\ taken = "none" /\ sigch # <<>>
  /\ taken' = Head(sigch)
  /\ sigch' = Tail(sigch)
  /\ at' = "flag"
  /\ UNCHANGED <<flagVars, pipe, pc, callVars, envVars>>

\* Mutant: the dying signal is queued and not counted off the channel's.
SetsFlag_Twice ==
  /\ taken # "none" /\ at = "flag"
  /\ winch' = (winch \/ taken = "winch")
  /\ tstp' = (tstp \/ taken = "tstp")
  /\ int' = (int \/ taken = "int")
  /\ dying' = IF taken = "term" THEN dying + 2 ELSE dying
  /\ at' = "wake"
  /\ UNCHANGED <<sigch, taken, pipe, pc, callVars, envVars>>

SetsFlag ==
  /\ taken # "none" /\ at = "flag"
  /\ winch' = (winch \/ taken = "winch")
  /\ tstp' = (tstp \/ taken = "tstp")
  /\ int' = (int \/ taken = "int")
  /\ dying' = IF taken = "term" THEN dying + 1 ELSE dying
  /\ at' = "wake"
  /\ UNCHANGED <<sigch, taken, pipe, pc, callVars, envVars>>

Wakes ==
  /\ taken # "none" /\ at = "wake"
  /\ pipe' = TRUE
  /\ taken' = "none"
  /\ at' = "flag"
  /\ UNCHANGED <<sigch, flagVars, pc, callVars, envVars>>

Goroutine == Running /\ (TakesSignal \/ SetsFlag \/ Wakes)

(***************************************************************************)
(* What the calls share.                                                   *)
(***************************************************************************)
Go(from, to) == pc = from /\ pc' = to

Drains(from, to) ==
  /\ Go(from, to)
  /\ pipe' = FALSE
  /\ UNCHANGED <<sigVars, flagVars, callVars, envVars>>

\* deathtrap for one that is dying: the core's ends the process, or returns
\* (the signal blocked); the monitor's unwinds out of the call.
Dies(from) ==
  /\ dying > 0
  /\ dying' = dying - 1
  /\ pc' \in IF deathtrap = "monitor" THEN {"deadly"} ELSE {from, "ended"}

\* deliver.
Delivers(from, to) ==
  /\ pc = from
  /\ Dies(from) \/ (dying = 0 /\ pc' = to /\ UNCHANGED dying)
  /\ UNCHANGED <<sigVars, winch, tstp, int, pipe, callVars, envVars>>

(***************************************************************************)
(* WaitForInput.                                                           *)
(***************************************************************************)
WaitCalled(for) ==
  /\ Go("out", "w_drain")
  /\ forever' = for
  /\ there' = FALSE
  /\ UNCHANGED <<sigVars, flagVars, pipe, room, bytes, envVars>>

WaitDrains   == Drains("w_drain", "w_deliver")
WaitDelivers == Delivers("w_deliver", "w_flags")

WaitReturns(answer) == pc' = "done" /\ there' = answer

\* Mutant: the pipe is drained after the flags are read.
WaitFlags_Drains ==
  /\ pc = "w_flags"
  /\ IF winch \/ tstp \/ int THEN WaitReturns(TRUE) ELSE pc' = "w_select" /\ UNCHANGED there
  /\ pipe' = FALSE
  /\ UNCHANGED <<sigVars, flagVars, room, forever, bytes, envVars>>

\* Mutant: a resize does not end the wait.
WaitFlags_NoWinch ==
  /\ pc = "w_flags"
  /\ IF tstp \/ int THEN WaitReturns(TRUE) ELSE pc' = "w_select" /\ UNCHANGED there
  /\ UNCHANGED <<sigVars, flagVars, pipe, room, forever, bytes, envVars>>

WaitFlags ==
  /\ pc = "w_flags"
  /\ IF winch \/ tstp \/ int THEN WaitReturns(TRUE) ELSE pc' = "w_select" /\ UNCHANGED there
  /\ UNCHANGED <<sigVars, flagVars, pipe, room, forever, bytes, envVars>>

\* Mutant: the pipe ends the wait as stdin does.
WaitSelects_Woken ==
  /\ pc = "w_select"
  /\ \/ (tty # <<>> \/ pipe) /\ WaitReturns(TRUE)
     \/ tty = <<>> /\ ~pipe /\ ~forever /\ WaitReturns(FALSE)
  /\ UNCHANGED <<sigVars, flagVars, pipe, room, forever, bytes, envVars>>

\* select: stdin before the pipe; the pipe alone is the C's EINTR.
WaitSelects ==
  /\ pc = "w_select"
  /\ \/ tty # <<>> /\ WaitReturns(TRUE)
     \/ tty = <<>> /\ pipe /\ pc' = "w_drain" /\ UNCHANGED there
     \/ tty = <<>> /\ ~pipe /\ ~forever /\ WaitReturns(FALSE)
  /\ UNCHANGED <<sigVars, flagVars, pipe, room, forever, bytes, envVars>>

(***************************************************************************)
(* ReadInput.                                                              *)
(***************************************************************************)
ReadCalled(most) ==
  /\ Go("out", "r_drain")
  /\ room' = most
  /\ bytes' = <<>>
  /\ UNCHANGED <<sigVars, flagVars, pipe, forever, there, envVars>>

ReadDrains    == Drains("r_drain", "r_deliver")
ReadDelivers  == Delivers("r_deliver", "r_int")
ReadReturns(b) == pc' = "done" /\ bytes' = b

\* SIGINT as Ctrl-C.
ReadInt ==
  /\ pc = "r_int"
  /\ IF int THEN ReadReturns(<<Key("int")>>) ELSE pc' = "r_winch" /\ UNCHANGED bytes
  /\ int' = FALSE
  /\ UNCHANGED <<sigVars, winch, tstp, dying, pipe, room, forever, there, envVars>>

\* SIGWINCH: its flag is cleared, then the size asked ...
ReadWinch ==
  /\ pc = "r_winch"
  /\ pc' = IF winch THEN "r_size" ELSE "r_tstp"
  /\ winch' = FALSE
  /\ UNCHANGED <<sigVars, tstp, int, dying, pipe, callVars, envVars>>

\* ... and reported, if there is room for the report.
ReadSize ==
  /\ pc = "r_size"
  /\ IF room >= 32
     THEN ReadReturns(<<Report(size)>>)
     ELSE pc' = "r_tstp" /\ UNCHANGED bytes
  /\ UNCHANGED <<sigVars, flagVars, pipe, room, forever, there, envVars>>

\* SIGTSTP as the suspend key.
ReadTstp ==
  /\ pc = "r_tstp"
  /\ IF tstp /\ room >= 5 THEN ReadReturns(<<Key("tstp")>>) ELSE pc' = "r_select" /\ UNCHANGED bytes
  /\ tstp' = FALSE
  /\ UNCHANGED <<sigVars, winch, int, dying, pipe, room, forever, there, envVars>>

ReadSelects ==
  /\ pc = "r_select"
  /\ \/ tty # <<>> /\ pc' = "r_read"
     \/ tty = <<>> /\ pipe /\ pc' = "r_again"
  /\ UNCHANGED <<sigVars, flagVars, pipe, callVars, envVars>>

\* The pipe won: -1, for the core to call again.
ReadAgain == Drains("r_again", "r_last")
ReadLast  == Delivers("r_last", "done")

ReadReads ==
  /\ pc = "r_read"
  /\ LET n == IF room < Len(tty) THEN room ELSE Len(tty)
     IN  /\ ReadReturns(SubSeq(tty, 1, n))
         /\ tty' = SubSeq(tty, n + 1, Len(tty))
  /\ UNCHANGED <<sigVars, flagVars, pipe, room, forever, there, size, deathtrap, sent>>

(***************************************************************************)
(* Delay and Raise.                                                        *)
(***************************************************************************)
DelayCalled ==
  /\ Go("out", "d_deliver")
  /\ UNCHANGED <<sigVars, flagVars, pipe, callVars, envVars>>

DelayDelivers == Delivers("d_deliver", "d_drain")
DelayDrains   == Drains("d_drain", "d_select")

\* The time is over, or the pipe ends it.
DelaySelects ==
  /\ Go("d_select", "d_last")
  /\ UNCHANGED <<sigVars, flagVars, pipe, callVars, envVars>>

DelayLast == Delivers("d_last", "done")

\* Raise of a signal the host catches does what its handler does.
RaiseCalled ==
  /\ pc = "out"
  /\ sent < MaxSent
  /\ sent' = sent + 1
  /\ \/ winch' = TRUE /\ pc' = "done" /\ UNCHANGED <<tstp, int>>
     \/ tstp' = TRUE /\ pc' = "done" /\ UNCHANGED <<winch, int>>
     \/ int' = TRUE /\ pc' = "done" /\ UNCHANGED <<winch, tstp>>
     \/ /\ pc' \in IF deathtrap = "monitor" THEN {"deadly"} ELSE {"done", "ended"}
        /\ UNCHANGED <<winch, tstp, int>>
  /\ UNCHANGED <<sigVars, dying, pipe, callVars, tty, size, deathtrap>>

(***************************************************************************)
(* The specification of the host alone: a caller that makes any call, and  *)
(* takes what it returns or is unwound by.                                 *)
(***************************************************************************)
InCall ==
  \/ WaitDrains \/ WaitDelivers \/ WaitFlags \/ WaitSelects
  \/ ReadDrains \/ ReadDelivers \/ ReadInt \/ ReadWinch \/ ReadSize \/ ReadTstp
  \/ ReadSelects \/ ReadAgain \/ ReadLast \/ ReadReads
  \/ DelayDelivers \/ DelayDrains \/ DelaySelects \/ DelayLast

World == UserTypes \/ Resized \/ Signalled

\* The call is over, the goroutine out of the host.
LeavesHost == pc' = "out" /\ UNCHANGED <<sigVars, flagVars, pipe, callVars, envVars>>

Calls ==
  \/ \E for \in BOOLEAN : WaitCalled(for)
  \/ \E most \in Rooms : ReadCalled(most)
  \/ DelayCalled \/ RaiseCalled
  \/ pc \in {"done", "deadly"} /\ LeavesHost

HostSpec == HostInit /\ [][World \/ Goroutine \/ InCall \/ Calls]_hostVars

(***************************************************************************)
(* What the code promises.                                                 *)
(***************************************************************************)

\* The goroutine has set what it sets, and has the pipe to write yet.
WakeComing == taken # "none" /\ at = "wake"

\* "Drained before the flags are read, so a signal after the read still
\* wakes the wait that follows" (term.go:133): a wait or a read that sits in
\* select over a signal's flag has a byte in the pipe, or one on its way.
NoLostWakeup ==
  pc \in Selecting /\ (winch \/ tstp \/ int \/ dying > 0) => pipe \/ WakeComing

\* The same of Delay, which "ends early when a caught signal arrives, as
\* nanosleep does with EINTR" (term.go:276): it does not sleep over a signal
\* for deathtrap.  It fails: Delay delivers before sleep drains, and a signal
\* between the two is drained unseen.
DelayWakes == pc = "d_select" /\ dying > 0 => pipe \/ WakeComing

\* "ReadInput reads stdin, after the signals the editor reads as input:
\* ... SIGWINCH as the size report" (term.go:357-358): a resize whose flag
\* is cleared is reported.  It fails when the core asks for less than 32
\* bytes, its input buffer nearly full: the flag is cleared first.
ResizeReported == [][pc = "r_size" /\ pc' # "r_size" => bytes' = <<Report(size)>>]_hostVars
===============================================================================

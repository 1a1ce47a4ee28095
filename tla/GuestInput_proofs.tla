--------------------------- MODULE GuestInput_proofs ---------------------------
(***************************************************************************)
(* No key's signal is slept over, and what a wait tells the core is there, *)
(* for any tty, any rooms and any number of signals.                       *)
(*                                                                         *)
(* The host's invariant is stated and kept apart from its callers: it says *)
(* of each location of a wait or a read which flags have been looked at    *)
(* since the pipe was drained, and that each of those is in the pipe or    *)
(* will be.  It is kept by the host under any caller (HostSpec), and by    *)
(* the host under the core, the guest's runtime and the monitor (Spec).    *)
(***************************************************************************)
EXTENDS GuestInput, FiniteSets, FiniteSetTheorems, SequenceTheorems, TLAPS

(***************************************************************************)
(* The host's invariant.                                                   *)
(***************************************************************************)

\* The deadly signals os/signal has caught and the goroutine not taken.
Deadly(s)  == {i \in 1 .. Len(s) : s[i] = "term"}
AtDying    == taken = "term" /\ at = "flag"
DyingCount == dying + (IF AtDying THEN 1 ELSE 0) + Cardinality(Deadly(sigch)) <= sent

\* A size reported is one the terminal has had.
Reported(s) == \A i \in DOMAIN s : s[i][1] = "size" => s[i][2] <= size

HostTypes ==
  /\ sigch \in Seq(Signals) /\ Len(sigch) <= ChanCap
  /\ taken \in Signals \union {"none"}
  /\ at \in {"flag", "wake"}
  /\ winch \in BOOLEAN /\ tstp \in BOOLEAN /\ int \in BOOLEAN
  /\ pipe \in BOOLEAN /\ forever \in BOOLEAN /\ there \in BOOLEAN
  /\ tty \in Seq({Typed(b) : b \in Bytes}) /\ Len(tty) <= MaxTyped
  /\ bytes \in Seq(Input)
  /\ deathtrap \in {"core", "monitor"}
  /\ sent \in 0 .. MaxSent /\ size \in 0 .. MaxSize
  /\ pc \in Locations
  /\ room \in Nat \ {0}
  /\ dying \in Nat /\ DyingCount
  /\ Reported(bytes)
  /\ pc = "deadly" => deathtrap = "monitor"

\* Where the pipe is drained and each flag has been looked at since.
SeenDying == {"w_flags", "w_select", "r_int", "r_winch", "r_size", "r_tstp", "r_select"}
SeenInt   == {"w_select", "r_winch", "r_size", "r_tstp", "r_select"}
SeenWinch == {"w_select", "r_size", "r_tstp", "r_select"}
SeenTstp  == {"w_select", "r_select"}

Coming == pipe \/ WakeComing

SeenWake ==
  /\ pc \in SeenDying /\ dying > 0 => Coming
  /\ pc \in SeenInt /\ int => Coming
  /\ pc \in SeenWinch /\ winch => Coming
  /\ pc \in SeenTstp /\ tstp => Coming

HostInv == HostTypes /\ SeenWake

(***************************************************************************)
(* Its callers'.                                                           *)
(***************************************************************************)
WaitAt == {"w_drain", "w_deliver", "w_flags", "w_select", "done", "deadly", "ended"}
ReadAt == {"r_drain", "r_deliver", "r_int", "r_winch", "r_size", "r_tstp", "r_select", "r_again",
           "r_last", "r_read", "done", "deadly", "ended"}
DelayAt == {"d_deliver", "d_drain", "d_select", "d_last", "done", "deadly", "ended"}

\* Where the host is in the call the core makes of it.
CallAt ==
  /\ core = "runs" => pc = "out"
  /\ core = "waits" => pc \in WaitAt
  /\ core \in {"wait_reads", "reads"} => pc \in ReadAt
  /\ core = "delays" => pc \in DelayAt
  /\ core = "raises" => pc \in {"done", "deadly", "ended"}

\* Where a wait is done it has seen something, or had an end.
WaitIsAnswered ==
  core = "waits" /\ pc = "done" =>
    IF there THEN winch \/ tstp \/ int \/ tty # <<>> ELSE ~forever

CoreTypes ==
  /\ core \in {"runs", "waits", "wait_reads", "reads", "delays", "raises"}
  /\ held \in BOOLEAN /\ told \in BOOLEAN
  /\ kept \in Seq(Input) /\ (kept # <<>> => held) /\ (held => guest)
  /\ got \in Seq(Input)
  /\ known \in 0 .. size
  /\ Reported(kept)

InputInv ==
  /\ HostInv
  /\ CoreTypes
  /\ CallAt
  /\ core = "wait_reads" => guest
  /\ WaitIsAnswered
  /\ told => core = "runs"
  /\ ToldIsThere

(***************************************************************************)
(* Counting the deadly signals in the channel.                             *)
(***************************************************************************)
LEMMA DeadlyFinite ==
  ASSUME NEW s \in Seq(Signals)
  PROVE  IsFiniteSet(Deadly(s)) /\ Cardinality(Deadly(s)) \in Nat
  <1>1. IsFiniteSet(1 .. Len(s))
    BY FS_Interval
  <1>2. IsFiniteSet(Deadly(s))
    BY <1>1, FS_Subset DEF Deadly
  <1>3. QED BY <1>2, FS_CardinalityType

LEMMA DeadlyAppend ==
  ASSUME NEW s \in Seq(Signals), NEW x \in Signals
  PROVE  Cardinality(Deadly(Append(s, x))) = Cardinality(Deadly(s)) + (IF x = "term" THEN 1 ELSE 0)
  <1>1. Deadly(Append(s, x)) = IF x = "term" THEN Deadly(s) \union {Len(s) + 1} ELSE Deadly(s)
    BY DEF Deadly
  <1>2. Len(s) + 1 \notin Deadly(s)
    BY DEF Deadly
  <1>3. IsFiniteSet(Deadly(s)) /\ Cardinality(Deadly(s)) \in Nat
    BY DeadlyFinite
  <1>4. Cardinality(Deadly(s) \union {Len(s) + 1}) = Cardinality(Deadly(s)) + 1
    BY <1>2, <1>3, FS_AddElement
  <1>5. CASE x = "term"
    BY <1>1, <1>4, <1>5
  <1>6. CASE x # "term"
    BY <1>1, <1>3, <1>6
  <1>7. QED BY <1>5, <1>6

LEMMA DeadlyTail ==
  ASSUME NEW s \in Seq(Signals), s # <<>>
  PROVE  Cardinality(Deadly(Tail(s))) + (IF Head(s) = "term" THEN 1 ELSE 0) <= Cardinality(Deadly(s))
  <1> DEFINE D == Deadly(s) \ {1}
             T == Deadly(Tail(s))
             f == [i \in T |-> i + 1]
  <1>1. /\ Tail(s) \in Seq(Signals)
        /\ Len(Tail(s)) = Len(s) - 1
        /\ \A i \in 1 .. Len(Tail(s)) : Tail(s)[i] = s[i + 1]
    BY HeadTailProperties
  <1>2. IsFiniteSet(D) /\ Cardinality(D) = IF 1 \in Deadly(s) THEN Cardinality(Deadly(s)) - 1
                                                              ELSE Cardinality(Deadly(s))
    BY DeadlyFinite, FS_RemoveElement
  <1>3. 1 \in Deadly(s) <=> Head(s) = "term"
    BY DEF Deadly
  <1>4. f \in [T -> D] /\ \A i, j \in T : f[i] = f[j] => i = j
    BY <1>1 DEF Deadly
  <1>5. f \in Injection(T, D)
    BY <1>4 DEF Injection, IsInjective
  <1>6. Cardinality(T) <= Cardinality(D)
    BY <1>2, <1>5, FS_Injection
  <1>7. Cardinality(Deadly(s)) \in Nat /\ Cardinality(T) \in Nat
    BY <1>1, DeadlyFinite
  <1> HIDE DEF T, D
  <1>8. Cardinality(T) + (IF Head(s) = "term" THEN 1 ELSE 0) <= Cardinality(Deadly(s))
    <2>1. CASE Head(s) = "term"
      BY <1>2, <1>3, <1>6, <1>7, <2>1
    <2>2. CASE Head(s) # "term"
      BY <1>2, <1>3, <1>6, <1>7, <2>2
    <2>3. QED BY <2>1, <2>2
  <1>9. QED BY <1>8 DEF T

(***************************************************************************)
(* The host's steps: the world's, the goroutine's, and a call's.           *)
(***************************************************************************)
LEMMA WorldStep ==
  ASSUME HostInv, World
  PROVE  HostInv'
  <1> USE DEF HostInv, HostTypes, SeenWake, Coming, WakeComing
  <1>1. sigch \in Seq(Signals) /\ Cardinality(Deadly(sigch)) \in Nat
    BY DeadlyFinite
  <1>2. CASE UserTypes
    <2>1. PICK b \in Bytes : tty' = Append(tty, Typed(b))
      BY <1>2 DEF UserTypes
    <2>2. Len(tty) < MaxTyped
      BY <1>2 DEF UserTypes
    <2>3. tty' \in Seq({Typed(x) : x \in Bytes}) /\ Len(tty') <= MaxTyped
      BY <2>1, <2>2, TermAssumption
    <2>4. QED
      BY <1>2, <2>3 DEF UserTypes, sigVars, flagVars, callVars, DyingCount, AtDying, Reported
  <1>3. ASSUME NEW s \in Signals, Catches(s)
        PROVE  /\ sigch' \in Seq(Signals) /\ Len(sigch') <= ChanCap
               /\ Cardinality(Deadly(sigch'))
                    = Cardinality(Deadly(sigch)) + (IF s = "term" THEN 1 ELSE 0)
               /\ UNCHANGED <<taken, at>>
    BY <1>3, DeadlyAppend, TermAssumption DEF Catches
  <1>4. CASE Resized
    <2>1. Cardinality(Deadly(sigch')) = Cardinality(Deadly(sigch))
      BY <1>1, <1>3, <1>4 DEF Resized, Signals
    <2>2. DyingCount'
      BY <1>3, <1>4, <2>1 DEF Resized, Signals, DyingCount, AtDying, flagVars
    <2>3. Reported(bytes)'
      BY <1>4, LenProperties DEF Resized, Reported, callVars, Input, Typed, Key, Report
    <2>4. QED
      BY <1>3, <1>4, <2>2, <2>3, TermAssumption DEF Resized, Signals, flagVars, callVars
  <1>5. CASE Signalled
    <2>1. PICK s \in {"tstp", "int", "term"} : Catches(s)
      BY <1>5 DEF Signalled
    <2>2. s \in Signals
      BY DEF Signals
    <2>3. Cardinality(Deadly(sigch')) <= Cardinality(Deadly(sigch)) + 1
      BY <1>1, <1>3, <2>1, <2>2
    <2>4. Cardinality(Deadly(sigch')) \in Nat
      BY <1>3, <2>1, <2>2, DeadlyFinite
    <2>5. DyingCount'
      BY <1>1, <1>3, <1>5, <2>1, <2>2, <2>3, <2>4 DEF Signalled, DyingCount, AtDying, flagVars
    <2>6. QED
      BY <1>3, <1>5, <2>1, <2>2, <2>5, TermAssumption
      DEF Signalled, flagVars, callVars, Reported
  <1>6. QED BY <1>2, <1>4, <1>5 DEF World

LEMMA GoroutineStep ==
  ASSUME HostInv, Goroutine
  PROVE  HostInv'
  <1> USE DEF HostInv, HostTypes, SeenWake, Coming, WakeComing
  <1>1. sigch \in Seq(Signals) /\ Cardinality(Deadly(sigch)) \in Nat
    BY DeadlyFinite
  <1>2. CASE TakesSignal
    <2>1. /\ Head(sigch) \in Signals /\ Tail(sigch) \in Seq(Signals)
          /\ Len(Tail(sigch)) = Len(sigch) - 1
      BY <1>2, HeadTailProperties DEF TakesSignal
    <2>2. Cardinality(Deadly(Tail(sigch))) \in Nat
      BY <2>1, DeadlyFinite
    <2>3. Cardinality(Deadly(Tail(sigch))) + (IF Head(sigch) = "term" THEN 1 ELSE 0)
            <= Cardinality(Deadly(sigch))
      BY <1>2, DeadlyTail DEF TakesSignal
    <2>4. DyingCount'
      <3>1. taken = "none" /\ taken' = Head(sigch) /\ sigch' = Tail(sigch) /\ at' = "flag"
            /\ dying' = dying /\ sent' = sent
        BY <1>2 DEF TakesSignal, flagVars, envVars
      <3>2. ~AtDying /\ (AtDying' <=> Head(sigch) = "term")
        BY <3>1 DEF AtDying
      <3>3. dying + Cardinality(Deadly(sigch)) <= sent
        BY <1>1, <3>2 DEF DyingCount
      <3>4. QED
        BY <1>1, <2>2, <2>3, <3>1, <3>2, <3>3 DEF DyingCount
    <2>5. QED
      BY <1>2, <2>1, <2>4, TermAssumption DEF TakesSignal, flagVars, callVars, envVars, Reported
  <1>3. CASE SetsFlag
    <2>1. DyingCount'
      BY <1>1, <1>3 DEF SetsFlag, DyingCount, AtDying, envVars
    <2>2. QED
      BY <1>3, <2>1 DEF SetsFlag, callVars, envVars, Reported
  <1>4. CASE Wakes
    <2>1. DyingCount'
      BY <1>1, <1>4 DEF Wakes, DyingCount, AtDying, envVars, flagVars
    <2>2. QED
      BY <1>4, <2>1 DEF Wakes, callVars, envVars, flagVars, Reported
  <1>5. QED BY <1>2, <1>3, <1>4 DEF Goroutine

\* The pipe drained, before any flag is looked at.
LEMMA DrainStep ==
  ASSUME HostInv, NEW from, NEW to \in Locations \ (SeenDying \union {"deadly"}), Drains(from, to)
  PROVE  HostInv'
  <1>1. sigch \in Seq(Signals) /\ Cardinality(Deadly(sigch)) \in Nat
    BY DeadlyFinite DEF HostInv, HostTypes
  <1>2. to \notin SeenInt \union SeenWinch \union SeenTstp
    BY DEF SeenDying, SeenInt, SeenWinch, SeenTstp
  <1>3. QED
    BY <1>1, <1>2 DEF HostInv, HostTypes, SeenWake, Drains, Go, DyingCount, AtDying, Reported,
       sigVars, flagVars, callVars, envVars

\* deathtrap looked at: where deliver passes on, none is dying.
LEMMA DeliverStep ==
  ASSUME HostInv, NEW from \in Locations \ SeenDying, NEW to, Delivers(from, to),
         to \in (Locations \ (SeenInt \union {"deadly"}))
  PROVE  HostInv'
  <1>1. sigch \in Seq(Signals) /\ Cardinality(Deadly(sigch)) \in Nat
    BY DeadlyFinite DEF HostInv, HostTypes
  <1>2. SeenWinch \subseteq SeenInt /\ SeenTstp \subseteq SeenInt /\ SeenInt \subseteq SeenDying
        /\ {"deadly", "ended"} \subseteq Locations \ SeenDying
    BY DEF SeenInt, SeenWinch, SeenTstp, SeenDying, Locations, Selecting
  <1> HIDE DEF SeenInt, SeenWinch, SeenTstp, SeenDying
  <1>3. CASE Dies(from)
    <2>1. dying' = dying - 1 /\ dying' \in Nat /\ pc' \in {from, "deadly", "ended"}
          /\ (pc' = "deadly" => pc = "deadly" \/ deathtrap = "monitor")
          /\ UNCHANGED <<sigVars, winch, tstp, int, pipe, callVars, envVars>>
      BY <1>3 DEF Delivers, Dies, HostInv, HostTypes
    <2>2. DyingCount'
      BY <1>1, <2>1 DEF HostInv, HostTypes, DyingCount, AtDying, sigVars, envVars
    <2>3. pc' \in Locations \ SeenDying
      BY <1>2, <2>1
    <2>4. SeenWake'
      BY <1>2, <2>3 DEF SeenWake
    <2>5. QED
      BY <2>1, <2>2, <2>3, <2>4 DEF HostInv, HostTypes, Reported, sigVars, callVars, envVars
  <1>4. CASE dying = 0 /\ pc' = to /\ UNCHANGED dying
    <2>1. UNCHANGED <<sigVars, flagVars, pipe, callVars, envVars>> /\ pc' = to /\ dying' = 0
      BY <1>4 DEF Delivers, flagVars
    <2>2. DyingCount'
      BY <2>1 DEF HostInv, HostTypes, DyingCount, AtDying, sigVars, envVars, flagVars
    <2>3. SeenWake'
      BY <1>2, <2>1 DEF SeenWake
    <2>4. QED
      BY <2>1, <2>2, <2>3 DEF HostInv, HostTypes, Reported, sigVars, flagVars, callVars, envVars
  <1>5. QED BY <1>3, <1>4 DEF Delivers

LEMMA WaitStep ==
  ASSUME HostInv, WaitDrains \/ WaitDelivers \/ WaitFlags \/ WaitSelects
  PROVE  HostInv'
  <1>1. CASE WaitDrains
    BY <1>1, DrainStep DEF WaitDrains, Locations, SeenDying
  <1>2. CASE WaitDelivers
    BY <1>2, DeliverStep DEF WaitDelivers, Locations, SeenDying, SeenInt
  <1>3. CASE WaitFlags \/ WaitSelects
    <2>1. DyingCount'
      BY <1>3 DEF HostInv, HostTypes, DyingCount, AtDying, WaitFlags, WaitSelects, sigVars, flagVars, envVars
    <2>2. SeenWake'
      BY <1>3 DEF HostInv, HostTypes, SeenWake, SeenDying, SeenInt, SeenWinch, SeenTstp, Coming,
         WakeComing, WaitFlags, WaitSelects, WaitReturns, sigVars, flagVars
    <2>3. /\ pc' \in Locations \ {"deadly"} /\ there' \in BOOLEAN
          /\ UNCHANGED <<sigVars, flagVars, pipe, room, forever, bytes, envVars>>
      BY <1>3 DEF HostInv, HostTypes, Locations, Selecting, WaitFlags, WaitSelects, WaitReturns
    <2>4. QED
      BY <2>1, <2>2, <2>3 DEF HostInv, HostTypes, Reported, sigVars, flagVars, envVars
  <1>4. QED BY <1>1, <1>2, <1>3

LEMMA ReadStep ==
  ASSUME HostInv,
         ReadDrains \/ ReadDelivers \/ ReadInt \/ ReadWinch \/ ReadSize \/ ReadTstp
           \/ ReadSelects \/ ReadAgain \/ ReadLast \/ ReadReads
  PROVE  HostInv'
  <1>1. CASE ReadDrains \/ ReadAgain
    BY <1>1, DrainStep DEF ReadDrains, ReadAgain, Locations, SeenDying
  <1>2. CASE ReadDelivers \/ ReadLast
    BY <1>2, DeliverStep DEF ReadDelivers, ReadLast, Locations, SeenDying, SeenInt
  <1>3. CASE ReadInt \/ ReadWinch \/ ReadSize \/ ReadTstp \/ ReadSelects
    <2>1. DyingCount'
      BY <1>3 DEF HostInv, HostTypes, DyingCount, AtDying, ReadInt, ReadWinch, ReadSize, ReadTstp,
         ReadSelects, sigVars, flagVars, envVars
    <2>2. SeenWake'
      BY <1>3 DEF HostInv, HostTypes, SeenWake, SeenDying, SeenInt, SeenWinch, SeenTstp, Coming,
         WakeComing, ReadInt, ReadWinch, ReadSize, ReadTstp, ReadSelects, ReadReturns, sigVars, flagVars
    <2>3. bytes' = bytes \/ bytes' \in {<<Key("int")>>, <<Key("tstp")>>, <<Report(size)>>}
      BY <1>3 DEF ReadInt, ReadWinch, ReadSize, ReadTstp, ReadSelects, ReadReturns, callVars
    <2>4. bytes' \in Seq(Input)
      <3>1. {Key("int"), Key("tstp"), Report(size)} \subseteq Input
        BY DEF HostInv, HostTypes, Input
      <3>2. \A e \in Input : <<e>> \in Seq(Input)
        OBVIOUS
      <3>3. QED BY <2>3, <3>1, <3>2 DEF HostInv, HostTypes
    <2>5. size' = size
      BY <1>3 DEF ReadInt, ReadWinch, ReadSize, ReadTstp, ReadSelects, envVars
    <2>6. Reported(bytes)'
      BY <2>3, <2>5 DEF HostInv, HostTypes, Reported, Key, Report
    <2>7. pc' \in Locations /\ pc' # "deadly"
      BY <1>3 DEF Locations, Selecting, ReadInt, ReadWinch, ReadSize, ReadTstp, ReadSelects, ReadReturns
    <2>8. /\ winch' \in BOOLEAN /\ tstp' \in BOOLEAN /\ int' \in BOOLEAN
          /\ UNCHANGED <<sigch, taken, at, pipe, forever, there, tty, deathtrap, sent, size, room, dying>>
      BY <1>3 DEF HostInv, HostTypes, ReadInt, ReadWinch, ReadSize, ReadTstp, ReadSelects, sigVars,
         flagVars, callVars, envVars
    <2>9. QED
      BY <2>1, <2>2, <2>4, <2>6, <2>7, <2>8 DEF HostInv, HostTypes
  <1>4. CASE ReadReads
    <2> DEFINE n == IF room < Len(tty) THEN room ELSE Len(tty)
               T == {Typed(b) : b \in Bytes}
    <2>1. tty \in Seq(T) /\ n \in 0 .. Len(tty) /\ Len(tty) \in Nat
      BY DEF HostInv, HostTypes
    <2>2. bytes' = SubSeq(tty, 1, n) /\ tty' = SubSeq(tty, n + 1, Len(tty))
      BY <1>4 DEF ReadReads, ReadReturns
    <2> HIDE DEF n
    <2>3. \A i \in 1 .. Len(tty) : tty[i] \in T
      BY <2>1, ElementOfSeq
    <2>4. bytes' \in Seq(T) /\ Len(bytes') = n
      BY <2>1, <2>2, <2>3, SubSeqProperties
    <2>5. tty' \in Seq(T) /\ Len(tty') <= Len(tty)
      BY <2>1, <2>2, <2>3, SubSeqProperties
    <2>6. bytes' \in Seq(Input)
      BY <2>4, SeqMonotonic DEF Input
    <2>7. \A i \in DOMAIN bytes' : bytes'[i][1] = "byte"
      BY <2>4, LenProperties, ElementOfSeq DEF Typed
    <2>8. Reported(bytes)'
      BY <2>7 DEF Reported
    <2>9. DyingCount'
      BY <1>4 DEF HostInv, HostTypes, DyingCount, AtDying, ReadReads, sigVars, flagVars
    <2>10. SeenWake'
      BY <1>4 DEF SeenWake, SeenDying, SeenInt, SeenWinch, SeenTstp, ReadReads, ReadReturns
    <2>11. QED
      BY <1>4, <2>1, <2>5, <2>6, <2>8, <2>9, <2>10, TermAssumption
      DEF HostInv, HostTypes, Locations, ReadReads, ReadReturns, sigVars, flagVars
  <1>5. QED BY <1>1, <1>2, <1>3, <1>4

LEMMA DelayStep ==
  ASSUME HostInv, DelayDelivers \/ DelayDrains \/ DelaySelects \/ DelayLast
  PROVE  HostInv'
  <1>1. CASE DelayDrains
    BY <1>1, DrainStep DEF DelayDrains, Locations, SeenDying
  <1>2. CASE DelayDelivers \/ DelayLast
    BY <1>2, DeliverStep DEF DelayDelivers, DelayLast, Locations, SeenDying, SeenInt
  <1>3. CASE DelaySelects
    BY <1>3 DEF HostInv, HostTypes, DyingCount, AtDying, SeenWake, SeenDying, SeenInt, SeenWinch,
       SeenTstp, Locations, Reported, DelaySelects, Go, sigVars, flagVars, callVars, envVars
  <1>4. QED BY <1>1, <1>2, <1>3

\* The host alone keeps its invariant.
LEMMA HostStep ==
  ASSUME HostInv, World \/ Goroutine \/ InCall
  PROVE  HostInv'
  BY WorldStep, GoroutineStep, WaitStep, ReadStep, DelayStep DEF InCall

\* A call begins.
LEMMA CalledStep ==
  ASSUME HostInv,
         \/ \E for \in BOOLEAN : WaitCalled(for)
         \/ \E most \in Nat \ {0} : ReadCalled(most)
         \/ DelayCalled \/ RaiseCalled
  PROVE  HostInv'
  <1>1. sigch \in Seq(Signals) /\ Cardinality(Deadly(sigch)) \in Nat
    BY DeadlyFinite DEF HostInv, HostTypes
  <1>2. CASE \E for \in BOOLEAN : WaitCalled(for)
    BY <1>2 DEF HostInv, HostTypes, DyingCount, AtDying, SeenWake, SeenDying, SeenInt, SeenWinch,
       SeenTstp, Locations, Reported, WaitCalled, Go, sigVars, flagVars, envVars
  <1>3. CASE \E most \in Nat \ {0} : ReadCalled(most)
    <2>1. PICK most \in Nat \ {0} : ReadCalled(most)
      BY <1>3
    <2>2. Reported(bytes)' /\ bytes' \in Seq(Input)
      BY <2>1 DEF ReadCalled, Reported
    <2>3. QED
      BY <2>1, <2>2 DEF HostInv, HostTypes, DyingCount, AtDying, SeenWake, SeenDying, SeenInt,
         SeenWinch, SeenTstp, Locations, ReadCalled, Go, sigVars, flagVars, envVars
  <1>4. CASE DelayCalled
    BY <1>4 DEF HostInv, HostTypes, DyingCount, AtDying, SeenWake, SeenDying, SeenInt, SeenWinch,
       SeenTstp, Locations, Reported, DelayCalled, Go, sigVars, flagVars, callVars, envVars
  <1>5. CASE RaiseCalled
    <2>1. DyingCount'
      BY <1>1, <1>5 DEF HostInv, HostTypes, DyingCount, AtDying, RaiseCalled, sigVars
    <2>2. sent' \in 0 .. MaxSent
      BY <1>5, TermAssumption DEF HostInv, HostTypes, RaiseCalled
    <2>3. pc' \in {"done", "deadly", "ended"} /\ (pc' = "deadly" => deathtrap = "monitor")
      BY <1>5 DEF RaiseCalled
    <2>4. SeenWake'
      BY <2>3 DEF SeenWake, SeenDying, SeenInt, SeenWinch, SeenTstp
    <2>5. /\ winch' \in BOOLEAN /\ tstp' \in BOOLEAN /\ int' \in BOOLEAN
          /\ UNCHANGED <<sigch, taken, at, pipe, forever, there, bytes, tty, deathtrap, size, room, dying>>
      BY <1>5 DEF HostInv, HostTypes, RaiseCalled, sigVars, callVars
    <2>6. Reported(bytes)'
      BY <2>5 DEF HostInv, HostTypes, Reported
    <2>7. pc' \in Locations
      BY <2>3 DEF Locations
    <2>8. QED
      BY <2>1, <2>2, <2>3, <2>4, <2>5, <2>6, <2>7 DEF HostInv, HostTypes
  <1>6. QED BY <1>2, <1>3, <1>4, <1>5

\* A call is over, its answer taken, or made again.
LEMMA LeftStep ==
  ASSUME HostInv, pc' \in Locations \ (SeenDying \union {"deadly"}),
         there' \in BOOLEAN, forever' \in BOOLEAN, bytes' = bytes \/ bytes' = <<>>,
         room' \in Nat \ {0},
         UNCHANGED <<sigVars, flagVars, pipe, envVars>>
  PROVE  HostInv'
  <1>1. DyingCount'
    BY DEF HostInv, HostTypes, DyingCount, AtDying, sigVars, flagVars, envVars
  <1>2. Reported(bytes)' /\ bytes' \in Seq(Input)
    <2>1. size' = size
      BY DEF envVars
    <2>2. CASE bytes' = bytes
      BY <2>1, <2>2 DEF HostInv, HostTypes, Reported
    <2>3. CASE bytes' = <<>>
      BY <2>3 DEF Reported
    <2>4. QED BY <2>2, <2>3
  <1>3. SeenWake'
    BY DEF SeenWake, SeenDying, SeenInt, SeenWinch, SeenTstp
  <1>4. QED
    <2>1. UNCHANGED <<sigch, taken, at, winch, tstp, int, dying, pipe, tty, size, deathtrap, sent>>
      BY DEF sigVars, flagVars, envVars
    <2>2. pc' \in Locations /\ pc' # "deadly"
      OBVIOUS
    <2>3. QED
      BY <1>1, <1>2, <1>3, <2>1, <2>2 DEF HostInv, HostTypes

LEMMA HostStart == HostInit => HostInv
  <1> SUFFICES ASSUME HostInit PROVE HostInv
    OBVIOUS
  <1>1. Deadly(sigch) = {}
    BY DEF HostInit, Deadly
  <1>2. DyingCount
    <2>1. Cardinality(Deadly(sigch)) = 0
      BY <1>1, FS_EmptySet
    <2>2. dying = 0 /\ ~AtDying /\ sent = 0
      BY DEF HostInit, AtDying
    <2>3. QED BY <2>1, <2>2 DEF DyingCount
  <1>3. Reported(bytes)
    BY DEF HostInit, Reported
  <1>4. SeenWake
    BY DEF HostInit, SeenWake, SeenDying, SeenInt, SeenWinch, SeenTstp
  <1>5. QED
    <2>1. sigch \in Seq(Signals) /\ Len(sigch) <= ChanCap /\ tty \in Seq({Typed(b) : b \in Bytes})
          /\ Len(tty) <= MaxTyped /\ bytes \in Seq(Input)
      BY TermAssumption DEF HostInit
    <2>2. sent \in 0 .. MaxSent /\ size \in 0 .. MaxSize /\ dying \in Nat /\ room \in Nat \ {0}
      BY TermAssumption DEF HostInit
    <2>3. pc = "out" /\ pc \in Locations
      BY DEF HostInit, Locations
    <2>4. QED
      BY <1>2, <1>3, <1>4, <2>1, <2>2, <2>3 DEF HostInit, HostInv, HostTypes

LEMMA HostWaits == HostInv => NoLostWakeup
  BY DEF HostInv, SeenWake, SeenDying, SeenInt, SeenWinch, SeenTstp, Coming, NoLostWakeup, Selecting

\* "Drained before the flags are read, so a signal after the read still wakes
\* the wait that follows" (term.go:133), of the host under any caller: no
\* wait and no read sits in select over a signal's flag with its wake spent.
THEOREM NoWakeupIsLost == HostSpec => []NoLostWakeup
  <1>1. HostInv /\ [World \/ Goroutine \/ InCall \/ Calls]_hostVars => HostInv'
    <2> SUFFICES ASSUME HostInv, [World \/ Goroutine \/ InCall \/ Calls]_hostVars
                 PROVE  HostInv'
      OBVIOUS
    <2>1. CASE Calls
      <3>1. CASE pc \in {"done", "deadly"} /\ LeavesHost
        BY <3>1, LeftStep DEF LeavesHost, Locations, SeenDying, callVars, HostInv, HostTypes
      <3>2. QED
        BY <2>1, <3>1, CalledStep, TermAssumption DEF Calls
    <2>2. CASE UNCHANGED hostVars
      BY <2>2 DEF hostVars, sigVars, flagVars, callVars, envVars, HostInv, HostTypes, DyingCount,
         AtDying, Reported, SeenWake, Coming, WakeComing
    <2>3. QED BY <2>1, <2>2, HostStep
  <1>2. QED
    BY <1>1, HostStart, HostWaits, PTL DEF HostSpec

(***************************************************************************)
(* What the host's steps do to its caller.                                 *)
(***************************************************************************)

\* The world's and the goroutine's take nothing away.
LEMMA OnlyAdds ==
  ASSUME HostInv, World \/ Goroutine
  PROVE  /\ UNCHANGED <<pc, room, forever, there, bytes, deathtrap>>
         /\ winch => winch'
         /\ tstp => tstp'
         /\ int => int'
         /\ tty # <<>> => tty' # <<>>
         /\ size' \in Nat /\ size \in Nat /\ size <= size'
  <1>1. tty' = tty \/ \E b \in Bytes : tty' = Append(tty, Typed(b))
    BY DEF World, UserTypes, Resized, Signalled, Goroutine, TakesSignal, SetsFlag, Wakes, envVars
  <1>2. tty' = tty \/ tty' # <<>>
    <2>1. tty \in Seq({Typed(b) : b \in Bytes})
      BY DEF HostInv, HostTypes
    <2>2. ASSUME NEW b \in Bytes PROVE Append(tty, Typed(b)) # <<>>
      BY <2>1, <2>2
    <2>3. QED BY <1>1, <2>2
  <1>3. size \in Nat /\ (size' = size \/ size' = size + 1)
    BY DEF HostInv, HostTypes, World, UserTypes, Resized, Signalled, Goroutine, TakesSignal, SetsFlag,
       Wakes, envVars
  <1>4. QED
    BY <1>2, <1>3 DEF HostInv, HostTypes, World, UserTypes, Resized, Signalled, Goroutine,
       TakesSignal, SetsFlag, Wakes, callVars, flagVars, envVars

\* A call's moves it on along its own locations, to an answer a wait gives
\* for what it has seen.
LEMMA MovesOn ==
  ASSUME HostInv, InCall
  PROVE  /\ pc \notin {"out", "done", "deadly", "ended"}
         /\ UNCHANGED <<forever, deathtrap, size>>
         /\ pc \in WaitAt => pc' \in WaitAt
         /\ pc \in ReadAt => pc' \in ReadAt
         /\ pc \in DelayAt => pc' \in DelayAt
         /\ pc \in WaitAt /\ pc' = "done" =>
              IF there' THEN winch' \/ tstp' \/ int' \/ tty' # <<>> ELSE ~forever'
  <1>1. CASE WaitDrains \/ WaitDelivers \/ WaitFlags \/ WaitSelects
    BY <1>1 DEF HostInv, HostTypes, WaitDrains, WaitDelivers, WaitFlags, WaitSelects, WaitReturns, Drains,
       Delivers, Dies, Go, WaitAt, ReadAt, DelayAt, flagVars, callVars, envVars
  <1>2. CASE ReadDrains \/ ReadDelivers \/ ReadAgain \/ ReadLast \/ ReadReads
    BY <1>2 DEF ReadDrains, ReadDelivers, ReadAgain, ReadLast, ReadReads, ReadReturns, Drains,
       Delivers, Dies, Go, WaitAt, ReadAt, DelayAt, flagVars, callVars, envVars
  <1>3. CASE ReadInt \/ ReadWinch \/ ReadSize \/ ReadTstp \/ ReadSelects
    BY <1>3 DEF ReadInt, ReadWinch, ReadSize, ReadTstp, ReadSelects, ReadReturns,
       WaitAt, ReadAt, DelayAt, flagVars, callVars, envVars
  <1>4. CASE DelayDelivers \/ DelayDrains \/ DelaySelects \/ DelayLast
    BY <1>4 DEF DelayDelivers, DelayDrains, DelaySelects, DelayLast, Drains, Delivers, Dies, Go,
       WaitAt, ReadAt, DelayAt, flagVars, callVars, envVars
  <1>5. QED BY <1>1, <1>2, <1>3, <1>4 DEF InCall

LEMMA InputHosts ==
  ASSUME InputInv, Hosts
  PROVE  InputInv'
  <1>1. HostInv /\ HostInv'
    BY HostStep DEF InputInv, Hosts
  <1>2. UNCHANGED <<core, held, kept, told, got, known>>
    BY DEF Hosts, coreVars, keptVars, seenVars
  <1>3. CASE World \/ Goroutine
    <2>1. CoreTypes'
      BY <1>1, <1>2, <1>3, OnlyAdds, LenProperties DEF InputInv, CoreTypes, guest, Reported, Input, Report, Typed, Key
    <2>2. CallAt'
      BY <1>1, <1>2, <1>3, OnlyAdds DEF InputInv, CallAt
    <2>3. QED
      BY <1>1, <1>2, <1>3, <2>1, <2>2, OnlyAdds
      DEF InputInv, WaitIsAnswered, ToldIsThere, Running, guest, CoreTypes
  <1>4. CASE InCall
    <2>1. CoreTypes'
      BY <1>1, <1>2, <1>4, MovesOn DEF InputInv, CoreTypes, guest, Reported
    <2>2. core # "runs" /\ core # "raises"
      BY <1>1, <1>4, MovesOn DEF InputInv, CallAt
    <2>3. CallAt'
      BY <1>1, <1>2, <1>4, <2>2, MovesOn DEF InputInv, CallAt
    <2>4. WaitIsAnswered'
      BY <1>1, <1>2, <1>4, MovesOn DEF InputInv, CallAt, WaitIsAnswered
    <2>5. QED
      BY <1>1, <1>2, <1>4, <2>1, <2>2, <2>3, <2>4, MovesOn DEF InputInv, ToldIsThere, guest
  <1>5. QED BY <1>3, <1>4 DEF Hosts

(***************************************************************************)
(* The callers' steps.                                                     *)
(***************************************************************************)

\* The size a read reports is one the terminal has had.
LEMMA ReadKnown ==
  ASSUME NEW what \in Seq(Input), Reported(what), known \in 0 .. size, size \in Nat, Reads(what)
  PROVE  known' \in 0 .. size
  <1>1. CASE \E i \in DOMAIN what : what[i][1] = "size"
    <2> DEFINE x == CHOOSE y \in ToSet(what) : y[1] = "size"
    <2>1. PICK i \in DOMAIN what : what[i][1] = "size"
      BY <1>1
    <2>2. what[i] \in ToSet(what)
      BY DEF ToSet
    <2>3. x \in ToSet(what) /\ x[1] = "size"
      BY <2>1, <2>2
    <2>4. PICK j \in DOMAIN what : x = what[j]
      BY <2>3 DEF ToSet
    <2>5. known' = x[2]
      BY <1>1 DEF Reads
    <2> HIDE DEF x
    <2>6. j \in 1 .. Len(what)
      BY <2>4, LenProperties
    <2>7. x \in Input
      BY <2>4, <2>6, ElementOfSeq
    <2>8. x[2] <= size
      BY <2>3, <2>4 DEF Reported
    <2>9. x[2] \in Nat
      <3>1. CASE x \in {Typed(b) : b \in Bytes} \union {Key("int"), Key("tstp")}
        BY <2>3, <3>1 DEF Typed, Key
      <3>2. CASE x \in {Report(m) : m \in 0 .. MaxSize}
        BY <3>2 DEF Report
      <3>3. QED BY <2>7, <3>1, <3>2 DEF Input
    <2>10. QED BY <2>5, <2>8, <2>9
  <1>2. CASE ~\E i \in DOMAIN what : what[i][1] = "size"
    BY <1>2 DEF Reads
  <1>3. QED BY <1>1, <1>2

\* A read in the guest leaves the rest of what is kept.
LEMMA KeptSplit ==
  ASSUME NEW s \in Seq(Input), Reported(s), NEW n \in 0 .. Len(s)
  PROVE  /\ SubSeq(s, 1, n) \in Seq(Input) /\ Reported(SubSeq(s, 1, n))
         /\ SubSeq(s, n + 1, Len(s)) \in Seq(Input) /\ Reported(SubSeq(s, n + 1, Len(s)))
  <1>1. DOMAIN s = 1 .. Len(s) /\ Len(s) \in Nat
    BY LenProperties
  <1>2. ASSUME NEW a \in 1 .. Len(s) + 1, NEW b \in 0 .. Len(s)
        PROVE  SubSeq(s, a, b) \in Seq(Input) /\ Reported(SubSeq(s, a, b))
    <2> DEFINE t == SubSeq(s, a, b)
    <2>1. \A i \in a .. b : s[i] \in Input
      BY <1>1, ElementOfSeq
    <2>2. /\ t \in Seq(Input)
          /\ Len(t) = IF a <= b THEN b - a + 1 ELSE 0
          /\ \A i \in 1 .. b - a + 1 : t[i] = s[a + i - 1]
      BY <1>1, <2>1, SubSeqProperties
    <2>3. DOMAIN t = 1 .. Len(t)
      BY <2>2, LenProperties
    <2> HIDE DEF t
    <2>4. ASSUME NEW i \in DOMAIN t PROVE t[i] = s[a + i - 1] /\ a + i - 1 \in DOMAIN s
      <3>1. i \in 1 .. b - a + 1
        BY <2>2, <2>3
      <3>2. a + i - 1 \in 1 .. Len(s)
        BY <1>1, <3>1
      <3>3. QED BY <1>1, <2>2, <3>1, <3>2
    <2>5. Reported(t)
      BY <2>4 DEF Reported
    <2>6. QED BY <2>2, <2>5 DEF t
  <1>3. QED BY <1>1, <1>2

\* An answer taken: the host is as LeftStep has it.
LEMMA LeavesStep ==
  ASSUME HostInv, Leaves
  PROVE  HostInv' /\ UNCHANGED <<deathtrap, size, winch, tstp, int, dying, tty>> /\ pc' = "out" /\ core' = "runs"
  <1>1. HostInv'
    BY LeftStep DEF Leaves, Locations, SeenDying, HostInv, HostTypes
  <1>2. QED BY <1>1 DEF Leaves, envVars, flagVars

LEMMA InputAnswers ==
  ASSUME InputInv, Answers
  PROVE  InputInv'
  <1>0. HostInv /\ size \in Nat
    BY DEF InputInv, HostInv, HostTypes
  <1>1. CASE WaitAnswered
    <2>1. CASE guest /\ there
      <3>1. HostInv'
        BY <1>0, <1>1, <2>1, LeftStep, InputAssumption DEF WaitAnswered, Locations, SeenDying, HostInv, HostTypes
      <3>2. QED
        BY <1>1, <2>1, <3>1 DEF WaitAnswered, InputInv, CoreTypes, CallAt, ReadAt, WaitIsAnswered,
           ToldIsThere, guest, Reported, envVars, keptVars
    <2>2. CASE ~(guest /\ there)
      <3>1. Leaves /\ told' = there /\ UNCHANGED <<keptVars, got, known>>
        BY <1>1, <2>2 DEF WaitAnswered
      <3>2. there => winch \/ tstp \/ int \/ tty # <<>>
        BY <1>1 DEF WaitAnswered, InputInv, WaitIsAnswered
      <3>3. QED
        BY <1>0, <3>1, <3>2, LeavesStep DEF InputInv, HostInv, HostTypes, CoreTypes, CallAt,
           WaitIsAnswered, ToldIsThere, guest, Reported, keptVars
    <2>3. QED BY <2>1, <2>2
  <1>2. CASE WaitReadAnswered
    <2>1. kept' = bytes /\ held' = TRUE /\ told' = TRUE /\ UNCHANGED <<got, known>> /\ guest
      BY <1>2 DEF WaitReadAnswered, InputInv
    <2>2. Reported(kept)' /\ kept' \in Seq(Input)
      BY <1>0, <1>2, <2>1, LeavesStep DEF WaitReadAnswered, HostInv, HostTypes, Reported
    <2>3. QED
      BY <1>0, <1>2, <2>1, <2>2, LeavesStep DEF WaitReadAnswered, InputInv, CoreTypes, CallAt,
         WaitIsAnswered, ToldIsThere, guest
  <1>3. CASE ReadAnswered
    <2>1. Reads(bytes) /\ bytes \in Seq(Input) /\ Reported(bytes)
      BY <1>0, <1>3 DEF ReadAnswered, HostInv, HostTypes
    <2>2. known' \in 0 .. size /\ got' \in Seq(Input) /\ told' = FALSE
      BY <1>0, <2>1, ReadKnown DEF Reads, InputInv, CoreTypes
    <2>3. QED
      BY <1>0, <1>3, <2>2, LeavesStep DEF ReadAnswered, InputInv, CoreTypes, CallAt,
         WaitIsAnswered, ToldIsThere, guest, Reported, keptVars
  <1>4. CASE CallDone
    BY <1>0, <1>4, LeavesStep DEF CallDone, InputInv, CoreTypes, CallAt, WaitIsAnswered,
       ToldIsThere, guest, Reported, keptVars, seenVars
  <1>5. CASE TakesEvent
    <2>1. HostInv'
      BY <1>0, <1>5, LeftStep DEF TakesEvent, Locations, SeenDying, HostInv, HostTypes
    <2>2. guest
      BY <1>0, <1>5 DEF TakesEvent, HostInv, HostTypes, guest
    <2>3. core # "runs"
      BY <1>5 DEF TakesEvent, InputInv, CallAt
    <2>4. QED
      BY <1>5, <2>1, <2>2, <2>3 DEF TakesEvent, InputInv, CoreTypes, CallAt, WaitAt, ReadAt, DelayAt,
         WaitIsAnswered, ToldIsThere, Running, guest, Reported, keptVars, seenVars, envVars
  <1>6. QED BY <1>1, <1>2, <1>3, <1>4, <1>5 DEF Answers

\* The core's own steps: it calls, or is served from what is kept.
CoreSteps == CoreWaits \/ WaitsOnKept \/ CoreReads \/ ReadsKept \/ CoreDelays \/ CoreRaises

LEMMA InputCalls ==
  ASSUME InputInv, CoreSteps
  PROVE  InputInv'
  <1>0. HostInv /\ size \in Nat
    BY DEF InputInv, HostInv, HostTypes
  <1>1. CASE CoreWaits \/ CoreReads \/ CoreDelays \/ CoreRaises
    <2>1. HostInv'
      BY <1>0, <1>1, CalledStep, TermAssumption DEF CoreWaits, CoreReads, CoreDelays, CoreRaises
    <2>2. UNCHANGED <<deathtrap, size, held, kept, known>> /\ told' = FALSE /\ got' = <<>>
      BY <1>1 DEF CoreWaits, CoreReads, CoreDelays, CoreRaises, Enters, WaitCalled, ReadCalled,
         DelayCalled, RaiseCalled, envVars, keptVars
    <2>3. CoreTypes'
      <3>1. core' \in {"waits", "reads", "delays", "raises"}
        BY <1>1 DEF CoreWaits, CoreReads, CoreDelays, CoreRaises, Enters
      <3>2. Reported(kept)'
        BY <2>2 DEF InputInv, CoreTypes, Reported
      <3>3. got' \in Seq(Input)
        BY <2>2, EmptySeq
      <3>4. QED
        BY <2>2, <3>1, <3>2, <3>3 DEF InputInv, CoreTypes, guest
    <2>4. CallAt' /\ WaitIsAnswered'
      BY <1>1 DEF CoreWaits, CoreReads, CoreDelays, CoreRaises, Enters, WaitCalled, ReadCalled,
         DelayCalled, RaiseCalled, Go, CallAt, WaitAt, ReadAt, DelayAt, WaitIsAnswered
    <2>5. core' # "wait_reads"
      BY <1>1 DEF CoreWaits, CoreReads, CoreDelays, CoreRaises, Enters
    <2>6. QED BY <2>1, <2>2, <2>3, <2>4, <2>5 DEF InputInv, ToldIsThere
  <1>2. CASE WaitsOnKept
    <2>1. UNCHANGED hostVars
      BY <1>2 DEF WaitsOnKept
    <2>2. HostInv'
      BY <1>0, <2>1 DEF hostVars, sigVars, flagVars, callVars, envVars, HostInv, HostTypes, DyingCount,
         AtDying, Reported, SeenWake, Coming, WakeComing
    <2>3. QED
      BY <1>2, <2>1, <2>2 DEF WaitsOnKept, hostVars, flagVars, callVars, envVars, InputInv, CoreTypes,
         CallAt, WaitIsAnswered, ToldIsThere, guest, Reported, keptVars
  <1>3. CASE ReadsKept
    <2>1. UNCHANGED hostVars
      BY <1>3 DEF ReadsKept
    <2>2. HostInv'
      BY <1>0, <2>1 DEF hostVars, sigVars, flagVars, callVars, envVars, HostInv, HostTypes, DyingCount,
         AtDying, Reported, SeenWake, Coming, WakeComing
    <2>3. PICK n \in 0 .. Len(kept) :
            /\ Reads(SubSeq(kept, 1, n))
            /\ kept' = SubSeq(kept, n + 1, Len(kept))
            /\ held' = (kept' # <<>>)
      BY <1>3 DEF ReadsKept
    <2>4. known' \in 0 .. size /\ got' \in Seq(Input) /\ told' = FALSE
          /\ kept' \in Seq(Input) /\ Reported(kept')
      BY <1>0, <2>3, KeptSplit, ReadKnown DEF Reads, InputInv, CoreTypes
    <2>5. guest' /\ core = "runs" /\ core' = "runs"
      BY <1>3, <2>1 DEF ReadsKept, hostVars, envVars, InputInv, CoreTypes, guest
    <2>6. CoreTypes'
      BY <2>1, <2>3, <2>4, <2>5 DEF CoreTypes, hostVars, envVars, Reported
    <2>7. QED
      BY <1>3, <2>1, <2>2, <2>4, <2>5, <2>6 DEF ReadsKept, hostVars, InputInv, CallAt,
         WaitIsAnswered, ToldIsThere
  <1>4. QED BY <1>1, <1>2, <1>3 DEF CoreSteps

LEMMA InputStart == Init => InputInv
  <1> SUFFICES ASSUME Init PROVE InputInv
    OBVIOUS
  <1>1. HostInv
    BY HostStart DEF Init
  <1>2. CoreTypes
    <2>1. kept \in Seq(Input) /\ got \in Seq(Input)
      BY EmptySeq DEF Init
    <2>2. Reported(kept)
      BY DEF Init, Reported
    <2>3. known \in 0 .. size
      BY DEF Init, HostInit
    <2>4. QED BY <2>1, <2>2, <2>3 DEF Init, CoreTypes
  <1>3. CallAt /\ WaitIsAnswered /\ ToldIsThere
    BY DEF Init, HostInit, CallAt, WaitIsAnswered, ToldIsThere
  <1>4. QED BY <1>1, <1>2, <1>3 DEF InputInv, Init

LEMMA InputNext == InputInv /\ [Next]_vars => InputInv'
  <1> SUFFICES ASSUME InputInv, [Next]_vars PROVE InputInv'
    OBVIOUS
  <1>1. CASE UNCHANGED vars
    <2>1. UNCHANGED <<hostVars, coreVars>>
      BY <1>1 DEF vars
    <2>2. HostInv'
      BY <2>1 DEF hostVars, sigVars, flagVars, callVars, envVars, InputInv, HostInv, HostTypes,
         DyingCount, AtDying, Reported, SeenWake, Coming, WakeComing
    <2>3. QED
      BY <2>1, <2>2 DEF hostVars, flagVars, callVars, envVars, coreVars, keptVars, seenVars, InputInv,
         CoreTypes, CallAt, WaitIsAnswered, ToldIsThere, Running, guest, Reported
  <1>2. QED
    BY <1>1, InputHosts, InputAnswers, InputCalls DEF Next, CoreSteps

LEMMA InputInvariant == Spec => []InputInv
  BY InputStart, InputNext, PTL DEF Spec

LEMMA InputTypes == InputInv => TypeOK
  <1> SUFFICES ASSUME InputInv PROVE TypeOK
    OBVIOUS
  <1>1. HostTypeOK
    <2>1. <<winch, tstp, int, pipe, forever, there>> \in [1 .. 6 -> BOOLEAN]
      BY DEF InputInv, HostInv, HostTypes
    <2>2. dying + (IF taken = "term" /\ at = "flag" THEN 1 ELSE 0) \in 0 .. sent
      <3>1. Cardinality(Deadly(sigch)) \in Nat
        BY DeadlyFinite DEF InputInv, HostInv, HostTypes
      <3>2. QED BY <3>1 DEF InputInv, HostInv, HostTypes, DyingCount, AtDying
    <2>3. QED BY <2>1, <2>2 DEF InputInv, HostInv, HostTypes, HostTypeOK
  <1>2. QED BY <1>1 DEF InputInv, CoreTypes, TypeOK

\* The host's and its callers' variables keep their types, a kept answer is
\* a guest's, and no size is known to the core that the terminal has not had.
THEOREM TypeCorrect == Spec => []TypeOK
  BY InputInvariant, InputTypes, PTL

\* The wake-up is not lost under the callers either: the guest's runtime and
\* the monitor, with a deadly signal's unwinding and the call made again
\* (term.go:133).
THEOREM WakeupsReachTheWait == Spec => []NoLostWakeup
  BY InputInvariant, HostWaits, PTL DEF InputInv

\* A core told there is input finds it: kept in the guest, or still a flag or
\* the tty's (rt.c:96-99).
THEOREM WhatIsToldIsThere == Spec => []ToldIsThere
  BY InputInvariant, PTL DEF InputInv

\* A wait with no end ends only with input (rt.c:96-99), the calls unwound by
\* a deadly signal and made again between.
THEOREM EndlessWaitsGoOn == Spec => WaitsOn
  <1>1. InputInv /\ [Next]_vars => [core = "waits" /\ core' = "runs" /\ ~told' => ~forever]_vars
    <2> SUFFICES ASSUME InputInv, Next, core = "waits", core' = "runs", ~told' PROVE ~forever
      OBVIOUS
    <2>1. ~Hosts
      BY DEF Hosts, coreVars
    <2>2. ~CoreSteps
      BY DEF CoreSteps, CoreWaits, WaitsOnKept, CoreReads, ReadsKept, CoreDelays, CoreRaises, Enters
    <2>3. WaitAnswered
      BY <2>1, <2>2 DEF Next, CoreSteps, Answers, WaitReadAnswered, ReadAnswered, CallDone, TakesEvent
    <2>4. pc = "done" /\ ~there
      BY <2>3 DEF WaitAnswered
    <2>5. QED BY <2>4 DEF InputInv, WaitIsAnswered
  <1>2. QED
    BY <1>1, InputInvariant, PTL DEF Spec, WaitsOn

(***************************************************************************)
(* Bytes in order: the refinement of TtyStream.                            *)
(***************************************************************************)

\* An answer is bytes of the tty, or one signal's key or report.
Whole(s) == s \in Seq(TypedBytes) \/ (s \in Seq(Input) /\ Len(s) = 1 /\ s[1][1] # "byte")

StreamInv ==
  /\ Whole(bytes) /\ Whole(kept)
  /\ bytes # <<>> => pc = "done" /\ core \in {"reads", "wait_reads"}
  /\ core \in {"waits", "wait_reads", "reads"} => ~held

LEMMA Halves ==
  ASSUME NEW S, NEW s \in Seq(S), NEW n \in 0 .. Len(s)
  PROVE  SubSeq(s, 1, n) \o SubSeq(s, n + 1, Len(s)) = s
  <1>1. Len(s) \in Nat
    BY LenProperties
  <1>2. 1 \in 1 .. Len(s) + 1 /\ n \in (1 - 1) .. Len(s) /\ Len(s) \in n .. Len(s)
    BY <1>1
  <1>3. SubSeq(s, 1, n) \o SubSeq(s, n + 1, Len(s)) = SubSeq(s, 1, Len(s))
    BY <1>2, ConcatAdjacentSubSeq
  <1>4. QED BY <1>3, SubSeqFull

LEMMA TypedConcat ==
  ASSUME NEW s \in Seq(TypedBytes), NEW t \in Seq(TypedBytes), NEW u \in Seq(TypedBytes)
  PROVE  (s \o t) \o u = s \o (t \o u)
  BY ConcatAssociative

LEMMA TypedSeq ==
  ASSUME NEW s \in Seq(TypedBytes)
  PROVE  BytesOf(s) = s
  <1>1. \A i \in DOMAIN s : s[i] \in TypedBytes
    BY LenProperties, ElementOfSeq
  <1>2. QED BY <1>1 DEF BytesOf, TypedBytes, Typed

LEMMA SignalSeq ==
  ASSUME NEW s \in Seq(Input), Len(s) = 1, s[1][1] # "byte"
  PROVE  BytesOf(s) = <<>>
  <1>1. 1 \in DOMAIN s
    BY LenProperties
  <1>2. QED BY <1>1 DEF BytesOf

LEMMA EmptyBytes == BytesOf(<<>>) = <<>> /\ Whole(<<>>)
  <1>1. <<>> \in Seq(TypedBytes)
    BY EmptySeq
  <1>2. QED BY <1>1, TypedSeq DEF Whole

LEMMA WholeBytes ==
  ASSUME NEW s, Whole(s)
  PROVE  BytesOf(s) \in Seq(TypedBytes)
  BY TypedSeq, SignalSeq, EmptySeq DEF Whole

\* A read of n from what is kept: its bytes are the first n of them, or it
\* is the signal's, and nothing is left.
LEMMA WholeSplit ==
  ASSUME NEW s, Whole(s), NEW n \in 0 .. Len(s), n > 0 \/ s = <<>>
  PROVE  LET first == SubSeq(s, 1, n)
             rest  == SubSeq(s, n + 1, Len(s))
         IN  /\ Whole(rest)
             /\ \/ /\ s \in Seq(TypedBytes)
                   /\ BytesOf(first) = first /\ BytesOf(rest) = rest
                   /\ s = first \o rest /\ Len(first) = n
                \/ BytesOf(s) = <<>> /\ BytesOf(first) = <<>> /\ BytesOf(rest) = <<>>
  <1> DEFINE first == SubSeq(s, 1, n)
             rest  == SubSeq(s, n + 1, Len(s))
  <1>1. CASE s \in Seq(TypedBytes)
    <2>1. Len(s) \in Nat /\ \A i \in 1 .. Len(s) : s[i] \in TypedBytes
      BY <1>1, LenProperties, ElementOfSeq
    <2>2. first \in Seq(TypedBytes) /\ Len(first) = n
      BY <2>1, SubSeqProperties
    <2>3. rest \in Seq(TypedBytes)
      BY <2>1, SubSeqProperties
    <2>4. first \o rest = s
      BY <1>1, Halves
    <2>5. QED
      BY <1>1, <2>2, <2>3, <2>4, TypedSeq DEF Whole
  <1>2. CASE s \in Seq(Input) /\ Len(s) = 1 /\ s[1][1] # "byte"
    <2>1. s # <<>> /\ n = 1
      BY <1>2
    <2>2. first = s
      BY <1>2, <2>1, SubSeqFull
    <2>3. rest = <<>>
      BY <1>2, <2>1, SubSeqEmpty
    <2>4. QED
      BY <1>2, <2>2, <2>3, SignalSeq, EmptyBytes
  <1>3. QED BY <1>1, <1>2 DEF Whole

LEMMA StreamNext ==
  ASSUME InputInv, StreamInv, [Next]_vars
  PROVE  StreamInv'
  <1>0. HostInv /\ CoreTypes /\ CallAt
    BY DEF InputInv
  <1> USE DEF StreamInv
  <1>1. CASE Hosts
    <2>1. UNCHANGED <<core, held, kept, told, got, known>>
      BY <1>1 DEF Hosts, coreVars, keptVars, seenVars
    <2>2. CASE World \/ Goroutine
      BY <1>0, <2>1, <2>2, OnlyAdds
    <2>3. CASE InCall
      <3>1. pc # "done" /\ bytes = <<>>
        BY <1>0, <2>3, MovesOn
      <3>2. CASE ReadReads
        <4> DEFINE n == IF room < Len(tty) THEN room ELSE Len(tty)
        <4>1. tty \in Seq(TypedBytes) /\ n \in 0 .. Len(tty) /\ Len(tty) \in Nat
          BY <1>0 DEF HostInv, HostTypes, TypedBytes
        <4>2. bytes' = SubSeq(tty, 1, n) /\ pc' = "done" /\ pc = "r_read"
          BY <3>2 DEF ReadReads, ReadReturns
        <4> HIDE DEF n
        <4>3. \A i \in 1 .. Len(tty) : tty[i] \in TypedBytes
          BY <4>1, ElementOfSeq
        <4>4. bytes' \in Seq(TypedBytes)
          BY <4>1, <4>2, <4>3, SubSeqProperties
        <4>5. core \in {"reads", "wait_reads"}
          BY <1>0, <4>2 DEF CoreTypes, CallAt, WaitAt, DelayAt
        <4>6. QED BY <2>1, <4>2, <4>4, <4>5 DEF Whole
      <3>3. CASE ReadInt \/ ReadSize \/ ReadTstp
        <4>1. \/ bytes' = bytes
              \/ pc' = "done" /\ bytes' \in {<<Key("int")>>, <<Key("tstp")>>, <<Report(size)>>}
          BY <3>3 DEF ReadInt, ReadSize, ReadTstp, ReadReturns
        <4>2. CASE bytes' = bytes
          BY <2>1, <3>1, <4>2
        <4>3. CASE pc' = "done" /\ bytes' \in {<<Key("int")>>, <<Key("tstp")>>, <<Report(size)>>}
          <5>1. {Key("int"), Key("tstp"), Report(size)} \subseteq Input
            BY <1>0 DEF HostInv, HostTypes, Input
          <5>2. \A e \in Input : <<e>> \in Seq(Input) /\ Len(<<e>>) = 1 /\ <<e>>[1] = e
            OBVIOUS
          <5>3. Whole(bytes)'
            <6>1. PICK e \in {Key("int"), Key("tstp"), Report(size)} : bytes' = <<e>>
              BY <4>3
            <6>2. e \in Input /\ e[1] # "byte"
              BY <5>1 DEF Key, Report
            <6>3. bytes' \in Seq(Input) /\ Len(bytes') = 1 /\ bytes'[1] = e
              BY <5>2, <6>1, <6>2
            <6>4. QED BY <6>2, <6>3 DEF Whole
          <5>4. core \in {"reads", "wait_reads"}
            BY <1>0, <3>3 DEF CoreTypes, CallAt, WaitAt, DelayAt, ReadInt, ReadSize, ReadTstp
          <5>5. QED BY <2>1, <4>3, <5>3, <5>4
        <4>4. QED BY <4>1, <4>2, <4>3
      <3>4. CASE ~(ReadReads \/ ReadInt \/ ReadSize \/ ReadTstp)
        <4>1. bytes' = bytes
          BY <2>3, <3>4 DEF InCall, WaitDrains, WaitDelivers, WaitFlags, WaitSelects, ReadDrains,
             ReadDelivers, ReadWinch, ReadSelects, ReadAgain, ReadLast, DelayDelivers, DelayDrains,
             DelaySelects, DelayLast, Drains, Delivers, callVars
        <4>2. QED BY <2>1, <3>1, <4>1
      <3>5. QED BY <3>2, <3>3, <3>4
    <2>4. QED BY <1>1, <2>2, <2>3 DEF Hosts
  <1>2. CASE Answers
    <2>1. bytes' = <<>>
      BY <1>2 DEF Answers, WaitAnswered, WaitReadAnswered, ReadAnswered, CallDone, TakesEvent, Leaves
    <2>2. Whole(kept)'
      BY <1>2 DEF Answers, WaitAnswered, WaitReadAnswered, ReadAnswered, CallDone, TakesEvent, keptVars, Whole
    <2>3. core' \in {"waits", "wait_reads", "reads"} => ~held'
      BY <1>2 DEF Answers, WaitAnswered, WaitReadAnswered, ReadAnswered, CallDone, TakesEvent, Leaves, keptVars
    <2>4. QED BY <2>1, <2>2, <2>3, EmptyBytes
  <1>3. CASE CoreWaits \/ CoreReads \/ CoreDelays \/ CoreRaises
    <2>1. bytes = <<>> /\ bytes' = <<>>
      BY <1>3 DEF CoreWaits, CoreReads, CoreDelays, CoreRaises, Enters, WaitCalled, ReadCalled,
         DelayCalled, RaiseCalled, callVars, Go
    <2>2. UNCHANGED <<held, kept>> /\ (core' \in {"waits", "wait_reads", "reads"} => ~held)
      BY <1>3 DEF CoreWaits, CoreReads, CoreDelays, CoreRaises, Enters, keptVars
    <2>3. QED BY <2>1, <2>2, EmptyBytes
  <1>4. CASE WaitsOnKept \/ UNCHANGED vars
    BY <1>4 DEF WaitsOnKept, vars, hostVars, callVars, coreVars, keptVars, Whole
  <1>5. CASE ReadsKept
    <2>1. PICK n \in 0 .. Len(kept) :
            (n > 0 \/ kept = <<>>) /\ kept' = SubSeq(kept, n + 1, Len(kept))
      BY <1>5 DEF ReadsKept
    <2>2. Whole(kept')
      BY <2>1, WholeSplit
    <2>3. UNCHANGED <<bytes, pc, core>> /\ core = "runs"
      BY <1>5 DEF ReadsKept, hostVars, callVars
    <2>4. QED BY <2>2, <2>3
  <1>6. QED BY <1>1, <1>2, <1>3, <1>4, <1>5 DEF Next

\* The typed bytes on their way, and those the core's last read brought.
Queue == BytesOf(kept) \o BytesOf(bytes) \o tty
Got   == BytesOf(got)

LEMMA QueueType ==
  ASSUME InputInv, StreamInv
  PROVE  /\ BytesOf(kept) \in Seq(TypedBytes) /\ BytesOf(bytes) \in Seq(TypedBytes)
         /\ tty \in Seq(TypedBytes) /\ Queue \in Seq(TypedBytes)
  <1>1. tty \in Seq(TypedBytes)
    BY DEF InputInv, HostInv, HostTypes, TypedBytes
  <1>2. BytesOf(kept) \in Seq(TypedBytes) /\ BytesOf(bytes) \in Seq(TypedBytes)
    BY WholeBytes DEF StreamInv
  <1>3. QED BY <1>1, <1>2 DEF Queue

\* The steps of the host: a byte typed is put last, one read stays where it is.
LEMMA StreamHosts ==
  ASSUME InputInv, StreamInv, Hosts
  PROVE  Got' = Got /\ (Queue' = Queue \/ \E b \in TypedBytes : Queue' = Append(Queue, b))
  <1>0. HostInv
    BY DEF InputInv
  <1>1. UNCHANGED <<kept, got>>
    BY DEF Hosts, coreVars, keptVars, seenVars
  <1>2. Got' = Got /\ BytesOf(kept)' = BytesOf(kept)
    BY <1>1 DEF Got, BytesOf
  <1>3. CASE UserTypes
    <2>1. PICK b \in Bytes : tty' = Append(tty, Typed(b))
      BY <1>3 DEF UserTypes
    <2>2. Typed(b) \in TypedBytes
      BY DEF TypedBytes
    <2>3. BytesOf(bytes)' = BytesOf(bytes)
      BY <1>3 DEF UserTypes, callVars, BytesOf
    <2>4. ASSUME NEW q \in Seq(TypedBytes), NEW x \in TypedBytes
          PROVE  q \o Append(tty, x) = Append(q \o tty, x)
      BY QueueType
    <2>5. BytesOf(kept) \o BytesOf(bytes) \in Seq(TypedBytes)
      BY QueueType
    <2>6. Queue' = Append(Queue, Typed(b))
      BY <1>2, <2>1, <2>2, <2>3, <2>4, <2>5 DEF Queue
    <2>7. QED BY <1>2, <2>2, <2>6
  <1>4. CASE ReadReads
    <2> DEFINE n == IF room < Len(tty) THEN room ELSE Len(tty)
    <2>1. tty \in Seq(TypedBytes) /\ n \in 0 .. Len(tty) /\ Len(tty) \in Nat /\ (n > 0 \/ tty = <<>>)
      BY <1>0, QueueType DEF HostInv, HostTypes
    <2>2. bytes' = SubSeq(tty, 1, n) /\ tty' = SubSeq(tty, n + 1, Len(tty)) /\ bytes = <<>>
      BY <1>4 DEF ReadReads, ReadReturns, StreamInv
    <2> HIDE DEF n
    <2>3. Whole(tty)
      BY <2>1 DEF Whole
    <2>4. \/ BytesOf(bytes') = bytes' /\ tty = bytes' \o tty'
          \/ tty = <<>>
      <3>1. BytesOf(tty) = tty
        BY <2>1, TypedSeq
      <3>2. QED BY <2>1, <2>2, <2>3, <3>1, WholeSplit
    <2>5. tty' \in Seq(TypedBytes) /\ bytes' \in Seq(TypedBytes)
      <3>1. \A i \in 1 .. Len(tty) : tty[i] \in TypedBytes
        BY <2>1, ElementOfSeq
      <3>2. QED BY <2>1, <2>2, <3>1, SubSeqProperties
    <2>6. BytesOf(bytes)' \o tty' = tty
      <3>1. CASE tty = <<>>
        <4>1. bytes' = <<>> /\ tty' = <<>>
          BY <2>1, <2>2, <3>1, SubSeqEmpty
        <4>2. QED BY <3>1, <4>1, EmptyBytes, ConcatEmptySeq
      <3>2. CASE tty # <<>>
        <4>1. BytesOf(bytes)' = bytes'
          BY <2>4, <3>2 DEF BytesOf
        <4>2. QED BY <2>4, <3>2, <4>1
      <3>3. QED BY <3>1, <3>2
    <2>7. Queue' = BytesOf(kept) \o (BytesOf(bytes)' \o tty')
      <3>1. BytesOf(bytes)' = bytes'
        BY <2>5, TypedSeq DEF BytesOf
      <3>2. Queue' = (BytesOf(kept) \o BytesOf(bytes)') \o tty'
        BY <1>2 DEF Queue
      <3>3. BytesOf(kept) \in Seq(TypedBytes) /\ BytesOf(bytes)' \in Seq(TypedBytes)
        BY <2>5, <3>1, QueueType
      <3>4. QED BY <2>5, <3>2, <3>3, TypedConcat
    <2>8. Queue = BytesOf(kept) \o tty
      BY <2>2, EmptyBytes, QueueType, ConcatEmptySeq DEF Queue
    <2>9. QED BY <1>2, <2>6, <2>7, <2>8
  <1>5. CASE ~UserTypes /\ ~ReadReads
    <2>1. tty' = tty
      BY <1>5 DEF Hosts, World, Resized, Signalled, Goroutine, TakesSignal, SetsFlag, Wakes, InCall,
         WaitDrains, WaitDelivers, WaitFlags, WaitSelects, ReadDrains, ReadDelivers, ReadInt, ReadWinch,
         ReadSize, ReadTstp, ReadSelects, ReadAgain, ReadLast, DelayDelivers, DelayDrains,
         DelaySelects, DelayLast, Drains, Delivers, envVars
    <2>2. BytesOf(bytes)' = BytesOf(bytes)
      <3>1. CASE bytes' = bytes
        BY <3>1 DEF BytesOf
      <3>2. CASE bytes' # bytes
        <4>1. World \/ Goroutine \/ InCall
          BY DEF Hosts
        <4>2. ~(World \/ Goroutine)
          BY <1>0, <3>2, OnlyAdds
        <4>3. bytes = <<>>
          BY <1>0, <4>1, <4>2, MovesOn DEF StreamInv
        <4>4. bytes' \in {<<Key("int")>>, <<Key("tstp")>>, <<Report(size)>>}
          BY <1>5, <3>2, <4>1, <4>2 DEF InCall, WaitDrains, WaitDelivers, WaitFlags, WaitSelects,
             ReadDrains, ReadDelivers, ReadInt, ReadWinch, ReadSize, ReadTstp, ReadSelects, ReadAgain,
             ReadLast, ReadReturns, DelayDelivers, DelayDrains, DelaySelects, DelayLast, Drains,
             Delivers, callVars
        <4>5. PICK e \in {Key("int"), Key("tstp"), Report(size)} : bytes' = <<e>>
          BY <4>4
        <4>6. bytes'[1][1] # "byte" /\ 1 \in DOMAIN bytes'
          BY <4>5 DEF Key, Report
        <4>7. BytesOf(bytes)' = <<>>
          BY <4>6 DEF BytesOf
        <4>8. QED BY <4>3, <4>7, EmptyBytes
      <3>3. QED BY <3>1, <3>2
    <2>3. QED BY <1>2, <2>1, <2>2 DEF Queue
  <1>6. QED BY <1>3, <1>4, <1>5

\* The first of two parts is what a read of its length takes.
LEMMA TakesFirst ==
  ASSUME NEW T, NEW a \in Seq(T), NEW b \in Seq(T)
  PROVE  LET q == a \o b
         IN  a = SubSeq(q, 1, Len(a)) /\ b = SubSeq(q, Len(a) + 1, Len(q))
  <1> DEFINE q == a \o b
             n == Len(a)
             first == SubSeq(q, 1, n)
             rest == SubSeq(q, n + 1, Len(q))
  <1>1. /\ q \in Seq(T) /\ Len(q) = n + Len(b) /\ n \in Nat /\ Len(b) \in Nat
        /\ \A i \in 1 .. n + Len(b) : q[i] = IF i <= n THEN a[i] ELSE b[i - n]
    BY ConcatProperties, LenProperties
  <1> HIDE DEF q, n
  <1>2. \A i \in 1 .. Len(q) : q[i] \in T
    BY <1>1, ElementOfSeq
  <1>3. first \in Seq(T) /\ Len(first) = n /\ \A i \in 1 .. n : first[i] = q[i]
    BY <1>1, <1>2, SubSeqProperties
  <1>4. rest \in Seq(T) /\ Len(rest) = Len(b) /\ \A i \in 1 .. Len(b) : rest[i] = q[n + i]
    <2>1. n + 1 \in Int /\ Len(q) \in Int /\ \A i \in n + 1 .. Len(q) : q[i] \in T
      BY <1>1, <1>2
    <2>2. rest \in Seq(T) /\ Len(rest) = (IF n + 1 <= Len(q) THEN Len(q) - (n + 1) + 1 ELSE 0)
          /\ \A i \in 1 .. Len(q) - (n + 1) + 1 : rest[i] = q[n + 1 + i - 1]
      BY <2>1, SubSeqProperties
    <2> HIDE DEF rest
    <2>3. Len(rest) = Len(b)
      BY <1>1, <2>2
    <2>4. \A i \in 1 .. Len(b) : rest[i] = q[n + i]
      BY <1>1, <2>2
    <2>5. QED BY <2>2, <2>3, <2>4
  <1> HIDE DEF first, rest
  <1>5. first = a
    <2>1. Len(first) = Len(a) /\ \A i \in 1 .. Len(first) : first[i] = a[i]
      BY <1>1, <1>3 DEF n
    <2>2. QED BY <1>3, <2>1, SeqEqual
  <1>6. rest = b
    <2>1. \A i \in 1 .. Len(rest) : rest[i] = b[i]
      BY <1>1, <1>4
    <2>2. QED BY <1>4, <2>1, SeqEqual
  <1>7. QED BY <1>5, <1>6 DEF first, rest, q, n

\* The steps of the callers: the core goes on, or a read takes the first
\* bytes of the queue.
StreamTakes ==
  \E n \in 1 .. Len(Queue) :
    Got' = SubSeq(Queue, 1, n) /\ Queue' = SubSeq(Queue, n + 1, Len(Queue))

LEMMA StreamAnswers ==
  ASSUME InputInv, StreamInv, Answers
  PROVE  (Queue' = Queue /\ (Got' = Got \/ Got' = <<>>)) \/ StreamTakes
  <1>0. bytes' = <<>> /\ BytesOf(bytes)' = <<>> /\ tty' = tty
    <2>1. bytes' = <<>>
      BY DEF Answers, WaitAnswered, WaitReadAnswered, ReadAnswered, CallDone, TakesEvent, Leaves
    <2>2. tty' = tty
      BY DEF Answers, WaitAnswered, WaitReadAnswered, ReadAnswered, CallDone, TakesEvent, Leaves, envVars
    <2>3. BytesOf(bytes') = <<>>
      BY <2>1, EmptyBytes
    <2>4. QED BY <2>1, <2>2, <2>3 DEF BytesOf
  <1>1. CASE WaitAnswered \/ CallDone \/ TakesEvent
    <2>1. bytes = <<>> /\ UNCHANGED <<kept, got>>
      BY <1>1 DEF WaitAnswered, CallDone, TakesEvent, Leaves, StreamInv, keptVars, seenVars
    <2>2. QED
      BY <1>0, <2>1 DEF Queue, Got, BytesOf
  <1>2. CASE WaitReadAnswered
    <2>1. kept = <<>> /\ kept' = bytes /\ got' = got
      BY <1>2 DEF WaitReadAnswered, InputInv, CoreTypes, StreamInv
    <2>2. BytesOf(kept) = <<>> /\ BytesOf(kept)' = BytesOf(bytes)
      BY <2>1, EmptyBytes DEF BytesOf
    <2>3. BytesOf(kept)' \o BytesOf(bytes)' = BytesOf(kept) \o BytesOf(bytes)
      BY <1>0, <2>2, QueueType, ConcatEmptySeq
    <2>4. QED BY <1>0, <2>1, <2>3 DEF Queue, Got, BytesOf
  <1>3. CASE ReadAnswered
    <2>1. kept = <<>> /\ kept' = <<>> /\ got' = bytes
      BY <1>3 DEF ReadAnswered, Reads, InputInv, CoreTypes, StreamInv, keptVars
    <2>2. BytesOf(kept) = <<>> /\ BytesOf(kept)' = <<>> /\ Got' = BytesOf(bytes)
      BY <2>1, EmptyBytes DEF BytesOf, Got
    <2>3. Queue = BytesOf(bytes) \o tty
      BY <2>2, QueueType, ConcatEmptySeq DEF Queue
    <2>4. <<>> \in Seq(TypedBytes) /\ <<>> \o <<>> = <<>>
      BY EmptySeq, ConcatEmptySeq
    <2>5. Queue' = tty
      BY <1>0, <2>2, <2>4, QueueType, ConcatEmptySeq DEF Queue
    <2>6. CASE BytesOf(bytes) = <<>>
      BY <2>2, <2>3, <2>5, <2>6, QueueType, ConcatEmptySeq
    <2>7. CASE BytesOf(bytes) # <<>>
      <3>1. Len(BytesOf(bytes)) \in 1 .. Len(Queue)
        BY <2>3, <2>7, QueueType, ConcatProperties, EmptySeq, LenProperties
      <3>2. QED
        BY <2>2, <2>3, <2>5, <3>1, QueueType, TakesFirst DEF StreamTakes
    <2>8. QED BY <2>6, <2>7
  <1>4. QED BY <1>1, <1>2, <1>3 DEF Answers

LEMMA StreamCalls ==
  ASSUME InputInv, StreamInv, CoreSteps
  PROVE  (Queue' = Queue /\ Got' = <<>>) \/ StreamTakes
  <1>0. BytesOf(bytes)' = BytesOf(bytes) /\ tty' = tty
    <2>1. bytes = <<>> /\ bytes' = <<>>
      BY DEF CoreSteps, CoreWaits, WaitsOnKept, CoreReads, ReadsKept, CoreDelays, CoreRaises, Enters,
         WaitCalled, ReadCalled, DelayCalled, RaiseCalled, hostVars, callVars, StreamInv
    <2>2. tty' = tty
      BY DEF CoreSteps, CoreWaits, WaitsOnKept, CoreReads, ReadsKept, CoreDelays, CoreRaises, Enters,
         WaitCalled, ReadCalled, DelayCalled, RaiseCalled, hostVars, envVars
    <2>3. QED BY <2>1, <2>2 DEF BytesOf
  <1>1. CASE ~ReadsKept
    <2>1. got' = <<>> /\ kept' = kept
      BY <1>1 DEF CoreSteps, CoreWaits, WaitsOnKept, CoreReads, CoreDelays, CoreRaises, Enters, keptVars
    <2>2. Got' = <<>> /\ BytesOf(kept)' = BytesOf(kept)
      BY <2>1 DEF Got, BytesOf
    <2>3. QED BY <1>0, <2>2 DEF Queue
  <1>2. CASE ReadsKept
    <2>1. PICK n \in 0 .. Len(kept) :
            /\ n > 0 \/ kept = <<>>
            /\ got' = SubSeq(kept, 1, n)
            /\ kept' = SubSeq(kept, n + 1, Len(kept))
      BY <1>2 DEF ReadsKept, Reads
    <2>2. bytes = <<>> /\ BytesOf(bytes) = <<>>
      BY <1>2, EmptyBytes DEF ReadsKept, StreamInv
    <2>3. Queue = BytesOf(kept) \o tty
      BY <2>2, QueueType, ConcatEmptySeq DEF Queue
    <2>4. Got' = BytesOf(SubSeq(kept, 1, n))
          /\ BytesOf(kept)' = BytesOf(SubSeq(kept, n + 1, Len(kept)))
      BY <2>1 DEF Got, BytesOf
    <2>5. CASE /\ kept \in Seq(TypedBytes)
               /\ Got' = SubSeq(kept, 1, n) /\ BytesOf(kept)' = SubSeq(kept, n + 1, Len(kept))
               /\ kept = SubSeq(kept, 1, n) \o SubSeq(kept, n + 1, Len(kept))
               /\ Len(SubSeq(kept, 1, n)) = n
      <3> DEFINE a == SubSeq(kept, 1, n)
                 b == SubSeq(kept, n + 1, Len(kept))
      <3>1. Len(kept) \in Nat /\ \A i \in 1 .. Len(kept) : kept[i] \in TypedBytes
        BY <2>5, LenProperties, ElementOfSeq
      <3>2. a \in Seq(TypedBytes) /\ b \in Seq(TypedBytes)
        BY <3>1, SubSeqProperties
      <3>3. kept = a \o b /\ Got' = a /\ BytesOf(kept)' = b /\ Len(a) = n
        BY <2>5
      <3> HIDE DEF a, b
      <3>4. BytesOf(kept) = kept
        BY <2>5, TypedSeq
      <3>5. b \o tty \in Seq(TypedBytes) /\ Queue = a \o (b \o tty)
        BY <2>3, <3>2, <3>3, <3>4, QueueType, ConcatAssociative, ConcatProperties
      <3>6. Queue' = b \o tty
        BY <1>0, <2>2, <3>2, <3>3, ConcatEmptySeq DEF Queue
      <3>7. CASE n = 0
        <4>1. a = <<>>
          BY <3>2, <3>3, <3>7, EmptySeq
        <4>2. QED BY <3>3, <3>5, <3>6, <4>1, ConcatEmptySeq
      <3>8. CASE n # 0
        <4>1. n \in 1 .. Len(Queue)
          BY <3>1, <3>2, <3>3, <3>5, <3>8, ConcatProperties, LenProperties
        <4>2. a = SubSeq(Queue, 1, n) /\ b \o tty = SubSeq(Queue, n + 1, Len(Queue))
          BY <3>2, <3>3, <3>5, TakesFirst
        <4>3. QED BY <3>3, <3>6, <4>1, <4>2 DEF StreamTakes
      <3>9. QED BY <3>7, <3>8
    <2>6. CASE BytesOf(kept) = <<>> /\ Got' = <<>> /\ BytesOf(kept)' = <<>>
      BY <1>0, <2>6 DEF Queue
    <2>7. QED
      BY <2>1, <2>4, <2>5, <2>6, WholeSplit DEF StreamInv
  <1>3. QED BY <1>1, <1>2

\* What is typed comes to the core in order, each byte once, the guest's
\* reading ahead and its calls made again between (vmm.go:569-571,
\* rt.c:190-203): the whole way of a key implements the stream TtyStream is.
THEOREM BytesInOrder == Spec => TtyInOrder
  <1>1. Init => Stream!Init /\ StreamInv
    <2> SUFFICES ASSUME Init PROVE Stream!Init /\ StreamInv
      OBVIOUS
    <2>1. kept = <<>> /\ bytes = <<>> /\ tty = <<>> /\ got = <<>> /\ held = FALSE /\ core = "runs"
      BY DEF Init, HostInit
    <2>2. <<>> \in Seq(TypedBytes) /\ <<>> \o <<>> = <<>>
      BY EmptySeq, ConcatEmptySeq
    <2>3. QED
      BY <2>1, <2>2, EmptyBytes DEF Stream!Init, StreamInv
  <1>2. InputInv /\ StreamInv /\ [Next]_vars => StreamInv'
    BY StreamNext
  <1>3. InputInv /\ StreamInv /\ [Next]_vars
          => [Stream!Types \/ Stream!Takes \/ Stream!GoesOn]_<<Queue, Got>>
    <2> SUFFICES ASSUME InputInv, StreamInv, [Next]_vars
                 PROVE  \/ Stream!Types \/ Stream!Takes \/ Stream!GoesOn
                        \/ UNCHANGED <<Queue, Got>>
      OBVIOUS
    <2>1. CASE Hosts
      <3>1. CASE Queue' = Queue
        BY <2>1, <3>1, StreamHosts
      <3>2. CASE \E b \in TypedBytes : Queue' = Append(Queue, b)
        BY <2>1, <3>2, StreamHosts DEF Stream!Types, Queue, Got
      <3>3. QED BY <2>1, <3>1, <3>2, StreamHosts
    <2>2. CASE Answers \/ CoreSteps
      <3>1. CASE StreamTakes
        BY <3>1 DEF StreamTakes, Stream!Takes, Queue, Got
      <3>2. CASE Queue' = Queue /\ Got' = <<>>
        BY <3>2 DEF Stream!GoesOn, Queue, Got
      <3>3. QED BY <2>2, <3>1, <3>2, StreamAnswers, StreamCalls
    <2>3. CASE UNCHANGED vars
      BY <2>3 DEF vars, hostVars, callVars, envVars, coreVars, keptVars, seenVars, Queue, Got, BytesOf
    <2>4. QED BY <2>1, <2>2, <2>3 DEF Next, CoreSteps
  <1>4. QED
    BY <1>1, <1>2, <1>3, InputInvariant, PTL DEF Spec, TtyInOrder, Stream!Spec, Queue, Got
=============================================================================

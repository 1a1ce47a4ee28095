--------------------------- MODULE BoxStore_proofs ---------------------------
(***************************************************************************)
(* What BoxStore promises, proved for any clients and blobs, with faults   *)
(* or without: its types, that a ref never names a blob the store does not *)
(* hold whole, and that it implements TxnRegister.                         *)
(***************************************************************************)
EXTENDS BoxStore, TLAPS

\* A client inside a call has one, with its blob; one outside has none.
CallPlaces ==
  \A c \in Clients : IF pc[c] = "idle" THEN call[c] = NoCall ELSE call[c] \in BlobCalls

TypeInv == TypeOK /\ CallPlaces

LEMMA TypeInit == Init => TypeInv
  BY StoreAssumption DEF Init, TypeInv, TypeOK, CallPlaces, InSetRef, NoCall, BlobCalls

LEMMA TypeStep == TypeInv /\ [Next]_vars => TypeInv'
  <1> SUFFICES ASSUME TypeInv, [Next]_vars PROVE TypeInv'
    OBVIOUS
  <1> USE StoreAssumption, TornAssumption
      DEF TypeInv, TypeOK, CallPlaces, InSetRef, Go, Starts, Returns, PutDone,
          fileVars, callVars, txnVars, RefAnswer, NoCall
  <1>1. ASSUME NEW c \in Clients, Asks(c) PROVE TypeInv'
    <2>1. CASE TxnBegins(c) BY <2>1 DEF TxnBegins
    <2>2. CASE TxnAborts(c) BY <2>2 DEF TxnAborts
    <2>3. ASSUME NEW b \in Blobs, PutCalled(c, b) PROVE TypeInv'
      BY <2>3 DEF PutCalled, BlobCalls
    <2>4. ASSUME NEW b \in Blobs, CommitCalled(c, b) PROVE TypeInv'
      BY <2>4 DEF CommitCalled, BlobCalls
    <2>5. ASSUME NEW b \in Blobs, NEW cas \in BOOLEAN, NEW old \in Blobs \union {None},
                 SetCalled(c, b, cas, old)
          PROVE  TypeInv'
      BY <2>5 DEF SetCalled, BlobCalls
    <2>6. QED BY <1>1, <2>1, <2>2, <2>3, <2>4, <2>5 DEF Asks
  <1>2. ASSUME NEW c \in Clients, Steps(c) PROVE TypeInv'
    <2> USE DEF BlobCalls
    <2>1. CASE PutLoads(c) BY <2>1 DEF PutLoads
    <2>2. CASE PutCreates(c) BY <2>2 DEF PutCreates
    <2>3. CASE PutRefused(c) BY <2>3 DEF PutRefused
    <2>4. CASE PutWrites(c) BY <2>4 DEF PutWrites
    <2>5. CASE PutFails(c) BY <2>5 DEF PutFails
    <2>6. CASE SetLoads(c) BY <2>6 DEF SetLoads
    <2>7. CASE SetLocks(c) BY <2>7 DEF SetLocks
    <2>8. CASE SetCompares(c) BY <2>8 DEF SetCompares
    <2>9. CASE SetTruncates(c) BY <2>9 DEF SetTruncates
    <2>10. CASE SetWrites(c) BY <2>10 DEF SetWrites
    <2>11. CASE SetOpenFails(c) BY <2>11 DEF SetOpenFails
    <2>12. CASE SetFails(c) BY <2>12 DEF SetFails
    <2>13. QED
      BY <1>2, <2>1, <2>2, <2>3, <2>4, <2>5, <2>6, <2>7, <2>8, <2>9, <2>10, <2>11, <2>12 DEF Steps
  <1>3. CASE Crash BY <1>3 DEF Crash
  <1>4. CASE UNCHANGED vars BY <1>4 DEF vars
  <1>5. QED
    BY <1>1, <1>2, <1>3, <1>4 DEF Next

\* Every call carries its blob to its end; the ref's lock is held by the one
\* client between SetRef's comparison and its write (store.go:153).
THEOREM TypeCorrect == Spec => []TypeOK
  BY TypeInit, TypeStep, PTL DEF Spec, TypeInv

-----------------------------------------------------------------------------
(***************************************************************************)
(* What is cached and what a SetRef past its look at the blob works on is  *)
(* whole on the disk: only Put changes blobs, and never a whole one.       *)
(***************************************************************************)
CacheWhole == \A b \in cache : blob[b] = "whole"

CalledWhole ==
  \A c \in Clients : pc[c] \in {"lock"} \union InSetRef => blob[call[c].blob] = "whole"

\* The commit's own: its transaction spent, the old hash what it saw.
CommitSpent ==
  \A c \in Clients : call[c].op = "commit" =>
    status[c] = "spent" /\ call[c].cas /\ call[c].want = seen[c]

\* A commit past its comparison: nobody has written the ref since.
Compared ==
  \A c \in Clients : pc[c] \in {"truncate", "write"} /\ call[c].op = "commit" => seen[c] = value

\* The ref's file holds the value, but while it is being written.
RefHolds ==
  IF \E c \in Clients : pc[c] = "write" THEN ref = Torn ELSE RefAnswer = value

StoreInv ==
  TypeInv /\ CacheWhole /\ CalledWhole /\ RefWhole /\ CommitSpent /\ Compared /\ RefHolds

LEMMA StoreInit == Init => StoreInv
  BY TypeInit, StoreAssumption, TornAssumption
     DEF Init, StoreInv, CacheWhole, CalledWhole, RefWhole, CommitSpent, Compared, RefHolds,
         RefAnswer, InSetRef, NoCall

LEMMA StoreStep == StoreInv /\ [Next]_vars => StoreInv'
  <1> SUFFICES ASSUME StoreInv, [Next]_vars PROVE StoreInv'
    OBVIOUS
  <1>1. TypeInv /\ TypeInv'
    BY TypeStep DEF StoreInv
  <1>2. /\ CacheWhole /\ CalledWhole /\ RefWhole /\ CommitSpent /\ Compared /\ RefHolds
        /\ StoreInv' <=> (CacheWhole /\ CalledWhole /\ RefWhole /\ CommitSpent /\ Compared /\ RefHolds)'
    BY <1>1 DEF StoreInv
  <1> USE <1>1, <1>2, StoreAssumption, TornAssumption
      DEF TypeInv, TypeOK, CallPlaces, InSetRef, Go, Starts, Returns, PutDone, Loads,
          fileVars, callVars, txnVars, RefAnswer, NoCall, BlobCalls,
          CacheWhole, CalledWhole, RefWhole, CommitSpent, Compared, RefHolds
  <1>3. ASSUME NEW c \in Clients, Asks(c) PROVE StoreInv'
    <2>1. CASE TxnBegins(c) BY <2>1 DEF TxnBegins
    <2>2. CASE TxnAborts(c) BY <2>2 DEF TxnAborts
    <2>3. ASSUME NEW b \in Blobs, PutCalled(c, b) PROVE StoreInv'
      BY <2>3 DEF PutCalled
    <2>4. ASSUME NEW b \in Blobs, CommitCalled(c, b) PROVE StoreInv'
      BY <2>4 DEF CommitCalled
    <2>5. ASSUME NEW b \in Blobs, NEW cas \in BOOLEAN, NEW old \in Blobs \union {None},
                 SetCalled(c, b, cas, old)
          PROVE  StoreInv'
      BY <2>5 DEF SetCalled
    <2>6. QED BY <1>3, <2>1, <2>2, <2>3, <2>4, <2>5 DEF Asks
  <1>4. ASSUME NEW c \in Clients, Steps(c) PROVE StoreInv'
    <2>1. CASE PutLoads(c) BY <2>1 DEF PutLoads
    <2>2. CASE PutCreates(c) BY <2>2 DEF PutCreates
    <2>3. CASE PutRefused(c) BY <2>3 DEF PutRefused
    <2>4. CASE PutWrites(c) BY <2>4 DEF PutWrites
    <2>5. CASE PutFails(c) BY <2>5 DEF PutFails
    <2>6. CASE SetLoads(c) BY <2>6 DEF SetLoads
    <2>7. CASE SetLocks(c) BY <2>7 DEF SetLocks
    <2>8. CASE SetCompares(c) BY <2>8 DEF SetCompares
    <2>9. CASE SetTruncates(c) BY <2>9 DEF SetTruncates
    <2>10. CASE SetWrites(c) BY <2>10 DEF SetWrites
    <2>11. CASE SetOpenFails(c) BY <2>11 DEF SetOpenFails
    <2>12. CASE SetFails(c) BY <2>12 DEF SetFails
    <2>13. QED
      BY <1>4, <2>1, <2>2, <2>3, <2>4, <2>5, <2>6, <2>7, <2>8, <2>9, <2>10, <2>11, <2>12 DEF Steps
  <1>5. CASE Crash BY <1>5 DEF Crash
  <1>6. CASE UNCHANGED vars BY <1>6 DEF vars
  <1>7. QED
    BY <1>3, <1>4, <1>5, <1>6 DEF Next

LEMMA StoreInvariant == Spec => []StoreInv
  BY StoreInit, StoreStep, PTL DEF Spec

\* A ref never names a blob the store does not hold whole, whoever dies or
\* fails when (store.go:153): SetRef looks for the blob first, blobs are
\* written before that and never shortened after.
THEOREM RefsAreWhole == Spec => []RefWhole
  BY StoreInvariant, PTL DEF StoreInv

-----------------------------------------------------------------------------
(***************************************************************************)
(* BoxStore implements TxnRegister: the write of the ref's file is Commit  *)
(* or Set, everything before it a stutter, but for the transaction's spent *)
(* mark, which box/commit! sets before anything else (txn.go).             *)
(***************************************************************************)
LEMMA RegisterInit == Init => Register!Init
  BY DEF Init, Register!Init

LEMMA RegisterStep == StoreInv /\ [Next]_vars => [Register!Next]_(Register!vars)
  <1> SUFFICES ASSUME StoreInv, [Next]_vars PROVE [Register!Next]_(Register!vars)
    OBVIOUS
  <1>1. /\ TypeInv /\ CommitSpent /\ Compared /\ RefHolds
        /\ RefAnswer \in {value, None}
    BY TornAssumption DEF StoreInv, RefHolds, RefAnswer
  <1> USE <1>1 DEF TypeInv, TypeOK, CallPlaces, Returns, fileVars, callVars, txnVars, Register!vars
  <1>2. ASSUME NEW c \in Clients, Asks(c) PROVE Register!Next \/ UNCHANGED Register!vars
    <2>1. CASE TxnBegins(c)
      <3>1. Register!Begin(c)
        BY <2>1 DEF TxnBegins, Register!Begin
      <3>2. QED BY <3>1 DEF Register!Next
    <2>2. CASE TxnAborts(c)
      <3>1. Register!Spend(c)
        BY <2>2 DEF TxnAborts, Register!Spend
      <3>2. QED BY <3>1 DEF Register!Next
    <2>3. ASSUME NEW b \in Blobs, CommitCalled(c, b)
          PROVE  Register!Next \/ UNCHANGED Register!vars
      <3>1. Register!Spend(c)
        BY <2>3 DEF CommitCalled, Register!Spend
      <3>2. QED BY <3>1 DEF Register!Next
    <2>4. ASSUME NEW b \in Blobs,
                 PutCalled(c, b) \/ \E cas \in BOOLEAN, old \in Blobs \union {None} : SetCalled(c, b, cas, old)
          PROVE  Register!Next \/ UNCHANGED Register!vars
      BY <2>4 DEF PutCalled, SetCalled
    <2>5. QED BY <1>2, <2>1, <2>2, <2>3, <2>4 DEF Asks
  <1>3. ASSUME NEW c \in Clients, SetWrites(c)
        PROVE  Register!Next \/ UNCHANGED Register!vars
    <2>1. call[c].blob \in Blobs /\ pc[c] = "write" /\ value' = call[c].blob /\ UNCHANGED seen
      BY <1>3 DEF SetWrites, BlobCalls
    <2>2. CASE call[c].op = "commit"
      <3>1. status[c] = "spent" /\ seen[c] = value /\ status' = [status EXCEPT ![c] = "committed"]
        BY <1>3, <2>1, <2>2 DEF SetWrites, CommitSpent, Compared
      <3>2. Register!Commit(c)
        BY <2>1, <3>1 DEF Register!Commit
      <3>3. QED BY <3>2 DEF Register!Next
    <2>3. CASE call[c].op # "commit"
      <3>1. Register!Set
        BY <1>3, <2>1, <2>3 DEF SetWrites, Register!Set
      <3>2. QED BY <3>1 DEF Register!Next
    <2>4. QED BY <2>2, <2>3
  <1>4. ASSUME NEW c \in Clients, SetFails(c)
        PROVE  Register!Next \/ UNCHANGED Register!vars
    <2>1. Register!Lose
      BY <1>4 DEF SetFails, Register!Lose
    <2>2. QED BY <2>1 DEF Register!Next
  <1>5. ASSUME NEW c \in Clients,
               \/ PutLoads(c) \/ PutCreates(c) \/ PutRefused(c) \/ PutWrites(c) \/ PutFails(c)
               \/ SetLoads(c) \/ SetLocks(c) \/ SetCompares(c) \/ SetTruncates(c)
               \/ SetOpenFails(c)
        PROVE  UNCHANGED Register!vars
    BY <1>5 DEF PutLoads, PutCreates, PutRefused, PutWrites, PutFails, SetLoads, SetLocks,
       SetCompares, SetTruncates, SetOpenFails
  <1>6. CASE Crash
    <2>1. Register!Restart
      BY <1>6 DEF Crash, Register!Restart
    <2>2. QED BY <2>1 DEF Register!Next
  <1>7. CASE UNCHANGED vars
    BY <1>7 DEF vars
  <1>8. QED
    BY <1>2, <1>3, <1>4, <1>5, <1>6, <1>7 DEF Next, Steps

\* A commit is answered true only if the ref is still what its transaction
\* saw, nobody having written it since, and a transaction commits at most
\* once (txn.go:10-17), for any number of clients, dying and failing at will.
THEOREM StoreImplementsRegister == Spec => TxnsIsolated
  <1>1. Init => Register!Init
    BY RegisterInit
  <1>2. StoreInv /\ [Next]_vars => [Register!Next]_(Register!vars)
    BY RegisterStep
  <1>3. QED
    BY <1>1, <1>2, StoreInvariant, PTL DEF Spec, TxnsIsolated, Register!Spec
=============================================================================

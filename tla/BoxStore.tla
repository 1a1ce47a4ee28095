------------------------------- MODULE BoxStore -------------------------------
(***************************************************************************)
(* The box's store: vmm/store.go's DirStore on the host's files, and the   *)
(* namespace box's functions on it (guest/joker/box), called from any vCPU *)
(* at once: the store's calls do not take the Host's lock.                 *)
(*                                                                         *)
(* One ref is modelled (its name valid), and a blob is its own hash.  A    *)
(* blob's file is created, then written; a ref's is truncated, then        *)
(* written (os.WriteFile); a reader of either finds what is there.  The    *)
(* monitor may die between any two steps: what the files hold stays, its   *)
(* memory goes.  The disk may be full at any write.                        *)
(***************************************************************************)
EXTENDS FiniteSets

CONSTANTS Clients,   \* the vCPUs' (or jokerhost's) threads that use the store
          Blobs,     \* the blobs
          None,      \* no blob; no ref
          Faults     \* whether the monitor dies, and writes fail

ASSUME StoreAssumption == None \notin Blobs /\ None \notin Clients /\ Faults \in BOOLEAN

Torn == "torn"       \* a ref's file truncated and not written
ASSUME TornAssumption == Torn \notin Blobs /\ Torn # None

VARIABLES
  blob,      \* a blob's file: none, "short" (created, not written), "whole"
  cache,     \* DirStore.cache
  ref,       \* the ref's file: None (no such file), Torn, or a blob's hash
  refMu,     \* who holds refMu
  pc,        \* where each client is in its call
  call,      \* the call: its name, its blob, SetRef's old hash if it has one
  seen,      \* txn.old
  status,    \* txn.spent, and whether its commit was answered true
  value      \* what the ref points at: the last write of it finished, None
             \* when one failed (no variable of the code)

fileVars == <<blob, cache, ref>>
callVars == <<pc, call>>
txnVars  == <<seen, status>>
vars == <<blob, cache, ref, refMu, callVars, txnVars, value>>

InSetRef == {"compare", "truncate", "write"}

\* The calls with a blob: box/put, box/ref! (cas: with an old hash, None for
\* "if there is no such ref") and box/commit!.
BlobCalls == [op : {"put", "set", "commit"}, blob : Blobs, cas : BOOLEAN, want : Blobs \union {None}]
NoCall    == [op |-> "none"]

TypeOK ==
  /\ blob \in [Blobs -> {"none", "short", "whole"}]
  /\ cache \in SUBSET Blobs
  /\ ref \in Blobs \union {None, Torn}
  /\ refMu \in Clients \union {None}
  /\ pc \in [Clients -> {"idle", "put", "create", "fill", "refused", "set", "lock"} \union InSetRef]
  /\ call \in [Clients -> BlobCalls \union {NoCall}]
  /\ seen \in [Clients -> Blobs \union {None}]
  /\ status \in [Clients -> {"none", "open", "spent", "committed"}]
  /\ value \in Blobs \union {None}
  /\ \A c \in Clients : refMu = c <=> pc[c] \in InSetRef

\* An empty directory.
Init ==
  /\ blob = [b \in Blobs |-> "none"]
  /\ ref = None
  /\ value = None
  /\ cache = {}
  /\ refMu = None
  /\ pc = [c \in Clients |-> "idle"]
  /\ call = [c \in Clients |-> NoCall]
  /\ seen = [c \in Clients |-> None]
  /\ status = [c \in Clients |-> "none"]

(***************************************************************************)
(* What a read of the files finds.                                         *)
(***************************************************************************)

\* load: the blob cached, or its file held to its hash.
Loads(b) == b \in cache \/ blob[b] = "whole"

\* Ref: the hash the ref's file holds, None when it holds none.
RefAnswer == IF ref \in Blobs THEN ref ELSE None

(***************************************************************************)
(* The calls begin.                                                        *)
(***************************************************************************)
Go(c, from, to) == pc[c] = from /\ pc' = [pc EXCEPT ![c] = to] /\ UNCHANGED call

Starts(c, at, what) ==
  /\ pc[c] = "idle"
  /\ pc' = [pc EXCEPT ![c] = at]
  /\ call' = [call EXCEPT ![c] = what]

Returns(c, from) ==
  /\ pc[c] = from
  /\ pc' = [pc EXCEPT ![c] = "idle"]
  /\ call' = [call EXCEPT ![c] = NoCall]

PutCalled(c, b) ==
  /\ Starts(c, "put", [op |-> "put", blob |-> b, cas |-> FALSE, want |-> None])
  /\ UNCHANGED <<fileVars, refMu, txnVars, value>>

\* (box/ref! name b), (box/ref! name b old)
SetCalled(c, b, cas, old) ==
  /\ Starts(c, "set", [op |-> "set", blob |-> b, cas |-> cas, want |-> IF cas THEN old ELSE None])
  /\ UNCHANGED <<fileVars, refMu, txnVars, value>>

\* (box/txn name)
TxnBegins(c) ==
  /\ pc[c] = "idle"
  /\ seen' = [seen EXCEPT ![c] = RefAnswer]
  /\ status' = [status EXCEPT ![c] = "open"]
  /\ UNCHANGED <<fileVars, refMu, callVars, value>>

\* (box/abort! t), with-txn's way out among them.
TxnAborts(c) ==
  /\ pc[c] = "idle"
  /\ status[c] = "open"
  /\ status' = [status EXCEPT ![c] = "spent"]
  /\ UNCHANGED <<fileVars, refMu, callVars, seen, value>>

\* (box/commit! t s): t is spent, s put, and the ref set if it is what t saw.
CommitCalled(c, b) ==
  /\ Starts(c, "put", [op |-> "commit", blob |-> b, cas |-> TRUE, want |-> seen[c]])
  /\ status[c] = "open"
  /\ status' = [status EXCEPT ![c] = "spent"]
  /\ UNCHANGED <<fileVars, refMu, seen, value>>

(***************************************************************************)
(* Put.                                                                    *)
(***************************************************************************)
\* Put has succeeded: commit! goes on to SetRef, put returns.
PutDone(c, from) == IF call[c].op = "commit" THEN Go(c, from, "set") ELSE Returns(c, from)

\* There already, and whole: done.
PutLoads(c) ==
  /\ pc[c] = "put"
  /\ IF Loads(call[c].blob)
     THEN cache' = cache \union {call[c].blob} /\ PutDone(c, "put")
     ELSE UNCHANGED cache /\ Go(c, "put", "create")
  /\ UNCHANGED <<blob, ref, refMu, txnVars, value>>

\* O_CREATE|O_EXCL: refused when the file is there.
PutCreates(c) ==
  /\ pc[c] = "create"
  /\ IF blob[call[c].blob] = "none"
     THEN blob' = [blob EXCEPT ![call[c].blob] = "short"] /\ Go(c, "create", "fill")
     ELSE UNCHANGED blob /\ Go(c, "create", "refused")
  /\ UNCHANGED <<cache, ref, refMu, txnVars, value>>

PutRefused(c) ==
  /\ Returns(c, "refused")
  /\ UNCHANGED <<fileVars, refMu, txnVars, value>>

PutWrites(c) ==
  /\ PutDone(c, "fill")
  /\ blob' = [blob EXCEPT ![call[c].blob] = "whole"]
  /\ UNCHANGED <<cache, ref, refMu, txnVars, value>>

PutFails(c) ==
  /\ Faults
  /\ Returns(c, "fill")
  /\ UNCHANGED <<fileVars, refMu, txnVars, value>>

(***************************************************************************)
(* SetRef.                                                                 *)
(***************************************************************************)

\* Mutant: the blob is not looked for.
SetLoads_Unchecked(c) ==
  /\ Go(c, "set", "lock")
  /\ UNCHANGED <<fileVars, refMu, txnVars, value>>

\* No blob of that hash, or a short one: refused.
SetLoads(c) ==
  /\ pc[c] = "set"
  /\ IF Loads(call[c].blob)
     THEN cache' = cache \union {call[c].blob} /\ Go(c, "set", "lock")
     ELSE UNCHANGED cache /\ Returns(c, "set")
  /\ UNCHANGED <<blob, ref, refMu, txnVars, value>>

\* Mutant: the lock is one per caller.
SetLocks_Own(c) ==
  /\ Go(c, "lock", "compare")
  /\ refMu' = c
  /\ UNCHANGED <<blob, cache, ref, txnVars, value>>

SetLocks(c) ==
  /\ refMu = None
  /\ Go(c, "lock", "compare")
  /\ refMu' = c
  /\ UNCHANGED <<blob, cache, ref, txnVars, value>>

\* Mutant: a conflict is returned without the unlock.
SetCompares_Locked(c) ==
  /\ pc[c] = "compare"
  /\ IF ~call[c].cas \/ RefAnswer = call[c].want
     THEN Go(c, "compare", "truncate")
     ELSE Returns(c, "compare")
  /\ UNCHANGED <<fileVars, refMu, txnVars, value>>

SetCompares(c) ==
  /\ pc[c] = "compare"
  /\ IF ~call[c].cas \/ RefAnswer = call[c].want
     THEN UNCHANGED refMu /\ Go(c, "compare", "truncate")
     ELSE refMu' = None /\ Returns(c, "compare")
  /\ UNCHANGED <<blob, cache, ref, txnVars, value>>

\* os.WriteFile opens the file with O_TRUNC ...
SetTruncates(c) ==
  /\ Go(c, "truncate", "write")
  /\ ref' = Torn
  /\ UNCHANGED <<blob, cache, refMu, txnVars, value>>

\* ... and writes it.
SetWrites(c) ==
  /\ Returns(c, "write")
  /\ ref' = call[c].blob
  /\ value' = call[c].blob
  /\ refMu' = None
  /\ status' = IF call[c].op = "commit" THEN [status EXCEPT ![c] = "committed"] ELSE status
  /\ UNCHANGED <<blob, cache, seen>>

\* The file cannot be opened: the ref is as it was.
SetOpenFails(c) ==
  /\ Faults
  /\ Returns(c, "truncate")
  /\ refMu' = None
  /\ UNCHANGED <<fileVars, txnVars, value>>

\* The write fails: the ref is lost.
SetFails(c) ==
  /\ Faults
  /\ Returns(c, "write")
  /\ value' = None
  /\ refMu' = None
  /\ UNCHANGED <<blob, cache, ref, txnVars>>

(***************************************************************************)
(* The monitor dies, and another runs on the same directory: its memory is *)
(* as it starts, the files as they were left.                              *)
(***************************************************************************)
Crash ==
  /\ Faults
  /\ cache' = {}
  /\ refMu' = None
  /\ pc' = [c \in Clients |-> "idle"]
  /\ call' = [c \in Clients |-> NoCall]
  /\ seen' = [c \in Clients |-> None]
  /\ status' = [c \in Clients |-> "none"]
  /\ value' = RefAnswer
  /\ UNCHANGED <<blob, ref>>

Steps(c) ==
  \/ PutLoads(c) \/ PutCreates(c) \/ PutRefused(c) \/ PutWrites(c) \/ PutFails(c)
  \/ SetLoads(c) \/ SetLocks(c) \/ SetCompares(c)
  \/ SetTruncates(c) \/ SetWrites(c) \/ SetOpenFails(c) \/ SetFails(c)

Asks(c) ==
  \/ TxnBegins(c) \/ TxnAborts(c)
  \/ \E b \in Blobs : \/ PutCalled(c, b) \/ CommitCalled(c, b)
                      \/ \E cas \in BOOLEAN, old \in Blobs \union {None} : SetCalled(c, b, cas, old)

Next == (\E c \in Clients : Asks(c) \/ Steps(c)) \/ Crash

Spec == Init /\ [][Next]_vars

(***************************************************************************)
(* What the code promises.                                                 *)
(***************************************************************************)

\* A ref never names a blob the store does not hold whole (store.go:153),
\* whoever dies or fails when: blobs are not removed, and are written first.
RefWhole == ref \in Blobs => blob[ref] = "whole"

\* A commit is answered true only if the ref was still what its transaction
\* saw, and no other write of the ref came between; a transaction commits at
\* most once (txn.go:10-17).
Register == INSTANCE TxnRegister WITH
  Clients <- Clients, Blobs <- Blobs, None <- None,
  value <- value, seen <- seen, status <- status
TxnsIsolated == Register!Spec

\* "a short one from before is there: refused until removed by hand"
\* (store.go:94): a Put that finds the blob's file there finds one left
\* short by a call that is over.  It fails when the file is another Put's,
\* being written or just whole: the same data, put by two vCPUs at once.
RefusedForShort ==
  \A c \in Clients : pc[c] = "refused" =>
    /\ blob[call[c].blob] = "short"
    /\ \A d \in Clients : pc[d] = "fill" => call[d].blob # call[c].blob

\* "(box/ref name) the hash ref name points at, nil when none" (box.go:10):
\* while the ref points at a blob the answer is not nil.  It fails while
\* SetRef has truncated the file and not written it: Ref takes no lock.
RefAnswered == value # None => RefAnswer # None
=============================================================================

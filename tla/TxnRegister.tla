----------------------------- MODULE TxnRegister -----------------------------
(***************************************************************************)
(* What the store promises of a ref and of transactions on it              *)
(* (guest/joker/box/txn.go's comment, doc/LISP-SANDBOX.md, "Capabilities   *)
(* used once"): a register, set outright by box/ref!, or committed to by a *)
(* transaction only if it holds what the transaction saw, and once.        *)
(* Module BoxStore, the code's steps, implements it.                       *)
(***************************************************************************)
CONSTANTS Clients, Blobs, None

VARIABLES
  value,     \* the blob the ref points at, None when there is no ref
  seen,      \* what each client's transaction saw
  status     \* that transaction's

vars == <<value, seen, status>>

Init ==
  /\ value = None
  /\ seen = [c \in Clients |-> None]
  /\ status = [c \in Clients |-> "none"]

\* A transaction may take a ref being written for none; it cannot commit then.
Begin(c) ==
  /\ \E v \in {value, None} : seen' = [seen EXCEPT ![c] = v]
  /\ status' = [status EXCEPT ![c] = "open"]
  /\ UNCHANGED value

\* Commit and abort spend the transaction before anything else.
Spend(c) ==
  /\ status[c] = "open"
  /\ status' = [status EXCEPT ![c] = "spent"]
  /\ UNCHANGED <<value, seen>>

Commit(c) ==
  /\ status[c] = "spent"
  /\ seen[c] = value
  /\ status' = [status EXCEPT ![c] = "committed"]
  /\ value' \in Blobs
  /\ UNCHANGED seen

Set == value' \in Blobs /\ UNCHANGED <<seen, status>>

\* A write that fails, or a monitor that dies in one, leaves no ref.
Lose == value' = None /\ UNCHANGED <<seen, status>>

Restart ==
  /\ value' \in {value, None}
  /\ seen' = [c \in Clients |-> None]
  /\ status' = [c \in Clients |-> "none"]

Next == (\E c \in Clients : Begin(c) \/ Spend(c) \/ Commit(c)) \/ Set \/ Lose \/ Restart

Spec == Init /\ [][Next]_vars
=============================================================================

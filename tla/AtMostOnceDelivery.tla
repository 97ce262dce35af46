------------------------- MODULE AtMostOnceDelivery -------------------------
(***************************************************************************)
(* What the outbox promises about a planned item, without its threads, its *)
(* rows or its crashes: an item is claimed, then attempted once at the     *)
(* very most, and its recorded fate tells the truth about the attempt as   *)
(* far as anybody can know it.                                             *)
(***************************************************************************)
EXTENDS Integers

CONSTANT Items

VARIABLES
  fate,     \* what is on record about each item
  attempts  \* how often it was attempted

vars == <<fate, attempts>>

Init ==
  /\ fate = [i \in Items |-> "none"]
  /\ attempts = [i \in Items |-> 0]

Record(i, from, to) ==
  /\ fate[i] = from /\ fate' = [fate EXCEPT ![i] = to]
  /\ UNCHANGED attempts

Plan(i) == Record(i, "none", "pending")
Claim(i) == Record(i, "pending", "executing")
Reject(i) == Record(i, "pending", "failed_terminal")
Succeed(i) == attempts[i] = 1 /\ Record(i, "executing", "succeeded")

Attempt(i) ==
  /\ fate[i] = "executing" /\ attempts[i] = 0
  /\ attempts' = [attempts EXCEPT ![i] = 1]
  /\ UNCHANGED fate

\* One write error loses the outcome of one claimed item; a restart, that of
\* all of them.
LoseOutcome(items) ==
  /\ \A i \in items : fate[i] = "executing"
  /\ fate' = [i \in Items |-> IF i \in items THEN "unknown" ELSE fate[i]]
  /\ UNCHANGED attempts

Next ==
  \/ \E i \in Items : Plan(i) \/ Claim(i) \/ Reject(i) \/ Succeed(i) \/ Attempt(i)
  \/ \E items \in SUBSET Items : LoseOutcome(items)

Spec == Init /\ [][Next]_vars
=============================================================================

--------------------------- MODULE ContractRegistry ---------------------------
(***************************************************************************)
(* What the contract store promises of one agent's contracts, as if each   *)
(* change were made at once: a contract is created once and stays, its     *)
(* life only goes forward, and one of them at most is ACTIVE.              *)
(***************************************************************************)
EXTENDS Integers

CONSTANTS Keys, Statuses, Absent

VARIABLE status  \* status[k] \in Statuses, or Absent

\* How far a contract is in its life; REVOKED and EXPIRED are the end of it.
Stage(s) == CASE s = "DRAFT" -> 0 [] s = "ACTIVE" -> 1 [] s = "SUPERSEDED" -> 2
              [] OTHER -> 3

Vacant(k) == \A j \in Keys : status[j] = "ACTIVE" => j = k

Create(k, s) ==
    /\ status[k] = Absent
    /\ s = "ACTIVE" => Vacant(k)
    /\ status' = [status EXCEPT ![k] = s]

Move(k, s) ==
    /\ status[k] # Absent
    /\ Stage(s) > Stage(status[k])
    /\ s = "ACTIVE" => Vacant(k)
    /\ status' = [status EXCEPT ![k] = s]

Next == \E k \in Keys, s \in Statuses : Create(k, s) \/ Move(k, s)

Spec == status = [k \in Keys |-> Absent] /\ [][Next]_status
=============================================================================

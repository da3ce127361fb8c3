--------------------------- MODULE SequentialTrail ---------------------------
(***************************************************************************)
(* What one execution's evidence promises, as if requests were decided one *)
(* at a time: each decision sees every earlier one, no more than MaxCalls  *)
(* calls get past BLOCK on their own, each APPROVAL is executed at most    *)
(* once, and a decision that was let through may still be turned to BLOCK. *)
(***************************************************************************)
EXTENDS Naturals, Sequences

CONSTANTS MaxCalls, Decisions

VARIABLE trail  \* the sequence of [decision, redeems] records

Decide(d) ==
    /\ d # "BLOCK" => Len(trail) < MaxCalls
    /\ trail' = Append(trail, [decision |-> d, redeems |-> 0])

Redeem(i) ==
    /\ \A j \in DOMAIN trail : trail[j].redeems # i
    /\ trail' = Append(trail, [decision |-> "ALLOW", redeems |-> i])

Withdraw(i) == trail' = [trail EXCEPT ![i].decision = "BLOCK"]

Next == \/ \E d \in Decisions : Decide(d)
        \/ \E i \in DOMAIN trail : Redeem(i) \/ Withdraw(i)

Spec == trail = <<>> /\ [][Next]_trail
=============================================================================

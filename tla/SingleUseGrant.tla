--------------------------- MODULE SingleUseGrant ---------------------------
(***************************************************************************)
(* What the approval loop promises, with no threads, locks or clocks: a    *)
(* request is asked once, a human grants or refuses it, and a granted      *)
(* request is spent at most once.                                          *)
(***************************************************************************)
EXTENDS Sequences

CONSTANT Requests

VARIABLES
    asked,    \* the requests put before a human
    granted,  \* those some human said yes to
    spent     \* the requests that were executed, in order

vars == <<asked, granted, spent>>

Init == asked = {} /\ granted = {} /\ spent = <<>>

Ask(r) == /\ r \notin asked
          /\ asked' = asked \union {r}
          /\ UNCHANGED <<granted, spent>>

Grant(r) == /\ r \in asked
            /\ granted' = granted \union {r}
            /\ UNCHANGED <<asked, spent>>

Spend(r) == /\ r \in granted
            /\ \A i \in DOMAIN spent : spent[i] # r
            /\ spent' = Append(spent, r)
            /\ UNCHANGED <<asked, granted>>

Next == \E r \in Requests : Ask(r) \/ Grant(r) \/ Spend(r)

Spec == Init /\ [][Next]_vars
=============================================================================

---------------------------- MODULE MCGuardedCalls ----------------------------
EXTENDS GuardedCalls

V(t, d, g) == [tier |-> t, decision |-> d, gray |-> g]

(* One verdict of each kind that decide() and the leaf scan give: plain,   *)
(* smelly, unknown tool, held, pre-approved red (and smelly), black,       *)
(* denied while green.                                                     *)
MCVerdicts == {V("green", "allow", FALSE), V("green", "allow", TRUE),
               V("yellow", "allow", TRUE), V("red", "approve", TRUE),
               V("red", "allow", FALSE), V("red", "allow", TRUE),
               V("black", "block", FALSE), V("green", "block", FALSE)}
=============================================================================

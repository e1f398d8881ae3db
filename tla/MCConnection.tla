----------------------------- MODULE MCConnection -----------------------------
EXTENDS Connection

(* Two policies that neither decide nor enforce a call alike, and the      *)
(* default.                                                                *)
ThreePolicies == {"asks", "denies", "default"}
DecidesCalls == [p \in ThreePolicies |-> IF p = "denies" THEN "block" ELSE "approve"]
StrictPolicies == [p \in ThreePolicies |-> p = "asks"]

(* A gray hook call, a long one that is not gray, one with a wrong token,  *)
(* a report after the tool, a stats command, a line that is no JSON.       *)
Req(kind, auth, gray, pieces) == [kind |-> kind, auth |-> auth, gray |-> gray, pieces |-> pieces]
FewSends == {Req("hook", TRUE, TRUE, 1), Req("action", TRUE, FALSE, 2), Req("hook", FALSE, FALSE, 1),
             Req("post", TRUE, FALSE, 1), Req("stats", TRUE, FALSE, 1), Req("garbage", FALSE, FALSE, 1)}
=============================================================================

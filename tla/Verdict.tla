------------------------------- MODULE Verdict -------------------------------
(***************************************************************************)
(* How redstamp makes a verdict: decide() and applyJudge() of index.mjs,   *)
(* the leaf scan of guardMcpCore() in mcp.mjs, escalate() of taint.mjs.    *)
(* What the rule tables and scanners find in an action is the evidence     *)
(* record; which patterns find it is not modelled.                         *)
(***************************************************************************)
EXTENDS Integers, FiniteSets

Tiers == {"green", "yellow", "red", "black"}
ORDER == [green |-> 0, yellow |-> 1, red |-> 2, black |-> 3]
worst(a, b) == IF ORDER[a] >= ORDER[b] THEN a ELSE b

Decisions == {"allow", "approve", "block"}

(* What decide() learns of an action under a policy.                       *)
Evidence ==
  [class    : {"shell", "net", "write", "other"},  \* SHELL, NET, WRITE or none
   base     : Tiers,                               \* classify(action).tier
   secret   : BOOLEAN,  \* scanSecrets found one
   external : BOOLEAN,  \* a URL host outside the machine and egressAllow
   skill    : BOOLEAN,  \* injection in skillText
   inj      : BOOLEAN,  \* injection in the input
   ssrf     : {"none", "private", "linklocal"},
   persist  : BOOLEAN,  \* a destination key names a persistence location
   listed   : BOOLEAN,  \* egressAllow is not empty
   cmd      : BOOLEAN,  \* the input has a command field
   egress   : BOOLEAN,  \* a client in it contacts an unlisted or unknown host
   outside  : BOOLEAN,  \* writeRoots is set and `path` is not beneath one
   smell    : BOOLEAN,  \* obfuscationHits in the command (or the input)
   denied   : BOOLEAN,  \* a deny rule matches
   allowed  : BOOLEAN]  \* an allow rule matches

Active(e) == e.class \in {"shell", "net"}

BlackEvidence(e) ==
  \/ e.base = "black"
  \/ e.secret /\ e.external /\ Active(e)
  \/ e.skill
  \/ e.inj /\ e.class = "net"
  \/ Active(e) /\ e.ssrf = "linklocal"
  \/ e.class = "write" /\ e.persist

RedEvidence(e) ==
  \/ e.secret
  \/ e.inj /\ e.class # "shell"
  \/ Active(e) /\ e.ssrf = "private"
  \/ e.class = "net" /\ e.external /\ e.listed
  \/ e.listed /\ e.cmd /\ e.egress /\ e.class \in {"shell", "other"}
  \/ e.class = "write" /\ e.outside

TierOfLastFinding(e) ==
  IF RedEvidence(e) THEN "red"
  ELSE IF BlackEvidence(e) THEN "black" ELSE e.base
TierOf(e) ==
  IF BlackEvidence(e) THEN "black"
  ELSE IF RedEvidence(e) THEN worst(e.base, "red") ELSE e.base

(* The smell is looked for wherever the shell rules ran.                   *)
SmellsShellToolsOnly(e) == e.class = "shell" /\ TierOf(e) # "black" /\ e.smell
Smells(e) ==
  /\ e.class = "shell" \/ (e.cmd /\ e.class # "write")
  /\ TierOf(e) # "black" /\ e.smell

DecisionAllowFirst(e) ==
  IF e.denied THEN "block"
  ELSE IF e.allowed THEN "allow"
  ELSE IF TierOf(e) = "black" THEN "block"
  ELSE IF TierOf(e) = "red" THEN "approve" ELSE "allow"
DecisionOf(e) ==
  IF e.denied \/ TierOf(e) = "black" THEN "block"
  ELSE IF ~e.allowed /\ TierOf(e) = "red" THEN "approve" ELSE "allow"

decide(e) ==
  [tier |-> TierOf(e), decision |-> DecisionOf(e),
   gray |-> DecisionOf(e) = "approve" \/ TierOf(e) = "yellow" \/ Smells(e)]

(* The decision when a finding other than decide()'s raises the tier to t. *)
RaiseDecision(decision, t) ==
  IF t = "black" THEN "block"
  ELSE IF t = "red" /\ decision = "allow" THEN "approve" ELSE decision

(* guardMcpCore: every string leaf of the arguments but a write's is also  *)
(* classified as a shell command; `leaves` is the set of their tiers.      *)
WorstOf(S) == CHOOSE t \in S : \A u \in S : ORDER[u] <= ORDER[t]
LeafScan(v, class, leaves) ==
  IF class = "write" THEN v
  ELSE LET t == WorstOf(leaves \union {v.tier})
           d == IF t = v.tier THEN v.decision ELSE RaiseDecision(v.decision, t)
       IN [tier |-> t, decision |-> d,
           gray |-> v.gray \/ d = "approve" \/ t = "yellow"]

(* A judge gives one of the four tiers or null ("none"): a status that is  *)
(* not 2xx, an answer that does not parse or names no tier, an abort after *)
(* timeoutMs.                                                              *)
JudgeAnswers == Tiers \union {"none"}

(* applyJudge: null, and a judge that throws, change nothing.              *)
Consults(v) == v.decision # "block" /\ v.gray
ApplyJudge(v, j) ==
  IF ~Consults(v) \/ j = "none" THEN v
  ELSE IF ORDER[j] <= ORDER[v.tier] THEN v
  ELSE [v EXCEPT !.tier = j, !.decision = RaiseDecision(@, j)]

(* taint.mjs: a cross-call finding.                                        *)
Escalate(v, tier) ==
  LET t == worst(v.tier, tier)
  IN [v EXCEPT !.tier = t,
               !.decision = CASE t = "black" -> "block"
                              [] t = "red" -> IF @ = "block" THEN "block" ELSE "approve"
                              [] OTHER -> @]
=============================================================================

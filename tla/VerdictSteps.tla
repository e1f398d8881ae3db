----------------------------- MODULE VerdictSteps -----------------------------
(***************************************************************************)
(* Verdict on every action: a state is an action with its evidence and the *)
(* tier of the worst leaf of its arguments, and a step gives the same      *)
(* action, under the same policy, one more piece of evidence.              *)
(***************************************************************************)
EXTENDS Verdict

VARIABLES e,       \* the evidence
          leaves   \* the tier of the worst argument leaf read as a shell command

EvidenceInit ==
  /\ leaves = {}
  /\ \E c \in {"shell", "net", "write", "other"}, b \in {"green", "yellow"},
        ls, cm, dn, al \in BOOLEAN :
       e = [class |-> c, base |-> b, secret |-> FALSE, external |-> FALSE,
            skill |-> FALSE, inj |-> FALSE, ssrf |-> "none", persist |-> FALSE,
            listed |-> ls, cmd |-> cm, egress |-> FALSE, outside |-> FALSE,
            smell |-> FALSE, denied |-> dn, allowed |-> al]

WorseBase == \E t \in Tiers : /\ ORDER[t] > ORDER[e.base]
                              /\ e' = [e EXCEPT !.base = t]
WorseSsrf == /\ Active(e)
             /\ \/ e.ssrf = "none" /\ e' = [e EXCEPT !.ssrf = "private"]
                \/ e.ssrf # "linklocal" /\ e' = [e EXCEPT !.ssrf = "linklocal"]
Found == \/ ~e.secret   /\ e' = [e EXCEPT !.secret = TRUE]
         \/ ~e.external /\ e' = [e EXCEPT !.external = TRUE]
         \/ ~e.skill    /\ e' = [e EXCEPT !.skill = TRUE]
         \/ ~e.inj      /\ e' = [e EXCEPT !.inj = TRUE]
         \/ e.class = "write" /\ ~e.persist /\ e' = [e EXCEPT !.persist = TRUE]
         \/ e.class = "write" /\ ~e.outside /\ e' = [e EXCEPT !.outside = TRUE]
         \/ e.cmd /\ ~e.egress /\ e' = [e EXCEPT !.egress = TRUE]
         \/ ~e.smell    /\ e' = [e EXCEPT !.smell = TRUE]
WorseLeaf == \E t \in Tiers \ {"green"} :
               /\ \A u \in leaves : ORDER[u] < ORDER[t]
               /\ leaves' = {t}

EvidenceNext == \/ (WorseBase \/ WorseSsrf \/ Found) /\ UNCHANGED leaves
                \/ WorseLeaf /\ UNCHANGED e
EvidenceSpec == EvidenceInit /\ [][EvidenceNext]_<<e, leaves>>
-----------------------------------------------------------------------------
RANK == [allow |-> 0, approve |-> 1, block |-> 2]
Plain == decide(e)
Mcp == LeafScan(decide(e), e.class, leaves)

NoMilder(v, w, inDecision) ==
  /\ ORDER[v.tier] <= ORDER[w.tier]
  /\ inDecision => RANK[v.decision] <= RANK[w.decision]

(* More evidence against an action never makes its verdict milder, in tier *)
(* or in decision, on the plain path or on the MCP one: no finding masks a *)
(* worse one found before or after it.  The MCP decision is the exception  *)
(* where an allow rule matches: a red leaf is held when it is what makes   *)
(* the call red, and pre-approved when the call was red without it.        *)
EvidenceNeverHelps ==
  [][/\ NoMilder(Plain, Plain', TRUE)
     /\ NoMilder(Mcp, Mcp', ~e.allowed)]_<<e, leaves>>

(* An allow rule pre-approves what is worth approving and no more: a deny  *)
(* rule and a black finding, of decide() or of a leaf, still block, and a  *)
(* leaf worse than what the rule was matched on is held again.             *)
ClearsNoMore(plain, mcp) ==
  /\ mcp.tier = "black" \/ e.denied => mcp.decision = "block"
  /\ (e.allowed /\ mcp.decision = "allow" /\ mcp.tier = "red")
       => plain.tier = "red"
  /\ mcp.decision = "block" => e.denied \/ mcp.tier = "black"
AllowRuleClearsNoMore == ClearsNoMore(Plain, Mcp)

(* Whatever is let through unblocked and is not plainly green, on the      *)
(* strength of any one source, is put before the judge: an approval, a     *)
(* yellow tier, a smell of evasion under a shell tool or under a tool that *)
(* only carries a command field, a payload in a leaf.                      *)
JudgeIsAsked(plain, mcp) ==
  /\ (mcp.decision = "approve" \/ mcp.tier = "yellow") /\ e.class # "write"
       => mcp.gray
  /\ (e.smell /\ e.cmd /\ e.class # "write" /\ plain.decision # "block")
       => plain.gray

(* No answer of the judge, and no cross-call finding after it, makes a     *)
(* verdict milder, and a black answer to a verdict it was asked about      *)
(* always ends in a block.                                                 *)
LaterTiersOnlyRaise ==
  \A v \in {Plain, Mcp}, j \in JudgeAnswers :
    LET w == ApplyJudge(v, j) IN
    /\ NoMilder(v, w, TRUE)
    /\ j = "black" /\ Consults(v) => w.decision = "block"
    /\ \A t \in Tiers : NoMilder(w, Escalate(w, t), TRUE)

(* judge.mjs, index.mjs:227-243: the judge gets to see what needs it, and  *)
(* can only make things stricter.                                          *)
JudgeOnlyRaises == JudgeIsAsked(Plain, Mcp) /\ LaterTiersOnlyRaise
=============================================================================

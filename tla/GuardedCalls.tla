----------------------------- MODULE GuardedCalls -----------------------------
(***************************************************************************)
(* guardHandler() of mcp.mjs and guardExecutor() of wrap.mjs: an agent's   *)
(* concurrent tool calls, each firewalled before it runs, with one audit   *)
(* log between them.  A call is suspended while the judge, the approver or *)
(* the tool is working; anything else is one turn of the event loop.       *)
(***************************************************************************)
EXTENDS Verdict, Sequences

CONSTANTS Calls,      \* the calls in flight
          Verdicts    \* deterministic verdicts that decide() and LeafScan() give

ASSUME VerdictsAssumption ==
  Verdicts \subseteq [tier : Tiers, decision : Decisions, gray : BOOLEAN]

VARIABLES
  judge,    \* a judge is configured
  surface,  \* "handler" (guardHandler) or "executor" (guardExecutor)
  pc,       \* "idle", "judging", "decided", "approving", "running", "done"
  v,        \* the call's verdict object, which applyJudge mutates
  answer,   \* what the caller got: "none", "blocked", "held" (and not granted),
            \* "failed" (the approver's exception), "threw" (the tool's),
            \* "clean", "injected" (as the tool returned it) or "neutralized"
  granted,  \* history: the approver said yes
  first,    \* history: the deterministic verdict
  audit     \* the entries of the AuditLog

options == <<judge, surface>>
vars == <<options, pc, v, answer, granted, first, audit>>

Entries == [call : Calls, tier : Tiers, decision : Decisions]
Log == INSTANCE AuditLog WITH Recs <- Entries

Quiet == [tier |-> "green", decision |-> "allow", gray |-> FALSE]

Init ==
  /\ judge \in BOOLEAN /\ surface \in {"handler", "executor"}
  /\ pc = [c \in Calls |-> "idle"]
  /\ v = [c \in Calls |-> Quiet]
  /\ first = [c \in Calls |-> Quiet]
  /\ answer = [c \in Calls |-> "none"]
  /\ granted = [c \in Calls |-> FALSE]
  /\ audit = << >>

recordVerdict(c, w) ==
  audit' = Log!record(audit, [call |-> c, tier |-> w.tier, decision |-> w.decision])

(* With a judge, checkAsync and guardMcpCallAsync await it before they     *)
(* record; without one, check and guardMcpCall record in the same turn.    *)
guardMcpCall(c, w) == pc' = [pc EXCEPT ![c] = "decided"] /\ recordVerdict(c, w)
Enter(c) ==
  /\ pc[c] = "idle"
  /\ \E w \in Verdicts :
       /\ v' = [v EXCEPT ![c] = w] /\ first' = [first EXCEPT ![c] = w]
       /\ IF judge THEN /\ pc' = [pc EXCEPT ![c] = "judging"]
                        /\ UNCHANGED audit
                   ELSE guardMcpCall(c, w)
  /\ UNCHANGED <<options, answer, granted>>

(* The judge answers, answers nothing in time, or throws ("none"); one     *)
(* that was not to be consulted is skipped over in the same await.         *)
JudgedUnrecorded(c) ==
  /\ pc[c] = "judging"
  /\ \E j \in JudgeAnswers : v' = [v EXCEPT ![c] = ApplyJudge(v[c], j)]
  /\ pc' = [pc EXCEPT ![c] = "decided"]
  /\ UNCHANGED <<options, answer, granted, first, audit>>
Judged(c) ==
  /\ pc[c] = "judging"
  /\ \E j \in JudgeAnswers :
       LET w == ApplyJudge(v[c], j)
       IN v' = [v EXCEPT ![c] = w] /\ recordVerdict(c, w)
  /\ pc' = [pc EXCEPT ![c] = "decided"]
  /\ UNCHANGED <<options, answer, granted, first>>

(* The refusal says which it was: a WardenBlocked is thrown or given to    *)
(* onBlock, a handler answers with an error.                               *)
WardenBlocked(held) == IF held THEN "held" ELSE "blocked"
RefusedSilently(c, held) ==
  /\ pc' = [pc EXCEPT ![c] = "done"]
  /\ UNCHANGED <<options, v, answer, granted, first, audit>>
Refused(c, held) ==
  /\ pc' = [pc EXCEPT ![c] = "done"]
  /\ answer' = [answer EXCEPT ![c] = WardenBlocked(held)]
  /\ UNCHANGED <<options, v, granted, first, audit>>

(* The decision is acted on.                                               *)
Block(c) == pc[c] = "decided" /\ v[c].decision = "block" /\ Refused(c, FALSE)
AskApproval(c) ==
  /\ pc[c] = "decided" /\ v[c].decision = "approve"
  /\ pc' = [pc EXCEPT ![c] = "approving"]
  /\ UNCHANGED <<options, v, answer, granted, first, audit>>
RunUnheld(c) ==
  /\ pc[c] = "decided" /\ v[c].decision # "block"
  /\ pc' = [pc EXCEPT ![c] = "running"]
  /\ UNCHANGED <<options, v, answer, granted, first, audit>>
Run(c) ==
  /\ pc[c] = "decided" /\ v[c].decision = "allow"
  /\ pc' = [pc EXCEPT ![c] = "running"]
  /\ UNCHANGED <<options, v, answer, granted, first, audit>>

(* onApprove answers; with none given the call is refused.  Its exception  *)
(* is nobody's to catch: the call ends with it, and the tool is not run.   *)
Grant(c) ==
  /\ pc[c] = "approving"
  /\ pc' = [pc EXCEPT ![c] = "running"]
  /\ granted' = [granted EXCEPT ![c] = TRUE]
  /\ UNCHANGED <<options, v, answer, first, audit>>
Deny(c) == pc[c] = "approving" /\ Refused(c, TRUE)
ApproverThrows(c) ==
  /\ pc[c] = "approving"
  /\ pc' = [pc EXCEPT ![c] = "done"]
  /\ answer' = [answer EXCEPT ![c] = "failed"]
  /\ UNCHANGED <<options, v, granted, first, audit>>

(* The tool throws, or returns a result, with an injection in it or not.   *)
(* guardHandler scans it (scanResults is on by default).                   *)
Return(c) ==
  /\ pc[c] = "running"
  /\ \E r \in {"threw", "clean", "injected"} :
       answer' = [answer EXCEPT ![c] =
                    IF r = "injected" /\ surface = "handler" THEN "neutralized" ELSE r]
  /\ pc' = [pc EXCEPT ![c] = "done"]
  /\ UNCHANGED <<options, v, granted, first, audit>>

(* What `redstamp audit` lists of such a log once it is flushed: the       *)
(* positions of the entries of one tier or all (""), blocked ones or all,  *)
(* the last `tail` of them or all (0).                                     *)
queryAudit(lines, tier, blocksOnly, tail) ==
  LET rows == {i \in DOMAIN lines : /\ tier # "" => lines[i].rec.tier = tier
                                    /\ blocksOnly => lines[i].rec.decision = "block"}
  IN {i \in rows : tail # 0 => Cardinality({j \in rows : j > i}) < tail}

Step(c) == \/ Judged(c) \/ Block(c) \/ AskApproval(c) \/ Run(c)
           \/ Grant(c) \/ Deny(c) \/ ApproverThrows(c) \/ Return(c)
Next == \E c \in Calls : Enter(c) \/ Step(c)

(* Judges time out (makeJudge aborts), and approvers and tools are assumed *)
(* to answer: a call that was entered is not left where it is for ever.    *)
Spec == Init /\ [][Next]_vars /\ \A c \in Calls : WF_vars(Step(c))
-----------------------------------------------------------------------------
TypeOK ==
  /\ judge \in BOOLEAN /\ surface \in {"handler", "executor"}
  /\ pc \in [Calls -> {"idle", "judging", "decided", "approving", "running", "done"}]
  /\ v \in [Calls -> [tier : Tiers, decision : Decisions, gray : BOOLEAN]]
  /\ first \in [Calls -> [tier : Tiers, decision : Decisions, gray : BOOLEAN]]
  /\ answer \in [Calls -> {"none", "blocked", "held", "failed", "threw", "clean",
                           "injected", "neutralized"}]
  /\ granted \in [Calls -> BOOLEAN]
  /\ audit \in Seq(Log!Lines)

EntriesOf(c) == {i \in DOMAIN audit : audit[i].rec.call = c}
Decided(c) == pc[c] \notin {"idle", "judging"}
Ran(c) == pc[c] = "running" \/ (pc[c] = "done" /\ answer[c] \notin {"blocked", "held", "failed"})

(* The log never disagrees with what was done: a call that was decided has *)
(* exactly one entry, with the verdict after the judge; a call that ran    *)
(* has one that allowed it, or one that held it and a grant; a call whose  *)
(* entry blocks it never ran, and a refusal says what its entry says.  Its *)
(* chain holds, whatever order the awaited verdicts come back in.  What    *)
(* `redstamp audit` lists of it, with --tier and --blocks or without, are  *)
(* the calls that were decided so, and no other.                           *)
EntryFits(c, entry) ==
  /\ entry.tier = v[c].tier
  /\ Ran(c) => entry.decision = "allow" \/ (entry.decision = "approve" /\ granted[c])
  /\ answer[c] = "blocked" => entry.decision = "block"
  /\ answer[c] \in {"held", "failed"} => entry.decision = "approve" /\ ~granted[c]
Listed(tier, blocksOnly) ==
  {audit[i].rec.call : i \in queryAudit(audit, tier, blocksOnly, 0)}
AuditIsWhatWasDone ==
  /\ Log!verify(audit)
  /\ \A c \in Calls : /\ Cardinality(EntriesOf(c)) = IF Decided(c) THEN 1 ELSE 0
                      /\ \A i \in EntriesOf(c) : EntryFits(c, audit[i].rec)
  /\ \A tier \in Tiers \union {""}, blocksOnly \in BOOLEAN :
       Listed(tier, blocksOnly) =
         {c \in Calls : /\ Decided(c)
                        /\ tier # "" => v[c].tier = tier
                        /\ blocksOnly => v[c].decision = "block"}

(* Through any interleaving a call is treated at least as strictly as its  *)
(* deterministic verdict: blocked stays refused, held runs only granted.   *)
NeverMilderThanRules ==
  \A c \in Calls : Ran(c) => /\ first[c].decision # "block"
                             /\ first[c].decision = "approve" => granted[c]

(* Every call that was entered is answered, whatever the judge, the        *)
(* approver and the tool do, an approver that throws among them, and a     *)
(* guarded MCP handler never answers with an injected result.              *)
Answers == {"blocked", "held", "failed", "threw", "clean", "neutralized"}
             \union IF surface = "executor" THEN {"injected"} ELSE {}
EveryCallAnswered == \A c \in Calls : pc[c] # "idle" ~> answer[c] \in Answers
=============================================================================

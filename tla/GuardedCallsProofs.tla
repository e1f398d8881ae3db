-------------------------- MODULE GuardedCallsProofs --------------------------
(***************************************************************************)
(* The guarded calls of a handler or an executor, for any set of calls in  *)
(* flight and any verdicts of the rules, with or without a judge; and what *)
(* is found of the hosts that a shell command in such a call contacts, for *)
(* every command line of up to sixteen words.                              *)
(***************************************************************************)
EXTENDS GuardedCalls, EgressSteps, FiniteSetTheorems, SequenceTheorems, TLAPS

F == INSTANCE AuditFileProofs WITH Recs <- Entries

VerdictType == [tier : Tiers, decision : Decisions, gray : BOOLEAN]

(* The verdict a call is held to is the rules' or a stricter one.          *)
AtLeast(rules, decision) ==
  /\ rules = "block" => decision = "block"
  /\ rules = "approve" => decision \in {"approve", "block"}

(* A call that got past its decision was allowed, or held and granted.     *)
Cleared(c) == \/ v[c].decision = "allow"
              \/ v[c].decision = "approve" /\ granted[c]

Controls ==
  /\ pc \in [Calls -> {"idle", "judging", "decided", "approving", "running", "done"}]
  /\ v \in [Calls -> VerdictType]
  /\ first \in [Calls -> VerdictType]
  /\ answer \in [Calls -> {"none", "blocked", "held", "failed", "threw", "clean",
                           "injected", "neutralized"}]
  /\ granted \in [Calls -> BOOLEAN]
(* A call has no answer before it is done, and no grant before it may run; *)
(* if it was refused, that says why.                                       *)
Answered(c) ==
  /\ pc[c] # "done" => answer[c] = "none"
  /\ pc[c] \in {"idle", "judging", "decided", "approving"} => ~granted[c]
  /\ answer[c] = "blocked" => v[c].decision = "block"
  /\ answer[c] \in {"held", "failed"} => v[c].decision = "approve" /\ ~granted[c]

Held(c) ==
  /\ AtLeast(first[c].decision, v[c].decision)
  /\ pc[c] = "approving" => v[c].decision = "approve"
  /\ Ran(c) => Cleared(c)
  /\ Answered(c)
GInv == Controls /\ \A c \in Calls : Held(c)
-----------------------------------------------------------------------------
(* A judge's answer raises the tier and the decision, or neither.          *)
LEMMA JudgeRaises ==
  ASSUME NEW w \in VerdictType, NEW j \in JudgeAnswers
  PROVE  /\ ApplyJudge(w, j) \in VerdictType
         /\ AtLeast(w.decision, ApplyJudge(w, j).decision)
<1>1. CASE ~Consults(w) \/ j = "none" \/ ORDER[j] <= ORDER[w.tier]
  BY <1>1 DEF ApplyJudge, AtLeast, VerdictType, Decisions
<1>2. CASE Consults(w) /\ j # "none" /\ ~(ORDER[j] <= ORDER[w.tier])
  <2> DEFINE d == RaiseDecision(w.decision, j)
  <2>1. ApplyJudge(w, j) = [w EXCEPT !.tier = j, !.decision = d]
    BY <1>2 DEF ApplyJudge
  <2>2. j \in Tiers /\ w.decision \in Decisions
    BY <1>2 DEF JudgeAnswers, VerdictType
  <2>3. d \in Decisions /\ AtLeast(w.decision, d)
    BY <2>2, <1>2 DEF RaiseDecision, Decisions, AtLeast, Consults
  <2> HIDE DEF d
  <2> QED
    BY <2>1, <2>2, <2>3 DEF VerdictType
<1> QED
  BY <1>1, <1>2

(* A step of one call leaves what is known of every other call.            *)
LEMMA OthersHeld ==
  ASSUME GInv, NEW c \in Calls, NEW d \in Calls, d # c,
         Enter(c) \/ Step(c)
  PROVE  Held(d)'
<1> /\ pc'[d] = pc[d] /\ v'[d] = v[d] /\ first'[d] = first[d]
    /\ answer'[d] = answer[d] /\ granted'[d] = granted[d]
  <2>1. CASE Enter(c)
    BY <2>1 DEF GInv, Controls, Enter, guardMcpCall
  <2>2. CASE Judged(c)
    BY <2>2 DEF GInv, Controls, Judged
  <2>3. CASE Block(c) \/ Deny(c) \/ ApproverThrows(c)
    BY <2>3 DEF GInv, Controls, Block, Deny, ApproverThrows, Refused, WardenBlocked
  <2>4. CASE AskApproval(c) \/ Run(c)
    BY <2>4 DEF GInv, Controls, AskApproval, Run
  <2>5. CASE Grant(c)
    BY <2>5 DEF GInv, Controls, Grant
  <2>6. CASE Return(c)
    BY <2>6 DEF GInv, Controls, Return
  <2> QED
    BY <2>1, <2>2, <2>3, <2>4, <2>5, <2>6 DEF Step
<1> QED
  BY DEF GInv, Held, Ran, Cleared, Answered

(* mcp.mjs:155-172, wrap.mjs:29-41, index.mjs:187-243: a step of a call    *)
(* keeps what is known of that call.                                       *)
LEMMA CallHeld ==
  ASSUME GInv, NEW c \in Calls, Enter(c) \/ Step(c)
  PROVE  Controls' /\ Held(c)'
<1> USE DEF GInv, Controls, Held, Ran, Cleared, Answered
<1>1. CASE Enter(c)
  <2>1. PICK w \in Verdicts : v' = [v EXCEPT ![c] = w] /\ first' = [first EXCEPT ![c] = w]
    BY <1>1 DEF Enter
  <2>2. w \in VerdictType
    BY VerdictsAssumption DEF VerdictType
  <2>3. \E p \in {"judging", "decided"} : pc' = [pc EXCEPT ![c] = p]
    BY <1>1 DEF Enter, guardMcpCall
  <2>4. pc[c] = "idle" /\ answer' = answer /\ granted' = granted
    BY <1>1 DEF Enter
  <2>5. AtLeast(w.decision, w.decision)
    BY DEF AtLeast
  <2>6. answer[c] = "none" /\ ~granted[c]
    BY <2>4
  <2> HIDE DEF Cleared
  <2>7. pc'[c] \in {"judging", "decided"} /\ v'[c] = w /\ first'[c] = w
    BY <2>1, <2>2, <2>3
  <2>8. Controls'
    BY <2>1, <2>2, <2>3, <2>4
  <2> QED
    BY <2>4, <2>5, <2>6, <2>7, <2>8
<1>2. CASE Judged(c)
  <2>1. PICK j \in JudgeAnswers : v' = [v EXCEPT ![c] = ApplyJudge(v[c], j)]
    BY <1>2 DEF Judged
  <2>2. /\ pc[c] = "judging" /\ pc' = [pc EXCEPT ![c] = "decided"]
        /\ answer' = answer /\ granted' = granted /\ first' = first
    BY <1>2 DEF Judged
  <2>3. /\ ApplyJudge(v[c], j) \in VerdictType
        /\ AtLeast(v[c].decision, ApplyJudge(v[c], j).decision)
    BY JudgeRaises
  <2> HIDE DEF Ran, Cleared
  <2>4. Controls'
    BY <2>1, <2>2, <2>3
  <2>5. AtLeast(first'[c].decision, v'[c].decision)
    BY <2>1, <2>2, <2>3 DEF AtLeast
  <2>6. pc'[c] = "decided"
    BY <2>2
  <2>7. answer'[c] = "none" /\ ~granted'[c]
    BY <2>2
  <2> QED
    BY <2>4, <2>5, <2>6, <2>7 DEF Ran
<1>3. CASE Block(c)
  BY <1>3 DEF Block, Refused, WardenBlocked
<1>4. CASE AskApproval(c)
  BY <1>4 DEF AskApproval
<1>5. CASE Run(c)
  BY <1>5 DEF Run
<1>6. CASE Grant(c)
  BY <1>6 DEF Grant
<1>7. CASE Deny(c)
  BY <1>7 DEF Deny, Refused, WardenBlocked
<1>8. CASE ApproverThrows(c)
  BY <1>8 DEF ApproverThrows
<1>9. CASE Return(c)
  BY <1>9 DEF Return
<1> QED
  BY <1>1, <1>2, <1>3, <1>4, <1>5, <1>6, <1>7, <1>8, <1>9 DEF Step

(* A held verdict is one that the rules do not block, granted if they hold *)
(* it.                                                                     *)
LEMMA HeldIsEnough == GInv => NeverMilderThanRules
BY DEF GInv, Held, Cleared, AtLeast, NeverMilderThanRules

(* Whatever the judge and the approver answer, and whichever other calls   *)
(* run meanwhile, a call that the rules block does not run and one they    *)
(* hold runs only when it is granted.                                      *)
THEOREM NeverMilder == Spec => []NeverMilderThanRules
<1>1. Init => GInv
  BY DEF Init, GInv, Controls, Held, AtLeast, Ran, Cleared, Answered, Quiet,
         VerdictType, Tiers, Decisions
<1>2. GInv /\ [Next]_vars => GInv'
  <2> SUFFICES ASSUME GInv, [Next]_vars PROVE GInv'
    OBVIOUS
  <2>1. CASE Next
    <3>1. PICK c \in Calls : Enter(c) \/ Step(c)
      BY <2>1 DEF Next
    <3> QED
      BY <3>1, CallHeld, OthersHeld DEF GInv
  <2>2. CASE UNCHANGED vars
    BY <2>2 DEF vars, GInv, Controls, Held, Ran, Cleared, Answered
  <2> QED
    BY <2>1, <2>2
<1> QED
  BY <1>1, <1>2, HeldIsEnough, PTL DEF Spec
-----------------------------------------------------------------------------
(* The entry of a call that was decided, and the log of those entries: all *)
(* of it is chained and the links hold.                                    *)
EntryOf(c) == [call |-> c, tier |-> v[c].tier, decision |-> v[c].decision]
Recorded(c) ==
  IF pc[c] \in {"idle", "judging"} THEN EntriesOf(c) = {}
  ELSE \E i \in DOMAIN audit : EntriesOf(c) = {i} /\ audit[i].rec = EntryOf(c)
Chain == F!ChainOf(audit)
LInv == GInv /\ Chain /\ \A c \in Calls : Recorded(c)
-----------------------------------------------------------------------------
(* record() adds one entry, which keeps the chain.                         *)
LEMMA RecordsOne ==
  ASSUME Chain, NEW c \in Calls, NEW w \in VerdictType, recordVerdict(c, w)
  PROVE  /\ Chain'
         /\ Len(audit) \in Nat /\ DOMAIN audit = 1 .. Len(audit)
         /\ DOMAIN audit' = 1 .. Len(audit) + 1
         /\ \A i \in DOMAIN audit : audit'[i] = audit[i]
         /\ audit'[Len(audit) + 1].rec = [call |-> c, tier |-> w.tier, decision |-> w.decision]
<1> DEFINE r == [call |-> c, tier |-> w.tier, decision |-> w.decision]
           g == F!record(audit, r)
<1>1. r \in Entries
  BY DEF Entries, VerdictType
<1>2. audit' = g
  BY DEF recordVerdict, Log!record, Log!Prev, Log!GENESIS, Log!ChainedLine, Log!HashOf,
         F!record, F!Prev, F!GENESIS, F!ChainedLine, F!HashOf
<1> HIDE DEF r
<1>3. /\ F!ChainOf(g)
      /\ Len(audit) \in Nat /\ DOMAIN audit = 1 .. Len(audit) /\ DOMAIN g = 1 .. Len(audit) + 1
      /\ \A i \in DOMAIN audit : g[i] = audit[i]
      /\ g[Len(audit) + 1].rec = r
  BY <1>1, F!RecordChains DEF Chain
<1> HIDE DEF g
<1>4. Chain'
  <2>1. F!ChainOf(audit')
    BY <1>2, <1>3
  <2> QED
    BY <2>1 DEF Chain
<1> QED
  BY <1>2, <1>3, <1>4 DEF r

(* A step that decides a call records it, once, with the verdict it is     *)
(* held to.                                                                *)
LEMMA DecidedRecorded ==
  ASSUME LInv, NEW c \in Calls, pc[c] \in {"idle", "judging"},
         NEW w \in VerdictType, recordVerdict(c, w),
         pc' = [pc EXCEPT ![c] = "decided"], v' = [v EXCEPT ![c] = w]
  PROVE  Chain' /\ \A d \in Calls : Recorded(d)'
<1> DEFINE n == Len(audit)
<1>1. /\ Chain'
      /\ n \in Nat /\ DOMAIN audit = 1 .. n /\ DOMAIN audit' = 1 .. n + 1
      /\ \A i \in 1 .. n : audit'[i] = audit[i]
      /\ audit'[n + 1].rec = [call |-> c, tier |-> w.tier, decision |-> w.decision]
  BY RecordsOne DEF LInv
<1>2. pc'[c] = "decided" /\ v'[c] = w
  BY DEF LInv, GInv, Controls
<1>3. EntriesOf(c) = {}
  BY DEF LInv, Recorded
<1> HIDE DEF n
<1>4. EntriesOf(c)' = {n + 1}
  BY <1>1, <1>3 DEF EntriesOf
<1>5. Recorded(c)'
  BY <1>1, <1>2, <1>4 DEF Recorded, EntryOf
<1>6. ASSUME NEW d \in Calls, d # c PROVE Recorded(d)'
  <2>1. pc'[d] = pc[d] /\ EntryOf(d)' = EntryOf(d)
    BY <1>6 DEF LInv, GInv, Controls, EntryOf
  <2>2. EntriesOf(d)' = EntriesOf(d)
    BY <1>1, <1>6 DEF EntriesOf
  <2>3. Recorded(d)
    BY DEF LInv
  <2>4. \A i \in DOMAIN audit : i \in DOMAIN audit' /\ audit'[i] = audit[i]
    BY <1>1
  <2> QED
    BY <2>1, <2>2, <2>3, <2>4 DEF Recorded
<1> QED
  BY <1>1, <1>5, <1>6

(* A step that records nothing leaves a call on the side of its decision   *)
(* that it was on, with its verdict if it was decided.                     *)
LEMMA OtherStepsKeepLog ==
  ASSUME LInv, UNCHANGED audit,
         \A d \in Calls :
           \/ pc[d] \in {"idle", "judging"} /\ pc'[d] \in {"idle", "judging"}
           \/ /\ pc[d] \notin {"idle", "judging"} /\ pc'[d] \notin {"idle", "judging"}
              /\ v'[d] = v[d]
  PROVE  Chain' /\ \A d \in Calls : Recorded(d)'
<1>1. Chain'
  BY DEF LInv, Chain
<1>2. ASSUME NEW d \in Calls PROVE Recorded(d)'
  <2>1. EntriesOf(d)' = EntriesOf(d) /\ Recorded(d)
    BY DEF LInv, EntriesOf
  <2> QED
    BY <2>1 DEF Recorded, EntryOf
<1> QED
  BY <1>1, <1>2

(* The entries of the log are of the calls in flight.                      *)
LEMMA CallOfEntry ==
  ASSUME Chain, NEW i \in DOMAIN audit PROVE audit[i].rec.call \in Calls
<1>1. audit \in Seq(F!Lines) /\ audit[i].kind = "chained"
  BY DEF Chain, F!ChainOf
<1>2. audit[i] \in F!Lines
  BY <1>1, ElementOfSeq, LenProperties
<1>3. audit[i].rec \in Entries
  BY <1>1, <1>2 DEF F!Lines, F!ForeignLine, F!BadLine
<1> QED
  BY <1>3 DEF Entries

(* What is known of the log is what the property says of it.               *)
LEMMA LogIsEnough == LInv => AuditIsWhatWasDone
<1> SUFFICES ASSUME LInv PROVE AuditIsWhatWasDone
  OBVIOUS
<1>1. Log!verify(audit)
  BY DEF LInv, Chain, F!ChainOf, F!LinksHold, F!HeadAt, F!ChainedTo, F!Chained, F!HashOf,
         F!GENESIS, Log!verify, Log!LinksHold, Log!HeadAt, Log!ChainedTo,
         Log!Chained, Log!HashOf, Log!GENESIS
<1>2. ASSUME NEW c \in Calls
      PROVE  /\ Cardinality(EntriesOf(c)) = IF Decided(c) THEN 1 ELSE 0
             /\ \A i \in EntriesOf(c) : EntryFits(c, audit[i].rec)
  <2>1. Recorded(c) /\ (Ran(c) => Cleared(c)) /\ Answered(c)
    BY DEF LInv, GInv, Held
  <2>2. CASE pc[c] \in {"idle", "judging"}
    BY <2>1, <2>2, FS_EmptySet DEF Recorded, Decided
  <2>3. CASE pc[c] \notin {"idle", "judging"}
    <3>1. PICK i \in DOMAIN audit : EntriesOf(c) = {i} /\ audit[i].rec = EntryOf(c)
      BY <2>1, <2>3 DEF Recorded
    <3>2. Cardinality(EntriesOf(c)) = 1 /\ Decided(c)
      BY <2>3, <3>1, FS_Singleton DEF Decided
    <3>3. /\ audit[i].rec.tier = v[c].tier
          /\ audit[i].rec.decision = v[c].decision
      BY <3>1 DEF EntryOf
    <3>4. EntryFits(c, audit[i].rec)
      BY <2>1, <3>3 DEF EntryFits, Cleared, Answered
    <3> QED
      BY <3>1, <3>2, <3>4
  <2> QED
    BY <2>2, <2>3
<1>3. ASSUME NEW tier \in Tiers \union {""}, NEW blocksOnly \in BOOLEAN
      PROVE  Listed(tier, blocksOnly) =
               {c \in Calls : /\ Decided(c)
                              /\ tier # "" => v[c].tier = tier
                              /\ blocksOnly => v[c].decision = "block"}
  <2>1. Listed(tier, blocksOnly) =
          {audit[i].rec.call : i \in
             {j \in DOMAIN audit : /\ tier # "" => audit[j].rec.tier = tier
                                   /\ blocksOnly => audit[j].rec.decision = "block"}}
    BY DEF Listed, queryAudit
  <2>2. ASSUME NEW c \in Calls, Decided(c)
        PROVE  \E i \in DOMAIN audit : audit[i].rec = EntryOf(c)
    BY <2>2 DEF LInv, Recorded, Decided
  <2>3. ASSUME NEW i \in DOMAIN audit
        PROVE  \E c \in Calls : Decided(c) /\ audit[i].rec = EntryOf(c)
    <3>1. audit[i].rec.call \in Calls
      BY CallOfEntry DEF LInv
    <3>2. i \in EntriesOf(audit[i].rec.call)
      BY DEF EntriesOf
    <3> QED
      BY <3>1, <3>2 DEF LInv, Recorded, Decided
  <2>4. \A c \in Calls : /\ EntryOf(c).call = c /\ EntryOf(c).tier = v[c].tier
                         /\ EntryOf(c).decision = v[c].decision
    BY DEF EntryOf
  <2> DEFINE Of(x) == /\ tier # "" => x.tier = tier
                      /\ blocksOnly => x.decision = "block"
  <2>5. ASSUME NEW c \in Calls, Decided(c), Of(v[c])
        PROVE  c \in Listed(tier, blocksOnly)
    <3>1. PICK i \in DOMAIN audit : audit[i].rec = EntryOf(c)
      BY <2>2, <2>5
    <3>2. audit[i].rec.call = c /\ Of(audit[i].rec)
      BY <2>4, <2>5, <3>1
    <3> QED
      BY <2>1, <3>2
  <2>6. ASSUME NEW i \in DOMAIN audit, Of(audit[i].rec)
        PROVE  /\ audit[i].rec.call \in Calls /\ Decided(audit[i].rec.call)
               /\ Of(v[audit[i].rec.call])
    <3>1. PICK c \in Calls : Decided(c) /\ audit[i].rec = EntryOf(c)
      BY <2>3
    <3>2. audit[i].rec.call = c
      BY <2>4, <3>1
    <3>3. Of(EntryOf(c)) => Of(v[c])
      BY <2>4
    <3>4. Of(EntryOf(c))
      BY <2>6, <3>1
    <3> QED
      BY <3>1, <3>2, <3>3, <3>4
  <2>7. Listed(tier, blocksOnly) = {audit[i].rec.call : i \in {j \in DOMAIN audit : Of(audit[j].rec)}}
    BY <2>1
  <2> HIDE DEF Of
  <2>8. Listed(tier, blocksOnly) = {c \in Calls : Decided(c) /\ Of(v[c])}
    BY <2>5, <2>6, <2>7
  <2> QED
    BY <2>8 DEF Of
<1> QED
  BY <1>1, <1>2, <1>3 DEF AuditIsWhatWasDone

(* audit.mjs:9-34, mcp.mjs:155-172, wrap.mjs:29-41: in any interleaving    *)
(* the log is a chain that verifies, with one entry for every call that    *)
(* was decided, and a call that ran has one that allowed or held it.       *)
THEOREM LogSaysWhatWasDone == Spec => []AuditIsWhatWasDone
<1>1. Init => LInv
  <2> SUFFICES ASSUME Init PROVE LInv
    OBVIOUS
  <2>1. GInv
    BY DEF Init, GInv, Controls, Held, AtLeast, Ran, Cleared, Answered, Quiet,
           VerdictType, Tiers, Decisions
  <2>2. audit = << >>
    BY DEF Init
  <2>3. Chain /\ DOMAIN audit = {}
    BY <2>2, F!EmptyChain DEF Chain
  <2>4. \A c \in Calls : pc[c] = "idle" /\ EntriesOf(c) = {}
    BY <2>3 DEF Init, EntriesOf
  <2> QED
    BY <2>1, <2>3, <2>4 DEF LInv, Recorded
<1>2. LInv /\ [Next]_vars => LInv'
  <2> SUFFICES ASSUME LInv, [Next]_vars PROVE LInv'
    OBVIOUS
  <2>1. CASE Next
    <3>1. PICK c \in Calls : Enter(c) \/ Step(c)
      BY <2>1 DEF Next
    <3>2. GInv'
      BY <3>1, CallHeld, OthersHeld DEF LInv, GInv
    <3>3. CASE Enter(c) /\ judge
      <4>1. UNCHANGED audit /\ pc[c] = "idle" /\ pc' = [pc EXCEPT ![c] = "judging"]
            /\ \E w \in Verdicts : v' = [v EXCEPT ![c] = w]
        BY <3>3 DEF Enter
      <4>2. Chain' /\ \A d \in Calls : Recorded(d)'
        BY <4>1, OtherStepsKeepLog DEF LInv, GInv, Controls
      <4> QED
        BY <3>2, <4>2 DEF LInv
    <3>4. CASE Enter(c) /\ ~judge
      <4>1. PICK w \in Verdicts : v' = [v EXCEPT ![c] = w] /\ recordVerdict(c, w)
        BY <3>4 DEF Enter, guardMcpCall
      <4>2. w \in VerdictType /\ pc[c] = "idle" /\ pc' = [pc EXCEPT ![c] = "decided"]
        BY <3>4, VerdictsAssumption DEF Enter, guardMcpCall, VerdictType
      <4>3. Chain' /\ \A d \in Calls : Recorded(d)'
        BY <4>1, <4>2, DecidedRecorded
      <4> QED
        BY <3>2, <4>3 DEF LInv
    <3>5. CASE Judged(c)
      <4>1. PICK j \in JudgeAnswers :
              v' = [v EXCEPT ![c] = ApplyJudge(v[c], j)] /\ recordVerdict(c, ApplyJudge(v[c], j))
        BY <3>5 DEF Judged
      <4>2. ApplyJudge(v[c], j) \in VerdictType
        BY JudgeRaises DEF LInv, GInv, Controls
      <4>3. pc[c] = "judging" /\ pc' = [pc EXCEPT ![c] = "decided"]
        BY <3>5 DEF Judged
      <4>4. Chain' /\ \A d \in Calls : Recorded(d)'
        BY <4>1, <4>2, <4>3, DecidedRecorded
      <4> QED
        BY <3>2, <4>4 DEF LInv
    <3>6. CASE Block(c) \/ AskApproval(c) \/ Run(c) \/ Grant(c) \/ Deny(c)
               \/ ApproverThrows(c) \/ Return(c)
      <4>1. /\ pc[c] \in {"decided", "approving", "running"}
            /\ \E p \in {"approving", "running", "done"} : pc' = [pc EXCEPT ![c] = p]
            /\ UNCHANGED <<v, audit>>
        BY <3>6 DEF Block, AskApproval, Run, Grant, Deny, ApproverThrows, Return, Refused
      <4>2. Chain' /\ \A d \in Calls : Recorded(d)'
        BY <4>1, OtherStepsKeepLog DEF LInv, GInv, Controls
      <4> QED
        BY <3>2, <4>2 DEF LInv
    <3> QED
      BY <3>1, <3>3, <3>4, <3>5, <3>6 DEF Step
  <2>2. CASE UNCHANGED vars
    BY <2>2 DEF vars, LInv, GInv, Controls, Held, Ran, Cleared, Answered, Chain, Recorded,
                EntriesOf, EntryOf
  <2> QED
    BY <2>1, <2>2
<1> QED
  BY <1>1, <1>2, LogIsEnough, PTL DEF Spec
-----------------------------------------------------------------------------
(* The command lines (EgressSteps).  A recursive function is used through   *)
(* what Recursion says of it: that it exists, so that it is what its       *)
(* definition says at every argument.                                      *)

(* T says what a recursive function is at an element, given the function;  *)
(* that depends only on what it is at elements of a lower rank.            *)
Recursive(D, R, N, rank, T) ==
  /\ R # {} /\ N \in Nat /\ rank \in [D -> 0 .. N] /\ T \in [D -> [[D -> R] -> R]]
  /\ \A a \in D : \A g, h \in [D -> R] :
       (\A b \in D : rank[b] < rank[a] => g[b] = h[b]) => T[a][g] = T[a][h]

Solves(g, D, R, T) == g \in [D -> R] /\ \A a \in D : g[a] = T[a][g]

(* Such a function exists.                                                 *)
LEMMA Recursion ==
  ASSUME NEW D, NEW R, NEW N, NEW rank, NEW T, Recursive(D, R, N, rank, T)
  PROVE  \E g : Solves(g, D, R, T)
<1> USE DEF Recursive, Solves
<1> DEFINE Fits(g, m) == \A a \in D : rank[a] < m => g[a] = T[a][g]
           P == {m \in 0 .. N + 1 : \E g \in [D -> R] : Fits(g, m)}
<1>1. 0 \in P
  <2>1. PICK r \in R : TRUE
    OBVIOUS
  <2>2. [a \in D |-> r] \in [D -> R]
    OBVIOUS
  <2>3. Fits([a \in D |-> r], 0)
    OBVIOUS
  <2> QED
    BY <2>2, <2>3
<1>2. ASSUME NEW m \in 0 .. N, m \in P PROVE m + 1 \in P
  <2>1. PICK g \in [D -> R] : Fits(g, m)
    BY <1>2
  <2> DEFINE h == [a \in D |-> IF rank[a] = m THEN T[a][g] ELSE g[a]]
  <2>2. h \in [D -> R]
    OBVIOUS
  <2>3. \A a \in D : rank[a] < m => h[a] = g[a]
    OBVIOUS
  <2>4. ASSUME NEW a \in D, rank[a] < m + 1 PROVE h[a] = T[a][h]
    <3>1. \A b \in D : rank[b] < rank[a] => h[b] = g[b]
      BY <2>3, <2>4
    <3>2. T[a][h] = T[a][g]
      <4> HIDE DEF h
      <4> QED
        BY <2>2, <3>1
    <3>3. CASE rank[a] = m
      BY <3>2, <3>3
    <3>4. CASE rank[a] # m
      <4>1. rank[a] < m
        <5>1. rank[a] \in 0 .. N
          OBVIOUS
        <5>2. \A x \in 0 .. N : x < m + 1 /\ x # m => x < m
          OBVIOUS
        <5> HIDE DEF h
        <5> QED
          BY <2>4, <3>4, <5>1, <5>2
      <4> QED
        BY <2>1, <2>3, <3>2, <4>1
    <3> QED
      BY <3>3, <3>4
  <2>5. Fits(h, m + 1)
    <3> HIDE DEF h
    <3> QED
      BY <2>4
  <2> HIDE DEF h, Fits
  <2> QED
    BY <2>2, <2>5
<1>3. \A m \in 0 .. N + 1 : m \in P
  <2> DEFINE M == N + 1
  <2>3. M \in Nat /\ 0 .. M - 1 = 0 .. N
    OBVIOUS
  <2> HIDE DEF P, M
  <2>1. M \in Nat /\ \A m \in 0 .. M - 1 : m \in P => m + 1 \in P
    BY <1>2, <2>3
  <2>2. \A m \in 0 .. M : m \in P
    BY <1>1, <2>1, F!Induction
  <2> QED
    BY <2>2 DEF M
<1>4. N + 1 \in P
  <2> HIDE DEF P
  <2> QED
    BY <1>3
<1>5. PICK g \in [D -> R] : Fits(g, N + 1)
  BY <1>4
<1>6. \A a \in D : rank[a] < N + 1
  <2>1. \A a \in D : rank[a] \in 0 .. N
    OBVIOUS
  <2> QED
    BY <2>1
<1> QED
  BY <1>5, <1>6

(* A word is a value if it follows an option that takes one and is not a   *)
(* value itself.                                                           *)
LEMMA Values ==
  ASSUME NEW args, NEW n \in Nat, DOMAIN args = 1 .. n, NEW takes
  PROVE  /\ ValuesOf(args, takes) \subseteq 1 .. n
         /\ \A i \in 1 .. n : i \in ValuesOf(args, takes) <=>
              i > 1 /\ i - 1 \notin ValuesOf(args, takes) /\ args[i - 1] \in takes
<1> DEFINE Eq(f) == f = [i \in DOMAIN args |-> i > 1 /\ ~f[i - 1] /\ args[i - 1] \in takes]
           h == CHOOSE f : Eq(f)
           T == [i \in 1 .. n |-> [f \in [1 .. n -> BOOLEAN] |-> i > 1 /\ ~f[i - 1] /\ args[i - 1] \in takes]]
           rank == [i \in 1 .. n |-> i]
<1>1. ValuesOf(args, takes) = {i \in DOMAIN args : h[i]}
  BY DEF ValuesOf
<1>2. \E f : Eq(f)
  <2>1. T \in [1 .. n -> [[1 .. n -> BOOLEAN] -> BOOLEAN]]
    OBVIOUS
  <2>2. rank \in [1 .. n -> 0 .. n]
    OBVIOUS
  <2>3. \A a \in 1 .. n : \A f, g \in [1 .. n -> BOOLEAN] :
          (\A b \in 1 .. n : rank[b] < rank[a] => f[b] = g[b]) => T[a][f] = T[a][g]
    <3> SUFFICES ASSUME NEW a \in 1 .. n, NEW f \in [1 .. n -> BOOLEAN], NEW g \in [1 .. n -> BOOLEAN],
                        \A b \in 1 .. n : rank[b] < rank[a] => f[b] = g[b]
                 PROVE  T[a][f] = T[a][g]
      OBVIOUS
    <3>1. a > 1 => f[a - 1] = g[a - 1]
      OBVIOUS
    <3> QED
      BY <3>1
  <2>4. \E f : Solves(f, 1 .. n, BOOLEAN, T)
    <3>1. Recursive(1 .. n, BOOLEAN, n, rank, T)
      <4> HIDE DEF T, rank
      <4> QED
        BY <2>1, <2>2, <2>3 DEF Recursive
    <3> HIDE DEF T, rank
    <3> QED
      BY <3>1, Recursion
  <2>5. PICK f : Solves(f, 1 .. n, BOOLEAN, T)
    BY <2>4
  <2>6. f \in [1 .. n -> BOOLEAN] /\ \A a \in 1 .. n : f[a] = (a > 1 /\ ~f[a - 1] /\ args[a - 1] \in takes)
    BY <2>5 DEF Solves
  <2> QED
    BY <2>6
<1>3. Eq(h)
  BY <1>2
<1> HIDE DEF h
<1>4. \A i \in 1 .. n : h[i] = (i > 1 /\ ~h[i - 1] /\ args[i - 1] \in takes)
  BY <1>3
<1> DEFINE V == ValuesOf(args, takes)
<1>5. \A i \in 1 .. n : i \in V <=> h[i]
  BY <1>1
<1>6. V \subseteq 1 .. n
  BY <1>1
<1> HIDE DEF V
<1>7. ASSUME NEW i \in 1 .. n PROVE i \in V <=> i > 1 /\ i - 1 \notin V /\ args[i - 1] \in takes
  <2>1. h[i] <=> (i > 1 /\ ~h[i - 1] /\ args[i - 1] \in takes)
    BY <1>4
  <2>2. i > 1 => (i - 1 \in V <=> h[i - 1])
    <3>1. i > 1 => i - 1 \in 1 .. n
      OBVIOUS
    <3> QED
      BY <1>5, <3>1
  <2>3. i \in V <=> h[i]
    BY <1>5
  <2> QED
    BY <2>1, <2>2, <2>3
<1> QED
  BY <1>6, <1>7 DEF V

LEMMA NearestIs ==
  ASSUME NEW S, S \subseteq Nat, S # {}
  PROVE  G!Nearest(S) \in S /\ \A j \in S : G!Nearest(S) <= j
<1>1. PICK m \in S : \A j \in S : m <= j
  BY F!Least
<1> QED
  BY <1>1 DEF G!Nearest

(* What the walk to the command is at a word.                              *)
Execs(ws, k) == {i \in k + 1 .. Len(ws) - 1 : ws[i] = "-exec"}
NextNamed(ws, k) == {j \in k + 1 .. Len(ws) : j <= k + G!REACH /\ ws[j] \in G!Commands \union G!WRAPPERS}
WalkAt(walk, ws, k) ==
  IF k > Len(ws) THEN [k |-> k, xargs |-> FALSE]
  ELSE IF ws[k] = "if" THEN walk[k + 1]
  ELSE IF ws[k] = "find" /\ Execs(ws, k) # {} THEN walk[G!Nearest(Execs(ws, k)) + 1]
  ELSE IF ws[k] \in G!WRAPPERS
    THEN LET r == walk[IF NextNamed(ws, k) = {} THEN k + 1 ELSE G!Nearest(NextNamed(ws, k))]
         IN [k |-> r.k, xargs |-> r.xargs \/ ws[k] = "xargs"]
  ELSE [k |-> k, xargs |-> FALSE]

LEMMA Walk ==
  ASSUME NEW ws, NEW n \in Nat, n = Len(ws)
  PROVE  \E walk : /\ G!CommandAt(ws) = walk[1]
                   /\ \A k \in 1 .. n + 1 : walk[k] = WalkAt(walk, ws, k)
<1> DEFINE D == 1 .. n + 1
           R == [k : D, xargs : BOOLEAN]
           Eq(f) == f = [k \in 1 .. n + 1 |-> WalkAt(f, ws, k)]
           h == CHOOSE f : Eq(f)
           T == [k \in D |-> [f \in [D -> R] |-> WalkAt(f, ws, k)]]
           rank == [k \in D |-> n + 1 - k]
<1>1. G!CommandAt(ws) = h[1]
  BY DEF G!CommandAt, WalkAt, Execs, NextNamed
<1>2. \A k \in D : Execs(ws, k) # {} => G!Nearest(Execs(ws, k)) + 1 \in D /\ G!Nearest(Execs(ws, k)) + 1 > k
  <2> SUFFICES ASSUME NEW k \in D, Execs(ws, k) # {}
               PROVE  G!Nearest(Execs(ws, k)) + 1 \in D /\ G!Nearest(Execs(ws, k)) + 1 > k
    OBVIOUS
  <2>1. Execs(ws, k) \subseteq Nat
    BY DEF Execs
  <2>2. G!Nearest(Execs(ws, k)) \in Execs(ws, k)
    BY <2>1, NearestIs
  <2>3. G!Nearest(Execs(ws, k)) \in k + 1 .. n - 1
    BY <2>2 DEF Execs
  <2> QED
    BY <2>3
<1>3. \A k \in D : NextNamed(ws, k) # {} => G!Nearest(NextNamed(ws, k)) \in D /\ G!Nearest(NextNamed(ws, k)) > k
  <2> SUFFICES ASSUME NEW k \in D, NextNamed(ws, k) # {}
               PROVE  G!Nearest(NextNamed(ws, k)) \in D /\ G!Nearest(NextNamed(ws, k)) > k
    OBVIOUS
  <2>1. NextNamed(ws, k) \subseteq Nat
    BY DEF NextNamed
  <2>2. G!Nearest(NextNamed(ws, k)) \in NextNamed(ws, k)
    BY <2>1, NearestIs
  <2>3. G!Nearest(NextNamed(ws, k)) \in k + 1 .. n
    BY <2>2 DEF NextNamed
  <2> QED
    BY <2>3
<1>4. ASSUME NEW k \in D, NEW f \in [D -> R] PROVE WalkAt(f, ws, k) \in R
  <2>1. k <= n => k + 1 \in D
    OBVIOUS
  <2>2. \A j \in D : f[j] \in R /\ [k |-> f[j].k, xargs |-> f[j].xargs \/ ws[k] = "xargs"] \in R
    <3>1. ASSUME NEW r \in R PROVE [k |-> r.k, xargs |-> r.xargs \/ ws[k] = "xargs"] \in R
      <4>1. r.k \in D /\ r.xargs \in BOOLEAN /\ (r.xargs \/ ws[k] = "xargs") \in BOOLEAN
        OBVIOUS
      <4> HIDE DEF D
      <4> QED
        BY <4>1
    <3>2. \A j \in D : f[j] \in R
      OBVIOUS
    <3> HIDE DEF D, R
    <3> QED
      BY <3>1, <3>2
  <2>3. [k |-> k, xargs |-> FALSE] \in R
    OBVIOUS
  <2> DEFINE a == G!Nearest(Execs(ws, k)) + 1
             b == IF NextNamed(ws, k) = {} THEN k + 1 ELSE G!Nearest(NextNamed(ws, k))
  <2>4. k <= n => (Execs(ws, k) # {} => a \in D) /\ b \in D
    BY <1>2, <1>3, <2>1
  <2>5. WalkAt(f, ws, k) = IF k > n THEN [k |-> k, xargs |-> FALSE]
           ELSE IF ws[k] = "if" THEN f[k + 1]
           ELSE IF ws[k] = "find" /\ Execs(ws, k) # {} THEN f[a]
           ELSE IF ws[k] \in G!WRAPPERS THEN [k |-> f[b].k, xargs |-> f[b].xargs \/ ws[k] = "xargs"]
           ELSE [k |-> k, xargs |-> FALSE]
    BY DEF WalkAt
  <2> HIDE DEF a, b, R
  <2> QED
    BY <2>1, <2>2, <2>3, <2>4, <2>5
<1>5. ASSUME NEW k \in D, NEW f \in [D -> R], NEW g \in [D -> R], \A j \in D : j > k => f[j] = g[j]
      PROVE  WalkAt(f, ws, k) = WalkAt(g, ws, k)
  <2>1. k <= n => f[k + 1] = g[k + 1]
    BY <1>5
  <2>2. Execs(ws, k) # {} => f[G!Nearest(Execs(ws, k)) + 1] = g[G!Nearest(Execs(ws, k)) + 1]
    BY <1>2, <1>5
  <2>3. NextNamed(ws, k) # {} => f[G!Nearest(NextNamed(ws, k))] = g[G!Nearest(NextNamed(ws, k))]
    BY <1>3, <1>5
  <2> QED
    BY <2>1, <2>2, <2>3 DEF WalkAt
<1>6. \E f : Eq(f)
  <2>1. T \in [D -> [[D -> R] -> R]]
    <3> HIDE DEF D, R
    <3> QED
      BY <1>4
  <2>2. rank \in [D -> 0 .. n]
    OBVIOUS
  <2>3. \A k \in D : \A f, g \in [D -> R] :
          (\A j \in D : rank[j] < rank[k] => f[j] = g[j]) => T[k][f] = T[k][g]
    <3> SUFFICES ASSUME NEW k \in D, NEW f \in [D -> R], NEW g \in [D -> R],
                        \A j \in D : rank[j] < rank[k] => f[j] = g[j]
                 PROVE  T[k][f] = T[k][g]
      OBVIOUS
    <3>1. \A j \in D : j > k => f[j] = g[j]
      OBVIOUS
    <3>2. WalkAt(f, ws, k) = WalkAt(g, ws, k)
      BY <1>5, <3>1
    <3> HIDE DEF D, R
    <3> QED
      BY <3>2
  <2>4. R # {}
    <3>1. [k |-> 1, xargs |-> FALSE] \in R
      OBVIOUS
    <3> QED
      BY <3>1
  <2>5. Recursive(D, R, n, rank, T)
    <3> HIDE DEF D, R, T, rank
    <3> QED
      BY <2>1, <2>2, <2>3, <2>4 DEF Recursive
  <2>6. PICK f : Solves(f, D, R, T)
    <3> HIDE DEF D, R, T, rank
    <3> QED
      BY <2>5, Recursion
  <2>7. f \in [D -> R] /\ \A k \in D : f[k] = WalkAt(f, ws, k)
    <3> HIDE DEF D, R
    <3> QED
      BY <2>6 DEF Solves
  <2>8. Eq(f)
    BY <2>7
  <2> QED
    BY <2>8
<1>7. Eq(h)
  <2> HIDE DEF Eq
  <2> QED
    BY <1>6
<1>8. \A k \in 1 .. n + 1 : h[k] = WalkAt(h, ws, k)
  <2> HIDE DEF h
  <2> QED
    BY <1>7
<1> QED
  BY <1>1, <1>8

(* A command at p, and nothing behind it that may run another one.         *)
Structure == {"if", "find", "-exec"} \union G!WRAPPERS
FirstAt(ws, p) ==
  /\ p \in DOMAIN ws /\ ws[p] \in G!Commands
  /\ \A i \in DOMAIN ws : /\ i < p => ws[i] \notin G!Commands
                          /\ i > p => ws[i] \notin Structure
                          /\ i < p /\ ws[i] \in G!WRAPPERS => p <= i + G!REACH

LEMMA Apart ==
  \A w \in G!Commands : w \notin Structure
BY DEF G!Commands, G!CLIENTS, G!DOWNLOADERS, G!SHELLS, Structure, G!WRAPPERS

LEMMA WalkFinds ==
  ASSUME NEW ws, NEW n \in Nat, n = Len(ws), DOMAIN ws = 1 .. n, NEW p, FirstAt(ws, p)
  PROVE  \A k \in MayRun(ws) \intersect Named(ws) : k = p /\ G!CommandAt(ws).k = p
<1>1. PICK walk : /\ G!CommandAt(ws) = walk[1]
                  /\ \A k \in 1 .. n + 1 : walk[k] = WalkAt(walk, ws, k)
  BY Walk
<1> DEFINE Good(j) == walk[j].k = p
<1>2. p \in 1 .. n /\ ws[p] \in G!Commands /\ ws[p] \notin Structure
  BY Apart DEF FirstAt
<1>3. \A i \in 1 .. n : /\ i < p => ws[i] \notin G!Commands
                        /\ i > p => ws[i] \notin Structure
                        /\ i < p /\ ws[i] \in G!WRAPPERS => p <= i + G!REACH
  BY DEF FirstAt
<1>4. Good(p)
  <2>1. walk[p] = WalkAt(walk, ws, p)
    BY <1>1, <1>2
  <2>2. WalkAt(walk, ws, p) = [k |-> p, xargs |-> FALSE]
    BY <1>2 DEF WalkAt, Structure
  <2> QED
    BY <2>1, <2>2
<1>5. \A j \in 1 .. p - 1 : ws[j] \in G!WRAPPERS => Good(j)
  <2> DEFINE Bad == {j \in 1 .. p - 1 : ws[j] \in G!WRAPPERS /\ ~Good(j)}
             P == {m \in 0 .. p - 1 : \A j \in p - m .. p - 1 : ws[j] \in G!WRAPPERS => Good(j)}
             M == p - 1
  <2>1. M \in Nat
    BY <1>2
  <2>2. 0 \in P
    BY <1>2
  <2>3. \A m \in 0 .. M - 1 : m \in P => m + 1 \in P
    <3> SUFFICES ASSUME NEW m \in 0 .. M - 1, m \in P PROVE m + 1 \in P
      OBVIOUS
    <3> DEFINE j == p - (m + 1)
    <3>1. j \in 1 .. p - 1 /\ j \in 1 .. n /\ j < p /\ m + 1 \in 0 .. p - 1
      BY <1>2
    <3>2. ASSUME ws[j] \in G!WRAPPERS PROVE Good(j)
      <4> DEFINE q == G!Nearest(NextNamed(ws, j))
      <4>1. p \in NextNamed(ws, j)
        BY <1>2, <1>3, <3>1, <3>2 DEF NextNamed
      <4>2. q \in NextNamed(ws, j) /\ q <= p
        <5>1. NextNamed(ws, j) \subseteq Nat
          BY <3>1 DEF NextNamed
        <5> QED
          BY <4>1, <5>1, NearestIs
      <4>3. q \in j + 1 .. n /\ ws[q] \in G!Commands \union G!WRAPPERS
        BY <4>2 DEF NextNamed
      <4> HIDE DEF q
      <4>4. Good(q)
        <5>1. CASE q = p
          BY <1>4, <5>1
        <5>2. CASE q # p
          <6>1. q \in p - m .. p - 1 /\ q \in 1 .. n /\ q < p
            BY <1>2, <3>1, <4>2, <4>3, <5>2
          <6>2. ws[q] \in G!WRAPPERS
            BY <1>3, <4>3, <6>1
          <6> QED
            BY <6>1, <6>2
        <5> QED
          BY <5>1, <5>2
      <4>5. walk[j] = WalkAt(walk, ws, j)
        BY <1>1, <3>1
      <4>6. ws[j] # "if" /\ ws[j] # "find"
        BY <3>2 DEF G!WRAPPERS
      <4>7. WalkAt(walk, ws, j) = [k |-> walk[q].k, xargs |-> walk[q].xargs \/ ws[j] = "xargs"]
        <5>1. ~(j > Len(ws)) /\ NextNamed(ws, j) # {}
          BY <3>1, <4>1
        <5> QED
          BY <3>2, <4>6, <5>1 DEF WalkAt, q
      <4>8. walk[j].k = walk[q].k
        BY <4>5, <4>7
      <4> QED
        BY <4>4, <4>8
    <3>3. \A i \in p - (m + 1) .. p - 1 : i = j \/ i \in p - m .. p - 1
      BY <1>2
    <3> HIDE DEF j, Good
    <3> QED
      BY <3>1, <3>2, <3>3
  <2>4. \A m \in 0 .. M : m \in P
    <3> HIDE DEF M, P
    <3> QED
      BY <2>1, <2>2, <2>3, F!Induction
  <2>5. p - 1 \in P
    <3> HIDE DEF P
    <3> QED
      BY <1>2, <2>4
  <2> QED
    BY <1>2, <2>5
<1>6. \A i \in 1 .. p, j \in 1 .. n : i < j /\ LeadsTo(ws, i, j) => j <= p /\ (Good(j) => Good(i))
  <2> SUFFICES ASSUME NEW i \in 1 .. p, NEW j \in 1 .. n, i < j, LeadsTo(ws, i, j)
               PROVE  j <= p /\ (Good(j) => Good(i))
    OBVIOUS
  <2>1. i # p
    BY <1>2 DEF LeadsTo, Structure
  <2>2. i \in 1 .. n /\ i < p /\ i \in 1 .. p - 1
    BY <1>2, <2>1
  <2>3. walk[i] = WalkAt(walk, ws, i)
    BY <1>1, <2>2
  <2>4. CASE ws[i] = "if" /\ j = i + 1
    <3>1. WalkAt(walk, ws, i) = walk[i + 1]
      BY <2>2, <2>4 DEF WalkAt
    <3>2. i + 1 <= p
      BY <1>2, <2>2
    <3> QED
      BY <2>3, <2>4, <3>1, <3>2
  <2>5. CASE /\ ws[i] \in G!WRAPPERS
             /\ \A m \in i + 1 .. j - 1 : ws[m] \notin G!Commands \union G!WRAPPERS
    <3>1. Good(i)
      BY <1>5, <2>2, <2>5
    <3>2. j <= p
      <4>1. j > p => p \in i + 1 .. j - 1
        BY <2>2, <1>2
      <4> QED
        BY <1>2, <2>5, <4>1
    <3> QED
      BY <3>1, <3>2
  <2>6. CASE /\ ws[i] = "find" /\ ws[j - 1] = "-exec" /\ j - 1 > i
             /\ \A m \in i + 1 .. j - 2 : ws[m] # "-exec"
    <3> DEFINE x == j - 1
               q == G!Nearest(Execs(ws, i))
    <3>1. x \in Execs(ws, i)
      BY <2>6 DEF Execs
    <3>2. q \in Execs(ws, i) /\ q <= x
      <4>1. Execs(ws, i) \subseteq Nat
        BY DEF Execs
      <4> QED
        BY <3>1, <4>1, NearestIs
    <3>3. q \in i + 1 .. n - 1 /\ ws[q] = "-exec"
      BY <3>2 DEF Execs
    <3>4. q = x
      BY <2>6, <3>2, <3>3
    <3>5. j <= p
      <4>1. x \in 1 .. n /\ ws[x] = "-exec"
        BY <2>2, <2>6
      <4>2. ~(x > p) /\ x # p
        BY <1>2, <1>3, <4>1 DEF Structure
      <4> QED
        BY <1>2, <4>1, <4>2
    <3>6. WalkAt(walk, ws, i) = walk[q + 1]
      <4>1. ~(i > Len(ws)) /\ Execs(ws, i) # {} /\ ws[i] # "if"
        BY <2>2, <2>6, <3>1
      <4> QED
        BY <2>6, <4>1 DEF WalkAt
    <3> QED
      BY <2>3, <3>4, <3>5, <3>6
  <2> QED
    BY <2>4, <2>5, <2>6 DEF LeadsTo
<1>7. \A k \in MayRun(ws) : \A S \in SUBSET (1 .. n) :
        1 \in S /\ (\A i \in S, j \in 1 .. n : i < j /\ LeadsTo(ws, i, j) => j \in S) => k \in S
  BY DEF MayRun
<1>8. \A k \in Named(ws) : k \in 1 .. n /\ k >= p
  <2>1. \A k \in Named(ws) : k \in 1 .. n /\ ws[k] \in G!Commands
    BY DEF Named
  <2> QED
    BY <1>2, <1>3, <2>1
<1> SUFFICES ASSUME NEW k \in MayRun(ws) \intersect Named(ws)
             PROVE  k = p /\ Good(1)
  BY <1>1
<1>9. k = p
  <2> DEFINE S == 1 .. p
  <2>1. S \in SUBSET (1 .. n) /\ 1 \in S
    BY <1>2
  <2>2. \A i \in S, j \in 1 .. n : i < j /\ LeadsTo(ws, i, j) => j \in S
    BY <1>2, <1>6
  <2>3. k \in S
    <3> HIDE DEF S
    <3> QED
      BY <1>7, <2>1, <2>2
  <2> QED
    BY <1>2, <1>8, <2>3
<1>10. Good(1)
  <2> SUFFICES ASSUME ~Good(1) PROVE FALSE
    OBVIOUS
  <2> DEFINE S == {j \in 1 .. p : ~Good(j)}
  <2>1. S \in SUBSET (1 .. n) /\ 1 \in S
    BY <1>2
  <2>2. \A i \in S, j \in 1 .. n : i < j /\ LeadsTo(ws, i, j) => j \in S
    <3> HIDE DEF Good
    <3> QED
      BY <1>2, <1>6
  <2>3. k \in S
    <3> HIDE DEF S
    <3> QED
      BY <1>7, <2>1, <2>2
  <2> QED
    BY <1>4, <1>9, <2>3
<1> QED
  BY <1>9, <1>10

(* A function that reads one argument or two and goes on behind them.      *)
TwoAhead(n, R, T) ==
  /\ R # {} /\ n \in Nat /\ T \in [1 .. n + 2 -> [[1 .. n + 2 -> R] -> R]]
  /\ \A a \in 1 .. n + 2 : \A g, h \in [1 .. n + 2 -> R] :
       (a <= n => g[a + 1] = h[a + 1] /\ g[a + 2] = h[a + 2]) => T[a][g] = T[a][h]

LEMMA ReadsOn ==
  ASSUME NEW n, NEW R, NEW T, TwoAhead(n, R, T)
  PROVE  \E g : Solves(g, 1 .. n + 2, R, T)
<1> DEFINE D == 1 .. n + 2
           rank == [a \in D |-> n + 2 - a]
<1>1. R # {} /\ n \in Nat /\ T \in [D -> [[D -> R] -> R]]
  BY DEF TwoAhead
<1>2. rank \in [D -> 0 .. n + 1] /\ n + 1 \in Nat
  BY <1>1
<1>3. \A a \in D : \A g, h \in [D -> R] :
        (\A b \in D : rank[b] < rank[a] => g[b] = h[b]) => T[a][g] = T[a][h]
  <2> SUFFICES ASSUME NEW a \in D, NEW g \in [D -> R], NEW h \in [D -> R],
                      \A b \in D : rank[b] < rank[a] => g[b] = h[b]
               PROVE  T[a][g] = T[a][h]
    OBVIOUS
  <2>1. a <= n => a + 1 \in D /\ a + 2 \in D /\ rank[a + 1] < rank[a] /\ rank[a + 2] < rank[a]
    BY <1>1
  <2>2. a <= n => g[a + 1] = h[a + 1] /\ g[a + 2] = h[a + 2]
    <3> HIDE DEF rank, D
    <3> QED
      BY <2>1
  <2> QED
    BY <2>2 DEF TwoAhead
<1>4. Recursive(D, R, n + 1, rank, T)
  <2> HIDE DEF D, rank
  <2> QED
    BY <1>1, <1>2, <1>3 DEF Recursive
<1> HIDE DEF rank
<1> QED
  BY <1>4, Recursion

(* What is found: a set of hosts, and whether a destination is open.       *)
Found == [hosts : SUBSET {"h1", "h2", "h3"}, unresolved : BOOLEAN]
Covers(r, w) == /\ w \in DOMAIN G!Host => G!Host[w] \in r.hosts
                /\ G!Dynamic(w) => r.unresolved

LEMMA AndCovers ==
  ASSUME NEW r, NEW H, NEW U, NEW w, Covers(r, w)
  PROVE  Covers(G!And(r, H, U), w)
BY DEF Covers, G!And

LEMMA WordCovers ==
  ASSUME NEW r, NEW w, w # "scp3"
  PROVE  Covers(G!And(r, G!Dest(w), G!Dynamic(w)), w)
BY DEF Covers, G!And, G!Host, G!Dest

LEMMA AndFound ==
  ASSUME NEW r \in Found, NEW w, NEW U \in BOOLEAN
  PROVE  /\ G!And(r, G!Dest(w), U) \in Found /\ G!And(r, G!Url(w), U) \in Found
         /\ G!And(r, {}, U) \in Found /\ G!None \in Found
BY DEF Found, G!And, G!Dest, G!Url, G!Host, G!None

LEMMA DynamicIs == ASSUME NEW w PROVE G!Dynamic(w) \in BOOLEAN
BY DEF G!Dynamic

(* What the reading of a client's arguments finds from one of them on.     *)
ClientAt(c, args, read, a) ==
  LET at(b, r) == G!And(r, G!Dest(args[b]), G!Dynamic(args[b]))
  IN IF a > Len(args) THEN G!None
     ELSE IF args[a] \in G!Overrides(c) THEN G!And(read[a + 2], {}, TRUE)
     ELSE IF args[a] \in G!DestFlags(c) THEN IF a = Len(args) THEN G!None ELSE at(a + 1, read[a + 2])
     ELSE IF args[a] \in G!Values(c) THEN read[a + 2]
     ELSE IF args[a] \in G!Flags THEN read[a + 1]
     ELSE IF G!FirstOnly(c) /\ args[a] = "POST" THEN read[a + 1]
     ELSE at(a, IF G!FirstOnly(c) THEN G!None ELSE read[a + 1])

LEMMA ClientRead ==
  ASSUME NEW c, NEW args, NEW n \in Nat, n = Len(args)
  PROVE  \E read : /\ G!ReadClient(c, args) = read[1]
                   /\ \A a \in 1 .. n + 2 : read[a] = ClientAt(c, args, read, a)
<1> DEFINE D == 1 .. n + 2
           Eq(f) == f = [a \in 1 .. n + 2 |-> ClientAt(c, args, f, a)]
           h == CHOOSE f : Eq(f)
           T == [a \in D |-> [f \in [D -> Found] |-> ClientAt(c, args, f, a)]]
<1>1. G!ReadClient(c, args) = h[1]
  BY DEF G!ReadClient, ClientAt
<1>2. ASSUME NEW a \in D, NEW f \in [D -> Found] PROVE ClientAt(c, args, f, a) \in Found
  <2>1. a <= n => f[a + 1] \in Found /\ f[a + 2] \in Found
    <3>1. a <= n => a + 1 \in D /\ a + 2 \in D
      OBVIOUS
    <3> HIDE DEF D
    <3> QED
      BY <3>1
  <2>2. a > n \/ a <= n
    OBVIOUS
  <2>3. \A b : \A r \in Found : G!And(r, G!Dest(args[b]), G!Dynamic(args[b])) \in Found
    BY AndFound, DynamicIs
  <2>4. G!None \in Found /\ \A r \in Found : G!And(r, {}, TRUE) \in Found
    BY DEF Found, G!And, G!None
  <2> HIDE DEF D
  <2>5. CASE a > n
    BY <2>4, <2>5 DEF ClientAt
  <2>6. CASE a <= n
    BY <2>1, <2>3, <2>4, <2>6 DEF ClientAt
  <2> QED
    BY <2>2, <2>5, <2>6
<1>3. \E f : Eq(f)
  <2>1. T \in [D -> [[D -> Found] -> Found]]
    <3> HIDE DEF D
    <3> QED
      BY <1>2
  <2>2. \A a \in D : \A f, g \in [D -> Found] :
          (a <= n => f[a + 1] = g[a + 1] /\ f[a + 2] = g[a + 2]) => T[a][f] = T[a][g]
    <3> SUFFICES ASSUME NEW a \in D, NEW f \in [D -> Found], NEW g \in [D -> Found],
                        a <= n => f[a + 1] = g[a + 1] /\ f[a + 2] = g[a + 2]
                 PROVE  T[a][f] = T[a][g]
      OBVIOUS
    <3>1. ClientAt(c, args, f, a) = ClientAt(c, args, g, a)
      <4>1. a > n \/ a <= n
        OBVIOUS
      <4> HIDE DEF D
      <4> QED
        BY <4>1 DEF ClientAt
    <3> HIDE DEF D
    <3> QED
      BY <3>1
  <2>3. Found # {}
    <3>1. G!None \in Found
      BY DEF G!None, Found
    <3> QED
      BY <3>1
  <2>4. TwoAhead(n, Found, T)
    <3> HIDE DEF T
    <3> QED
      BY <2>1, <2>2, <2>3 DEF TwoAhead
  <2>5. PICK f : Solves(f, D, Found, T)
    <3> HIDE DEF T
    <3> QED
      BY <2>4, ReadsOn
  <2>6. f \in [D -> Found] /\ \A a \in D : f[a] = ClientAt(c, args, f, a)
    <3> HIDE DEF D
    <3> QED
      BY <2>5 DEF Solves
  <2>7. Eq(f)
    BY <2>6
  <2> QED
    BY <2>7
<1>4. Eq(h)
  <2> HIDE DEF Eq
  <2> QED
    BY <1>3
<1>5. \A a \in 1 .. n + 2 : h[a] = ClientAt(c, args, h, a)
  <2> HIDE DEF h
  <2> QED
    BY <1>4
<1> QED
  BY <1>1, <1>5

(* The arguments at which a client or a downloader is told where to go.    *)
Takes(c) == G!Values(c) \union G!DestFlags(c) \union G!Overrides(c)
LEMMA ContactedIs ==
  ASSUME NEW c, c \in G!CLIENTS \union G!DOWNLOADERS,
         NEW args, NEW n \in Nat, DOMAIN args = 1 .. n,
         NEW i \in Contacted(c, args)
  PROVE  LET V == ValuesOf(args, Takes(c))
             W == WordsOf(args, Takes(c))
         IN  /\ i \in 1 .. n
             /\ i \in V => args[i - 1] \in G!DestFlags(c)
             /\ i \notin V => i \in W
             /\ c = "http" => \A a \in W : i <= a
             /\ c \in {"iwr", "certutil"} /\ i \notin V => \A a \in W : i <= a
             /\ c = "certutil" => i \notin V /\ "-urlcache" \in Range(args)
<1> DEFINE V == ValuesOf(args, Takes(c))
           W == WordsOf(args, Takes(c))
           named == {j \in V : /\ args[j - 1] \in G!DestFlags(c)
                               /\ c = "http" => \A k \in FirstOf(W) : j < k}
           K == CASE c = "certutil" -> IF "-urlcache" \in Range(args) THEN FirstOf(W) ELSE {}
                  [] c \in {"http", "iwr"} -> named \union FirstOf(W)
                  [] OTHER -> named \union W
<1>1. i \in K
  BY DEF Contacted, Takes
<1>2. V \subseteq 1 .. n
  BY Values
<1>3. W \subseteq 1 .. n /\ \A j \in W : j \notin V
  BY DEF WordsOf
<1>4. FirstOf(W) \subseteq W /\ \A j \in FirstOf(W), a \in W : j <= a
  BY DEF FirstOf
<1>5. ASSUME NEW a \in W PROVE \E j \in FirstOf(W) : j <= a
  <2>1. W \in SUBSET Nat /\ W # {}
    BY <1>3, <1>5
  <2>2. PICK j \in W : \A b \in W : j <= b
    BY <2>1, F!Least
  <2> QED
    BY <1>5, <2>2 DEF FirstOf
<1>6. i \in named => \A a \in W : c = "http" => i <= a
  <2> SUFFICES ASSUME i \in named, c = "http", NEW a \in W PROVE i <= a
    OBVIOUS
  <2>1. PICK j \in FirstOf(W) : j <= a
    BY <1>5
  <2>2. i < j
    BY <2>1
  <2>3. i \in Nat /\ j \in Nat /\ a \in Nat
    BY <1>2, <1>3, <1>4
  <2> HIDE DEF named, V, W
  <2> QED
    BY <2>1, <2>2, <2>3
<1>7. \A j \in named : j \in V /\ args[j - 1] \in G!DestFlags(c)
  OBVIOUS
<1>8. c \in {"curl", "wget", "http", "iwr", "aria2c", "certutil"}
  BY DEF G!CLIENTS, G!DOWNLOADERS
<1> HIDE DEF named, V, W
<1>9. CASE c = "certutil"
  <2>1. "-urlcache" \in Range(args) /\ i \in FirstOf(W)
    BY <1>1, <1>9
  <2>2. i \in 1 .. n /\ i \notin V /\ i \in W /\ \A a \in W : i <= a
    BY <1>3, <1>4, <2>1
  <2> QED
    BY <1>9, <2>1, <2>2 DEF V, W
<1>10. CASE c \in {"http", "iwr"}
  <2>1. i \in named \/ i \in FirstOf(W)
    BY <1>1, <1>10
  <2>2. CASE i \in named
    BY <1>2, <1>6, <1>7, <1>10, <2>2 DEF V, W
  <2>3. CASE i \in FirstOf(W)
    <3>1. i \in 1 .. n /\ i \notin V /\ i \in W /\ \A a \in W : i <= a
      BY <1>3, <1>4, <2>3
    <3> QED
      BY <1>10, <3>1 DEF V, W
  <2> QED
    BY <2>1, <2>2, <2>3
<1>11. CASE c \in {"curl", "wget", "aria2c"}
  <2>1. i \in named \/ i \in W
    BY <1>1, <1>11
  <2>2. CASE i \in named
    BY <1>2, <1>7, <1>11, <2>2 DEF V, W
  <2>3. CASE i \in W
    BY <1>3, <1>11, <2>3 DEF V, W
  <2> QED
    BY <2>1, <2>2, <2>3
<1> QED
  BY <1>8, <1>9, <1>10, <1>11

(* Where the reading stands on an argument that is no value, it stands     *)
(* again on one after each argument and its value.                         *)
LEMMA Onward ==
  ASSUME NEW args, NEW n \in Nat, DOMAIN args = 1 .. n, NEW takes,
         NEW a \in 1 .. n, a \notin ValuesOf(args, takes)
  PROVE  /\ args[a] \in takes => a + 2 \notin ValuesOf(args, takes)
                                 /\ (a < n => a + 1 \in ValuesOf(args, takes))
         /\ args[a] \notin takes => a + 1 \notin ValuesOf(args, takes)
<1> DEFINE V == ValuesOf(args, takes)
<1>1. V \subseteq 1 .. n /\ \A i \in 1 .. n : i \in V <=> i > 1 /\ i - 1 \notin V /\ args[i - 1] \in takes
  BY Values
<1> HIDE DEF V
<1>2. a \notin V
  BY DEF V
<1>3. a + 1 \in V <=> a < n /\ args[a] \in takes
  <2>1. a + 1 \in 1 .. n <=> a < n
    OBVIOUS
  <2>2. a + 1 > 1 /\ (a + 1) - 1 = a
    OBVIOUS
  <2> QED
    BY <1>1, <1>2, <2>1, <2>2
<1>4. args[a] \in takes => a + 2 \notin V
  <2>1. a + 2 \in V => a + 2 \in 1 .. n /\ a + 1 \in 1 .. n /\ (a + 2) - 1 = a + 1 /\ a < n
    BY <1>1
  <2> QED
    BY <1>1, <1>3, <2>1
<1> QED
  BY <1>3, <1>4 DEF V

LEMMA Backward ==
  ASSUME NEW n \in Nat, NEW P, n + 1 \in P, n + 2 \in P,
         \A a \in 1 .. n : a + 1 \in P /\ a + 2 \in P => a \in P
  PROVE  1 \in P
<1> DEFINE Q == {m \in 0 .. n : n + 1 - m \in P /\ n + 2 - m \in P}
<1>1. 0 \in Q
  OBVIOUS
<1>2. \A m \in 0 .. n - 1 : m \in Q => m + 1 \in Q
  <2> SUFFICES ASSUME NEW m \in 0 .. n - 1, m \in Q PROVE m + 1 \in Q
    OBVIOUS
  <2> DEFINE a == n - m
  <2>1. a \in 1 .. n /\ n + 1 - m = a + 1 /\ n + 2 - m = a + 2 /\ n + 1 - (m + 1) = a
        /\ n + 2 - (m + 1) = a + 1
    OBVIOUS
  <2> HIDE DEF a
  <2> QED
    BY <2>1
<1> HIDE DEF Q
<1>3. \A m \in 0 .. n : m \in Q
  BY <1>1, <1>2, F!Induction
<1>4. n \in Q
  BY <1>3
<1> QED
  BY <1>4 DEF Q

(* Everything from an argument on that the client is told to go to is      *)
(* among what the reading finds from there on.                             *)
LEMMA ClientReads ==
  ASSUME NEW c \in G!CLIENTS, NEW args, NEW n \in Nat, n = Len(args), DOMAIN args = 1 .. n,
         \A i \in 1 .. n : args[i] # "scp3"
  PROVE  \A i \in Contacted(c, args) : Covers(G!ReadClient(c, args), args[i])
<1>1. PICK read : /\ G!ReadClient(c, args) = read[1]
                  /\ \A a \in 1 .. n + 2 : read[a] = ClientAt(c, args, read, a)
  BY ClientRead
<1> DEFINE V == ValuesOf(args, Takes(c))
           W == WordsOf(args, Takes(c))
           K == Contacted(c, args)
           Reads(a) == a \notin V => \A i \in K : i >= a => Covers(read[a], args[i])
<1>2. V \subseteq 1 .. n /\ 1 \notin V
  <2>1. V \subseteq 1 .. n /\ \A i \in 1 .. n : i \in V => i > 1
    BY Values
  <2> QED
    BY <2>1
<1>3. \A i \in K : /\ i \in 1 .. n
                   /\ i \in V => args[i - 1] \in G!DestFlags(c)
                   /\ i \notin V => i \in W
                   /\ c = "http" => \A a \in W : i <= a
  BY ContactedIs
<1>4. \A i \in 1 .. n : i \in W <=> i \notin V /\ args[i] \notin G!Flags /\ args[i] # "POST"
  BY DEF WordsOf
<1>5. /\ Takes(c) \subseteq G!Flags
      /\ Takes(c) = G!Overrides(c) \union G!DestFlags(c) \union G!Values(c)
      /\ \A w \in G!DestFlags(c) : w \notin G!Overrides(c) /\ w \notin G!Values(c)
      /\ G!FirstOnly(c) <=> c = "http"
  BY DEF Takes, G!Flags, G!Overrides, G!DestFlags, G!Values, G!FirstOnly, G!CLIENTS
<1>6. \A a \in 1 .. n : a \notin V =>
        /\ args[a] \in Takes(c) => a + 2 \notin V
        /\ args[a] \notin Takes(c) => a + 1 \notin V
  BY Onward
<1> HIDE DEF K, V, W
<1>7. ASSUME NEW a \in 1 .. n, Reads(a + 1), Reads(a + 2) PROVE Reads(a)
  <2> SUFFICES ASSUME a \notin V, NEW i \in K, i >= a PROVE Covers(read[a], args[i])
    OBVIOUS
  <2> DEFINE at(b, r) == G!And(r, G!Dest(args[b]), G!Dynamic(args[b]))
  <2>1. i \in 1 .. n /\ (i = a \/ i = a + 1 \/ i >= a + 2) /\ (i = a \/ i >= a + 1)
    BY <1>3
  <2>2. read[a] = IF args[a] \in G!Overrides(c) THEN G!And(read[a + 2], {}, TRUE)
     ELSE IF args[a] \in G!DestFlags(c) THEN IF a = n THEN G!None ELSE at(a + 1, read[a + 2])
     ELSE IF args[a] \in G!Values(c) THEN read[a + 2]
     ELSE IF args[a] \in G!Flags THEN read[a + 1]
     ELSE IF G!FirstOnly(c) /\ args[a] = "POST" THEN read[a + 1]
     ELSE at(a, IF G!FirstOnly(c) THEN G!None ELSE read[a + 1])
    <3>1. read[a] = ClientAt(c, args, read, a)
      BY <1>1
    <3>2. ~(a > Len(args))
      OBVIOUS
    <3> QED
      BY <3>1, <3>2 DEF ClientAt
  <2>3. i = a => i \in W
    BY <1>3
  <2>4. \A b \in 1 .. n : \A r : Covers(at(b, r), args[b])
    BY WordCovers
  <2>5. \A r, H, U : Covers(r, args[i]) => Covers(G!And(r, H, U), args[i])
    BY AndCovers
  <2> HIDE DEF at
  <2>6. \A b, r : Covers(r, args[i]) => Covers(at(b, r), args[i])
    BY <2>5 DEF at
  <2>7. CASE args[a] \in Takes(c)
    <3>1. i # a
      BY <1>4, <1>5, <2>3, <2>7
    <3>2. i >= a + 2 => Covers(read[a + 2], args[i])
      BY <1>6, <1>7, <2>7
    <3>3. i = a + 1 => args[a] \in G!DestFlags(c)
      <4>1. i = a + 1 => args[i - 1] = args[a] /\ a < n
        BY <2>1
      <4>2. i = a + 1 => i \in V
        <5>1. a < n => a + 1 \in V
          BY <2>7, Onward DEF V
        <5> QED
          BY <4>1, <5>1
      <4> QED
        BY <1>3, <4>1, <4>2
    <3>4. CASE args[a] \in G!Overrides(c)
      BY <1>5, <2>1, <2>2, <2>5, <3>1, <3>2, <3>3, <3>4
    <3>5. CASE args[a] \in G!DestFlags(c)
      <4>1. a # n
        BY <2>1, <3>1
      <4>2. read[a] = at(a + 1, read[a + 2])
        BY <1>5, <2>2, <3>5, <4>1
      <4>3. i = a + 1 => Covers(read[a], args[i])
        BY <2>1, <2>4, <4>2
      <4> QED
        BY <2>1, <2>6, <3>1, <3>2, <4>2, <4>3
    <3>6. CASE args[a] \in G!Values(c) /\ args[a] \notin G!Overrides(c)
      <4>1. args[a] \notin G!DestFlags(c)
        BY <1>5, <3>6
      <4> QED
        BY <2>1, <2>2, <3>1, <3>2, <3>3, <3>6, <4>1
    <3> QED
      BY <1>5, <2>7, <3>4, <3>5, <3>6
  <2>8. CASE args[a] \notin Takes(c)
    <3>1. i >= a + 1 => Covers(read[a + 1], args[i])
      BY <1>6, <1>7, <2>8
    <3>2. read[a] = IF args[a] \in G!Flags THEN read[a + 1]
             ELSE IF G!FirstOnly(c) /\ args[a] = "POST" THEN read[a + 1]
             ELSE at(a, IF G!FirstOnly(c) THEN G!None ELSE read[a + 1])
      BY <1>5, <2>2, <2>8
    <3>3. CASE args[a] \in G!Flags
      BY <1>4, <2>1, <2>3, <3>1, <3>2, <3>3
    <3>4. CASE args[a] \notin G!Flags /\ G!FirstOnly(c) /\ args[a] = "POST"
      BY <1>4, <2>1, <2>3, <3>1, <3>2, <3>4
    <3>5. CASE args[a] \notin G!Flags /\ ~(G!FirstOnly(c) /\ args[a] = "POST")
      <4>1. i = a => Covers(read[a], args[i])
        BY <2>4, <3>2, <3>5
      <4>2. ~G!FirstOnly(c) => (i >= a + 1 => Covers(read[a], args[i]))
        BY <2>6, <3>1, <3>2, <3>5
      <4>3. G!FirstOnly(c) => i = a
        <5>1. G!FirstOnly(c) => a \in W /\ c = "http"
          BY <1>4, <1>5, <3>5
        <5> QED
          BY <1>3, <2>1, <5>1
      <4> QED
        BY <2>1, <4>1, <4>2, <4>3
    <3> QED
      BY <3>3, <3>4, <3>5
  <2> QED
    BY <2>7, <2>8
<1>8. Reads(1)
  <2> DEFINE P == {a \in 1 .. n + 2 : Reads(a)}
  <2>1. \A i \in K : i \in 1 .. n
    BY <1>3
  <2>2. \A i \in K : ~(i >= n + 1) /\ ~(i >= n + 2)
    BY <2>1
  <2>3. Reads(n + 1) /\ Reads(n + 2)
    BY <2>2
  <2> HIDE DEF Reads
  <2>4. n + 1 \in P /\ n + 2 \in P
    BY <2>3
  <2>5. \A a \in 1 .. n : a + 1 \in P /\ a + 2 \in P => a \in P
    BY <1>7
  <2> HIDE DEF P
  <2>6. 1 \in P
    BY <2>4, <2>5, Backward
  <2> QED
    BY <2>6 DEF P
<1> QED
  BY <1>1, <1>2, <1>3, <1>8 DEF K

(* The same for the download clients; seen: an earlier argument was read   *)
(* as the destination.                                                     *)
Bare(c, args) == c # "certutil" \/ \E a \in DOMAIN args : args[a] \in G!Verbs
DownloadAt(c, args, read, a, seen) ==
  IF a > Len(args) THEN G!None
  ELSE IF args[a] \in G!DestFlags(c)
    THEN IF a = Len(args) THEN G!None
         ELSE G!And(read[a + 2][seen], G!Dest(args[a + 1]), G!Dynamic(args[a + 1]))
  ELSE IF args[a] \in G!Values(c) /\ a < Len(args)
    THEN G!And(read[a + 2][seen], G!Url(args[a + 1]), FALSE)
  ELSE IF args[a] \in G!Flags THEN read[a + 1][seen]
  ELSE IF G!FirstOnly(c) /\ seen THEN G!And(read[a + 1][seen], G!Url(args[a]), FALSE)
  ELSE IF G!Url(args[a]) # {} \/ ~Bare(c, args) THEN G!And(read[a + 1][TRUE], G!Url(args[a]), FALSE)
  ELSE G!And(read[a + 1][TRUE], G!Dest(args[a]), G!Dynamic(args[a]))

LEMMA DownloadRead ==
  ASSUME NEW c, NEW args, NEW n \in Nat, n = Len(args)
  PROVE  \E read : /\ G!ReadDownload(c, args) = read[1][FALSE]
                   /\ \A a \in 1 .. n + 2, seen \in BOOLEAN :
                        read[a][seen] = DownloadAt(c, args, read, a, seen)
<1> DEFINE D == 1 .. n + 2
           R == [BOOLEAN -> Found]
           row(f, a) == [seen \in BOOLEAN |-> DownloadAt(c, args, f, a, seen)]
           Eq(f) == f = [a \in 1 .. n + 2 |-> row(f, a)]
           h == CHOOSE f : Eq(f)
           T == [a \in D |-> [f \in [D -> R] |-> row(f, a)]]
<1>1. G!ReadDownload(c, args) = h[1][FALSE]
  BY DEF G!ReadDownload, DownloadAt, Bare
<1>2. ASSUME NEW a \in D, NEW f \in [D -> R] PROVE row(f, a) \in R
  <2> SUFFICES ASSUME NEW seen \in BOOLEAN PROVE DownloadAt(c, args, f, a, seen) \in Found
    OBVIOUS
  <2>1. a <= n => /\ f[a + 1][seen] \in Found /\ f[a + 2][seen] \in Found /\ f[a + 1][TRUE] \in Found
    <3>1. a <= n => a + 1 \in D /\ a + 2 \in D
      OBVIOUS
    <3>2. \A b \in D : f[b] \in [BOOLEAN -> Found]
      OBVIOUS
    <3>3. \A g \in [BOOLEAN -> Found] : g[seen] \in Found /\ g[TRUE] \in Found
      OBVIOUS
    <3> HIDE DEF D, R
    <3> QED
      BY <3>1, <3>2, <3>3
  <2>2. a > n \/ a <= n
    OBVIOUS
  <2>3. \A b : \A r \in Found : /\ G!And(r, G!Dest(args[b]), G!Dynamic(args[b])) \in Found
                                /\ G!And(r, G!Url(args[b]), FALSE) \in Found
    BY AndFound, DynamicIs
  <2>4. G!None \in Found
    BY DEF Found, G!None
  <2> HIDE DEF D, R
  <2>5. CASE a > n
    BY <2>4, <2>5 DEF DownloadAt
  <2>6. CASE a <= n
    BY <2>1, <2>3, <2>4, <2>6 DEF DownloadAt
  <2> QED
    BY <2>2, <2>5, <2>6
<1>3. \E f : Eq(f)
  <2>1. T \in [D -> [[D -> R] -> R]]
    <3> HIDE DEF D, R, row
    <3> QED
      BY <1>2
  <2>2. \A a \in D : \A f, g \in [D -> R] :
          (a <= n => f[a + 1] = g[a + 1] /\ f[a + 2] = g[a + 2]) => T[a][f] = T[a][g]
    <3> SUFFICES ASSUME NEW a \in D, NEW f \in [D -> R], NEW g \in [D -> R],
                        a <= n => f[a + 1] = g[a + 1] /\ f[a + 2] = g[a + 2]
                 PROVE  T[a][f] = T[a][g]
      OBVIOUS
    <3>1. ASSUME NEW seen \in BOOLEAN
          PROVE  DownloadAt(c, args, f, a, seen) = DownloadAt(c, args, g, a, seen)
      <4>1. a > n \/ a <= n
        OBVIOUS
      <4> HIDE DEF D
      <4> QED
        BY <4>1 DEF DownloadAt
    <3>2. row(f, a) = row(g, a)
      BY <3>1
    <3> HIDE DEF D, R, row
    <3> QED
      BY <3>2
  <2>3. R # {}
    <3>1. G!None \in Found
      BY DEF G!None, Found
    <3>2. [seen \in BOOLEAN |-> G!None] \in R
      BY <3>1
    <3> QED
      BY <3>2
  <2>4. TwoAhead(n, R, T)
    <3> HIDE DEF T, R
    <3> QED
      BY <2>1, <2>2, <2>3 DEF TwoAhead
  <2>5. PICK f : Solves(f, D, R, T)
    <3> HIDE DEF T, R
    <3> QED
      BY <2>4, ReadsOn
  <2>6. f \in [D -> R] /\ \A a \in D : f[a] = row(f, a)
    <3> HIDE DEF D, R, row
    <3> QED
      BY <2>5 DEF Solves
  <2>7. Eq(f)
    <3> HIDE DEF row
    <3> QED
      BY <2>6
  <2> QED
    BY <2>7
<1>4. Eq(h)
  <2> HIDE DEF Eq
  <2> QED
    BY <1>3
<1>5. \A a \in 1 .. n + 2 : h[a] = row(h, a)
  <2> HIDE DEF h, row
  <2> QED
    BY <1>4
<1>6. ASSUME NEW a \in 1 .. n + 2, NEW seen \in BOOLEAN
      PROVE  h[a][seen] = DownloadAt(c, args, h, a, seen)
  <2> HIDE DEF h
  <2>1. row(h, a)[seen] = DownloadAt(c, args, h, a, seen)
    OBVIOUS
  <2> HIDE DEF row
  <2> QED
    BY <1>5, <2>1
<1> QED
  BY <1>1, <1>6

LEMMA DownloadReads ==
  ASSUME NEW c \in G!DOWNLOADERS, NEW args, NEW n \in Nat, n = Len(args), DOMAIN args = 1 .. n,
         \A i \in 1 .. n : args[i] # "scp3" /\ args[i] # "POST"
  PROVE  \A i \in Contacted(c, args) : Covers(G!ReadDownload(c, args), args[i])
<1>1. PICK read : /\ G!ReadDownload(c, args) = read[1][FALSE]
                  /\ \A a \in 1 .. n + 2, seen \in BOOLEAN :
                       read[a][seen] = DownloadAt(c, args, read, a, seen)
  BY DownloadRead
<1> DEFINE V == ValuesOf(args, Takes(c))
           W == WordsOf(args, Takes(c))
           K == Contacted(c, args)
           Told(a, seen) == a \notin V /\ (seen <=> \E w \in W : w < a)
           Reads(a) == \A seen \in BOOLEAN :
                         Told(a, seen) => \A i \in K : i >= a => Covers(read[a][seen], args[i])
<1>2. V \subseteq 1 .. n /\ 1 \notin V
  <2>1. V \subseteq 1 .. n /\ \A i \in 1 .. n : i \in V => i > 1
    BY Values
  <2> QED
    BY <2>1
<1>3. \A i \in K : /\ i \in 1 .. n
                   /\ i \in V => args[i - 1] \in G!DestFlags(c)
                   /\ i \notin V => i \in W
                   /\ c \in {"iwr", "certutil"} /\ i \notin V => \A a \in W : i <= a
                   /\ c = "certutil" => "-urlcache" \in Range(args)
  BY ContactedIs
<1>4. W \subseteq 1 .. n /\ \A i \in 1 .. n : i \in W <=> i \notin V /\ args[i] \notin G!Flags
  BY DEF WordsOf
<1>5. /\ Takes(c) \subseteq G!Flags
      /\ Takes(c) = G!DestFlags(c) \union G!Values(c)
      /\ \A w \in G!DestFlags(c) : w \notin G!Values(c)
      /\ G!FirstOnly(c) => c \in {"iwr", "certutil"}
  BY DEF Takes, G!Flags, G!Overrides, G!DestFlags, G!Values, G!FirstOnly, G!DOWNLOADERS
<1>6. \A a \in 1 .. n : a \notin V =>
        /\ args[a] \in Takes(c) => a + 2 \notin V /\ (a < n => a + 1 \in V)
        /\ args[a] \notin Takes(c) => a + 1 \notin V
  BY Onward
<1>7. \A w : G!Url(w) # {} => \A r : Covers(G!And(r, G!Url(w), FALSE), w)
  BY DEF Covers, G!And, G!Url, G!Host, G!Dynamic, G!Subst
<1>8. K # {} => Bare(c, args)
  BY <1>3 DEF Bare, G!Verbs, Range
<1>9. \A r, H, U : \A i \in K : Covers(r, args[i]) => Covers(G!And(r, H, U), args[i])
  BY AndCovers
<1>10. \A i \in 1 .. n : \A r : Covers(G!And(r, G!Dest(args[i]), G!Dynamic(args[i])), args[i])
  BY WordCovers
<1> HIDE DEF K, V, W
<1>11. ASSUME NEW a \in 1 .. n, Reads(a + 1), Reads(a + 2) PROVE Reads(a)
  <2> SUFFICES ASSUME NEW seen \in BOOLEAN, Told(a, seen), NEW i \in K, i >= a
               PROVE  Covers(read[a][seen], args[i])
    OBVIOUS
  <2>1. i \in 1 .. n /\ (i = a \/ i = a + 1 \/ i >= a + 2) /\ (i = a \/ i >= a + 1)
    BY <1>3
  <2>2. read[a][seen] =
     IF args[a] \in G!DestFlags(c)
       THEN IF a = n THEN G!None
            ELSE G!And(read[a + 2][seen], G!Dest(args[a + 1]), G!Dynamic(args[a + 1]))
     ELSE IF args[a] \in G!Values(c) /\ a < n
       THEN G!And(read[a + 2][seen], G!Url(args[a + 1]), FALSE)
     ELSE IF args[a] \in G!Flags THEN read[a + 1][seen]
     ELSE IF G!FirstOnly(c) /\ seen THEN G!And(read[a + 1][seen], G!Url(args[a]), FALSE)
     ELSE IF G!Url(args[a]) # {} \/ ~Bare(c, args) THEN G!And(read[a + 1][TRUE], G!Url(args[a]), FALSE)
     ELSE G!And(read[a + 1][TRUE], G!Dest(args[a]), G!Dynamic(args[a]))
    <3>1. read[a][seen] = DownloadAt(c, args, read, a, seen)
      BY <1>1
    <3>2. ~(a > Len(args))
      OBVIOUS
    <3> QED
      BY <3>1, <3>2 DEF DownloadAt
  <2>3. i = a => i \in W
    BY <1>3
  <2>4. CASE args[a] \in Takes(c)
    <3>1. i # a /\ a < n /\ a \notin W /\ a + 1 \notin W
      <4>1. i # a /\ a \notin W
        BY <1>4, <1>5, <2>3, <2>4
      <4>2. a < n
        BY <2>1, <4>1
      <4>3. a + 1 \in V
        BY <1>6, <2>4, <4>2
      <4> QED
        BY <1>2, <1>4, <4>1, <4>2, <4>3
    <3>2. Told(a + 2, seen)
      <4>1. \A w \in W : w < a <=> w < a + 2
        BY <1>4, <3>1
      <4> QED
        BY <1>6, <2>4, <4>1
    <3>3. i >= a + 2 => Covers(read[a + 2][seen], args[i])
      <4> HIDE DEF Told
      <4> QED
        BY <1>11, <3>2
    <3>4. i = a + 1 => args[a] \in G!DestFlags(c)
      <4>1. i = a + 1 => i \in V /\ args[i - 1] = args[a]
        BY <1>6, <2>4, <3>1
      <4> QED
        BY <1>3, <4>1
    <3>5. CASE args[a] \in G!DestFlags(c)
      <4>1. read[a][seen] = G!And(read[a + 2][seen], G!Dest(args[a + 1]), G!Dynamic(args[a + 1]))
        BY <2>2, <3>1, <3>5
      <4>2. i = a + 1 => Covers(read[a][seen], args[i])
        BY <1>10, <2>1, <4>1
      <4> QED
        BY <1>9, <2>1, <3>1, <3>3, <4>1, <4>2
    <3>6. CASE args[a] \in G!Values(c)
      <4>1. args[a] \notin G!DestFlags(c)
        BY <1>5, <3>6
      <4>2. read[a][seen] = G!And(read[a + 2][seen], G!Url(args[a + 1]), FALSE)
        BY <2>2, <3>1, <3>6, <4>1
      <4> QED
        BY <1>9, <2>1, <3>1, <3>3, <3>4, <4>1, <4>2
    <3> QED
      BY <1>5, <2>4, <3>5, <3>6
  <2>5. CASE args[a] \notin Takes(c) /\ args[a] \in G!Flags
    <3>1. read[a][seen] = read[a + 1][seen]
      BY <1>5, <2>2, <2>5
    <3>2. i # a /\ a \notin W
      BY <1>4, <2>3, <2>5
    <3>3. Told(a + 1, seen)
      <4>1. \A w \in W : w < a <=> w < a + 1
        BY <1>4, <3>2
      <4> QED
        BY <1>6, <2>5, <4>1
    <3> HIDE DEF Told
    <3> QED
      BY <1>11, <2>1, <3>1, <3>2, <3>3
  <2>6. CASE args[a] \notin G!Flags
    <3>1. a \in W /\ args[a] \notin Takes(c)
      BY <1>4, <1>5, <2>6
    <3>2. Told(a + 1, TRUE)
      <4>1. a < a + 1
        OBVIOUS
      <4> QED
        BY <1>6, <3>1, <4>1
    <3>3. i >= a + 1 => Covers(read[a + 1][TRUE], args[i])
      <4> HIDE DEF Told
      <4> QED
        BY <1>11, <3>2
    <3>4. CASE G!FirstOnly(c) /\ seen
      <4>1. read[a][seen] = G!And(read[a + 1][TRUE], G!Url(args[a]), FALSE)
        <5>1. seen = TRUE
          BY <3>4
        <5> QED
          BY <1>5, <2>2, <2>6, <3>1, <3>4, <5>1
      <4>2. i # a
        <5>1. PICK w \in W : w < a
          BY <3>4
        <5>2. i = a => i <= w
          BY <1>3, <1>5, <3>4
        <5> QED
          BY <1>4, <5>1, <5>2
      <4> QED
        BY <1>9, <2>1, <3>3, <4>1, <4>2
    <3>5. CASE ~(G!FirstOnly(c) /\ seen) /\ G!Url(args[a]) # {}
      <4>1. read[a][seen] = G!And(read[a + 1][TRUE], G!Url(args[a]), FALSE)
        BY <1>5, <2>2, <2>6, <3>1, <3>5
      <4>2. i = a => Covers(read[a][seen], args[i])
        BY <1>7, <3>5, <4>1
      <4> QED
        BY <1>9, <2>1, <3>3, <4>1, <4>2
    <3>6. CASE ~(G!FirstOnly(c) /\ seen) /\ G!Url(args[a]) = {}
      <4>1. read[a][seen] = G!And(read[a + 1][TRUE], G!Dest(args[a]), G!Dynamic(args[a]))
        BY <1>5, <1>8, <2>2, <2>6, <3>1, <3>6
      <4>2. i = a => Covers(read[a][seen], args[i])
        BY <1>10, <4>1
      <4> QED
        BY <1>9, <2>1, <3>3, <4>1, <4>2
    <3> QED
      BY <3>4, <3>5, <3>6
  <2> QED
    BY <1>5, <2>4, <2>5, <2>6
<1>12. Reads(1)
  <2> DEFINE P == {a \in 1 .. n + 2 : Reads(a)}
  <2>1. \A i \in K : i \in 1 .. n
    BY <1>3
  <2>2. \A i \in K : ~(i >= n + 1) /\ ~(i >= n + 2)
    BY <2>1
  <2>3. Reads(n + 1) /\ Reads(n + 2)
    BY <2>2
  <2> HIDE DEF Reads
  <2>4. n + 1 \in P /\ n + 2 \in P
    BY <2>3
  <2>5. \A a \in 1 .. n : a + 1 \in P /\ a + 2 \in P => a \in P
    BY <1>11
  <2> HIDE DEF P
  <2>6. 1 \in P
    BY <2>4, <2>5, Backward
  <2> QED
    BY <2>6 DEF P
<1>13. Told(1, FALSE)
  <2>1. \A w \in W : ~(w < 1)
    BY <1>4
  <2> QED
    BY <1>2, <2>1
<1>14. \A i \in K : i >= 1 /\ Covers(read[1][FALSE], args[i])
  <2>1. \A i \in K : i >= 1
    BY <1>3
  <2> HIDE DEF Told
  <2> QED
    BY <1>12, <1>13, <2>1
<1> QED
  BY <1>1, <1>14 DEF K

(* What the flags are skipped to.                                          *)
PastAt(args, takes, f, a) ==
  IF a > Len(args) \/ args[a] \notin G!Flags THEN a
  ELSE f[IF args[a] \in takes THEN a + 2 ELSE a + 1]

LEMMA PastIs ==
  ASSUME NEW args, NEW takes, NEW n \in Nat, n = Len(args)
  PROVE  \A a \in 1 .. n + 2 : G!Past(args, takes)[a] = PastAt(args, takes, G!Past(args, takes), a)
<1> DEFINE D == 1 .. n + 2
           Eq(f) == f = [a \in 1 .. n + 2 |-> PastAt(args, takes, f, a)]
           h == CHOOSE f : Eq(f)
           T == [a \in D |-> [f \in [D -> Nat] |-> PastAt(args, takes, f, a)]]
<1>1. G!Past(args, takes) = h
  BY DEF G!Past, PastAt
<1>2. ASSUME NEW a \in D, NEW f \in [D -> Nat] PROVE PastAt(args, takes, f, a) \in Nat
  <2>1. a <= n => f[a + 1] \in Nat /\ f[a + 2] \in Nat
    <3>1. a <= n => a + 1 \in D /\ a + 2 \in D
      OBVIOUS
    <3> HIDE DEF D
    <3> QED
      BY <3>1
  <2>2. a \in Nat /\ (a > n \/ a <= n)
    OBVIOUS
  <2> HIDE DEF D
  <2> QED
    BY <2>1, <2>2 DEF PastAt
<1>3. \E f : Eq(f)
  <2>1. T \in [D -> [[D -> Nat] -> Nat]]
    <3> HIDE DEF D
    <3> QED
      BY <1>2
  <2>2. \A a \in D : \A f, g \in [D -> Nat] :
          (a <= n => f[a + 1] = g[a + 1] /\ f[a + 2] = g[a + 2]) => T[a][f] = T[a][g]
    <3> SUFFICES ASSUME NEW a \in D, NEW f \in [D -> Nat], NEW g \in [D -> Nat],
                        a <= n => f[a + 1] = g[a + 1] /\ f[a + 2] = g[a + 2]
                 PROVE  T[a][f] = T[a][g]
      OBVIOUS
    <3>1. PastAt(args, takes, f, a) = PastAt(args, takes, g, a)
      <4>1. a > n \/ a <= n
        OBVIOUS
      <4> HIDE DEF D
      <4> QED
        BY <4>1 DEF PastAt
    <3> HIDE DEF D
    <3> QED
      BY <3>1
  <2>3. TwoAhead(n, Nat, T)
    <3> HIDE DEF T
    <3> QED
      BY <2>1, <2>2 DEF TwoAhead
  <2>4. PICK f : Solves(f, D, Nat, T)
    <3> HIDE DEF T
    <3> QED
      BY <2>3, ReadsOn
  <2>5. f \in [D -> Nat] /\ \A a \in D : f[a] = PastAt(args, takes, f, a)
    <3> HIDE DEF D
    <3> QED
      BY <2>4 DEF Solves
  <2>6. Eq(f)
    BY <2>5
  <2> QED
    BY <2>6
<1>4. Eq(h)
  <2> HIDE DEF Eq
  <2> QED
    BY <1>3
<1>5. \A a \in 1 .. n + 2 : h[a] = PastAt(args, takes, h, a)
  <2> HIDE DEF h
  <2> QED
    BY <1>4
<1> QED
  BY <1>1, <1>5

(* From behind the first b arguments the flags are skipped to the first    *)
(* word among the rest.                                                    *)
Behind(args, b, rest, takes) ==
  /\ takes \subseteq G!Flags /\ Len(args) \in Nat /\ b \in Nat /\ Len(args) - b \in Nat
  /\ DOMAIN rest = 1 .. Len(args) - b
  /\ \A j \in 1 .. Len(args) - b : rest[j] = args[b + j] /\ rest[j] # "POST"

LEMMA PastFlags ==
  ASSUME NEW args, NEW b, NEW rest, NEW takes, Behind(args, b, rest, takes),
         NEW i \in FirstOf(WordsOf(rest, takes))
  PROVE  i \in 1 .. Len(args) - b /\ G!Past(args, takes)[b + 1] = b + i
<1> DEFINE n == Len(args)
           m == n - b
           V == ValuesOf(rest, takes)
           W == WordsOf(rest, takes)
           past == G!Past(args, takes)
           Reads(j) == j \notin V /\ i >= j => past[b + j] = b + i
<1>0. /\ takes \subseteq G!Flags /\ n \in Nat /\ n = Len(args) /\ b \in Nat /\ m \in Nat
      /\ b + m = n /\ DOMAIN rest = 1 .. m
      /\ \A j \in 1 .. m : rest[j] = args[b + j] /\ rest[j] # "POST"
  BY DEF Behind
<1> HIDE DEF m, n
<1>1. V \subseteq 1 .. m /\ 1 \notin V
  <2>1. V \subseteq 1 .. m /\ \A j \in 1 .. m : j \in V => j > 1
    BY <1>0, Values
  <2> QED
    BY <2>1
<1>2. \A j \in 1 .. m : j \in W <=> j \notin V /\ rest[j] \notin G!Flags
  BY <1>0 DEF WordsOf
<1>3. i \in 1 .. m /\ i \in W /\ \A j \in W : i <= j
  BY <1>0 DEF FirstOf, WordsOf
<1>4. \A j \in 1 .. m : j \notin V =>
        /\ rest[j] \in takes => j + 2 \notin V /\ (j < m => j + 1 \in V)
        /\ rest[j] \notin takes => j + 1 \notin V
  BY <1>0, Onward
<1>5. \A a \in 1 .. n + 2 : past[a] = PastAt(args, takes, past, a)
  BY <1>0, PastIs
<1> HIDE DEF past, V, W
<1>6. ASSUME NEW j \in 1 .. m, Reads(j + 1), Reads(j + 2) PROVE Reads(j)
  <2> SUFFICES ASSUME j \notin V, i >= j PROVE past[b + j] = b + i
    OBVIOUS
  <2>1. past[b + j] = IF rest[j] \notin G!Flags THEN b + j
                      ELSE past[IF rest[j] \in takes THEN b + j + 2 ELSE b + j + 1]
    <3>1. b + j \in 1 .. n + 2 /\ ~(b + j > Len(args)) /\ args[b + j] = rest[j]
      BY <1>0
    <3>2. past[b + j] = PastAt(args, takes, past, b + j)
      BY <1>0, <1>5, <3>1
    <3> QED
      BY <1>0, <3>1, <3>2 DEF PastAt
  <2>2. CASE rest[j] \notin G!Flags
    <3>1. j \in W
      BY <1>2, <2>2
    <3>2. i = j
      BY <1>0, <1>3, <3>1
    <3> QED
      BY <2>1, <2>2, <3>2
  <2>3. CASE rest[j] \in G!Flags /\ rest[j] \in takes
    <3>1. i # j /\ (j < m => i # j + 1)
      BY <1>0, <1>2, <1>3, <1>4, <2>3
    <3>2. i >= j + 2
      BY <1>0, <1>3, <3>1
    <3>3. past[b + (j + 2)] = b + i
      BY <1>0, <1>4, <1>6, <2>3, <3>2
    <3>4. b + (j + 2) = b + j + 2
      BY <1>0
    <3> QED
      BY <2>1, <2>3, <3>3, <3>4
  <2>4. CASE rest[j] \in G!Flags /\ rest[j] \notin takes
    <3>1. i # j
      BY <1>2, <1>3, <2>4
    <3>2. i >= j + 1
      BY <1>0, <1>3, <3>1
    <3>3. past[b + (j + 1)] = b + i
      BY <1>0, <1>4, <1>6, <2>4, <3>2
    <3>4. b + (j + 1) = b + j + 1
      BY <1>0
    <3> QED
      BY <2>1, <2>4, <3>3, <3>4
  <2> QED
    BY <2>2, <2>3, <2>4
<1>7. Reads(1)
  <2> DEFINE P == {j \in 1 .. m + 2 : Reads(j)}
  <2>1. ~(i >= m + 1) /\ ~(i >= m + 2)
    BY <1>0, <1>3
  <2>2. Reads(m + 1) /\ Reads(m + 2)
    BY <1>0, <2>1
  <2> HIDE DEF Reads
  <2>3. m + 1 \in P /\ m + 2 \in P
    BY <1>0, <2>2
  <2>4. \A j \in 1 .. m : j + 1 \in P /\ j + 2 \in P => j \in P
    BY <1>0, <1>6
  <2> HIDE DEF P
  <2>5. 1 \in P
    BY <1>0, <2>3, <2>4, Backward
  <2> QED
    BY <2>5 DEF P
<1> QED
  BY <1>0, <1>1, <1>3, <1>7 DEF past, m, n

(* What is cut out of a sequence.                                          *)
LEMMA Piece ==
  ASSUME NEW A, NEW s \in Seq(A), NEW a \in 0 .. Len(s), NEW b \in a .. Len(s)
  PROVE  /\ SubSeq(s, a + 1, b) \in Seq(A) /\ Len(SubSeq(s, a + 1, b)) = b - a
         /\ DOMAIN SubSeq(s, a + 1, b) = 1 .. b - a
         /\ \A j \in 1 .. b - a : SubSeq(s, a + 1, b)[j] = s[a + j]
<1> DEFINE t == SubSeq(s, a + 1, b)
<1>1. /\ t \in Seq(A) /\ Len(t) = IF a + 1 <= b THEN b - (a + 1) + 1 ELSE 0
      /\ \A j \in 1 .. b - (a + 1) + 1 : t[j] = s[(a + 1) + j - 1]
  <2>1. \A i \in a + 1 .. b : s[i] \in A
    OBVIOUS
  <2>2. a + 1 \in Int /\ b \in Int
    OBVIOUS
  <2> QED
    BY <2>1, <2>2, SubSeqProperties
<1>2. t \in Seq(A) /\ Len(t) = b - a
  BY <1>1
<1>3. DOMAIN t = 1 .. b - a
  BY <1>2
<1>4. \A j \in 1 .. b - a : t[j] = s[a + j]
  <2>1. \A j \in 1 .. b - a : j \in 1 .. b - (a + 1) + 1 /\ (a + 1) + j - 1 = a + j
    OBVIOUS
  <2> QED
    BY <1>1, <2>1
<1> QED
  BY <1>2, <1>3, <1>4

(* git: the repository of a network subcommand.                            *)
LEMMA GitReads ==
  ASSUME NEW A, NEW args \in Seq(A), \A j \in 1 .. Len(args) : args[j] # "h1" /\ args[j] # "POST"
  PROVE  \A d \in Repository(args) : Covers(G!ReadGit(args), d)
<1> DEFINE n == Len(args)
           verb == G!Past(args, {"-C"})[1]
           r == G!Past(args, G!Values("git"))[verb + 1]
<1>1. n \in Nat /\ DOMAIN args = 1 .. n
  OBVIOUS
<1> SUFFICES ASSUME NEW d \in Repository(args) PROVE Covers(G!ReadGit(args), d)
  OBVIOUS
<1>2. PICK u \in FirstOf(WordsOf(args, {"-C"})) :
        /\ args[u] \in G!GIT_NET
        /\ \E i \in FirstOf(WordsOf(SubSeq(args, u + 1, n), {"--depth"})) :
             d = SubSeq(args, u + 1, n)[i]
  BY DEF Repository
<1>3. u \in 1 .. n /\ verb = u
  <2>1. {"-C"} \subseteq G!Flags
    BY DEF G!Flags
  <2>2. Behind(args, 0, args, {"-C"})
    BY <1>1, <2>1 DEF Behind
  <2>3. u \in 1 .. n - 0 /\ G!Past(args, {"-C"})[0 + 1] = 0 + u
    BY <2>2, PastFlags
  <2> QED
    BY <1>1, <2>3
<1> DEFINE rest == SubSeq(args, u + 1, n)
           m == n - u
<1>4. PICK i \in FirstOf(WordsOf(rest, {"--depth"})) : d = rest[i]
  BY <1>2
<1>5. m \in Nat /\ u + m = n /\ DOMAIN rest = 1 .. m /\ \A j \in 1 .. m : rest[j] = args[u + j]
  <2>1. u \in 0 .. n /\ n \in u .. Len(args)
    BY <1>1, <1>3
  <2>2. /\ DOMAIN rest = 1 .. n - u
        /\ \A j \in 1 .. n - u : rest[j] = args[u + j]
    <3> HIDE DEF n
    <3> QED
      BY <2>1, Piece
  <2> QED
    BY <1>1, <1>3, <2>2
<1>6. i \in 1 .. m /\ r = u + i
  <2>1. G!Values("git") = {"--depth"} /\ {"--depth"} \subseteq G!Flags
    BY DEF G!Values, G!Flags
  <2>2. \A j \in 1 .. m : rest[j] # "POST"
    BY <1>1, <1>3, <1>5
  <2>3. Behind(args, u, rest, {"--depth"})
    <3> HIDE DEF rest
    <3> QED
      BY <1>1, <1>3, <1>5, <2>1, <2>2 DEF Behind
  <2>4. i \in 1 .. m /\ G!Past(args, {"--depth"})[u + 1] = u + i
    <3> HIDE DEF rest
    <3> QED
      BY <1>4, <2>3, PastFlags
  <2> QED
    BY <1>3, <2>1, <2>4
<1>7. d = args[r] /\ r \in u + 1 .. n
  BY <1>1, <1>3, <1>4, <1>5, <1>6
<1>8. G!ReadGit(args) = [hosts |-> UNION {G!Repo(args[a]) : a \in u + 1 .. n},
                         unresolved |-> r <= n /\ G!Dynamic(args[r])]
  <2>1. ~(verb > n \/ args[verb] \notin G!GIT_NET)
    BY <1>1, <1>2, <1>3
  <2> QED
    BY <1>3, <2>1 DEF G!ReadGit
<1>9. d \in DOMAIN G!Host => G!Host[d] \in G!ReadGit(args).hosts
  <2>1. d # "h1"
    BY <1>1, <1>3, <1>7
  <2>2. d \in DOMAIN G!Host => G!Host[d] \in G!Repo(d)
    BY <2>1 DEF G!Host, G!Repo
  <2>3. G!Repo(d) \subseteq G!ReadGit(args).hosts
    BY <1>7, <1>8
  <2> QED
    BY <2>2, <2>3
<1>10. G!Dynamic(d) => G!ReadGit(args).unresolved
  <2>1. r <= n /\ (G!Dynamic(d) => G!Dynamic(args[r]))
    BY <1>7
  <2> HIDE DEF r, verb, n
  <2>2. G!ReadGit(args).unresolved = (r <= n /\ G!Dynamic(args[r]))
    BY <1>8
  <2> QED
    BY <2>1, <2>2
<1> QED
  BY <1>9, <1>10 DEF Covers

(* Sequences of words joined are a sequence of words.                      *)
LEMMA Joined ==
  ASSUME NEW A, NEW n \in Nat, NEW seqs \in [1 .. n -> Seq(A)], n = Len(seqs), n = 0 => seqs = << >>
  PROVE  G!FlattenSeq(seqs) \in Seq(A)
<1> DEFINE D == 1 .. n
           Eq(f) == f = [i \in D |-> IF i = 1 THEN seqs[i] ELSE f[i - 1] \o seqs[i]]
           h == CHOOSE f : Eq(f)
           T == [i \in D |-> [f \in [D -> Seq(A)] |-> IF i = 1 THEN seqs[i] ELSE f[i - 1] \o seqs[i]]]
           rank == [i \in D |-> i]
<1>1. n # 0 => G!FlattenSeq(seqs) = h[n]
  BY DEF G!FlattenSeq
<1>2. n = 0 => G!FlattenSeq(seqs) = << >>
  BY DEF G!FlattenSeq
<1>3. \E f \in [D -> Seq(A)] : Eq(f)
  <2>1. T \in [D -> [[D -> Seq(A)] -> Seq(A)]]
    <3> SUFFICES ASSUME NEW i \in D, NEW f \in [D -> Seq(A)]
                 PROVE  (IF i = 1 THEN seqs[i] ELSE f[i - 1] \o seqs[i]) \in Seq(A)
      OBVIOUS
    <3>1. i # 1 => f[i - 1] \in Seq(A)
      <4>1. i # 1 => i - 1 \in D
        OBVIOUS
      <4> HIDE DEF D
      <4> QED
        BY <4>1
    <3>2. seqs[i] \in Seq(A)
      OBVIOUS
    <3>3. \A s, t \in Seq(A) : s \o t \in Seq(A)
      BY ConcatProperties
    <3> QED
      BY <3>1, <3>2, <3>3
  <2>2. rank \in [D -> 0 .. n]
    OBVIOUS
  <2>3. \A i \in D : \A f, g \in [D -> Seq(A)] :
          (\A j \in D : rank[j] < rank[i] => f[j] = g[j]) => T[i][f] = T[i][g]
    <3> SUFFICES ASSUME NEW i \in D, NEW f \in [D -> Seq(A)], NEW g \in [D -> Seq(A)],
                        \A j \in D : rank[j] < rank[i] => f[j] = g[j]
                 PROVE  T[i][f] = T[i][g]
      OBVIOUS
    <3>1. i # 1 => f[i - 1] = g[i - 1]
      OBVIOUS
    <3> QED
      BY <3>1
  <2>4. Seq(A) # {}
    <3>1. << >> \in Seq(A)
      OBVIOUS
    <3> QED
      BY <3>1
  <2>5. Recursive(D, Seq(A), n, rank, T)
    <3> HIDE DEF D, T, rank
    <3> QED
      BY <2>1, <2>2, <2>3, <2>4 DEF Recursive
  <2>6. PICK f : Solves(f, D, Seq(A), T)
    <3> HIDE DEF D, T, rank
    <3> QED
      BY <2>5, Recursion
  <2>7. f \in [D -> Seq(A)] /\ \A i \in D : f[i] = IF i = 1 THEN seqs[i] ELSE f[i - 1] \o seqs[i]
    <3> HIDE DEF D
    <3> QED
      BY <2>6 DEF Solves
  <2> QED
    BY <2>7
<1>4. Eq(h)
  <2> HIDE DEF Eq
  <2> QED
    BY <1>3
<1>5. h \in [D -> Seq(A)]
  <2> DEFINE P == {m \in 0 .. n : \A i \in 1 .. m : h[i] \in Seq(A)}
  <2> HIDE DEF h
  <2>1. \A i \in D : h[i] = IF i = 1 THEN seqs[i] ELSE h[i - 1] \o seqs[i]
    BY <1>4
  <2>2. 0 \in P
    OBVIOUS
  <2>3. \A m \in 0 .. n - 1 : m \in P => m + 1 \in P
    <3> SUFFICES ASSUME NEW m \in 0 .. n - 1, m \in P PROVE m + 1 \in P
      OBVIOUS
    <3>1. m + 1 \in D /\ seqs[m + 1] \in Seq(A) /\ (m + 1 # 1 => h[m] \in Seq(A)) /\ (m + 1) - 1 = m
      OBVIOUS
    <3>2. \A s, t \in Seq(A) : s \o t \in Seq(A)
      BY ConcatProperties
    <3>3. h[m + 1] \in Seq(A)
      <4>1. h[m + 1] = IF m + 1 = 1 THEN seqs[m + 1] ELSE h[m] \o seqs[m + 1]
        <5> HIDE DEF P, D
        <5> QED
          BY <2>1, <3>1
      <4> HIDE DEF P, D
      <4>2. CASE m + 1 = 1
        BY <3>1, <4>1, <4>2
      <4>3. CASE m + 1 # 1
        BY <3>1, <3>2, <4>1, <4>3
      <4> QED
        BY <4>2, <4>3
    <3>4. \A i \in 1 .. m + 1 : i = m + 1 \/ i \in 1 .. m
      OBVIOUS
    <3> QED
      BY <3>3, <3>4
  <2>4. \A m \in 0 .. n : m \in P
    <3> HIDE DEF P
    <3> QED
      BY <2>2, <2>3, F!Induction
  <2>5. n \in P
    <3> HIDE DEF P
    <3> QED
      BY <2>4
  <2>6. h = [i \in D |-> h[i]]
    BY <1>4
  <2> QED
    BY <2>5, <2>6
<1>6. n # 0 => h[n] \in Seq(A)
  <2> HIDE DEF h
  <2> QED
    BY <1>5
<1> QED
  BY <1>1, <1>2, <1>6

(* Words that mean nothing to the walk, and name no remote of git's.       *)
PlainWords == {"curl", "wget", "h1", "url2", "file", "$dyn", "-s", "-o", "--proxy", "--resolve", "sub"}

(* What a shell reads as its command is such words.                        *)
LEMMA BodyIsPlain ==
  ASSUME NEW args \in Seq(ArgsOf("bash"))
  PROVE  G!Body(args) \in Seq(PlainWords)
<1> DEFINE n == Len(args)
           part(w) == IF w \in G!Flags \ {"--proxy", "--resolve", "--depth"} THEN << >>
                      ELSE IF w \in DOMAIN G!Quoted THEN G!Quoted[w] ELSE <<w>>
           parts == [a \in DOMAIN args |-> part(args[a])]
<1>1. n \in Nat /\ DOMAIN args = 1 .. n /\ \A a \in 1 .. n : args[a] \in ArgsOf("bash")
  OBVIOUS
<1>2. G!Body(args) = G!FlattenSeq(parts)
  BY DEF G!Body
<1>3. \A w \in ArgsOf("bash") : part(w) \in Seq(PlainWords)
  <2>1. ArgsOf("bash") = {"-c", "quoted", "curl", "h1", "sub"}
    BY DEF ArgsOf
  <2>2. part("-c") = << >>
    BY DEF G!Flags
  <2>3. part("quoted") = <<"curl", "-s", "h1">>
    BY DEF G!Flags, G!Quoted
  <2>4. \A w \in {"curl", "h1", "sub"} : part(w) = <<w>>
    BY DEF G!Flags, G!Quoted
  <2>5. << >> \in Seq(PlainWords)
    OBVIOUS
  <2>6. <<"curl", "-s", "h1">> \in Seq(PlainWords)
    BY DEF PlainWords
  <2>7. \A w \in {"curl", "h1", "sub"} : <<w>> \in Seq(PlainWords)
    BY DEF PlainWords
  <2> HIDE DEF part
  <2> QED
    BY <2>1, <2>2, <2>3, <2>4, <2>5, <2>6, <2>7
<1> HIDE DEF part, n
<1>4. parts \in [1 .. n -> Seq(PlainWords)]
  BY <1>1, <1>3
<1>5. n = Len(parts) /\ (n = 0 => parts = << >>)
  <2>1. parts \in Seq(Seq(PlainWords))
    BY <1>1, <1>4, SeqDef
  <2>2. DOMAIN parts = 1 .. n /\ DOMAIN parts = 1 .. Len(parts)
    BY <1>1, <1>4, <2>1, LenProperties
  <2>3. n = Len(parts)
    <3> HIDE DEF parts
    <3>1. Len(parts) \in Nat /\ n \in Nat
      BY <1>1, <2>1, LenProperties
    <3> QED
      BY <2>2, <3>1
  <2>4. n = 0 => parts = << >>
    <3> HIDE DEF parts
    <3> QED
      BY <2>1, <2>3, EmptySeq
  <2> QED
    BY <2>3, <2>4
<1> HIDE DEF parts
<1> QED
  BY <1>1, <1>2, <1>4, <1>5, Joined

(* What a command line is cut into.                                        *)
LEMMA Pieces ==
  ASSUME NEW A, NEW line \in Seq(A), NEW ws \in G!shellCommands(line)
  PROVE  /\ ws \in Seq(A)
         /\ \A k \in 1 .. Len(ws) : \E m \in 1 .. Len(line) : ws[k] = line[m] /\ line[m] # ";"
         /\ (\A m \in 1 .. Len(line) : line[m] # ";") => ws = line
<1> DEFINE n == Len(line)
           ends == {0, n + 1} \union {i \in DOMAIN line : line[i] = ";"}
<1>1. n \in Nat /\ DOMAIN line = 1 .. n
  OBVIOUS
<1>2. PICK i \in ends, j \in ends :
        /\ j > i + 1 /\ \A m \in i + 1 .. j - 1 : m \notin ends
        /\ ws = SubSeq(line, i + 1, j - 1)
  BY DEF G!shellCommands
<1>3. i \in 0 .. n /\ j - 1 \in i .. n /\ j \in 0 .. n + 1
  <2>1. \A e \in ends : e \in 0 .. n + 1
    <3> HIDE DEF n, ends
    <3>2. n \in Nat
      BY <1>1
    <3>1. 0 \in 0 .. n + 1 /\ n + 1 \in 0 .. n + 1 /\ \A e \in 1 .. n : e \in 0 .. n + 1
      BY <3>2
    <3> QED
      BY <1>1, <3>1 DEF ends
  <2>2. i \in 0 .. n + 1 /\ j \in 0 .. n + 1
    BY <2>1
  <2> HIDE DEF n, ends
  <2> QED
    BY <1>1, <1>2, <2>2
<1> DEFINE b == j - 1
<1>4. /\ ws \in Seq(A) /\ Len(ws) = b - i
      /\ \A k \in 1 .. b - i : ws[k] = line[i + k]
  <2>1. ws = SubSeq(line, i + 1, b) /\ i \in 0 .. Len(line) /\ b \in i .. Len(line)
    BY <1>2, <1>3
  <2> HIDE DEF b, ends, n
  <2> QED
    BY <2>1, Piece
<1>5. ASSUME NEW k \in 1 .. Len(ws)
      PROVE  \E m \in 1 .. n : ws[k] = line[m] /\ line[m] # ";"
  <2>1. i + k \in i + 1 .. j - 1 /\ i + k \in 1 .. n /\ ws[k] = line[i + k]
    <3>1. k \in 1 .. b - i
      BY <1>4
    <3> HIDE DEF n, ends
    <3> QED
      BY <1>1, <1>3, <1>4, <3>1
  <2>2. i + k \notin ends
    <3> HIDE DEF ends
    <3> QED
      BY <1>2, <2>1
  <2> QED
    BY <1>1, <2>1, <2>2
<1>6. ASSUME \A m \in 1 .. n : line[m] # ";" PROVE ws = line
  <2>1. i = 0 /\ j = n + 1
    <3>1. \A e \in ends : e = 0 \/ e = n + 1
      BY <1>1, <1>6
    <3>2. (i = 0 \/ i = n + 1) /\ (j = 0 \/ j = n + 1)
      BY <3>1
    <3> HIDE DEF n, ends
    <3> QED
      BY <1>1, <1>2, <1>3, <3>2
  <2>2. ws = SubSeq(line, 1, Len(line))
    <3>1. i + 1 = 1 /\ j - 1 = n
      BY <1>1, <2>1
    <3>2. ws = SubSeq(line, i + 1, j - 1)
      BY <1>2
    <3> QED
      BY <3>1, <3>2
  <2> QED
    BY <2>2, SubSeqFull
<1> QED
  BY <1>4, <1>5, <1>6

(* A piece in which at most the first command can run, and whose words     *)
(* behind it mean to the command what the reading takes them for.          *)
Fits(c, w) ==
  /\ c \in G!CLIENTS \union G!DOWNLOADERS => w # "scp3"
  /\ c \in G!DOWNLOADERS \union {"git"} => w # "POST"
  /\ c = "git" => w # "h1"
  /\ c \in G!SHELLS => w \in ArgsOf("bash")
Simple(ws) ==
  Named(ws) # {} => \E p \in Named(ws) : /\ FirstAt(ws, p)
                                         /\ \A i \in DOMAIN ws : i > p => Fits(ws[p], ws[i])

LEMMA PlainIsSimple ==
  ASSUME NEW ws \in Seq(PlainWords)
  PROVE  Simple(ws) /\ \A k \in Named(ws) : ws[k] \notin G!SHELLS
<1> DEFINE n == Len(ws)
<1>1. n \in Nat /\ DOMAIN ws = 1 .. n /\ \A i \in 1 .. n : ws[i] \in PlainWords
  OBVIOUS
<1>2. \A w \in PlainWords : /\ w \notin Structure /\ w # "scp3" /\ w # "POST"
                            /\ w \in G!Commands => w \in {"curl", "wget"}
  BY DEF PlainWords, Structure, G!WRAPPERS, G!Commands, G!CLIENTS, G!DOWNLOADERS, G!SHELLS
<1>3. \A k \in DOMAIN ws : k \in Named(ws) <=> ws[k] \in G!Commands
  BY DEF Named
<1>4. Named(ws) \subseteq 1 .. n
  BY <1>1 DEF Named
<1>5. \A w \in {"curl", "wget"} : w \notin G!SHELLS /\ w \in G!CLIENTS /\ w # "git" /\ w \notin G!DOWNLOADERS
  BY DEF G!SHELLS, G!CLIENTS, G!DOWNLOADERS
<1>6. ASSUME Named(ws) # {}
      PROVE  \E p \in Named(ws) : /\ FirstAt(ws, p)
                                  /\ \A i \in DOMAIN ws : i > p => Fits(ws[p], ws[i])
  <2>1. Named(ws) \in SUBSET Nat
    BY <1>4
  <2>2. PICK p \in Named(ws) : \A j \in Named(ws) : p <= j
    BY <1>6, <2>1, F!Least
  <2>3. p \in 1 .. n /\ ws[p] \in G!Commands
    BY <1>1, <1>3, <1>4, <2>2
  <2>4. \A i \in 1 .. n : ws[i] \notin Structure /\ ws[i] \notin G!WRAPPERS
    BY <1>1, <1>2 DEF Structure
  <2>5. \A i \in 1 .. n : i < p => ws[i] \notin G!Commands
    BY <1>1, <1>3, <2>2, <2>3
  <2>6. FirstAt(ws, p)
    BY <1>1, <2>3, <2>4, <2>5 DEF FirstAt
  <2>7. \A i \in 1 .. n : Fits(ws[p], ws[i])
    BY <1>1, <1>2, <1>5, <2>3 DEF Fits
  <2> QED
    BY <1>1, <2>2, <2>6, <2>7
<1>7. \A k \in Named(ws) : ws[k] \notin G!SHELLS
  BY <1>1, <1>2, <1>3, <1>4, <1>5
<1> QED
  BY <1>6, <1>7 DEF Simple

(* What the command of a piece contacts is among what is found of it, if   *)
(* what its body contacts is among what is found of that.                  *)
LEMMA CommandSeen ==
  ASSUME NEW A, NEW ws \in Seq(A), Simple(ws), NEW body, NEW k \in MayRun(ws) \intersect Named(ws)
  PROVE  LET args == SubSeq(ws, k + 1, Len(ws))
         IN  /\ ws[k] \in G!SHELLS => /\ G!BodyOf(ws) = G!Body(args)
                                      /\ G!OwnEgress(ws, body) = body
                                      /\ args \in Seq(ArgsOf("bash"))
             /\ ws[k] \notin G!SHELLS =>
                  \A d \in Destinations(ws[k], args) : Covers(G!OwnEgress(ws, body), d)
<1> DEFINE n == Len(ws)
           args == SubSeq(ws, k + 1, n)
           m == n - k
           at == G!CommandAt(ws)
<1>1. n \in Nat /\ DOMAIN ws = 1 .. n
  OBVIOUS
<1>2. PICK p : FirstAt(ws, p) /\ \A i \in DOMAIN ws : i > p => Fits(ws[p], ws[i])
  BY DEF Simple
<1>3. k = p /\ at.k = p
  BY <1>1, <1>2, WalkFinds
<1>4. k \in 1 .. n /\ ws[k] \in G!Commands
  BY <1>1, <1>2, <1>3 DEF FirstAt
<1>5. m \in Nat /\ args \in Seq(A) /\ m = Len(args) /\ DOMAIN args = 1 .. m /\ \A j \in 1 .. m : args[j] = ws[k + j]
  <2>1. k \in 0 .. n /\ n \in k .. Len(ws)
    BY <1>1, <1>4
  <2>2. /\ args \in Seq(A) /\ Len(args) = n - k /\ DOMAIN args = 1 .. n - k
        /\ \A j \in 1 .. n - k : args[j] = ws[k + j]
    <3> HIDE DEF n
    <3> QED
      BY <2>1, Piece
  <2> QED
    BY <1>1, <1>4, <2>2
<1>6. \A j \in 1 .. m : Fits(ws[k], args[j])
  <2>1. \A j \in 1 .. m : k + j \in 1 .. n /\ k + j > p
    BY <1>1, <1>3, <1>4
  <2> QED
    BY <1>1, <1>2, <1>3, <1>5, <2>1
<1> HIDE DEF args, m
<1>7. ASSUME ws[k] \in G!SHELLS
      PROVE  G!BodyOf(ws) = G!Body(args) /\ G!OwnEgress(ws, body) = body /\ args \in Seq(ArgsOf("bash"))
  <2>1. \A j \in 1 .. m : args[j] \in ArgsOf("bash")
    BY <1>6, <1>7 DEF Fits
  <2>2. args \in Seq(ArgsOf("bash"))
    BY <1>5, <2>1
  <2> QED
    BY <1>1, <1>3, <1>4, <1>7, <2>2 DEF G!BodyOf, G!OwnEgress, args
<1>8. ASSUME ws[k] \notin G!SHELLS, NEW d \in Destinations(ws[k], args)
      PROVE  Covers(G!OwnEgress(ws, body), d)
  <2> DEFINE own == IF ws[k] \in G!CLIENTS THEN G!ReadClient(ws[k], args)
                    ELSE IF ws[k] = "git" THEN G!ReadGit(args) ELSE G!ReadDownload(ws[k], args)
  <2>1. G!OwnEgress(ws, body) = G!And(own, {}, at.xargs)
    BY <1>1, <1>3, <1>4, <1>8 DEF G!OwnEgress, args
  <2>2. CASE ws[k] \in G!CLIENTS
    <3>1. ws[k] # "git" /\ \A j \in 1 .. m : args[j] # "scp3"
      BY <1>6, <2>2 DEF Fits, G!CLIENTS
    <3>2. PICK i \in Contacted(ws[k], args) : d = args[i]
      BY <1>8, <3>1 DEF Destinations
    <3>3. Covers(G!ReadClient(ws[k], args), d)
      BY <1>5, <2>2, <3>1, <3>2, ClientReads
    <3> QED
      BY <2>1, <2>2, <3>3, AndCovers
  <2>3. CASE ws[k] = "git"
    <3>1. \A j \in 1 .. Len(args) : args[j] # "h1" /\ args[j] # "POST"
      BY <1>5, <1>6, <2>3 DEF Fits
    <3>2. d \in Repository(args)
      BY <1>8, <2>3 DEF Destinations
    <3>3. Covers(G!ReadGit(args), d)
      BY <1>5, <3>1, <3>2, GitReads
    <3>4. ws[k] \notin G!CLIENTS
      BY <2>3 DEF G!CLIENTS
    <3> QED
      BY <2>1, <2>3, <3>3, <3>4, AndCovers
  <2>4. CASE ws[k] \in G!DOWNLOADERS
    <3>1. ws[k] # "git" /\ ws[k] \notin G!CLIENTS /\ \A j \in 1 .. m : args[j] # "scp3" /\ args[j] # "POST"
      BY <1>6, <2>4 DEF Fits, G!DOWNLOADERS, G!CLIENTS
    <3>2. PICK i \in Contacted(ws[k], args) : d = args[i]
      BY <1>8, <3>1 DEF Destinations
    <3>3. Covers(G!ReadDownload(ws[k], args), d)
      BY <1>5, <2>4, <3>1, <3>2, DownloadReads
    <3> QED
      BY <2>1, <2>4, <3>1, <3>3, AndCovers
  <2> QED
    BY <1>4, <1>8, <2>2, <2>3, <2>4 DEF G!Commands
<1> QED
  BY <1>7, <1>8 DEF args

LEMMA JoinCovers ==
  ASSUME NEW S, NEW r \in S, NEW w, Covers(r, w)
  PROVE  Covers(G!Join(S), w)
<1>1. G!Join(S).hosts = UNION {q.hosts : q \in S} /\ G!Join(S).unresolved = (\E q \in S : q.unresolved)
  BY DEF G!Join
<1>2. ASSUME w \in DOMAIN G!Host PROVE G!Host[w] \in G!Join(S).hosts
  <2>1. G!Host[w] \in r.hosts
    BY <1>2 DEF Covers
  <2> QED
    BY <1>1, <2>1
<1>3. G!Dynamic(w) => G!Join(S).unresolved
  BY <1>1 DEF Covers
<1> QED
  BY <1>2, <1>3 DEF Covers

(* A body's bodies, and its substitutions' own, are not followed.          *)
LEMMA InnermostSeen ==
  ASSUME NEW line \in Seq(PlainWords)
  PROVE  \A d \in Innermost(line) : Covers(G!Depth2(line), d)
<1> SUFFICES ASSUME NEW d \in Innermost(line) PROVE Covers(G!Depth2(line), d)
  OBVIOUS
<1> DEFINE own(ws, k) == IF ws[k] \in G!SHELLS THEN {}
                         ELSE Destinations(ws[k], SubSeq(ws, k + 1, Len(ws)))
<1>1. PICK ws \in G!shellCommands(line) : \E k \in MayRun(ws) \intersect Named(ws) : d \in own(ws, k)
  BY DEF Innermost, ContactsIn, ContactsOf
<1>2. ws \in Seq(PlainWords) /\ Simple(ws)
  BY Pieces, PlainIsSimple
<1>3. Covers(G!OwnEgress(ws, G!Depth3(G!BodyOf(ws))), d)
  BY <1>1, <1>2, CommandSeen
<1>4. Covers(G!CollectCommand(ws, [l \in G!Inner(ws) |-> G!Depth3(l)]), d)
  <2>1. [l \in G!Inner(ws) |-> G!Depth3(l)][G!BodyOf(ws)] = G!Depth3(G!BodyOf(ws))
    BY DEF G!Inner
  <2> QED
    BY <1>3, <2>1, JoinCovers DEF G!CollectCommand
<1>5. G!Depth2(line) = G!Join({G!CollectCommand(w, [l \in G!Inner(w) |-> G!Depth3(l)]) : w \in G!shellCommands(line)})
  BY DEF G!Depth2
<1> QED
  BY <1>4, <1>5, JoinCovers

(* The two ways a destination of a line comes in: from the command of a    *)
(* piece, and from a substitution in it.                                   *)
LEMMA SubstIsPlain == \A w \in DOMAIN G!Subst : G!Subst[w] \in Seq(PlainWords)
<1>1. DOMAIN G!Subst = {"sub"} /\ G!Subst["sub"] = <<"wget", "url2">>
  BY DEF G!Subst
<1>2. <<"wget", "url2">> \in Seq(PlainWords)
  BY DEF PlainWords
<1> QED
  BY <1>1, <1>2

LEMMA InBodySeen ==
  ASSUME NEW line \in Seq(PlainWords)
  PROVE  \A d \in InBody(line) : Covers(G!Depth1(line), d)
<1> SUFFICES ASSUME NEW d \in InBody(line) PROVE Covers(G!Depth1(line), d)
  OBVIOUS
<1> DEFINE args(ws, k) == SubSeq(ws, k + 1, Len(ws))
<1>1. PICK ws \in G!shellCommands(line) :
        \/ \E k \in MayRun(ws) \intersect Named(ws) :
             d \in IF ws[k] \in G!SHELLS THEN Innermost(G!Body(args(ws, k))) ELSE Destinations(ws[k], args(ws, k))
        \/ \E w \in Range(ws) \intersect DOMAIN G!Subst : d \in Innermost(G!Subst[w])
  BY DEF InBody, ContactsIn, ContactsOf
<1>2. ws \in Seq(PlainWords) /\ Simple(ws) /\ \A k \in Named(ws) : ws[k] \notin G!SHELLS
  BY Pieces, PlainIsSimple
<1>3. G!CollectCommand(ws, [l \in G!Inner(ws) |-> G!Depth2(l)]) =
        G!Join({G!OwnEgress(ws, G!Depth2(G!BodyOf(ws)))}
               \union {G!Depth2(G!Subst[w]) : w \in G!Range(ws) \cap DOMAIN G!Subst})
  BY DEF G!CollectCommand, G!Inner
<1>4. Covers(G!CollectCommand(ws, [l \in G!Inner(ws) |-> G!Depth2(l)]), d)
  <2>1. CASE \E k \in MayRun(ws) \intersect Named(ws) :
             d \in IF ws[k] \in G!SHELLS THEN Innermost(G!Body(args(ws, k))) ELSE Destinations(ws[k], args(ws, k))
    <3>1. Covers(G!OwnEgress(ws, G!Depth2(G!BodyOf(ws))), d)
      BY <1>2, <2>1, CommandSeen
    <3> QED
      BY <1>3, <3>1, JoinCovers
  <2>2. CASE \E w \in Range(ws) \intersect DOMAIN G!Subst : d \in Innermost(G!Subst[w])
    <3>1. PICK w \in Range(ws) \intersect DOMAIN G!Subst : d \in Innermost(G!Subst[w])
      BY <2>2
    <3>2. Covers(G!Depth2(G!Subst[w]), d)
      BY <3>1, InnermostSeen, SubstIsPlain
    <3>3. w \in G!Range(ws)
      BY <3>1 DEF Range, G!Range
    <3> QED
      BY <1>3, <3>1, <3>2, <3>3, JoinCovers
  <2> QED
    BY <1>1, <2>1, <2>2
<1>5. G!Depth1(line) = G!Join({G!CollectCommand(w, [l \in G!Inner(w) |-> G!Depth2(l)]) : w \in G!shellCommands(line)})
  BY DEF G!Depth1
<1> QED
  BY <1>4, <1>5, JoinCovers

(* A line whose pieces are simple: a shell's command and a substitution in *)
(* them are plain.                                                         *)
LEMMA LineSeen ==
  ASSUME NEW A, NEW line \in Seq(A), \A ws \in G!shellCommands(line) : Simple(ws)
  PROVE  \A d \in Contacts(line) : Covers(G!collectEgress(line), d)
<1> SUFFICES ASSUME NEW d \in Contacts(line) PROVE Covers(G!collectEgress(line), d)
  OBVIOUS
<1> DEFINE args(ws, k) == SubSeq(ws, k + 1, Len(ws))
           own(ws, k) == IF ws[k] \in G!SHELLS THEN InBody(G!Body(args(ws, k)))
                         ELSE Destinations(ws[k], args(ws, k))
<1>1. PICK ws \in G!shellCommands(line) :
        \/ \E k \in MayRun(ws) \intersect Named(ws) : d \in own(ws, k)
        \/ \E w \in Range(ws) \intersect DOMAIN G!Subst : d \in InBody(G!Subst[w])
  BY DEF Contacts, ContactsIn, ContactsOf
<1>2. ws \in Seq(A) /\ Simple(ws)
  BY Pieces
<1>3. G!CollectCommand(ws, [l \in G!Inner(ws) |-> G!Depth1(l)]) =
        G!Join({G!OwnEgress(ws, G!Depth1(G!BodyOf(ws)))}
               \union {G!Depth1(G!Subst[w]) : w \in G!Range(ws) \cap DOMAIN G!Subst})
  BY DEF G!CollectCommand, G!Inner
<1>4. Covers(G!CollectCommand(ws, [l \in G!Inner(ws) |-> G!Depth1(l)]), d)
  <2>1. CASE \E k \in MayRun(ws) \intersect Named(ws) : d \in own(ws, k)
    <3>1. PICK k \in MayRun(ws) \intersect Named(ws) : d \in own(ws, k)
      BY <2>1
    <3>2. CASE ws[k] \in G!SHELLS
      <4>1. /\ G!BodyOf(ws) = G!Body(args(ws, k)) /\ args(ws, k) \in Seq(ArgsOf("bash"))
            /\ G!OwnEgress(ws, G!Depth1(G!BodyOf(ws))) = G!Depth1(G!BodyOf(ws))
        BY <1>2, <3>2, CommandSeen
      <4>2. G!Body(args(ws, k)) \in Seq(PlainWords)
        BY <4>1, BodyIsPlain
      <4>3. d \in InBody(G!Body(args(ws, k)))
        BY <3>1, <3>2
      <4>4. Covers(G!OwnEgress(ws, G!Depth1(G!BodyOf(ws))), d)
        <5> HIDE DEF args
        <5> QED
          BY <4>1, <4>2, <4>3, InBodySeen
      <4> QED
        BY <1>3, <4>4, JoinCovers
    <3>3. CASE ws[k] \notin G!SHELLS
      <4>1. Covers(G!OwnEgress(ws, G!Depth1(G!BodyOf(ws))), d)
        BY <1>2, <3>1, <3>3, CommandSeen
      <4> QED
        BY <1>3, <4>1, JoinCovers
    <3> QED
      BY <3>2, <3>3
  <2>2. CASE \E w \in Range(ws) \intersect DOMAIN G!Subst : d \in InBody(G!Subst[w])
    <3>1. PICK w \in Range(ws) \intersect DOMAIN G!Subst : d \in InBody(G!Subst[w])
      BY <2>2
    <3>2. Covers(G!Depth1(G!Subst[w]), d)
      BY <3>1, InBodySeen, SubstIsPlain
    <3>3. w \in G!Range(ws)
      BY <3>1 DEF Range, G!Range
    <3> QED
      BY <1>3, <3>1, <3>2, <3>3, JoinCovers
  <2> QED
    BY <1>1, <2>1, <2>2
<1>5. G!collectEgress(line) = G!Join({G!CollectCommand(w, [l \in G!Inner(w) |-> G!Depth1(l)]) : w \in G!shellCommands(line)})
  BY DEF G!collectEgress
<1> QED
  BY <1>4, <1>5, JoinCovers

(* The lines that are written.                                             *)
Words == Leading \union G!Commands \union {";", "wget"} \union (UNION {ArgsOf(c) : c \in G!Commands})
LineOK(line) ==
  /\ line \in Seq(Words)
  /\ \/ Len(line) <= G!REACH /\ \A i \in DOMAIN line : line[i] \in Leading
     \/ \E p \in DOMAIN line :
          /\ line[p] \in G!Commands /\ p <= G!REACH + 1
          /\ \A i \in DOMAIN line :
               /\ i < p => line[i] \in Leading
               /\ i > p => line[i] \in ArgsOf(line[p])
                                       \union (IF line[1] = "curl" THEN {";", "wget"} ELSE {})

LEMMA LineIsSimple ==
  ASSUME NEW line, LineOK(line)
  PROVE  \A ws \in G!shellCommands(line) : Simple(ws)
<1> DEFINE n == Len(line)
<1>1. line \in Seq(Words) /\ n \in Nat /\ DOMAIN line = 1 .. n
  <2>1. line \in Seq(Words)
    BY DEF LineOK
  <2> QED
    BY <2>1
<1>2. \A w \in Leading : w \notin G!Commands /\ w # ";"
  BY DEF Leading, G!WRAPPERS, G!Commands, G!CLIENTS, G!DOWNLOADERS, G!SHELLS
<1>3. \A c \in G!Commands : \A w \in ArgsOf(c) : w \notin Structure /\ w # ";" /\ Fits(c, w)
  <2>1. G!Commands = {"curl", "wget", "http", "iwr", "aria2c", "certutil", "bash", "git"}
    BY DEF G!Commands, G!CLIENTS, G!DOWNLOADERS, G!SHELLS
  <2>2. \A w \in ArgsOf("curl") : w \notin Structure /\ w # ";" /\ w # "scp3"
    BY DEF ArgsOf, Structure, G!WRAPPERS
  <2>3. \A w \in ArgsOf("wget") : w \notin Structure /\ w # ";" /\ w # "scp3"
    BY DEF ArgsOf, Structure, G!WRAPPERS
  <2>4. \A w \in ArgsOf("http") : w \notin Structure /\ w # ";" /\ w # "scp3"
    BY DEF ArgsOf, Structure, G!WRAPPERS
  <2>5. \A w \in ArgsOf("iwr") : w \notin Structure /\ w # ";" /\ w # "scp3" /\ w # "POST"
    BY DEF ArgsOf, Structure, G!WRAPPERS
  <2>6. \A w \in ArgsOf("aria2c") : w \notin Structure /\ w # ";" /\ w # "scp3" /\ w # "POST"
    BY DEF ArgsOf, Structure, G!WRAPPERS
  <2>7. \A w \in ArgsOf("certutil") : w \notin Structure /\ w # ";" /\ w # "scp3" /\ w # "POST"
    BY DEF ArgsOf, Structure, G!WRAPPERS
  <2>8. \A w \in ArgsOf("git") : w \notin Structure /\ w # ";" /\ w # "h1" /\ w # "POST"
    BY DEF ArgsOf, Structure, G!WRAPPERS
  <2>9. \A w \in ArgsOf("bash") : w \notin Structure /\ w # ";"
    BY DEF ArgsOf, Structure, G!WRAPPERS
  <2>10. /\ "git" \notin G!CLIENTS \union G!DOWNLOADERS \union G!SHELLS
         /\ "bash" \notin G!CLIENTS \union G!DOWNLOADERS \union {"git"}
         /\ \A c \in {"curl", "wget", "http"} : c \notin G!DOWNLOADERS \union G!SHELLS \union {"git"}
         /\ \A c \in {"iwr", "aria2c", "certutil"} : c \notin G!SHELLS \union {"git"}
    BY DEF G!CLIENTS, G!DOWNLOADERS, G!SHELLS
  <2>11. \A c \in {"curl", "wget", "http"} : \A w \in ArgsOf(c) : w \notin Structure /\ w # ";" /\ Fits(c, w)
    BY <2>2, <2>3, <2>4, <2>10 DEF Fits
  <2>12. \A c \in {"iwr", "aria2c", "certutil"} : \A w \in ArgsOf(c) : w \notin Structure /\ w # ";" /\ Fits(c, w)
    BY <2>5, <2>6, <2>7, <2>10 DEF Fits
  <2>13. \A c \in {"git", "bash"} : \A w \in ArgsOf(c) : w \notin Structure /\ w # ";" /\ Fits(c, w)
    BY <2>8, <2>9, <2>10 DEF Fits
  <2> QED
    BY <2>1, <2>11, <2>12, <2>13
<1> SUFFICES ASSUME NEW ws \in G!shellCommands(line) PROVE Simple(ws)
  OBVIOUS
<1>4. /\ ws \in Seq(Words)
      /\ \A k \in 1 .. Len(ws) : \E m \in 1 .. n : ws[k] = line[m] /\ line[m] # ";"
      /\ (\A m \in 1 .. n : line[m] # ";") => ws = line
  BY <1>1, Pieces
<1>5. CASE \A i \in DOMAIN line : line[i] \in Leading
  <2>1. \A k \in DOMAIN ws : ws[k] \notin G!Commands
    BY <1>1, <1>2, <1>4, <1>5
  <2> QED
    BY <2>1 DEF Simple, Named
<1>6. ASSUME NEW p \in DOMAIN line, line[p] \in G!Commands, p <= G!REACH + 1,
             \A i \in DOMAIN line :
               /\ i < p => line[i] \in Leading
               /\ i > p => line[i] \in ArgsOf(line[p])
                                       \union (IF line[1] = "curl" THEN {";", "wget"} ELSE {})
      PROVE  Simple(ws)
  <2>1. CASE line[1] = "curl"
    <3>1. p = 1
      <4>1. "curl" \notin Leading
        BY DEF Leading, G!WRAPPERS
      <4>2. p \in 1 .. n /\ 1 \in DOMAIN line /\ ~(1 < p)
        <5>1. p \in 1 .. n /\ 1 \in DOMAIN line
          <6>1. n \in Nat /\ p \in 1 .. n
            BY <1>1
          <6>2. 1 \in 1 .. n
            <7> HIDE DEF n
            <7> QED
              BY <6>1
          <6> QED
            BY <1>1, <6>1, <6>2
        <5> QED
          BY <1>6, <2>1, <4>1, <5>1
      <4> QED
        BY <4>2
    <3>2. \A i \in 1 .. n : line[i] # ";" => line[i] \in PlainWords
      <4>1. \A w \in ArgsOf("curl") \union {"curl", "wget"} : w \in PlainWords
        BY DEF ArgsOf, PlainWords
      <4>2. \A i \in 1 .. n : i = 1 \/ i > 1
        OBVIOUS
      <4> QED
        BY <1>1, <1>6, <2>1, <3>1, <4>1, <4>2
    <3>3. ws \in Seq(PlainWords)
      <4>1. \A k \in 1 .. Len(ws) : ws[k] \in PlainWords
        BY <1>4, <3>2
      <4>2. ws \in Seq(Words)
        BY <1>4
      <4> QED
        BY <4>1, <4>2
    <3> QED
      BY <3>3, PlainIsSimple
  <2>2. CASE line[1] # "curl"
    <3>1. \A i \in 1 .. n : i > p => line[i] \in ArgsOf(line[p])
      BY <1>1, <1>6, <2>2
    <3>2. \A c \in G!Commands : c # ";"
      BY DEF G!Commands, G!CLIENTS, G!DOWNLOADERS, G!SHELLS
    <3>3. \A i \in 1 .. n : line[i] # ";"
      <4>1. \A i \in 1 .. n : i < p \/ i = p \/ i > p
        BY <1>1
      <4> QED
        BY <1>1, <1>2, <1>3, <1>6, <3>1, <3>2, <4>1
    <3>4. ws = line
      BY <1>4, <3>3
    <3>5. FirstAt(line, p)
      <4>2. p \in Nat /\ p <= G!REACH + 1
        <5>1. p \in 1 .. n
          BY <1>1
        <5>2. p <= G!REACH + 1
          BY <1>6
        <5> HIDE DEF n
        <5> QED
          BY <1>1, <5>1, <5>2
      <4>1. \A i \in 1 .. n : p <= i + G!REACH
        BY <1>1, <4>2 DEF G!REACH
      <4> QED
        BY <1>1, <1>2, <1>3, <1>6, <3>1, <4>1 DEF FirstAt
    <3>6. p \in Named(line)
      BY <1>6 DEF Named
    <3>7. \A i \in DOMAIN line : i > p => Fits(line[p], line[i])
      BY <1>1, <1>3, <1>6, <3>1
    <3> QED
      BY <3>4, <3>5, <3>6, <3>7 DEF Simple
  <2> QED
    BY <2>1, <2>2
<1> QED
  BY <1>5, <1>6 DEF LineOK

LEMMA WordAdded ==
  ASSUME NEW line, LineOK(line), NEW w \in NextWord(line)
  PROVE  LineOK(Append(line, w))
<1> DEFINE n == Len(line)
           l2 == Append(line, w)
<1>1. line \in Seq(Words) /\ n \in Nat /\ DOMAIN line = 1 .. n
  <2>1. line \in Seq(Words)
    BY DEF LineOK
  <2> QED
    BY <2>1
<1>2. /\ \A x \in Leading : x \in Words /\ x \notin G!Commands
      /\ \A c \in G!Commands : c \in Words /\ \A x \in ArgsOf(c) : x \in Words
      /\ ";" \in Words /\ "wget" \in Words
  <2>1. \A x \in Leading : x \notin G!Commands
    BY DEF Leading, G!WRAPPERS, G!Commands, G!CLIENTS, G!DOWNLOADERS, G!SHELLS
  <2>2. \A x : x \in Leading \/ x \in G!Commands \/ x \in {";", "wget"} => x \in Words
    BY DEF Words
  <2>3. \A c \in G!Commands : \A x \in ArgsOf(c) : x \in Words
    BY DEF Words
  <2> QED
    BY <2>1, <2>2, <2>3
<1>3. Named(line) = {i \in 1 .. n : line[i] \in G!Commands}
  BY <1>1 DEF Named
<1>4. ASSUME w \in Words
      PROVE  /\ l2 \in Seq(Words) /\ Len(l2) = n + 1 /\ DOMAIN l2 = 1 .. n + 1 /\ l2[n + 1] = w
             /\ \A i \in 1 .. n : l2[i] = line[i]
  <2>1. /\ l2 \in Seq(Words) /\ Len(l2) = Len(line) + 1 /\ l2[Len(line) + 1] = w
        /\ \A i \in 1 .. Len(line) : l2[i] = line[i]
    <3> HIDE DEF n
    <3> QED
      BY <1>1, <1>4, AppendProperties
  <2>2. l2[n + 1] = w
    BY <2>1
  <2>3. DOMAIN l2 = 1 .. n + 1
    BY <1>1, <2>1
  <2> QED
    BY <2>1, <2>2, <2>3
<1>5. \A i \in 1 .. n + 1 : i = n + 1 \/ i \in 1 .. n
  BY <1>1
<1>6. \A i \in 1 .. n : i \in 1 .. n + 1 /\ i < n + 1 /\ ~(i > n + 1)
  BY <1>1
<1>7. n + 1 \in 1 .. n + 1
  BY <1>1
<1> HIDE DEF l2, n
<1>8. CASE n <= G!REACH /\ \A i \in 1 .. n : line[i] \in Leading
  <2>1. Named(line) = {}
    BY <1>2, <1>3, <1>8
  <2>2. w \in G!Commands \/ (n < G!REACH /\ w \in Leading)
    BY <2>1 DEF NextWord, n
  <2>3. CASE w \in G!Commands
    <3>1. n + 1 <= G!REACH + 1
      BY <1>1, <1>8 DEF G!REACH
    <3>2. w \in Words
      BY <1>2, <2>3
    <3>3. \A i \in 1 .. n + 1 : (i < n + 1 => l2[i] \in Leading) /\ ~(i > n + 1)
      BY <1>1, <1>4, <1>5, <1>6, <1>8, <3>2
    <3>4. l2 \in Seq(Words) /\ DOMAIN l2 = 1 .. n + 1 /\ l2[n + 1] \in G!Commands
      BY <1>4, <2>3, <3>2
    <3> QED
      BY <1>7, <3>1, <3>3, <3>4 DEF LineOK, l2
  <2>4. CASE n < G!REACH /\ w \in Leading
    <3>1. n + 1 <= G!REACH
      BY <1>1, <2>4 DEF G!REACH
    <3>2. w \in Words
      BY <1>2, <2>4
    <3>3. \A i \in 1 .. n + 1 : l2[i] \in Leading
      BY <1>4, <1>5, <1>8, <2>4, <3>2
    <3>4. l2 \in Seq(Words) /\ DOMAIN l2 = 1 .. n + 1 /\ Len(l2) = n + 1
      BY <1>4, <3>2
    <3> QED
      BY <3>1, <3>3, <3>4 DEF LineOK, l2
  <2> QED
    BY <2>2, <2>3, <2>4
<1>9. ASSUME NEW p \in 1 .. n, line[p] \in G!Commands, p <= G!REACH + 1,
             \A i \in 1 .. n :
               /\ i < p => line[i] \in Leading
               /\ i > p => line[i] \in ArgsOf(line[p])
                                       \union (IF line[1] = "curl" THEN {";", "wget"} ELSE {})
      PROVE  LineOK(l2)
  <2> DEFINE More == ArgsOf(line[p]) \union (IF line[1] = "curl" THEN {";", "wget"} ELSE {})
             q == G!Nearest(Named(line))
  <2>1. p \in Named(line)
    BY <1>3, <1>9
  <2>2. q \in Named(line) /\ q <= p
    <3>1. Named(line) \subseteq Nat
      BY <1>1, <1>3
    <3> QED
      BY <2>1, <3>1, NearestIs
  <2>3. q = p
    <3>1. q \in 1 .. n /\ line[q] \in G!Commands
      BY <1>3, <2>2
    <3>2. ~(q < p)
      <4> HIDE DEF q
      <4> QED
        BY <1>2, <1>9, <3>1
    <3> HIDE DEF q
    <3> QED
      BY <1>1, <2>2, <3>1, <3>2
  <2>4. w \in More
    BY <2>1, <2>3 DEF NextWord
  <2>5. w \in Words
    BY <1>2, <1>9, <2>4
  <2>6. 1 \in 1 .. n /\ p \in 1 .. n + 1
    BY <1>1
  <2>7. /\ l2 \in Seq(Words) /\ DOMAIN l2 = 1 .. n + 1 /\ l2[n + 1] = w
        /\ \A i \in 1 .. n : l2[i] = line[i]
    BY <1>4, <2>5
  <2>8. l2[1] = line[1] /\ l2[p] = line[p]
    BY <2>6, <2>7
  <2>9. \A i \in 1 .. n + 1 : /\ i < p => l2[i] \in Leading
                              /\ i > p => l2[i] \in More
    <3>1. ~(n + 1 < p)
      BY <1>1
    <3>2. \A i \in 1 .. n : (i < p => line[i] \in Leading) /\ (i > p => line[i] \in More)
      BY <1>9
    <3> HIDE DEF More
    <3> QED
      BY <1>5, <2>4, <2>7, <3>1, <3>2
  <2>10. \A i \in DOMAIN l2 : /\ i < p => l2[i] \in Leading
                              /\ i > p => l2[i] \in ArgsOf(l2[p])
                                                    \union (IF l2[1] = "curl" THEN {";", "wget"} ELSE {})
    BY <2>7, <2>8, <2>9
  <2> QED
    BY <1>9, <2>6, <2>7, <2>8, <2>10 DEF LineOK
<1> QED
  BY <1>1, <1>8, <1>9 DEF LineOK, l2, n

(* classify.mjs:682-691: however a line of up to sixteen words is made up, *)
(* every host that a client in command position contacts is found, or the  *)
(* call is reported as unresolved.                                         *)
THEOREM EgressSeen == LineSpec => []EgressIsSeen
<1> DEFINE LinesOK == \A line \in lines : LineOK(line)
<1>1. LineInit => LinesOK
  <2>1. LineOK(<< >>)
    <3>1. << >> \in Seq(Words) /\ Len(<< >>) = 0 /\ DOMAIN << >> = {}
      OBVIOUS
    <3> QED
      BY <3>1 DEF LineOK, G!REACH
  <2> QED
    BY <2>1 DEF LineInit
<1>2. LinesOK /\ [AddWord]_lines => LinesOK'
  <2>1. ASSUME LinesOK, AddWord PROVE LinesOK'
    <3>1. PICK line \in lines : \E w \in NextWord(line) : lines' = {Append(line, w)}
      BY <2>1 DEF AddWord
    <3>2. PICK w \in NextWord(line) : lines' = {Append(line, w)}
      BY <3>1
    <3>3. LineOK(Append(line, w))
      BY <2>1, <3>1, <3>2, WordAdded
    <3> QED
      BY <3>2, <3>3
  <2> QED
    BY <2>1
<1>3. LinesOK => EgressIsSeen
  <2> SUFFICES ASSUME LinesOK, NEW line \in lines
               PROVE  /\ \A d \in Contacts(line) \intersect DOMAIN G!Host : G!Host[d] \in G!collectEgress(line).hosts
                      /\ (\E d \in Contacts(line) : G!Dynamic(d)) => G!collectEgress(line).unresolved
    BY DEF EgressIsSeen
  <2>1. LineOK(line) /\ line \in Seq(Words)
    BY DEF LineOK
  <2>2. \A ws \in G!shellCommands(line) : Simple(ws)
    BY <2>1, LineIsSimple
  <2>3. \A d \in Contacts(line) : Covers(G!collectEgress(line), d)
    BY <2>1, <2>2, LineSeen
  <2> QED
    BY <2>3 DEF Covers
<1> QED
  BY <1>1, <1>2, <1>3, PTL DEF LineSpec
=============================================================================

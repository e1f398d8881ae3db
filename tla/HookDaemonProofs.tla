--------------------------- MODULE HookDaemonProofs ---------------------------
(***************************************************************************)
(* The hook and its daemon, for any set of calls in any sessions, with or  *)
(* without a judge: the rules stand, what was enforced is on file, and the *)
(* evidence that is read from the file is true.                            *)
(***************************************************************************)
EXTENDS HookDaemon, FiniteSetTheorems, TLAPS

(* A request that is answered and an answer that was acted on are no       *)
(* milder than the rules, and audited with what the hook makes of them.    *)
OnFile(c, d) == RANK[d] >= RANK[rules[c]] /\ Audited(c, d) \in log
Answered(c) == req[c] = "answered" => OnFile(c, reply[c])
Acted(c) ==
  IF hook[c] \in {"idle", "asking"} THEN tool[c] = "waiting"
  ELSE /\ \E d \in Decisions : OnFile(c, d) /\ hook[c] = verdictToHook(d, strict)
       /\ hook[c] = "deny" => ~Ran(c)

(* Only what ran is reported to have run, and with its result.             *)
Reported(c) == preq[c] # "none" \/ post[c] = "asking" => Ran(c)
ReportsAreTrue == \A r \in log : r.event = "invoked" => Ran(r.call) /\ r.result = tool[r.call]

HInv == /\ TypeOK
        /\ \A c \in Calls : Answered(c) /\ Acted(c) /\ Reported(c)
        /\ ReportsAreTrue
-----------------------------------------------------------------------------
(* The records that are written are records.                               *)
LEMMA RecordTypes ==
  ASSUME NEW c \in Calls
  PROVE  /\ \A d \in Decisions : Audited(c, d) \in Records /\ Audited(c, d).event = "verdict"
         /\ \A d \in Decisions : Audited(c, d).call = c
         /\ Ran(c) => /\ invocationRecord(c) \in Records
                      /\ invocationRecord(c).call = c
                      /\ invocationRecord(c).result = tool[c]
BY DEF Audited, VerdictRecord, enforcedBy, verdictToHook, Records, invocationRecord, Ran,
       Decisions

(* What is on file stays there, the rules and the setting do not change.   *)
LEMMA OnFileStays ==
  ASSUME strict' = strict, rules' = rules, log \subseteq log',
         NEW c \in Calls, NEW d, OnFile(c, d)
  PROVE  OnFile(c, d)'
BY DEF OnFile, Audited, VerdictRecord

(* A step of the pre-tool hook or of the daemon that answers it.           *)
LEMMA HookStep ==
  ASSUME HInv, NEW c \in Calls,
         Ask(c) \/ Hook(c) \/ DaemonReads(c) \/ DaemonJudged(c)
  PROVE  HInv'
<1> USE DEF HInv
<1>1. /\ UNCHANGED <<strict, rules, tool, preq, post, up>>
      /\ \/ log' = log
         \/ \E d \in Decisions : OnFile(c, d)' /\ log' = log \union {Audited(c, d)}
  <2>1. \A d \in Decisions : RANK[d] >= RANK[d]
    BY DEF RANK, Decisions
  <2>2. rules[c] \in Decisions
    BY DEF TypeOK
  <2>3. CASE Ask(c)
    BY <2>1, <2>2, <2>3 DEF Ask, FallBack, OnFile, Audited, VerdictRecord
  <2>4. CASE Receive(c)
    BY <2>4 DEF Receive, request
  <2>5. CASE GiveUp(c)
    BY <2>1, <2>2, <2>5 DEF GiveUp, FallBack, OnFile, Audited, VerdictRecord, request
  <2>6. CASE DaemonReads(c)
    BY <2>1, <2>2, <2>6 DEF DaemonReads, Answer, OnFile, Audited, VerdictRecord
  <2>7. CASE DaemonJudged(c)
    BY <2>7 DEF DaemonJudged, Answer, OnFile, Audited, VerdictRecord
  <2> QED
    BY <2>3, <2>4, <2>5, <2>6, <2>7 DEF Hook
<1>2. /\ log \subseteq log' /\ log' \subseteq Records
      /\ ReportsAreTrue'
  BY <1>1, RecordTypes DEF TypeOK, ReportsAreTrue, Ran
<1>3. /\ \A d \in Calls \ {c} : req'[d] = req[d] /\ reply'[d] = reply[d] /\ hook'[d] = hook[d]
      /\ req' \in [Calls -> RequestStates] /\ reply' \in [Calls -> Decisions]
      /\ hook' \in [Calls -> {"idle", "asking", "deny", "ask", "defer"}]
  BY DEF TypeOK, Ask, FallBack, Hook, Receive, GiveUp, DaemonReads, DaemonJudged, Answer,
         verdictToHook, request, RequestStates
<1>4. \A d \in Calls \ {c} : Answered(d)' /\ Acted(d)'
  BY <1>1, <1>2, <1>3, OnFileStays DEF Answered, Acted, Ran
<1>5. Answered(c)'
  <2>1. CASE req'[c] = req[c] /\ reply'[c] = reply[c]
    BY <1>1, <1>2, <2>1, OnFileStays DEF Answered
  <2>2. CASE req'[c] # "answered"
    BY <2>2 DEF Answered
  <2>3. CASE \E d \in Decisions : reply'[c] = d /\ OnFile(c, d)'
    BY <2>3 DEF Answered, OnFile, Audited, VerdictRecord
  <2>4. \A d \in Decisions : RANK[d] >= RANK[d]
    BY DEF RANK, Decisions
  <2> QED
    BY <2>1, <2>2, <2>3, <2>4
    DEF TypeOK, Ask, FallBack, Hook, Receive, GiveUp, DaemonReads, DaemonJudged, Answer,
        request, OnFile, Audited, VerdictRecord
<1>6. Acted(c)'
  <2>1. CASE hook'[c] = hook[c]
    BY <1>1, <1>2, <2>1, OnFileStays DEF Acted, Ran
  <2>2. CASE hook'[c] # hook[c] /\ hook'[c] = "asking"
    BY <1>1, <2>2 DEF Ask, Hook, Receive, GiveUp, FallBack, DaemonReads, DaemonJudged, Answer,
                      Acted, verdictToHook
  <2>3. CASE Receive(c)
    <3>1. OnFile(c, reply[c]) /\ reply[c] \in Decisions
      BY <2>3 DEF Receive, Answered, TypeOK
    <3>2. hook'[c] = verdictToHook(reply[c], strict) /\ tool[c] = "waiting"
      BY <2>3 DEF Receive, Acted, TypeOK
    <3>3. reply' = reply
      BY <2>3 DEF Receive, request
    <3>4. \E d \in Decisions : OnFile(c, d)' /\ hook'[c] = verdictToHook(d, strict')
      BY <1>1, <1>2, <3>1, <3>2, <3>3 DEF OnFile, Audited, VerdictRecord
    <3> QED
      BY <1>1, <3>2, <3>4 DEF Acted, Ran
  <2>4. CASE hook' = [hook EXCEPT ![c] = verdictToHook(rules[c], strict)]
             /\ log' = log \union {Audited(c, rules[c])} /\ hook[c] \in {"idle", "asking"}
    <3>1. rules[c] \in Decisions /\ tool[c] = "waiting" /\ RANK[rules[c]] >= RANK[rules[c]]
      BY <2>4 DEF TypeOK, Acted, RANK, Decisions
    <3>2. hook'[c] = verdictToHook(rules[c], strict)
      BY <2>4 DEF TypeOK
    <3> QED
      BY <1>1, <2>4, <3>1, <3>2 DEF Acted, Ran, OnFile, Audited, VerdictRecord
  <2> QED
    BY <2>1, <2>2, <2>3, <2>4
    DEF TypeOK, Ask, FallBack, Hook, GiveUp, DaemonReads, DaemonJudged, Answer, request
<1>7. \A d \in Calls : Reported(d)'
  BY <1>1 DEF Reported, Ran
<1>8. TypeOK'
  BY <1>1, <1>2, <1>3 DEF TypeOK
<1> QED
  BY <1>2, <1>4, <1>5, <1>6, <1>7, <1>8

(* The tool runs or does not.                                              *)
LEMMA ToolStep ==
  ASSUME HInv, NEW c \in Calls, RunTool(c)
  PROVE  HInv'
<1> USE DEF HInv
<1>1. PICK t \in {"never", "ok", "error"} :
        (hook[c] = "deny" => t = "never") /\ tool' = [tool EXCEPT ![c] = t]
  BY DEF RunTool
<1>2. /\ UNCHANGED <<up, strict, rules, req, reply, hook, preq, post, log>>
      /\ hook[c] \in {"deny", "ask", "defer"} /\ tool[c] = "waiting"
  BY DEF RunTool, request
<1>3. \A d \in Calls : Answered(d)' /\ Acted(d)' /\ Reported(d)'
  BY <1>1, <1>2 DEF TypeOK, Answered, Acted, Reported, OnFile, Audited, VerdictRecord, Ran
<1>4. ReportsAreTrue'
  BY <1>1, <1>2 DEF TypeOK, ReportsAreTrue, Ran
<1>5. TypeOK'
  BY <1>1, <1>2 DEF TypeOK
<1> QED
  BY <1>3, <1>4, <1>5

(* A step of the post-tool hook or of the daemon that records for it.      *)
LEMMA PostStep ==
  ASSUME HInv, NEW c \in Calls, PostHook(c) \/ DaemonRecordsInvoked(c)
  PROVE  HInv'
<1> USE DEF HInv
<1>1. /\ UNCHANGED <<up, strict, rules, req, reply, hook, tool>>
      /\ log' = log \/ log' = log \union {invocationRecord(c)}
      /\ Ran(c)
  BY DEF PostHook, PostAsk, PostReceive, PostGiveUp, DaemonRecordsInvoked, request,
         Reported, Ran
<1>2. /\ log \subseteq log' /\ log' \subseteq Records /\ ReportsAreTrue'
  <2>1. CASE log' = log
    BY <1>1, <2>1 DEF TypeOK, ReportsAreTrue, Ran
  <2>2. CASE log' = log \union {invocationRecord(c)}
    <3>1. log \subseteq log' /\ log' \subseteq Records
      BY <1>1, <2>2, RecordTypes DEF TypeOK
    <3> QED
      BY <1>1, <2>2, <3>1, RecordTypes DEF ReportsAreTrue, Ran
  <2> QED
    BY <1>1, <2>1, <2>2, Zenon
<1>3. \A d \in Calls : Answered(d)' /\ Acted(d)'
  BY <1>1, <1>2, OnFileStays DEF Answered, Acted, Ran
<1>4. /\ preq' \in [Calls -> RequestStates] /\ post' \in [Calls -> {"idle", "asking", "done"}]
      /\ \A d \in Calls \ {c} : preq'[d] = preq[d] /\ post'[d] = post[d]
  <2>1. CASE PostAsk(c)
    <3>1. /\ preq' = preq \/ preq' = [preq EXCEPT ![c] = "sent"]
          /\ post' = [post EXCEPT ![c] = "asking"] \/ post' = [post EXCEPT ![c] = "done"]
      BY <2>1 DEF PostAsk
    <3> QED
      BY <3>1 DEF TypeOK, RequestStates
  <2>2. CASE PostReceive(c)
    BY <2>2 DEF TypeOK, PostReceive, RequestStates
  <2>3. CASE PostGiveUp(c)
    BY <2>3 DEF TypeOK, PostGiveUp, RequestStates
  <2>4. CASE DaemonRecordsInvoked(c)
    BY <2>4 DEF TypeOK, DaemonRecordsInvoked, RequestStates
  <2> QED
    BY <2>1, <2>2, <2>3, <2>4 DEF PostHook
<1>5. \A d \in Calls : Reported(d)'
  BY <1>1, <1>4 DEF Reported, Ran
<1> QED
  BY <1>1, <1>2, <1>3, <1>4, <1>5 DEF TypeOK

(* The daemon is killed or started: answers may be lost, no record is.     *)
LEMMA DaemonStep ==
  ASSUME HInv, DaemonKilled \/ DaemonStarts
  PROVE  HInv'
<1> USE DEF HInv
<1>1. /\ UNCHANGED <<strict, rules, reply, hook, tool, post, log>> /\ up' \in BOOLEAN
  BY DEF DaemonKilled, DaemonStarts, request
<1>2. /\ req' \in [Calls -> RequestStates] /\ preq' \in [Calls -> RequestStates]
      /\ \A c \in Calls : req'[c] \in {req[c], "lost"}
      /\ \A c \in Calls : (preq'[c] = "none") <=> (preq[c] = "none")
  BY DEF DaemonKilled, DaemonStarts, Lose, TypeOK, RequestStates, request
<1>3. \A c \in Calls : Answered(c)' /\ Acted(c)' /\ Reported(c)'
  BY <1>1, <1>2 DEF Answered, Acted, Reported, OnFile, Audited, VerdictRecord, Ran
<1> QED
  BY <1>1, <1>2, <1>3 DEF TypeOK, ReportsAreTrue, Ran

LEMMA InductiveInvariant == Spec => []HInv
<1>1. Init => HInv
  BY DEF Init, HInv, TypeOK, Answered, Acted, Reported, ReportsAreTrue, Records, RequestStates
<1>2. HInv /\ [Next]_vars => HInv'
  <2> SUFFICES ASSUME HInv, [Next]_vars PROVE HInv'
    OBVIOUS
  <2>1. CASE UNCHANGED vars
    BY <2>1 DEF vars, request, HInv, TypeOK, Answered, Acted, Reported, ReportsAreTrue,
                OnFile, Audited, VerdictRecord, Ran
  <2> QED
    BY <2>1, HookStep, ToolStep, PostStep, DaemonStep DEF Next
<1> QED
  BY <1>1, <1>2, PTL DEF Spec
-----------------------------------------------------------------------------
(* cc-hook.mjs:96-107: whoever decided, and whatever was late or lost, the *)
(* rules stand and what Claude Code was told is on file.                   *)
LEMMA HInvAnswers == HInv => AnswerStands
<1> SUFFICES ASSUME HInv, NEW c \in Calls, hook[c] \notin {"idle", "asking"}
             PROVE  /\ rules[c] = "block" => hook[c] = "deny" /\ ~Ran(c)
                    /\ rules[c] = "approve" /\ strict => hook[c] # "defer"
                    /\ \E r \in Verdicts : r.call = c /\ r.enforced = enforcedBy(hook[c])
  BY DEF AnswerStands, RulesStand, AnswerIsAudited
<1>1. PICK d \in Decisions : OnFile(c, d) /\ hook[c] = verdictToHook(d, strict)
  BY DEF HInv, Acted
<1>2. hook[c] = "deny" => ~Ran(c)
  BY DEF HInv, Acted
<1>3. rules[c] \in Decisions
  BY DEF HInv, TypeOK
<1>4. /\ rules[c] = "block" => d = "block"
      /\ rules[c] = "approve" => d \in {"approve", "block"}
  BY <1>1, <1>3 DEF OnFile, RANK, Decisions
<1>5. Audited(c, d) \in Verdicts /\ Audited(c, d).call = c
      /\ Audited(c, d).enforced = enforcedBy(hook[c])
  BY <1>1 DEF OnFile, Audited, VerdictRecord, Verdicts
<1> QED
  BY <1>1, <1>2, <1>4, <1>5 DEF verdictToHook

THEOREM WhoeverDecided == Spec => []AnswerStands
BY InductiveInvariant, HInvAnswers, PTL

-----------------------------------------------------------------------------
(* Only a call that was asked about has a request, only one with an id is  *)
(* reported.                                                               *)
Asked(c) == req[c] # "none" => hook[c] # "idle"
HasId(c) == preq[c] # "none" \/ post[c] = "asking" => c.id # ""
KInv == HInv /\ \A c \in Calls : Asked(c) /\ HasId(c)

LEMMA AskedStays ==
  ASSUME KInv, [Next]_vars
  PROVE  \A c \in Calls : Asked(c)' /\ HasId(c)'
<1> USE DEF KInv
<1>1. CASE UNCHANGED <<req, hook, preq, post>>
  BY <1>1 DEF Asked, HasId
<1>2. ASSUME NEW c \in Calls, Ask(c) \/ Hook(c) \/ DaemonReads(c) \/ DaemonJudged(c)
      PROVE  \A d \in Calls : Asked(d)' /\ HasId(d)'
  <2>1. /\ UNCHANGED <<preq, post>> /\ hook'[c] # "idle"
        /\ \A d \in Calls \ {c} : req'[d] = req[d] /\ hook'[d] = hook[d]
    BY <1>2 DEF Ask, Hook, Receive, GiveUp, FallBack, DaemonReads, DaemonJudged, Answer, request,
                verdictToHook, HInv, TypeOK, Asked
  <2> QED
    BY <2>1 DEF Asked, HasId
<1>3. ASSUME NEW c \in Calls, RunTool(c)
      PROVE  UNCHANGED <<req, hook, preq, post>>
  BY <1>3 DEF RunTool, request
<1>4. ASSUME NEW c \in Calls, PostHook(c) \/ DaemonRecordsInvoked(c)
      PROVE  \A d \in Calls : Asked(d)' /\ HasId(d)'
  <2>1. /\ UNCHANGED <<req, hook>>
        /\ \A d \in Calls \ {c} : preq'[d] = preq[d] /\ post'[d] = post[d]
    BY <1>4 DEF PostHook, PostAsk, PostReceive, PostGiveUp, DaemonRecordsInvoked, request,
                HInv, TypeOK
  <2>2. HasId(c)'
    BY <1>4 DEF PostHook, PostAsk, PostReceive, PostGiveUp, DaemonRecordsInvoked,
                HInv, TypeOK, HasId
  <2> QED
    BY <2>1, <2>2 DEF Asked, HasId
<1>5. CASE DaemonKilled \/ DaemonStarts
  <2>1. /\ UNCHANGED <<hook, post>>
        /\ \A c \in Calls : /\ req'[c] = "none" <=> req[c] = "none"
                            /\ preq'[c] = "none" <=> preq[c] = "none"
    BY <1>5 DEF DaemonKilled, DaemonStarts, Lose, HInv, TypeOK, request
  <2> QED
    BY <2>1 DEF Asked, HasId
<1>6. CASE UNCHANGED vars
  BY <1>1, <1>6 DEF vars, request
<1> QED
  BY <1>1, <1>2, <1>3, <1>4, <1>5, <1>6 DEF Next

LEMMA AskedHolds == Spec => []KInv
<1>1. Init => KInv
  BY DEF Init, KInv, Asked, HasId, HInv, TypeOK, Answered, Acted, Reported, ReportsAreTrue,
         Records, RequestStates
<1>2. HInv /\ HInv' /\ KInv /\ [Next]_vars => KInv'
  BY AskedStays DEF KInv
<1> QED
  BY <1>1, <1>2, InductiveInvariant, PTL DEF Spec

(* A verdict is booked as a decision, an invocation as a run.              *)
LEMMA VerdictBooked ==
  ASSUME NEW c \in Calls, NEW d, log' = log \union {Audited(c, d)}
  PROVE  /\ Marks' = Marks \union {<<c, enforcedBy(verdictToHook(d, strict))>>}
         /\ Runs' = Runs
<1> DEFINE r == Audited(c, d)
<1>1. r.event = "verdict" /\ r.call = c /\ r.enforced = enforcedBy(verdictToHook(d, strict))
  BY DEF Audited, VerdictRecord
<1> HIDE DEF r
<1>2. Verdicts' = Verdicts \union {r} /\ log' \ Verdicts' = log \ Verdicts
  BY <1>1 DEF Verdicts, r
<1> QED
  BY <1>1, <1>2 DEF Marks, Runs

LEMMA RunBooked ==
  ASSUME NEW c \in Calls, log' = log \union {invocationRecord(c)}
  PROVE  Marks' = Marks /\ Runs' = Runs \union {<<c, tool[c]>>}
<1> DEFINE r == invocationRecord(c)
<1>1. r.event = "invoked" /\ r.call = c /\ r.result = tool[c]
  BY DEF invocationRecord
<1> HIDE DEF r
<1>2. Verdicts' = Verdicts /\ log' \ Verdicts' = (log \ Verdicts) \union {r}
  BY <1>1 DEF Verdicts, r
<1> QED
  BY <1>1, <1>2 DEF Marks, Runs

LEMMA NothingBooked ==
  ASSUME log' = log
  PROVE  Marks' = Marks /\ Runs' = Runs
BY DEF Marks, Runs, Verdicts

(* A decision no milder than the rules is one of the answers promised, and *)
(* an answer is filed as what it enforces.                                 *)
LEMMA AnswersPromised ==
  ASSUME TypeOK, NEW c \in Calls, NEW d \in Decisions, RANK[d] >= RANK[rules[c]]
  PROVE  LET a == verdictToHook(d, strict)
         IN  a \in Promise!Answers(c) /\ Promise!Enforced[a] = enforcedBy(a)
<1>1. rules[c] \in Decisions /\ strict \in BOOLEAN
  BY DEF TypeOK
<1>2. /\ rules[c] = "block" => d = "block"
      /\ rules[c] = "approve" => d \in {"approve", "block"}
  BY <1>1 DEF RANK, Decisions
<1>3. verdictToHook(d, strict) \in {"deny", "ask", "defer"}
  BY DEF verdictToHook
<1>4. \A a \in {"deny", "ask", "defer"} : Promise!Enforced[a] = enforcedBy(a)
  BY DEF Promise!Enforced, enforcedBy
<1>5. verdictToHook(d, strict) \in Promise!Answers(c)
  BY <1>1, <1>2 DEF Promise!Answers, Promise!Final, verdictToHook
<1> QED
  BY <1>3, <1>4, <1>5

(* cc-hook.mjs:96-142, daemon.mjs:88-127: the hooks, the daemons that come *)
(* and go and the file they both write implement one final answer per call *)
(* and two books that only grow.                                           *)
Book == <<rules, strict, hook, tool, Marks, Runs>>
LEMMA StepKeepsPromise ==
  ASSUME KInv, [Next]_vars
  PROVE  [Promise!Next]_Book
<1> USE DEF KInv
<1> SUFFICES Promise!Next \/ UNCHANGED Book
  OBVIOUS
<1>1. ASSUME UNCHANGED <<rules, strict, hook, tool, log>>
      PROVE  UNCHANGED Book
  BY <1>1, NothingBooked DEF Book
<1>2. ASSUME NEW c \in Calls, UNCHANGED <<rules, strict, tool>>,
             hook[c] \in {"idle", "asking"}, FallBack(c)
      PROVE  Promise!Answer(c)
  <2> DEFINE a == verdictToHook(rules[c], strict)
  <2>1. rules[c] \in Decisions /\ RANK[rules[c]] >= RANK[rules[c]]
    BY DEF HInv, TypeOK, RANK, Decisions
  <2>2. a \in Promise!Answers(c) /\ Promise!Enforced[a] = enforcedBy(a)
    BY <2>1, AnswersPromised DEF HInv
  <2>3. Marks' = Marks \union {<<c, enforcedBy(a)>>} /\ Runs' = Runs
    BY <1>2, VerdictBooked DEF FallBack
  <2>4. hook' = [hook EXCEPT ![c] = a] /\ hook[c] \notin Promise!Final
    BY <1>2 DEF FallBack, Promise!Final
  <2> HIDE DEF a
  <2> QED
    BY <1>2, <2>2, <2>3, <2>4 DEF Promise!Answer
<1>3. ASSUME NEW c \in Calls, Ask(c)
      PROVE  Promise!Ask(c) \/ Promise!Answer(c)
  <2>1. CASE up
    <3>1. log' = log /\ hook[c] = "idle" /\ hook' = [hook EXCEPT ![c] = "asking"]
          /\ UNCHANGED <<rules, strict, tool>>
      BY <1>3, <2>1 DEF Ask
    <3> QED
      BY <3>1, NothingBooked DEF Promise!Ask
  <2>2. CASE ~up
    BY <1>2, <1>3, <2>2 DEF Ask
  <2> QED
    BY <2>1, <2>2
<1>4. ASSUME NEW c \in Calls, Receive(c)
      PROVE  Promise!Answer(c)
  <2> DEFINE a == verdictToHook(reply[c], strict)
  <2>1. OnFile(c, reply[c]) /\ reply[c] \in Decisions
    BY <1>4 DEF Receive, HInv, Answered, TypeOK
  <2>2. a \in Promise!Answers(c) /\ Promise!Enforced[a] = enforcedBy(a)
    BY <2>1, AnswersPromised DEF HInv, OnFile
  <2>3. <<c, enforcedBy(a)>> \in Marks
    <3>1. Audited(c, reply[c]) \in Verdicts /\ Audited(c, reply[c]).call = c
          /\ Audited(c, reply[c]).enforced = enforcedBy(a)
      BY <2>1 DEF OnFile, Audited, VerdictRecord, Verdicts
    <3> QED
      BY <3>1 DEF Marks
  <2>4. Marks' = Marks \union {<<c, enforcedBy(a)>>} /\ Runs' = Runs
    BY <1>4, <2>3, NothingBooked DEF Receive
  <2>5. /\ hook' = [hook EXCEPT ![c] = a] /\ hook[c] \notin Promise!Final
        /\ UNCHANGED <<rules, strict, tool>>
    BY <1>4 DEF Receive, Promise!Final
  <2> HIDE DEF a
  <2> QED
    BY <2>2, <2>4, <2>5 DEF Promise!Answer
<1>5. ASSUME NEW c \in Calls, GiveUp(c)
      PROVE  Promise!Answer(c)
  BY <1>2, <1>5 DEF GiveUp
<1>6. ASSUME NEW c \in Calls, NEW d \in Decisions, RANK[d] >= RANK[rules[c]], Answer(c, d),
             UNCHANGED <<rules, strict, hook, tool>>, req[c] # "none"
      PROVE  Promise!Decide(c)
  <2> DEFINE a == verdictToHook(d, strict)
  <2>1. a \in Promise!Answers(c) /\ Promise!Enforced[a] = enforcedBy(a)
    BY <1>6, AnswersPromised DEF HInv
  <2>2. Marks' = Marks \union {<<c, enforcedBy(a)>>} /\ Runs' = Runs
    BY <1>6, VerdictBooked DEF Answer
  <2>3. hook[c] # "idle"
    BY <1>6 DEF Asked
  <2> HIDE DEF a
  <2> QED
    BY <1>6, <2>1, <2>2, <2>3 DEF Promise!Decide
<1>7. ASSUME NEW c \in Calls, DaemonReads(c) \/ DaemonJudged(c)
      PROVE  Promise!Decide(c) \/ UNCHANGED Book
  <2>1. rules[c] \in Decisions /\ RANK[rules[c]] >= RANK[rules[c]]
    BY DEF HInv, TypeOK, RANK, Decisions
  <2>2. CASE DaemonReads(c) /\ Judge
    BY <1>1, <2>2 DEF DaemonReads
  <2>3. CASE DaemonReads(c) /\ ~Judge
    BY <1>6, <2>1, <2>3 DEF DaemonReads
  <2>4. CASE DaemonJudged(c)
    BY <1>6, <2>4 DEF DaemonJudged
  <2> QED
    BY <1>7, <2>2, <2>3, <2>4
<1>8. ASSUME NEW c \in Calls, RunTool(c)
      PROVE  Promise!RunTool(c)
  BY <1>8, NothingBooked DEF RunTool, Promise!RunTool, Promise!Final
<1>9. ASSUME NEW c \in Calls, PostHook(c) \/ DaemonRecordsInvoked(c)
      PROVE  Promise!Report(c) \/ UNCHANGED Book
  <2>1. /\ UNCHANGED <<rules, strict, hook, tool>>
        /\ log' = log \/ (log' = log \union {invocationRecord(c)} /\ Ran(c) /\ c.id # "")
    BY <1>9 DEF PostHook, PostAsk, PostReceive, PostGiveUp, DaemonRecordsInvoked, HasId, Ran,
                HInv, Reported
  <2>2. CASE log' = log
    BY <1>1, <2>1, <2>2
  <2>3. CASE log' = log \union {invocationRecord(c)} /\ Ran(c) /\ c.id # ""
    BY <2>1, <2>3, RunBooked DEF Promise!Report, Ran
  <2> QED
    BY <2>1, <2>2, <2>3
<1>10. CASE DaemonKilled \/ DaemonStarts \/ UNCHANGED vars
  BY <1>1, <1>10 DEF DaemonKilled, DaemonStarts, vars
<1> QED
  BY <1>3, <1>4, <1>5, <1>7, <1>8, <1>9, <1>10 DEF Next, Hook, Promise!Next

THEOREM KeepsPromise == Spec => PromiseKept
<1>1. Init => Promise!Init
  BY DEF Init, Promise!Init, Marks, Runs, Verdicts, Decisions
<1>2. KInv /\ [Next]_vars => [Promise!Next]_Book
  BY StepKeepsPromise
<1> QED
  BY <1>1, <1>2, AskedHolds, PTL DEF Spec, PromiseKept, Promise!Spec, Book
-----------------------------------------------------------------------------
(* A call that ran has a verdict on file that did not stop it.             *)
LEMMA RanIsForwarded ==
  ASSUME HInv, NEW c \in Calls, Ran(c)
  PROVE  \E q \in Verdicts : q.call = c /\ q.enforced # "blocked"
<1>1. hook[c] \notin {"idle", "asking"} /\ hook[c] # "deny"
  BY DEF HInv, Acted, Ran
<1>2. PICK q \in Verdicts : q.call = c /\ q.enforced = enforcedBy(hook[c])
  BY <1>1, HInvAnswers DEF AnswerStands, AnswerIsAudited
<1> QED
  BY <1>1, <1>2 DEF enforcedBy

(* Two different marks of what was enforced are a conflict.                *)
LEMMA TwoMarksConflict ==
  ASSUME HInv, NEW r \in Verdicts, NEW s \in Verdicts,
         s.call = r.call, s.enforced # r.enforced
  PROVE  Conflicting(r, log)
<1> DEFINE E == Enforcements(r, log)
<1>1. r.enforced \in E /\ s.enforced \in E
  BY DEF Enforcements, Joined, Verdicts
<1>2. \A x \in log : x.event = "verdict" => x.enforced \in {"blocked", "asked", "forwarded"}
  BY DEF HInv, TypeOK, Records
<1>3. E \subseteq {"blocked", "asked", "forwarded"}
  BY <1>2 DEF Enforcements, Joined, Verdicts
<1>4. IsFiniteSet({"blocked", "asked", "forwarded"})
  <2>1. IsFiniteSet({"blocked"} \union {"asked"} \union {"forwarded"})
    BY FS_Singleton, FS_Union
  <2>2. {"blocked", "asked", "forwarded"} = {"blocked"} \union {"asked"} \union {"forwarded"}
    OBVIOUS
  <2> QED
    BY <2>1, <2>2
<1>5. IsFiniteSet(E)
  BY <1>3, <1>4, FS_Subset
<1> HIDE DEF E
<1>6. {r.enforced, s.enforced} \subseteq E
  BY <1>1
<1>7. Cardinality({r.enforced, s.enforced}) = 2
  <2>1. Cardinality({r.enforced}) = 1 /\ IsFiniteSet({r.enforced})
    BY FS_Singleton
  <2>2. Cardinality({r.enforced} \union {s.enforced}) = 2
    BY <2>1, FS_AddElement
  <2>3. {r.enforced, s.enforced} = {r.enforced} \union {s.enforced}
    OBVIOUS
  <2> QED
    BY <2>2, <2>3
<1>8. Cardinality(E) >= 2 /\ Cardinality(E) \in Nat
  BY <1>5, <1>6, <1>7, FS_Subset, FS_CardinalityType
<1> QED
  BY <1>8 DEF Conflicting, E

(* A call is its id and its session.                                       *)
LEMMA SameCall ==
  ASSUME NEW a \in [id : STRING, session : STRING], NEW b \in [id : STRING, session : STRING],
         a.id = b.id, a.session = b.session
  PROVE  a = b
OBVIOUS

(* audit.mjs:222-239, "conflicts fail closed": for any calls in any        *)
(* sessions, though they share ids, the evidence never says of a call that *)
(* ran that it did not, nor the reverse.                                   *)
LEMMA HInvEvidence == HInv => EvidenceIsTrue
<1> SUFFICES ASSUME HInv, NEW r \in Verdicts, r.call.id # ""
             PROVE  LET s == invocationOf(r, log, FALSE)
                    IN  /\ s = "not-invoked" => ~Ran(r.call)
                        /\ s \in {"ok", "error"} => tool[r.call] = s
  BY DEF EvidenceIsTrue
<1> DEFINE s == invocationOf(r, log, FALSE)
<1>1. r \in log /\ r \in Records /\ r.event = "verdict" /\ r.call \in Calls
  BY DEF Verdicts, HInv, TypeOK, Records
<1>2. CASE Conflicting(r, log)
  BY <1>2 DEF invocationOf
<1>3. CASE ~Conflicting(r, log) /\ Results(r, log) # {}
  <2>1. s \in Results(r, log)
    BY <1>3 DEF invocationOf
  <2>2. PICK x \in Joined(r, log) : x.event = "invoked" /\ s = x.result
    BY <2>1, <1>1 DEF Results
  <2>3. x \in log /\ x \in Records /\ x.call \in Calls /\ x.call.id = r.call.id
    BY <2>2 DEF Joined, HInv, TypeOK, Records
  <2>4. x.call.session = r.call.session
    BY <1>3, <2>2 DEF Conflicting
  <2>5. x.call = r.call
    <3>1. /\ x.call \in [id : STRING, session : STRING]
          /\ r.call \in [id : STRING, session : STRING]
      BY <1>1, <2>3, CallsAssumption
    <3> QED
      BY <2>3, <2>4, <3>1, SameCall
  <2>6. tool[x.call] = x.result /\ Ran(x.call)
    BY <2>2, <2>3 DEF HInv, ReportsAreTrue
  <2> QED
    BY <2>2, <2>5, <2>6 DEF Ran
<1>4. CASE ~Conflicting(r, log) /\ Results(r, log) = {}
  <2>1. s = IF r.enforced = "blocked" THEN "not-invoked" ELSE "unknown"
    BY <1>4 DEF invocationOf
  <2>2. ASSUME r.enforced = "blocked", Ran(r.call) PROVE FALSE
    <3>1. \E q \in Verdicts : q.call = r.call /\ q.enforced # "blocked"
      BY <1>1, <2>2, RanIsForwarded
    <3> QED
      BY <1>4, <2>2, <3>1, TwoMarksConflict
  <2> QED
    BY <2>1, <2>2
<1> QED
  BY <1>2, <1>3, <1>4

THEOREM EvidenceStands == Spec => []EvidenceIsTrue
BY InductiveInvariant, HInvEvidence, PTL
-----------------------------------------------------------------------------
(* A call whose post-tool hook is done, or was answered, ran and is        *)
(* reported, if it has an id.                                              *)
Filed(c) ==
  /\ post[c] = "done" => Ran(c)
  /\ c.id # "" /\ (post[c] = "done" \/ preq[c] = "answered") => invocationRecord(c) \in log
FInv == HInv /\ \A c \in Calls : Filed(c)

LEMMA FiledStays ==
  ASSUME HInv, FInv, [Next]_vars
  PROVE  \A c \in Calls : Filed(c)'
<1> USE DEF FInv
<1>1. CASE UNCHANGED <<tool, post, preq>> /\ log \subseteq log'
  BY <1>1 DEF Filed, Ran, invocationRecord
<1>2. ASSUME NEW c \in Calls, Ask(c) \/ Hook(c) \/ DaemonReads(c) \/ DaemonJudged(c)
      PROVE  UNCHANGED <<tool, post, preq>> /\ log \subseteq log'
  BY <1>2 DEF Ask, Hook, Receive, GiveUp, FallBack, DaemonReads, DaemonJudged, Answer, request
<1>3. ASSUME NEW c \in Calls, RunTool(c)
      PROVE  \A d \in Calls : Filed(d)'
  <2>1. UNCHANGED <<post, preq, log>> /\ ~Ran(c) /\ \A d \in Calls \ {c} : tool'[d] = tool[d]
    BY <1>3 DEF RunTool, Ran, HInv, TypeOK
  <2>2. post[c] # "done" /\ preq[c] # "answered"
    BY <2>1 DEF Filed, HInv, Reported
  <2> QED
    BY <2>1, <2>2 DEF Filed, Ran, invocationRecord
<1>4. ASSUME NEW c \in Calls, PostHook(c) \/ DaemonRecordsInvoked(c)
      PROVE  \A d \in Calls : Filed(d)'
  <2>1. /\ UNCHANGED tool /\ log \subseteq log' /\ Ran(c)
        /\ \A d \in Calls \ {c} : preq'[d] = preq[d] /\ post'[d] = post[d]
    BY <1>4 DEF PostHook, PostAsk, PostReceive, PostGiveUp, DaemonRecordsInvoked, request,
                HInv, TypeOK, Reported, Ran
  <2>2. c.id # "" /\ (post'[c] = "done" \/ preq'[c] = "answered") => invocationRecord(c) \in log'
    BY <1>4, <2>1 DEF PostHook, PostAsk, PostReceive, PostGiveUp, DaemonRecordsInvoked,
                      HInv, TypeOK, Filed
  <2> QED
    BY <2>1, <2>2 DEF Filed, Ran, invocationRecord
<1>5. CASE DaemonKilled \/ DaemonStarts
  <2>1. /\ UNCHANGED <<tool, post, log>>
        /\ \A c \in Calls : preq'[c] = "answered" => preq[c] = "answered"
    BY <1>5 DEF DaemonKilled, DaemonStarts, Lose, HInv, TypeOK
  <2> QED
    BY <2>1 DEF Filed, Ran, invocationRecord
<1>6. CASE UNCHANGED vars
  BY <1>1, <1>6 DEF vars
<1> QED
  BY <1>1, <1>2, <1>3, <1>4, <1>5, <1>6 DEF Next

LEMMA FiledHolds == Spec => []FInv
<1>1. Init => FInv
  BY DEF Init, FInv, Filed, HInv, TypeOK, Answered, Acted, Reported, ReportsAreTrue, Records,
         RequestStates
<1>2. HInv /\ HInv' /\ FInv /\ [Next]_vars => FInv'
  BY FiledStays DEF FInv
<1> QED
  BY <1>1, <1>2, InductiveInvariant, PTL DEF Spec

(* At rest, what ran is reported, if it has an id.                         *)
LEMMA RunsAreJoined ==
  ASSUME FInv, NEW r \in Verdicts, AtRest(r.call), Ran(r.call), r.call.id # ""
  PROVE  /\ tool[r.call] \in Results(r, log)
         /\ Results(r, log) \subseteq {"ok", "error"}
<1>1. r \in log /\ r.event = "verdict" /\ r.call \in Calls
  BY DEF Verdicts, FInv, HInv, TypeOK, Records
<1>2. post[r.call] = "done"
  BY <1>1 DEF AtRest, Ran, FInv, HInv, Acted
<1>3. invocationRecord(r.call) \in log
  BY <1>1, <1>2 DEF FInv, Filed
<1>4. tool[r.call] \in Results(r, log)
  <2>1. /\ invocationRecord(r.call).call = r.call
        /\ invocationRecord(r.call).event = "invoked"
        /\ invocationRecord(r.call).result = tool[r.call]
    BY DEF invocationRecord
  <2>2. invocationRecord(r.call) \in Joined(r, log)
    BY <1>3, <2>1 DEF Joined
  <2> QED
    BY <2>1, <2>2 DEF Results
<1>5. \A x \in log : x.event = "invoked" => x.result \in {"ok", "error"}
  BY DEF FInv, HInv, TypeOK, Records
<1> QED
  BY <1>4, <1>5 DEF Results, Joined

(* If no other verdict has its id, what joins to a verdict is of its call. *)
LEMMA OnlyOfItsCall ==
  ASSUME HInv, NEW r \in Verdicts, {x \in Verdicts \ {r} : x.call.id = r.call.id} = {},
         NEW y \in Joined(r, log)
  PROVE  y.call = r.call /\ (y.event = "verdict" => y = r)
<1>1. y \in log /\ y.call.id = r.call.id /\ y.call \in Calls /\ y.event \in {"verdict", "invoked"}
  BY DEF Joined, HInv, TypeOK, Records
<1>2. CASE y.event = "verdict"
  BY <1>1, <1>2 DEF Verdicts
<1>3. CASE y.event = "invoked"
  <2>1. Ran(y.call)
    BY <1>1, <1>3 DEF HInv, ReportsAreTrue
  <2>2. PICK q \in Verdicts : q.call = y.call
    BY <1>1, <2>1, RanIsForwarded
  <2>3. q = r
    BY <1>1, <2>2
  <2> QED
    BY <1>3, <2>2, <2>3
<1> QED
  BY <1>1, <1>2, <1>3

(* Such a verdict is in no conflict with what joins to it.                 *)
LEMMA AloneNoConflict ==
  ASSUME HInv, NEW r \in Verdicts, {x \in Verdicts \ {r} : x.call.id = r.call.id} = {}
  PROVE  /\ ~Conflicting(r, log)
         /\ Results(r, log) \subseteq {tool[r.call]}
         /\ Results(r, log) # {} => Ran(r.call)
<1>1. Joined(r, log) \subseteq log /\ r \in Joined(r, log) /\ r.event = "verdict" /\ r.call \in Calls
  BY DEF Joined, Verdicts, HInv, TypeOK, Records
<1>2. Enforcements(r, log) = {r.enforced}
  BY <1>1, OnlyOfItsCall DEF Enforcements
<1>3. \A y \in Joined(r, log) : y.event = "invoked" => Ran(r.call) /\ y.result = tool[r.call]
  BY <1>1, OnlyOfItsCall DEF HInv, ReportsAreTrue
<1>4. Results(r, log) \subseteq {tool[r.call]} /\ (Results(r, log) # {} => Ran(r.call))
  BY <1>3 DEF Results
<1>5. Cardinality({r.enforced}) = 1
  BY FS_Singleton
<1>6. ~(Cardinality(Results(r, log)) > 1)
  <2>1. CASE Results(r, log) = {}
    BY <2>1, FS_EmptySet
  <2>2. CASE Results(r, log) = {tool[r.call]}
    <3>1. Cardinality({tool[r.call]}) = 1
      BY FS_Singleton
    <3> QED
      BY <2>2, <3>1
  <2> QED
    BY <1>4, <2>1, <2>2
<1>7. ~(Results(r, log) # {} /\ r.enforced = "blocked")
  <2> SUFFICES ASSUME Results(r, log) # {} PROVE r.enforced # "blocked"
    OBVIOUS
  <2>1. PICK q \in Verdicts : q.call = r.call /\ q.enforced # "blocked"
    BY <1>1, <1>4, RanIsForwarded
  <2> QED
    BY <2>1
<1>8. \A y \in Joined(r, log) : y.call.session = r.call.session
  BY OnlyOfItsCall
<1>9. ~(Cardinality(Enforcements(r, log)) > 1)
  BY <1>2, <1>5
<1> QED
  BY <1>4, <1>6, <1>7, <1>8, <1>9 DEF Conflicting

(* audit.mjs:222-239: in a complete window, for any calls in any sessions, *)
(* the evidence decides: not invoked is not run, and a verdict whose id    *)
(* nothing else uses tells what happened to its call.                      *)
LEMMA FInvDecides == FInv => CompleteWindowDecides
<1> SUFFICES ASSUME FInv, \A c \in Calls : AtRest(c), NEW r \in Verdicts, r.call.id # ""
             PROVE  LET s == invocationOf(r, log, TRUE)
                        others == {x \in Verdicts \ {r} : x.call.id = r.call.id}
                    IN  /\ s = "not-invoked" => ~Ran(r.call)
                        /\ others = {} => s = IF Ran(r.call) THEN tool[r.call]
                                              ELSE "not-invoked"
  BY DEF CompleteWindowDecides
<1> DEFINE s == invocationOf(r, log, TRUE)
           others == {x \in Verdicts \ {r} : x.call.id = r.call.id}
<1>1. r.call \in Calls /\ HInv
  BY DEF Verdicts, FInv, HInv, TypeOK, Records
<1>2. ASSUME Ran(r.call) PROVE /\ tool[r.call] \in Results(r, log)
                               /\ Results(r, log) \subseteq {"ok", "error"}
  BY <1>1, <1>2, RunsAreJoined
<1>3. s = "not-invoked" => ~Ran(r.call)
  <2> SUFFICES ASSUME Ran(r.call) PROVE s # "not-invoked"
    OBVIOUS
  <2>1. CASE Conflicting(r, log)
    BY <2>1 DEF invocationOf
  <2>2. CASE ~Conflicting(r, log)
    <3>1. s \in Results(r, log)
      BY <1>2, <2>2 DEF invocationOf
    <3> QED
      BY <1>2, <3>1
  <2> QED
    BY <2>1, <2>2
<1>4. ASSUME others = {}
      PROVE  s = IF Ran(r.call) THEN tool[r.call] ELSE "not-invoked"
  <2>1. /\ ~Conflicting(r, log)
        /\ Results(r, log) \subseteq {tool[r.call]}
        /\ Results(r, log) # {} => Ran(r.call)
    BY <1>1, <1>4, AloneNoConflict
  <2>2. CASE Ran(r.call)
    <3>1. s \in Results(r, log)
      BY <1>2, <2>1, <2>2 DEF invocationOf
    <3> QED
      BY <2>1, <2>2, <3>1
  <2>3. CASE ~Ran(r.call)
    BY <2>1, <2>3 DEF invocationOf
  <2> QED
    BY <2>2, <2>3
<1> QED
  BY <1>3, <1>4

THEOREM CompleteWindowTells == Spec => []CompleteWindowDecides
BY FiledHolds, FInvDecides, PTL
=============================================================================

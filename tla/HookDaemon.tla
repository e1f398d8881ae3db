------------------------------ MODULE HookDaemon ------------------------------
(***************************************************************************)
(* One Claude Code session guarded by redstamp-hook (src/src/cc-hook.mjs   *)
(* and daemonCheck of client.mjs) and the daemon it asks (onConnection of  *)
(* daemon.mjs): the PreToolUse hook of each call, the tool, and the        *)
(* PostToolUse hook, with the audit records both processes write and what  *)
(* invocationOf of audit.mjs makes of them.                                *)
(*                                                                         *)
(* The hook and the daemon are two processes.  The hook gives up on a slow *)
(* answer, the daemon does not notice that it did; the daemon may be       *)
(* killed at any time and started again.  Each hook has a connection of    *)
(* its own, so its taint session sees one call and raises nothing.         *)
(***************************************************************************)
EXTENDS Verdict

CONSTANTS Calls,       \* tool calls: [id, session]; "" is an id that is no string
          Judge        \* the daemon has the judge tier

ASSUME CallsAssumption ==
  Calls \subseteq [id : STRING, session : STRING] /\ Judge \in BOOLEAN

VARIABLES
  up,      \* the daemon is running
  strict,  \* the hooks are strict (the policy or WARDEN_STRICT)
  rules,   \* per call: the decision of check()
  req,     \* per call: the hook's request, as the daemon has it
  reply,   \* per call: the decision the daemon answered
  hook,    \* per call: "idle", "asking", "deny", "ask" or "defer"
  tool,    \* per call: "waiting", "never", "ok" or "error"
  preq,    \* per call: the PostToolUse hook's request
  post,    \* per call: the PostToolUse hook: "idle", "asking" or "done"
  log      \* the records of the audit file

request == <<req, reply>>
vars == <<up, strict, rules, req, reply, hook, tool, preq, post, log>>

RANK == [allow |-> 0, approve |-> 1, block |-> 2]
RequestStates == {"none", "sent", "judging", "answered", "lost"}

(* verdictToHook, enforcedBy                                               *)
verdictToHook(decision, s) ==
  IF decision = "block" THEN "deny"
  ELSE IF decision = "approve" /\ s THEN "ask" ELSE "defer"
enforcedBy(kind) == CASE kind = "deny" -> "blocked"
                      [] kind = "ask"  -> "asked"
                      [] OTHER         -> "forwarded"

VerdictRecord(c, decision, enforced) ==
  [event |-> "verdict", call |-> c, decision |-> decision, enforced |-> enforced]
Audited(c, decision) == VerdictRecord(c, decision, enforcedBy(verdictToHook(decision, strict)))
invocationRecord(c) == [event |-> "invoked", call |-> c, result |-> tool[c]]

Records == [event : {"verdict"}, call : Calls, decision : Decisions,
            enforced : {"blocked", "asked", "forwarded"}]
             \union [event : {"invoked"}, call : Calls, result : {"ok", "error"}]

Init ==
  /\ up \in BOOLEAN /\ strict \in BOOLEAN
  /\ rules \in [Calls -> Decisions]
  /\ req = [c \in Calls |-> "none"] /\ reply = rules
  /\ hook = [c \in Calls |-> "idle"] /\ tool = [c \in Calls |-> "waiting"]
  /\ preq = [c \in Calls |-> "none"] /\ post = [c \in Calls |-> "idle"]
  /\ log = {}
-----------------------------------------------------------------------------
(* PreToolUse.  The request reaches a running daemon; with none, net       *)
(* .connect fails and the hook falls back at once.                         *)
FallBack(c) ==
  /\ hook' = [hook EXCEPT ![c] = verdictToHook(rules[c], strict)]
  /\ log' = log \union {Audited(c, rules[c])}
Ask(c) ==
  /\ hook[c] = "idle"
  /\ IF up THEN /\ req' = [req EXCEPT ![c] = "sent"]
                /\ hook' = [hook EXCEPT ![c] = "asking"]
                /\ UNCHANGED log
           ELSE FallBack(c) /\ UNCHANGED req
  /\ UNCHANGED <<up, strict, rules, reply, tool, preq, post>>

(* The daemon answers: record, then write.  The socket may be gone.        *)
AnswerWithoutEnforce(c, d) ==
  /\ req' = [req EXCEPT ![c] = "answered"]
  /\ reply' = [reply EXCEPT ![c] = d]
  /\ log' = log \union {VerdictRecord(c, d, enforcedBy(verdictToHook(d, FALSE)))}
Answer(c, d) ==
  /\ req' = [req EXCEPT ![c] = "answered"]
  /\ reply' = [reply EXCEPT ![c] = d]
  /\ log' = log \union {Audited(c, d)}

(* The daemon reads a request.  Without a judge it answers in this turn;   *)
(* with one it awaits checkAsync, which consults the judge or does not.    *)
DaemonReads(c) ==
  /\ up /\ req[c] = "sent"
  /\ IF Judge THEN /\ req' = [req EXCEPT ![c] = "judging"]
                   /\ UNCHANGED <<reply, log>>
              ELSE Answer(c, rules[c])
  /\ UNCHANGED <<up, strict, rules, hook, tool, preq, post>>
DaemonJudged(c) ==
  /\ up /\ req[c] = "judging"
  /\ \E d \in Decisions : RANK[d] >= RANK[rules[c]] /\ Answer(c, d)
  /\ UNCHANGED <<up, strict, rules, hook, tool, preq, post>>

(* The hook acts on the answer; the daemon has audited it.                 *)
Receive(c) ==
  /\ hook[c] = "asking" /\ req[c] = "answered"
  /\ hook' = [hook EXCEPT ![c] = verdictToHook(reply[c], strict)]
  /\ UNCHANGED <<up, strict, rules, request, tool, preq, post, log>>

(* Its read timeout, or a close or an error of the socket: check() in      *)
(* process, and an audit line of its own.                                  *)
GiveUpNoTimer(c) ==
  /\ hook[c] = "asking" /\ req[c] = "lost"
  /\ FallBack(c)
  /\ UNCHANGED <<up, strict, rules, request, tool, preq, post>>
GiveUp(c) ==
  /\ hook[c] = "asking"
  /\ FallBack(c)
  /\ UNCHANGED <<up, strict, rules, request, tool, preq, post>>

(* Claude Code: a denied call does not run; any other runs, or is refused  *)
(* by the user or by Claude Code's own rules.                              *)
RunTool(c) ==
  /\ hook[c] \in {"deny", "ask", "defer"} /\ tool[c] = "waiting"
  /\ \E t \in {"never", "ok", "error"} :
       /\ hook[c] = "deny" => t = "never"
       /\ tool' = [tool EXCEPT ![c] = t]
  /\ UNCHANGED <<up, strict, rules, request, hook, preq, post, log>>
-----------------------------------------------------------------------------
(* PostToolUse, PostToolUseFailure: recorded by the daemon, or by the hook *)
(* when the daemon does not say in time that it did; not at all if there   *)
(* is no id to join on.                                                    *)
PostAsk(c) ==
  /\ tool[c] \in {"ok", "error"} /\ post[c] = "idle"
  /\ IF c.id = "" THEN post' = [post EXCEPT ![c] = "done"] /\ UNCHANGED <<preq, log>>
     ELSE IF up THEN /\ post' = [post EXCEPT ![c] = "asking"]
                     /\ preq' = [preq EXCEPT ![c] = "sent"]
                     /\ UNCHANGED log
     ELSE /\ post' = [post EXCEPT ![c] = "done"]
          /\ log' = log \union {invocationRecord(c)}
          /\ UNCHANGED preq
  /\ UNCHANGED <<up, strict, rules, request, hook, tool>>

DaemonRecordsInvoked(c) ==
  /\ up /\ preq[c] = "sent"
  /\ preq' = [preq EXCEPT ![c] = "answered"]
  /\ log' = log \union {invocationRecord(c)}
  /\ UNCHANGED <<up, strict, rules, request, hook, tool, post>>

PostReceive(c) ==
  /\ post[c] = "asking" /\ preq[c] = "answered"
  /\ post' = [post EXCEPT ![c] = "done"]
  /\ UNCHANGED <<up, strict, rules, request, hook, tool, preq, log>>

PostGiveUpSilently(c) ==
  /\ post[c] = "asking"
  /\ post' = [post EXCEPT ![c] = "done"]
  /\ UNCHANGED <<up, strict, rules, request, hook, tool, preq, log>>
PostGiveUp(c) ==
  /\ post[c] = "asking"
  /\ post' = [post EXCEPT ![c] = "done"]
  /\ log' = log \union {invocationRecord(c)}
  /\ UNCHANGED <<up, strict, rules, request, hook, tool, preq>>
-----------------------------------------------------------------------------
(* The daemon is killed with every request it was working on and, perhaps, *)
(* the answers that had not arrived; and it is started again.              *)
Lose(r) ==
  {[c \in Calls |-> IF r[c] \in {"sent", "judging"} \/ (r[c] = "answered" /\ c \in L)
                      THEN "lost" ELSE r[c]] : L \in SUBSET Calls}
DaemonKilled ==
  /\ up /\ up' = FALSE
  /\ req' \in Lose(req) /\ preq' \in Lose(preq)
  /\ UNCHANGED <<strict, rules, reply, hook, tool, post, log>>
DaemonStarts ==
  /\ ~up /\ up' = TRUE
  /\ UNCHANGED <<strict, rules, request, hook, tool, preq, post, log>>

Hook(c) == Receive(c) \/ GiveUp(c)
PostHook(c) == PostAsk(c) \/ PostReceive(c) \/ PostGiveUp(c)
Next == \/ \E c \in Calls : \/ Ask(c) \/ Hook(c) \/ RunTool(c) \/ PostHook(c)
                            \/ DaemonReads(c) \/ DaemonJudged(c)
                            \/ DaemonRecordsInvoked(c)
        \/ DaemonKilled
        \/ DaemonStarts

(* The hooks are run to their end, which their timers bound.  Nothing is   *)
(* assumed of the daemon, the judge, the tool or the user.                 *)
Spec == Init /\ [][Next]_vars
             /\ \A c \in Calls : WF_vars(Hook(c)) /\ WF_vars(PostHook(c))
-----------------------------------------------------------------------------
(* invocationOf(verdict, records, { windowComplete })                      *)
Joined(v, records) == {r \in records : r.call.id = v.call.id}
Enforcements(v, records) ==
  {r.enforced : r \in {x \in Joined(v, records) : x.event = "verdict"} \union {v}}
Results(v, records) == {r.result : r \in {x \in Joined(v, records) : x.event = "invoked"}}
Conflicting(v, records) ==
  \/ \E r \in Joined(v, records) : r.call.session # v.call.session
  \/ Cardinality(Enforcements(v, records)) > 1
  \/ Cardinality(Results(v, records)) > 1
  \/ Results(v, records) # {} /\ v.enforced = "blocked"

invocationOfNewest(v, records, windowComplete) ==
  IF Results(v, records) # {} /\ v.enforced # "blocked"
    THEN CHOOSE x \in Results(v, records) : TRUE
  ELSE IF v.enforced = "blocked" \/ windowComplete THEN "not-invoked" ELSE "unknown"
invocationOf(v, records, windowComplete) ==
  IF v.call.id = "" THEN IF v.enforced = "blocked" THEN "not-invoked" ELSE "unknown"
  ELSE IF Conflicting(v, records) THEN "unknown"
  ELSE IF Results(v, records) # {} THEN CHOOSE x \in Results(v, records) : TRUE
  ELSE IF v.enforced = "blocked" \/ windowComplete THEN "not-invoked" ELSE "unknown"

Verdicts == {r \in log : r.event = "verdict"}
Ran(c) == tool[c] \in {"ok", "error"}

(* Nothing of this call is going on any more, in any process.              *)
AtRest(c) == /\ hook[c] = "idle" \/ tool[c] = "never" \/ post[c] = "done"
             /\ {req[c], preq[c]} \intersect {"sent", "judging"} = {}
-----------------------------------------------------------------------------
TypeOK ==
  /\ up \in BOOLEAN /\ strict \in BOOLEAN /\ rules \in [Calls -> Decisions]
  /\ req \in [Calls -> RequestStates] /\ preq \in [Calls -> RequestStates]
  /\ reply \in [Calls -> Decisions]
  /\ hook \in [Calls -> {"idle", "asking", "deny", "ask", "defer"}]
  /\ tool \in [Calls -> {"waiting", "never", "ok", "error"}]
  /\ post \in [Calls -> {"idle", "asking", "done"}]
  /\ log \subseteq Records

(* "conflicts fail closed": at every moment, whatever was answered late,   *)
(* lost, written twice or killed, and though two sessions use the same     *)
(* tool_use_id, the evidence never says of a call that ran that it did     *)
(* not, nor of one that did not run, or ran otherwise, that it did.  A     *)
(* verdict without an id is left out: `enforced` is all there is to read   *)
(* it by, and the daemon may have written that for an answer that came     *)
(* too late.                                                               *)
EvidenceIsTrue ==
  \A v \in {x \in Verdicts : x.call.id # ""} :
    LET s == invocationOf(v, log, FALSE) IN
    /\ s = "not-invoked" => ~Ran(v.call)
    /\ s \in {"ok", "error"} => tool[v.call] = s

(* When a caller vouches for a window in which everything has come to      *)
(* rest, a verdict with an id that nothing else uses tells what happened,  *)
(* and says "unknown" only where the daemon and the hook both acted on the *)
(* call.                                                                   *)
CompleteWindowDecides ==
  (\A c \in Calls : AtRest(c)) =>
    \A v \in {x \in Verdicts : x.call.id # ""} :
      LET s == invocationOf(v, log, TRUE)
          others == {x \in Verdicts \ {v} : x.call.id = v.call.id}
      IN /\ s = "not-invoked" => ~Ran(v.call)
         /\ others = {} => s = IF Ran(v.call) THEN tool[v.call] ELSE "not-invoked"

(* What a hook told Claude Code is on file as what was enforced, whichever *)
(* process wrote the record and however strict the hook is.                *)
AnswerIsAudited ==
  \A c \in Calls : hook[c] \notin {"idle", "asking"} =>
    \E v \in Verdicts : v.call = c /\ v.enforced = enforcedBy(hook[c])

(* No race with the daemon lets through what the rules alone would stop.   *)
RulesStand ==
  \A c \in Calls : hook[c] \notin {"idle", "asking"} =>
    /\ rules[c] = "block" => hook[c] = "deny" /\ ~Ran(c)
    /\ rules[c] = "approve" /\ strict => hook[c] # "defer"

(* cc-hook.mjs:96-107: whoever decided, the daemon or the hook itself, the *)
(* rules stand and what Claude Code was told is on file.                   *)
AnswerStands == RulesStand /\ AnswerIsAudited

(* The hooks, the daemons that come and go and the file they both write    *)
(* keep what was promised: each call gets one answer, which never changes, *)
(* is no milder than the rules and is on file as what was enforced; the    *)
(* file only grows, and a run is on it only after it happened.             *)
Marks == {<<r.call, r.enforced>> : r \in Verdicts}
Runs  == {<<r.call, r.result>> : r \in log \ Verdicts}
Promise == INSTANCE HookPromise WITH marks <- Marks, runs <- Runs
PromiseKept == Promise!Spec

(* A hook that asked answers Claude Code though the daemon never does, and *)
(* every run of a tool that can be joined to its verdict gets on file.     *)
HookAnswers == \A c \in Calls : hook[c] = "asking" ~> hook[c] \notin {"idle", "asking"}
EveryRunIsRecorded ==
  \A c \in Calls : (Ran(c) /\ c.id # "") ~> (invocationRecord(c) \in log)
=============================================================================

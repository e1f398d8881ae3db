------------------------------- MODULE McpProxy -------------------------------
(***************************************************************************)
(* The MCP stdio proxy (src/src/mcp-proxy.mjs) between one client and one  *)
(* server: inspectClientLine and inspectServerLine with the state they     *)
(* share, state.pending, and runProxy, which keeps the audit in memory and *)
(* flushes it when the server exits.  A line is inspected and passed on in *)
(* one turn; the server answers in any order, also what it answered        *)
(* before, and makes requests of its own.  A line that does not parse      *)
(* changes nothing here.  The proxy may be started again with the same     *)
(* --audit file.                                                           *)
(*                                                                         *)
(* The verdict on a call is decide()'s or TaintSession's and is left open  *)
(* here, and with it --no-taint.                                           *)
(***************************************************************************)
EXTENDS Integers, Sequences, FiniteSets

CONSTANTS Ids,           \* JSON-RPC ids the client uses
          ServerIds,     \* JSON-RPC ids the server gives its own requests
          Screens,       \* what strip and scanResults may be
          MaxRequests,   \* bound: client requests in a session
          MaxSessions    \* bound: times the proxy is started

ASSUME ProxyAssumption ==
  MaxRequests \in Nat /\ MaxSessions \in Nat /\ Screens \subseteq BOOLEAN

Screened == {"tools/list", "tools/call", "resources/read", "prompts/get"}
Methods  == Screened \union {"other"}
Decisions == {"allow", "approve", "block"}

VARIABLES
  up,           \* the proxy and its server are running
  allowApprove, \* --allow-approve was given
  strip,        \* --no-strip was not
  scanResults,  \* --no-scan-results was not
  sessions,     \* how many times it was started
  asked,        \* client requests of this session
  pending,      \* state.pending; "none" for an id that is not in it
  atServer,     \* requests the server has and the client waits for
  delivered,    \* history: the answers the client got this session, [method, body]
  reached,      \* history: the tools/calls of this session that got through
  entries,      \* the AuditLog of this session
  log           \* the lines of the --audit file

opts == <<allowApprove, strip, scanResults>>
session == <<up, opts, sessions, asked>>
vars == <<up, opts, sessions, asked, pending, atServer, delivered,
          reached, entries, log>>

Requests == [n : 1 .. MaxRequests, id : Ids, method : Methods]
Verdicts == [session : 1 .. MaxSessions, n : 1 .. MaxRequests,
             decision : Decisions, enforced : {"blocked", "forwarded"}]
Log == INSTANCE AuditLog WITH Recs <- Verdicts

Init ==
  /\ up = FALSE /\ allowApprove = FALSE /\ strip = TRUE /\ scanResults = TRUE
  /\ sessions = 0 /\ asked = 0
  /\ pending = [i \in Ids \union ServerIds |-> "none"]
  /\ atServer = {} /\ delivered = {} /\ reached = {}
  /\ entries = << >> /\ log = << >>

(* runProxy: a new process, with new state.                                *)
Start ==
  /\ ~up /\ sessions < MaxSessions
  /\ up' = TRUE
  /\ allowApprove' \in BOOLEAN /\ strip' \in Screens /\ scanResults' \in Screens
  /\ sessions' = sessions + 1 /\ asked' = 0
  /\ pending' = [i \in Ids \union ServerIds |-> "none"]
  /\ atServer' = {} /\ delivered' = {} /\ reached' = {} /\ entries' = << >>
  /\ UNCHANGED log

Forward(q) ==
  /\ atServer' = atServer \union {q}
  /\ UNCHANGED delivered

(* The client sends its next request; an id is free when it was answered.  *)
NextRequest(q) ==
  /\ up /\ asked < MaxRequests
  /\ q.n = asked + 1
  /\ \A p \in atServer : p.id # q.id
  /\ asked' = asked + 1

(* inspectClientLine: tools/call.  `pending` is set before the verdict.    *)
BlocksBlackOnly(decision) == decision = "block"
Blocks(decision) == decision = "block" \/ (decision = "approve" /\ ~allowApprove)
Verdict(q, d) ==
  [session |-> sessions, n |-> q.n, decision |-> d,
   enforced |-> IF Blocks(d) THEN "blocked" ELSE "forwarded"]
ToolCall(q, d) ==
  /\ q.method = "tools/call" /\ NextRequest(q)
  /\ pending' = [pending EXCEPT ![q.id] = q.method]
  /\ entries' = Log!record(entries, Verdict(q, d))
  /\ IF Blocks(d)
       THEN /\ delivered' = delivered \union {[method |-> q.method, body |-> "refusal"]}
            /\ UNCHANGED <<atServer, reached>>
       ELSE /\ reached' = reached \union {q.n}
            /\ Forward(q)
  /\ UNCHANGED <<up, opts, sessions, log>>

(* inspectClientLine: any other request is remembered and forwarded.       *)
OtherRequest(q) ==
  /\ q.method # "tools/call" /\ NextRequest(q)
  /\ pending' = [pending EXCEPT ![q.id] = q.method]
  /\ Forward(q)
  /\ UNCHANGED <<up, opts, sessions, reached, entries, log>>

(* inspectServerLine: an answer.  A result is screened by the method its   *)
(* id is remembered under: poisoned tools are stripped, an injected result *)
(* is replaced, or there is only a warning if that was opted out of.  A    *)
(* JSON-RPC error passes as it is.                                         *)
Neutralized(method) == IF method = "tools/list" THEN strip ELSE scanResults
inspectedToolsOnly(method, body) ==
  IF body # "poisoned" \/ method \notin {"tools/list", "tools/call"} THEN body
  ELSE IF Neutralized(method) THEN "screened" ELSE "warned of"
inspected(method, body) ==
  IF body # "poisoned" \/ method \notin Screened THEN body
  ELSE IF Neutralized(method) THEN "screened" ELSE "warned of"
ServerAnswer(q, body) ==
  /\ q \in atServer
  /\ pending' = [pending EXCEPT ![q.id] = "none"]
  /\ delivered' = delivered \union
       {[method |-> q.method, body |-> inspected(pending[q.id], body)]}
  /\ atServer' = atServer \ {q}
  /\ UNCHANGED <<session, reached, entries, log>>

(* inspectServerLine: an answer the client does not wait for, to a request *)
(* that was answered already or blocked here.  It is passed on like any    *)
(* other; the client drops it.                                             *)
StrayAnswer(i) ==
  /\ up /\ \A p \in atServer : p.id # i
  /\ pending' = [pending EXCEPT ![i] = "none"]
  /\ UNCHANGED <<session, atServer, delivered, reached, entries, log>>

(* inspectServerLine: a request of the server's own has an id, a method    *)
(* and no result, so it takes the last branch.                             *)
ServerRequest(i) ==
  /\ up
  /\ pending' = [pending EXCEPT ![i] = "none"]
  /\ UNCHANGED <<session, atServer, delivered, reached, entries, log>>

Gone == /\ up /\ up' = FALSE
        /\ atServer' = {}
        /\ UNCHANGED <<opts, sessions, asked, pending, delivered, reached, entries>>

(* The server exits: child.on('exit') flushes.  Or the proxy is killed.    *)
ServerExits == Gone /\ log' = Log!flush(log, entries)
ProxyKilled == Gone /\ UNCHANGED log

Answer(q) == \E body \in {"clean", "poisoned", "error"} : ServerAnswer(q, body)
Next ==
  \/ Start
  \/ \E q \in Requests, d \in Decisions : ToolCall(q, d)
  \/ \E q \in Requests : OtherRequest(q)
  \/ \E q \in Requests : Answer(q)
  \/ \E i \in Ids : StrayAnswer(i)
  \/ \E i \in ServerIds : ServerRequest(i)
  \/ ServerExits
  \/ ProxyKilled

Spec == Init /\ [][Next]_vars
-----------------------------------------------------------------------------
TypeOK ==
  /\ {up, allowApprove, strip, scanResults} \subseteq BOOLEAN
  /\ sessions \in 0 .. MaxSessions /\ asked \in 0 .. MaxRequests
  /\ pending \in [Ids \union ServerIds -> Methods \union {"none"}]
  /\ atServer \subseteq Requests
  /\ delivered \subseteq [method : Methods,
                          body : {"clean", "poisoned", "error", "screened",
                                   "warned of", "refusal"}]
  /\ reached \subseteq 1 .. MaxRequests
  /\ entries \in Seq(Log!Lines) /\ log \in Seq(Log!Lines)

(* "poisoned tools are stripped from tools/list before the client ever     *)
(* sees them" and injection "in returned content is neutralized across     *)
(* every server->client channel that carries it": whatever order requests, *)
(* blocks, answers and reuses of ids come in, nothing is let through that  *)
(* the options do not let through with a warning.                          *)
NothingPoisonedDelivered ==
  /\ \A m \in Screened : [method |-> m, body |-> "poisoned"] \notin delivered
  /\ strip => [method |-> "tools/list", body |-> "warned of"] \notin delivered
  /\ scanResults => \A m \in Screened \ {"tools/list"} :
                      [method |-> m, body |-> "warned of"] \notin delivered

(* The log says what was done: of the calls this session was asked to make *)
(* each has one entry, and it says `forwarded` exactly when the server got *)
(* the call and `blocked` only under a decision that blocks it.  Its chain *)
(* verifies, and so does the file as long as it holds one session.         *)
AuditSaysWhatWasDone ==
  /\ Log!verify(entries)
  /\ sessions = 1 => Log!VerifyAuditFile(log, {})
  /\ \A n \in 1 .. asked :
       LET mine == {i \in DOMAIN entries : entries[i].rec.n = n}
           call == n \in reached \/ mine # {}
       IN call => /\ Cardinality(mine) = 1
                  /\ \A i \in mine :
                       LET r == entries[i].rec IN
                       /\ (r.enforced = "forwarded") = (n \in reached)
                       /\ r.decision = "allow" => n \in reached
                       /\ r.decision = "block" => n \notin reached
                       /\ r.decision = "approve" => (n \in reached) = allowApprove
=============================================================================

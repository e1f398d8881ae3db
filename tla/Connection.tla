------------------------------ MODULE Connection ------------------------------
(***************************************************************************)
(* The daemon's connections (onConnection of src/src/daemon.mjs): requests *)
(* are lines, which arrive in pieces; a data handler reads line after line *)
(* and waits for the judge in between, while other handlers of the same    *)
(* connection read on in the same buffer.  Meanwhile the policy file is    *)
(* written and reloaded.  One handler runs at a time, from one await to    *)
(* the next.                                                               *)
(***************************************************************************)
EXTENDS Integers, Sequences, FiniteSets

CONSTANTS Conns, NoConn,
          Policies,      \* contents of the policy file
          Default,       \* loadPolicy's answer to a file that is no JSON
          Decides,       \* per policy: what a call is decided under it
          Strict,        \* per policy: its strict setting
          Torn,          \* the file while it is being written
          Sends,         \* requests the clients make
          MaxRequests,   \* bound: requests on a connection
          MaxSaves,      \* bound: times the file is written
          Cap            \* pieces a connection may have buffered

(* A raw hook payload before or after the tool, a library client's action, *)
(* a stats command, a line that is no JSON.  A gray call goes to the judge *)
(* if there is one.  A line arrives in pieces, its break with the last.    *)
Calls == {"hook", "action"}
Requests == [kind : {"hook", "action", "post", "stats", "garbage"}, auth : BOOLEAN, gray : BOOLEAN,
             pieces : 1 .. Cap]

ASSUME ConnectionAssumption ==
  /\ NoConn \notin Conns /\ Default \in Policies /\ Torn \notin Policies
  /\ Decides \in [Policies -> {"block", "approve", "allow"}]
  /\ Strict \in [Policies -> BOOLEAN]
  /\ Sends \subseteq Requests
  /\ MaxRequests \in Nat /\ MaxSaves \in Nat /\ Cap \in Nat

VARIABLES
  judge,     \* the daemon has a judge, and then no taint sessions
  patient,   \* per connection: its client waits for each answer
  status,    \* per connection: "new", "open" or "gone"
  session,   \* per connection: the policy its TaintSession was built with
  sent,      \* per connection: the requests so far
  wire,      \* per connection: pieces under way, [n, end]
  buf,       \* per connection: `buf`, the pieces not read yet
  waiting,   \* calls a handler awaits the judge for
  replies,   \* per connection: what the client was told, [n, told]
  turn,      \* the connection whose handler runs, NoConn between events
  policy, config, event, saves,   \* the live policy, the file, a watch event, writes
  served, log

client == <<judge, patient>>
files == <<policy, config, event, saves>>
vars == <<client, status, session, sent, wire, buf, waiting, replies, turn, files, served, log>>

loadPolicy(file) == IF file = Torn THEN Default ELSE file

Init ==
  /\ judge \in BOOLEAN /\ patient \in [Conns -> BOOLEAN]
  /\ status = [c \in Conns |-> "new"]
  /\ sent = [c \in Conns |-> << >>] /\ wire = sent /\ buf = sent /\ replies = sent
  /\ waiting = {} /\ turn = NoConn
  /\ config \in Policies /\ policy = config /\ event = FALSE /\ saves = 0
  /\ session = [c \in Conns |-> policy]
  /\ served = 0 /\ log = << >>

Connect(c) ==
  /\ status[c] = "new" /\ turn = NoConn
  /\ status' = [status EXCEPT ![c] = "open"]
  /\ session' = [session EXCEPT ![c] = policy]
  /\ UNCHANGED <<client, sent, wire, buf, waiting, replies, turn, files, served, log>>

(* The client writes a request.                                            *)
Send(c, r) ==
  LET n == Len(sent[c]) + 1 IN
  /\ status[c] = "open" /\ n <= MaxRequests
  /\ patient[c] => Len(replies[c]) = n - 1
  /\ sent' = [sent EXCEPT ![c] = Append(@, r)]
  /\ wire' = [wire EXCEPT ![c] = @ \o [i \in 1 .. r.pieces |-> [n |-> n, end |-> i = r.pieces]]]
  /\ UNCHANGED <<client, status, session, buf, waiting, replies, turn, files, served, log>>

Gone(c) == /\ status' = [status EXCEPT ![c] = "gone"]
           /\ wire' = [wire EXCEPT ![c] = << >>]

(* sock.on('data'): k pieces arrive; beyond the cap the socket is          *)
(* destroyed, and what is buffered stays for the handlers that wait.       *)
Data(c) ==
  /\ turn = NoConn /\ status[c] = "open"
  /\ \E k \in 1 .. Len(wire[c]) :
       /\ buf' = [buf EXCEPT ![c] = @ \o SubSeq(wire[c], 1, k)]
       /\ IF Len(buf'[c]) > Cap THEN Gone(c) /\ UNCHANGED turn
          ELSE /\ wire' = [wire EXCEPT ![c] = SubSeq(@, k + 1, Len(@))]
               /\ turn' = c /\ UNCHANGED status
  /\ UNCHANGED <<client, session, sent, waiting, replies, files, served, log>>

(* The client goes away, or the socket was idle for 30 s: with a call at   *)
(* the judge, which gives up after 8 s, it is not.                         *)
Close(c) ==
  /\ status[c] = "open" /\ turn = NoConn /\ Gone(c)
  /\ UNCHANGED <<client, session, sent, buf, waiting, replies, turn, files, served, log>>
-----------------------------------------------------------------------------
verdictToHook(decision, strict) ==
  IF decision = "block" THEN "deny" ELSE IF decision = "approve" /\ strict THEN "ask" ELSE ""
enforcedBy(d) == IF d = "deny" THEN "blocked" ELSE IF d = "ask" THEN "asked" ELSE "forwarded"

(* sock.write; nothing comes of it on a socket that was destroyed.         *)
Write(c, n, told) ==
  replies' = IF status[c] = "open"
               THEN [replies EXCEPT ![c] = Append(@, [n |-> n, told |-> told])] ELSE replies
Record(c, n, what, enforced) ==
  log' = Append(log, [c |-> c, n |-> n, what |-> what, enforced |-> enforced])

(* The end of a call: w is the call, its decision and the strict setting   *)
(* that was read before the decision.  A node hook has its own setting.    *)
FinishStrictNow(w, decision) ==
  LET d == verdictToHook(decision, w.strict)
      hook == sent[w.c][w.n].kind = "hook"
  IN /\ served' = served + 1
     /\ Record(w.c, w.n, decision, enforcedBy(d))
     /\ Write(w.c, w.n, IF hook THEN verdictToHook(decision, Strict[policy]) ELSE decision)
Finish(w, decision) ==
  LET d == verdictToHook(decision, w.strict)
      hook == sent[w.c][w.n].kind = "hook"
  IN /\ served' = served + 1
     /\ Record(w.c, w.n, decision, enforcedBy(d))
     /\ Write(w.c, w.n, IF hook THEN d ELSE decision)

(* The next line of the buffer.                                            *)
HasLine(c) == \E i \in DOMAIN buf[c] : buf[c][i].end
LineEnd(c) == CHOOSE i \in DOMAIN buf[c] : /\ buf[c][i].end
                                           /\ \A j \in 1 .. i - 1 : ~buf[c][j].end
Next_n(c) == buf[c][LineEnd(c)].n
TakeLine(c) == buf' = [buf EXCEPT ![c] = SubSeq(@, LineEnd(c) + 1, Len(@))]

(* The handler has read all lines and returns.                             *)
HandlerReturns(c) ==
  /\ turn = c /\ ~HasLine(c) /\ turn' = NoConn
  /\ UNCHANGED <<client, status, session, sent, wire, buf, waiting, replies, files, served, log>>

Refused(r) == r.kind # "garbage" /\ ~r.auth
(* A line that is no call it may make: it is answered at once.             *)
AnswerOther(c) ==
  /\ turn = c /\ HasLine(c) /\ TakeLine(c)
  /\ LET n == Next_n(c)
         r == sent[c][n]
     IN /\ Refused(r) \/ r.kind \notin Calls
        /\ Write(c, n, IF r.kind = "garbage" THEN "bad json"
                       ELSE IF Refused(r) THEN IF r.kind = "action" THEN "unauthorized" ELSE ""
                       ELSE IF r.kind = "stats" THEN "stats" ELSE "")
        /\ IF r.kind = "post" /\ r.auth THEN Record(c, n, "invoked", "invoked")
           ELSE UNCHANGED log
  /\ UNCHANGED <<client, status, session, sent, wire, waiting, turn, files, served>>

(* check, TaintSession.check or checkAsync.  Only a call the judge is      *)
(* consulted on makes the handler wait for more than the current event.    *)
CallPolicy(c) == IF judge THEN policy ELSE session[c]
AnswerCallAlwaysWaits(c) ==
  /\ turn = c /\ HasLine(c) /\ TakeLine(c)
  /\ LET n == Next_n(c)
         r == sent[c][n]
         w == [c |-> c, n |-> n, decision |-> Decides[CallPolicy(c)],
               strict |-> IF r.kind = "hook" THEN Strict[policy] ELSE TRUE]
     IN r.kind \in Calls /\ r.auth /\ waiting' = waiting \union {w}
  /\ turn' = NoConn
  /\ UNCHANGED <<client, status, session, sent, wire, replies, files, served, log>>
AnswerCall(c) ==
  /\ turn = c /\ HasLine(c) /\ TakeLine(c)
  /\ LET n == Next_n(c)
         r == sent[c][n]
         decision == Decides[CallPolicy(c)]
         w == [c |-> c, n |-> n, decision |-> decision,
               strict |-> IF r.kind = "hook" THEN Strict[policy] ELSE TRUE]
     IN /\ r.kind \in Calls /\ r.auth
        /\ IF judge /\ r.gray /\ decision # "block"
             THEN waiting' = waiting \union {w} /\ turn' = NoConn /\ UNCHANGED <<replies, served, log>>
             ELSE Finish(w, decision) /\ UNCHANGED <<waiting, turn>>
  /\ UNCHANGED <<client, status, session, sent, wire, files>>

(* The judge has answered, or given up: the handler resumes.               *)
JudgeAnswersLast(c) ==
  /\ turn = NoConn
  /\ \E w \in waiting, raised \in {"block", "same"} :
       /\ w.c = c
       /\ waiting' = waiting \ {w}
       /\ Finish(w, IF raised = "block" THEN "block" ELSE w.decision)
  /\ UNCHANGED <<client, status, session, sent, wire, buf, turn, files>>
JudgeAnswers(c) ==
  /\ turn = NoConn
  /\ \E w \in waiting, raised \in {"block", "same"} :
       /\ w.c = c
       /\ waiting' = waiting \ {w}
       /\ Finish(w, IF raised = "block" THEN "block" ELSE w.decision)
  /\ turn' = c
  /\ UNCHANGED <<client, status, session, sent, wire, buf, files>>
-----------------------------------------------------------------------------
(* The file is written in place, and the watcher sees either write.        *)
SaveBegins ==
  /\ saves < MaxSaves /\ config # Torn
  /\ config' = Torn /\ event' = TRUE /\ saves' = saves + 1
  /\ UNCHANGED <<client, status, session, sent, wire, buf, waiting, replies, turn, policy, served, log>>
SaveEnds(p) ==
  /\ config = Torn
  /\ config' = p /\ event' = TRUE
  /\ UNCHANGED <<client, status, session, sent, wire, buf, waiting, replies, turn, policy, saves, served, log>>
(* Faulty variant: a file that does not parse is not read again.           *)
ReloadOnce ==
  /\ turn = NoConn /\ event
  /\ event' = FALSE
  /\ policy' = IF policy = Default THEN policy ELSE loadPolicy(config)
  /\ UNCHANGED <<client, status, session, sent, wire, buf, waiting, replies, turn, config, saves, served, log>>
Reload ==
  /\ turn = NoConn /\ event
  /\ event' = FALSE /\ policy' = loadPolicy(config)
  /\ UNCHANGED <<client, status, session, sent, wire, buf, waiting, replies, turn, config, saves, served, log>>

Handler(c) == HandlerReturns(c) \/ AnswerOther(c) \/ AnswerCall(c)
Next == \/ \E c \in Conns : \/ Connect(c) \/ \E r \in Sends : Send(c, r)
                            \/ Data(c) \/ Close(c) \/ Handler(c) \/ JudgeAnswers(c)
        \/ SaveBegins \/ \E p \in Policies : SaveEnds(p)
        \/ Reload
(* The event loop runs what it is given: a handler to its end, data that   *)
(* arrived, a judge that answers or times out, a watch event.  A write     *)
(* that was begun ends.  Nothing makes a client send or close.             *)
Fairness ==
  /\ \A c \in Conns : WF_vars(Handler(c)) /\ WF_vars(Data(c)) /\ WF_vars(JudgeAnswers(c))
  /\ WF_vars(Reload) /\ WF_vars(\E p \in Policies : SaveEnds(p))
Spec == Init /\ [][Next]_vars /\ Fairness
-----------------------------------------------------------------------------
(* daemon.mjs:113-134: what a client is told of a call is what the log has *)
(* as decided and enforced, whatever policy came in while the judge was    *)
(* thinking and in whatever order the handlers of a connection resumed;    *)
(* and nothing is on record but authorised calls and reports, each once.   *)
Shown(r, e) == IF r.kind # "hook" THEN e.what
               ELSE IF e.enforced = "blocked" THEN "deny"
               ELSE IF e.enforced = "asked" THEN "ask" ELSE ""
ToldIsRecorded ==
  /\ \A c \in Conns : \A k \in DOMAIN replies[c] :
       LET p == replies[c][k]
           r == sent[c][p.n]
       IN r.kind \in Calls /\ r.auth =>
            \E i \in DOMAIN log : log[i].c = c /\ log[i].n = p.n /\ Shown(r, log[i]) = p.told
  /\ \A i \in DOMAIN log :
       /\ sent[log[i].c][log[i].n].auth
       /\ \A j \in DOMAIN log : log[i].c = log[j].c /\ log[i].n = log[j].n => i = j

(* Replies carry no id: the client takes the k-th one for the answer to    *)
(* its k-th request.  It is, if the client waits for each answer or the    *)
(* daemon has no judge; with both a judge and a pipeline it need not be.   *)
RepliesInOrder ==
  \A c \in Conns : patient[c] \/ ~judge =>
    \A k \in DOMAIN replies[c] : replies[c][k].n = k

(* Every request is answered, or its connection is gone: also one that was *)
(* read into the buffer while a handler waited for the judge.              *)
EveryLineIsAnswered ==
  \A c \in Conns : \A n \in 1 .. MaxRequests :
    (Len(sent[c]) >= n) ~>
      (status[c] = "gone" \/ \E k \in DOMAIN replies[c] : replies[c][k].n = n)

(* daemon.mjs:58-63: the live policy comes to be the file's, though reloads *)
(* may find it half written.                                               *)
PolicySettles == <>[](policy = loadPolicy(config) /\ config # Torn)
=============================================================================

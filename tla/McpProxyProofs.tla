---------------------------- MODULE McpProxyProofs ----------------------------
(***************************************************************************)
(* The proxy's promise to its client, for any set of ids and any number of *)
(* requests and sessions, as long as the server numbers its own requests   *)
(* apart from the client's; its log; its framer, for any stream cut in any *)
(* way; and its scanners, for any name, any description and any host.      *)
(***************************************************************************)
EXTENDS McpProxy, FramerSteps, ScanSteps, FiniteSetTheorems, SequenceTheorems, TLAPS

F == INSTANCE AuditFileProofs WITH Recs <- Verdicts

ApartIds == Ids \cap ServerIds = {}

(* A request the server still has is remembered under its own method, and  *)
(* no other one has its id.                                                *)
Remembered ==
  \A q \in atServer : /\ pending[q.id] = q.method
                      /\ \A p \in atServer : p.id = q.id => p = q
PInv ==
  /\ pending \in [Ids \union ServerIds -> Methods \union {"none"}]
  /\ atServer \subseteq Requests
  /\ Remembered
  /\ NothingPoisonedDelivered

(* docs/mcp.md:33-35: no poisoned tool list and no injected result reaches *)
(* the client by any order of requests, blocks, answers and reused ids.    *)
THEOREM ClientIsScreened == ASSUME ApartIds PROVE Spec => []NothingPoisonedDelivered
<1>1. Init => PInv
  BY DEF Init, PInv, Remembered, NothingPoisonedDelivered
<1>2. PInv /\ [Next]_vars => PInv'
  <2> SUFFICES ASSUME PInv, [Next]_vars PROVE PInv'
    OBVIOUS
  <2>1. CASE Start
    BY <2>1 DEF Start, PInv, Remembered, NothingPoisonedDelivered
  <2>2. ASSUME NEW q \in Requests, NextRequest(q),
               pending' = [pending EXCEPT ![q.id] = q.method]
        PROVE  /\ pending' \in [Ids \union ServerIds -> Methods \union {"none"}]
               /\ pending'[q.id] = q.method
               /\ \A p \in atServer : p.id # q.id /\ pending'[p.id] = pending[p.id]
    BY <2>2 DEF PInv, NextRequest, Requests
  <2>3. ASSUME NEW q \in Requests, NEW d \in Decisions, ToolCall(q, d)
        PROVE  PInv'
    <3>1. /\ pending' \in [Ids \union ServerIds -> Methods \union {"none"}]
          /\ pending'[q.id] = q.method
          /\ \A p \in atServer : p.id # q.id /\ pending'[p.id] = pending[p.id]
      BY <2>2, <2>3 DEF ToolCall
    <3>2. atServer' \subseteq atServer \union {q}
      BY <2>3 DEF ToolCall, Forward
    <3>3. Remembered' /\ atServer' \subseteq Requests
      BY <3>1, <3>2 DEF PInv, Remembered
    <3>4. strip' = strip /\ scanResults' = scanResults
      BY <2>3 DEF ToolCall, opts
    <3>5. delivered' \subseteq delivered \union {[method |-> q.method, body |-> "refusal"]}
      BY <2>3 DEF ToolCall, Forward
    <3>6. NothingPoisonedDelivered'
      BY <3>4, <3>5 DEF PInv, NothingPoisonedDelivered
    <3> QED
      BY <3>1, <3>3, <3>6 DEF PInv
  <2>4. ASSUME NEW q \in Requests, OtherRequest(q)
        PROVE  PInv'
    <3>1. /\ pending' \in [Ids \union ServerIds -> Methods \union {"none"}]
          /\ pending'[q.id] = q.method
          /\ \A p \in atServer : p.id # q.id /\ pending'[p.id] = pending[p.id]
      BY <2>2, <2>4 DEF OtherRequest
    <3>2. atServer' = atServer \union {q}
      BY <2>4 DEF OtherRequest, Forward
    <3>3. Remembered' /\ atServer' \subseteq Requests
      BY <3>1, <3>2 DEF PInv, Remembered
    <3>4. NothingPoisonedDelivered'
      BY <2>4 DEF OtherRequest, Forward, opts, PInv, NothingPoisonedDelivered
    <3> QED
      BY <3>1, <3>3, <3>4 DEF PInv
  <2>5. ASSUME NEW q \in Requests, NEW body \in {"clean", "poisoned", "error"},
               ServerAnswer(q, body)
        PROVE  PInv'
    <3>1. /\ q \in atServer /\ q.id \in Ids /\ pending[q.id] = q.method
          /\ atServer' = atServer \ {q}
          /\ pending' = [pending EXCEPT ![q.id] = "none"]
      BY <2>5 DEF ServerAnswer, PInv, Remembered, Requests
    <3>2. Remembered' /\ atServer' \subseteq Requests
      BY <3>1 DEF PInv, Remembered, Requests
    <3>3. pending' \in [Ids \union ServerIds -> Methods \union {"none"}]
      BY <3>1 DEF PInv
    <3>4. delivered' = delivered \union {[method |-> q.method, body |-> inspected(q.method, body)]}
      BY <2>5, <3>1 DEF ServerAnswer
    <3>5. strip' = strip /\ scanResults' = scanResults
      BY <2>5 DEF ServerAnswer, session, opts
    <3>6. NothingPoisonedDelivered'
      BY <3>4, <3>5 DEF inspected, Neutralized, Screened, PInv, NothingPoisonedDelivered
    <3> QED
      BY <3>2, <3>3, <3>6 DEF PInv
  <2>6. ASSUME NEW i \in ServerIds, ServerRequest(i)
        PROVE  PInv'
    <3>1. /\ pending' \in [Ids \union ServerIds -> Methods \union {"none"}]
          /\ \A j \in Ids : pending'[j] = pending[j]
      BY <2>6 DEF ServerRequest, PInv, ApartIds
    <3>2. UNCHANGED <<atServer, delivered, strip, scanResults>>
      BY <2>6 DEF ServerRequest, session, opts
    <3> QED
      BY <3>1, <3>2 DEF PInv, Remembered, Requests, NothingPoisonedDelivered
  <2>7. ASSUME NEW i \in Ids, StrayAnswer(i)
        PROVE  PInv'
    <3>1. /\ pending' \in [Ids \union ServerIds -> Methods \union {"none"}]
          /\ \A q \in atServer : pending'[q.id] = pending[q.id]
      BY <2>7 DEF StrayAnswer, PInv, Requests
    <3>2. UNCHANGED <<atServer, delivered, strip, scanResults>>
      BY <2>7 DEF StrayAnswer, session, opts
    <3> QED
      BY <3>1, <3>2 DEF PInv, Remembered, NothingPoisonedDelivered
  <2>8. CASE Gone
    BY <2>8 DEF Gone, opts, PInv, Remembered, NothingPoisonedDelivered
  <2>9. CASE UNCHANGED vars
    BY <2>9 DEF vars, opts, PInv, Remembered, NothingPoisonedDelivered
  <2> QED
    BY <2>1, <2>3, <2>4, <2>5, <2>6, <2>7, <2>8, <2>9
       DEF Next, Answer, ServerExits, ProxyKilled
<1>3. PInv => NothingPoisonedDelivered
  BY DEF PInv
<1> QED
  BY <1>1, <1>2, <1>3, PTL DEF Spec
-----------------------------------------------------------------------------
(* An entry is of a call that was asked for; it says what was done with    *)
(* it, which is what its decision asks for.                                *)
Tells(r, forwarded) ==
  /\ (r.enforced = "forwarded") <=> forwarded
  /\ ~forwarded <=> Blocks(r.decision)
  /\ r.decision \in Decisions
Booked ==
  /\ F!ChainOf(entries)
  /\ reached \subseteq 1 .. asked
  /\ \A i \in DOMAIN entries :
       /\ entries[i].rec.n \in 1 .. asked
       /\ Tells(entries[i].rec, entries[i].rec.n \in reached)
       /\ \A j \in DOMAIN entries : entries[j].rec.n = entries[i].rec.n => j = i
  /\ \A n \in reached : \E i \in DOMAIN entries : entries[i].rec.n = n

(* The first session finds no file, and leaves none or its own chain.      *)
Flushed ==
  /\ up \in BOOLEAN /\ allowApprove \in BOOLEAN
  /\ sessions \in 0 .. MaxSessions /\ asked \in Nat
  /\ sessions = 0 => ~up
  /\ sessions = 0 \/ (sessions = 1 /\ up) => log = << >>
  /\ sessions = 1 => F!ChainOf(log)
AInv == Booked /\ Flushed

(* A tool call is asked for, forwarded or not, and recorded.               *)
LEMMA CallBooked ==
  ASSUME AInv, NEW q \in Requests, NEW d \in Decisions, ToolCall(q, d)
  PROVE  AInv'
<1> DEFINE r == Verdict(q, d)
           g == F!record(entries, r)
<1>1. /\ up /\ q.n = asked + 1 /\ asked' = asked + 1 /\ asked \in Nat
      /\ UNCHANGED <<up, allowApprove, sessions, log>>
  BY DEF ToolCall, NextRequest, opts, AInv, Flushed
<1>2. r \in Verdicts
  <2>1. sessions \in 1 .. MaxSessions
    BY <1>1, ProxyAssumption DEF AInv, Flushed
  <2> QED
    BY <2>1 DEF Verdict, Verdicts, Requests
<1>3. r.n = q.n /\ r.decision = d /\ (r.enforced = "forwarded" <=> ~Blocks(d))
  BY DEF Verdict
<1>4. entries' = g
  BY DEF ToolCall, Log!record, Log!Prev, Log!GENESIS, Log!ChainedLine, Log!HashOf,
         F!record, F!Prev, F!GENESIS, F!ChainedLine, F!HashOf
<1>5. reached' = IF Blocks(d) THEN reached ELSE reached \union {q.n}
  BY DEF ToolCall
<1> HIDE DEF r
<1>6. /\ F!ChainOf(g)
      /\ Len(entries) \in Nat /\ DOMAIN entries = 1 .. Len(entries)
      /\ DOMAIN g = 1 .. Len(entries) + 1
      /\ \A i \in DOMAIN entries : g[i] = entries[i]
      /\ g[Len(entries) + 1].rec = r
  BY <1>2, F!RecordChains DEF AInv, Booked
<1> HIDE DEF g
<1>7. /\ DOMAIN entries' = DOMAIN entries \union {Len(entries) + 1}
      /\ \A i \in DOMAIN entries : entries'[i] = entries[i]
      /\ entries'[Len(entries) + 1].rec = r /\ Len(entries) + 1 \notin DOMAIN entries
  BY <1>4, <1>6
<1>8. q.n \notin reached /\ \A i \in DOMAIN entries : entries[i].rec.n # q.n
  BY <1>1 DEF AInv, Booked
<1>9. \A i \in DOMAIN entries : entries[i].rec.n \in reached' <=> entries[i].rec.n \in reached
  BY <1>5, <1>8
<1>10. \A w : Blocks(w)' = Blocks(w)
  BY <1>1 DEF Blocks
<1>11. Tells(r, r.n \in reached')
  BY <1>3, <1>5, <1>8 DEF Tells
<1>12. \A i \in DOMAIN entries' : Tells(entries'[i].rec, entries'[i].rec.n \in reached')
  BY <1>7, <1>9, <1>11 DEF AInv, Booked
<1>13. \A i \in DOMAIN entries' : Tells(entries[i].rec, entries[i].rec.n \in reached)'
  BY <1>10, <1>12 DEF Tells
<1>14. reached' \subseteq 1 .. asked'
  <2>1. q.n \in 1 .. asked' /\ \A n \in 1 .. asked : n \in 1 .. asked'
    BY <1>1
  <2>2. reached \subseteq 1 .. asked /\ reached' \subseteq reached \union {q.n}
    BY <1>5 DEF AInv, Booked
  <2> QED
    BY <2>1, <2>2
<1>15. \A i \in DOMAIN entries' : entries'[i].rec.n \in 1 .. asked'
  BY <1>1, <1>3, <1>7 DEF AInv, Booked
<1>16. \A i, j \in DOMAIN entries' : entries'[j].rec.n = entries'[i].rec.n => j = i
  BY <1>3, <1>7, <1>8 DEF AInv, Booked
<1>17. \A n \in reached' : \E i \in DOMAIN entries' : entries'[i].rec.n = n
  <2> TAKE n \in reached'
  <2>1. CASE n \in reached
    <3>1. PICK i \in DOMAIN entries : entries[i].rec.n = n
      BY <2>1 DEF AInv, Booked
    <3>2. i \in DOMAIN entries' /\ entries'[i].rec.n = n
      BY <1>7, <3>1
    <3> QED
      BY <3>2
  <2>2. CASE n \notin reached
    <3>1. n = q.n
      BY <1>5, <2>2
    <3> QED
      BY <1>3, <1>7, <3>1
  <2> QED
    BY <2>1, <2>2
<1>18. F!ChainOf(entries')
  BY <1>4, <1>6
<1>19. Booked'
  BY <1>13, <1>14, <1>15, <1>16, <1>17, <1>18 DEF Booked
<1>20. Flushed'
  BY <1>1 DEF AInv, Flushed
<1> QED
  BY <1>19, <1>20 DEF AInv

(* The proxy starts with an empty log, and ends with a flush or without.   *)
LEMMA SessionBooked ==
  ASSUME AInv, Start \/ ServerExits \/ ProxyKilled
  PROVE  AInv'
<1>1. CASE Start
  <2>1. /\ entries' = << >> /\ reached' = {} /\ asked' = 0
        /\ up' = TRUE /\ allowApprove' \in BOOLEAN
        /\ sessions' = sessions + 1 /\ sessions < MaxSessions /\ log' = log
    BY <1>1 DEF Start
  <2>2. F!ChainOf(<< >>) /\ DOMAIN << >> = {}
    BY F!EmptyChain
  <2>3. Booked'
    BY <2>1, <2>2 DEF Booked
  <2>4. sessions' \in 0 .. MaxSessions /\ sessions' # 0 /\ (sessions' = 1 => sessions = 0)
    BY <2>1, ProxyAssumption DEF AInv, Flushed
  <2>5. Flushed'
    BY <2>1, <2>2, <2>4 DEF AInv, Flushed
  <2> QED
    BY <2>3, <2>5 DEF AInv
<1>2. CASE ServerExits \/ ProxyKilled
  <2>1. /\ UNCHANGED <<sessions, asked, reached, entries, allowApprove>> /\ up /\ up' = FALSE
        /\ log' = log \/ log' = log \o entries
    BY <1>2 DEF ServerExits, ProxyKilled, Gone, opts, Log!flush
  <2>2. Booked'
    BY <2>1 DEF AInv, Booked, Tells, Blocks
  <2>3. sessions = 1 => log = << >>
    BY <2>1 DEF AInv, Flushed
  <2>4. sessions = 1 => log' = log \/ log' = entries
    <3>1. entries \in Seq(F!Lines)
      BY DEF AInv, Booked, F!ChainOf
    <3>2. << >> \o entries = entries
      BY <3>1, ConcatEmptySeq
    <3> QED
      BY <2>1, <2>3, <3>2
  <2>5. sessions = 1 => F!ChainOf(log')
    BY <2>4 DEF AInv, Booked, Flushed
  <2>6. Flushed'
    BY <2>1, <2>5 DEF AInv, Flushed
  <2> QED
    BY <2>2, <2>6 DEF AInv
<1> QED
  BY <1>1, <1>2

(* What is booked is what the property says of it.                         *)
LEMMA BookedIsEnough == AInv => AuditSaysWhatWasDone
<1> SUFFICES ASSUME AInv PROVE AuditSaysWhatWasDone
  OBVIOUS
<1>1. ASSUME NEW f, F!ChainOf(f) PROVE Log!LinksHold(f)
  BY <1>1 DEF F!ChainOf, F!LinksHold, F!HeadAt, F!ChainedTo, F!Chained, F!HashOf, F!GENESIS,
              Log!LinksHold, Log!HeadAt, Log!ChainedTo, Log!Chained, Log!HashOf, Log!GENESIS
<1>2. Log!verify(entries)
  BY <1>1 DEF AInv, Booked, Log!verify
<1>3. sessions = 1 => Log!VerifyAuditFile(log, {})
  BY <1>1 DEF AInv, Flushed, Log!VerifyAuditFile, Log!CheckpointHolds
<1>4. ASSUME NEW n \in 1 .. asked,
             NEW i \in DOMAIN entries, entries[i].rec.n = n
      PROVE  /\ {j \in DOMAIN entries : entries[j].rec.n = n} = {i}
             /\ Cardinality({j \in DOMAIN entries : entries[j].rec.n = n}) = 1
             /\ LET r == entries[i].rec IN
                /\ (r.enforced = "forwarded") = (n \in reached)
                /\ r.decision = "allow" => n \in reached
                /\ r.decision = "block" => n \notin reached
                /\ r.decision = "approve" => (n \in reached) = allowApprove
  <2>1. {j \in DOMAIN entries : entries[j].rec.n = n} = {i}
    BY <1>4 DEF AInv, Booked
  <2>2. Cardinality({i}) = 1
    BY FS_Singleton
  <2>3. Tells(entries[i].rec, n \in reached)
    BY <1>4 DEF AInv, Booked
  <2>4. allowApprove \in BOOLEAN
    BY DEF AInv, Flushed
  <2>5. (entries[i].rec.enforced = "forwarded") = (n \in reached)
    BY <2>3 DEF Tells
  <2>6. /\ entries[i].rec.decision = "allow" => n \in reached
        /\ entries[i].rec.decision = "block" => n \notin reached
    BY <2>3 DEF Tells, Blocks
  <2>7. entries[i].rec.decision = "approve" => (n \in reached) = allowApprove
    BY <2>3, <2>4 DEF Tells, Blocks
  <2> QED
    BY <2>1, <2>2, <2>5, <2>6, <2>7
<1>5. \A n \in reached : \E i \in DOMAIN entries : entries[i].rec.n = n
  BY DEF AInv, Booked
<1> QED
  BY <1>2, <1>3, <1>4, <1>5 DEF AuditSaysWhatWasDone

(* mcp-proxy.mjs:26-57, docs/mcp.md:39: whatever the options, the decisions *)
(* and the order of requests, exits and restarts, the log of a session has *)
(* one entry for each call it was asked for and says what was done with it. *)
THEOREM LogAgreesWithServer == Spec => []AuditSaysWhatWasDone
<1>1. Init => AInv
  <2> SUFFICES ASSUME Init PROVE AInv
    OBVIOUS
  <2>1. F!ChainOf(<< >>) /\ DOMAIN << >> = {}
    BY F!EmptyChain
  <2>2. entries = << >> /\ log = << >> /\ reached = {} /\ sessions = 0 /\ asked = 0
    BY DEF Init
  <2>3. Booked
    BY <2>1, <2>2 DEF Booked
  <2>4. 0 \in 0 .. MaxSessions
    BY ProxyAssumption
  <2>5. up \in BOOLEAN /\ allowApprove \in BOOLEAN /\ ~up
    BY DEF Init
  <2>6. sessions = 0 /\ sessions # 1 /\ sessions \in 0 .. MaxSessions /\ asked \in Nat
    BY <2>2, <2>4
  <2>7. Flushed
    BY <2>2, <2>5, <2>6 DEF Flushed
  <2> QED
    BY <2>3, <2>7 DEF AInv
<1>2. AInv /\ [Next]_vars => AInv'
  <2> SUFFICES ASSUME AInv, [Next]_vars PROVE AInv'
    OBVIOUS
  <2>1. ASSUME NEW q \in Requests, OtherRequest(q) PROVE AInv'
    <3>1. /\ UNCHANGED <<up, sessions, reached, entries, allowApprove, log>>
          /\ asked' = asked + 1 /\ asked \in Nat
      BY <2>1 DEF OtherRequest, NextRequest, opts, AInv, Flushed
    <3>2. \A n \in 1 .. asked : n \in 1 .. asked'
      BY <3>1
    <3> QED
      BY <3>1, <3>2 DEF AInv, Booked, Flushed, Tells, Blocks
  <2>2. CASE UNCHANGED <<up, sessions, reached, entries, allowApprove, log, asked>>
    BY <2>2 DEF AInv, Booked, Flushed, Tells, Blocks
  <2>3. ASSUME NEW q \in Requests, Answer(q) PROVE AInv'
    BY <2>2, <2>3 DEF Answer, ServerAnswer, session, opts
  <2>4. ASSUME NEW i \in ServerIds, ServerRequest(i) PROVE AInv'
    BY <2>2, <2>4 DEF ServerRequest, session, opts
  <2>5. ASSUME NEW i \in Ids, StrayAnswer(i) PROVE AInv'
    BY <2>2, <2>5 DEF StrayAnswer, session, opts
  <2>6. CASE UNCHANGED vars
    BY <2>2, <2>6 DEF vars, opts
  <2> QED
    BY <2>1, <2>3, <2>4, <2>5, <2>6, CallBooked, SessionBooked DEF Next
<1> QED
  BY <1>1, <1>2, BookedIsEnough, PTL DEF Spec
-----------------------------------------------------------------------------
(* The loops that find the breaks of a text and cut it, as functions.      *)
LEMMA BreaksTrace ==
  ASSUME NEW s \in Seq(Nat)
  PROVE  \E u \in [0 .. Len(s) -> Seq(Nat)] :
           /\ u[0] = << >> /\ Breaks(s) = u[Len(s)]
           /\ \A i \in 1 .. Len(s) : u[i] = Break(u[i - 1], s[i], i)
<1> DEFINE n == Len(s)
           turn == [i \in 1 .. n |-> [b \in Seq(Nat) |-> Break(b, s[i], i)]]
           Eq(g) == g = [i \in 0 .. n |-> IF i = 0 THEN << >> ELSE Break(g[i - 1], s[i], i)]
           upto == CHOOSE g : Eq(g)
<1>1. n \in Nat /\ << >> \in Seq(Nat)
  BY LenProperties, EmptySeq
<1>2. \A i \in 1 .. n, b \in Seq(Nat) : Break(b, s[i], i) \in Seq(Nat)
  BY <1>1, AppendProperties DEF Break
<1>3. /\ turn \in [1 .. n -> [Seq(Nat) -> Seq(Nat)]]
      /\ \A i \in 1 .. n, b \in Seq(Nat) : turn[i][b] = Break(b, s[i], i)
  BY <1>2
<1>4. \A i \in 0 .. n : i = 0 \/ i \in 1 .. n
  BY <1>1
<1>5. \A i \in 1 .. n : i - 1 \in 0 .. n /\ i \in 0 .. n /\ i # 0
  BY <1>1
<1>6. Breaks(s) = upto[n]
  BY DEF Breaks
<1> HIDE DEF n, turn
<1>7. \E g : F!Trace(g, n, Seq(Nat), << >>, turn)
  BY <1>1, <1>3, F!LoopTrace
<1>8. PICK g \in [0 .. n -> Seq(Nat)] : g[0] = << >> /\ \A i \in 1 .. n : g[i] = turn[i][g[i - 1]]
  BY <1>7 DEF F!Trace
<1>9. \A i \in 1 .. n : g[i] = Break(g[i - 1], s[i], i)
  BY <1>3, <1>5, <1>8
<1>10. Eq(g)
  BY <1>4, <1>8, <1>9
<1>11. Eq(upto)
  BY <1>10
<1> HIDE DEF upto
<1>12. /\ DOMAIN upto = 0 .. n /\ upto[0] = << >>
       /\ \A i \in 1 .. n : upto[i] = Break(upto[i - 1], s[i], i)
  BY <1>1, <1>5, <1>11
<1>13. \A i \in 0 .. n : upto[i] = g[i]
  <2> DEFINE P == {i \in 0 .. n : upto[i] = g[i]}
  <2>1. 0 \in P
    BY <1>1, <1>8, <1>12
  <2>2. \A m \in 0 .. n - 1 : m \in P => m + 1 \in P
    <3> SUFFICES ASSUME NEW m \in 0 .. n - 1, upto[m] = g[m]
                 PROVE  m + 1 \in 0 .. n /\ upto[m + 1] = g[m + 1]
      OBVIOUS
    <3>1. m + 1 \in 1 .. n /\ m + 1 \in 0 .. n /\ (m + 1) - 1 = m
      BY <1>1
    <3> QED
      BY <1>9, <1>12, <3>1
  <2>3. \A m \in 0 .. n : m \in P
    <3> HIDE DEF P
    <3> QED
      BY <1>1, <2>1, <2>2, F!Induction
  <2> QED
    BY <2>3
<1>14. n \in 0 .. n
  BY <1>1
<1> QED
  BY <1>6, <1>8, <1>9, <1>13, <1>14 DEF n

LEMMA CutTrace ==
  ASSUME NEW t \in Seq(Nat)
  PROVE  \E u \in [0 .. Len(t) -> [lines : Seq(Seq(Nat)), rest : Seq(Nat)]] :
           /\ u[0] = [lines |-> << >>, rest |-> << >>] /\ Cut(t) = u[Len(t)]
           /\ \A i \in 1 .. Len(t) : u[i] = CutTurn(u[i - 1], t[i])
<1> DEFINE n == Len(t)
           S == [lines : Seq(Seq(Nat)), rest : Seq(Nat)]
           s0 == [lines |-> << >>, rest |-> << >>]
           turn == [i \in 1 .. n |-> [s \in S |-> CutTurn(s, t[i])]]
           Eq(g) == g = [i \in 0 .. n |-> IF i = 0 THEN s0 ELSE CutTurn(g[i - 1], t[i])]
           after == CHOOSE g : Eq(g)
<1>1. n \in Nat /\ \A i \in 1 .. n : t[i] \in Nat
  BY LenProperties, ElementOfSeq
<1>2. s0 \in S
  BY EmptySeq
<1>3. \A i \in 1 .. n, s \in S : CutTurn(s, t[i]) \in S
  <2> SUFFICES ASSUME NEW i \in 1 .. n, NEW s \in S PROVE CutTurn(s, t[i]) \in S
    OBVIOUS
  <2>1. s.lines \in Seq(Seq(Nat)) /\ s.rest \in Seq(Nat) /\ << >> \in Seq(Nat)
    BY EmptySeq
  <2>2. Append(s.lines, s.rest) \in Seq(Seq(Nat)) /\ Append(s.rest, t[i]) \in Seq(Nat)
    BY <1>1, <2>1, AppendProperties
  <2> QED
    BY <2>1, <2>2 DEF CutTurn
<1>4. /\ turn \in [1 .. n -> [S -> S]]
      /\ \A i \in 1 .. n, s \in S : turn[i][s] = CutTurn(s, t[i])
  BY <1>3
<1>5. \A i \in 0 .. n : i = 0 \/ i \in 1 .. n
  BY <1>1
<1>6. \A i \in 1 .. n : i - 1 \in 0 .. n /\ i \in 0 .. n /\ i # 0
  BY <1>1
<1>7. Cut(t) = after[n]
  BY DEF Cut
<1> HIDE DEF n, S, s0, turn
<1>8. \E g : F!Trace(g, n, S, s0, turn)
  BY <1>1, <1>2, <1>4, F!LoopTrace
<1>9. PICK g \in [0 .. n -> S] : g[0] = s0 /\ \A i \in 1 .. n : g[i] = turn[i][g[i - 1]]
  BY <1>8 DEF F!Trace
<1>10. \A i \in 1 .. n : g[i] = CutTurn(g[i - 1], t[i])
  BY <1>4, <1>6, <1>9
<1>11. Eq(g)
  BY <1>5, <1>9, <1>10
<1>12. Eq(after)
  BY <1>11
<1> HIDE DEF after
<1>13. /\ after[0] = s0
       /\ \A i \in 1 .. n : after[i] = CutTurn(after[i - 1], t[i])
  BY <1>1, <1>6, <1>12
<1>14. \A i \in 0 .. n : after[i] = g[i]
  <2> DEFINE P == {i \in 0 .. n : after[i] = g[i]}
  <2>1. 0 \in P
    BY <1>1, <1>9, <1>13
  <2>2. \A m \in 0 .. n - 1 : m \in P => m + 1 \in P
    <3> SUFFICES ASSUME NEW m \in 0 .. n - 1, after[m] = g[m]
                 PROVE  m + 1 \in 0 .. n /\ after[m + 1] = g[m + 1]
      OBVIOUS
    <3>1. m + 1 \in 1 .. n /\ m + 1 \in 0 .. n /\ (m + 1) - 1 = m
      BY <1>1
    <3> QED
      BY <1>10, <1>13, <3>1
  <2>3. \A m \in 0 .. n : m \in P
    <3> HIDE DEF P
    <3> QED
      BY <1>1, <2>1, <2>2, F!Induction
  <2> QED
    BY <2>3
<1>15. n \in 0 .. n
  BY <1>1
<1> QED
  BY <1>7, <1>9, <1>10, <1>14, <1>15 DEF n, S, s0

(* Breaks are positions of the text, and a character more leaves those     *)
(* before it where they are.                                               *)
LEMMA BreaksInText ==
  ASSUME NEW s \in Seq(Nat)
  PROVE  Breaks(s) \in Seq(Nat) /\ \A k \in 1 .. Len(Breaks(s)) : Breaks(s)[k] \in 1 .. Len(s)
<1>1. PICK u \in [0 .. Len(s) -> Seq(Nat)] :
         /\ u[0] = << >> /\ Breaks(s) = u[Len(s)]
         /\ \A i \in 1 .. Len(s) : u[i] = Break(u[i - 1], s[i], i)
  BY BreaksTrace
<1> DEFINE n == Len(s)
           P == {m \in 0 .. n : \A k \in 1 .. Len(u[m]) : u[m][k] \in 1 .. m}
<1>2. n \in Nat /\ n \in 0 .. n
  BY LenProperties
<1>3. 0 \in P
  BY <1>1, <1>2
<1>4. \A m \in 0 .. n - 1 : m \in P => m + 1 \in P
  <2> SUFFICES ASSUME NEW m \in 0 .. n - 1, \A k \in 1 .. Len(u[m]) : u[m][k] \in 1 .. m
               PROVE  /\ m + 1 \in 0 .. n
                      /\ \A k \in 1 .. Len(u[m + 1]) : u[m + 1][k] \in 1 .. m + 1
    OBVIOUS
  <2>1. m + 1 \in 1 .. n /\ m + 1 \in 0 .. n /\ (m + 1) - 1 = m /\ m \in 0 .. n /\ m \in Nat
    BY <1>2
  <2>2. u[m] \in Seq(Nat) /\ u[m + 1] = Break(u[m], s[m + 1], m + 1) /\ Len(u[m]) \in Nat
    BY <1>1, <2>1, LenProperties
  <2>3. CASE s[m + 1] = NL
    <3>1. u[m + 1] = Append(u[m], m + 1)
      BY <2>2, <2>3 DEF Break
    <3>2. /\ Len(u[m + 1]) = Len(u[m]) + 1 /\ u[m + 1][Len(u[m]) + 1] = m + 1
          /\ \A k \in 1 .. Len(u[m]) : u[m + 1][k] = u[m][k]
      <4>1. m + 1 \in Nat /\ u[m] \in Seq(Nat)
        BY <2>1, <2>2
      <4> QED
        BY <3>1, <4>1, AppendProperties
    <3>3. ASSUME NEW k \in 1 .. Len(u[m + 1]) PROVE u[m + 1][k] \in 1 .. m + 1
      <4>1. k = Len(u[m]) + 1 \/ k \in 1 .. Len(u[m])
        BY <2>2, <3>2
      <4>2. ASSUME k \in 1 .. Len(u[m]) PROVE u[m + 1][k] \in 1 .. m + 1
        <5>1. u[m + 1][k] = u[m][k] /\ u[m][k] \in 1 .. m
          BY <3>2, <4>2
        <5> QED
          BY <2>1, <5>1
      <4> QED
        BY <2>1, <3>2, <4>1, <4>2
    <3> QED
      BY <2>1, <3>3
  <2>4. CASE s[m + 1] # NL
    <3>1. u[m + 1] = u[m]
      BY <2>2, <2>4 DEF Break
    <3> QED
      BY <2>1, <3>1
  <2> QED
    BY <2>3, <2>4
<1>5. \A m \in 0 .. n : m \in P
  <2> HIDE DEF P
  <2> QED
    BY <1>2, <1>3, <1>4, F!Induction
<1> QED
  BY <1>1, <1>2, <1>5

LEMMA BreaksAppend ==
  ASSUME NEW s \in Seq(Nat), NEW c \in Nat
  PROVE  Breaks(Append(s, c)) = Break(Breaks(s), c, Len(s) + 1)
<1> DEFINE t == Append(s, c)
           n == Len(s)
<1>1. /\ n \in Nat /\ t \in Seq(Nat) /\ Len(t) = n + 1 /\ t[n + 1] = c
      /\ \A i \in 1 .. n : t[i] = s[i]
  BY LenProperties, AppendProperties
<1> HIDE DEF t
<1>2. PICK u \in [0 .. n -> Seq(Nat)] :
         /\ u[0] = << >> /\ Breaks(s) = u[n]
         /\ \A i \in 1 .. n : u[i] = Break(u[i - 1], s[i], i)
  BY BreaksTrace
<1>3. PICK v \in [0 .. n + 1 -> Seq(Nat)] :
         /\ v[0] = << >> /\ Breaks(t) = v[n + 1]
         /\ \A i \in 1 .. n + 1 : v[i] = Break(v[i - 1], t[i], i)
  <2>1. \E v \in [0 .. Len(t) -> Seq(Nat)] :
          /\ v[0] = << >> /\ Breaks(t) = v[Len(t)]
          /\ \A i \in 1 .. Len(t) : v[i] = Break(v[i - 1], t[i], i)
    BY <1>1, BreaksTrace
  <2> QED
    BY <1>1, <2>1
<1> DEFINE P == {m \in 0 .. n : v[m] = u[m]}
<1>4. 0 \in P
  BY <1>1, <1>2, <1>3
<1>5. \A m \in 0 .. n - 1 : m \in P => m + 1 \in P
  <2> SUFFICES ASSUME NEW m \in 0 .. n - 1, v[m] = u[m] PROVE m + 1 \in 0 .. n /\ v[m + 1] = u[m + 1]
    OBVIOUS
  <2>1. m + 1 \in 1 .. n /\ m + 1 \in 1 .. n + 1 /\ m + 1 \in 0 .. n /\ (m + 1) - 1 = m
    BY <1>1
  <2>2. t[m + 1] = s[m + 1]
    BY <1>1, <2>1
  <2> QED
    BY <1>2, <1>3, <2>1, <2>2
<1>6. \A m \in 0 .. n : m \in P
  <2> HIDE DEF P, n
  <2> QED
    BY <1>1, <1>4, <1>5, F!Induction
<1>7. v[n] = u[n]
  <2>1. n \in 0 .. n
    BY <1>1
  <2> QED
    BY <1>6, <2>1
<1>8. v[n + 1] = Break(v[n], c, n + 1)
  <2>1. n + 1 \in 1 .. n + 1 /\ (n + 1) - 1 = n
    BY <1>1
  <2> QED
    BY <1>1, <1>3, <2>1
<1> QED
  BY <1>2, <1>3, <1>7, <1>8 DEF t

(* A piece of a text with a character more, before it and with it.         *)
LEMMA SubSeqAppend ==
  ASSUME NEW s \in Seq(Nat), NEW c \in Nat, NEW a \in 1 .. Len(s) + 1
  PROVE  /\ \A b \in 0 .. Len(s) : SubSeq(Append(s, c), a, b) = SubSeq(s, a, b)
         /\ SubSeq(Append(s, c), a, Len(s) + 1) = Append(SubSeq(s, a, Len(s)), c)
<1> DEFINE t == Append(s, c)
<1>1. /\ Len(s) \in Nat /\ t \in Seq(Nat) /\ Len(t) = Len(s) + 1 /\ t[Len(s) + 1] = c
      /\ \A i \in 1 .. Len(s) : t[i] = s[i]
  BY LenProperties, AppendProperties
<1> HIDE DEF t
<1>2. ASSUME NEW b \in 0 .. Len(s) PROVE SubSeq(t, a, b) = SubSeq(s, a, b)
  <2>1. \A i \in a .. b : i \in 1 .. Len(s) /\ s[i] \in Nat /\ t[i] = s[i] /\ t[i] \in Nat
    <3>1. \A i \in a .. b : i \in 1 .. Len(s)
      BY <1>1
    <3>2. \A i \in 1 .. Len(s) : s[i] \in Nat
      BY ElementOfSeq
    <3> QED
      BY <1>1, <3>1, <3>2, Zenon
  <2>2. /\ SubSeq(s, a, b) \in Seq(Nat) /\ SubSeq(t, a, b) \in Seq(Nat)
        /\ Len(SubSeq(s, a, b)) = Len(SubSeq(t, a, b))
        /\ Len(SubSeq(s, a, b)) = IF a <= b THEN b - a + 1 ELSE 0
        /\ \A i \in 1 .. b - a + 1 : /\ SubSeq(s, a, b)[i] = s[a + i - 1]
                                     /\ SubSeq(t, a, b)[i] = t[a + i - 1]
    BY <1>1, <2>1, SubSeqProperties
  <2>3. \A i \in 1 .. Len(SubSeq(s, a, b)) : i \in 1 .. b - a + 1 /\ a + i - 1 \in a .. b
    BY <1>1, <2>2
  <2>4. \A i \in 1 .. Len(SubSeq(s, a, b)) : SubSeq(s, a, b)[i] = SubSeq(t, a, b)[i]
    BY <2>1, <2>2, <2>3
  <2> QED
    BY <2>2, <2>4, SeqEqual
<1>3. SubSeq(t, a, Len(s) + 1) = Append(SubSeq(t, a, Len(s)), c)
  <2>1. a \in 1 .. Len(t) /\ Len(t) \in a .. Len(t) /\ Len(t) - 1 = Len(s)
    BY <1>1
  <2>2. SubSeq(t, a, Len(t)) = SubSeq(t, a, Len(s)) \o <<t[Len(t)]>>
    BY <1>1, <2>1, SubSeqRecursiveSecond
  <2>3. \A i \in a .. Len(s) : t[i] \in Nat
    BY <1>1, ElementOfSeq
  <2>4. SubSeq(t, a, Len(s)) \in Seq(Nat)
    BY <1>1, <2>3, SubSeqProperties
  <2> QED
    BY <1>1, <2>2, <2>4, AppendIsConcat
<1>4. Len(s) \in 0 .. Len(s)
  BY <1>1
<1> QED
  BY <1>2, <1>3, <1>4 DEF t

(* What a character more does to the lines of a text.                      *)
LEMMA LineAppend ==
  ASSUME NEW s \in Seq(Nat), NEW c \in Nat, NEW m, m = Len(Breaks(s))
  PROVE  /\ m \in Nat
         /\ \A k \in 1 .. m : LineOf(Append(s, c), k) = LineOf(s, k)
         /\ LineOf(s, m + 1) \in Seq(Nat)
         /\ c = NL => /\ Len(Breaks(Append(s, c))) = m + 1
                      /\ LineOf(Append(s, c), m + 1) = LineOf(s, m + 1)
                      /\ LineOf(Append(s, c), m + 2) = << >>
         /\ c # NL => /\ Len(Breaks(Append(s, c))) = m
                      /\ LineOf(Append(s, c), m + 1) = Append(LineOf(s, m + 1), c)
<1> DEFINE t == Append(s, c)
           b == Breaks(s)
           d == Breaks(t)
           from(x, k) == LineStart(x, k)
<1>1. /\ b \in Seq(Nat) /\ m \in Nat /\ Len(s) \in Nat /\ Len(t) = Len(s) + 1 /\ Len(b) = m
      /\ \A k \in 1 .. m : b[k] \in 1 .. Len(s)
  BY LenProperties, AppendProperties, BreaksInText
<1>2. d = Break(b, c, Len(s) + 1)
  BY BreaksAppend
<1>3. /\ \A k : LineOf(s, k) = SubSeq(s, from(b, k), LineEnd(s, b, k))
      /\ \A k : LineOf(t, k) = SubSeq(t, from(d, k), LineEnd(t, d, k))
  BY DEF LineOf
<1>4. \A x \in 1 .. Len(s) : x + 1 \in 1 .. Len(s) + 1 /\ x - 1 \in 0 .. Len(s)
  <2>1. Len(s) \in Nat
    BY <1>1
  <2> QED
    BY <2>1
<1> HIDE DEF b, d
<1>5. \A k \in 1 .. m + 1 : from(b, k) \in 1 .. Len(s) + 1
  <2> SUFFICES ASSUME NEW k \in 1 .. m + 1 PROVE from(b, k) \in 1 .. Len(s) + 1
    OBVIOUS
  <2>1. CASE k = 1
    BY <1>1, <2>1 DEF LineStart
  <2>2. CASE k # 1
    <3>1. k - 1 \in 1 .. m
      BY <1>1, <2>2
    <3>2. b[k - 1] \in 1 .. Len(s)
      BY <1>1, <3>1
    <3> QED
      BY <1>4, <2>2, <3>2, Zenon DEF LineStart
  <2> QED
    BY <2>1, <2>2
<1>6. /\ \A k \in 1 .. m : LineOf(s, k) = SubSeq(s, from(b, k), b[k] - 1)
      /\ LineOf(s, m + 1) = SubSeq(s, from(b, m + 1), Len(s))
  <2>1. \A k \in 1 .. m : LineEnd(s, b, k) = b[k] - 1
    BY <1>1 DEF LineEnd
  <2>2. LineEnd(s, b, m + 1) = Len(s)
    BY <1>1 DEF LineEnd
  <2> QED
    BY <1>3, <2>1, <2>2
<1>7. \A k \in 1 .. Len(d) : LineOf(t, k) = SubSeq(t, from(d, k), d[k] - 1)
  <2>1. \A k \in 1 .. Len(d) : LineEnd(t, d, k) = d[k] - 1
    BY DEF LineEnd
  <2> QED
    BY <1>3, <2>1
<1>8. Len(d) \in Nat => LineOf(t, Len(d) + 1) = SubSeq(t, from(d, Len(d) + 1), Len(s) + 1)
  <2>1. Len(d) \in Nat => LineEnd(t, d, Len(d) + 1) = Len(s) + 1
    BY <1>1 DEF LineEnd
  <2> QED
    BY <1>3, <2>1
<1> HIDE DEF from
<1>9. LineOf(s, m + 1) \in Seq(Nat)
  <2>1. /\ from(b, m + 1) \in 1 .. Len(s) + 1
        /\ \A i \in from(b, m + 1) .. Len(s) : s[i] \in Nat
    <3>1. m + 1 \in 1 .. m + 1
      BY <1>1
    <3>2. from(b, m + 1) \in 1 .. Len(s) + 1
      BY <1>5, <3>1
    <3> QED
      BY <1>1, <3>2, ElementOfSeq
  <2> DEFINE a == from(b, m + 1)
  <2>2. a \in Int /\ Len(s) \in Int /\ \A i \in a .. Len(s) : s[i] \in Nat
    BY <1>1, <2>1
  <2> HIDE DEF a
  <2>3. SubSeq(s, a, Len(s)) \in Seq(Nat)
    BY <2>2, SubSeqProperties
  <2> QED
    BY <1>6, <2>3 DEF a
<1>10. \A k \in 1 .. m : SubSeq(t, from(b, k), b[k] - 1) = SubSeq(s, from(b, k), b[k] - 1)
  <2> SUFFICES ASSUME NEW k \in 1 .. m
               PROVE  SubSeq(t, from(b, k), b[k] - 1) = SubSeq(s, from(b, k), b[k] - 1)
    OBVIOUS
  <2>1. from(b, k) \in 1 .. Len(s) + 1 /\ b[k] - 1 \in 0 .. Len(s)
    <3>1. k \in 1 .. m + 1 /\ b[k] \in 1 .. Len(s)
      BY <1>1
    <3> QED
      BY <1>4, <1>5, <3>1, Zenon
  <2> QED
    BY <2>1, SubSeqAppend
<1>11. /\ SubSeq(t, from(b, m + 1), Len(s)) = SubSeq(s, from(b, m + 1), Len(s))
      /\ SubSeq(t, from(b, m + 1), Len(s) + 1) = Append(SubSeq(s, from(b, m + 1), Len(s)), c)
  <2>1. from(b, m + 1) \in 1 .. Len(s) + 1 /\ Len(s) \in 0 .. Len(s)
    <3>1. m + 1 \in 1 .. m + 1
      BY <1>1
    <3> QED
      BY <1>1, <1>5, <3>1
  <2> QED
    BY <2>1, SubSeqAppend
<1> HIDE DEF t
<1>12. CASE c = NL
  <2>1. /\ d = Append(b, Len(s) + 1) /\ Len(d) = m + 1 /\ d[m + 1] = Len(s) + 1
        /\ \A k \in 1 .. m : d[k] = b[k]
    <3>1. Len(s) + 1 \in Nat
      BY <1>1
    <3> QED
      BY <1>1, <1>2, <1>12, <3>1, AppendProperties DEF Break
  <2>2. \A k \in 1 .. m + 1 : from(d, k) = from(b, k)
    <3> SUFFICES ASSUME NEW k \in 1 .. m + 1, k # 1 PROVE d[k - 1] = b[k - 1]
      BY DEF from, LineStart
    <3>1. k - 1 \in 1 .. m
      BY <1>1
    <3> QED
      BY <2>1, <3>1
  <2>3. from(d, m + 2) = Len(s) + 2
    <3>1. (m + 2) - 1 = m + 1 /\ m + 2 # 1
      BY <1>1
    <3> QED
      BY <1>1, <2>1, <3>1 DEF from, LineStart
  <2>4. \A k \in 1 .. m : k \in 1 .. Len(d) /\ k \in 1 .. m + 1
    BY <1>1, <2>1
  <2>5. \A k \in 1 .. m : LineOf(t, k) = LineOf(s, k)
    BY <1>6, <1>7, <1>10, <2>1, <2>2, <2>4
  <2>6. LineOf(t, m + 1) = LineOf(s, m + 1)
    <3>1. m + 1 \in 1 .. Len(d) /\ m + 1 \in 1 .. m + 1 /\ d[m + 1] - 1 = Len(s)
      BY <1>1, <2>1
    <3> QED
      BY <1>6, <1>7, <1>11, <2>2, <3>1
  <2>7. LineOf(t, m + 2) = << >>
    <3>1. Len(d) \in Nat /\ Len(d) + 1 = m + 2 /\ Len(s) + 2 \in Int /\ Len(s) + 1 \in Int
          /\ Len(s) + 1 < Len(s) + 2
      BY <1>1, <2>1
    <3>2. LineOf(t, m + 2) = SubSeq(t, Len(s) + 2, Len(s) + 1)
      BY <1>8, <2>3, <3>1
    <3> QED
      BY <3>1, <3>2, SubSeqEmpty
  <2> QED
    BY <1>1, <1>9, <1>12, <2>1, <2>5, <2>6, <2>7 DEF t, d
<1>13. CASE c # NL
  <2>1. d = b
    BY <1>2, <1>13 DEF Break
  <2>2. \A k \in 1 .. m : LineOf(t, k) = LineOf(s, k)
    BY <1>1, <1>6, <1>7, <1>10, <2>1
  <2>3. LineOf(t, m + 1) = Append(LineOf(s, m + 1), c)
    BY <1>1, <1>6, <1>8, <1>11, <2>1
  <2> QED
    BY <1>1, <1>9, <1>13, <2>1, <2>2, <2>3 DEF t, d
<1> QED
  BY <1>12, <1>13

(* Keeping a line is kept with a character more; what is dropped of a line *)
(* over the bound is its beginning.                                        *)
LEMMA KeepsAppend ==
  ASSUME NEW got \in Seq(Nat), NEW line \in Seq(Nat), NEW c \in Nat, Keeps(got, line)
  PROVE  /\ Keeps(Append(got, c), Append(line, c))
         /\ Len(got) > MaxLine => Keeps(<< >>, line)
<1>1. PICK n \in 0 .. Len(line) : /\ got = SubSeq(line, n + 1, Len(line))
                                  /\ Len(line) <= MaxLine => n = 0
  BY DEF Keeps
<1>2. /\ Len(line) \in Nat /\ Len(Append(line, c)) = Len(line) + 1 /\ MaxLine \in Nat
      /\ n + 1 \in 1 .. Len(line) + 1 /\ n \in Nat
  BY LenProperties, AppendProperties, StreamAssumption
<1>3. SubSeq(Append(line, c), n + 1, Len(line) + 1) = Append(got, c)
  BY <1>1, <1>2, SubSeqAppend
<1>4. Keeps(Append(got, c), Append(line, c))
  <2>1. n \in 0 .. Len(Append(line, c)) /\ (Len(Append(line, c)) <= MaxLine => n = 0)
    BY <1>1, <1>2
  <2> QED
    BY <1>2, <1>3, <2>1 DEF Keeps
<1>5. ASSUME Len(got) > MaxLine PROVE Keeps(<< >>, line)
  <2>1. \A i \in n + 1 .. Len(line) : line[i] \in Nat
    BY <1>2, ElementOfSeq
  <2>2. Len(got) = IF n + 1 <= Len(line) THEN Len(line) - (n + 1) + 1 ELSE 0
    BY <1>1, <1>2, <2>1, SubSeqProperties
  <2>3. Len(line) > MaxLine
    BY <1>2, <1>5, <2>2
  <2>4. SubSeq(line, Len(line) + 1, Len(line)) = << >>
    BY <1>2, SubSeqEmpty
  <2>5. Len(line) \in 0 .. Len(line) /\ ~(Len(line) <= MaxLine)
    BY <1>2, <2>3
  <2> QED
    BY <2>4, <2>5 DEF Keeps
<1> QED
  BY <1>4, <1>5

(* Lines that came out and what is kept, for the text that was sent.       *)
Fits(out, kept, s) ==
  /\ out \in Seq(Seq(Nat)) /\ kept \in Seq(Nat) /\ s \in Seq(Nat)
  /\ Len(out) = Len(Breaks(s))
  /\ \A k \in 1 .. Len(out) : Keeps(out[k], LineOf(s, k))
  /\ Keeps(kept, LineOf(s, Len(out) + 1))

LEMMA NothingKept == Keeps(<< >>, << >>) /\ Fits(<< >>, << >>, << >>)
<1>1. << >> \in Seq(Nat) /\ << >> \in Seq(Seq(Nat)) /\ Len(<< >>) = 0
  BY EmptySeq
<1>2. \A s : SubSeq(s, 1, 0) = << >>
  BY SubSeqEmpty
<1>3. Keeps(<< >>, << >>)
  <2>1. 0 \in 0 .. Len(<< >>) /\ SubSeq(<< >>, 0 + 1, Len(<< >>)) = << >>
    BY <1>1, <1>2
  <2> QED
    BY <2>1 DEF Keeps
<1>4. Breaks(<< >>) = << >>
  BY <1>1, BreaksTrace
<1>5. LineOf(<< >>, 1) = << >>
  <2>1. LineStart(Breaks(<< >>), 1) = 1 /\ LineEnd(<< >>, Breaks(<< >>), 1) = 0
    BY <1>1, <1>4 DEF LineStart, LineEnd
  <2> QED
    BY <1>2, <2>1 DEF LineOf
<1>6. Len(<< >>) + 1 = 1 /\ 1 .. Len(<< >>) = {}
  BY <1>1
<1> QED
  BY <1>1, <1>3, <1>4, <1>5, <1>6 DEF Fits

(* One character more: a break completes the line that was kept.           *)
LEMMA FitsTurn ==
  ASSUME NEW out, NEW kept, NEW s, Fits(out, kept, s), NEW c \in Nat
  PROVE  /\ c = NL => Fits(Append(out, kept), << >>, Append(s, c))
         /\ c # NL => Fits(out, Append(kept, c), Append(s, c))
<1> DEFINE t == Append(s, c)
           m == Len(Breaks(s))
<1>1. /\ out \in Seq(Seq(Nat)) /\ kept \in Seq(Nat) /\ s \in Seq(Nat)
      /\ Len(out) = m /\ \A k \in 1 .. m : Keeps(out[k], LineOf(s, k))
      /\ Keeps(kept, LineOf(s, m + 1))
  BY DEF Fits
<1>2. /\ m \in Nat
      /\ \A k \in 1 .. m : LineOf(t, k) = LineOf(s, k)
      /\ LineOf(s, m + 1) \in Seq(Nat)
      /\ c = NL => /\ Len(Breaks(t)) = m + 1
                   /\ LineOf(t, m + 1) = LineOf(s, m + 1)
                   /\ LineOf(t, m + 2) = << >>
      /\ c # NL => /\ Len(Breaks(t)) = m
                   /\ LineOf(t, m + 1) = Append(LineOf(s, m + 1), c)
  <2>1. s \in Seq(Nat)
    BY <1>1
  <2> HIDE DEF m
  <2>2. m = Len(Breaks(s))
    BY DEF m
  <2> QED
    BY <2>1, <2>2, LineAppend, SMTT(40)
<1>3. t \in Seq(Nat)
  BY <1>1, AppendProperties
<1> HIDE DEF t, m
<1>4. CASE c = NL
  <2> DEFINE new == Append(out, kept)
  <2>1. /\ new \in Seq(Seq(Nat)) /\ Len(new) = m + 1 /\ new[m + 1] = kept
        /\ \A k \in 1 .. m : new[k] = out[k]
    BY <1>1, AppendProperties
  <2> HIDE DEF new
  <2>2. ASSUME NEW k \in 1 .. m + 1 PROVE Keeps(new[k], LineOf(t, k))
    <3>1. CASE k = m + 1
      BY <1>1, <1>2, <1>4, <2>1, <3>1
    <3>2. CASE k # m + 1
      <4>1. k \in 1 .. m
        BY <1>2, <3>2
      <4> QED
        BY <1>1, <1>2, <2>1, <4>1
    <3> QED
      BY <3>1, <3>2
  <2>3. (m + 1) + 1 = m + 2
    BY <1>2
  <2>4. Keeps(<< >>, LineOf(t, Len(new) + 1))
    BY <1>2, <1>4, <2>1, <2>3, NothingKept
  <2>5. Fits(new, << >>, t)
    BY <1>2, <1>3, <1>4, <2>1, <2>2, <2>4, EmptySeq DEF Fits
  <2> QED
    BY <1>4, <2>5 DEF new, t
<1>5. CASE c # NL
  <2>1. Append(kept, c) \in Seq(Nat) /\ Keeps(Append(kept, c), LineOf(t, m + 1))
    <3> DEFINE line == LineOf(s, m + 1)
    <3>1. line \in Seq(Nat) /\ Keeps(kept, line) /\ LineOf(t, m + 1) = Append(line, c)
      BY <1>1, <1>2, <1>5
    <3> HIDE DEF line
    <3>2. Keeps(Append(kept, c), Append(line, c))
      BY <1>1, <3>1, KeepsAppend
    <3> QED
      BY <1>1, <3>1, <3>2, AppendProperties
  <2>2. Fits(out, Append(kept, c), t)
    BY <1>1, <1>2, <1>3, <1>5, <2>1 DEF Fits
  <2> QED
    BY <1>5, <2>2 DEF t
<1> QED
  BY <1>4, <1>5

LEMMA CutKeeps ==
  ASSUME NEW x, NEW y, NEW c, c # NL
  PROVE  CutTurn([lines |-> x, rest |-> y], c) = [lines |-> x, rest |-> Append(y, c)]
BY DEF CutTurn

LEMMA ConcatAppend ==
  ASSUME NEW S, NEW s \in Seq(S), NEW t \in Seq(S), NEW c \in S
  PROVE  s \o Append(t, c) = Append(s \o t, c)
<1>1. Append(t, c) = t \o <<c>> /\ <<c>> \in Seq(S)
  BY AppendIsConcat
<1>2. s \o t \in Seq(S)
  BY ConcatProperties
<1>3. Append(s \o t, c) = (s \o t) \o <<c>>
  BY <1>2, AppendIsConcat
<1> QED
  BY <1>1, <1>3, ConcatAssociative

LEMMA TextAppend ==
  ASSUME NEW s \in Seq(Nat), NEW t \in Seq(Nat), NEW c \in Nat
  PROVE  s \o Append(t, c) = Append(s \o t, c)
BY ConcatAppend

LEMMA PrefixAppend ==
  ASSUME NEW S, NEW s \in Seq(S), NEW i \in 0 .. Len(s) - 1
  PROVE  /\ SubSeq(s, 1, i) \in Seq(S) /\ s[i + 1] \in S
         /\ SubSeq(s, 1, i + 1) = Append(SubSeq(s, 1, i), s[i + 1])
<1>1. /\ Len(s) \in Nat /\ i \in Int /\ 1 \in 1 .. Len(s) /\ i + 1 \in 1 .. Len(s)
      /\ (i + 1) - 1 = i
  BY LenProperties
<1>2. \A j \in 1 .. i : s[j] \in S
  BY <1>1, ElementOfSeq
<1>3. SubSeq(s, 1, i) \in Seq(S) /\ s[i + 1] \in S
  BY <1>1, <1>2, ElementOfSeq, SubSeqProperties
<1>4. SubSeq(s, 1, i + 1) = SubSeq(s, 1, i) \o <<s[i + 1]>>
  BY <1>1, SubSeqRecursiveSecond
<1> QED
  BY <1>3, <1>4, AppendIsConcat

(* A push carries on where the text it was kept from ends, wherever the    *)
(* chunk ends.                                                             *)
Unbroken == Nat \ {NL}

LEMMA PushFits ==
  ASSUME NEW out, NEW kept \in Seq(Unbroken), NEW s, Fits(out, kept, s),
         NEW chunk \in Seq(Nat), NEW got, got = push(kept, chunk, MaxLine)
  PROVE  /\ Fits(out \o got.lines, got.buf, s \o chunk)
         /\ got.buf \in Seq(Unbroken) /\ Len(got.buf) <= MaxLine
<1> DEFINE t == kept \o chunk
           a == Len(kept)
           n == Len(chunk)
           S == [lines : Seq(Seq(Nat)), rest : Seq(Nat)]
<1>1. /\ a \in Nat /\ n \in Nat /\ kept \in Seq(Nat) /\ t \in Seq(Nat) /\ Len(t) = a + n
      /\ \A i \in 1 .. a : t[i] = kept[i] /\ t[i] \in Unbroken
      /\ \A i \in 1 .. n : t[a + i] = chunk[i] /\ chunk[i] \in Nat
  <2>1. kept \in Seq(Nat)
    BY DEF Unbroken
  <2>2. a \in Nat /\ n \in Nat
    BY LenProperties
  <2>3. /\ t \in Seq(Nat) /\ Len(t) = a + n
        /\ \A i \in 1 .. a + n : t[i] = IF i <= a THEN kept[i] ELSE chunk[i - a]
    BY <2>1, ConcatProperties
  <2> HIDE DEF t, a, n
  <2>4. \A i \in 1 .. a : i \in 1 .. a + n /\ i <= a
    BY <2>2
  <2>5. \A i \in 1 .. n : a + i \in 1 .. a + n /\ ~(a + i <= a) /\ (a + i) - a = i
    BY <2>2
  <2>6. /\ \A i \in 1 .. a : kept[i] \in Unbroken
        /\ \A i \in 1 .. n : chunk[i] \in Nat
    BY ElementOfSeq DEF a, n
  <2>7. \A i \in 1 .. n : t[a + i] = chunk[i]
    BY <2>3, <2>5
  <2> QED
    BY <2>1, <2>2, <2>3, <2>4, <2>6, <2>7
<1>2. PICK u \in [0 .. a + n -> S] :
        /\ u[0] = [lines |-> << >>, rest |-> << >>] /\ Cut(t) = u[a + n]
        /\ \A i \in 1 .. a + n : u[i] = CutTurn(u[i - 1], t[i])
  <2>1. \E u \in [0 .. Len(t) -> S] :
          /\ u[0] = [lines |-> << >>, rest |-> << >>] /\ Cut(t) = u[Len(t)]
          /\ \A i \in 1 .. Len(t) : u[i] = CutTurn(u[i - 1], t[i])
    <3>1. t \in Seq(Nat)
      BY <1>1
    <3> HIDE DEF t
    <3> QED
      BY <3>1, CutTrace
  <2> QED
    BY <1>1, <2>1
<1> HIDE DEF t, a, n
<1>3. u[a] = [lines |-> << >>, rest |-> kept]
  <2> DEFINE P == {i \in 0 .. a : u[i] = [lines |-> << >>, rest |-> SubSeq(kept, 1, i)]}
  <2>1. 0 \in P
    <3>1. SubSeq(kept, 1, 0) = << >>
      BY SubSeqEmpty
    <3> QED
      BY <1>1, <1>2, <3>1
  <2>2. \A m \in 0 .. a - 1 : m \in P => m + 1 \in P
    <3> SUFFICES ASSUME NEW m \in 0 .. a - 1,
                        u[m] = [lines |-> << >>, rest |-> SubSeq(kept, 1, m)]
                 PROVE  /\ m + 1 \in 0 .. a
                        /\ u[m + 1] = [lines |-> << >>, rest |-> SubSeq(kept, 1, m + 1)]
      OBVIOUS
    <3>1. /\ m + 1 \in 1 .. a /\ m + 1 \in 1 .. a + n /\ m + 1 \in 0 .. a /\ (m + 1) - 1 = m
          /\ m \in 0 .. Len(kept) - 1
      BY <1>1 DEF a
    <3>2. t[m + 1] = kept[m + 1] /\ t[m + 1] # NL
      BY <1>1, <3>1 DEF Unbroken
    <3>3. SubSeq(kept, 1, m + 1) = Append(SubSeq(kept, 1, m), kept[m + 1])
      BY <3>1, PrefixAppend
    <3>4. u[m + 1] = CutTurn(u[m], t[m + 1])
      BY <1>2, <3>1
    <3>5. u[m + 1] = [lines |-> << >>, rest |-> Append(SubSeq(kept, 1, m), t[m + 1])]
      BY <3>2, <3>4, CutKeeps
    <3> QED
      BY <3>1, <3>2, <3>3, <3>5
  <2>3. \A m \in 0 .. a : m \in P
    <3> HIDE DEF P
    <3> QED
      BY <1>1, <2>1, <2>2, F!Induction
  <2>4. SubSeq(kept, 1, a) = kept
    BY SubSeqFull DEF a
  <2>5. a \in 0 .. a
    BY <1>1
  <2> QED
    BY <2>3, <2>4, <2>5
<1> DEFINE After(i) == /\ Fits(out \o u[a + i].lines, u[a + i].rest, s \o SubSeq(chunk, 1, i))
                       /\ u[a + i].rest \in Seq(Unbroken)
           P == {i \in 0 .. n : After(i)}
<1>4. out \in Seq(Seq(Nat)) /\ s \in Seq(Nat)
  BY DEF Fits
<1>5. 0 \in P
  <2>1. SubSeq(chunk, 1, 0) = << >> /\ s \o << >> = s /\ out \o << >> = out
    BY <1>4, SubSeqEmpty, ConcatEmptySeq
  <2>2. a + 0 = a /\ 0 \in 0 .. n
    BY <1>1
  <2>3. u[a].lines = << >> /\ u[a].rest = kept
    BY <1>3
  <2> QED
    BY <2>1, <2>2, <2>3
<1>6. ASSUME NEW m \in 0 .. n - 1, After(m) PROVE After(m + 1)
  <2>1. /\ m + 1 \in 1 .. n /\ a + m \in 0 .. a + n /\ a + (m + 1) \in 1 .. a + n
        /\ (a + (m + 1)) - 1 = a + m /\ m \in 0 .. Len(chunk) - 1
    BY <1>1 DEF n
  <2> DEFINE c == chunk[m + 1]
             was == u[a + m]
             new == u[a + (m + 1)]
             before == s \o SubSeq(chunk, 1, m)
  <2>2. /\ SubSeq(chunk, 1, m) \in Seq(Nat) /\ c \in Nat
        /\ SubSeq(chunk, 1, m + 1) = Append(SubSeq(chunk, 1, m), c)
    BY <2>1, PrefixAppend
  <2>3. s \o SubSeq(chunk, 1, m + 1) = Append(before, c)
    <3> DEFINE x == SubSeq(chunk, 1, m)
    <3>1. s \in Seq(Nat) /\ x \in Seq(Nat) /\ c \in Nat
      BY <1>4, <2>2
    <3> HIDE DEF x, c
    <3>2. s \o Append(x, c) = Append(s \o x, c)
      BY <3>1, TextAppend
    <3> QED
      BY <2>2, <3>2 DEF x
  <2>4. new = CutTurn(was, c)
    BY <1>1, <1>2, <2>1
  <2>5. was.lines \in Seq(Seq(Nat)) /\ was.rest \in Seq(Nat)
    BY <1>2, <2>1
  <2>6. Fits(out \o was.lines, was.rest, before) /\ was.rest \in Seq(Unbroken)
    BY <1>6
  <2> HIDE DEF c, was, new, before
  <2>7. CASE c = NL
    <3>1. new.lines = Append(was.lines, was.rest) /\ new.rest = << >>
      BY <2>4, <2>7 DEF CutTurn
    <3>2. out \o new.lines = Append(out \o was.lines, was.rest)
      <4> DEFINE L == Seq(Nat)
                 x == was.lines
                 y == was.rest
      <4>1. out \in Seq(L) /\ x \in Seq(L) /\ y \in L
        BY <1>4, <2>5
      <4> HIDE DEF L, x, y
      <4>2. out \o Append(x, y) = Append(out \o x, y)
        BY <4>1, ConcatAppend
      <4> QED
        BY <3>1, <4>2 DEF x, y
    <3>3. Fits(out \o new.lines, new.rest, Append(before, c))
      BY <2>2, <2>6, <2>7, <3>1, <3>2, FitsTurn
    <3>4. new.rest \in Seq(Unbroken)
      BY <3>1, EmptySeq
    <3> QED
      BY <2>3, <3>3, <3>4 DEF new
  <2>8. CASE c # NL
    <3>1. new.lines = was.lines /\ new.rest = Append(was.rest, c)
      <4>1. was \in S
        BY <1>2, <2>1 DEF was
      <4> QED
        BY <2>4, <2>8, <4>1 DEF CutTurn
    <3>2. Fits(out \o new.lines, new.rest, Append(before, c))
      BY <2>2, <2>6, <2>8, <3>1, FitsTurn
    <3>3. c \in Unbroken
      BY <2>2, <2>8 DEF Unbroken
    <3>4. new.rest \in Seq(Unbroken)
      BY <2>6, <3>1, <3>3, AppendProperties
    <3> QED
      BY <2>3, <3>2, <3>4 DEF new
  <2> QED
    BY <2>7, <2>8
<1>7. \A m \in 0 .. n : m \in P
  <2>1. \A m \in 0 .. n - 1 : m \in P => m + 1 \in P
    <3>1. \A m \in 0 .. n - 1 : m + 1 \in 0 .. n
      BY <1>1
    <3> HIDE DEF After
    <3> QED
      BY <1>6, <3>1
  <2> HIDE DEF P
  <2> QED
    BY <1>1, <1>5, <2>1, F!Induction
<1>8. After(n) /\ SubSeq(chunk, 1, n) = chunk
  <2>1. n \in 0 .. n
    BY <1>1
  <2>2. SubSeq(chunk, 1, n) = chunk
    BY SubSeqFull DEF n
  <2> QED
    BY <1>7, <2>1, <2>2
<1> DEFINE c == u[a + n]
<1>9. Fits(out \o c.lines, c.rest, s \o chunk) /\ c.rest \in Seq(Unbroken)
  BY <1>8
<1>10. /\ got.lines = c.lines
       /\ got.buf = IF Len(c.rest) > MaxLine THEN << >> ELSE c.rest
  BY <1>2 DEF push, t
<1> HIDE DEF c
<1>11. Len(c.rest) \in Nat /\ MaxLine \in Nat /\ << >> \in Seq(Unbroken) /\ Len(<< >>) = 0
  BY <1>9, StreamAssumption, LenProperties, EmptySeq
<1>12. CASE Len(c.rest) > MaxLine
  <2> DEFINE line == LineOf(s \o chunk, Len(out \o c.lines) + 1)
  <2>1. /\ s \o chunk \in Seq(Nat) /\ Len(out \o c.lines) = Len(Breaks(s \o chunk))
        /\ Keeps(c.rest, line) /\ c.rest \in Seq(Nat)
    BY <1>9 DEF Fits
  <2>2. line \in Seq(Nat)
    BY <2>1, LineAppend
  <2> HIDE DEF line
  <2>3. Keeps(<< >>, line)
    BY <1>12, <2>1, <2>2, KeepsAppend
  <2>4. Fits(out \o c.lines, << >>, s \o chunk)
    BY <1>9, <2>3, EmptySeq DEF Fits, line
  <2> QED
    BY <1>10, <1>11, <1>12, <2>4
<1>13. CASE ~(Len(c.rest) > MaxLine)
  BY <1>9, <1>10, <1>11, <1>13
<1> QED
  BY <1>12, <1>13

(* mcp-proxy.mjs:14-32: of any stream, cut in any way, the framer gives    *)
(* the lines, each in its place, and keeps no more than its bound.         *)
THEOREM FramerGivesLines == StreamSpec => []FramesAreLines
<1> DEFINE Inv == /\ Fits(stream.lines, stream.buf, stream.sent)
                  /\ stream.buf \in Seq(Unbroken) /\ Len(stream.buf) <= MaxLine
<1>1. StreamInit => Inv
  <2>1. << >> \in Seq(Unbroken) /\ Len(<< >>) = 0 /\ 0 <= MaxLine
    BY EmptySeq, StreamAssumption
  <2> QED
    BY <2>1, NothingKept DEF StreamInit
<1>2. Inv /\ [Chunk]_stream => Inv'
  <2> SUFFICES ASSUME Inv, Chunk PROVE Inv'
    OBVIOUS
  <2>1. PICK n \in 1 .. MaxChunk : \E breaks \in SUBSET (1 .. n) :
          LET at == Len(stream.sent)
              chunk == [i \in 1 .. n |-> IF i \in breaks THEN NL ELSE at + i]
              got == push(stream.buf, chunk, MaxLine)
          IN stream' = [sent |-> stream.sent \o chunk, lines |-> stream.lines \o got.lines,
                        buf |-> got.buf]
    BY DEF Chunk
  <2>2. PICK breaks \in SUBSET (1 .. n) :
          LET at == Len(stream.sent)
              chunk == [i \in 1 .. n |-> IF i \in breaks THEN NL ELSE at + i]
              got == push(stream.buf, chunk, MaxLine)
          IN stream' = [sent |-> stream.sent \o chunk, lines |-> stream.lines \o got.lines,
                        buf |-> got.buf]
    BY <2>1
  <2> DEFINE chunk == [i \in 1 .. n |-> IF i \in breaks THEN NL ELSE Len(stream.sent) + i]
             got == push(stream.buf, chunk, MaxLine)
  <2>3. chunk \in Seq(Nat)
    <3>1. stream.sent \in Seq(Nat) /\ n \in Nat
      BY StreamAssumption DEF Fits
    <3>2. Len(stream.sent) \in Nat
      BY <3>1, LenProperties
    <3>3. chunk \in [1 .. n -> Nat]
      BY <3>1, <3>2 DEF NL
    <3> QED
      BY <3>1, <3>3, SeqDef
  <2> HIDE DEF chunk
  <2>4. /\ Fits(stream.lines \o got.lines, got.buf, stream.sent \o chunk)
        /\ got.buf \in Seq(Unbroken) /\ Len(got.buf) <= MaxLine
    BY <2>3, PushFits
  <2>5. /\ stream'.lines = stream.lines \o got.lines /\ stream'.buf = got.buf
        /\ stream'.sent = stream.sent \o chunk
    BY <2>2 DEF chunk
  <2> HIDE DEF got
  <2> QED
    BY <2>4, <2>5
<1>3. Inv => FramesAreLines
  <2> SUFFICES ASSUME Inv PROVE FramesAreLines
    OBVIOUS
  <2>1. DOMAIN stream.lines = 1 .. Len(stream.lines)
    BY LenProperties DEF Fits
  <2> QED
    BY <2>1 DEF Fits, FramesAreLines
<1> QED
  BY <1>1, <1>2, <1>3, PTL DEF StreamSpec
-----------------------------------------------------------------------------
(* The words of a text of ScanSteps.                                       *)
Text == Words \union {"quote", "sp", "esc"}
(* What lies between two places of a text: its words stand as they are,    *)
LEMMA Stretch ==
  ASSUME NEW x \in Seq(Text), NEW i \in DOMAIN x, NEW j \in DOMAIN x, i < j
  PROVE  /\ SubSeq(x, i + 1, j - 1) \in Seq(Text)
         /\ Len(SubSeq(x, i + 1, j - 1)) = j - 1 - i
         /\ DOMAIN SubSeq(x, i + 1, j - 1) = 1 .. j - 1 - i
         /\ \A k \in 1 .. j - 1 - i : SubSeq(x, i + 1, j - 1)[k] = x[i + k]
<1> DEFINE b == SubSeq(x, i + 1, j - 1)
<1>1. Len(x) \in Nat /\ DOMAIN x = 1 .. Len(x) /\ i \in Int /\ j \in Int
  BY LenProperties
<1>2. i + 1 \in 1 .. Len(x) + 1 /\ j - 1 \in i + 1 - 1 .. Len(x)
  BY <1>1
<1>3. IF i + 1 <= j - 1 THEN Len(b) = (j - 1) - (i + 1) + 1 ELSE Len(b) = 0
  BY <1>1, <1>2, SubSeqProperties
<1>4. Len(b) = j - 1 - i
  BY <1>1, <1>3
<1>5. b \in Seq(Text) /\ \A k \in 1 .. (j - 1) - (i + 1) + 1 : b[k] = x[(i + 1) + k - 1]
  BY <1>1, <1>2, SubSeqProperties, SMTT(30)
<1> HIDE DEF b
<1>6. \A k \in 1 .. j - 1 - i : b[k] = x[i + k]
  BY <1>1, <1>5
<1>7. DOMAIN b = 1 .. j - 1 - i
  BY <1>1, <1>4, <1>5, LenProperties
<1> QED
  BY <1>4, <1>5, <1>6, <1>7 DEF b

(* and it has a word exactly if one of the places in between has it.       *)
LEMMA BetweenPlaces ==
  ASSUME NEW x \in Seq(Text), NEW i \in DOMAIN x, NEW j \in DOMAIN x, i < j
  PROVE  LET b == SubSeq(x, i + 1, j - 1)
         IN  /\ \A S : Range(b) \subseteq S <=> \A m \in i + 1 .. j - 1 : x[m] \in S
             /\ \A S : Has(S, b) <=> \E m \in i + 1 .. j - 1 : x[m] \in S
             /\ DOMAIN b = 1 .. j - 1 - i /\ b \in Seq(Text)
             /\ \A k \in 1 .. j - 1 - i : b[k] = x[i + k]
<1> DEFINE b == SubSeq(x, i + 1, j - 1)
<1>1. Len(x) \in Nat /\ DOMAIN x = 1 .. Len(x) /\ i \in Int /\ j \in Int
  BY LenProperties
<1>3. b \in Seq(Text) /\ Len(b) = j - 1 - i /\ \A k \in 1 .. j - 1 - i : b[k] = x[i + k]
  BY Stretch
<1>4. DOMAIN b = 1 .. j - 1 - i
  BY Stretch
<1> HIDE DEF b
<1>5. ASSUME NEW m \in i + 1 .. j - 1 PROVE m - i \in 1 .. j - 1 - i /\ b[m - i] = x[m]
  <2>1. m - i \in 1 .. j - 1 - i /\ i + (m - i) = m
    BY <1>1
  <2>2. b[m - i] = x[i + (m - i)]
    BY <1>3, <2>1
  <2> QED
    BY <2>1, <2>2
<1>6. \A k \in 1 .. j - 1 - i : i + k \in i + 1 .. j - 1
  BY <1>1
<1>7. \A S : Range(b) \subseteq S <=> \A m \in i + 1 .. j - 1 : x[m] \in S
  BY <1>3, <1>4, <1>5, <1>6 DEF Range
<1>8. \A S : Has(S, b) <=> \E m \in i + 1 .. j - 1 : x[m] \in S
  BY <1>3, <1>4, <1>5, <1>6 DEF Has
<1> QED
  BY <1>3, <1>4, <1>7, <1>8 DEF b

(* A phrase of two words, and one of three, without the recursion.         *)
Near(how, x, i, j) == i < j /\ Gap(how, SubSeq(x, i + 1, j - 1))
LEMMA SaysTwo ==
  ASSUME NEW why, NEW A, NEW B, NEW how, NEW x
  PROVE  Says(Phrase(why, <<A, B>>, <<how>>), x) <=>
           \E i, j \in DOMAIN x : x[i] \in A /\ x[j] \in B /\ Near(how, x, i, j)
<1> DEFINE p == Phrase(why, <<A, B>>, <<how>>)
           n == Len(p.words)
           Eq(at) == at = [k \in 1 .. n |->
             {j \in DOMAIN x : /\ x[j] \in p.words[k]
                               /\ k > 1 => \E i \in at[k - 1] :
                                    i < j /\ Gap(p.gaps[k - 1], SubSeq(x, i + 1, j - 1))}]
           h == CHOOSE at : Eq(at)
           S1 == {j \in DOMAIN x : x[j] \in A}
           S2 == {j \in DOMAIN x : x[j] \in B /\ \E i \in S1 : Near(how, x, i, j)}
           g == [k \in 1 .. 2 |-> IF k = 1 THEN S1 ELSE S2]
<1>1. Says(p, x) <=> h[n] # {}
  BY DEF Says
<1>2. n = 2 /\ p.words[1] = A /\ p.words[2] = B /\ p.gaps[1] = how
  BY DEF Phrase
<1> HIDE DEF p, n
<1>3. Eq(g)
  <2> DEFINE r == [k \in 1 .. n |->
             {j \in DOMAIN x : /\ x[j] \in p.words[k]
                               /\ k > 1 => \E i \in g[k - 1] :
                                    i < j /\ Gap(p.gaps[k - 1], SubSeq(x, i + 1, j - 1))}]
  <2>1. g[1] = S1
    OBVIOUS
  <2>2. r[1] = S1
    BY <1>2
  <2>3. r[2] = S2
    BY <1>2, <2>1 DEF Near
  <2> QED
    BY <1>2, <2>1, <2>2, <2>3
<1>4. Eq(h)
  BY <1>3
<1> HIDE DEF h
<1>5. h[1] = S1
  BY <1>2, <1>4
<1>6. h[2] = S2
  BY <1>2, <1>4, <1>5 DEF Near
<1> QED
  BY <1>1, <1>2, <1>6 DEF p

LEMMA SaysThree ==
  ASSUME NEW why, NEW A, NEW B, NEW C, NEW how, NEW how2, NEW x
  PROVE  Says(Phrase(why, <<A, B, C>>, <<how, how2>>), x) <=>
           \E i, j, k \in DOMAIN x : /\ x[i] \in A /\ x[j] \in B /\ x[k] \in C
                                     /\ Near(how, x, i, j) /\ Near(how2, x, j, k)
<1> DEFINE p == Phrase(why, <<A, B, C>>, <<how, how2>>)
           n == Len(p.words)
           Eq(at) == at = [k \in 1 .. n |->
             {j \in DOMAIN x : /\ x[j] \in p.words[k]
                               /\ k > 1 => \E i \in at[k - 1] :
                                    i < j /\ Gap(p.gaps[k - 1], SubSeq(x, i + 1, j - 1))}]
           h == CHOOSE at : Eq(at)
           S1 == {j \in DOMAIN x : x[j] \in A}
           S2 == {j \in DOMAIN x : x[j] \in B /\ \E i \in S1 : Near(how, x, i, j)}
           S3 == {j \in DOMAIN x : x[j] \in C /\ \E i \in S2 : Near(how2, x, i, j)}
           g == [k \in 1 .. 3 |-> IF k = 1 THEN S1 ELSE IF k = 2 THEN S2 ELSE S3]
<1>1. Says(p, x) <=> h[n] # {}
  BY DEF Says
<1>2. n = 3 /\ p.words[1] = A /\ p.words[2] = B /\ p.words[3] = C
      /\ p.gaps[1] = how /\ p.gaps[2] = how2
  BY DEF Phrase
<1> HIDE DEF p, n
<1>3. Eq(g)
  <2> DEFINE r == [k \in 1 .. n |->
             {j \in DOMAIN x : /\ x[j] \in p.words[k]
                               /\ k > 1 => \E i \in g[k - 1] :
                                    i < j /\ Gap(p.gaps[k - 1], SubSeq(x, i + 1, j - 1))}]
  <2>1. g[1] = S1 /\ g[2] = S2
    OBVIOUS
  <2>2. r[1] = S1
    BY <1>2
  <2>3. r[2] = S2
    BY <1>2, <2>1 DEF Near
  <2>4. r[3] = S3
    BY <1>2, <2>1 DEF Near
  <2>5. \A k \in 1 .. 3 : k \in {1, 2, 3}
    OBVIOUS
  <2>6. r \in [1 .. 3 -> {S1, S2, S3}] /\ \A k \in 1 .. 3 : r[k] = g[k]
    BY <1>2, <2>2, <2>3, <2>4, <2>5
  <2> HIDE DEF S1, S2, S3
  <2> QED
    BY <1>2, <2>6
<1>4. Eq(h)
  BY <1>3
<1> HIDE DEF h
<1>5. h[1] = S1
  BY <1>2, <1>4
<1>6. h[2] = S2
  BY <1>2, <1>4, <1>5 DEF Near
<1>7. h[3] = S3
  BY <1>2, <1>4, <1>6 DEF Near
<1>8. h[3] # {} <=> \E i, j, k \in DOMAIN x : /\ x[i] \in A /\ x[j] \in B /\ x[k] \in C
                                             /\ Near(how, x, i, j) /\ Near(how2, x, j, k)
  BY <1>7
<1> QED
  BY <1>1, <1>2, <1>8 DEF p

(* The gaps, place by place.                                               *)
LEMMA GapsOver ==
  ASSUME NEW x \in Seq(Text), NEW i \in DOMAIN x, NEW j \in DOMAIN x
  PROVE  /\ Near(<<"white">>, x, i, j) <=> i < j /\ \A m \in i + 1 .. j - 1 : x[m] \in White
         /\ \A n : Near(<<"clause", n>>, x, i, j) <=>
              /\ i < j /\ Within(n, x, i, j)
              /\ \A m \in i + 1 .. j - 1 : x[m] \notin {".", "nl", "esc"}
         /\ Near(<<"the">>, x, i, j) =>
              i < j /\ \A m \in i + 1 .. j - 1 : x[m] \in White \union Articles
         /\ i < j /\ (\A m \in i + 1 .. j - 1 : x[m] \in White) => Near(<<"the">>, x, i, j)
<1> DEFINE b == SubSeq(x, i + 1, j - 1)
<1>1. CASE ~(i < j)
  BY <1>1 DEF Near
<1>2. CASE i < j
  <2>1. /\ \A S : Range(b) \subseteq S <=> \A m \in i + 1 .. j - 1 : x[m] \in S
        /\ \A S : Has(S, b) <=> \E m \in i + 1 .. j - 1 : x[m] \in S
    BY <1>2, BetweenPlaces
  <2> HIDE DEF b
  <2>2. /\ Near(<<"white">>, x, i, j) <=> Range(b) \subseteq White
        /\ \A n : Near(<<"clause", n>>, x, i, j) <=> Within(n, x, i, j) /\ ~Has({".", "nl", "esc"}, b)
        /\ Near(<<"the">>, x, i, j) <=>
             /\ Range(b) \subseteq White \union Articles
             /\ Cardinality({k \in DOMAIN b : b[k] \in Articles}) <= 1
    <3>1. /\ Gap(<<"white">>, b) <=> Range(b) \subseteq White
          /\ Gap(<<"the">>, b) <=>
               /\ Range(b) \subseteq White \union Articles
               /\ Cardinality({k \in DOMAIN b : b[k] \in Articles}) <= 1
      BY DEF Gap
    <3>2. \A n : Gap(<<"clause", n>>, b) <=> Chars(b) <= n /\ ~Has({".", "nl", "esc"}, b)
      BY DEF Gap
    <3> QED
      BY <1>2, <3>1, <3>2 DEF Near, Within, b
  <2>3. Range(b) \subseteq White => Cardinality({k \in DOMAIN b : b[k] \in Articles}) <= 1
    <3> DEFINE A == {k \in DOMAIN b : b[k] \in Articles}
    <3>1. Range(b) \subseteq White => A = {}
      BY DEF Range, White, Articles
    <3>2. Cardinality({}) = 0
      BY FS_EmptySet
    <3> HIDE DEF A
    <3>3. Range(b) \subseteq White => Cardinality(A) = 0
      BY <3>1, <3>2, Zenon
    <3>4. Range(b) \subseteq White => Cardinality(A) <= 1
      BY <3>3
    <3> QED
      BY <3>4 DEF A
  <2>4. Range(b) \subseteq White => Range(b) \subseteq White \union Articles
    OBVIOUS
  <2> QED
    BY <1>2, <2>1, <2>2, <2>3, <2>4
<1> QED
  BY <1>1, <1>2
-----------------------------------------------------------------------------
(* The three phrases that the words of ScanSteps can say.                  *)
OverrideP == Phrase("instruction-override",
                    <<{"ignore"}, {"previous", "prior", "above"}, {"instructions", "rules", "prompt"}>>,
                    << <<"the">>, <<"white">> >>)
ExfilP == Phrase(Exfil, <<{"exfiltrate", "leak", "steal"},
                          Nouns \union SecretPaths \union {"data", "env"} \union Dest>>,
                 << <<"clause", 60>> >>)

(* What the phrases are read as.                                           *)
LEMMA OverrideSaid ==
  ASSUME NEW x
  PROVE  Says(OverrideP, x) <=>
           \E a, b, c \in DOMAIN x :
             /\ x[a] \in {"ignore"} /\ x[b] \in {"previous", "prior", "above"}
             /\ x[c] \in {"instructions", "rules", "prompt"}
             /\ Near(<<"the">>, x, a, b) /\ Near(<<"white">>, x, b, c)
<1> DEFINE W1 == {"ignore"}
           W2 == {"previous", "prior", "above"}
           W3 == {"instructions", "rules", "prompt"}
           the == <<"the">>
           white == <<"white">>
<1>1. OverrideP = Phrase("instruction-override", <<W1, W2, W3>>, <<the, white>>)
  BY DEF OverrideP
<1> HIDE DEF W1, W2, W3, the, white
<1>2. Says(Phrase("instruction-override", <<W1, W2, W3>>, <<the, white>>), x) <=>
        \E a, b, c \in DOMAIN x : /\ x[a] \in W1 /\ x[b] \in W2 /\ x[c] \in W3
                                  /\ Near(the, x, a, b) /\ Near(white, x, b, c)
  BY SaysThree
<1> QED
  BY <1>1, <1>2 DEF W1, W2, W3, the, white

LEMMA PathSaid ==
  ASSUME NEW x
  PROVE  Says(SENSITIVE_PATH_EXFIL_RE, x) <=>
           \E a, b, c \in DOMAIN x :
             /\ x[a] \in {"read", "cat", "copy", "send", "post", "upload", "forward", "curl", "fetch"}
             /\ x[b] \in SecretPaths /\ x[c] \in Dest
             /\ Near(<<"clause", 80>>, x, a, b) /\ Near(<<"clause", 100>>, x, b, c)
<1> DEFINE W1 == {"read", "cat", "copy", "send", "post", "upload", "forward", "curl", "fetch"}
           W2 == SecretPaths
           W3 == Dest
           near == <<"clause", 80>>
           far == <<"clause", 100>>
           name == "path to destination"
<1>1. SENSITIVE_PATH_EXFIL_RE = Phrase(name, <<W1, W2, W3>>, <<near, far>>)
  BY DEF SENSITIVE_PATH_EXFIL_RE
<1> HIDE DEF W1, W2, W3, near, far, name
<1>2. Says(Phrase(name, <<W1, W2, W3>>, <<near, far>>), x) <=>
        \E a, b, c \in DOMAIN x : /\ x[a] \in W1 /\ x[b] \in W2 /\ x[c] \in W3
                                  /\ Near(near, x, a, b) /\ Near(far, x, b, c)
  BY SaysThree
<1> QED
  BY <1>1, <1>2 DEF W1, W2, W3, near, far, name

(* The description d is in y, behind off words; it is all y has to say.    *)
Placed(y, off, d) ==
  /\ y \in Seq(Text) /\ d \in Seq(Words) /\ off \in Nat /\ off + Len(d) <= Len(y)
  /\ \A j \in 1 .. Len(d) : y[off + j] = d[j]
Alone(y, off, d) ==
  \A i \in 1 .. Len(y) : i \in off + 1 .. off + Len(d) \/ y[i] \in {"quote", "sp"}

(* A place of the description is one of the text, and the other way round. *)
LEMMA PlacesMove ==
  ASSUME NEW y, NEW off, NEW d, Placed(y, off, d)
  PROVE  /\ DOMAIN y = 1 .. Len(y) /\ DOMAIN d = 1 .. Len(d) /\ Len(y) \in Nat /\ Len(d) \in Nat
         /\ off \in Nat /\ \A j \in DOMAIN d : d[j] \in Words
         /\ \A j \in DOMAIN d : j \in Nat /\ off + j \in DOMAIN y /\ y[off + j] = d[j]
         /\ \A m \in off + 1 .. off + Len(d) : m - off \in DOMAIN d /\ y[m] = d[m - off]
<1>1. /\ DOMAIN y = 1 .. Len(y) /\ DOMAIN d = 1 .. Len(d) /\ Len(y) \in Nat /\ Len(d) \in Nat
      /\ off \in Nat /\ off + Len(d) <= Len(y) /\ \A j \in DOMAIN d : d[j] \in Words
  BY LenProperties, ElementOfSeq DEF Placed
<1>2. \A j \in DOMAIN d : j \in Nat /\ off + j \in DOMAIN y /\ y[off + j] = d[j]
  BY <1>1 DEF Placed
<1>3. ASSUME NEW m \in off + 1 .. off + Len(d)
      PROVE  m - off \in DOMAIN d /\ y[m] = d[m - off]
  <2>1. m - off \in DOMAIN d /\ off + (m - off) = m
    BY <1>1
  <2>2. y[off + (m - off)] = d[m - off]
    BY <1>2, <2>1
  <2> QED
    BY <2>1, <2>2
<1> QED
  BY <1>1, <1>2, <1>3

LEMMA WordsAreText == Seq(Words) \subseteq Seq(Text)
<1>1. Words \subseteq Text
  BY DEF Text
<1>2. ASSUME NEW d \in Seq(Words) PROVE d \in Seq(Text)
  <2>1. Len(d) \in Nat /\ DOMAIN d = 1 .. Len(d) /\ \A k \in 1 .. Len(d) : d[k] \in Words
    BY LenProperties, ElementOfSeq
  <2>2. d = [k \in 1 .. Len(d) |-> d[k]]
    BY <1>2, <2>1, LenProperties
  <2>3. d \in [1 .. Len(d) -> Text]
    BY <1>1, <2>1, <2>2
  <2> QED
    BY <2>1, <2>3, SeqDef
<1> QED
  BY <1>2

(* Two stretches that agree place by place are one.                        *)
Agree(y, s, t, d, i, j) ==
  /\ y \in Seq(Text) /\ d \in Seq(Text)
  /\ i \in DOMAIN d /\ j \in DOMAIN d /\ i < j
  /\ s \in DOMAIN y /\ t \in DOMAIN y /\ s < t
  /\ t - 1 - s = j - 1 - i
  /\ \A k \in 1 .. j - 1 - i : y[s + k] = d[i + k]
LEMMA SameBetween ==
  ASSUME NEW y, NEW d, NEW i, NEW j, NEW s, NEW t, Agree(y, s, t, d, i, j)
  PROVE  \A n : Within(n, y, s, t) <=> Within(n, d, i, j)
<1> DEFINE b == SubSeq(y, s + 1, t - 1)
           c == SubSeq(d, i + 1, j - 1)
<1>1. /\ b \in Seq(Text) /\ DOMAIN b = 1 .. t - 1 - s
      /\ \A k \in 1 .. t - 1 - s : b[k] = y[s + k]
  BY Stretch DEF Agree
<1>2. /\ c \in Seq(Text) /\ DOMAIN c = 1 .. j - 1 - i
      /\ \A k \in 1 .. j - 1 - i : c[k] = d[i + k]
  BY Stretch DEF Agree
<1> HIDE DEF b, c
<1>3. DOMAIN b = DOMAIN c /\ \A k \in DOMAIN b : b[k] = c[k]
  BY <1>1, <1>2 DEF Agree
<1>4. Len(b) = Len(c) /\ DOMAIN b = 1 .. Len(b)
  BY <1>1, <1>2, <1>3, LenProperties
<1>5. b = c
  BY <1>1, <1>2, <1>3, <1>4, SeqEqual
<1> QED
  BY <1>5, Zenon DEF b, c, Within

(* A stretch of the description stands in the text as it is.               *)
LEMMA SameStretch ==
  ASSUME NEW y, NEW off, NEW d, Placed(y, off, d),
         NEW i \in DOMAIN d, NEW j \in DOMAIN d, i < j,
         NEW s, NEW t, s = off + i, t = off + j
  PROVE  \A n : Within(n, y, s, t) <=> Within(n, d, i, j)
<1>1. /\ DOMAIN d = 1 .. Len(d) /\ Len(d) \in Nat /\ off \in Nat /\ y \in Seq(Text)
      /\ \A m \in DOMAIN d : off + m \in DOMAIN y /\ y[off + m] = d[m]
  BY PlacesMove DEF Placed
<1>2. d \in Seq(Text)
  BY WordsAreText DEF Placed
<1>3. s < t /\ t - 1 - s = j - 1 - i /\ s \in DOMAIN y /\ t \in DOMAIN y
  BY <1>1
<1>4. ASSUME NEW k \in 1 .. j - 1 - i PROVE y[s + k] = d[i + k]
  <2>1. i + k \in DOMAIN d /\ s + k = off + (i + k)
    BY <1>1
  <2> QED
    BY <1>1, <2>1
<1>5. Agree(y, s, t, d, i, j)
  BY <1>1, <1>2, <1>3, <1>4 DEF Agree
<1> QED
  BY <1>5, SameBetween

(* What the description says is said where it is.                          *)
LEMMA SaidIsFound ==
  ASSUME NEW y, NEW off, NEW d, Placed(y, off, d)
  PROVE  /\ Overrides(d) => Says(OverrideP, y)
         /\ Steals(d) => Says(ExfilP, y)
         /\ Moves(d) => Says(SENSITIVE_PATH_EXFIL_RE, y)
<1>1. /\ \A j \in DOMAIN d : j \in Nat /\ off + j \in DOMAIN y /\ y[off + j] = d[j]
      /\ off \in Nat /\ y \in Seq(Text) /\ DOMAIN d = 1 .. Len(d) /\ Len(d) \in Nat
  BY PlacesMove DEF Placed
<1>2. ASSUME NEW i \in DOMAIN d, NEW j \in DOMAIN d, i < j
      PROVE  /\ off + i < off + j
             /\ \A m \in off + i + 1 .. off + j - 1 :
                  /\ m - off \in DOMAIN d /\ m - off \in i .. j /\ y[m] = d[m - off]
                  /\ m - off # i /\ m - off # j
  <2>1. off + i < off + j
    BY <1>1, <1>2
  <2>2. ASSUME NEW m \in off + i + 1 .. off + j - 1
        PROVE  m - off \in i .. j /\ m - off \in DOMAIN d /\ off + (m - off) = m
               /\ m - off # i /\ m - off # j
    BY <1>1
  <2>3. ASSUME NEW m \in off + i + 1 .. off + j - 1
        PROVE  y[m] = d[m - off]
    <3>1. y[off + (m - off)] = d[m - off]
      BY <1>1, <2>2
    <3> QED
      BY <2>2, <3>1
  <2> QED
    BY <2>1, <2>2, <2>3
<1>3. ASSUME Overrides(d) PROVE Says(OverrideP, y)
  <2>1. PICK i, j, k \in DOMAIN d :
          /\ i < j /\ j < k /\ d[i] = "ignore" /\ d[j] = "previous" /\ d[k] = "instructions"
          /\ \A m \in i .. k : m \in {i, j, k} \/ d[m] = "nl"
    BY <1>3 DEF Overrides
  <2>2. \A m \in off + i + 1 .. off + j - 1 : y[m] \in White
    <3>1. \A m \in i .. j : m \in i .. k /\ m # k
      BY <1>1, <2>1
    <3>2. ASSUME NEW m \in off + i + 1 .. off + j - 1 PROVE y[m] = "nl"
      <4>1. m - off \in i .. j /\ y[m] = d[m - off] /\ m - off # i /\ m - off # j
        BY <1>2, <2>1
      <4> QED
        BY <2>1, <3>1, <4>1
    <3> QED
      BY <3>2 DEF White
  <2>3. \A m \in off + j + 1 .. off + k - 1 : y[m] \in White
    <3>1. \A m \in j .. k : m \in i .. k /\ m # i
      BY <1>1, <2>1
    <3>2. ASSUME NEW m \in off + j + 1 .. off + k - 1 PROVE y[m] = "nl"
      <4>1. m - off \in j .. k /\ y[m] = d[m - off] /\ m - off # j /\ m - off # k
        BY <1>2, <2>1
      <4> QED
        BY <2>1, <3>1, <4>1
    <3> QED
      BY <3>2 DEF White
  <2>4. /\ off + i \in DOMAIN y /\ off + j \in DOMAIN y /\ off + k \in DOMAIN y
        /\ y[off + i] = "ignore" /\ y[off + j] = "previous" /\ y[off + k] = "instructions"
        /\ off + i < off + j /\ off + j < off + k
    BY <1>1, <1>2, <2>1
  <2>5. Near(<<"the">>, y, off + i, off + j)
    BY <1>1, <2>2, <2>4, GapsOver
  <2>6. Near(<<"white">>, y, off + j, off + k)
    BY <1>1, <2>3, <2>4, GapsOver
  <2> QED
    BY <2>4, <2>5, <2>6, OverrideSaid
<1>4. ASSUME NEW i \in DOMAIN d, NEW j \in DOMAIN d, NEW k \in DOMAIN d, NEW l \in DOMAIN d,
             i < j, k <= i, j <= l, OneClause(d, k, l), NEW n, Within(n, d, i, j)
      PROVE  Near(<<"clause", n>>, y, off + i, off + j)
  <2>1. ASSUME NEW m \in off + i + 1 .. off + j - 1 PROVE y[m] \notin {".", "nl", "esc"}
    <3>1. m - off \in i .. j /\ y[m] = d[m - off] /\ m - off \in DOMAIN d
      BY <1>2, <1>4
    <3>2. m - off \in k .. l
      <4>1. i \in Int /\ j \in Int /\ k \in Int /\ l \in Int
        BY <1>1
      <4> QED
        BY <1>4, <3>1, <4>1
    <3>3. d[m - off] \notin {".", "nl"} /\ d[m - off] \in Words
      BY <1>4, <3>1, <3>2, PlacesMove DEF OneClause
    <3> QED
      BY <3>1, <3>3 DEF Words
  <2>2. off + i \in DOMAIN y /\ off + j \in DOMAIN y /\ off + i < off + j
    BY <1>1, <1>2, <1>4
  <2>3. Within(n, y, off + i, off + j)
    BY <1>4, SameStretch, Zenon
  <2> QED
    BY <1>1, <2>1, <2>2, <2>3, GapsOver, SMTT(30)
<1>5. ASSUME Steals(d) PROVE Says(ExfilP, y)
  <2>1. PICK i, j \in DOMAIN d :
          /\ i < j /\ d[i] = "steal" /\ d[j] \in {"secrets", ".aws/c.json", "https:"}
          /\ OneClause(d, i, j) /\ Within(60, d, i, j)
    BY <1>5 DEF Steals
  <2>2. Near(<<"clause", 60>>, y, off + i, off + j)
    <3>1. i <= i /\ j <= j
      BY <1>1
    <3> QED
      BY <1>4, <2>1, <3>1
  <2>3. /\ off + i \in DOMAIN y /\ off + j \in DOMAIN y
        /\ y[off + i] = "steal" /\ y[off + j] \in {"secrets", ".aws/c.json", "https:"}
    BY <1>1, <2>1
  <2>4. y[off + j] \in Nouns \union SecretPaths \union {"data", "env"} \union Dest
    BY <2>3 DEF Nouns, SecretPaths, Dest, Urls
  <2>5. y[off + i] \in {"exfiltrate", "leak", "steal"}
    BY <2>3
  <2> QED
    BY <2>2, <2>3, <2>4, <2>5, SaysTwo DEF ExfilP
<1>6. ASSUME Moves(d) PROVE Says(SENSITIVE_PATH_EXFIL_RE, y)
  <2>1. PICK i, j, k \in DOMAIN d :
          /\ i < j /\ j < k /\ d[i] = "read" /\ d[j] = ".aws/c.json" /\ d[k] = "https:"
          /\ OneClause(d, i, k) /\ Within(80, d, i, j) /\ Within(100, d, j, k)
    BY <1>6 DEF Moves
  <2>2. Near(<<"clause", 80>>, y, off + i, off + j) /\ Near(<<"clause", 100>>, y, off + j, off + k)
    <3>1. i <= i /\ j <= k /\ i <= j /\ k <= k
      BY <1>1, <2>1
    <3> QED
      BY <1>4, <2>1, <3>1
  <2>3. /\ off + i \in DOMAIN y /\ off + j \in DOMAIN y /\ off + k \in DOMAIN y
        /\ y[off + i] = "read" /\ y[off + j] = ".aws/c.json" /\ y[off + k] = "https:"
    BY <1>1, <2>1
  <2>4. /\ y[off + i] \in {"read", "cat", "copy", "send", "post", "upload", "forward", "curl", "fetch"}
        /\ y[off + j] \in SecretPaths /\ y[off + k] \in Dest
    BY <2>3 DEF SecretPaths, Dest, Urls
  <2> QED
    BY <2>2, <2>3, <2>4, PathSaid
<1> QED
  BY <1>3, <1>5, <1>6

(* A phrase none of whose first words is in a text is not said there.      *)
LEMMA FirstWord ==
  ASSUME NEW x, NEW A, \A i \in DOMAIN x : x[i] \notin A
  PROVE  /\ \A why, B, how : ~Says(Phrase(why, <<A, B>>, <<how>>), x)
         /\ \A why, B, C, how, how2 : ~Says(Phrase(why, <<A, B, C>>, <<how, how2>>), x)
<1>1. ASSUME NEW why, NEW B, NEW how PROVE ~Says(Phrase(why, <<A, B>>, <<how>>), x)
  BY SaysTwo
<1>2. ASSUME NEW why, NEW B, NEW C, NEW how, NEW how2
      PROVE  ~Says(Phrase(why, <<A, B, C>>, <<how, how2>>), x)
  BY SaysThree
<1> QED
  BY <1>1, <1>2

(* Of the phrases, the words of ScanSteps can say two.                     *)
LEMMA WordsSay ==
  ASSUME NEW y, \A i \in DOMAIN y : y[i] \in Words \union {"quote", "sp"}
  PROVE  injectionHits(y) = (IF Says(OverrideP, y) THEN {"instruction-override"} ELSE {})
                            \union (IF Says(ExfilP, y) THEN {Exfil} ELSE {})
<1>1. ASSUME NEW A, A \intersect (Words \union {"quote", "sp"}) = {}
      PROVE  /\ \A why, B, how : ~Says(Phrase(why, <<A, B>>, <<how>>), y)
             /\ \A why, B, C, how, how2 : ~Says(Phrase(why, <<A, B, C>>, <<how, how2>>), y)
  BY <1>1, FirstWord
<1>2. /\ \A A \in {{"disregard"}, {"reveal"}, {"set aside", "put aside"}} :
           A \intersect (Words \union {"quote", "sp"}) = {}
      /\ \A A \in {{"base64"}, {"send"},
                 {"send", "email", "upload", "post", "forward"},
                 {"you are now"}, {"deliver", "copy", "forward", "send", "hand over"}} :
           A \intersect (Words \union {"quote", "sp"}) = {}
  BY DEF Words
<1>3. ASSUME NEW q \in INJECTION_RE, q # OverrideP, q # ExfilP PROVE ~Says(q, y)
  <2>1. \A why, B, how : ~Says(Phrase(why, <<{"disregard"}, B>>, <<how>>), y)
    BY <1>1, <1>2
  <2>2. \A why, B, how : ~Says(Phrase(why, <<{"reveal"}, B>>, <<how>>), y)
    BY <1>1, <1>2
  <2>3. \A why, B, how : ~Says(Phrase(why, <<{"set aside", "put aside"}, B>>, <<how>>), y)
    BY <1>1, <1>2
  <2>4. \A why, B, C, how, how2 :
          ~Says(Phrase(why, <<{"base64"}, B, C>>, <<how, how2>>), y)
    BY <1>1, <1>2
  <2>5. \A why, B, C, how, how2 :
          ~Says(Phrase(why, <<{"send"}, B, C>>, <<how, how2>>), y)
    BY <1>1, <1>2
  <2>6. \A why, B, C, how, how2 :
          ~Says(Phrase(why, <<{"send", "email", "upload", "post", "forward"}, B, C>>, <<how, how2>>), y)
    BY <1>1, <1>2
  <2>7. \A why, B, C, how, how2 :
          ~Says(Phrase(why, <<{"you are now"}, B, C>>, <<how, how2>>), y)
    BY <1>1, <1>2
  <2>8. \A why, B, C, how, how2 :
          ~Says(Phrase(why, <<{"deliver", "copy", "forward", "send", "hand over"}, B, C>>, <<how, how2>>), y)
    BY <1>1, <1>2
  <2>9. ~Says(Phrase("safety-bypass", <<{"disregard"}, {"safety", "guardrail", "policy"}>>, << <<"sentence", 20>> >>), y)
    BY <2>1
  <2>10. ~Says(Phrase("payload to shell", <<{"base64"}, {"|"}, {"sh", "bash"}>>, << <<"pipe", 40>>, <<"white">> >>), y)
    BY <2>4
  <2>11. ~Says(Phrase("data-exfil", <<{"send"}, {"files", "secrets", "env", "credentials", "keys"},
                          {"webhook", "curl"} \union Urls>>, << <<"the">>, <<"sentence", 40>> >>), y)
    BY <2>5
  <2>12. ~Says(Phrase("data-exfil to a destination",
          <<{"send", "email", "upload", "post", "forward"}, Nouns \union {".env"},
            {"@host", "webhook", "attacker"} \union Urls>>, << <<"the">>, <<"sentence", 60>> >>), y)
    BY <2>6
  <2>13. ~Says(Phrase("secret extraction", <<{"reveal"}, {"secrets", "prompt", "credentials"}>>, << <<"the">> >>), y)
    BY <2>2
  <2>14. ~Says(Phrase("instruction-override", <<{"disregard"}, {"prompt", "instructions", "rules"}>>, << <<"the">> >>), y)
    BY <2>1
  <2>15. ~Says(Phrase("jailbreak persona", <<{"you are now"}, {"developer", "unrestricted"}, {"mode"}>>,
          << <<"the">>, <<"white">> >>), y)
    BY <2>7
  <2>16. ~Says(Phrase("paraphrased override", <<{"set aside", "put aside"},
          {"directives", "instructions", "rules", "guidance"}>>, << <<"list item", 40>> >>), y)
    BY <2>3
  <2>17. ~Says(Phrase("paraphrased data-exfil",
          <<{"deliver", "copy", "forward", "send", "hand over"},
            {".ssh/id", ".env", "keys", "credentials", "secrets"},
            {"webhook", "server", "backup", "attacker", "@host"} \union Urls>>,
          << <<"sentence", 60>>, <<"sentence", 60>> >>), y)
    BY <2>8
  <2> QED
    BY <1>3, <2>9, <2>10, <2>11, <2>12, <2>13, <2>14, <2>15, <2>16, <2>17
       DEF INJECTION_RE, OverrideP, ExfilP
<1>4. /\ OverrideP \in INJECTION_RE /\ ExfilP \in INJECTION_RE
      /\ OverrideP.why = "instruction-override" /\ ExfilP.why = Exfil
  <2>1. OverrideP \in INJECTION_RE /\ ExfilP \in INJECTION_RE
    BY DEF INJECTION_RE, OverrideP, ExfilP
  <2>2. OverrideP.why = "instruction-override" /\ ExfilP.why = Exfil
    BY DEF OverrideP, ExfilP, Phrase
  <2> QED
    BY <2>1, <2>2
<1>5. {q \in INJECTION_RE : Says(q, y)} = {q \in {OverrideP, ExfilP} : Says(q, y)}
  BY <1>3, <1>4
<1> QED
  BY <1>4, <1>5 DEF injectionHits

(* All there is to say in y is said by the description.                    *)
LEMMA FoundIsSaid ==
  ASSUME NEW y, NEW off, NEW d, Placed(y, off, d), Alone(y, off, d)
  PROVE  /\ Says(OverrideP, y) => Overrides(d)
         /\ Says(ExfilP, y) => Steals(d)
         /\ Says(SENSITIVE_PATH_EXFIL_RE, y) => Moves(d)
         /\ \A i \in DOMAIN y : y[i] \in Words \union {"quote", "sp"}
<1>1. /\ DOMAIN y = 1 .. Len(y) /\ DOMAIN d = 1 .. Len(d) /\ Len(y) \in Nat /\ Len(d) \in Nat
      /\ off \in Nat /\ y \in Seq(Text) /\ \A j \in DOMAIN d : d[j] \in Words
      /\ \A m \in off + 1 .. off + Len(d) : m - off \in DOMAIN d /\ y[m] = d[m - off]
  BY PlacesMove DEF Placed
<1>2. ASSUME NEW i \in DOMAIN y, y[i] \notin {"quote", "sp"}
      PROVE  /\ i \in off + 1 .. off + Len(d) /\ i - off \in DOMAIN d
             /\ y[i] = d[i - off] /\ y[i] \in Words
  <2>1. i \in off + 1 .. off + Len(d)
    BY <1>1, <1>2 DEF Alone
  <2> QED
    BY <1>1, <2>1
<1>3. \A i \in DOMAIN y : y[i] \in Words \union {"quote", "sp"}
  BY <1>2
<1>4. ASSUME NEW i \in DOMAIN y, NEW k \in DOMAIN y,
             y[i] \notin {"quote", "sp"}, y[k] \notin {"quote", "sp"},
             NEW m \in i - off .. k - off
      PROVE  off + m \in i .. k /\ off + m \in DOMAIN y /\ y[off + m] = d[m] /\ m \in DOMAIN d
  <2>1. i \in off + 1 .. off + Len(d) /\ k \in off + 1 .. off + Len(d)
    BY <1>2, <1>4
  <2>2. /\ off + m \in off + 1 .. off + Len(d) /\ (off + m) - off = m /\ off + m \in i .. k
        /\ off + m \in DOMAIN y
    <3>1. i \in Int /\ k \in Int /\ m \in Int /\ off + m >= i /\ off + m <= k
      BY <1>1, <2>1
    <3>2. off + m \in 1 .. Len(y)
      BY <1>1, <3>1
    <3> QED
      BY <1>1, <2>1, <3>1, <3>2
  <2>3. y[off + m] = d[(off + m) - off] /\ (off + m) - off \in DOMAIN d
    BY <1>1, <2>2
  <2> QED
    BY <2>2, <2>3
<1>5. ASSUME Says(OverrideP, y) PROVE Overrides(d)
  <2>1. PICK i, j, k \in DOMAIN y :
          /\ y[i] \in {"ignore"} /\ y[j] \in {"previous", "prior", "above"}
          /\ y[k] \in {"instructions", "rules", "prompt"}
          /\ Near(<<"the">>, y, i, j) /\ Near(<<"white">>, y, j, k)
    <3> DEFINE how == <<"the">>
               how2 == <<"white">>
               A == {"ignore"}
               B == {"previous", "prior", "above"}
               C == {"instructions", "rules", "prompt"}
               why == "instruction-override"
    <3>1. Says(Phrase(why, <<A, B, C>>, <<how, how2>>), y)
      BY <1>5 DEF OverrideP
    <3> HIDE DEF how, how2, A, B, C, why
    <3>2. \E i, j, k \in DOMAIN y : /\ y[i] \in A /\ y[j] \in B /\ y[k] \in C
                                    /\ Near(how, y, i, j) /\ Near(how2, y, j, k)
      BY <3>1, SaysThree
    <3> QED
      BY <3>2 DEF how, how2, A, B, C
  <2>2. y[i] = "ignore" /\ y[j] = "previous" /\ y[k] = "instructions"
    BY <1>3, <2>1 DEF Words
  <2>3. /\ i < j /\ \A m \in i + 1 .. j - 1 : y[m] \in White \union Articles
        /\ j < k /\ \A m \in j + 1 .. k - 1 : y[m] \in White
    BY <1>1, <2>1, GapsOver
  <2>4. \A m \in {i, j, k} : m - off \in DOMAIN d /\ y[m] = d[m - off] /\ m \in Int
    BY <1>1, <1>2, <2>2, SMTT(30)
  <2>5. ASSUME NEW m \in i - off .. k - off PROVE m \in {i - off, j - off, k - off} \/ d[m] = "nl"
    <3>1. off + m \in i .. k /\ y[off + m] = d[m] /\ m \in DOMAIN d
      BY <1>4, <2>2
    <3>2. off + m \in {i, j, k} => m \in {i - off, j - off, k - off}
      BY <1>1, <2>4
    <3>3. off + m \notin {i, j, k} => off + m \in i + 1 .. j - 1 \/ off + m \in j + 1 .. k - 1
      BY <1>1, <2>3, <2>4, <3>1, SMTT(30)
    <3>4. off + m \notin {i, j, k} => d[m] \in White \union Articles
      BY <2>3, <3>1, <3>3
    <3>5. d[m] \in Words /\ (d[m] \in White \union Articles => d[m] = "nl")
      BY <1>1, <3>1 DEF Words, White, Articles
    <3> QED
      BY <3>2, <3>4, <3>5
  <2>6. i - off < j - off /\ j - off < k - off
    BY <1>1, <2>3, <2>4
  <2> QED
    BY <2>2, <2>4, <2>5, <2>6 DEF Overrides
<1>6. ASSUME NEW i \in DOMAIN y, NEW k \in DOMAIN y,
             y[i] \notin {"quote", "sp"}, y[k] \notin {"quote", "sp"},
             \A m \in i .. k : y[m] \notin {".", "nl"}
      PROVE  OneClause(d, i - off, k - off)
  BY <1>4, <1>6 DEF OneClause
<1>7. ASSUME NEW i \in DOMAIN y, NEW j \in DOMAIN y, NEW n, Near(<<"clause", n>>, y, i, j),
             y[i] \notin {".", "nl", "quote", "sp"}, y[j] \notin {".", "nl", "quote", "sp"}
      PROVE  /\ i < j /\ \A m \in i .. j : y[m] \notin {".", "nl"}
             /\ Within(n, d, i - off, j - off)
  <2>1. i < j /\ Within(n, y, i, j) /\ \A m \in i + 1 .. j - 1 : y[m] \notin {".", "nl", "esc"}
    BY <1>1, <1>7, GapsOver
  <2>2. \A m \in i .. j : m = i \/ m = j \/ m \in i + 1 .. j - 1
    BY <1>1
  <2>3. i - off \in DOMAIN d /\ j - off \in DOMAIN d /\ i \in Int /\ j \in Int
    BY <1>1, <1>2, <1>7
  <2>4. i - off < j - off /\ off + (i - off) = i /\ off + (j - off) = j
    BY <1>1, <2>1, <2>3
  <2>5. Within(n, d, i - off, j - off)
    <3> DEFINE a == i - off
               b == j - off
    <3>1. /\ a \in DOMAIN d /\ b \in DOMAIN d /\ a < b /\ i = off + a /\ j = off + b
      BY <2>3, <2>4
    <3> HIDE DEF a, b
    <3>2. a \in DOMAIN d /\ b \in DOMAIN d /\ a < b
      BY <3>1
    <3>3. Within(n, y, off + a, off + b) <=> Within(n, d, a, b)
      BY <3>2, SameStretch
    <3> QED
      BY <2>1, <3>1, <3>3 DEF a, b
  <2>6. ASSUME NEW m \in i .. j PROVE y[m] \notin {".", "nl"}
    BY <1>7, <2>1, <2>2
  <2> QED
    BY <2>1, <2>5, <2>6
<1>8. ASSUME Says(ExfilP, y) PROVE Steals(d)
  <2>1. PICK i, j \in DOMAIN y :
          /\ y[i] \in {"exfiltrate", "leak", "steal"}
          /\ y[j] \in Nouns \union SecretPaths \union {"data", "env"} \union Dest
          /\ Near(<<"clause", 60>>, y, i, j)
    BY <1>8, SaysTwo DEF ExfilP
  <2>2. y[i] = "steal" /\ y[j] \in {"secrets", ".aws/c.json", "https:"}
    BY <1>3, <2>1 DEF Words, Nouns, SecretPaths, Dest, Urls
  <2>3. i < j /\ Within(60, d, i - off, j - off) /\ \A m \in i .. j : y[m] \notin {".", "nl"}
    BY <1>7, <2>1, <2>2
  <2>4. OneClause(d, i - off, j - off)
    BY <1>6, <2>2, <2>3
  <2>5. \A m \in {i, j} : m - off \in DOMAIN d /\ y[m] = d[m - off] /\ m \in Int
    BY <1>1, <1>2, <2>2
  <2>6. i - off < j - off
    BY <1>1, <2>3, <2>5
  <2> QED
    BY <2>2, <2>3, <2>4, <2>5, <2>6 DEF Steals
<1>9. ASSUME Says(SENSITIVE_PATH_EXFIL_RE, y) PROVE Moves(d)
  <2>1. PICK i, j, k \in DOMAIN y :
          /\ y[i] \in {"read", "cat", "copy", "send", "post", "upload", "forward", "curl", "fetch"}
          /\ y[j] \in SecretPaths /\ y[k] \in Dest
          /\ Near(<<"clause", 80>>, y, i, j) /\ Near(<<"clause", 100>>, y, j, k)
    <3> DEFINE V == {"read", "cat", "copy", "send", "post", "upload", "forward", "curl", "fetch"}
    <3>1. Says(Phrase("path to destination", <<V, SecretPaths, Dest>>,
                      << <<"clause", 80>>, <<"clause", 100>> >>), y)
      BY <1>9 DEF SENSITIVE_PATH_EXFIL_RE
    <3> HIDE DEF V
    <3>2. \E i, j, k \in DOMAIN y : /\ y[i] \in V /\ y[j] \in SecretPaths /\ y[k] \in Dest
                                   /\ Near(<<"clause", 80>>, y, i, j) /\ Near(<<"clause", 100>>, y, j, k)
      <4> DEFINE how == <<"clause", 80>>
                 how2 == <<"clause", 100>>
                 why == "path to destination"
      <4> HIDE DEF how, how2, why
      <4>1. Says(Phrase(why, <<V, SecretPaths, Dest>>, <<how, how2>>), y)
        BY <3>1 DEF how, how2, why
      <4>2. \E i, j, k \in DOMAIN y : /\ y[i] \in V /\ y[j] \in SecretPaths /\ y[k] \in Dest
                                   /\ Near(how, y, i, j) /\ Near(how2, y, j, k)
        BY <4>1, SaysThree
      <4> QED
        BY <4>2 DEF how, how2
    <3> QED
      BY <3>2 DEF V
  <2>2. y[i] = "read" /\ y[j] = ".aws/c.json" /\ y[k] = "https:"
    BY <1>3, <2>1 DEF Words, SecretPaths, Dest, Urls
  <2>3. /\ i < j /\ \A m \in i .. j : y[m] \notin {".", "nl"}
        /\ j < k /\ \A m \in j .. k : y[m] \notin {".", "nl"}
        /\ Within(80, d, i - off, j - off) /\ Within(100, d, j - off, k - off)
    BY <1>7, <2>1, <2>2
  <2>4. \A m \in i .. k : m \in i .. j \/ m \in j .. k
    BY <1>1
  <2>5. OneClause(d, i - off, k - off)
    BY <1>6, <2>2, <2>3, <2>4
  <2>6. \A m \in {i, j, k} : m - off \in DOMAIN d /\ y[m] = d[m - off] /\ m \in Int
    BY <1>1, <1>2, <2>2, SMTT(30)
  <2>7. i - off < j - off /\ j - off < k - off
    BY <1>1, <2>3, <2>6
  <2> QED
    BY <2>2, <2>3, <2>5, <2>6, <2>7 DEF Moves
<1> QED
  BY <1>3, <1>5, <1>8, <1>9

(* One text behind another.                                                *)
Joins(w, u, v) == w = u \o v
Layout(S, w, u, v, a, b) ==
  /\ w \in Seq(S) /\ Len(w) = a + b /\ a \in Nat /\ b \in Nat
  /\ \A i \in 1 .. a + b : w[i] = IF i <= a THEN u[i] ELSE v[i - a]
LEMMA Behind ==
  ASSUME NEW S, NEW u \in Seq(S), NEW v \in Seq(S), NEW a, NEW b, Len(u) = a, Len(v) = b,
         NEW w, Joins(w, u, v)
  PROVE  Layout(S, w, u, v, a, b)
<1>1. a \in Nat /\ b \in Nat
  BY LenProperties
<1>2. /\ u \o v \in Seq(S) /\ Len(u \o v) = Len(u) + Len(v)
      /\ \A i \in 1 .. Len(u) + Len(v) : (u \o v)[i] = IF i <= Len(u) THEN u[i] ELSE v[i - Len(u)]
  BY ConcatProperties
<1> QED
  BY <1>1, <1>2 DEF Joins, Layout
-----------------------------------------------------------------------------
(* A text of one field, and of two.                                        *)
LEMMA FlattenOne ==
  ASSUME NEW a
  PROVE  FlattenSeq(<<a>>) = a
<1> DEFINE s == <<a>>
           Eq(f) == f = [i \in 1 .. Len(s) |-> IF i = 1 THEN s[i] ELSE f[i - 1] \o s[i]]
           h == CHOOSE f : Eq(f)
           g == [i \in 1 .. 1 |-> a]
<1>1. Len(s) = 1 /\ s[1] = a
  OBVIOUS
<1> HIDE DEF s
<1>2. FlattenSeq(s) = h[Len(s)]
  BY <1>1 DEF FlattenSeq
<1>3. Eq(g)
  BY <1>1
<1>4. Eq(h)
  BY <1>3
<1> HIDE DEF h
<1>5. h[1] = a
  BY <1>1, <1>4
<1>6. FlattenSeq(s) = a
  BY <1>1, <1>2, <1>5
<1> QED
  BY <1>6 DEF s

LEMMA FlattenTwo ==
  ASSUME NEW a, NEW b
  PROVE  FlattenSeq(<<a, b>>) = a \o b
<1> DEFINE s == <<a, b>>
           c(u, v) == u \o v
           Eq(f) == f = [i \in 1 .. Len(s) |-> IF i = 1 THEN s[i] ELSE c(f[i - 1], s[i])]
           h == CHOOSE f : Eq(f)
           g == [i \in 1 .. 2 |-> IF i = 1 THEN a ELSE c(a, b)]
<1>1. Len(s) = 2 /\ s[1] = a /\ s[2] = b
  OBVIOUS
<1> HIDE DEF s
<1>2. FlattenSeq(s) = h[Len(s)]
  BY <1>1 DEF FlattenSeq
<1> HIDE DEF c
<1>3. Eq(g)
  <2> DEFINE r == [i \in 1 .. Len(s) |-> IF i = 1 THEN s[i] ELSE c(g[i - 1], s[i])]
  <2>1. g[1] = a /\ r[1] = a
    BY <1>1
  <2>2. g[2] = c(a, b) /\ r[2] = c(a, b)
    BY <1>1, <2>1
  <2>3. \A i \in 1 .. 2 : i \in {1, 2}
    OBVIOUS
  <2> QED
    BY <1>1, <2>1, <2>2, <2>3
<1>4. Eq(h)
  BY <1>3
<1> HIDE DEF h
<1>5. h[1] = a
  BY <1>1, <1>4
<1>6. h[2] = c(a, b)
  BY <1>1, <1>4, <1>5
<1>7. FlattenSeq(s) = c(a, b)
  BY <1>1, <1>2, <1>6
<1> QED
  BY <1>7 DEF s, c

(* A field as JSON writes it.                                              *)
Json(f) == <<"quote">> \o [j \in DOMAIN f |-> IF f[j] = "nl" THEN "esc" ELSE f[j]] \o <<"quote">>
LEMMA JsonOf ==
  ASSUME NEW f \in Seq(Words)
  PROVE  /\ Json(f) \in Seq(Text) /\ Len(Json(f)) = Len(f) + 2 /\ Len(f) \in Nat
         /\ Json(f)[1] = "quote" /\ Json(f)[Len(f) + 2] = "quote"
         /\ \A j \in 1 .. Len(f) : Json(f)[j + 1] = IF f[j] = "nl" THEN "esc" ELSE f[j]
<1> DEFINE q == <<"quote">>
           g == [j \in DOMAIN f |-> IF f[j] = "nl" THEN "esc" ELSE f[j]]
           qg == q \o g
<1>1. DOMAIN f = 1 .. Len(f) /\ Len(f) \in Nat /\ \A j \in 1 .. Len(f) : f[j] \in Words
  BY LenProperties, ElementOfSeq
<1>2. \A j \in 1 .. Len(f) : f[j] \in Text
  BY <1>1 DEF Text
<1>3. g \in [1 .. Len(f) -> Text]
  BY <1>1, <1>2 DEF Text
<1>4. g \in Seq(Text) /\ Len(g) = Len(f) /\ \A j \in 1 .. Len(f) : g[j] = IF f[j] = "nl" THEN "esc" ELSE f[j]
  BY <1>1, <1>3, IsASeq, LenProperties
<1>5. q \in Seq(Text) /\ Len(q) = 1 /\ q[1] = "quote"
  BY DEF Text
<1> HIDE DEF q, g
<1>6. /\ qg \in Seq(Text) /\ Len(qg) = 1 + Len(f)
      /\ \A i \in 1 .. 1 + Len(f) : qg[i] = IF i <= 1 THEN q[i] ELSE g[i - 1]
  <2>1. Joins(qg, q, g)
    BY DEF Joins
  <2> HIDE DEF qg
  <2>2. Layout(Text, qg, q, g, 1, Len(f))
    BY <1>1, <1>4, <1>5, <2>1, Behind
  <2> QED
    BY <2>2 DEF Layout
<1> HIDE DEF qg
<1>7. Joins(Json(f), qg, q)
  BY DEF Json, qg, q, g, Joins
<1>8. /\ Json(f) \in Seq(Text) /\ Len(Json(f)) = 1 + Len(f) + 1
      /\ \A i \in 1 .. 1 + Len(f) + 1 :
           Json(f)[i] = IF i <= 1 + Len(f) THEN qg[i] ELSE q[i - (1 + Len(f))]
  <2>1. Layout(Text, Json(f), qg, q, 1 + Len(f), 1)
    BY <1>5, <1>6, <1>7, Behind
  <2> QED
    BY <2>1 DEF Layout
<1>9. Json(f)[1] = "quote"
  BY <1>1, <1>5, <1>6, <1>8
<1>10. Json(f)[Len(f) + 2] = "quote"
  BY <1>1, <1>5, <1>8
<1>11. ASSUME NEW j \in 1 .. Len(f) PROVE Json(f)[j + 1] = IF f[j] = "nl" THEN "esc" ELSE f[j]
  <2>1. j + 1 \in 1 .. 1 + Len(f) + 1 /\ j + 1 <= 1 + Len(f) /\ j + 1 \in 1 .. 1 + Len(f)
        /\ ~(j + 1 <= 1) /\ (j + 1) - 1 = j
    BY <1>1
  <2>2. Json(f)[j + 1] = qg[j + 1]
    BY <1>8, <2>1
  <2>3. qg[j + 1] = g[j]
    BY <1>6, <2>1
  <2> QED
    BY <1>4, <2>2, <2>3
<1> QED
  BY <1>1, <1>8, <1>9, <1>10, <1>11

(* The text of a tool: its name and its description, each in quotes.       *)
LEMMA TextOfTool ==
  ASSUME NEW n \in Seq(Words), NEW d \in Seq(Words), NEW x, x = scanTextOf(<<n, d>>)
  PROVE  /\ x \in Seq(Text) /\ Len(x) = Len(n) + Len(d) + 4
         /\ Len(n) \in Nat /\ Len(d) \in Nat
         /\ x[1] = "quote" /\ x[Len(n) + 2] = "quote" /\ x[Len(n) + 3] = "quote"
         /\ x[Len(n) + Len(d) + 4] = "quote"
         /\ \A j \in 1 .. Len(n) : x[j + 1] = n[j]
         /\ \A j \in 1 .. Len(d) : x[Len(n) + 3 + j] = d[j]
<1> DEFINE s == safeStringify(<<n, d>>)
<1>1. s = Json(n) \o Json(d)
  <2> DEFINE fs == <<n, d>>
             js == [i \in DOMAIN fs |-> Json(fs[i])]
  <2>1. safeStringify(fs) = FlattenSeq(js)
    BY DEF safeStringify, Json
  <2>2. js = <<Json(n), Json(d)>>
    OBVIOUS
  <2> HIDE DEF js
  <2>3. FlattenSeq(js) = Json(n) \o Json(d)
    BY <2>2, FlattenTwo
  <2> QED
    BY <2>1, <2>3
<1> HIDE DEF s
<1>2. /\ Json(n) \in Seq(Text) /\ Len(Json(n)) = Len(n) + 2 /\ Len(n) \in Nat
      /\ Json(d) \in Seq(Text) /\ Len(Json(d)) = Len(d) + 2 /\ Len(d) \in Nat
  BY JsonOf
<1>3. /\ s \in Seq(Text) /\ Len(s) = Len(n) + Len(d) + 4
      /\ \A i \in 1 .. (Len(n) + 2) + (Len(d) + 2) :
           s[i] = IF i <= Len(n) + 2 THEN Json(n)[i] ELSE Json(d)[i - (Len(n) + 2)]
  <2>1. /\ s \in Seq(Text) /\ Len(s) = (Len(n) + 2) + (Len(d) + 2)
        /\ \A i \in 1 .. (Len(n) + 2) + (Len(d) + 2) :
             s[i] = IF i <= Len(n) + 2 THEN Json(n)[i] ELSE Json(d)[i - (Len(n) + 2)]
    <3>1. Joins(s, Json(n), Json(d))
      BY <1>1 DEF Joins
    <3>2. Layout(Text, s, Json(n), Json(d), Len(n) + 2, Len(d) + 2)
      BY <1>2, <3>1, Behind
    <3> QED
      BY <3>2 DEF Layout
  <2> QED
    BY <1>2, <2>1
<1>4. DOMAIN s = 1 .. Len(n) + Len(d) + 4 /\ \A j \in DOMAIN s : s[j] \in Text
  BY <1>3, LenProperties, ElementOfSeq
<1>5. x = [j \in DOMAIN s |-> IF s[j] = "esc" THEN "nl" ELSE s[j]]
  BY DEF scanTextOf, s
<1>6. x \in [1 .. Len(n) + Len(d) + 4 -> Text]
  BY <1>4, <1>5 DEF Text, Words
<1>7. x \in Seq(Text) /\ Len(x) = Len(n) + Len(d) + 4
  <2> DEFINE m == Len(n) + Len(d) + 4
  <2>1. m \in Nat
    BY <1>2
  <2> HIDE DEF m
  <2>2. x \in Seq(Text) /\ Len(x) = m
    BY <1>6, <2>1, IsASeq, LenProperties, SMTT(30) DEF m
  <2> QED
    BY <2>2 DEF m
<1>8. \A i \in 1 .. Len(n) + Len(d) + 4 : s[i] # "esc" => x[i] = s[i]
  BY <1>4, <1>5
<1>9. s[1] = "quote" /\ s[Len(n) + 2] = "quote"
  <2>1. 1 \in 1 .. (Len(n) + 2) + (Len(d) + 2) /\ Len(n) + 2 \in 1 .. (Len(n) + 2) + (Len(d) + 2)
        /\ 1 <= Len(n) + 2 /\ Len(n) + 2 <= Len(n) + 2
    BY <1>2
  <2>2. Json(n)[1] = "quote" /\ Json(n)[Len(n) + 2] = "quote"
    BY JsonOf
  <2> QED
    BY <1>3, <2>1, <2>2
<1>10. s[Len(n) + 3] = "quote" /\ s[Len(n) + Len(d) + 4] = "quote"
  <2>1. /\ Len(n) + 3 \in 1 .. (Len(n) + 2) + (Len(d) + 2)
        /\ Len(n) + Len(d) + 4 \in 1 .. (Len(n) + 2) + (Len(d) + 2)
        /\ ~(Len(n) + 3 <= Len(n) + 2) /\ ~(Len(n) + Len(d) + 4 <= Len(n) + 2)
        /\ (Len(n) + 3) - (Len(n) + 2) = 1 /\ (Len(n) + Len(d) + 4) - (Len(n) + 2) = Len(d) + 2
    BY <1>2
  <2>2. Json(d)[1] = "quote" /\ Json(d)[Len(d) + 2] = "quote"
    BY JsonOf
  <2>3. s[Len(n) + 3] = Json(d)[(Len(n) + 3) - (Len(n) + 2)]
    BY <1>3, <2>1
  <2>4. s[Len(n) + Len(d) + 4] = Json(d)[(Len(n) + Len(d) + 4) - (Len(n) + 2)]
    BY <1>3, <2>1
  <2> QED
    BY <2>1, <2>2, <2>3, <2>4
<1>11. ASSUME NEW j \in 1 .. Len(n) PROVE x[j + 1] = n[j]
  <2>1. j + 1 \in 1 .. (Len(n) + 2) + (Len(d) + 2) /\ j + 1 <= Len(n) + 2
        /\ j + 1 \in 1 .. Len(n) + Len(d) + 4
    BY <1>2
  <2>2. s[j + 1] = IF n[j] = "nl" THEN "esc" ELSE n[j]
    BY <1>3, <2>1, JsonOf
  <2>3. n[j] \in Words
    BY ElementOfSeq
  <2>4. n[j] # "esc"
    BY <2>3 DEF Words
  <2> QED
    BY <1>4, <1>5, <2>1, <2>2, <2>4
<1>12. ASSUME NEW j \in 1 .. Len(d) PROVE x[Len(n) + 3 + j] = d[j]
  <2>1. /\ Len(n) + 3 + j \in 1 .. (Len(n) + 2) + (Len(d) + 2) /\ ~(Len(n) + 3 + j <= Len(n) + 2)
        /\ (Len(n) + 3 + j) - (Len(n) + 2) = j + 1
        /\ Len(n) + 3 + j \in 1 .. Len(n) + Len(d) + 4
    BY <1>2
  <2>2. s[Len(n) + 3 + j] = Json(d)[(Len(n) + 3 + j) - (Len(n) + 2)]
    BY <1>3, <2>1
  <2>3. s[Len(n) + 3 + j] = IF d[j] = "nl" THEN "esc" ELSE d[j]
    BY <2>1, <2>2, JsonOf
  <2>4. d[j] # "esc"
    BY ElementOfSeq DEF Words
  <2> QED
    BY <1>4, <1>5, <2>1, <2>3, <2>4
<1>13. /\ x[1] = "quote" /\ x[Len(n) + 2] = "quote" /\ x[Len(n) + 3] = "quote"
       /\ x[Len(n) + Len(d) + 4] = "quote"
  <2>1. \A i \in {1, Len(n) + 2, Len(n) + 3, Len(n) + Len(d) + 4} :
          i \in 1 .. Len(n) + Len(d) + 4
    BY <1>2
  <2> QED
    BY <1>8, <1>9, <1>10, <2>1
<1> QED
  BY <1>2, <1>7, <1>11, <1>12, <1>13

(* What is scanned of a tool once its name is blanked.                     *)
LEMMA SaidOfTool ==
  ASSUME NEW n \in Seq(Words), NEW d \in Seq(Words),
         NEW x, x = scanTextOf(<<n, d>>), NEW y, y = blankNameValue(x, n)
  PROVE  /\ Placed(y, Len(n) + 3, d)
         /\ "nl" \notin Range(n) => Alone(y, Len(n) + 3, d)
         /\ \A i \in DOMAIN y : y[i] \in Words \union {"quote", "sp"}
         /\ \A S : S \subseteq Words =>
              (Has(S, x) <=> Range(n) \intersect S # {} \/ Range(d) \intersect S # {})
         /\ \A S : S \intersect (Words \union {"quote", "sp"}) = {} => ~Has(S, x)
<1>1. /\ x \in Seq(Text) /\ Len(x) = Len(n) + Len(d) + 4 /\ Len(n) \in Nat /\ Len(d) \in Nat
      /\ x[1] = "quote" /\ x[Len(n) + 2] = "quote" /\ x[Len(n) + 3] = "quote"
      /\ x[Len(n) + Len(d) + 4] = "quote"
      /\ \A j \in 1 .. Len(n) : x[j + 1] = n[j]
      /\ \A j \in 1 .. Len(d) : x[Len(n) + 3 + j] = d[j]
  BY TextOfTool, SMTT(30)
<1>2. /\ DOMAIN x = 1 .. Len(x) /\ DOMAIN n = 1 .. Len(n) /\ DOMAIN d = 1 .. Len(d)
      /\ \A j \in DOMAIN n : n[j] \in Words
      /\ \A j \in DOMAIN d : d[j] \in Words
  BY <1>1, LenProperties, ElementOfSeq
<1>3. ASSUME NEW i \in DOMAIN x
      PROVE  \/ i - 1 \in DOMAIN n /\ x[i] = n[i - 1]
             \/ i - 1 \notin DOMAIN n /\ x[i] = "quote"
             \/ /\ i - 1 \notin DOMAIN n /\ i \in Len(n) + 3 + 1 .. Len(n) + 3 + Len(d)
                /\ i - (Len(n) + 3) \in DOMAIN d /\ x[i] = d[i - (Len(n) + 3)]
  <2>1. i \in Int /\ 1 <= i /\ i <= Len(n) + Len(d) + 4
    BY <1>1, <1>2
  <2>2. CASE i \in {1, Len(n) + 2, Len(n) + 3, Len(n) + Len(d) + 4}
    <3>1. x[i] = "quote"
      BY <1>1, <2>2
    <3>2. i - 1 \notin DOMAIN n
      BY <1>1, <1>2, <2>2
    <3> QED
      BY <3>1, <3>2
  <2>3. CASE i - 1 \in DOMAIN n
    <3>1. (i - 1) + 1 = i /\ i - 1 \in 1 .. Len(n)
      BY <1>2, <2>1, <2>3
    <3>2. x[(i - 1) + 1] = n[i - 1]
      BY <1>1, <3>1
    <3> QED
      BY <2>3, <3>1, <3>2
  <2>4. CASE i \notin {1, Len(n) + 2, Len(n) + 3, Len(n) + Len(d) + 4} /\ i - 1 \notin DOMAIN n
    <3>1. /\ i - (Len(n) + 3) \in 1 .. Len(d) /\ Len(n) + 3 + (i - (Len(n) + 3)) = i
          /\ i \in Len(n) + 3 + 1 .. Len(n) + 3 + Len(d)
      <4> DEFINE a == Len(n)
                 b == Len(d)
      <4>1. a \in Nat /\ b \in Nat /\ i \in Int /\ 1 <= i /\ i <= a + b + 4
            /\ i \notin {1, a + 2, a + 3, a + b + 4} /\ i - 1 \notin 1 .. a
        BY <1>1, <1>2, <2>1, <2>4
      <4> HIDE DEF a, b
      <4>2. i > a + 3 /\ i < a + b + 4
        <5>1. i # 1 /\ i # a + 2 /\ i # a + 3 /\ i # a + b + 4
          BY <4>1
        <5>2. i - 1 \in Int /\ ~(1 <= i - 1 /\ i - 1 <= a)
          BY <4>1
        <5>3. i > a + 1
          BY <4>1, <5>1, <5>2
        <5>4. a \in Nat /\ b \in Nat /\ i \in Int /\ i <= a + b + 4
          BY <4>1
        <5> QED
          BY <5>1, <5>3, <5>4
      <4>3. i - (a + 3) \in 1 .. b /\ a + 3 + (i - (a + 3)) = i /\ i \in a + 3 + 1 .. a + 3 + b
        BY <4>1, <4>2
      <4> QED
        BY <4>3 DEF a, b
    <3>2. x[Len(n) + 3 + (i - (Len(n) + 3))] = d[i - (Len(n) + 3)]
      BY <1>1, <3>1
    <3> QED
      BY <1>2, <2>4, <3>1, <3>2
  <2> QED
    BY <2>2, <2>3, <2>4
<1>4. \A j \in 1 .. Len(d) : Len(n) + 3 + j \in DOMAIN x /\ (Len(n) + 3 + j) - 1 \notin DOMAIN n
  BY <1>1, <1>2
<1>5. \A j \in 1 .. Len(n) : j + 1 \in DOMAIN x
  BY <1>1, <1>2
<1>6. y = [j \in DOMAIN x |-> IF j - 1 \in DOMAIN n /\ ~Has({"nl", "esc"}, n) THEN "sp" ELSE x[j]]
  BY DEF blankNameValue
<1>7. \A i \in DOMAIN x : x[i] \in Words \union {"quote", "sp"}
  BY <1>2, <1>3
<1>8. \A i \in DOMAIN x : y[i] \in Words \union {"quote", "sp"} /\ (i - 1 \notin DOMAIN n => y[i] = x[i])
  BY <1>6, <1>7
<1>9. DOMAIN y = DOMAIN x /\ y \in Seq(Text) /\ Len(y) = Len(n) + Len(d) + 4
  <2> DEFINE m == Len(n) + Len(d) + 4
  <2>1. m \in Nat /\ DOMAIN x = 1 .. m
    BY <1>1, <1>2
  <2>2. DOMAIN y = DOMAIN x
    BY <1>6
  <2> HIDE DEF m
  <2>3. y \in [1 .. m -> Text]
    BY <1>6, <1>8, <2>1 DEF Text
  <2>4. y \in Seq(Text)
    BY <2>1, <2>3, IsASeq
  <2>5. Len(y) = m
    BY <2>1, <2>3, <2>4, LenProperties
  <2> QED
    BY <2>2, <2>4, <2>5 DEF m
<1>10. Placed(y, Len(n) + 3, d)
  <2>1. ASSUME NEW j \in 1 .. Len(d) PROVE y[Len(n) + 3 + j] = d[j]
    <3> DEFINE i == Len(n) + 3 + j
    <3>1. i \in DOMAIN x /\ i - 1 \notin DOMAIN n /\ x[i] = d[j]
      BY <1>1, <1>4
    <3> HIDE DEF i
    <3>2. y[i] = x[i]
      BY <1>8, <3>1
    <3> QED
      BY <3>1, <3>2 DEF i
  <2>2. Len(n) + 3 \in Nat /\ Len(n) + 3 + Len(d) <= Len(y)
    BY <1>1, <1>9
  <2> QED
    BY <1>9, <2>1, <2>2 DEF Placed
<1>11. ASSUME "nl" \notin Range(n) PROVE Alone(y, Len(n) + 3, d)
  <2>1. ~Has({"nl", "esc"}, n)
    <3>1. \A j \in DOMAIN n : n[j] # "nl"
      BY <1>11 DEF Range
    <3>2. \A j \in DOMAIN n : n[j] # "esc"
      BY <1>2 DEF Words
    <3> QED
      BY <3>1, <3>2 DEF Has
  <2>2. \A i \in DOMAIN x : i - 1 \in DOMAIN n => y[i] = "sp"
    BY <1>6, <2>1
  <2>3. \A i \in DOMAIN x :
          i \in Len(n) + 3 + 1 .. Len(n) + 3 + Len(d) \/ y[i] \in {"quote", "sp"}
    BY <1>3, <1>8, <2>2
  <2> QED
    BY <1>1, <1>2, <1>9, <2>3 DEF Alone
<1>12. ASSUME NEW S, S \subseteq Words
       PROVE  Has(S, x) <=> Range(n) \intersect S # {} \/ Range(d) \intersect S # {}
  <2>1. ASSUME NEW i \in DOMAIN x, x[i] \in S
        PROVE  Range(n) \intersect S # {} \/ Range(d) \intersect S # {}
    <3>1. x[i] # "quote"
      BY <1>12, <2>1 DEF Words
    <3>2. \/ i - 1 \in DOMAIN n /\ x[i] = n[i - 1]
          \/ i - (Len(n) + 3) \in DOMAIN d /\ x[i] = d[i - (Len(n) + 3)]
      BY <1>3, <3>1
    <3> QED
      BY <2>1, <3>2 DEF Range
  <2>2. ASSUME NEW j \in DOMAIN n, n[j] \in S PROVE Has(S, x)
    BY <1>1, <1>2, <1>5, <2>2 DEF Has
  <2>3. ASSUME NEW j \in DOMAIN d, d[j] \in S PROVE Has(S, x)
    BY <1>1, <1>2, <1>4, <2>3 DEF Has
  <2> QED
    BY <2>1, <2>2, <2>3 DEF Has, Range
<1>13. ASSUME NEW S, S \intersect (Words \union {"quote", "sp"}) = {} PROVE ~Has(S, x)
  BY <1>7, <1>13 DEF Has
<1> QED
  BY <1>8, <1>9, <1>10, <1>11, <1>12, <1>13

(* A result that is text is read up to the bound, as it stands.            *)
LEMMA ResultIsRead ==
  ASSUME NEW d \in Seq(Words), NEW m \in 0 .. Len(d)
  PROVE  injectionHits(SubSeq(d, 1, m)) = Instructs(SubSeq(d, 1, m))
<1> DEFINE e == SubSeq(d, 1, m)
<1>1. Len(d) \in Nat /\ m \in Nat /\ 1 \in 1 .. Len(d) + 1 /\ m \in 1 - 1 .. Len(d)
  BY LenProperties
<1>2. e \in Seq(Words) /\ Len(e) \in Nat
  BY <1>1, SubSeqProperties, LenProperties
<1> HIDE DEF e
<1>3. DOMAIN e = 1 .. Len(e) /\ \A i \in DOMAIN e : e[i] \in Words
  BY <1>2, LenProperties, ElementOfSeq
<1>4. e \in Seq(Text)
  BY <1>2, SeqMonotonic DEF Text
<1>5. Placed(e, 0, e) /\ Alone(e, 0, e)
  BY <1>2, <1>3, <1>4 DEF Placed, Alone
<1>6. (Says(OverrideP, e) <=> Overrides(e)) /\ (Says(ExfilP, e) <=> Steals(e))
  BY <1>5, SaidIsFound, FoundIsSaid
<1>7. injectionHits(e) = (IF Says(OverrideP, e) THEN {"instruction-override"} ELSE {})
                         \union (IF Says(ExfilP, e) THEN {Exfil} ELSE {})
  BY <1>3, WordsSay
<1>8. injectionHits(e) = Instructs(e)
  BY <1>6, <1>7 DEF Instructs
<1> QED
  BY <1>8 DEF e

(* The flags of a tool, and what it is called for them.                    *)
LEMMA ToolIsRead ==
  ASSUME NEW n \in Seq(Words), NEW d \in Seq(Words), NEW r, r = scanMcpTool(n, d)
  PROVE  /\ Overrides(d) \/ Moves(d) => r.severity = "critical"
         /\ "nl" \notin Range(n) =>
              /\ r.severity = "critical" => Overrides(d) \/ Moves(d)
              /\ (Exfil \in r.flags) = Steals(d)
         /\ Steals(d) => Exfil \in r.flags
         /\ r.severity = "critical" => r.flags # {}
         /\ "sensitive path" \in r.flags <=> ".aws/c.json" \in Range(n) \union Range(d)
<1> DEFINE x == scanTextOf(<<n, d>>)
           y == blankNameValue(x, n)
           instructs == injectionHits(y) \union (IF Says(SENSITIVE_PATH_EXFIL_RE, y)
                                                   THEN {SENSITIVE_PATH_EXFIL_RE.why} ELSE {})
           path == "sensitive path"
           env == "secret env var"
           over == "instruction-override"
           to == "path to destination"
           mentions == (IF Has(SecretPaths, x) THEN {path} ELSE {})
                       \union (IF Has(SECRET_ENV_RE, x) THEN {env} ELSE {})
<1>1. /\ r.flags = instructs \union mentions
      /\ r.severity = IF instructs \ {Exfil} # {} THEN "critical" ELSE "advisory"
  BY DEF scanMcpTool
<1>2. SENSITIVE_PATH_EXFIL_RE.why = to
  BY DEF SENSITIVE_PATH_EXFIL_RE, Phrase
<1>3. path # over /\ path # to /\ path # Exfil /\ path # env /\ over # Exfil /\ to # Exfil /\ env # Exfil
  BY DEF Exfil
<1> HIDE DEF path, env, over, to
<1>4. /\ Placed(y, Len(n) + 3, d) /\ ("nl" \notin Range(n) => Alone(y, Len(n) + 3, d))
      /\ \A i \in DOMAIN y : y[i] \in Words \union {"quote", "sp"}
  BY SaidOfTool
<1>5. /\ Has(SecretPaths, x) <=> ".aws/c.json" \in Range(n) \union Range(d)
      /\ ~Has(SECRET_ENV_RE, x)
  <2>1. /\ Has(SecretPaths, x) <=> Has({".aws/c.json"}, x) \/ Has({".env", ".ssh/id"}, x)
    BY DEF Has, SecretPaths
  <2>2. ~Has({".env", ".ssh/id"}, x)
    <3>1. {".env", ".ssh/id"} \intersect (Words \union {"quote", "sp"}) = {}
      BY DEF Words
    <3> QED
      BY <3>1, SaidOfTool
  <2>3. Has({".aws/c.json"}, x) <=> Range(n) \intersect {".aws/c.json"} # {} \/ Range(d) \intersect {".aws/c.json"} # {}
    <3>1. {".aws/c.json"} \subseteq Words
      BY DEF Words
    <3> QED
      BY <3>1, SaidOfTool
  <2>4. ~Has(SECRET_ENV_RE, x)
    <3>1. SECRET_ENV_RE \intersect (Words \union {"quote", "sp"}) = {}
      BY DEF Words, SECRET_ENV_RE
    <3> QED
      BY <3>1, SaidOfTool
  <2> QED
    BY <2>1, <2>2, <2>3, <2>4
<1>6. injectionHits(y) = (IF Says(OverrideP, y) THEN {over} ELSE {})
                         \union (IF Says(ExfilP, y) THEN {Exfil} ELSE {})
  BY <1>4, WordsSay DEF over
<1>7. /\ Overrides(d) => Says(OverrideP, y)
      /\ Steals(d) => Says(ExfilP, y)
      /\ Moves(d) => Says(SENSITIVE_PATH_EXFIL_RE, y)
  BY <1>4, SaidIsFound
<1>8. "nl" \notin Range(n) =>
        /\ Says(OverrideP, y) => Overrides(d)
        /\ Says(ExfilP, y) => Steals(d)
        /\ Says(SENSITIVE_PATH_EXFIL_RE, y) => Moves(d)
  BY <1>4, FoundIsSaid
<1> HIDE DEF x, y
<1>9. instructs \ {Exfil} # {} <=> Says(OverrideP, y) \/ Says(SENSITIVE_PATH_EXFIL_RE, y)
  BY <1>2, <1>3, <1>6
<1>10. Exfil \in r.flags <=> Says(ExfilP, y)
  BY <1>1, <1>2, <1>3, <1>5, <1>6
<1>11. path \in r.flags <=> ".aws/c.json" \in Range(n) \union Range(d)
  BY <1>1, <1>2, <1>3, <1>5, <1>6
<1>12. "critical" # "advisory"
  OBVIOUS
<1>13. r.severity = "critical" <=> instructs \ {Exfil} # {}
  BY <1>1, <1>12
<1>14. r.severity = "critical" => r.flags # {}
  BY <1>1, <1>13
<1> QED
  <2>1. Overrides(d) \/ Moves(d) => r.severity = "critical"
    BY <1>7, <1>9, <1>13
  <2>2. "nl" \notin Range(n) /\ r.severity = "critical" => Overrides(d) \/ Moves(d)
    BY <1>8, <1>9, <1>13
  <2>3. "nl" \notin Range(n) => (Exfil \in r.flags) = Steals(d)
    <3>1. Steals(d) \in BOOLEAN /\ (Exfil \in r.flags) \in BOOLEAN
      BY DEF Steals
    <3>2. "nl" \notin Range(n) => (Exfil \in r.flags <=> Steals(d))
      BY <1>7, <1>8, <1>10
    <3> QED
      BY <3>1, <3>2
  <2>4. Steals(d) => Exfil \in r.flags
    BY <1>7, <1>10
  <2>5. "sensitive path" \in r.flags <=> ".aws/c.json" \in Range(n) \union Range(d)
    BY <1>11 DEF path
  <2> QED
    BY <1>14, <2>1, <2>2, <2>3, <2>4, <2>5

(* No step writes a word that is not of Words.                             *)
ScanTypeOK ==
  \A t \in tools : /\ t = [name |-> t.name, description |-> t.description]
                   /\ t.name \in Seq(Words) /\ t.description \in Seq(Words)
LEMMA ScanTyped == ScanSpec => []ScanTypeOK
<1>1. ScanInit => ScanTypeOK
  <2>1. \A n \in ToolNames : n \in Seq(Words)
    BY ScanAssumption
  <2>2. << >> \in Seq(Words)
    OBVIOUS
  <2>3. ASSUME NEW n \in ToolNames, tools = {[name |-> n, description |-> << >>]} PROVE ScanTypeOK
    <3>1. [name |-> n, description |-> << >>].name = n
          /\ [name |-> n, description |-> << >>].description = << >>
      OBVIOUS
    <3> QED
      BY <2>1, <2>2, <2>3, <3>1 DEF ScanTypeOK
  <2>4. tools = {} => ScanTypeOK
    BY DEF ScanTypeOK
  <2> QED
    BY <2>3, <2>4 DEF ScanInit
<1>2. ScanTypeOK /\ [ScanNext]_<<tools, hosts>> => ScanTypeOK'
  <2> SUFFICES ASSUME ScanTypeOK, [ScanNext]_<<tools, hosts>> PROVE ScanTypeOK'
    OBVIOUS
  <2>1. CASE Describe
    <3>1. PICK t \in tools, w \in Words :
            tools' = {[t EXCEPT !.description = Append(@, w)]}
      BY <2>1 DEF Describe
    <3>2. /\ t = [name |-> t.name, description |-> t.description]
          /\ t.name \in Seq(Words) /\ t.description \in Seq(Words)
      BY DEF ScanTypeOK
    <3>3. Append(t.description, w) \in Seq(Words)
      BY <3>2, AppendProperties
    <3>4. [t EXCEPT !.description = Append(@, w)]
            = [name |-> t.name, description |-> Append(t.description, w)]
      <4> DEFINE n == t.name
                 d == t.description
                 e == Append(t.description, w)
      <4>1. t = [name |-> n, description |-> d]
        BY <3>2
      <4> HIDE DEF n, d
      <4>2. [t EXCEPT !.description = e] = [name |-> n, description |-> e]
        <5> HIDE DEF e
        <5> QED
          BY <4>1
      <4> QED
        BY <4>2 DEF n, e
    <3> QED
      BY <3>1, <3>2, <3>3, <3>4 DEF ScanTypeOK
  <2>2. CASE Label \/ UNCHANGED <<tools, hosts>>
    BY <2>2 DEF Label, ScanTypeOK
  <2> QED
    BY <2>1, <2>2 DEF ScanNext
<1> QED
  BY <1>1, <1>2, PTL DEF ScanSpec

(* Whatever a tool is called and however long its description, the scan is *)
(* critical exactly of one that instructs, and no list the command passes  *)
(* holds one (mcp.mjs:175-222, cli.mjs:93-100).                            *)
THEOREM InstructionsSeen == ScanSpec => []InstructionsAreSeen
<1>1. ScanTypeOK => InstructionsAreSeen
  <2> SUFFICES ASSUME ScanTypeOK, NEW t \in tools
               PROVE  LET r == scanMcpTool(t.name, t.description)
                          d == t.description
                          critical == Overrides(d) \/ Moves(d)
                      IN /\ critical => r.severity = "critical"
                         /\ "nl" \notin Range(t.name) =>
                              /\ r.severity = "critical" => critical
                              /\ (Exfil \in r.flags) = Steals(d)
                         /\ ("sensitive path" \in r.flags) = (".aws/c.json" \in Range(t.name \o d))
                         /\ scanMcp({t, Harmless}) = 0 =>
                              ~critical /\ ~Steals(d) /\ ".aws/c.json" \notin Range(d)
                         /\ scanToolResult(<<d>>, TRUE) =
                              Instructs(SubSeq(d, 1, IF Len(d) > MAX_RESULT_SCAN THEN MAX_RESULT_SCAN ELSE Len(d)))
    BY DEF InstructionsAreSeen
  <2> DEFINE n == t.name
             d == t.description
             r == scanMcpTool(n, d)
             path == "sensitive path"
             m == IF Len(d) > MAX_RESULT_SCAN THEN MAX_RESULT_SCAN ELSE Len(d)
  <2>1. n \in Seq(Words) /\ d \in Seq(Words)
    BY DEF ScanTypeOK
  <2>2. r = scanMcpTool(t.name, t.description)
    OBVIOUS
  <2> HIDE DEF n, d, r, path
  <2>3. /\ Overrides(d) \/ Moves(d) => r.severity = "critical"
        /\ "nl" \notin Range(n) =>
             /\ r.severity = "critical" => Overrides(d) \/ Moves(d)
             /\ (Exfil \in r.flags) = Steals(d)
        /\ Steals(d) => Exfil \in r.flags
        /\ r.severity = "critical" => r.flags # {}
        /\ path \in r.flags <=> ".aws/c.json" \in Range(n) \union Range(d)
    BY <2>1, ToolIsRead DEF path, r
  <2>4. Range(n \o d) = Range(n) \union Range(d)
    BY <2>1, RangeConcatenation
  <2>5. scanMcp({t, Harmless}) = 0 => r.flags = {}
    BY DEF scanMcp, scanMcpTools, r, n, d
  <2>6. scanToolResult(<<d>>, TRUE) = injectionHits(SubSeq(d, 1, m))
    <3>1. FlattenSeq(<<d>>) = d
      BY FlattenOne
    <3> QED
      BY <3>1 DEF scanToolResult
  <2>7. m \in 0 .. Len(d)
    BY <2>1, LenProperties DEF MAX_RESULT_SCAN
  <2> HIDE DEF m
  <2>8. scanToolResult(<<d>>, TRUE) = Instructs(SubSeq(d, 1, m))
    BY <2>1, <2>6, <2>7, ResultIsRead
  <2>9. (path \in r.flags) = (".aws/c.json" \in Range(n \o d))
    BY <2>3, <2>4
  <2>10. scanMcp({t, Harmless}) = 0 =>
           ~(Overrides(d) \/ Moves(d)) /\ ~Steals(d) /\ ".aws/c.json" \notin Range(d)
    BY <2>3, <2>5
  <2> QED
    BY <2>2, <2>3, <2>8, <2>9, <2>10 DEF n, d, m, path
<1> QED
  BY <1>1, ScanTyped, PTL
-----------------------------------------------------------------------------
(* A host's words, and the ways of writing one that Label comes to.        *)
HostWords == Numbers \union Names \union V6 \union {".", "[", "]", ":80", "user", "@"}
HostOK(t) ==
  /\ t.user \in Users /\ t.dot \in BOOLEAN /\ t.port \in BOOLEAN
  /\ t.names \in Seq(Numbers \union Names \union V6)
  /\ \A k \in 1 .. Len(t.names) : t.names[k] \in V6 => Len(t.names) = 1

(* The sequence without its last item, and what follows a user.            *)
Extends(w, u, e) == w = Append(u, e)
LEMMA FrontAppend ==
  ASSUME NEW S, NEW u \in Seq(S), NEW e \in S, NEW w, Extends(w, u, e)
  PROVE  /\ w \in Seq(S) /\ Len(w) = Len(u) + 1 /\ Last(w) = e /\ Front(w) = u /\ w # << >>
         /\ \A i \in 1 .. Len(u) : w[i] = u[i]
<1>1. /\ w \in Seq(S) /\ w # << >> /\ Len(w) = Len(u) + 1 /\ Len(u) \in Nat
      /\ \A i \in 1 .. Len(u) : w[i] = u[i]
      /\ w[Len(u) + 1] = e
  BY AppendProperties, LenProperties DEF Extends
<1>2. Last(w) = e
  BY <1>1 DEF Last
<1>3. Front(w) = u
  <2> DEFINE f == SubSeq(w, 1, Len(u))
  <2>1. \A i \in 1 .. Len(u) : w[i] \in S
    BY <1>1, ElementOfSeq
  <2>2. /\ f \in Seq(S) /\ Len(f) = IF 1 <= Len(u) THEN Len(u) - 1 + 1 ELSE 0
        /\ \A i \in 1 .. Len(u) - 1 + 1 : f[i] = w[1 + i - 1]
    BY <1>1, <2>1, SubSeqProperties
  <2>3. Len(w) - 1 = Len(u)
    BY <1>1
  <2>4. Front(w) = f
    BY <2>3 DEF Front
  <2> HIDE DEF f
  <2>5. Len(f) = Len(u) /\ \A i \in 1 .. Len(f) : f[i] = u[i]
    BY <1>1, <2>2
  <2> QED
    BY <2>2, <2>4, <2>5, SeqEqual
<1> QED
  BY <1>1, <1>2, <1>3

LEMMA WithoutUser ==
  ASSUME NEW S, NEW u \in Seq(S), NEW z \in Seq(S),
         u # << >> => u[Len(u)] = "@", \A i \in 1 .. Len(z) : z[i] # "@",
         NEW h, Joins(h, u, z)
  PROVE  AfterUser(h) = z
<1> DEFINE a == Len(u)
           b == Len(z)
           at == {i \in DOMAIN h : h[i] = "@"}
           top == CHOOSE i \in at : \A j \in at : j <= i
<1>1. /\ h \in Seq(S) /\ Len(h) = a + b /\ a \in Nat /\ b \in Nat
      /\ \A i \in 1 .. a + b : h[i] = IF i <= a THEN u[i] ELSE z[i - a]
  <2>1. Layout(S, h, u, z, a, b)
    BY Behind
  <2> QED
    BY <2>1 DEF Layout
<1>2. DOMAIN h = 1 .. a + b
  BY <1>1, LenProperties
<1>3. u # << >> <=> a > 0
  BY <1>1, EmptySeq
<1>4. AfterUser(h) = IF at = {} THEN h ELSE SubSeq(h, 1 + top, Len(h))
  BY DEF AfterUser
<1> HIDE DEF a, b, top
<1>5. \A i \in 1 .. a + b : i > a => h[i] # "@"
  BY <1>1 DEF b
<1>6. CASE a = 0
  <2>1. at = {}
    BY <1>1, <1>2, <1>5, <1>6
  <2>2. h = z
    <3>1. Len(h) = Len(z) /\ \A i \in 1 .. Len(h) : h[i] = z[i]
      BY <1>1, <1>6 DEF b
    <3> QED
      BY <1>1, <3>1, SeqEqual
  <2> QED
    BY <1>4, <2>1, <2>2
<1>7. CASE a > 0
  <2>1. a \in at
    <3>1. a \in 1 .. a + b /\ a <= a
      BY <1>1, <1>7
    <3>2. h[a] = u[a] /\ u[a] = "@"
      BY <1>1, <1>3, <1>7, <3>1 DEF a
    <3> QED
      BY <1>2, <3>1, <3>2
  <2>2. \A j \in at : j \in Int /\ j <= a
    BY <1>1, <1>2, <1>5
  <2>3. top = a
    <3>1. top \in at /\ \A j \in at : j <= top
      BY <2>1, <2>2 DEF top
    <3> HIDE DEF at
    <3> QED
      BY <1>1, <2>1, <2>2, <3>1
  <2> DEFINE f == SubSeq(h, 1 + a, a + b)
  <2>4. \A i \in 1 + a .. a + b : h[i] \in S
    BY <1>1, ElementOfSeq
  <2>5. /\ f \in Seq(S) /\ Len(f) = IF 1 + a <= a + b THEN (a + b) - (1 + a) + 1 ELSE 0
        /\ \A i \in 1 .. (a + b) - (1 + a) + 1 : f[i] = h[(1 + a) + i - 1]
    BY <1>1, <2>4, SubSeqProperties
  <2>6. AfterUser(h) = f
    BY <1>1, <1>4, <2>1, <2>3
  <2> HIDE DEF f, at
  <2>7. Len(f) = b
    BY <1>1, <2>5
  <2>8. ASSUME NEW i \in 1 .. b PROVE f[i] = z[i]
    <3>1. i \in 1 .. (a + b) - (1 + a) + 1 /\ (1 + a) + i - 1 = a + i /\ a + i \in 1 .. a + b
          /\ ~(a + i <= a) /\ (a + i) - a = i
      BY <1>1
    <3>2. f[i] = h[a + i]
      BY <2>5, <3>1
    <3>3. h[a + i] = z[(a + i) - a]
      BY <1>1, <3>1
    <3> QED
      BY <3>1, <3>2, <3>3
  <2>9. f = z
    BY <2>5, <2>7, <2>8, SeqEqual DEF b
  <2> QED
    BY <2>6, <2>9
<1> QED
  BY <1>1, <1>6, <1>7

(* Labels with a dot between each two.                                     *)
Dots(S, names, j) ==
  /\ Len(names) \in Nat \ {0} /\ j \in Seq(S \union {"."}) /\ Len(j) = 2 * Len(names) - 1
  /\ j[1] = names[1] /\ j[2 * Len(names) - 1] = names[Len(names)] /\ j # << >>
LEMMA JoinedIs ==
  ASSUME NEW S, NEW names \in Seq(S), names # << >>
  PROVE  Dots(S, names, Joined(names))
<1> DEFINE n == Len(names)
           m == 2 * n - 1
           j == Joined(names)
<1>1. n \in Nat \ {0} /\ m \in Nat /\ 1 \in 1 .. m /\ m \in 1 .. m
  BY LenProperties, EmptySeq
<1>2. j = [k \in 1 .. m |-> IF k % 2 = 1 THEN names[(k + 1) \div 2] ELSE "."]
  BY DEF Joined
<1>3. \A k \in 1 .. m : k % 2 = 1 => (k + 1) \div 2 \in 1 .. n
  BY <1>1
<1>4. 1 % 2 = 1 /\ (1 + 1) \div 2 = 1 /\ m % 2 = 1 /\ (m + 1) \div 2 = n
  BY <1>1
<1>5. \A k \in 1 .. n : names[k] \in S
  BY ElementOfSeq
<1> HIDE DEF n, m, j
<1>6. j \in [1 .. m -> S \union {"."}]
  BY <1>2, <1>3, <1>5
<1>7. j \in Seq(S \union {"."}) /\ Len(j) = m
  BY <1>1, <1>6, IsASeq, LenProperties
<1>8. j[1] = names[1] /\ j[m] = names[n]
  BY <1>1, <1>2, <1>4
<1>9. j # << >>
  BY <1>1, <1>7, EmptySeq
<1> QED
  BY <1>1, <1>7, <1>8, <1>9 DEF n, m, j, Dots

(* How the labels are written, and what stands behind them.                *)
Named(t) == IF t.names[1] \in V6 THEN <<"[">> \o t.names \o <<"]">>
            ELSE IF t.dot THEN Append(Joined(t.names), ".") ELSE Joined(t.names)
Ported(t) == IF t.port THEN Append(Named(t), ":80") ELSE Named(t)

LEMMA BareAddress ==
  ASSUME NEW t, HostOK(t), t.names # << >>, t.names[1] \in V6
  PROVE  /\ Ported(t) \in Seq(HostWords) /\ WithoutPort(Unbracketed(Ported(t))) = t.names
         /\ Len(t.names) = 1 /\ \A i \in 1 .. Len(Ported(t)) : Ported(t)[i] # "@"
<1> DEFINE a == t.names[1]
           z == Ported(t)
           left == <<"[">>
           right == <<"]">>
           port == ":80"
           ln == left \o t.names
           lnr == ln \o right
<1>1. Len(t.names) = 1 /\ t.names \in Seq(HostWords)
  <2>1. 1 \in 1 .. Len(t.names)
    BY LenProperties, EmptySeq DEF HostOK
  <2>2. Len(t.names) = 1
    BY <2>1 DEF HostOK
  <2>3. t.names \in Seq(Numbers \union Names \union V6)
        /\ Numbers \union Names \union V6 \subseteq HostWords
    BY DEF HostOK, HostWords
  <2> QED
    BY <2>2, <2>3, SeqMonotonic
<1>2. /\ left \in Seq(HostWords) /\ Len(left) = 1 /\ left[1] = "["
      /\ right \in Seq(HostWords) /\ Len(right) = 1 /\ right[1] = "]"
  BY DEF HostWords
<1>3. Named(t) = lnr
  BY DEF Named
<1> HIDE DEF left, right
<1>4. ln \in Seq(HostWords) /\ Len(ln) = 2 /\ ln[1] = "[" /\ ln[2] = a
  <2>1. Joins(ln, left, t.names)
    BY DEF Joins
  <2> HIDE DEF ln
  <2>2. Layout(HostWords, ln, left, t.names, 1, 1)
    BY <1>1, <1>2, <2>1, Behind
  <2> QED
    BY <1>2, <2>2 DEF Layout
<1> HIDE DEF ln
<1>5. lnr \in Seq(HostWords) /\ Len(lnr) = 3 /\ lnr[1] = "[" /\ lnr[2] = a /\ lnr[3] = "]"
  <2>1. Joins(lnr, ln, right)
    BY DEF Joins
  <2> HIDE DEF lnr
  <2>2. Layout(HostWords, lnr, ln, right, 2, 1)
    BY <1>2, <1>4, <2>1, Behind
  <2> QED
    BY <1>2, <1>4, <2>2 DEF Layout
<1> HIDE DEF lnr
<1> DEFINE open == "["
           close == "]"
           at == "@"
<1>6. /\ z \in Seq(HostWords) /\ Len(z) \in {3, 4} /\ z[1] = open /\ z[2] = a /\ z[3] = close
      /\ Len(z) = 4 => z[4] = port
  <2>0. /\ lnr \in Seq(HostWords) /\ Len(lnr) = 3
        /\ lnr[1] = open /\ lnr[2] = a /\ lnr[3] = close
    BY <1>5
  <2> HIDE DEF open, close
  <2>1. CASE t.port
    <3>1. port \in HostWords
      BY DEF HostWords
    <3>2. Extends(z, lnr, port)
      BY <1>3, <2>1 DEF Ported, Extends
    <3> HIDE DEF port, z
    <3>3. /\ z \in Seq(HostWords) /\ Len(z) = Len(lnr) + 1 /\ \A i \in 1 .. Len(lnr) : z[i] = lnr[i]
          /\ Last(z) = port
      <4>1. lnr \in Seq(HostWords) /\ Len(lnr) \in Nat
        BY <2>0, LenProperties
      <4> QED
        BY <3>1, <3>2, <4>1, FrontAppend
    <3> QED
      BY <2>0, <3>3 DEF Last
  <2>2. CASE ~t.port
    BY <1>3, <2>0, <2>2 DEF Ported
  <2> QED
    BY <2>1, <2>2
<1>7. a \notin {close, at, port} /\ open # at /\ close # at /\ open # close /\ port # close /\ port # at
  BY DEF V6, Inside6
<1> HIDE DEF z, port, open, close, at
<1>8. \A i \in 1 .. Len(z) : z[i] # at /\ (z[i] = close <=> i = 3)
  <2>1. \A i \in 1 .. Len(z) : i \in {1, 2, 3} \/ (i = 4 /\ Len(z) = 4)
    <3>1. Len(z) \in {3, 4} /\ Len(z) \in Nat
      BY <1>6, LenProperties
    <3>2. CASE Len(z) = 3
      BY <3>2
    <3>3. CASE Len(z) = 4
      BY <3>3
    <3> QED
      BY <3>1, <3>2, <3>3
  <2> QED
    BY <1>6, <1>7, <2>1
<1>9. Unbracketed(z) = t.names
  <2>1. DOMAIN z = 1 .. Len(z) /\ 3 \in 1 .. Len(z)
    BY <1>6, LenProperties
  <2>2. (CHOOSE i \in DOMAIN z : z[i] = close) = 3
    BY <1>8, <2>1
  <2>3. z # << >> /\ Head(z) = open
    <3>1. z # << >>
      BY <1>6, EmptySeq
    <3>2. 1 \in 1 .. Len(z) /\ Len(z) \in 1 .. Len(z)
      BY <1>6
    <3>3. Head(SubSeq(z, 1, Len(z))) = z[1] /\ SubSeq(z, 1, Len(z)) = z
      BY <1>6, <3>2, HeadTailOfSubSeq, SubSeqFull
    <3> QED
      BY <1>6, <3>1, <3>3
  <2>4. Unbracketed(z) = SubSeq(z, 2, 3 - 1)
    BY <2>2, <2>3 DEF Unbracketed, open, close
  <2> DEFINE f == SubSeq(z, 2, 3 - 1)
  <2>5. f \in Seq(HostWords) /\ Len(f) = 1 /\ f[1] = z[2]
    <3>1. \A i \in 2 .. 3 - 1 : z[i] \in HostWords
      BY <1>6, <2>1, ElementOfSeq
    <3>2. /\ f \in Seq(HostWords) /\ Len(f) = IF 2 <= 3 - 1 THEN (3 - 1) - 2 + 1 ELSE 0
          /\ \A i \in 1 .. (3 - 1) - 2 + 1 : f[i] = z[2 + i - 1]
      BY <3>1, SubSeqProperties
    <3> QED
      BY <3>2
  <2> HIDE DEF f
  <2>6. f = t.names
    <3>1. \A i \in 1 .. Len(f) : f[i] = t.names[i]
      BY <1>6, <2>5
    <3> QED
      BY <1>1, <2>5, <3>1, SeqEqual
  <2> QED
    BY <2>4, <2>6 DEF f
<1>10. WithoutPort(t.names) = t.names
  BY <1>1, <1>7 DEF WithoutPort, Last, port
<1> QED
  BY <1>1, <1>6, <1>8, <1>9, <1>10 DEF z, at

LEMMA BareName ==
  ASSUME NEW t, HostOK(t), t.names # << >>, t.names[1] \notin V6
  PROVE  /\ Ported(t) \in Seq(HostWords) /\ WithoutPort(Unbracketed(Ported(t))) = Named(t)
         /\ \A i \in 1 .. Len(Ported(t)) : Ported(t)[i] # "@"
         /\ t.names \in Seq(Numbers \union Names)
<1> DEFINE L == Numbers \union Names
           D == L \union {"."}
           P == D \union {":80"}
           n == Named(t)
           z == Ported(t)
           j == Joined(t.names)
           port == ":80"
<1>1. t.names \in Seq(L)
  <2>1. /\ DOMAIN t.names = 1 .. Len(t.names) /\ Len(t.names) \in Nat
        /\ \A k \in 1 .. Len(t.names) : t.names[k] \in Numbers \union Names \union V6
        /\ t.names \in [1 .. Len(t.names) -> Numbers \union Names \union V6]
    BY LenProperties, ElementOfSeq DEF HostOK
  <2>2. ASSUME NEW k \in 1 .. Len(t.names) PROVE t.names[k] \in L
    <3>1. t.names[k] \in V6 => Len(t.names) = 1
      BY DEF HostOK
    <3>2. Len(t.names) = 1 => k = 1
      BY <2>1
    <3> QED
      BY <2>1, <3>1, <3>2
  <2>3. t.names \in [1 .. Len(t.names) -> L]
    <3> HIDE DEF L
    <3> QED
      BY <2>1, <2>2
  <2> HIDE DEF L
  <2> QED
    BY <2>1, <2>3, IsASeq
<1>2. L \subseteq HostWords /\ P \subseteq HostWords /\ "." \in D /\ port \in P /\ D \subseteq P
      /\ (\A e \in P : e \notin V6 /\ e # "[" /\ e # "@") /\ port \notin D
  <2>1. P \subseteq HostWords /\ L \subseteq HostWords
    BY DEF HostWords
  <2>2. "." \in D /\ port \in P /\ D \subseteq P
    OBVIOUS
  <2>3. \A e \in P : e \notin V6 /\ e # "[" /\ e # "@"
    BY DEF Numbers, Names, V6, Inside6
  <2>4. port \notin D
    BY DEF Numbers, Names
  <2> QED
    BY <2>1, <2>2, <2>3, <2>4
<1> HIDE DEF L, port
<1>3. j \in Seq(D) /\ j # << >>
  BY <1>1, JoinedIs DEF Dots
<1> HIDE DEF j, D
<1>4. n = IF t.dot THEN Append(j, ".") ELSE j
  BY DEF Named, j
<1>5. n \in Seq(D) /\ n # << >>
  <2>1. CASE t.dot
    BY <1>2, <1>3, <1>4, <2>1, AppendProperties
  <2>2. CASE ~t.dot
    BY <1>3, <1>4, <2>2
  <2> QED
    BY <2>1, <2>2
<1> HIDE DEF n
<1>6. z = IF t.port THEN Append(n, port) ELSE n
  BY DEF Ported, n, port
<1>7. n \in Seq(P) /\ Last(n) \in D
  <2>1. n \in Seq(P)
    BY <1>2, <1>5, SeqMonotonic
  <2>2. Len(n) \in 1 .. Len(n)
    BY <1>5, LenProperties, EmptySeq
  <2> QED
    BY <1>5, <2>1, <2>2, ElementOfSeq DEF Last
<1> HIDE DEF P, z
<1>8. z \in Seq(P) /\ z # << >>
  <2>1. CASE t.port
    BY <1>2, <1>6, <1>7, <2>1, AppendProperties
  <2>2. CASE ~t.port
    BY <1>5, <1>6, <1>7, <2>2
  <2> QED
    BY <2>1, <2>2
<1>9. Unbracketed(z) = z
  <2>1. Head(z) \in P
    BY <1>8, HeadTailProperties
  <2> QED
    BY <1>2, <2>1 DEF Unbracketed
<1>10. /\ DOMAIN z = 1 .. Len(z)
       /\ \A i \in 1 .. Len(z) : z[i] \in P
  BY <1>8, LenProperties, ElementOfSeq
<1>11. WithoutPort(z) = n
  <2>1. ~Has(V6, z)
    BY <1>2, <1>10 DEF Has
  <2>2. CASE t.port
    <3>1. Extends(z, n, port)
      BY <1>6, <2>2 DEF Extends
    <3>2. Last(z) = port /\ Front(z) = n
      BY <1>2, <1>7, <3>1, FrontAppend
    <3> QED
      BY <1>8, <2>1, <3>2 DEF WithoutPort, port
  <2>3. CASE ~t.port
    <3>1. Last(z) # port
      BY <1>2, <1>6, <1>7, <2>3
    <3> QED
      BY <1>6, <2>3, <3>1 DEF WithoutPort, port
  <2> QED
    BY <2>2, <2>3
<1>12. z \in Seq(HostWords)
  BY <1>2, <1>8, SeqMonotonic
<1>13. \A i \in 1 .. Len(z) : z[i] # "@"
  BY <1>2, <1>10
<1> QED
  BY <1>1, <1>9, <1>11, <1>12, <1>13 DEF z, n, L

(* What a host is read as, whatever stands around it.                      *)
LEMMA BareIs ==
  ASSUME NEW t, HostOK(t), t.names # << >>
  PROVE  Bare(Written(t)) = IF t.names[1] \in V6 THEN t.names ELSE Named(t)
<1>1. Joins(Written(t), t.user, Ported(t))
  BY DEF Written, Joins, Ported, Named
<1>2. Ported(t) \in Seq(HostWords) /\ \A i \in 1 .. Len(Ported(t)) : Ported(t)[i] # "@"
  BY BareAddress, BareName
<1>3. t.user \in Seq(HostWords) /\ (t.user # << >> => t.user[Len(t.user)] = "@")
  <2>1. CASE t.user = << >>
    BY <2>1, EmptySeq
  <2>2. CASE t.user = <<"user", "@">>
    <3>1. <<"user", "@">> \in Seq(HostWords) /\ Len(<<"user", "@">>) = 2
      BY DEF HostWords
    <3> QED
      BY <2>2, <3>1
  <2>3. CASE t.user = <<"user", ":80", "@">>
    <3>1. <<"user", ":80", "@">> \in Seq(HostWords) /\ Len(<<"user", ":80", "@">>) = 3
      BY DEF HostWords
    <3> QED
      BY <2>3, <3>1
  <2> QED
    BY <2>1, <2>2, <2>3 DEF HostOK, Users
<1>4. AfterUser(Written(t)) = Ported(t)
  BY <1>1, <1>2, <1>3, WithoutUser
<1>5. CASE t.names[1] \in V6
  BY <1>4, <1>5, BareAddress DEF Bare
<1>6. CASE t.names[1] \notin V6
  BY <1>4, <1>6, BareName DEF Bare
<1> QED
  BY <1>5, <1>6

(* No step writes a host in another way.                                   *)
HostsOK == \A t \in hosts : HostOK(t)
LEMMA HostsTyped == ScanSpec => []HostsOK
<1>1. ScanInit => HostsOK
  <2>1. ASSUME NEW u \in Users, NEW d \in BOOLEAN, NEW p \in BOOLEAN,
               hosts = {[user |-> u, names |-> << >>, dot |-> d, port |-> p]}
        PROVE  HostsOK
    <3> DEFINE t == [user |-> u, names |-> << >>, dot |-> d, port |-> p]
    <3>1. t.user = u /\ t.names = << >> /\ t.dot = d /\ t.port = p
      OBVIOUS
    <3>2. << >> \in Seq(Numbers \union Names \union V6) /\ Len(<< >>) = 0
      BY EmptySeq
    <3>3. HostOK(t)
      BY <3>1, <3>2 DEF HostOK
    <3> QED
      BY <2>1, <3>3 DEF HostsOK
  <2>2. hosts = {} => HostsOK
    BY DEF HostsOK
  <2> QED
    BY <2>1, <2>2 DEF ScanInit
<1>2. HostsOK /\ [ScanNext]_<<tools, hosts>> => HostsOK'
  <2> SUFFICES ASSUME HostsOK, [ScanNext]_<<tools, hosts>> PROVE HostsOK'
    OBVIOUS
  <2>1. CASE Label
    <3>1. PICK t \in hosts, x \in Numbers \union Names \union V6 :
            /\ t.names # << >> => t.names[1] \notin V6 /\ x \notin V6
            /\ hosts' = {[t EXCEPT !.names = Append(@, x)]}
      BY <2>1 DEF Label
    <3> DEFINE S == Numbers \union Names \union V6
               u == [t EXCEPT !.names = Append(@, x)]
               e == Append(t.names, x)
    <3>2. HostOK(t)
      BY DEF HostsOK
    <3>3. u.user = t.user /\ u.dot = t.dot /\ u.port = t.port
      OBVIOUS
    <3>4. u.names = e
      OBVIOUS
    <3>5. /\ e \in Seq(S) /\ Len(e) = Len(t.names) + 1 /\ Len(t.names) \in Nat
          /\ \A k \in 1 .. Len(t.names) : e[k] = t.names[k]
          /\ e[Len(t.names) + 1] = x
      <4>1. t.names \in Seq(S) /\ x \in S
        BY <3>2 DEF HostOK
      <4> HIDE DEF S
      <4> QED
        BY <4>1, AppendProperties, LenProperties
    <3> HIDE DEF u, e
    <3>6. ASSUME NEW k \in 1 .. Len(e), e[k] \in V6 PROVE Len(e) = 1
      <4>1. CASE t.names = << >>
        BY <3>5, <4>1, EmptySeq
      <4>2. CASE t.names # << >>
        <5>1. k \in 1 .. Len(t.names) \/ k = Len(t.names) + 1
          BY <3>5
        <5>2. k # Len(t.names) + 1
          BY <3>1, <3>5, <3>6, <4>2
        <5>3. t.names[k] \in V6 /\ Len(t.names) = 1
          BY <3>2, <3>5, <3>6, <5>1, <5>2 DEF HostOK
        <5>4. k = 1
          BY <3>5, <5>1, <5>2, <5>3
        <5> QED
          BY <3>1, <4>2, <5>3, <5>4
      <4> QED
        BY <4>1, <4>2
    <3>7. HostOK(u)
      BY <3>2, <3>3, <3>4, <3>5, <3>6 DEF HostOK
    <3> QED
      BY <3>1, <3>7 DEF HostsOK, u
  <2>2. CASE Describe \/ UNCHANGED <<tools, hosts>>
    BY <2>2 DEF Describe, HostsOK
  <2> QED
    BY <2>1, <2>2 DEF ScanNext
<1> QED
  BY <1>1, <1>2, PTL DEF ScanSpec

(* A single label, canonical: an address, or the name as it is.            *)
LEMMA OneLabel ==
  ASSUME NEW t, HostOK(t), t.names # << >>, Len(t.names) = 1
  PROVE  /\ t.names[1] \in Numbers \union Names \union V6
         /\ canonicalHost(Bare(Written(t))) = <<Reached(t.names)>>
<1> DEFINE a == t.names[1]
           b == Bare(Written(t))
           g == IF b # << >> /\ Last(b) = "." THEN Front(b) ELSE b
           C == IF Len(g) = 1 /\ g[1] \in DOMAIN Spelled THEN <<Spelled[g[1]]>> ELSE g
           S == Numbers \union Names \union V6
<1>1. t.names \in Seq(S) /\ a \in S /\ t.names = <<a>>
  <2>1. t.names \in Seq(S)
    BY DEF HostOK
  <2> HIDE DEF S
  <2>2. 1 \in 1 .. Len(t.names)
    OBVIOUS
  <2>3. t.names[1] \in S
    BY <2>1, <2>2, ElementOfSeq
  <2>4. t.names = <<a>>
    <3>1. <<a>> \in Seq(S) /\ Len(<<a>>) = 1 /\ <<a>>[1] = a
      BY <2>3
    <3>2. \A i \in 1 .. Len(t.names) : t.names[i] = <<a>>[i]
      BY <3>1
    <3> QED
      BY <2>1, <3>1, <3>2, SeqEqual
  <2> QED
    BY <2>1, <2>3, <2>4
<1>2. g = t.names
  <2>1. a # "."
    BY <1>1 DEF Numbers, Names, V6, Inside6
  <2>2. CASE a \in V6
    <3>1. b = t.names
      BY <2>2, BareIs
    <3>2. Last(b) = a
      BY <3>1 DEF Last
    <3> QED
      BY <2>1, <3>1, <3>2
  <2>3. CASE a \notin V6
    <3> DEFINE j == Joined(t.names)
               D == S \union {"."}
    <3>1. b = IF t.dot THEN Append(j, ".") ELSE j
      BY <2>3, BareIs DEF Named
    <3>2. j = t.names
      <4>1. j \in Seq(D) /\ Len(j) = 1 /\ j[1] = a
        <5> DEFINE m == Len(t.names)
        <5>1. Dots(S, t.names, j) /\ m = 1
          <6>1. t.names \in Seq(S)
            BY <1>1
          <6> HIDE DEF S
          <6> QED
            BY <6>1, JoinedIs
        <5> HIDE DEF S, j
        <5>2. j \in Seq(D) /\ j[1] = t.names[1]
          BY <5>1 DEF Dots
        <5>3. Len(j) = 2 * m - 1
          BY <5>1 DEF Dots
        <5> HIDE DEF m
        <5>4. Len(j) = 1
          BY <5>1, <5>3
        <5> QED
          BY <5>2, <5>4
      <4> HIDE DEF j
      <4>2. t.names \in Seq(D)
        BY <1>1, SeqMonotonic
      <4>3. \A i \in 1 .. Len(j) : j[i] = t.names[i]
        BY <4>1
      <4> QED
        BY <4>1, <4>2, <4>3, SeqEqual
    <3> HIDE DEF j, b
    <3>3. CASE t.dot
      <4>1. Extends(b, t.names, ".")
        BY <3>1, <3>2, <3>3 DEF Extends
      <4>2. t.names \in Seq(D) /\ "." \in D
        BY <1>1, SeqMonotonic
      <4> HIDE DEF D
      <4>3. b # << >> /\ Last(b) = "." /\ Front(b) = t.names
        BY <4>1, <4>2, FrontAppend
      <4> QED
        BY <4>3
    <3>4. CASE ~t.dot
      <4>1. Last(t.names) = a
        BY DEF Last
      <4> QED
        BY <2>1, <3>1, <3>2, <3>4, <4>1
    <3> QED
      BY <3>3, <3>4 DEF b
  <2> QED
    BY <2>2, <2>3
<1>3. canonicalHost(b) = C
  BY DEF canonicalHost
<1> HIDE DEF b, g
<1>4. C = <<Reached(t.names)>>
  BY <1>1, <1>2 DEF Reached
<1> QED
  BY <1>1, <1>3, <1>4 DEF b

(* Several labels: the trailing dot goes, the last label decides.          *)
LEMMA ManyLabels ==
  ASSUME NEW t, HostOK(t), Len(t.names) > 1
  PROVE  LET c == canonicalHost(Bare(Written(t)))
         IN  c # << >> /\ Len(c) # 1 /\ Last(c) = t.names[Len(t.names)]
             /\ Len(Bare(Written(t))) # 1
<1> DEFINE n == Len(t.names)
           b == Bare(Written(t))
           g == IF b # << >> /\ Last(b) = "." THEN Front(b) ELSE b
           L == Numbers \union Names
           D == L \union {"."}
           j == Joined(t.names)
<1>1. n \in Nat /\ n > 1 /\ t.names # << >> /\ t.names[1] \notin V6
  <2>1. n \in Nat /\ t.names # << >>
    BY LenProperties, EmptySeq DEF HostOK
  <2>2. 1 \in 1 .. n
    BY <2>1
  <2>3. t.names[1] \in V6 => n = 1
    <3>1. \A k \in 1 .. n : t.names[k] \in V6 => n = 1
      BY DEF HostOK
    <3> QED
      BY <2>2, <3>1
  <2>4. n > 1
    OBVIOUS
  <2> HIDE DEF n
  <2>5. n # 1
    BY <2>1, <2>4
  <2> QED
    BY <2>1, <2>3, <2>4, <2>5
<1>2. b = IF t.dot THEN Append(j, ".") ELSE j
  BY <1>1, BareIs DEF Named
<1>3. t.names \in Seq(L)
  BY <1>1, BareName
<1>4. "." \notin L /\ "." \in D
  BY DEF Numbers, Names
<1> HIDE DEF L
<1>5. /\ j \in Seq(D) /\ Len(j) = 2 * n - 1 /\ j # << >> /\ j[2 * n - 1] = t.names[n]
  BY <1>1, <1>3, JoinedIs DEF Dots
<1>6. t.names[n] \in L
  <2>1. n \in 1 .. Len(t.names)
    BY <1>1
  <2> QED
    BY <1>3, <2>1, ElementOfSeq
<1> HIDE DEF n, j, D, b
<1>7. Last(j) = t.names[n] /\ Len(j) # 1 /\ Len(j) > 2
  BY <1>1, <1>5 DEF Last
<1>8. g = j /\ Len(b) # 1
  <2>1. CASE t.dot
    <3>1. Extends(b, j, ".")
      BY <1>2, <2>1 DEF Extends
    <3>2. b # << >> /\ Last(b) = "." /\ Front(b) = j /\ Len(b) = Len(j) + 1
      BY <1>4, <1>5, <3>1, FrontAppend
    <3>3. Len(j) \in Nat
      BY <1>5, LenProperties
    <3> QED
      BY <1>7, <3>2, <3>3
  <2>2. CASE ~t.dot
    BY <1>2, <1>4, <1>6, <1>7, <2>2
  <2> QED
    BY <2>1, <2>2
<1>9. canonicalHost(b) = IF Len(g) = 1 /\ g[1] \in DOMAIN Spelled THEN <<Spelled[g[1]]>> ELSE g
  BY DEF canonicalHost
<1> HIDE DEF g
<1>10. canonicalHost(b) = j
  BY <1>7, <1>8, <1>9
<1> QED
  BY <1>5, <1>7, <1>8, <1>10 DEF n, b

(* The scope is read before the host is made canonical.                    *)
LEMMA OneWord ==
  ASSUME NEW t, HostOK(t), t.names # << >>
  PROVE  LET b == Bare(Written(t))
         IN  /\ Len(b) = 1 => Len(t.names) = 1 /\ b[1] = t.names[1]
             /\ Len(t.names) = 1 /\ ~t.dot => Len(b) = 1
<1> DEFINE b == Bare(Written(t))
           L == Numbers \union Names
           D == L \union {"."}
           j == Joined(t.names)
           Good == /\ Len(b) = 1 => Len(t.names) = 1 /\ b[1] = t.names[1]
                   /\ Len(t.names) = 1 /\ ~t.dot => Len(b) = 1
<1>1. CASE t.names[1] \in V6
  BY <1>1, BareIs, BareAddress
<1>2. CASE t.names[1] \notin V6
  <2>1. b = IF t.dot THEN Append(j, ".") ELSE j
    BY <1>2, BareIs DEF Named
  <2>2. t.names \in Seq(L)
    BY <1>2, BareName
  <2>3. "." \in D
    OBVIOUS
  <2> HIDE DEF L
  <2>4. /\ j \in Seq(D) /\ Len(t.names) \in Nat \ {0} /\ Len(j) = 2 * Len(t.names) - 1
        /\ j[1] = t.names[1]
    BY <2>2, JoinedIs DEF Dots
  <2> HIDE DEF b, j, D
  <2>5. t.dot => Good
    <3> SUFFICES ASSUME t.dot PROVE Good
      OBVIOUS
    <3>1. Extends(b, j, ".")
      BY <2>1 DEF Extends
    <3>2. Len(b) = Len(j) + 1
      BY <2>3, <2>4, <3>1, FrontAppend
    <3>3. Len(b) # 1
      BY <2>4, <3>2
    <3> QED
      BY <3>3
  <2>6. ~t.dot => Good
    <3> SUFFICES ASSUME ~t.dot PROVE Good
      OBVIOUS
    <3>1. b = j
      BY <2>1
    <3>2. Len(b) = 2 * Len(t.names) - 1 /\ b[1] = t.names[1]
      BY <2>4, <3>1
    <3>3. Len(b) = 1 <=> Len(t.names) = 1
      <4> DEFINE m == Len(t.names)
      <4>1. m \in Nat /\ Len(b) = 2 * m - 1
        BY <2>4, <3>2
      <4> HIDE DEF m
      <4>2. 2 * m - 1 = 1 <=> m = 1
        BY <4>1
      <4>3. Len(b) = 1 <=> m = 1
        BY <4>1, <4>2
      <4> QED
        BY <4>3 DEF m
    <3> QED
      BY <3>2, <3>3
  <2>7. Good
    BY <2>5, <2>6
  <2> QED
    BY <2>7 DEF b
<1> QED
  BY <1>1, <1>2

(* Every way of writing a host, of any number of labels, is read as the    *)
(* address or the name it leads to (scan.mjs:219-281).                     *)
THEOREM SpellingsHold == ScanSpec => []SpellingsAgree
<1>1. ASSUME NEW t, HostOK(t), t.names # << >>, NEW allow \in SUBSET {"api.ok", "evil.com"}
      PROVE  isExternal(Written(t), allow) = Outside(t.names, allow)
  <2> DEFINE c == canonicalHost(Bare(Written(t)))
             n == Len(t.names)
             known == Loopback \union Private \union LinkLocal \union Inside6 \union Labels
  <2>1. n \in Nat \ {0}
    BY <1>1, LenProperties, EmptySeq DEF HostOK
  <2>2. isExternal(Written(t), allow) <=> (/\ c # << >> /\ Last(c) # "localhost" /\ Last(c) \notin allow
                                           /\ ~(Len(c) = 1 /\ c[1] \in known))
    BY DEF isExternal
  <2>3. isExternal(Written(t), allow) \in BOOLEAN /\ Outside(t.names, allow) \in BOOLEAN
    <3>1. isExternal(Written(t), allow) \in BOOLEAN
      BY DEF isExternal
    <3>2. n > 1 => Outside(t.names, allow) \in BOOLEAN
      BY DEF Outside
    <3>3. ASSUME ~(n > 1) PROVE Outside(t.names, allow) \in BOOLEAN
      <4>1. Outside(t.names, allow)
              = (Reached(t.names) \in {"8.8.8.8", "2001:db8::1", "evil.com", "api.ok"} \ allow)
        BY <3>3 DEF Outside
      <4> QED
        BY <4>1
    <3> QED
      BY <3>1, <3>2, <3>3
  <2>4. CASE n > 1
    <3>1. c # << >> /\ Len(c) # 1 /\ Last(c) = t.names[n]
      BY <1>1, <2>4, ManyLabels
    <3>2. Outside(t.names, allow) <=> t.names[n] # "localhost" /\ t.names[n] \notin allow
      BY <2>4 DEF Outside
    <3> HIDE DEF c, n, known
    <3>3. isExternal(Written(t), allow) <=> Outside(t.names, allow)
      BY <2>2, <3>1, <3>2
    <3> QED
      BY <2>3, <3>3
  <2>5. CASE n = 1
    <3> DEFINE a == Reached(t.names)
    <3>1. c = <<a>> /\ t.names[1] \in Numbers \union Names \union V6
      BY <1>1, <2>5, OneLabel
    <3>2. c # << >> /\ Len(c) = 1 /\ Last(c) = a /\ c[1] = a
      BY <3>1 DEF Last
    <3>3. a \in {"127.0.0.1", "10.0.0.1", "169.254.169.254", "8.8.8.8", "localhost", "db",
                 "api.ok", "evil.com", "::1", "fe80::1", "fd00::1", "2001:db8::1"}
      <4> DEFINE e == t.names[1]
      <4>1. e \in DOMAIN Spelled => Spelled[e] \in {"127.0.0.1", "10.0.0.1", "169.254.169.254", "8.8.8.8", "::1"}
        BY DEF Spelled
      <4>2. e \notin DOMAIN Spelled =>
              e \in {"127.0.0.1", "10.0.0.1", "169.254.169.254", "8.8.8.8", "localhost", "db",
                     "api.ok", "evil.com", "::1", "fe80::1", "fd00::1", "2001:db8::1"}
        BY <3>1 DEF Numbers, Names, V6, Inside6, Spelled
      <4>3. a = IF e \in DOMAIN Spelled THEN Spelled[e] ELSE e
        BY <2>5 DEF Reached
      <4> QED
        BY <4>1, <4>2, <4>3
    <3>4. Outside(t.names, allow) <=> (a \in {"8.8.8.8", "2001:db8::1", "evil.com", "api.ok"} \ allow)
      BY <2>5 DEF Outside
    <3> HIDE DEF a, c
    <3>5. (/\ a # "localhost" /\ a \notin allow /\ a \notin known)
            <=> a \in {"8.8.8.8", "2001:db8::1", "evil.com", "api.ok"} \ allow
      BY <3>3 DEF Loopback, Private, LinkLocal, Inside6, Labels
    <3>6. isExternal(Written(t), allow) <=> Outside(t.names, allow)
      BY <2>2, <3>2, <3>4, <3>5
    <3> QED
      BY <2>3, <3>6
  <2>6. n > 1 \/ n = 1
    <3> HIDE DEF n
    <3> QED
      BY <2>1
  <2> QED
    BY <2>4, <2>5, <2>6
<1>2. ASSUME NEW t, HostOK(t), t.names # << >>
      PROVE  LET scope == ipScope(Written(t))
                 n == Len(t.names)
             IN  /\ scope = "linklocal" => n = 1 /\ Reached(t.names) \in LinkLocal
                 /\ scope = "private" => n = 1 /\ Reached(t.names) \in Private
                 /\ n = 1 /\ t.names[1] \in LinkLocal \union Private /\ ~t.dot =>
                      scope = IF t.names[1] \in LinkLocal THEN "linklocal" ELSE "private"
  <2> DEFINE b == Bare(Written(t))
             scope == ipScope(Written(t))
             a == t.names[1]
  <2>1. /\ Len(b) = 1 => Len(t.names) = 1 /\ b[1] = a
        /\ Len(t.names) = 1 /\ ~t.dot => Len(b) = 1
    BY <1>2, OneWord
  <2> DEFINE one(S) == Len(b) = 1 /\ b[1] \in S
  <2>2. scope = IF one(LinkLocal) THEN "linklocal" ELSE IF one(Loopback \union {"::1"}) THEN "loopback"
                ELSE IF one(Private) THEN "private" ELSE "none"
    BY DEF ipScope
  <2>3. \A S : one(S) => Len(t.names) = 1 /\ a \in S
    BY <2>1
  <2>4. a \in LinkLocal \union Private => a \notin DOMAIN Spelled /\ a \notin Loopback \union {"::1"}
    BY DEF LinkLocal, Private, Spelled, Loopback
  <2>5. Len(t.names) = 1 /\ a \in LinkLocal \union Private => Reached(t.names) = a
    BY <2>4 DEF Reached
  <2>6. scope = "linklocal" => one(LinkLocal)
    BY <2>2
  <2>7. scope = "private" => one(Private)
    BY <2>2
  <2>8. Len(t.names) = 1 /\ ~t.dot /\ a \in LinkLocal => scope = "linklocal"
    BY <2>1, <2>2
  <2>9. Len(t.names) = 1 /\ ~t.dot /\ a \in Private /\ a \notin LinkLocal => scope = "private"
    BY <2>1, <2>2, <2>4
  <2> HIDE DEF b, scope, a, one
  <2>10. scope = "linklocal" => Len(t.names) = 1 /\ Reached(t.names) \in LinkLocal
    BY <2>3, <2>5, <2>6
  <2>11. scope = "private" => Len(t.names) = 1 /\ Reached(t.names) \in Private
    BY <2>3, <2>5, <2>7
  <2> QED
    BY <2>8, <2>9, <2>10, <2>11 DEF scope, a
<1>3. HostsOK => SpellingsAgree
  <2> SUFFICES ASSUME HostsOK, NEW t \in hosts, Len(t.names) > 0
               PROVE  /\ \A allow \in SUBSET {"api.ok", "evil.com"} :
                           isExternal(Written(t), allow) = Outside(t.names, allow)
                      /\ LET scope == ipScope(Written(t))
                             n == Len(t.names)
                         IN  /\ scope = "linklocal" => n = 1 /\ Reached(t.names) \in LinkLocal
                             /\ scope = "private" => n = 1 /\ Reached(t.names) \in Private
                             /\ n = 1 /\ t.names[1] \in LinkLocal \union Private /\ ~t.dot =>
                                  scope = IF t.names[1] \in LinkLocal THEN "linklocal" ELSE "private"
    BY DEF SpellingsAgree
  <2>1. HostOK(t)
    BY DEF HostsOK
  <2>2. t.names # << >>
    BY EmptySeq
  <2> QED
    BY <1>1, <1>2, <2>1, <2>2
<1> QED
  BY <1>3, HostsTyped, PTL
=============================================================================

---------------------------- MODULE VerdictProofs ----------------------------
(***************************************************************************)
(* How verdicts are made and what becomes of them (VerdictSteps), for      *)
(* every evidence; what a session knows of secrets (TaintSession), for any *)
(* files, commands of any length and any number of calls; and the matchers *)
(* of a policy (MatchingSteps), for every glob, subject and path.  The     *)
(* agent runs one call at a time, an assumption the theorems on sessions   *)
(* state; what they are about is the bytes that travel by the ways a       *)
(* session follows, whatever other commands run in between.                *)
(***************************************************************************)
EXTENDS VerdictSteps, TaintSession, MatchingSteps, SequenceTheorems, TLAPS

(* The general lemmas on loops are with those about the audit log.         *)
Loops == INSTANCE AuditFileProofs WITH Recs <- {}

(* What running x adds to a set of files that covers the dirty ones.       *)
Spread(x, s) ==
  IF \/ x.op = "cp" /\ x.src \in s \union {Secret}
     \/ x.op = "cat>" /\ x.src = Secret
  THEN s \union {x.dst} ELSE s

(* There are sets of files that, through the rest of a command, cover what *)
(* is dirty and end within what is tainted.                                *)
Covering(rest, from, to, D) ==
  /\ D \in [0 .. Len(rest) -> SUBSET Paths]
  /\ from \subseteq D[0] /\ D[Len(rest)] \subseteq to
  /\ \A i \in 1 .. Len(rest) : Spread(rest[i], D[i - 1]) \subseteq D[i]
Covered(rest, from, to) == \E D : Covering(rest, from, to, D)

SendsClean(rest) == "send" \in Ops(rest) => Names(rest) \intersect (dirty \union {Secret}) = {}

SInv == /\ TypeOK
        /\ Covered(running[1], dirty, tainted)
        /\ SendsClean(running[1])
        /\ ~leaked
-----------------------------------------------------------------------------
(* Commands are sequences of simple commands with the fields they use.     *)
LEMMA SimpleCommandFields ==
  ASSUME NEW x \in SimpleCommands
  PROVE  /\ x.op \in {"cp", "cat>", "cat", "send", "post", "get"}
         /\ x.op \in {"cp", "cat>"} => x.dst \in Paths
BY DEF SimpleCommands

LEMMA CommandTypes ==
  ASSUME NEW c \in Commands
  PROVE  c \in Seq(SimpleCommands) /\ Len(c) \in Nat /\ DOMAIN c = 1 .. Len(c) /\ c # << >>
<1>1. PICK m \in 0 .. MaxSteps : c \in [1 .. m -> SimpleCommands]
  BY DEF Commands, BoundedSeq, SeqOf
<1>2. m \in Nat
  BY <1>1, TaintAssumption
<1>3. c \in Seq(SimpleCommands)
  BY <1>1, <1>2, SeqDef
<1> QED
  BY <1>3, LenProperties DEF Commands

(* The names and the kinds of a command, position by position.             *)
LEMMA NamesAt ==
  ASSUME NEW c \in Seq(SimpleCommands), NEW i \in 1 .. Len(c)
  PROVE  /\ c[i].op \in Ops(c)
         /\ c[i].op \in {"cp", "cat>"} => c[i].dst \in WriteDests(c) /\ c[i].dst \in Names(c)
         /\ c[i].op \in {"cp", "cat>", "cat", "send"} => c[i].src \in Names(c)
<1>1. i \in DOMAIN c
  BY LenProperties
<1> QED
  BY <1>1 DEF Ops, Names, WriteDests

(* The files a command's copies taint, copy by copy.                       *)
LEMMA PropagateTrace ==
  ASSUME NEW c \in Commands, NEW t \in SUBSET Paths
  PROVE  \E D \in [0 .. Len(c) -> SUBSET Paths] :
           /\ D[0] = t /\ Propagate(c, t) = D[Len(c)]
           /\ \A i \in 1 .. Len(c) : D[i] = CopyTaints(c[i], D[i - 1])
<1> DEFINE n == Len(c)
           turn == [i \in 1 .. n |-> [s \in SUBSET Paths |-> CopyTaints(c[i], s)]]
           Eq(g) == g = [i \in 0 .. n |-> IF i = 0 THEN t ELSE CopyTaints(c[i], g[i - 1])]
           after == CHOOSE g : Eq(g)
<1>1. c \in Seq(SimpleCommands) /\ n \in Nat /\ \A i \in 1 .. n : c[i] \in SimpleCommands
  BY CommandTypes, ElementOfSeq
<1>2. \A i \in 1 .. n, s \in SUBSET Paths : CopyTaints(c[i], s) \in SUBSET Paths
  BY <1>1, SimpleCommandFields DEF CopyTaints
<1>3. /\ turn \in [1 .. n -> [SUBSET Paths -> SUBSET Paths]]
      /\ \A i \in 1 .. n, s \in SUBSET Paths : turn[i][s] = CopyTaints(c[i], s)
  BY <1>2
<1> HIDE DEF n, turn
<1>4. PICK f \in [0 .. n -> SUBSET Paths] :
        f[0] = t /\ \A i \in 1 .. n : f[i] = turn[i][f[i - 1]]
  <2>1. \E f : Loops!Trace(f, n, SUBSET Paths, t, turn)
    BY <1>1, <1>3, Loops!LoopTrace
  <2> QED
    BY <2>1 DEF Loops!Trace
<1>5. \A i \in 0 .. n : i = 0 \/ (i \in 1 .. n /\ i - 1 \in 0 .. n)
  BY <1>1
<1>6. \A i \in 1 .. n : f[i] = CopyTaints(c[i], f[i - 1])
  <2> SUFFICES ASSUME NEW i \in 1 .. n PROVE f[i] = CopyTaints(c[i], f[i - 1])
    OBVIOUS
  <2>1. i - 1 \in 0 .. n
    BY <1>1
  <2>2. f[i - 1] \in SUBSET Paths /\ f[i] = turn[i][f[i - 1]]
    BY <1>4, <2>1
  <2> QED
    BY <1>3, <2>2
<1>7. Eq(f)
  BY <1>4, <1>5, <1>6
<1>8. Eq(after)
  BY <1>7
<1> HIDE DEF after
<1>9. /\ after[0] = t
      /\ \A i \in 1 .. n : after[i] = CopyTaints(c[i], after[i - 1])
  BY <1>1, <1>5, <1>8
<1> DEFINE P == {m \in 0 .. n : after[m] = f[m]}
<1>10. 0 \in P
  BY <1>1, <1>4, <1>9
<1>11. \A m \in 0 .. n - 1 : m \in P => m + 1 \in P
  <2> SUFFICES ASSUME NEW m \in 0 .. n - 1, after[m] = f[m]
               PROVE  after[m + 1] = f[m + 1] /\ m + 1 \in 0 .. n
    OBVIOUS
  <2>1. m + 1 \in 1 .. n /\ (m + 1) - 1 = m /\ m + 1 \in 0 .. n
    BY <1>1
  <2> QED
    BY <1>6, <1>9, <2>1
<1> HIDE DEF P
<1>12. \A m \in 0 .. n : m \in P
  BY <1>1, <1>10, <1>11, Loops!Induction
<1>13. after[n] = f[n]
  BY <1>1, <1>12 DEF P
<1>14. Propagate(c, t) = f[n]
  BY <1>13 DEF Propagate, after, n
<1> QED
  BY <1>4, <1>6, <1>14 DEF n

(* The copies only add, so what a command starts from is still there at    *)
(* each of its steps.                                                      *)
LEMMA PropagateGrows ==
  ASSUME NEW n \in Nat, NEW c, NEW D \in [0 .. n -> SUBSET Paths],
         \A i \in 1 .. n : D[i] = CopyTaints(c[i], D[i - 1])
  PROVE  \A i \in 0 .. n : D[0] \subseteq D[i]
<1> DEFINE P == {m \in 0 .. n : D[0] \subseteq D[m]}
<1>1. 0 \in P
  OBVIOUS
<1>2. \A m \in 0 .. n - 1 : m \in P => m + 1 \in P
  <2> SUFFICES ASSUME NEW m \in 0 .. n - 1, D[0] \subseteq D[m]
               PROVE  D[0] \subseteq D[m + 1] /\ m + 1 \in 0 .. n
    OBVIOUS
  <2>1. m + 1 \in 1 .. n /\ (m + 1) - 1 = m /\ m + 1 \in 0 .. n
    OBVIOUS
  <2>2. D[m + 1] = CopyTaints(c[m + 1], D[m])
    BY <2>1
  <2> QED
    BY <2>1, <2>2 DEF CopyTaints
<1> HIDE DEF P
<1>3. \A m \in 0 .. n : m \in P
  BY <1>1, <1>2, Loops!Induction
<1> QED
  BY <1>3 DEF P

(* A command the session has checked: its writes are covered from what was *)
(* tainted before it to what is after it.                                  *)
LEMMA CheckCovers ==
  ASSUME NEW c \in Commands, tainted \subseteq Paths, NEW from, from \subseteq tainted
  PROVE  /\ Covered(c, from, Propagate(c, tainted \union Sources(c)))
         /\ tainted \subseteq Propagate(c, tainted \union Sources(c))
         /\ Propagate(c, tainted \union Sources(c)) \subseteq Paths
<1> DEFINE t == tainted \union Sources(c)
           n == Len(c)
<1>1. c \in Seq(SimpleCommands) /\ n \in Nat /\ \A i \in 1 .. n : c[i] \in SimpleCommands
  BY CommandTypes, ElementOfSeq
<1>2. WriteDests(c) \subseteq Paths
  BY <1>1, CommandTypes, SimpleCommandFields DEF WriteDests
<1>3. t \in SUBSET Paths
  BY <1>2 DEF Sources
<1> HIDE DEF t
<1>4. PICK D \in [0 .. n -> SUBSET Paths] :
         /\ D[0] = t /\ Propagate(c, t) = D[n]
         /\ \A i \in 1 .. n : D[i] = CopyTaints(c[i], D[i - 1])
  BY <1>3, PropagateTrace
<1> HIDE DEF n
<1>5. \A i \in 0 .. n : t \subseteq D[i]
  BY <1>1, <1>4, PropagateGrows
<1>6. \A i \in 1 .. n : Spread(c[i], D[i - 1]) \subseteq D[i]
  <2> SUFFICES ASSUME NEW i \in 1 .. n PROVE Spread(c[i], D[i - 1]) \subseteq D[i]
    OBVIOUS
  <2>1. D[i] = CopyTaints(c[i], D[i - 1]) /\ D[i - 1] \subseteq D[i]
    BY <1>4 DEF CopyTaints
  <2>2. CASE c[i].op = "cat>" /\ c[i].src = Secret
    <3>1. c[i].src \in Names(c) /\ c[i].dst \in WriteDests(c)
      BY <1>1, <2>2, NamesAt DEF n
    <3>2. c[i].dst \in t
      BY <2>2, <3>1 DEF Sources, HasSecret, t
    <3>3. c[i].dst \in D[i]
      BY <1>1, <1>5, <3>2
    <3> QED
      BY <2>1, <2>2, <3>3 DEF Spread
  <2>3. CASE ~(c[i].op = "cat>" /\ c[i].src = Secret)
    BY <2>1, <2>3 DEF Spread, CopyTaints
  <2> QED
    BY <2>2, <2>3
<1>7. Covering(c, from, Propagate(c, t), D)
  BY <1>4, <1>6 DEF Covering, n, t
<1>8. tainted \subseteq Propagate(c, t) /\ Propagate(c, t) \subseteq Paths
  BY <1>1, <1>4, <1>5 DEF t
<1> QED
  BY <1>7, <1>8 DEF Covered, t

(* A command that sends and is not blocked names nothing the session holds *)
(* for tainted, and no secret.                                             *)
LEMMA SendChecked ==
  ASSUME NEW c \in Commands, "send" \in Ops(c), Sink(c, tainted, holds).decision # "block"
  PROVE  Names(c) \intersect (tainted \union {Secret}) = {}
<1> DEFINE v == Stateless(c)
<1>1. External(c)
  BY DEF External
<1>2. /\ v.tier \in Tiers
      /\ HasSecret(c) => v.decision = "block"
  BY <1>1 DEF Stateless, decide, TierOf, DecisionOf, BlackEvidence, RedEvidence, Active, worst,
              ORDER, Tiers
<1>3. Escalate(v, "black").decision = "block"
  <2>1. worst(v.tier, "black") = "black"
    BY <1>2 DEF worst, ORDER, Tiers
  <2>2. DOMAIN v = {"tier", "decision", "gray"}
    BY DEF Stateless, decide
  <2> HIDE DEF v
  <2> QED
    BY <2>1, <2>2 DEF Escalate
<1>4. v.decision # "block" /\ Names(c) \intersect tainted = {}
  BY <1>1, <1>3 DEF Sink
<1>5. ~HasSecret(c)
  BY <1>2, <1>4
<1> QED
  BY <1>4, <1>5 DEF HasSecret

(* A shell at a time: it is idle exactly when it has nothing left to run,  *)
(* and then all that is dirty is tainted.                                  *)
LEMMA OneShell ==
  ASSUME SInv, Shells = 1
  PROVE  /\ 1 .. Shells = {1} /\ running[1] \in Seq(SimpleCommands) /\ running = [k \in {1} |-> running[1]]
         /\ running[1] = << >> => dirty \subseteq tainted
<1>1. 1 .. Shells = {1}
  OBVIOUS
<1>2. running[1] \in Seq(SimpleCommands) /\ running = [k \in {1} |-> running[1]]
  BY <1>1 DEF SInv, TypeOK
<1>3. ASSUME running[1] = << >> PROVE dirty \subseteq tainted
  <2>1. PICK D : Covering(<< >>, dirty, tainted, D)
    BY <1>3 DEF SInv, Covered
  <2>2. Len(<< >>) = 0
    BY EmptySeq
  <2> QED
    BY <2>1, <2>2 DEF Covering
<1> QED
  BY <1>1, <1>2, <1>3

(* What covers a command covers it up to more tainted files too.           *)
LEMMA CoveredMore ==
  ASSUME NEW rest, NEW from, NEW to, NEW more, Covered(rest, from, to), to \subseteq more
  PROVE  Covered(rest, from, more)
BY DEF Covered, Covering

(* A call is checked, and run or refused.                                  *)
LEMMA CheckStep ==
  ASSUME SInv, Shells = 1, NEW c \in Commands, Check(c)
  PROVE  SInv'
<1> DEFINE t == Propagate(c, tainted \union Sources(c))
           d == Sink(c, tainted, holds).decision
<1>1. /\ tainted' = t /\ calls' = calls + 1 /\ calls < MaxCalls
      /\ holds' \in BOOLEAN /\ UNCHANGED <<dirty, leaked>>
  BY DEF Check, SInv, TypeOK, truth
<1>2. /\ running[1] = << >>
      /\ running' = running \/ (d # "block" /\ running' = [running EXCEPT ![1] = c])
  BY OneShell DEF Check, Host
<1>3. dirty \subseteq tainted /\ tainted \subseteq Paths
  BY <1>2, OneShell DEF SInv, TypeOK
<1>4. Covered(c, dirty, t) /\ tainted \subseteq t /\ t \subseteq Paths
  BY <1>3, CheckCovers
<1>5. c \in Seq(SimpleCommands)
  BY CommandTypes
<1> HIDE DEF t
<1>6. TypeOK'
  <2>1. calls' \in 0 .. MaxCalls
    BY <1>1, TaintAssumption DEF SInv, TypeOK
  <2>2. running' \in [1 .. Shells -> Seq(SimpleCommands)]
    BY <1>2, <1>5 DEF SInv, TypeOK
  <2> QED
    BY <1>1, <1>4, <2>1, <2>2 DEF SInv, TypeOK
<1>7. CASE running' = running
  <2>1. Covered(running[1], dirty, t)
    BY <1>4, CoveredMore DEF SInv
  <2>2. Covered(running'[1], dirty', tainted')
    BY <1>1, <1>7, <2>1
  <2>3. SendsClean(running[1])'
    BY <1>1, <1>7 DEF SInv, SendsClean
  <2> QED
    BY <1>1, <1>6, <2>2, <2>3 DEF SInv
<1>8. CASE d # "block" /\ running' = [running EXCEPT ![1] = c]
  <2>1. running'[1] = c
    BY <1>8, OneShell
  <2>2. Covered(running'[1], dirty', tainted')
    BY <1>1, <1>4, <2>1
  <2>3. "send" \in Ops(c) => Names(c) \intersect (dirty \union {Secret}) = {}
    BY <1>3, <1>8, SendChecked
  <2>4. SendsClean(running[1])'
    BY <1>1, <2>1, <2>3 DEF SendsClean
  <2> QED
    BY <1>1, <1>6, <2>2, <2>4 DEF SInv
<1> QED
  BY <1>2, <1>7, <1>8

(* What is left of a command names no more than the command did.           *)
LEMMA TailNames ==
  ASSUME NEW c \in Seq(SimpleCommands), c # << >>
  PROVE  /\ Ops(Tail(c)) \subseteq Ops(c) /\ Names(Tail(c)) \subseteq Names(c)
         /\ Tail(c) \in Seq(SimpleCommands) /\ Len(Tail(c)) = Len(c) - 1 /\ Len(c) \in Nat \ {0}
         /\ \A i \in 1 .. Len(c) - 1 : Tail(c)[i] = c[i + 1]
         /\ Head(c) = c[1] /\ Head(c) \in SimpleCommands
<1>1. /\ Tail(c) \in Seq(SimpleCommands) /\ Len(Tail(c)) = Len(c) - 1
      /\ \A i \in 1 .. Len(c) - 1 : Tail(c)[i] = c[i + 1]
      /\ Head(c) = c[1] /\ Head(c) \in SimpleCommands
  BY HeadTailProperties, ElementOfSeq
<1>2. Len(c) \in Nat \ {0} /\ DOMAIN c = 1 .. Len(c)
  BY EmptySeq, LenProperties
<1>3. DOMAIN Tail(c) = 1 .. Len(c) - 1
  BY <1>1, LenProperties
<1>4. \A i \in DOMAIN Tail(c) : i + 1 \in DOMAIN c /\ Tail(c)[i] = c[i + 1]
  BY <1>1, <1>2, <1>3
<1>5. Ops(Tail(c)) \subseteq Ops(c)
  BY <1>4 DEF Ops
<1>6. Names(Tail(c)) \subseteq Names(c)
  BY <1>4 DEF Names
<1> QED
  BY <1>1, <1>2, <1>5, <1>6

(* A shell runs its next simple command.                                   *)
LEMMA ExecuteStep ==
  ASSUME SInv, Shells = 1, Execute(1)
  PROVE  SInv'
<1> DEFINE r == running[1]
           x == Head(r)
           n == Len(r)
           secret == x.op \in {"cp", "cat>", "cat", "send"} /\ x.src \in dirty \union {Secret}
<1>1. /\ r # << >>
      /\ dirty' = (IF x.op \notin {"cp", "cat>"} THEN dirty
                   ELSE IF Carries(x) THEN dirty \union {x.dst} ELSE dirty \ {x.dst})
      /\ leaked' = (leaked \/ (x.op = "send" /\ secret))
      /\ running' = [running EXCEPT ![1] = Tail(r)]
      /\ UNCHANGED session
  BY DEF Execute
<1>2. r \in Seq(SimpleCommands) /\ running \in [{1} -> Seq(SimpleCommands)]
  BY OneShell DEF SInv, TypeOK
<1>3. running'[1] = Tail(r) /\ running' \in [1 .. Shells -> Seq(SimpleCommands)]
  <2>1. Tail(r) \in Seq(SimpleCommands)
    BY <1>1, <1>2, TailNames
  <2> QED
    BY <1>1, <1>2, <2>1 DEF SInv, TypeOK
<1>4. x = r[1] /\ x \in SimpleCommands /\ n \in Nat \ {0}
  BY <1>1, <1>2, TailNames
<1>5. dirty' \subseteq Spread(x, dirty) /\ Spread(x, dirty) \subseteq Paths
  BY <1>1, <1>4, SimpleCommandFields DEF Spread, Carries, SInv, TypeOK
<1>6. TypeOK'
  BY <1>1, <1>3, <1>5 DEF SInv, TypeOK, session
<1>7. Covered(Tail(r), dirty', tainted)
  <2>1. PICK D : Covering(r, dirty, tainted, D)
    BY DEF SInv, Covered
  <2> DEFINE E == [i \in 0 .. n - 1 |-> D[i + 1]]
  <2>2. Len(Tail(r)) = n - 1 /\ \A i \in 1 .. n - 1 : Tail(r)[i] = r[i + 1]
    BY <1>1, <1>2, TailNames
  <2>3. D \in [0 .. n -> SUBSET Paths]
    BY <2>1 DEF Covering
  <2>4. E \in [0 .. n - 1 -> SUBSET Paths] /\ E[0] = D[1] /\ E[n - 1] = D[n]
    BY <1>4, <2>3
  <2>5. Spread(x, D[0]) \subseteq D[1]
    BY <1>4, <2>1 DEF Covering
  <2>6. Spread(x, dirty) \subseteq Spread(x, D[0])
    BY <2>1 DEF Covering, Spread
  <2>7. \A i \in 1 .. n - 1 : Spread(Tail(r)[i], E[i - 1]) \subseteq E[i]
    <3> SUFFICES ASSUME NEW i \in 1 .. n - 1
                 PROVE  Spread(Tail(r)[i], E[i - 1]) \subseteq E[i]
      OBVIOUS
    <3>1. i + 1 \in 1 .. n /\ (i + 1) - 1 = i /\ i - 1 \in 0 .. n - 1 /\ i \in 0 .. n - 1
      BY <1>4
    <3>2. E[i - 1] = D[i] /\ E[i] = D[i + 1]
      BY <3>1
    <3>3. Spread(r[i + 1], D[i]) \subseteq D[i + 1]
      BY <2>1, <3>1 DEF Covering
    <3> QED
      BY <2>2, <3>2, <3>3
  <2> HIDE DEF E
  <2>8. dirty' \subseteq E[0] /\ E[n - 1] \subseteq tainted
    BY <1>5, <2>1, <2>4, <2>5, <2>6 DEF Covering
  <2>9. Covering(Tail(r), dirty', tainted, E)
    BY <2>2, <2>4, <2>7, <2>8 DEF Covering
  <2> QED
    BY <2>9 DEF Covered
<1>8. "send" \in Ops(r) => Names(r) \intersect (dirty \union {Secret}) = {} /\ ~secret
  <2>1. x.op \in {"cp", "cat>", "cat", "send"} => x.src \in Names(r)
    BY <1>2, <1>4, NamesAt
  <2> QED
    BY <2>1 DEF SInv, SendsClean
<1>9. "send" \in Ops(Tail(r)) => Names(Tail(r)) \intersect (dirty' \union {Secret}) = {}
  <2>1. Ops(Tail(r)) \subseteq Ops(r) /\ Names(Tail(r)) \subseteq Names(r)
    BY <1>1, <1>2, TailNames
  <2>2. ~secret => dirty' \subseteq dirty
    BY <1>1 DEF Carries
  <2> QED
    BY <1>8, <2>1, <2>2
<1>10. ~leaked'
  <2>1. x.op = "send" => "send" \in Ops(r)
    BY <1>2, <1>4, NamesAt
  <2> QED
    BY <1>1, <1>8, <2>1 DEF SInv
<1>11. SendsClean(running[1])'
  <2>1. (running[1])' = Tail(r)
    BY <1>3
  <2> QED
    BY <1>9, <2>1 DEF SendsClean
<1>12. Covered(running'[1], dirty', tainted')
  BY <1>1, <1>3, <1>7 DEF session
<1> QED
  BY <1>6, <1>10, <1>11, <1>12 DEF SInv

(* A new task starts from nothing: no file of the old one is its business. *)
LEMMA ResetStep ==
  ASSUME SInv, Shells = 1, Reset
  PROVE  SInv'
<1>1. /\ tainted' = {} /\ holds' = FALSE /\ calls' = 0 /\ dirty' = {}
      /\ UNCHANGED <<running, leaked>> /\ running[1] = << >>
  BY OneShell DEF Reset, Idle
<1>2. TypeOK'
  <2>1. 0 \in 0 .. MaxCalls
    BY TaintAssumption
  <2>2. running' \in [1 .. Shells -> Seq(SimpleCommands)] /\ leaked' \in BOOLEAN
    BY <1>1 DEF SInv, TypeOK
  <2> QED
    BY <1>1, <2>1, <2>2 DEF TypeOK
<1>3. Covered(<< >>, {}, {})
  <2>1. Covering(<< >>, {}, {}, [i \in {0} |-> {}])
    BY EmptySeq DEF Covering
  <2> QED
    BY <2>1 DEF Covered
<1>4. Covered(running'[1], dirty', tainted')
  BY <1>1, <1>3
<1>5. SendsClean(running[1])'
  BY <1>1 DEF SendsClean, Ops
<1> QED
  BY <1>1, <1>2, <1>4, <1>5 DEF SInv

LEMMA SessionStarts ==
  ASSUME Init, Shells = 1
  PROVE  SInv
<1>1. running = [k \in {1} |-> << >>] /\ dirty = {} /\ tainted = {} /\ ~leaked
  BY DEF Init
<1>2. TypeOK
  <2>1. 0 \in 0 .. MaxCalls
    BY TaintAssumption
  <2>2. << >> \in Seq(SimpleCommands)
    BY EmptySeq
  <2>3. running \in [1 .. Shells -> Seq(SimpleCommands)]
    BY <2>2 DEF Init
  <2> QED
    BY <1>1, <2>1, <2>3 DEF Init, TypeOK
<1>3. Covering(<< >>, {}, {}, [i \in {0} |-> {}])
  BY EmptySeq DEF Covering
<1>4. Covered(running[1], dirty, tainted)
  BY <1>1, <1>3 DEF Covered
<1>5. SendsClean(running[1])
  BY <1>1 DEF SendsClean, Ops
<1> QED
  BY <1>1, <1>2, <1>4, <1>5 DEF SInv

(* The inductive invariant of a session: from what is dirty now, what each *)
(* shell has left to run leads to nothing but tainted files, and a command *)
(* under way that sends names nothing dirty and no secret.                 *)
THEOREM SessionInvariant ==
  ASSUME Shells = 1
  PROVE  Spec => []SInv
<1>1. Init => SInv
  BY SessionStarts
<1>2. SInv /\ [Next]_vars => SInv'
  <2> SUFFICES ASSUME SInv, [Next]_vars PROVE SInv'
    OBVIOUS
  <2>1. ASSUME NEW c \in Commands, Check(c) PROVE SInv'
    BY <2>1, CheckStep
  <2>2. ASSUME NEW k \in 1 .. Shells, Execute(k) PROVE SInv'
    BY <2>2, k = 1, ExecuteStep
  <2>3. CASE Reset
    BY <2>3, ResetStep
  <2>4. CASE UNCHANGED vars
    BY <2>4 DEF vars, SInv, TypeOK, SendsClean
  <2> QED
    BY <2>1, <2>2, <2>3, <2>4 DEF Next
<1> QED
  BY <1>1, <1>2, PTL DEF Spec

(* Whatever the commands of a session are, in one call or over many,       *)
(* approved or refused: when nothing runs, every file the secret was       *)
(* written to, or a chain of cp, mv and install has carried it to, is one  *)
(* the session knows (taint.mjs).                                          *)
THEOREM TaintCovers ==
  ASSUME Shells = 1
  PROVE  Spec => []TaintCoversDirty
<1>1. SInv => TaintCoversDirty
  BY OneShell DEF TaintCoversDirty, Idle
<1> QED
  BY <1>1, SessionInvariant, PTL

(* No command that passes the session ever sends out the secret, a file it *)
(* was written to, or one that such a chain of copies has carried it to.   *)
THEOREM SessionLeaksNothing ==
  ASSUME Shells = 1
  PROVE  Spec => []NothingLeaks
<1>1. SInv => NothingLeaks
  BY DEF SInv, NothingLeaks
<1> QED
  BY <1>1, SessionInvariant, PTL
-----------------------------------------------------------------------------
VInv == e \in Evidence /\ leaves \subseteq Tiers

(* Tiers are ordered, and the worst of some is one of them.                *)
LEMMA TiersOrdered ==
  /\ \A t \in Tiers : ORDER[t] \in 0 .. 3
  /\ \A t \in Tiers : t = "green" <=> ORDER[t] = 0
  /\ \A t \in Tiers : t = "yellow" <=> ORDER[t] = 1
  /\ \A t \in Tiers : t = "red" <=> ORDER[t] = 2
  /\ \A t \in Tiers : t = "black" <=> ORDER[t] = 3
BY DEF Tiers, ORDER

LEMMA WorstOfIsMax ==
  ASSUME NEW S \in SUBSET Tiers, S # {}
  PROVE  WorstOf(S) \in S /\ \A u \in S : ORDER[u] <= ORDER[WorstOf(S)]
<1>1. \E t \in S : \A u \in S : ORDER[u] <= ORDER[t]
  <2>1. CASE "black" \in S
    BY <2>1, TiersOrdered
  <2>2. CASE "black" \notin S /\ "red" \in S
    BY <2>2, TiersOrdered
  <2>3. CASE S \subseteq {"green", "yellow"} /\ "yellow" \in S
    BY <2>3, TiersOrdered
  <2>4. CASE S = {"green"}
    BY <2>4, TiersOrdered
  <2> QED
    BY <2>1, <2>2, <2>3, <2>4 DEF Tiers
<1> QED
  BY <1>1 DEF WorstOf

(* The tier and the decision of decide().                                  *)
LEMMA PlainVerdict ==
  ASSUME NEW x \in Evidence
  PROVE  LET v == decide(x) IN
         /\ v = [tier |-> v.tier, decision |-> v.decision, gray |-> v.gray]
         /\ v.tier \in Tiers /\ v.decision \in Decisions /\ v.gray \in BOOLEAN
         /\ v.tier = "black" <=> BlackEvidence(x)
         /\ ~BlackEvidence(x) /\ RedEvidence(x) => v.tier = "red"
         /\ ~BlackEvidence(x) /\ ~RedEvidence(x) => v.tier = x.base
         /\ v.decision = IF x.denied \/ v.tier = "black" THEN "block"
                         ELSE IF v.tier = "red" /\ ~x.allowed THEN "approve" ELSE "allow"
         /\ v.gray <=> v.decision = "approve" \/ v.tier = "yellow" \/ Smells(x)
<1>1. x.base \in Tiers
  BY DEF Evidence
<1>2. /\ TierOf(x) \in Tiers
      /\ TierOf(x) = "black" <=> BlackEvidence(x)
      /\ ~BlackEvidence(x) /\ RedEvidence(x) => TierOf(x) = "red"
      /\ ~BlackEvidence(x) /\ ~RedEvidence(x) => TierOf(x) = x.base
  <2>1. x.base = "black" => BlackEvidence(x)
    BY DEF BlackEvidence
  <2>2. x.base # "black" => worst(x.base, "red") = "red"
    BY <1>1 DEF worst, ORDER, Tiers
  <2> QED
    BY <1>1, <2>1, <2>2 DEF TierOf, Tiers
<1>3. /\ DecisionOf(x) \in Decisions
      /\ DecisionOf(x) = IF x.denied \/ TierOf(x) = "black" THEN "block"
                         ELSE IF TierOf(x) = "red" /\ ~x.allowed THEN "approve" ELSE "allow"
  BY DEF DecisionOf, Decisions
<1>4. Smells(x) \in BOOLEAN
  BY DEF Smells
<1> QED
  BY <1>2, <1>3, <1>4 DEF decide

(* The tier and the decision of an MCP call: the worst of its action's     *)
(* tier and its leaves', held where that is red, unless the action was red *)
(* itself and a rule allows it.                                            *)
LEMMA McpVerdict ==
  ASSUME NEW x \in Evidence, NEW L \in SUBSET Tiers
  PROVE  LET v == decide(x)
             w == LeafScan(v, x.class, L)
         IN /\ w.tier \in Tiers /\ ORDER[v.tier] <= ORDER[w.tier]
            /\ x.class = "write" => w = v
            /\ x.class # "write" => /\ w.tier \in L \union {v.tier}
                                    /\ \A u \in L : ORDER[u] <= ORDER[w.tier]
            /\ w.decision = IF x.denied \/ w.tier = "black" THEN "block"
                            ELSE IF w.tier = "red" /\ ~(x.allowed /\ v.tier = "red")
                              THEN "approve" ELSE "allow"
            /\ v.gray => w.gray
            /\ (w.decision = "approve" \/ w.tier = "yellow") /\ x.class # "write" => w.gray
            /\ w = [tier |-> w.tier, decision |-> w.decision, gray |-> w.gray] /\ w.gray \in BOOLEAN
<1> DEFINE v == decide(x)
           w == LeafScan(v, x.class, L)
           t == WorstOf(L \union {v.tier})
           d == IF t = v.tier THEN v.decision ELSE RaiseDecision(v.decision, t)
<1>1. /\ v = [tier |-> v.tier, decision |-> v.decision, gray |-> v.gray]
      /\ v.tier \in Tiers /\ v.decision \in Decisions /\ v.gray \in BOOLEAN
      /\ v.decision = IF x.denied \/ v.tier = "black" THEN "block"
                      ELSE IF v.tier = "red" /\ ~x.allowed THEN "approve" ELSE "allow"
      /\ v.gray <=> v.decision = "approve" \/ v.tier = "yellow" \/ Smells(x)
  BY PlainVerdict
<1> HIDE DEF v
<1>2. t \in L \union {v.tier} /\ t \in Tiers /\ \A u \in L \union {v.tier} : ORDER[u] <= ORDER[t]
  <2> DEFINE S == L \union {v.tier}
  <2>1. S \in SUBSET Tiers /\ S # {}
    BY <1>1
  <2> HIDE DEF S
  <2>2. WorstOf(S) \in S /\ \A u \in S : ORDER[u] <= ORDER[WorstOf(S)]
    BY <2>1, WorstOfIsMax
  <2> QED
    BY <2>1, <2>2 DEF S
<1> HIDE DEF t
<1>3. d = IF x.denied \/ t = "black" THEN "block"
          ELSE IF t = "red" /\ ~(x.allowed /\ v.tier = "red") THEN "approve" ELSE "allow"
  <2>1. ORDER[v.tier] <= ORDER[t]
    BY <1>2
  <2> QED
    BY <1>1, <1>2, <2>1, TiersOrdered DEF RaiseDecision, Tiers
<1>4. CASE x.class = "write"
  <2>1. w = v
    BY <1>4 DEF LeafScan
  <2> HIDE DEF w
  <2>2. ORDER[v.tier] <= ORDER[v.tier]
    BY <1>1, TiersOrdered
  <2> QED
    BY <1>1, <1>4, <2>1, <2>2 DEF v, w
<1>5. CASE x.class # "write"
  <2>1. w = [tier |-> t, decision |-> d, gray |-> v.gray \/ d = "approve" \/ t = "yellow"]
    BY <1>5 DEF LeafScan, t
  <2> HIDE DEF w, d
  <2>2. w.tier = t /\ w.decision = d /\ (w.gray <=> v.gray \/ d = "approve" \/ t = "yellow")
        /\ w.gray \in BOOLEAN /\ w = [tier |-> w.tier, decision |-> w.decision, gray |-> w.gray]
    BY <1>1, <2>1
  <2> QED
    BY <1>2, <1>3, <1>5, <2>2 DEF v, w
<1> QED
  BY <1>4, <1>5

LEMMA EvidenceTypes == EvidenceSpec => []VInv
<1>1. EvidenceInit => VInv
  BY DEF EvidenceInit, VInv, Evidence, Tiers
<1>2. VInv /\ [EvidenceNext]_<<e, leaves>> => VInv'
  <2> SUFFICES ASSUME VInv, [EvidenceNext]_<<e, leaves>> PROVE VInv'
    OBVIOUS
  <2>1. CASE WorseBase /\ UNCHANGED leaves
    BY <2>1 DEF WorseBase, VInv, Evidence
  <2>2. CASE WorseSsrf /\ UNCHANGED leaves
    BY <2>2 DEF WorseSsrf, VInv, Evidence
  <2>3. CASE Found /\ UNCHANGED leaves
    <3>1. PICK f \in {"secret", "external", "skill", "inj", "persist", "outside", "egress", "smell"} :
            e' = [e EXCEPT ![f] = TRUE]
      BY <2>3 DEF Found
    <3> QED
      BY <2>3, <3>1 DEF VInv, Evidence
  <2>4. CASE WorseLeaf /\ UNCHANGED e
    BY <2>4 DEF WorseLeaf, VInv, Tiers
  <2>5. CASE UNCHANGED <<e, leaves>>
    BY <2>5 DEF VInv
  <2> QED
    BY <2>1, <2>2, <2>3, <2>4, <2>5 DEF EvidenceNext
<1> QED
  BY <1>1, <1>2, PTL DEF EvidenceSpec

(* index.mjs:149-153, mcp.mjs:81-91: whatever the evidence, an allow rule  *)
(* clears neither a deny rule nor a black finding nor a leaf worse than    *)
(* what it was matched on, and nothing but those two blocks.               *)
THEOREM AllowClearsNoMore == EvidenceSpec => []AllowRuleClearsNoMore
<1>1. VInv => AllowRuleClearsNoMore
  <2> SUFFICES ASSUME VInv PROVE AllowRuleClearsNoMore
    OBVIOUS
  <2>1. /\ Mcp.tier \in Tiers
        /\ Mcp.decision = IF e.denied \/ Mcp.tier = "black" THEN "block"
                          ELSE IF Mcp.tier = "red" /\ ~(e.allowed /\ Plain.tier = "red")
                            THEN "approve" ELSE "allow"
    BY McpVerdict DEF VInv, Mcp, Plain
  <2> QED
    BY <2>1 DEF AllowRuleClearsNoMore, ClearsNoMore
<1> QED
  BY <1>1, EvidenceTypes, PTL

(* What a judge or a cross-call finding does to a verdict whose black      *)
(* tier blocks.                                                            *)
IsVerdict(v) ==
  /\ v = [tier |-> v.tier, decision |-> v.decision, gray |-> v.gray]
  /\ v.tier \in Tiers /\ v.decision \in Decisions /\ v.gray \in BOOLEAN
  /\ v.tier = "black" => v.decision = "block"
LEMMA RaisedVerdict ==
  ASSUME NEW v, IsVerdict(v), NEW t \in Tiers
  PROVE  /\ IsVerdict(Escalate(v, t))
         /\ ORDER[v.tier] <= ORDER[Escalate(v, t).tier]
         /\ RANK[v.decision] <= RANK[Escalate(v, t).decision]
<1>1. DOMAIN v = {"tier", "decision", "gray"}
  BY DEF IsVerdict
<1> DEFINE w == worst(v.tier, t)
           d == CASE w = "black" -> "block"
                  [] w = "red" -> IF v.decision = "block" THEN "block" ELSE "approve"
                  [] OTHER -> v.decision
<1>2. Escalate(v, t) = [tier |-> w, decision |-> d, gray |-> v.gray]
  <2>1. Escalate(v, t) = [v EXCEPT !.tier = w, !.decision = d]
    BY DEF Escalate
  <2> HIDE DEF w, d
  <2> QED
    BY <1>1, <2>1 DEF IsVerdict
<1>3. w \in Tiers /\ ORDER[v.tier] <= ORDER[w]
  BY DEF IsVerdict, worst, Tiers, ORDER
<1>4. d \in Decisions /\ (w = "black" => d = "block") /\ RANK[v.decision] <= RANK[d]
  BY <1>3 DEF IsVerdict, Tiers, Decisions, RANK
<1> HIDE DEF w, d
<1> QED
  BY <1>2, <1>3, <1>4 DEF IsVerdict

LEMMA JudgedVerdict ==
  ASSUME NEW v, IsVerdict(v), NEW j \in JudgeAnswers
  PROVE  /\ IsVerdict(ApplyJudge(v, j))
         /\ ORDER[v.tier] <= ORDER[ApplyJudge(v, j).tier]
         /\ RANK[v.decision] <= RANK[ApplyJudge(v, j).decision]
         /\ j = "black" /\ Consults(v) => ApplyJudge(v, j).decision = "block"
<1>1. DOMAIN v = {"tier", "decision", "gray"} /\ v.tier \in Tiers /\ v.decision \in Decisions
  BY DEF IsVerdict
<1>2. CASE ApplyJudge(v, j) = v
  <2>1. ORDER[v.tier] <= ORDER[v.tier] /\ RANK[v.decision] <= RANK[v.decision]
    BY <1>1, TiersOrdered DEF Decisions, RANK
  <2>2. j = "black" /\ Consults(v) => v.decision = "block"
    <3>1. ASSUME j = "black", Consults(v) PROVE v.tier = "black"
      <4>1. v.decision # "block"
        BY <3>1 DEF Consults
      <4>2. v.tier # "black"
        BY <4>1 DEF IsVerdict
      <4>3. ORDER[j] = 3 /\ ORDER[v.tier] \in 0 .. 2
        BY <1>1, <3>1, <4>2 DEF ORDER, Tiers
      <4>4. ApplyJudge(v, j) = [v EXCEPT !.tier = j, !.decision = RaiseDecision(@, j)]
        BY <3>1, <4>3 DEF ApplyJudge
      <4>5. ApplyJudge(v, j).tier = j
        BY <1>1, <4>4
      <4> QED
        BY <1>2, <3>1, <4>5
    <3> QED
      BY <3>1 DEF IsVerdict
  <2> QED
    BY <1>2, <2>1, <2>2
<1>3. CASE ApplyJudge(v, j) # v
  <2>1. /\ Consults(v) /\ j \in Tiers /\ ORDER[v.tier] < ORDER[j]
        /\ ApplyJudge(v, j) = [v EXCEPT !.tier = j, !.decision = RaiseDecision(@, j)]
    <3>1. Consults(v) /\ j # "none" /\ ~(ORDER[j] <= ORDER[v.tier])
      BY <1>3 DEF ApplyJudge
    <3>2. j \in Tiers
      BY <3>1 DEF JudgeAnswers
    <3> QED
      BY <1>1, <3>1, <3>2, TiersOrdered DEF ApplyJudge
  <2>2. ApplyJudge(v, j) = [tier |-> j, decision |-> RaiseDecision(v.decision, j), gray |-> v.gray]
    BY <1>1, <2>1 DEF IsVerdict
  <2>3. /\ RaiseDecision(v.decision, j) \in Decisions
        /\ j = "black" => RaiseDecision(v.decision, j) = "block"
        /\ RANK[v.decision] <= RANK[RaiseDecision(v.decision, j)]
    BY <1>1 DEF RaiseDecision, Decisions, RANK
  <2> DEFINE d == RaiseDecision(v.decision, j)
             w == ApplyJudge(v, j)
  <2>4. w = [tier |-> j, decision |-> d, gray |-> v.gray]
    BY <2>2
  <2> HIDE DEF d, w
  <2>5. w.tier = j /\ w.decision = d /\ w.gray = v.gray
    BY <2>4
  <2>6. w.gray \in BOOLEAN
    BY <2>5 DEF IsVerdict
  <2>7. d \in Decisions /\ (j = "black" => d = "block") /\ RANK[v.decision] <= RANK[d]
    BY <2>3 DEF d
  <2>8. w = [tier |-> w.tier, decision |-> w.decision, gray |-> w.gray]
    BY <2>4, <2>5
  <2>9. IsVerdict(w)
    BY <2>1, <2>5, <2>6, <2>7, <2>8 DEF IsVerdict
  <2>10. ORDER[v.tier] <= ORDER[j]
    BY <1>1, <2>1, TiersOrdered
  <2> QED
    BY <2>5, <2>7, <2>9, <2>10 DEF w
<1> QED
  BY <1>2, <1>3

(* judge.mjs, index.mjs:227-243, taint.mjs: the judge gets to see what     *)
(* needs it, and neither it nor a cross-call finding makes a verdict       *)
(* milder, whatever the evidence.                                          *)
THEOREM JudgeRaises == EvidenceSpec => []JudgeOnlyRaises
<1>1. VInv => IsVerdict(Plain) /\ IsVerdict(Mcp)
  <2> SUFFICES ASSUME VInv PROVE IsVerdict(Plain) /\ IsVerdict(Mcp)
    OBVIOUS
  <2>1. IsVerdict(Plain)
    BY PlainVerdict DEF VInv, Plain, IsVerdict
  <2>2. IsVerdict(Mcp)
    <3>1. /\ Mcp.tier \in Tiers /\ Mcp.gray \in BOOLEAN
          /\ Mcp.decision = IF e.denied \/ Mcp.tier = "black" THEN "block"
                            ELSE IF Mcp.tier = "red" /\ ~(e.allowed /\ Plain.tier = "red")
                              THEN "approve" ELSE "allow"
          /\ Mcp = [tier |-> Mcp.tier, decision |-> Mcp.decision, gray |-> Mcp.gray]
      BY McpVerdict DEF VInv, Mcp, Plain
    <3> QED
      BY <3>1 DEF IsVerdict, Decisions
  <2> QED
    BY <2>1, <2>2
<1>2. VInv => LaterTiersOnlyRaise
  <2> SUFFICES ASSUME VInv, NEW v \in {Plain, Mcp}, NEW j \in JudgeAnswers, NEW w, w = ApplyJudge(v, j)
               PROVE  /\ ORDER[v.tier] <= ORDER[w.tier] /\ RANK[v.decision] <= RANK[w.decision]
                      /\ j = "black" /\ Consults(v) => w.decision = "block"
                      /\ \A t \in Tiers : /\ ORDER[w.tier] <= ORDER[Escalate(w, t).tier]
                                          /\ RANK[w.decision] <= RANK[Escalate(w, t).decision]
    BY DEF LaterTiersOnlyRaise, NoMilder
  <2>1. IsVerdict(v)
    BY <1>1
  <2> QED
    BY <2>1, JudgedVerdict, RaisedVerdict
<1>3. VInv => JudgeIsAsked(Plain, Mcp)
  <2> SUFFICES ASSUME VInv PROVE JudgeIsAsked(Plain, Mcp)
    OBVIOUS
  <2>1. (Mcp.decision = "approve" \/ Mcp.tier = "yellow") /\ e.class # "write" => Mcp.gray
    BY McpVerdict DEF VInv, Mcp, Plain
  <2>2. /\ Plain.tier = "black" => Plain.decision = "block"
        /\ Smells(e) => Plain.gray
    BY PlainVerdict DEF VInv, Plain
  <2>3. Plain.tier = TierOf(e)
    BY DEF Plain, decide
  <2> QED
    BY <2>1, <2>2, <2>3 DEF JudgeIsAsked, Smells
<1>4. VInv => JudgeOnlyRaises
  BY <1>2, <1>3 DEF JudgeOnlyRaises
<1> QED
  BY <1>4, EvidenceTypes, PTL

(* y is the same action as x, under the same policy, with no less found.   *)
NoLess(x, y) ==
  /\ x.class = y.class /\ x.listed = y.listed /\ x.cmd = y.cmd
  /\ x.denied = y.denied /\ x.allowed = y.allowed
  /\ ORDER[x.base] <= ORDER[y.base]
  /\ x.secret => y.secret
  /\ x.external => y.external
  /\ x.skill => y.skill
  /\ x.inj => y.inj
  /\ x.persist => y.persist
  /\ x.outside => y.outside
  /\ x.egress => y.egress
  /\ x.ssrf = "linklocal" => y.ssrf = "linklocal"
  /\ x.ssrf = "private" => y.ssrf \in {"private", "linklocal"}

(* No finding masks a worse one in decide().                               *)
LEMMA NoLessTier ==
  ASSUME NEW x \in Evidence, NEW y \in Evidence, NoLess(x, y)
  PROVE  /\ ORDER[decide(x).tier] <= ORDER[decide(y).tier]
         /\ RANK[decide(x).decision] <= RANK[decide(y).decision]
<1>1. x.base \in Tiers /\ y.base \in Tiers
  BY DEF Evidence
<1>2. BlackEvidence(x) => BlackEvidence(y)
  <2>1. x.base = "black" => y.base = "black"
    BY <1>1, TiersOrdered DEF NoLess
  <2> QED
    BY <2>1 DEF BlackEvidence, NoLess, Active
<1>3. RedEvidence(x) => RedEvidence(y) \/ BlackEvidence(y)
  BY DEF RedEvidence, BlackEvidence, NoLess, Active
<1> DEFINE v == decide(x)
           w == decide(y)
<1>4. /\ v.tier \in Tiers
      /\ v.tier = "black" <=> BlackEvidence(x)
      /\ ~BlackEvidence(x) /\ RedEvidence(x) => v.tier = "red"
      /\ ~BlackEvidence(x) /\ ~RedEvidence(x) => v.tier = x.base
      /\ v.decision = IF x.denied \/ v.tier = "black" THEN "block"
                      ELSE IF v.tier = "red" /\ ~x.allowed THEN "approve" ELSE "allow"
  BY PlainVerdict
<1>5. /\ w.tier \in Tiers
      /\ w.tier = "black" <=> BlackEvidence(y)
      /\ ~BlackEvidence(y) /\ RedEvidence(y) => w.tier = "red"
      /\ ~BlackEvidence(y) /\ ~RedEvidence(y) => w.tier = y.base
      /\ w.decision = IF y.denied \/ w.tier = "black" THEN "block"
                      ELSE IF w.tier = "red" /\ ~y.allowed THEN "approve" ELSE "allow"
  BY PlainVerdict
<1> HIDE DEF v, w
<1>6. ORDER[v.tier] <= ORDER[w.tier]
  <2>1. CASE BlackEvidence(y)
    BY <1>4, <1>5, <2>1, TiersOrdered
  <2>2. CASE ~BlackEvidence(y) /\ RedEvidence(x)
    BY <1>2, <1>3, <1>4, <1>5, <2>2, TiersOrdered
  <2>3. CASE ~BlackEvidence(y) /\ ~RedEvidence(x)
    <3>1. v.tier = x.base /\ y.base # "black" /\ ORDER[x.base] <= ORDER[y.base]
      BY <1>2, <1>4, <2>3 DEF BlackEvidence, NoLess
    <3>2. w.tier \in {"red", y.base}
      BY <1>5, <2>3
    <3>3. ORDER[x.base] \in 0 .. 3 /\ ORDER[y.base] \in 0 .. 3 /\ ORDER[y.base] # 3 /\ ORDER["red"] = 2
      BY <1>1, <3>1, TiersOrdered DEF ORDER
    <3>4. ORDER[x.base] <= 2
      BY <3>1, <3>3
    <3>5. CASE w.tier = "red"
      BY <3>1, <3>3, <3>4, <3>5
    <3>6. CASE w.tier = y.base
      BY <3>1, <3>6
    <3> QED
      BY <3>2, <3>5, <3>6
  <2> QED
    BY <2>1, <2>2, <2>3
<1>7. RANK[v.decision] <= RANK[w.decision]
  <2>1. x.denied = y.denied /\ x.allowed = y.allowed
    BY DEF NoLess
  <2>2. /\ v.tier = "black" => w.tier = "black"
        /\ v.tier = "red" => w.tier \in {"red", "black"}
    BY <1>4, <1>5, <1>6, TiersOrdered
  <2> QED
    BY <1>4, <1>5, <2>1, <2>2 DEF RANK
<1> QED
  BY <1>6, <1>7 DEF v, w

(* What one step finds is no less than what was known.                     *)
LEMMA StepFinds ==
  ASSUME VInv, [EvidenceNext]_<<e, leaves>>
  PROVE  /\ NoLess(e, e')
         /\ \A u \in leaves : \E t \in leaves' : ORDER[u] <= ORDER[t]
<1>1. /\ e \in Evidence /\ e.base \in Tiers /\ e.ssrf \in {"none", "private", "linklocal"}
      /\ \A u \in leaves : u \in Tiers
      /\ DOMAIN e = {"class", "base", "secret", "external", "skill", "inj", "ssrf", "persist",
                     "listed", "cmd", "egress", "outside", "smell", "denied", "allowed"}
  BY DEF VInv, Evidence
<1>2. \A t \in Tiers : ORDER[t] <= ORDER[t]
  BY TiersOrdered
<1>3. NoLess(e, e)
  BY <1>1, <1>2 DEF NoLess
<1>4. CASE WorseBase /\ UNCHANGED leaves
  <2>1. PICK t \in Tiers : ORDER[t] > ORDER[e.base] /\ e' = [e EXCEPT !.base = t]
    BY <1>4 DEF WorseBase
  <2>2. ORDER[e.base] <= ORDER[t]
    BY <1>1, <2>1, TiersOrdered
  <2>3. NoLess(e, e')
    BY <1>1, <2>1, <2>2 DEF NoLess
  <2> QED
    BY <1>1, <1>2, <1>4, <2>3
<1>5. CASE WorseSsrf /\ UNCHANGED leaves
  <2>1. \/ e.ssrf = "none" /\ e' = [e EXCEPT !.ssrf = "private"]
        \/ e' = [e EXCEPT !.ssrf = "linklocal"]
    BY <1>5 DEF WorseSsrf
  <2>2. NoLess(e, e')
    BY <1>1, <1>2, <2>1 DEF NoLess
  <2> QED
    BY <1>1, <1>2, <1>5, <2>2
<1>6. CASE Found /\ UNCHANGED leaves
  <2>1. NoLess(e, e')
    BY <1>1, <1>2, <1>6 DEF Found, NoLess
  <2> QED
    BY <1>1, <1>2, <1>6, <2>1
<1>7. CASE WorseLeaf /\ UNCHANGED e
  <2>1. PICK t \in Tiers : (\A u \in leaves : ORDER[u] < ORDER[t]) /\ leaves' = {t}
    BY <1>7 DEF WorseLeaf
  <2>2. \A u \in leaves : ORDER[u] <= ORDER[t]
    BY <1>1, <2>1, TiersOrdered
  <2> QED
    BY <1>3, <1>7, <2>1, <2>2
<1>8. CASE UNCHANGED <<e, leaves>>
  BY <1>1, <1>2, <1>3, <1>8
<1> QED
  BY <1>4, <1>5, <1>6, <1>7, <1>8 DEF EvidenceNext

(* index.mjs:101-160, mcp.mjs:65-95: whatever is found, in whatever order, *)
(* one finding more never makes a verdict milder.                          *)
THEOREM MoreEvidenceNeverHelps == EvidenceSpec => EvidenceNeverHelps
<1>1. VInv /\ VInv' /\ [EvidenceNext]_<<e, leaves>> =>
        NoMilder(Plain, Plain', TRUE) /\ NoMilder(Mcp, Mcp', ~e.allowed)
  <2> SUFFICES ASSUME VInv, VInv', [EvidenceNext]_<<e, leaves>>
               PROVE  /\ ORDER[Plain.tier] <= ORDER[Plain'.tier]
                      /\ RANK[Plain.decision] <= RANK[Plain'.decision]
                      /\ ORDER[Mcp.tier] <= ORDER[Mcp'.tier]
                      /\ ~e.allowed => RANK[Mcp.decision] <= RANK[Mcp'.decision]
    BY DEF NoMilder
  <2>1. /\ NoLess(e, e') /\ e \in Evidence /\ e' \in Evidence
        /\ leaves \in SUBSET Tiers /\ leaves' \in SUBSET Tiers
        /\ \A u \in leaves : \E t \in leaves' : ORDER[u] <= ORDER[t]
    BY StepFinds DEF VInv
  <2>2. /\ ORDER[Plain.tier] <= ORDER[Plain'.tier]
        /\ RANK[Plain.decision] <= RANK[Plain'.decision]
        /\ Plain.tier \in Tiers /\ Plain'.tier \in Tiers
    BY <2>1, NoLessTier, PlainVerdict DEF Plain
  <2>3. /\ Mcp.tier \in Tiers /\ ORDER[Plain.tier] <= ORDER[Mcp.tier]
        /\ e.class = "write" => Mcp = Plain
        /\ e.class # "write" => Mcp.tier \in leaves \union {Plain.tier}
        /\ Mcp.decision = IF e.denied \/ Mcp.tier = "black" THEN "block"
                          ELSE IF Mcp.tier = "red" /\ ~(e.allowed /\ Plain.tier = "red")
                            THEN "approve" ELSE "allow"
    BY <2>1, McpVerdict DEF Mcp, Plain
  <2>4. /\ Mcp'.tier \in Tiers /\ ORDER[Plain'.tier] <= ORDER[Mcp'.tier]
        /\ e'.class # "write" => \A u \in leaves' : ORDER[u] <= ORDER[Mcp'.tier]
        /\ Mcp'.decision = IF e'.denied \/ Mcp'.tier = "black" THEN "block"
                           ELSE IF Mcp'.tier = "red" /\ ~(e'.allowed /\ Plain'.tier = "red")
                             THEN "approve" ELSE "allow"
    BY <2>1, McpVerdict DEF Mcp, Plain
  <2>5. e'.class = e.class /\ e'.denied = e.denied /\ e'.allowed = e.allowed
    BY <2>1 DEF NoLess
  <2>6. ORDER[Mcp.tier] <= ORDER[Mcp'.tier]
    <3>1. CASE Mcp.tier = Plain.tier
      BY <2>2, <2>4, <3>1, TiersOrdered
    <3>2. CASE Mcp.tier \in leaves /\ e.class # "write"
      <4>1. PICK t \in leaves' : ORDER[Mcp.tier] <= ORDER[t]
        BY <2>1, <3>2
      <4>2. t \in Tiers /\ ORDER[t] <= ORDER[Mcp'.tier]
        BY <2>1, <2>4, <2>5, <3>2
      <4> QED
        BY <2>3, <2>4, <4>1, <4>2, TiersOrdered
    <3> QED
      BY <2>3, <3>1, <3>2
  <2>7. ~e.allowed => RANK[Mcp.decision] <= RANK[Mcp'.decision]
    <3>1. /\ Mcp.tier = "black" => Mcp'.tier = "black"
          /\ Mcp.tier = "red" => Mcp'.tier \in {"red", "black"}
      BY <2>3, <2>4, <2>6, TiersOrdered
    <3> QED
      BY <2>3, <2>4, <2>5, <3>1 DEF RANK
  <2> QED
    BY <2>2, <2>6, <2>7
<1> QED
  BY <1>1, EvidenceTypes, PTL DEF EvidenceSpec, EvidenceNeverHelps
-----------------------------------------------------------------------------
(* Globs.  Splitting is a loop over the text: a character c more, a part   *)
(* more.                                                                   *)
Pieces(C) == {p \in Seq(Seq(C)) : p # << >>}

OneMore(C, p, q, c, x) ==
  /\ q \in Pieces(C)
  /\ Len(p) \in Nat \ {0} /\ p \in Seq(Seq(C)) /\ p[Len(p)] \in Seq(C)
  /\ x = c => Len(q) = Len(p) + 1 /\ q[Len(p) + 1] = << >>
  /\ x # c => Len(q) = Len(p) /\ q[Len(p)] = Append(p[Len(p)], x)
  /\ \A i \in 1 .. Len(p) : i # Len(p) \/ x = c => q[i] = p[i]

LEMMA SplitTurnType ==
  ASSUME NEW C, NEW c, NEW p \in Pieces(C), NEW x \in C
  PROVE  OneMore(C, p, SplitTurn(p, c, x), c, x)
<1> DEFINE S == Seq(C)
           n == Len(p)
           q == SplitTurn(p, c, x)
<1>1. p \in Seq(S) /\ n \in Nat \ {0} /\ << >> \in S
  BY EmptySeq DEF Pieces
<1>2. n \in 1 .. n
  BY <1>1
<1>3. p[n] \in S
  BY <1>1, <1>2, ElementOfSeq
<1>4. Append(p[n], x) \in S
  BY <1>3, AppendProperties
<1>5. CASE x = c
  <2>1. q = Append(p, << >>)
    BY <1>5 DEF SplitTurn
  <2> HIDE DEF S, q
  <2>2. q \in Seq(S) /\ Len(q) = n + 1 /\ q[n + 1] = << >> /\ \A i \in 1 .. n : q[i] = p[i]
    BY <1>1, <2>1, AppendProperties
  <2>3. q # << >>
    BY <1>1, <2>2, EmptySeq
  <2> QED
    BY <1>1, <1>3, <1>5, <2>2, <2>3 DEF S, q, Pieces, OneMore
<1>6. CASE x # c
  <2> DEFINE y == Append(p[n], x)
  <2>1. q = [p EXCEPT ![n] = y] /\ y \in S
    BY <1>4, <1>6 DEF SplitTurn
  <2> HIDE DEF S, q, y
  <2>2. q \in Seq(S) /\ Len(q) = n /\ \A i \in 1 .. n : q[i] = IF i = n THEN y ELSE p[i]
    BY <1>1, <1>2, <2>1, ExceptSeq
  <2>3. q # << >>
    BY <1>1, <2>2, EmptySeq
  <2>4. q[n] = y /\ \A i \in 1 .. n : i # n => q[i] = p[i]
    BY <1>2, <2>2
  <2> QED
    BY <1>1, <1>3, <1>6, <2>2, <2>3, <2>4 DEF S, q, y, Pieces, OneMore
<1> QED
  BY <1>5, <1>6

LEMMA SplitAppend ==
  ASSUME NEW C, NEW c
  PROVE  /\ Split(<< >>, c) = << << >> >>
         /\ \A s \in Seq(C) : Split(s, c) \in Pieces(C)
         /\ \A s \in Seq(C), x \in C : Split(Append(s, x), c) = SplitTurn(Split(s, c), c, x)
<1> DEFINE S == Pieces(C)
           s0 == << << >> >>
           T == [x \in C |-> [p \in S |-> SplitTurn(p, c, x)]]
<1>1. s0 \in S
  <2>1. << >> \in Seq(C)
    BY EmptySeq
  <2>2. s0 \in Seq(Seq(C)) /\ s0 # << >>
    BY <2>1
  <2> QED
    BY <2>2 DEF Pieces
<1>2. T \in [C -> [S -> S]] /\ \A x \in C, p \in S : T[x][p] = SplitTurn(p, c, x)
  BY SplitTurnType DEF OneMore
<1> HIDE DEF S, T, s0
<1>3. ASSUME NEW s \in Seq(C) PROVE Split(s, c) = Loops!Run(T, s0, s)
  <2> DEFINE n == Len(s)
             Eq(g) == g = [i \in 0 .. n |-> IF i = 0 THEN s0 ELSE SplitTurn(g[i - 1], c, s[i])]
             h == CHOOSE g : Eq(g)
  <2>1. PICK g : Loops!RunOf(g, S, T, s0, s)
    BY <1>1, <1>2, Loops!RunTrace
  <2>2. n \in Nat /\ \A i \in 1 .. n : s[i] \in C /\ i - 1 \in 0 .. n /\ i \in 0 .. n /\ i # 0
    BY LenProperties, ElementOfSeq
  <2>3. g \in [0 .. n -> S] /\ g[0] = s0 /\ \A i \in 1 .. n : g[i] = T[s[i]][g[i - 1]]
    BY <2>1 DEF Loops!RunOf
  <2>4. \A i \in 1 .. n : g[i] = SplitTurn(g[i - 1], c, s[i])
    BY <1>2, <2>2, <2>3
  <2>5. \A i \in 0 .. n : i = 0 \/ i \in 1 .. n
    BY <2>2
  <2>6. Eq(g)
    BY <2>3, <2>4, <2>5
  <2>7. Eq(h)
    BY <2>6
  <2>8. Split(s, c) = h[n]
    BY DEF Split, s0
  <2> HIDE DEF h
  <2>9. h[0] = s0 /\ \A i \in 1 .. n : h[i] = SplitTurn(h[i - 1], c, s[i])
    <3>1. 0 \in 0 .. n /\ \A i \in 1 .. n : i \in 0 .. n /\ i # 0
      BY <2>2
    <3> HIDE DEF n
    <3> QED
      BY <2>7, <3>1
  <2>10. Loops!Turns(h, S, T, s0, s)
    BY <1>2, <2>2, <2>9 DEF Loops!Turns
  <2> HIDE DEF n
  <2>11. h[Len(s)] = Loops!Run(T, s0, s)
    BY <1>1, <1>2, <2>10, Loops!RunUnique
  <2> QED
    BY <2>8, <2>11 DEF n
<1>4. /\ Loops!Run(T, s0, << >>) = s0
      /\ \A s \in Seq(C) : Loops!Run(T, s0, s) \in S
      /\ \A s \in Seq(C), x \in C : Loops!Run(T, s0, Append(s, x)) = T[x][Loops!Run(T, s0, s)]
  <2>1. s0 \in S /\ T \in [C -> [S -> S]]
    BY <1>1, <1>2
  <2>2. Loops!Unrolls(S, C, T, s0)
    BY <2>1, Loops!RunAppend
  <2> QED
    BY <2>2 DEF Loops!Unrolls
<1>5. << >> \in Seq(C) /\ \A s \in Seq(C), x \in C : Append(s, x) \in Seq(C)
  BY EmptySeq, AppendProperties
<1>6. \A s \in Seq(C), x \in C : Split(Append(s, x), c) = SplitTurn(Split(s, c), c, x)
  <2> SUFFICES ASSUME NEW s \in Seq(C), NEW x \in C
               PROVE  Split(Append(s, x), c) = SplitTurn(Split(s, c), c, x)
    OBVIOUS
  <2>1. Split(Append(s, x), c) = T[x][Split(s, c)] /\ Split(s, c) \in S
    BY <1>3, <1>4, <1>5
  <2> QED
    BY <1>2, <2>1
<1>7. Split(<< >>, c) = s0 /\ \A s \in Seq(C) : Split(s, c) \in S
  BY <1>3, <1>4, <1>5
<1> QED
  BY <1>6, <1>7 DEF s0, S

(* indexOf gives the first place, if there is one.                         *)
LEMMA FirstPlace ==
  ASSUME NEW L, NEW t \in Seq(L), NEW C, NEW seg \in Seq(C), NEW from \in Nat
  PROVE  \/ /\ indexOf(t, seg, from) = NotFound
            /\ \A i \in Nat : i >= from => ~Stands(seg, t, i)
         \/ /\ indexOf(t, seg, from) \in Nat /\ indexOf(t, seg, from) >= from
            /\ Stands(seg, t, indexOf(t, seg, from))
            /\ \A i \in Nat : i >= from /\ Stands(seg, t, i) => indexOf(t, seg, from) <= i
<1> DEFINE at == {i \in from .. Len(t) : Stands(seg, t, i)}
           least == CHOOSE i \in at : \A j \in at : i <= j
<1>1. Len(t) \in Nat /\ Len(seg) \in Nat
  BY LenProperties
<1>2. \A i \in Nat : i >= from /\ Stands(seg, t, i) => i \in at
  BY <1>1 DEF Stands
<1>3. indexOf(t, seg, from) = IF at = {} THEN NotFound ELSE least
  BY DEF indexOf
<1>4. CASE at = {}
  BY <1>2, <1>3, <1>4
<1>5. CASE at # {}
  <2>1. at \in SUBSET Nat
    BY <1>1
  <2> HIDE DEF at
  <2>2. \E i \in at : \A j \in at : i <= j
    BY <1>5, <2>1, Loops!Least
  <2>3. least \in at /\ \A j \in at : least <= j
    BY <2>2
  <2> HIDE DEF least
  <2>4. least \in Nat /\ least >= from /\ Stands(seg, t, least)
    BY <1>1, <2>1, <2>3 DEF at
  <2> QED
    BY <1>2, <1>3, <1>5, <2>3, <2>4
<1> QED
  BY <1>4, <1>5

(* The loop over the middle segments.  A segment more is a turn more, and  *)
(* the last segment plays no part.                                         *)
Places == Nat \union {NotFound}

LEMMA MiddleTurnType ==
  ASSUME NEW L, NEW t \in Seq(L), NEW C, NEW seg \in Seq(C), NEW idx \in Places
  PROVE  MiddleTurn(idx, seg, t) \in Places
<1>1. CASE idx = NotFound \/ seg = << >>
  BY <1>1 DEF MiddleTurn
<1>2. CASE ~(idx = NotFound \/ seg = << >>)
  <2> DEFINE at == indexOf(t, seg, idx)
  <2>1. idx \in Nat
    BY <1>2 DEF Places
  <2>2. at \in Nat \/ at = NotFound
    BY <2>1, FirstPlace
  <2>3. Len(seg) \in Nat
    BY LenProperties
  <2>4. MiddleTurn(idx, seg, t) = IF at = NotFound THEN NotFound ELSE at + Len(seg)
    BY <1>2 DEF MiddleTurn
  <2> HIDE DEF at
  <2> QED
    BY <2>2, <2>3, <2>4 DEF Places
<1> QED
  BY <1>1, <1>2

MiddlesOf(p) == [k \in 1 .. Len(p) - 2 |-> p[k + 1]]
TurnsIn(C, t) == [seg \in Seq(C) |-> [i \in Places |-> MiddleTurn(i, seg, t)]]

LEMMA MiddlesRun ==
  ASSUME NEW L, NEW t \in Seq(L), NEW C, NEW p \in Pieces(C), Len(p) >= 2
  PROVE  /\ MiddlesOf(p) \in Seq(Seq(C)) /\ Len(p[1]) \in Places
         /\ TurnsIn(C, t) \in [Seq(C) -> [Places -> Places]]
         /\ AfterMiddles(p, t) = Loops!Run(TurnsIn(C, t), Len(p[1]), MiddlesOf(p))
<1> DEFINE X == Seq(C)
           S == Places
           T == TurnsIn(C, t)
           s == MiddlesOf(p)
           s0 == Len(p[1])
           n == Len(p) - 2
           Eq(g) == g = [i \in 0 .. n |-> IF i = 0 THEN s0 ELSE MiddleTurn(g[i - 1], p[i + 1], t)]
           h == CHOOSE g : Eq(g)
<1>1. p \in Seq(X) /\ Len(p) \in Nat /\ n \in Nat /\ \A i \in 1 .. Len(p) : p[i] \in X
  BY LenProperties, ElementOfSeq DEF Pieces
<1>2. s \in Seq(X) /\ Len(s) = n /\ \A i \in 1 .. n : s[i] = p[i + 1]
  <2>1. \A k \in 1 .. n : k + 1 \in 1 .. Len(p)
    BY <1>1
  <2>2. s \in [1 .. n -> X]
    BY <1>1, <2>1 DEF MiddlesOf
  <2> HIDE DEF n, X
  <2>3. s \in Seq(X) /\ Len(s) = n
    BY <1>1, <2>2, SeqDef
  <2> QED
    BY <2>3 DEF MiddlesOf, n
<1>3. s0 \in S
  <2>1. 1 \in 1 .. Len(p)
    BY <1>1
  <2>2. Len(p[1]) \in Nat
    BY <1>1, <2>1, LenProperties
  <2> QED
    BY <2>2 DEF Places
<1>4. T \in [X -> [S -> S]] /\ \A seg \in X, i \in S : T[seg][i] = MiddleTurn(i, seg, t)
  BY MiddleTurnType DEF TurnsIn
<1>5. AfterMiddles(p, t) = h[n]
  BY DEF AfterMiddles
<1> HIDE DEF X, S, T, s, s0, n
<1>6. PICK g : Loops!RunOf(g, S, T, s0, s)
  BY <1>2, <1>3, <1>4, Loops!RunTrace
<1>7. \A i \in 1 .. n : s[i] \in X /\ i - 1 \in 0 .. n /\ i \in 0 .. n /\ i # 0
  BY <1>1, <1>2, ElementOfSeq
<1>8. g \in [0 .. n -> S] /\ g[0] = s0 /\ \A i \in 1 .. n : g[i] = T[s[i]][g[i - 1]]
  BY <1>2, <1>6 DEF Loops!RunOf
<1>9. ASSUME NEW i \in 1 .. n PROVE g[i] = MiddleTurn(g[i - 1], p[i + 1], t)
  <2>1. g[i] = T[s[i]][g[i - 1]] /\ g[i - 1] \in S /\ s[i] \in X /\ s[i] = p[i + 1]
    BY <1>2, <1>7, <1>8
  <2> QED
    BY <1>4, <2>1
<1>10. \A i \in 0 .. n : i = 0 \/ i \in 1 .. n
  BY <1>1
<1>11. Eq(g)
  BY <1>8, <1>9, <1>10
<1>12. Eq(h)
  BY <1>11
<1> HIDE DEF h
<1>13. h[0] = s0 /\ \A i \in 1 .. n : h[i] = MiddleTurn(h[i - 1], p[i + 1], t)
  <2>1. 0 \in 0 .. n /\ \A i \in 1 .. n : i \in 0 .. n /\ i # 0
    BY <1>1, <1>7
  <2> QED
    BY <1>12, <2>1
<1>14. Loops!Turns(h, S, T, s0, s)
  <2>1. ASSUME NEW i \in 1 .. n, h[i - 1] \in S PROVE h[i] = T[s[i]][h[i - 1]]
    BY <1>2, <1>4, <1>7, <1>13, <2>1
  <2> QED
    BY <1>2, <1>13, <2>1 DEF Loops!Turns
<1>15. h[Len(s)] = Loops!Run(T, s0, s)
  BY <1>2, <1>3, <1>4, <1>14, Loops!RunUnique
<1> QED
  BY <1>2, <1>3, <1>4, <1>5, <1>15 DEF X, S, T, s, s0

LEMMA MiddlesAppend ==
  ASSUME NEW L, NEW t \in Seq(L), NEW C, NEW p \in Pieces(C), Len(p) >= 2
  PROVE  /\ AfterMiddles(p, t) \in Places
         /\ Len(p) = 2 => AfterMiddles(p, t) = Len(p[1])
         /\ \A q \in Pieces(C) :
              Len(q) = Len(p) /\ (\A i \in 1 .. Len(p) - 1 : q[i] = p[i]) =>
                AfterMiddles(q, t) = AfterMiddles(p, t)
         /\ \A q \in Pieces(C) :
              Len(q) = Len(p) + 1 /\ (\A i \in 1 .. Len(p) : q[i] = p[i]) =>
                AfterMiddles(q, t) = MiddleTurn(AfterMiddles(p, t), p[Len(p)], t)
<1> DEFINE X == Seq(C)
           T == TurnsIn(C, t)
           M(q) == AfterMiddles(q, t)
           s == MiddlesOf(p)
<1>1. \A q \in Pieces(C) : Len(q) >= 2 =>
        /\ MiddlesOf(q) \in Seq(X) /\ Len(q[1]) \in Places
        /\ M(q) = Loops!Run(T, Len(q[1]), MiddlesOf(q))
  BY MiddlesRun
<1>2. T \in [X -> [Places -> Places]]
  BY MiddlesRun
<1>3. Len(p) \in Nat /\ p \in Seq(X)
  BY LenProperties DEF Pieces
<1>4. Loops!Unrolls(Places, X, T, Len(p[1]))
  <2>1. Len(p[1]) \in Places
    BY <1>1
  <2> HIDE DEF T, X
  <2> QED
    BY <1>2, <2>1, Loops!RunAppend
<1>5. M(p) \in Places
  BY <1>1, <1>4 DEF Loops!Unrolls
<1>6. ASSUME Len(p) = 2 PROVE M(p) = Len(p[1])
  <2>1. MiddlesOf(p) = << >>
    BY <1>6 DEF MiddlesOf
  <2> QED
    BY <1>1, <1>4, <2>1 DEF Loops!Unrolls
<1>7. ASSUME NEW q \in Pieces(C), Len(q) = Len(p), \A i \in 1 .. Len(p) - 1 : q[i] = p[i]
      PROVE  M(q) = M(p)
  <2>1. 1 \in 1 .. Len(p) - 1 /\ \A k \in 1 .. Len(p) - 2 : k + 1 \in 1 .. Len(p) - 1
    BY <1>3
  <2>2. MiddlesOf(q) = MiddlesOf(p)
    BY <1>7, <2>1 DEF MiddlesOf
  <2> QED
    BY <1>1, <1>7, <2>1, <2>2
<1>8. ASSUME NEW q \in Pieces(C), Len(q) = Len(p) + 1, \A i \in 1 .. Len(p) : q[i] = p[i]
      PROVE  M(q) = MiddleTurn(M(p), p[Len(p)], t)
  <2> DEFINE x == p[Len(p)]
             n == Len(p) - 2
  <2>1. 1 \in 1 .. Len(p) /\ Len(p) \in 1 .. Len(p) /\ n \in Nat /\ n + 1 + 1 = Len(p)
    BY <1>3
  <2>2. x \in X
    BY <1>3, <2>1, ElementOfSeq
  <2>3. MiddlesOf(q) = Append(s, x)
    <3> DEFINE r == MiddlesOf(q)
               a == Append(s, x)
    <3>1. Len(q) - 2 = n + 1 /\ Len(q) >= 2
      BY <1>3, <1>8
    <3>2. r \in Seq(X) /\ Len(r) = n + 1 /\ \A i \in 1 .. n + 1 : r[i] = q[i + 1]
      <4>1. r \in Seq(X)
        BY <1>1, <3>1
      <4>2. r = [i \in 1 .. n + 1 |-> q[i + 1]]
        BY <3>1 DEF MiddlesOf
      <4>3. DOMAIN r = 1 .. Len(r) /\ Len(r) \in Nat
        BY <4>1, LenProperties
      <4> HIDE DEF r, n
      <4> QED
        BY <2>1, <4>1, <4>2, <4>3
    <3>3. s \in Seq(X) /\ Len(s) = n /\ \A i \in 1 .. n : s[i] = p[i + 1]
      <4>1. s \in Seq(X)
        BY <1>1
      <4>2. s = [i \in 1 .. n |-> p[i + 1]]
        BY DEF MiddlesOf
      <4>3. DOMAIN s = 1 .. Len(s) /\ Len(s) \in Nat
        BY <4>1, LenProperties
      <4> HIDE DEF s, n
      <4> QED
        BY <2>1, <4>1, <4>2, <4>3
    <3> HIDE DEF r, s, x, n, X
    <3>4. a \in Seq(X) /\ Len(a) = n + 1 /\ a[n + 1] = x /\ \A i \in 1 .. n : a[i] = s[i]
      BY <2>2, <3>3, AppendProperties
    <3>5. ASSUME NEW i \in 1 .. n + 1 PROVE r[i] = a[i]
      <4>1. CASE i = n + 1
        <5>1. r[i] = q[Len(p)] /\ q[Len(p)] = x
          BY <1>8, <2>1, <3>2, <4>1 DEF x
        <5> QED
          BY <3>4, <4>1, <5>1
      <4>2. CASE i # n + 1
        <5>1. i \in 1 .. n /\ i + 1 \in 1 .. Len(p)
          BY <2>1, <4>2
        <5> QED
          BY <1>8, <3>2, <3>3, <3>4, <5>1
      <4> QED
        BY <4>1, <4>2
    <3> HIDE DEF a
    <3>6. r = a
      BY <3>2, <3>4, <3>5, SeqEqual
    <3> QED
      BY <3>6 DEF r, a, s, x
  <2>4. q[1] = p[1] /\ Len(q) >= 2
    BY <1>3, <1>8, <2>1
  <2>5. M(q) = T[x][M(p)]
    <3>1. M(q) = Loops!Run(T, Len(p[1]), Append(s, x))
      BY <1>1, <2>3, <2>4
    <3>2. s \in Seq(X) /\ M(p) = Loops!Run(T, Len(p[1]), s)
      BY <1>1
    <3> HIDE DEF T, X, s, x
    <3> QED
      BY <1>4, <2>2, <3>1, <3>2 DEF Loops!Unrolls
  <2> QED
    BY <1>5, <2>2, <2>5 DEF TurnsIn
<1> QED
  BY <1>5, <1>6, <1>7, <1>8

LEMMA MiddlesFirst ==
  ASSUME NEW L, NEW t \in Seq(L), NEW C, NEW p \in Pieces(C), Len(p) >= 2
  PROVE  AfterMiddles(p, t) \in Places /\ (Len(p) = 2 => AfterMiddles(p, t) = Len(p[1]))
BY MiddlesAppend

(* What a beginning of a glob may reach, as a loop over the glob.          *)
LEMMA ReachType ==
  ASSUME NEW L, NEW t \in Seq(L), NEW at \in SUBSET (0 .. Len(t)), NEW x
  PROVE  Reach(at, x, t) \in SUBSET (0 .. Len(t))
<1>1. Len(t) \in Nat
  BY LenProperties
<1>2. \A j \in 1 .. Len(t) : j \in 0 .. Len(t)
  BY <1>1
<1> QED
  BY <1>2 DEF Reach

LEMMA ReachesAppend ==
  ASSUME NEW L, NEW t \in Seq(L), NEW C
  PROVE  /\ Reaches(<< >>, t) = {0}
         /\ \A g \in Seq(C) : Reaches(g, t) \in SUBSET (0 .. Len(t))
         /\ \A g \in Seq(C), x \in C : Reaches(Append(g, x), t) = Reach(Reaches(g, t), x, t)
<1> DEFINE S == SUBSET (0 .. Len(t))
           T == [x \in C |-> [at \in S |-> Reach(at, x, t)]]
           s0 == {0}
<1>1. s0 \in S
  <2>1. Len(t) \in Nat
    BY LenProperties
  <2> QED
    BY <2>1
<1>2. T \in [C -> [S -> S]] /\ \A x \in C, at \in S : T[x][at] = Reach(at, x, t)
  BY ReachType
<1> HIDE DEF S, T, s0
<1>3. ASSUME NEW s \in Seq(C) PROVE Reaches(s, t) = Loops!Run(T, s0, s)
  <2> DEFINE n == Len(s)
             Eq(g) == g = [i \in 0 .. n |-> IF i = 0 THEN s0 ELSE Reach(g[i - 1], s[i], t)]
             h == CHOOSE g : Eq(g)
  <2>1. PICK g : Loops!RunOf(g, S, T, s0, s)
    BY <1>1, <1>2, Loops!RunTrace
  <2>2. n \in Nat /\ \A i \in 1 .. n : s[i] \in C /\ i - 1 \in 0 .. n /\ i \in 0 .. n /\ i # 0
    BY LenProperties, ElementOfSeq
  <2>3. g \in [0 .. n -> S] /\ g[0] = s0 /\ \A i \in 1 .. n : g[i] = T[s[i]][g[i - 1]]
    BY <2>1 DEF Loops!RunOf
  <2>4. \A i \in 1 .. n : g[i] = Reach(g[i - 1], s[i], t)
    BY <1>2, <2>2, <2>3
  <2>5. \A i \in 0 .. n : i = 0 \/ i \in 1 .. n
    BY <2>2
  <2>6. Eq(g)
    BY <2>3, <2>4, <2>5
  <2>7. Eq(h)
    BY <2>6
  <2>8. Reaches(s, t) = h[n]
    BY DEF Reaches, s0
  <2> HIDE DEF h
  <2>9. h[0] = s0 /\ \A i \in 1 .. n : h[i] = Reach(h[i - 1], s[i], t)
    <3>1. 0 \in 0 .. n /\ \A i \in 1 .. n : i \in 0 .. n /\ i # 0
      BY <2>2
    <3> HIDE DEF n
    <3> QED
      BY <2>7, <3>1
  <2>10. Loops!Turns(h, S, T, s0, s)
    BY <1>2, <2>2, <2>9 DEF Loops!Turns
  <2> HIDE DEF n
  <2>11. h[Len(s)] = Loops!Run(T, s0, s)
    BY <1>1, <1>2, <2>10, Loops!RunUnique
  <2> QED
    BY <2>8, <2>11 DEF n
<1>4. Loops!Unrolls(S, C, T, s0)
  <2>1. s0 \in S /\ T \in [C -> [S -> S]]
    BY <1>1, <1>2
  <2> QED
    BY <2>1, Loops!RunAppend
<1>5. << >> \in Seq(C) /\ \A s \in Seq(C), x \in C : Append(s, x) \in Seq(C)
  BY EmptySeq, AppendProperties
<1>6. \A s \in Seq(C), x \in C : Reaches(Append(s, x), t) = Reach(Reaches(s, t), x, t)
  <2> SUFFICES ASSUME NEW s \in Seq(C), NEW x \in C
               PROVE  Reaches(Append(s, x), t) = Reach(Reaches(s, t), x, t)
    OBVIOUS
  <2>1. Reaches(Append(s, x), t) = T[x][Reaches(s, t)] /\ Reaches(s, t) \in S
    BY <1>3, <1>4, <1>5 DEF Loops!Unrolls
  <2> QED
    BY <1>2, <2>1
<1>7. Reaches(<< >>, t) = s0 /\ \A s \in Seq(C) : Reaches(s, t) \in S
  BY <1>3, <1>4, <1>5 DEF Loops!Unrolls
<1> QED
  BY <1>6, <1>7 DEF s0, S

(* A segment with a character more.                                        *)
LEMMA StandsAppend ==
  ASSUME NEW L, NEW t \in Seq(L), NEW C, NEW seg \in Seq(C), NEW x \in C, NEW i \in Nat
  PROVE  /\ Stands(<< >>, t, i) <=> i <= Len(t)
         /\ Stands(Append(seg, x), t, i) <=>
              /\ Stands(seg, t, i)
              /\ i + Len(seg) + 1 <= Len(t) /\ t[i + Len(seg) + 1] = x
<1> DEFINE a == Append(seg, x)
           n == Len(seg)
<1>1. /\ n \in Nat /\ Len(t) \in Nat /\ Len(a) = n + 1 /\ a[n + 1] = x
      /\ \A j \in 1 .. n : a[j] = seg[j]
  BY LenProperties, AppendProperties
<1>2. Len(<< >>) = 0
  BY EmptySeq
<1>3. Stands(<< >>, t, i) <=> i <= Len(t)
  BY <1>1, <1>2 DEF Stands
<1> HIDE DEF a
<1>4. ASSUME Stands(a, t, i)
      PROVE  Stands(seg, t, i) /\ i + n + 1 <= Len(t) /\ t[i + n + 1] = x
  <2>1. i + (n + 1) <= Len(t) /\ \A j \in 1 .. n + 1 : t[i + j] = a[j]
    BY <1>1, <1>4 DEF Stands
  <2>2. n + 1 \in 1 .. n + 1 /\ i + (n + 1) = i + n + 1 /\ \A j \in 1 .. n : j \in 1 .. n + 1
    BY <1>1
  <2>3. \A j \in 1 .. n : t[i + j] = seg[j]
    BY <1>1, <2>1, <2>2
  <2>4. i + n <= Len(t)
    BY <1>1, <2>1
  <2> QED
    BY <1>1, <2>1, <2>2, <2>3, <2>4 DEF Stands
<1>5. ASSUME Stands(seg, t, i), i + n + 1 <= Len(t), t[i + n + 1] = x
      PROVE  Stands(a, t, i)
  <2>1. i + (n + 1) <= Len(t) /\ i + (n + 1) = i + n + 1
    BY <1>1, <1>5
  <2>2. ASSUME NEW j \in 1 .. n + 1 PROVE t[i + j] = a[j]
    <3>1. CASE j = n + 1
      BY <1>1, <1>5, <2>1, <3>1
    <3>2. CASE j # n + 1
      <4>1. j \in 1 .. n
        BY <1>1, <3>2
      <4> QED
        BY <1>1, <1>5, <4>1 DEF Stands
    <3> QED
      BY <3>1, <3>2
  <2> QED
    BY <1>1, <2>1, <2>2 DEF Stands
<1> QED
  BY <1>3, <1>4, <1>5 DEF a

(* What the pieces of a beginning of a glob say of where it may end: the   *)
(* first piece stands at the start, the middle ones one after the other,   *)
(* and the last one just before the end, behind them.                      *)
EndsAt(p, t, j) ==
  /\ j \in 0 .. Len(t)
  /\ Stands(p[1], t, 0)
  /\ IF Len(p) = 1 THEN j = Len(p[1])
     ELSE /\ AfterMiddles(p, t) # NotFound
          /\ j - Len(p[Len(p)]) >= AfterMiddles(p, t)
          /\ Stands(p[Len(p)], t, j - Len(p[Len(p)]))

Exact(g, t) ==
  LET p == Split(g, "*")
  IN /\ Len(p) = 1 => p[1] = g
     /\ \A j \in 0 .. Len(t) : j \in Reaches(g, t) <=> EndsAt(p, t, j)

(* After a middle segment: behind its first place, and no further.         *)
LEMMA MiddleTurnFirst ==
  ASSUME NEW L, NEW t \in Seq(L), NEW C, NEW seg \in Seq(C), NEW idx \in Nat, NEW j \in 0 .. Len(t)
  PROVE  (MiddleTurn(idx, seg, t) # NotFound /\ MiddleTurn(idx, seg, t) <= j) <=>
           \E i \in Nat : i >= idx /\ Stands(seg, t, i) /\ i + Len(seg) <= j
<1> DEFINE y == MiddleTurn(idx, seg, t)
           at == indexOf(t, seg, idx)
           Behind == \E i \in Nat : i >= idx /\ Stands(seg, t, i) /\ i + Len(seg) <= j
<1>1. Len(t) \in Nat /\ Len(seg) \in Nat /\ j \in Nat /\ j <= Len(t) /\ idx # NotFound
  BY LenProperties DEF NotFound
<1>2. CASE seg = << >>
  <2>1. y = idx /\ Len(seg) = 0
    BY <1>2, EmptySeq DEF MiddleTurn
  <2>2. Stands(seg, t, idx) <=> idx <= Len(t)
    BY <1>1, <2>1 DEF Stands
  <2> QED
    BY <1>1, <2>1, <2>2
<1>3. CASE seg # << >>
  <2>1. y = IF at = NotFound THEN NotFound ELSE at + Len(seg)
    BY <1>1, <1>3 DEF MiddleTurn
  <2>2. CASE at = NotFound
    <3>1. \A i \in Nat : i >= idx => ~Stands(seg, t, i)
      BY <2>2, FirstPlace DEF NotFound
    <3> QED
      BY <2>1, <2>2, <3>1
  <2>3. CASE at # NotFound
    <3>1. /\ at \in Nat /\ at >= idx /\ Stands(seg, t, at)
          /\ \A i \in Nat : i >= idx /\ Stands(seg, t, i) => at <= i
      BY <2>3, FirstPlace
    <3>2. y = at + Len(seg)
      BY <2>1, <2>3
    <3> HIDE DEF y, at
    <3>3. y # NotFound
      BY <1>1, <3>1, <3>2 DEF NotFound
    <3>4. ASSUME y <= j PROVE Behind
      BY <3>1, <3>2, <3>4
    <3>5. ASSUME Behind PROVE y <= j
      <4>1. PICK i \in Nat : i >= idx /\ Stands(seg, t, i) /\ i + Len(seg) <= j
        BY <3>5
      <4>2. at <= i
        BY <3>1, <4>1
      <4> QED
        BY <1>1, <3>1, <3>2, <4>1, <4>2
    <3> QED
      BY <3>3, <3>4, <3>5 DEF y
  <2> QED
    BY <2>2, <2>3
<1> QED
  BY <1>2, <1>3

(* A character that is not "*" moves the end on by one.                    *)
LEMMA EndsOnLetter ==
  ASSUME NEW L, NEW t \in Seq(L), NEW C, NEW p \in Pieces(C), NEW x \in C, x # "*",
         NEW j \in 0 .. Len(t)
  PROVE  EndsAt(SplitTurn(p, "*", x), t, j) <=> j >= 1 /\ EndsAt(p, t, j - 1) /\ t[j] = x
<1> DEFINE q == SplitTurn(p, "*", x)
           n == Len(p)
           seg == p[n]
           m == Len(seg)
<1>1. /\ q \in Pieces(C) /\ n \in Nat \ {0} /\ seg \in Seq(C)
      /\ Len(q) = n /\ q[n] = Append(seg, x) /\ \A i \in 1 .. n : i # n => q[i] = p[i]
  <2>1. OneMore(C, p, q, "*", x)
    BY SplitTurnType
  <2> HIDE DEF q
  <2> QED
    BY <2>1 DEF OneMore
<1>2. m \in Nat /\ Len(Append(seg, x)) = m + 1 /\ Len(t) \in Nat /\ j \in Nat /\ j <= Len(t)
  BY <1>1, LenProperties, AppendProperties
<1>3. \A i \in Nat : Stands(Append(seg, x), t, i) <=>
        Stands(seg, t, i) /\ i + m + 1 <= Len(t) /\ t[i + m + 1] = x
  <2> SUFFICES ASSUME NEW i \in Nat
               PROVE  Stands(Append(seg, x), t, i) <=>
                        Stands(seg, t, i) /\ i + m + 1 <= Len(t) /\ t[i + m + 1] = x
    OBVIOUS
  <2> HIDE DEF q, seg
  <2> QED
    BY <1>1, StandsAppend
<1> HIDE DEF q, seg, m
<1>4. CASE n = 1
  <2>1. p[1] = seg /\ q[1] = Append(seg, x) /\ Len(p) = 1 /\ Len(q) = 1
    BY <1>1, <1>4 DEF seg
  <2>2. Stands(q[1], t, 0) <=> Stands(seg, t, 0) /\ m + 1 <= Len(t) /\ t[m + 1] = x
    BY <1>2, <1>3, <2>1
  <2>3. EndsAt(q, t, j) <=> Stands(q[1], t, 0) /\ j = m + 1
    BY <1>2, <2>1 DEF EndsAt
  <2>4. j >= 1 => (EndsAt(p, t, j - 1) <=> Stands(seg, t, 0) /\ j = m + 1)
    BY <1>2, <2>1 DEF EndsAt, m
  <2> QED
    BY <1>2, <2>2, <2>3, <2>4 DEF q
<1>5. CASE n # 1
  <2> DEFINE M == AfterMiddles(p, t)
  <2>1. n >= 2 /\ 1 \in 1 .. n /\ 1 # n /\ \A i \in 1 .. n - 1 : i \in 1 .. n /\ i # n
    BY <1>1, <1>5
  <2>2. q[1] = p[1] /\ \A i \in 1 .. n - 1 : q[i] = p[i]
    BY <1>1, <2>1
  <2>3. M \in Places /\ AfterMiddles(q, t) = M
    BY <1>1, <2>1, <2>2, MiddlesAppend
  <2> HIDE DEF M, n
  <2>4. EndsAt(q, t, j) <=> /\ Stands(p[1], t, 0) /\ M # NotFound
                            /\ j - (m + 1) >= M /\ Stands(Append(seg, x), t, j - (m + 1))
    BY <1>1, <1>2, <1>5, <2>2, <2>3 DEF EndsAt
  <2>5. j >= 1 => (EndsAt(p, t, j - 1) <=> /\ Stands(p[1], t, 0) /\ M # NotFound
                                           /\ j - 1 - m >= M /\ Stands(seg, t, j - 1 - m))
    <3>1. Len(p) # 1 /\ (j >= 1 => j - 1 \in 0 .. Len(t))
      BY <1>2, <1>5 DEF n
    <3> QED
      BY <3>1 DEF EndsAt, n, M, seg, m
  <2>6. CASE M # NotFound /\ j - (m + 1) >= M
    <3>1. j - (m + 1) \in Nat /\ j >= 1 /\ j - 1 - m = j - (m + 1) /\ j - (m + 1) + m + 1 = j
      BY <1>2, <2>3, <2>6 DEF Places
    <3>2. Stands(Append(seg, x), t, j - (m + 1)) <=> Stands(seg, t, j - (m + 1)) /\ t[j] = x
      BY <1>2, <1>3, <3>1
    <3> QED
      BY <2>4, <2>5, <3>1, <3>2 DEF q
  <2>7. CASE ~(M # NotFound /\ j - (m + 1) >= M)
    <3>1. j >= 1 => ~EndsAt(p, t, j - 1)
      <4>1. j - 1 - m = j - (m + 1)
        BY <1>2
      <4> QED
        BY <2>5, <2>7, <4>1
    <3> QED
      BY <2>4, <2>7, <3>1 DEF q
  <2> QED
    BY <2>6, <2>7
<1> QED
  BY <1>4, <1>5

(* A "*" lets it be anywhere behind.                                       *)
LEMMA EndsOnStar ==
  ASSUME NEW L, NEW t \in Seq(L), NEW C, NEW p \in Pieces(C), "*" \in C,
         NEW j \in 0 .. Len(t)
  PROVE  EndsAt(SplitTurn(p, "*", "*"), t, j) <=> \E i \in 0 .. Len(t) : i <= j /\ EndsAt(p, t, i)
<1> DEFINE q == SplitTurn(p, "*", "*")
           n == Len(p)
           seg == p[n]
           m == Len(seg)
           N == AfterMiddles(q, t)
<1>1. /\ q \in Pieces(C) /\ n \in Nat \ {0} /\ seg \in Seq(C) /\ p \in Seq(Seq(C))
      /\ Len(q) = n + 1 /\ q[n + 1] = << >> /\ \A i \in 1 .. n : q[i] = p[i]
  <2>1. OneMore(C, p, q, "*", "*")
    BY SplitTurnType
  <2> HIDE DEF q
  <2> QED
    BY <2>1 DEF OneMore
<1>2. m \in Nat /\ Len(<< >>) = 0 /\ Len(t) \in Nat /\ j \in Nat /\ j <= Len(t)
  BY <1>1, LenProperties, EmptySeq
<1>3. 1 \in 1 .. n /\ q[1] = p[1]
  BY <1>1
<1>4. Len(q) >= 2 /\ N \in Places
  <2>1. Len(q) >= 2
    BY <1>1
  <2> HIDE DEF q
  <2> QED
    BY <1>1, <2>1, MiddlesFirst
<1>5. Stands(<< >>, t, j)
  BY <1>2 DEF Stands
<1> HIDE DEF q, seg, m, N
<1>6. EndsAt(q, t, j) <=> Stands(p[1], t, 0) /\ N # NotFound /\ N <= j
  <2>1. Len(q) # 1 /\ q[Len(q)] = << >> /\ j - 0 = j
    BY <1>1, <1>2
  <2>2. j >= N <=> N <= j
    BY <1>2, <1>4 DEF Places, NotFound
  <2> HIDE DEF n
  <2> QED
    BY <1>2, <1>3, <1>5, <2>1, <2>2 DEF EndsAt, N
<1>7. CASE n = 1
  <2>1. p[1] = seg /\ Len(p) = 1 /\ Len(q) = 2
    BY <1>1, <1>7 DEF seg
  <2>2. N = m
    <3>1. q \in Pieces(C) /\ Len(q) >= 2
      BY <1>1, <2>1
    <3>2. AfterMiddles(q, t) = Len(q[1])
      BY <2>1, <3>1, MiddlesFirst
    <3> QED
      BY <1>3, <2>1, <3>2 DEF N, m
  <2>3. \A i \in 0 .. Len(t) : EndsAt(p, t, i) <=> Stands(p[1], t, 0) /\ i = m
    BY <2>1 DEF EndsAt, m
  <2>4. Stands(p[1], t, 0) => m \in 0 .. Len(t)
    BY <1>2, <2>1 DEF Stands, m
  <2>5. m # NotFound
    BY <1>2 DEF NotFound
  <2> QED
    BY <1>2, <1>6, <2>2, <2>3, <2>4, <2>5 DEF q
<1>8. CASE n # 1
  <2> DEFINE M == AfterMiddles(p, t)
  <2>1. n >= 2
    <3> HIDE DEF n
    <3> QED
      BY <1>1, <1>8
  <2>2. M \in Places /\ N = MiddleTurn(M, seg, t)
    BY <1>1, <2>1, MiddlesAppend DEF N, seg
  <2> HIDE DEF M
  <2>3. \A i \in 0 .. Len(t) : EndsAt(p, t, i) <=>
          /\ Stands(p[1], t, 0) /\ M # NotFound /\ i - m >= M /\ Stands(seg, t, i - m)
    BY <1>8 DEF EndsAt, M, seg, m
  <2>4. CASE M = NotFound
    <3>1. N = NotFound
      BY <2>2, <2>4 DEF MiddleTurn
    <3> QED
      BY <1>6, <2>3, <2>4, <3>1 DEF q
  <2>5. CASE M # NotFound
    <3>1. M \in Nat
      BY <2>2, <2>5 DEF Places
    <3>2. (N # NotFound /\ N <= j) <=> \E k \in Nat : k >= M /\ Stands(seg, t, k) /\ k + m <= j
      <4>1. N = MiddleTurn(M, seg, t) /\ m = Len(seg)
        BY <2>2 DEF m
      <4> HIDE DEF m, N
      <4> QED
        BY <1>1, <3>1, <4>1, MiddleTurnFirst
    <3>3. ASSUME EndsAt(q, t, j)
          PROVE  \E i \in 0 .. Len(t) : i <= j /\ EndsAt(p, t, i)
      <4>1. PICK k \in Nat : k >= M /\ Stands(seg, t, k) /\ k + m <= j
        BY <1>6, <3>2, <3>3
      <4>2. k + m \in 0 .. Len(t) /\ k + m <= j /\ (k + m) - m = k
        BY <1>2, <4>1
      <4>3. EndsAt(p, t, k + m)
        BY <1>6, <2>3, <2>5, <3>3, <4>1, <4>2
      <4> QED
        BY <4>2, <4>3
    <3>4. ASSUME NEW i \in 0 .. Len(t), i <= j, EndsAt(p, t, i)
          PROVE  EndsAt(q, t, j)
      <4>1. Stands(p[1], t, 0) /\ i - m >= M /\ Stands(seg, t, i - m)
        BY <2>3, <3>4
      <4>2. i - m \in Nat /\ (i - m) + m <= j
        BY <1>2, <3>1, <3>4, <4>1
      <4> QED
        BY <1>6, <3>2, <4>1, <4>2
    <3> QED
      BY <3>3, <3>4 DEF q
  <2> QED
    BY <2>4, <2>5
<1> QED
  BY <1>7, <1>8

LEMMA ExactAlways ==
  ASSUME NEW L, NEW t \in Seq(L), NEW C, NEW g \in Seq(C)
  PROVE  Exact(g, t)
<1> DEFINE P == {s \in Seq(C) : Exact(s, t)}
           R(s) == Reaches(s, t)
<1>1. Len(t) \in Nat /\ << >> \in Seq(C)
  BY LenProperties, EmptySeq
<1>2. << >> \in P
  <2> DEFINE p == << << >> >>
  <2>1. Split(<< >>, "*") = p /\ R(<< >>) = {0}
    BY SplitAppend, ReachesAppend
  <2>2. Len(p) = 1 /\ p[1] = << >> /\ Len(<< >>) = 0
    OBVIOUS
  <2>3. Stands(<< >>, t, 0)
    BY <1>1, <2>2 DEF Stands
  <2> HIDE DEF p
  <2>4. \A j \in 0 .. Len(t) : EndsAt(p, t, j) <=> j = 0
    BY <2>2, <2>3 DEF EndsAt
  <2> QED
    BY <1>1, <2>1, <2>2, <2>4 DEF Exact
<1>3. ASSUME NEW s \in Seq(C), NEW x \in C, s \in P
      PROVE  Append(s, x) \in P
  <2> DEFINE p == Split(s, "*")
             a == Append(s, x)
             q == Split(a, "*")
  <2>1. p \in Pieces(C) /\ q = SplitTurn(p, "*", x)
    BY SplitAppend
  <2>2. R(s) \in SUBSET (0 .. Len(t)) /\ R(a) = Reach(R(s), x, t)
    BY ReachesAppend
  <2>3. a \in Seq(C)
    BY AppendProperties
  <2>4. /\ Len(p) = 1 => p[1] = s
        /\ \A j \in 0 .. Len(t) : j \in R(s) <=> EndsAt(p, t, j)
    BY <1>3 DEF Exact
  <2> HIDE DEF p, q, R
  <2>5. Len(q) = 1 => q[1] = a
    <3>1. /\ Len(p) \in Nat \ {0}
          /\ x = "*" => Len(q) = Len(p) + 1
          /\ x # "*" => Len(q) = Len(p) /\ q[Len(p)] = Append(p[Len(p)], x)
      <4>1. OneMore(C, p, q, "*", x)
        BY <2>1, SplitTurnType
      <4> QED
        BY <4>1 DEF OneMore
    <3> QED
      BY <2>4, <3>1
  <2>6. ASSUME NEW j \in 0 .. Len(t) PROVE j \in R(a) <=> EndsAt(q, t, j)
    <3>1. CASE x = "*"
      <4>1. j \in R(a) <=> \E i \in R(s) : i <= j
        BY <2>2, <3>1 DEF Reach
      <4>2. EndsAt(q, t, j) <=> \E i \in 0 .. Len(t) : i <= j /\ EndsAt(p, t, i)
        BY <2>1, <3>1, EndsOnStar
      <4> QED
        BY <2>2, <2>4, <4>1, <4>2
    <3>2. CASE x # "*"
      <4>1. j \in R(a) <=> j >= 1 /\ j - 1 \in R(s) /\ t[j] = x
        <5>1. j \in 1 .. Len(t) <=> j >= 1
          BY <1>1
        <5> QED
          BY <2>2, <3>2, <5>1 DEF Reach
      <4>2. EndsAt(q, t, j) <=> j >= 1 /\ EndsAt(p, t, j - 1) /\ t[j] = x
        BY <2>1, <3>2, EndsOnLetter
      <4>3. j >= 1 => j - 1 \in 0 .. Len(t)
        BY <1>1
      <4> QED
        BY <2>4, <4>1, <4>2, <4>3
    <3> QED
      BY <3>1, <3>2
  <2>7. Exact(a, t)
    <3> HIDE DEF a
    <3> QED
      BY <2>5, <2>6 DEF Exact, q, R
  <2> QED
    BY <2>3, <2>7
<1>4. \A s \in Seq(C) : s \in P
  <2>1. \A s \in Seq(C), x \in C : s \in P => Append(s, x) \in P
    BY <1>3
  <2> HIDE DEF P
  <2> QED
    BY <1>2, <2>1, Loops!SeqInduction
<1> QED
  BY <1>4

LEMMA GlobMeansIt ==
  ASSUME NEW L, NEW t \in Seq(L), NEW C, NEW g \in Seq(C)
  PROVE  globMatch(g, t) <=> Means(g, t)
<1> DEFINE p == Split(g, "*")
           n == Len(p)
           last == p[n]
           M == AfterMiddles(p, t)
<1>1. Len(t) \in Nat /\ Len(g) \in Nat
  BY LenProperties
<1>2. p \in Pieces(C) /\ p \in Seq(Seq(C)) /\ n \in Nat /\ n >= 1
  <2>1. p \in Pieces(C)
    BY SplitAppend
  <2> HIDE DEF p
  <2>2. p \in Seq(Seq(C)) /\ p # << >>
    BY <2>1 DEF Pieces
  <2>3. n \in Nat /\ n # 0
    BY <2>2, LenProperties, EmptySeq
  <2> QED
    BY <2>1, <2>2, <2>3
<1>3. (n = 1 => p[1] = g) /\ (Means(g, t) <=> EndsAt(p, t, Len(t)))
  <2>1. Exact(g, t)
    BY ExactAlways
  <2>2. Len(t) \in 0 .. Len(t)
    BY <1>1
  <2> QED
    BY <2>1, <2>2 DEF Exact, Means
<1>4. globMatch(g, t) <=> IF n = 1 THEN t = g
                          ELSE StartsWith(t, p[1]) /\ M # NotFound
                               /\ Len(t) - Len(last) >= M /\ EndsWith(t, last)
  BY DEF globMatch
<1> HIDE DEF p
<1>5. CASE n = 1
  <2>1. Means(g, t) <=> Stands(g, t, 0) /\ Len(t) = Len(g)
    BY <1>1, <1>3, <1>5 DEF EndsAt
  <2>2. t = g <=> Stands(g, t, 0) /\ Len(t) = Len(g)
    <3>1. Stands(g, t, 0) <=> Len(g) <= Len(t) /\ \A j \in 1 .. Len(g) : t[j] = g[j]
      <4>1. \A j \in 1 .. Len(g) : 0 + j = j
        BY <1>1
      <4> QED
        BY <1>1, <4>1 DEF Stands
    <3>2. ASSUME Len(t) = Len(g), \A j \in 1 .. Len(g) : t[j] = g[j] PROVE t = g
      BY <3>2, SeqEqual
    <3> QED
      BY <1>1, <3>1, <3>2
  <2> QED
    BY <1>4, <1>5, <2>1, <2>2
<1>6. CASE n # 1
  <2>1. n \in 1 .. n /\ n >= 2
    <3> HIDE DEF n
    <3> QED
      BY <1>2, <1>6
  <2>2. Len(last) \in Nat
    BY <1>2, <2>1, ElementOfSeq, LenProperties
  <2>3. M \in Places
    BY <1>2, <2>1, MiddlesFirst
  <2>4. Means(g, t) <=> /\ Stands(p[1], t, 0) /\ M # NotFound
                        /\ Len(t) - Len(last) >= M /\ Stands(last, t, Len(t) - Len(last))
    <3>1. Len(t) \in 0 .. Len(t)
      BY <1>1
    <3> QED
      BY <1>3, <1>6, <3>1 DEF EndsAt
  <2> HIDE DEF n, last, M
  <2>5. M # NotFound /\ Len(t) - Len(last) >= M => Len(last) <= Len(t)
    BY <1>1, <2>2, <2>3 DEF Places
  <2> QED
    BY <1>4, <1>6, <2>4, <2>5 DEF StartsWith, EndsWith
<1> QED
  BY <1>5, <1>6

(* What is written is a glob or a path.                                    *)
WrittenType ==
  /\ written.as \in {"glob", "path"}
  /\ written.text \in Seq(IF written.as = "glob" THEN GlobChars ELSE PathChars)
  /\ written = [as |-> written.as, text |-> written.text]

LEMMA WrittenTyped == WrittenSpec => []WrittenType
<1>1. WrittenInit => WrittenType
  <2> SUFFICES ASSUME WrittenInit PROVE WrittenType
    OBVIOUS
  <2>1. \A C : << >> \in Seq(C)
    BY EmptySeq
  <2> QED
    BY <2>1 DEF WrittenInit, WrittenType
<1>2. WrittenType /\ [WriteNext]_written => WrittenType'
  <2> SUFFICES ASSUME WrittenType, [WriteNext]_written PROVE WrittenType'
    OBVIOUS
  <2>1. ASSUME NEW as \in {"glob", "path"}, NEW chars, NEW max, Write(as, chars, max),
               chars = IF as = "glob" THEN GlobChars ELSE PathChars
        PROVE  WrittenType'
    <3>1. PICK x \in chars : written' = [written EXCEPT !.text = Append(@, x)]
      BY <2>1 DEF Write
    <3>2. written.as = as /\ written.text \in Seq(chars)
      BY <2>1 DEF Write, WrittenType
    <3>3. written' = [as |-> as, text |-> Append(written.text, x)]
      BY <3>1, <3>2 DEF WrittenType
    <3>4. Append(written.text, x) \in Seq(chars)
      BY <3>2, AppendProperties
    <3> QED
      BY <2>1, <3>3, <3>4 DEF WrittenType, GlobChars, PathChars
  <2>2. CASE UNCHANGED written
    BY <2>2 DEF WrittenType, GlobChars, PathChars
  <2> QED
    BY <2>1, <2>2 DEF WriteNext
<1> QED
  BY <1>1, <1>2, PTL DEF WrittenSpec

(* For every alphabet and every glob: the scan of globMatch matches what   *)
(* the glob means, and nothing else.                                       *)
THEOREM GlobsMean == WrittenSpec => []GlobIsExact
<1>1. WrittenType => GlobIsExact
  <2> SUFFICES ASSUME WrittenType, written.as = "glob", NEW t \in TextsOf(Letters, MaxGlob)
               PROVE  globMatch(written.text, t) <=> Means(written.text, t)
    BY DEF GlobIsExact
  <2>1. written.text \in Seq(GlobChars)
    BY DEF WrittenType
  <2>2. t \in Seq(Letters)
    BY WrittenAssumption, SeqDef DEF TextsOf
  <2> QED
    BY <2>1, <2>2, GlobMeansIt
<1> QED
  BY <1>1, WrittenTyped, PTL
-----------------------------------------------------------------------------
(* Paths.  Names without a slash, joined and walked.                       *)
LEMMA DropLast ==
  ASSUME NEW X, NEW s \in Seq(X), NEW x \in X
  PROVE  /\ Append(s, x) # << >> /\ Append(s, x)[Len(Append(s, x))] = x
         /\ SubSeq(Append(s, x), 1, Len(Append(s, x)) - 1) = s
<1> DEFINE a == Append(s, x)
           n == Len(s)
<1>1. n \in Nat /\ Len(a) = n + 1 /\ a[n + 1] = x /\ a # << >> /\ \A i \in 1 .. n : a[i] = s[i]
  BY LenProperties, AppendProperties
<1>2. \A i \in 1 .. n : s[i] \in X
  BY ElementOfSeq
<1> HIDE DEF a
<1>3. Len(a) - 1 = n
  BY <1>1
<1>4. \A i \in 1 .. n : a[i] \in X
  BY <1>1, <1>2
<1>5. SubSeq(a, 1, n) \in Seq(X) /\ Len(SubSeq(a, 1, n)) = n
      /\ \A i \in 1 .. n : SubSeq(a, 1, n)[i] = a[i]
  <2>1. /\ SubSeq(a, 1, n) \in Seq(X) /\ Len(SubSeq(a, 1, n)) = IF 1 <= n THEN n - 1 + 1 ELSE 0
        /\ \A i \in 1 .. n - 1 + 1 : SubSeq(a, 1, n)[i] = a[1 + i - 1]
    BY <1>1, <1>4, SubSeqProperties
  <2>2. n - 1 + 1 = n /\ (~(1 <= n) => n = 0) /\ \A i \in 1 .. n : 1 + i - 1 = i
    BY <1>1
  <2> HIDE DEF n
  <2> QED
    BY <2>1, <2>2
<1>6. SubSeq(a, 1, n) = s
  <2>1. \A i \in 1 .. n : SubSeq(a, 1, n)[i] = s[i]
    BY <1>1, <1>5
  <2> QED
    BY <1>5, <2>1, SeqEqual
<1> QED
  BY <1>1, <1>3, <1>6 DEF a

LEMMA StepType ==
  ASSUME NEW X, UP \in X, NEW absolute, NEW d \in Seq(X), NEW x \in X
  PROVE  Step(absolute, d, x) \in Seq(X)
<1>1. Append(d, x) \in Seq(X) /\ Append(d, UP) \in Seq(X)
  BY AppendProperties
<1>2. d # << >> => SubSeq(d, 1, Len(d) - 1) \in Seq(X)
  BY SequenceEmptyOrAppend, DropLast
<1> QED
  BY <1>1, <1>2 DEF Step

LEMMA EnterType ==
  ASSUME NEW X, NEW d \in Seq(X), NEW x \in X
  PROVE  Enter(d, x) \in Seq(X)
<1>1. Append(d, x) \in Seq(X)
  BY AppendProperties
<1>2. d # << >> => SubSeq(d, 1, Len(d) - 1) \in Seq(X)
  BY SequenceEmptyOrAppend, DropLast
<1> QED
  BY <1>1, <1>2 DEF Enter

LEMMA JoinTurnType ==
  ASSUME NEW C, "/" \in C, NEW d \in Seq(C), NEW x \in Seq(C)
  PROVE  JoinTurn(d, x) \in Seq(C)
<1>1. <<"/">> \in Seq(C)
  OBVIOUS
<1>2. d \o <<"/">> \in Seq(C)
  BY <1>1, ConcatProperties
<1>3. (d \o <<"/">>) \o x \in Seq(C)
  BY <1>2, ConcatProperties
<1> QED
  BY <1>3 DEF JoinTurn

(* A name more is a turn more of the three loops.                          *)
WalksOn(absolute, X) ==
  /\ Walked(absolute, << >>) = << >>
  /\ \A s \in Seq(X) : Walked(absolute, s) \in Seq(X)
  /\ \A s \in Seq(X), x \in X : Walked(absolute, Append(s, x)) = Step(absolute, Walked(absolute, s), x)

LEMMA WalkedAppend ==
  ASSUME NEW X, UP \in X, NEW absolute
  PROVE  WalksOn(absolute, X)
<1> DEFINE S == Seq(X)
           T == [x \in X |-> [d \in S |-> Step(absolute, d, x)]]
           s0 == << >>
<1>1. s0 \in S
  BY EmptySeq
<1>2. T \in [X -> [S -> S]] /\ \A x \in X, d \in S : T[x][d] = Step(absolute, d, x)
  BY StepType
<1> HIDE DEF S, T, s0
<1>3. ASSUME NEW s \in Seq(X) PROVE Walked(absolute, s) = Loops!Run(T, s0, s)
  <2> DEFINE n == Len(s)
             Eq(g) == g = [i \in 0 .. n |-> IF i = 0 THEN s0 ELSE Step(absolute, g[i - 1], s[i])]
             h == CHOOSE g : Eq(g)
  <2>1. PICK g : Loops!RunOf(g, S, T, s0, s)
    BY <1>1, <1>2, Loops!RunTrace
  <2>2. n \in Nat /\ \A i \in 1 .. n : s[i] \in X /\ i - 1 \in 0 .. n /\ i \in 0 .. n /\ i # 0
    BY LenProperties, ElementOfSeq
  <2>3. g \in [0 .. n -> S] /\ g[0] = s0 /\ \A i \in 1 .. n : g[i] = T[s[i]][g[i - 1]]
    BY <2>1 DEF Loops!RunOf
  <2>4. \A i \in 1 .. n : g[i] = Step(absolute, g[i - 1], s[i])
    BY <1>2, <2>2, <2>3
  <2>5. \A i \in 0 .. n : i = 0 \/ i \in 1 .. n
    BY <2>2
  <2>6. Eq(g)
    BY <2>3, <2>4, <2>5
  <2>7. Eq(h)
    BY <2>6
  <2>8. Walked(absolute, s) = h[n]
    BY DEF Walked, s0
  <2> HIDE DEF h
  <2>9. h[0] = s0 /\ \A i \in 1 .. n : h[i] = Step(absolute, h[i - 1], s[i])
    <3>1. 0 \in 0 .. n /\ \A i \in 1 .. n : i \in 0 .. n /\ i # 0
      BY <2>2
    <3> HIDE DEF n
    <3> QED
      BY <2>7, <3>1
  <2>10. Loops!Turns(h, S, T, s0, s)
    BY <1>2, <2>2, <2>9 DEF Loops!Turns
  <2> HIDE DEF n
  <2>11. h[Len(s)] = Loops!Run(T, s0, s)
    BY <1>1, <1>2, <2>10, Loops!RunUnique
  <2> QED
    BY <2>8, <2>11 DEF n
<1>4. Loops!Unrolls(S, X, T, s0)
  <2>1. s0 \in S /\ T \in [X -> [S -> S]]
    BY <1>1, <1>2
  <2> QED
    BY <2>1, Loops!RunAppend
<1>5. << >> \in Seq(X) /\ \A s \in Seq(X), x \in X : Append(s, x) \in Seq(X)
  BY EmptySeq, AppendProperties
<1>6. \A s \in Seq(X), x \in X : Walked(absolute, Append(s, x)) = Step(absolute, Walked(absolute, s), x)
  <2> SUFFICES ASSUME NEW s \in Seq(X), NEW x \in X
               PROVE  Walked(absolute, Append(s, x)) = Step(absolute, Walked(absolute, s), x)
    OBVIOUS
  <2>1. Append(s, x) \in Seq(X)
    BY <1>5
  <2>2. Walked(absolute, s) = Loops!Run(T, s0, s) /\ Walked(absolute, Append(s, x)) = Loops!Run(T, s0, Append(s, x))
    BY <1>3, <2>1
  <2>3. /\ Loops!Run(T, s0, s) \in S
        /\ Loops!Run(T, s0, Append(s, x)) = T[x][Loops!Run(T, s0, s)]
    BY <1>4 DEF Loops!Unrolls
  <2> QED
    BY <1>2, <2>2, <2>3
<1>7. Walked(absolute, << >>) = s0 /\ \A s \in Seq(X) : Walked(absolute, s) \in S
  BY <1>3, <1>4, <1>5 DEF Loops!Unrolls
<1> QED
  BY <1>6, <1>7 DEF s0, S, WalksOn

LEMMA WalkAppend ==
  ASSUME NEW X, NEW dir \in Seq(X)
  PROVE  /\ Walk(dir, << >>) = dir
         /\ \A s \in Seq(X) : Walk(dir, s) \in Seq(X)
         /\ \A s \in Seq(X), x \in X : Walk(dir, Append(s, x)) = Enter(Walk(dir, s), x)
<1> DEFINE S == Seq(X)
           T == [x \in X |-> [d \in S |-> Enter(d, x)]]
           s0 == dir
<1>1. s0 \in S
  OBVIOUS
<1>2. T \in [X -> [S -> S]] /\ \A x \in X, d \in S : T[x][d] = Enter(d, x)
  BY EnterType
<1> HIDE DEF S, T, s0
<1>3. ASSUME NEW s \in Seq(X) PROVE Walk(dir, s) = Loops!Run(T, s0, s)
  <2> DEFINE n == Len(s)
             Eq(g) == g = [i \in 0 .. n |-> IF i = 0 THEN s0 ELSE Enter(g[i - 1], s[i])]
             h == CHOOSE g : Eq(g)
  <2>1. PICK g : Loops!RunOf(g, S, T, s0, s)
    BY <1>1, <1>2, Loops!RunTrace
  <2>2. n \in Nat /\ \A i \in 1 .. n : s[i] \in X /\ i - 1 \in 0 .. n /\ i \in 0 .. n /\ i # 0
    BY LenProperties, ElementOfSeq
  <2>3. g \in [0 .. n -> S] /\ g[0] = s0 /\ \A i \in 1 .. n : g[i] = T[s[i]][g[i - 1]]
    BY <2>1 DEF Loops!RunOf
  <2>4. \A i \in 1 .. n : g[i] = Enter(g[i - 1], s[i])
    BY <1>2, <2>2, <2>3
  <2>5. \A i \in 0 .. n : i = 0 \/ i \in 1 .. n
    BY <2>2
  <2>6. Eq(g)
    BY <2>3, <2>4, <2>5
  <2>7. Eq(h)
    BY <2>6
  <2>8. Walk(dir, s) = h[n]
    BY DEF Walk, s0
  <2> HIDE DEF h
  <2>9. h[0] = s0 /\ \A i \in 1 .. n : h[i] = Enter(h[i - 1], s[i])
    <3>1. 0 \in 0 .. n /\ \A i \in 1 .. n : i \in 0 .. n /\ i # 0
      BY <2>2
    <3> HIDE DEF n
    <3> QED
      BY <2>7, <3>1
  <2>10. Loops!Turns(h, S, T, s0, s)
    BY <1>2, <2>2, <2>9 DEF Loops!Turns
  <2> HIDE DEF n
  <2>11. h[Len(s)] = Loops!Run(T, s0, s)
    BY <1>1, <1>2, <2>10, Loops!RunUnique
  <2> QED
    BY <2>8, <2>11 DEF n
<1>4. Loops!Unrolls(S, X, T, s0)
  <2>1. s0 \in S /\ T \in [X -> [S -> S]]
    BY <1>1, <1>2
  <2> QED
    BY <2>1, Loops!RunAppend
<1>5. << >> \in Seq(X) /\ \A s \in Seq(X), x \in X : Append(s, x) \in Seq(X)
  BY EmptySeq, AppendProperties
<1>6. \A s \in Seq(X), x \in X : Walk(dir, Append(s, x)) = Enter(Walk(dir, s), x)
  <2> SUFFICES ASSUME NEW s \in Seq(X), NEW x \in X
               PROVE  Walk(dir, Append(s, x)) = Enter(Walk(dir, s), x)
    OBVIOUS
  <2>1. Append(s, x) \in Seq(X)
    BY <1>5
  <2>2. Walk(dir, s) = Loops!Run(T, s0, s) /\ Walk(dir, Append(s, x)) = Loops!Run(T, s0, Append(s, x))
    BY <1>3, <2>1
  <2>3. /\ Loops!Run(T, s0, s) \in S
        /\ Loops!Run(T, s0, Append(s, x)) = T[x][Loops!Run(T, s0, s)]
    BY <1>4 DEF Loops!Unrolls
  <2> QED
    BY <1>2, <2>2, <2>3
<1>7. Walk(dir, << >>) = s0 /\ \A s \in Seq(X) : Walk(dir, s) \in S
  BY <1>3, <1>4, <1>5 DEF Loops!Unrolls
<1> QED
  BY <1>6, <1>7 DEF s0, S

LEMMA JoinAppend ==
  ASSUME NEW C, "/" \in C, NEW X, X = Seq(C)
  PROVE  /\ Join(<< >>) = << >>
         /\ \A s \in Seq(X) : Join(s) \in Seq(C)
         /\ \A s \in Seq(X), x \in X : Join(Append(s, x)) = JoinTurn(Join(s), x)
<1> DEFINE S == Seq(C)
           T == [x \in X |-> [d \in S |-> JoinTurn(d, x)]]
           s0 == << >>
<1>1. s0 \in S
  BY EmptySeq
<1>2. T \in [X -> [S -> S]] /\ \A x \in X, d \in S : T[x][d] = JoinTurn(d, x)
  BY JoinTurnType
<1> HIDE DEF S, T, s0
<1>3. ASSUME NEW s \in Seq(X) PROVE Join(s) = Loops!Run(T, s0, s)
  <2> DEFINE n == Len(s)
             Eq(g) == g = [i \in 0 .. n |-> IF i = 0 THEN s0 ELSE JoinTurn(g[i - 1], s[i])]
             h == CHOOSE g : Eq(g)
  <2>1. PICK g : Loops!RunOf(g, S, T, s0, s)
    BY <1>1, <1>2, Loops!RunTrace
  <2>2. n \in Nat /\ \A i \in 1 .. n : s[i] \in X /\ i - 1 \in 0 .. n /\ i \in 0 .. n /\ i # 0
    BY LenProperties, ElementOfSeq
  <2>3. g \in [0 .. n -> S] /\ g[0] = s0 /\ \A i \in 1 .. n : g[i] = T[s[i]][g[i - 1]]
    BY <2>1 DEF Loops!RunOf
  <2>4. \A i \in 1 .. n : g[i] = JoinTurn(g[i - 1], s[i])
    BY <1>2, <2>2, <2>3
  <2>5. \A i \in 0 .. n : i = 0 \/ i \in 1 .. n
    BY <2>2
  <2>6. Eq(g)
    BY <2>3, <2>4, <2>5
  <2>7. Eq(h)
    BY <2>6
  <2>8. Join(s) = h[n]
    BY DEF Join, s0
  <2> HIDE DEF h
  <2>9. h[0] = s0 /\ \A i \in 1 .. n : h[i] = JoinTurn(h[i - 1], s[i])
    <3>1. 0 \in 0 .. n /\ \A i \in 1 .. n : i \in 0 .. n /\ i # 0
      BY <2>2
    <3> HIDE DEF n
    <3> QED
      BY <2>7, <3>1
  <2>10. Loops!Turns(h, S, T, s0, s)
    BY <1>2, <2>2, <2>9 DEF Loops!Turns
  <2> HIDE DEF n
  <2>11. h[Len(s)] = Loops!Run(T, s0, s)
    BY <1>1, <1>2, <2>10, Loops!RunUnique
  <2> QED
    BY <2>8, <2>11 DEF n
<1>4. Loops!Unrolls(S, X, T, s0)
  <2>1. s0 \in S /\ T \in [X -> [S -> S]]
    BY <1>1, <1>2
  <2> QED
    BY <2>1, Loops!RunAppend
<1>5. << >> \in Seq(X) /\ \A s \in Seq(X), x \in X : Append(s, x) \in Seq(X)
  BY EmptySeq, AppendProperties
<1>6. \A s \in Seq(X), x \in X : Join(Append(s, x)) = JoinTurn(Join(s), x)
  <2> SUFFICES ASSUME NEW s \in Seq(X), NEW x \in X
               PROVE  Join(Append(s, x)) = JoinTurn(Join(s), x)
    OBVIOUS
  <2>1. Append(s, x) \in Seq(X)
    BY <1>5
  <2>2. Join(s) = Loops!Run(T, s0, s) /\ Join(Append(s, x)) = Loops!Run(T, s0, Append(s, x))
    BY <1>3, <2>1
  <2>3. /\ Loops!Run(T, s0, s) \in S
        /\ Loops!Run(T, s0, Append(s, x)) = T[x][Loops!Run(T, s0, s)]
    BY <1>4 DEF Loops!Unrolls
  <2> QED
    BY <1>2, <2>2, <2>3
<1>7. Join(<< >>) = s0 /\ \A s \in Seq(X) : Join(s) \in S
  BY <1>3, <1>4, <1>5 DEF Loops!Unrolls
<1> QED
  BY <1>6, <1>7 DEF s0, S

(* An equation of sequences that is to be matched as it stands.            *)
Same(a, b) == a = b

LEMMA ConcatAppend ==
  ASSUME NEW X, NEW a \in Seq(X), NEW b \in Seq(X), NEW x \in X
  PROVE  Same(Append(a \o b, x), a \o Append(b, x))
<1>1. a \o b \in Seq(X) /\ <<x>> \in Seq(X)
  BY ConcatProperties
<1>2. Append(a \o b, x) = (a \o b) \o <<x>> /\ Append(b, x) = b \o <<x>>
  BY <1>1, AppendIsConcat
<1>3. (a \o b) \o <<x>> = a \o (b \o <<x>>)
  BY <1>1, ConcatAssociative
<1> QED
  BY <1>2, <1>3 DEF Same

LEMMA Regroup ==
  ASSUME NEW X, NEW a \in Seq(X), NEW b \in Seq(X), NEW c \in Seq(X)
  PROVE  Same((a \o b) \o c, a \o (b \o c))
<1>1. (a \o b) \o c = a \o (b \o c)
  BY ConcatAssociative
<1> QED
  BY <1>1 DEF Same

Continues(X, s, t) == \E v \in Seq(X) : s = t \o v

LEMMA Prefix ==
  ASSUME NEW X, NEW s \in Seq(X), NEW t \in Seq(X)
  PROVE  StartsWith(s, t) <=> Continues(X, s, t)
<1> DEFINE n == Len(t)
           m == Len(s)
<1>1. n \in Nat /\ m \in Nat
  BY LenProperties
<1>2. StartsWith(s, t) <=> n <= m /\ \A j \in 1 .. n : s[j] = t[j]
  <2>1. \A j \in 1 .. n : 0 + j = j
    BY <1>1
  <2> QED
    BY <1>1, <2>1 DEF StartsWith, Stands
<1>3. ASSUME NEW v \in Seq(X), s = t \o v PROVE StartsWith(s, t)
  <2>1. Len(v) \in Nat /\ m = n + Len(v)
    BY <1>3, LenProperties, ConcatProperties
  <2>2. \A j \in 1 .. n + Len(v) : s[j] = IF j <= n THEN t[j] ELSE v[j - n]
    BY <1>3, ConcatProperties
  <2>3. \A j \in 1 .. n : j \in 1 .. n + Len(v) /\ j <= n
    BY <1>1, <2>1
  <2> QED
    BY <1>1, <1>2, <2>1, <2>2, <2>3
<1>4. ASSUME StartsWith(s, t) PROVE \E v \in Seq(X) : s = t \o v
  <2> DEFINE v == [i \in 1 .. m - n |-> s[n + i]]
             u == t \o v
  <2>1. m - n \in Nat /\ \A i \in 1 .. m - n : n + i \in 1 .. m
    BY <1>1, <1>2, <1>4
  <2>2. v \in [1 .. m - n -> X]
    BY <2>1, ElementOfSeq
  <2>3. v \in Seq(X) /\ Len(v) = m - n
    <3> HIDE DEF v
    <3> QED
      BY <2>1, <2>2, SeqDef
  <2>4. \A i \in 1 .. m - n : v[i] = s[n + i]
    OBVIOUS
  <2> HIDE DEF v, n, m
  <2>5. u \in Seq(X) /\ Len(u) = n + (m - n) /\ \A j \in 1 .. n + (m - n) : u[j] = IF j <= n THEN t[j] ELSE v[j - n]
    BY <2>3, ConcatProperties DEF n
  <2>6. n + (m - n) = m
    BY <1>1
  <2>7. ASSUME NEW j \in 1 .. m PROVE s[j] = u[j]
    <3>1. u[j] = IF j <= n THEN t[j] ELSE v[j - n]
      BY <2>5, <2>6
    <3>2. CASE j <= n
      <4>1. j \in 1 .. n
        BY <1>1, <3>2
      <4> QED
        BY <1>2, <1>4, <3>1, <3>2, <4>1
    <3>3. CASE ~(j <= n)
      <4>1. j - n \in 1 .. m - n /\ n + (j - n) = j
        BY <1>1, <3>3
      <4> QED
        BY <2>4, <3>1, <3>3, <4>1
    <3> QED
      BY <3>2, <3>3
  <2> HIDE DEF u
  <2>8. Len(s) = m /\ Len(u) = m
    BY <2>5, <2>6 DEF m
  <2>9. s = u
    BY <2>5, <2>7, <2>8, SeqEqual
  <2> QED
    BY <2>3, <2>9 DEF u
<1> QED
  BY <1>3, <1>4 DEF Continues

(* Splitting gives pieces without c, a piece without c is one piece, and   *)
(* what is written around a c is split on its own.                         *)
LEMMA SplitTyped ==
  ASSUME NEW N, NEW c, c \notin N
  PROVE  /\ \A s \in Seq(N \union {c}) : Split(s, c) \in Pieces(N)
         /\ \A s \in Seq(N) : Split(s, c) = <<s>>
<1> DEFINE C == N \union {c}
           P == {s \in Seq(C) : Split(s, c) \in Pieces(N)}
           Q == {s \in Seq(N) : Split(s, c) = <<s>>}
<1>1. << >> \in Seq(C) /\ << >> \in Seq(N)
  BY EmptySeq
<1>2. << >> \in P /\ << >> \in Q
  <2>1. Split(<< >>, c) = << << >> >>
    BY SplitAppend
  <2>2. << << >> >> \in Seq(Seq(N)) /\ << << >> >> # << >>
    BY <1>1
  <2> QED
    BY <1>1, <2>1, <2>2 DEF Pieces
<1>3. \A s \in Seq(C), x \in C : s \in P => Append(s, x) \in P
  <2> SUFFICES ASSUME NEW s \in Seq(C), NEW x \in C, s \in P PROVE Append(s, x) \in P
    OBVIOUS
  <2> DEFINE p == Split(s, c)
  <2>1. Append(s, x) \in Seq(C)
    BY AppendProperties
  <2>2. Split(Append(s, x), c) = SplitTurn(p, c, x)
    BY SplitAppend
  <2>3. p \in Pieces(N)
    OBVIOUS
  <2> HIDE DEF p
  <2>4. CASE x \in N
    <3>1. OneMore(N, p, SplitTurn(p, c, x), c, x)
      BY <2>3, <2>4, SplitTurnType
    <3> QED
      BY <2>1, <2>2, <3>1 DEF OneMore
  <2>5. CASE x = c
    <3>1. p \in Seq(Seq(N)) /\ << >> \in Seq(N)
      BY <1>1, <2>3 DEF Pieces
    <3>2. Append(p, << >>) \in Seq(Seq(N)) /\ Append(p, << >>) # << >>
      BY <3>1, AppendProperties
    <3> QED
      BY <2>1, <2>2, <2>5, <3>2 DEF SplitTurn, Pieces
  <2> QED
    BY <2>4, <2>5
<1>4. \A s \in Seq(N), x \in N : s \in Q => Append(s, x) \in Q
  <2> SUFFICES ASSUME NEW s \in Seq(N), NEW x \in N, Split(s, c) = <<s>>
               PROVE  Append(s, x) \in Seq(N) /\ Split(Append(s, x), c) = <<Append(s, x)>>
    OBVIOUS
  <2> DEFINE a == Append(s, x)
  <2>1. a \in Seq(N)
    BY AppendProperties
  <2>2. Split(a, c) = SplitTurn(<<s>>, c, x)
    BY SplitAppend
  <2>3. SplitTurn(<<s>>, c, x) = [<<s>> EXCEPT ![1] = a]
    BY DEF SplitTurn
  <2> HIDE DEF a
  <2>4. [<<s>> EXCEPT ![1] = a] = <<a>>
    OBVIOUS
  <2> QED
    BY <2>1, <2>2, <2>3, <2>4 DEF a
<1>5. \A s \in Seq(C) : s \in P
  <2> HIDE DEF P, C
  <2> QED
    BY <1>2, <1>3, Loops!SeqInduction
<1>6. \A s \in Seq(N) : s \in Q
  <2> HIDE DEF Q
  <2> QED
    BY <1>2, <1>4, Loops!SeqInduction
<1> QED
  BY <1>5, <1>6

SplitsAround(C, c, u, v) ==
  u \o <<c>> \o v \in Seq(C) /\ Split(u \o <<c>> \o v, c) = Split(u, c) \o Split(v, c)

LEMMA SplitConcat ==
  ASSUME NEW C, NEW c \in C, NEW u \in Seq(C), NEW v \in Seq(C)
  PROVE  SplitsAround(C, c, u, v)
<1> DEFINE a == u \o <<c>>
           p == Split(u, c)
           P == {s \in Seq(C) : a \o s \in Seq(C) /\ Split(a \o s, c) = p \o Split(s, c)}
<1>1. a \in Seq(C) /\ << >> \in Seq(C) /\ a = Append(u, c)
  BY AppendIsConcat, ConcatProperties, EmptySeq
<1>2. p \in Pieces(C) /\ p \in Seq(Seq(C))
  BY SplitAppend DEF Pieces
<1> HIDE DEF a, p
<1>3. << >> \in P
  <2>1. a \o << >> = a
    BY <1>1, ConcatEmptySeq
  <2>2. Split(a, c) = Append(p, << >>)
    <3>1. Split(Append(u, c), c) = SplitTurn(Split(u, c), c, c)
      BY SplitAppend
    <3> QED
      BY <1>1, <3>1 DEF SplitTurn, p
  <2>3. Append(p, << >>) = p \o << << >> >>
    BY <1>1, <1>2, AppendIsConcat
  <2>4. Split(<< >>, c) = << << >> >>
    BY SplitAppend
  <2> QED
    BY <1>1, <2>1, <2>2, <2>3, <2>4
<1>4. ASSUME NEW s \in Seq(C), NEW x \in C, s \in P PROVE Append(s, x) \in P
  <2> DEFINE q == Split(s, c)
             y == Append(q[Len(q)], x)
             w == a \o s
  <2>1. Append(s, x) \in Seq(C) /\ w \in Seq(C) /\ Append(w, x) \in Seq(C)
    BY <1>4, AppendProperties
  <2>2. a \o Append(s, x) = Append(w, x)
    BY <1>1, ConcatAppend DEF Same
  <2>3. Split(w, c) = p \o q
    BY <1>4
  <2>4. q \in Pieces(C) /\ Split(Append(s, x), c) = SplitTurn(q, c, x)
    BY SplitAppend
  <2> HIDE DEF q, w
  <2>5. Split(Append(w, x), c) = SplitTurn(p \o q, c, x)
    <3>1. Split(Append(w, x), c) = SplitTurn(Split(w, c), c, x)
      BY <2>1, SplitAppend
    <3> QED
      BY <2>3, <3>1
  <2>6. q \in Seq(Seq(C)) /\ Len(q) \in Nat \ {0} /\ q[Len(q)] \in Seq(C)
    BY <2>4, SplitTurnType DEF OneMore
  <2>7. SplitTurn(p \o q, c, x) = p \o SplitTurn(q, c, x)
    <3>1. CASE x = c
      <4>1. Append(p \o q, << >>) = p \o Append(q, << >>)
        <5>1. Same(Append(p \o q, << >>), p \o Append(q, << >>))
          BY <1>1, <1>2, <2>6, ConcatAppend
        <5> QED
          BY <5>1 DEF Same
      <4> QED
        BY <3>1, <4>1 DEF SplitTurn
    <3>2. CASE x # c
      <4> DEFINE X == Seq(C)
                 r == p \o q
                 m == Len(p)
                 k == Len(q)
                 z == [r EXCEPT ![m + k] = y]
                 f == [q EXCEPT ![k] = y]
                 g == p \o f
      <4>1. y \in X
        BY <2>6, AppendProperties
      <4>2. /\ m \in Nat /\ k \in Nat /\ k >= 1 /\ r \in Seq(X) /\ Len(r) = m + k
            /\ \A i \in 1 .. m + k : r[i] = IF i <= m THEN p[i] ELSE q[i - m]
        <5>1. m \in Nat /\ k \in Nat /\ k >= 1
          BY <1>2, <2>6, LenProperties
        <5> HIDE DEF X
        <5> QED
          BY <1>2, <2>6, <5>1, ConcatProperties DEF X
      <4>3. m + k \in 1 .. m + k /\ k \in 1 .. k /\ ~(m + k <= m) /\ (m + k) - m = k
        BY <4>2
      <4> HIDE DEF X, r, y, m, k
      <4>4. f \in Seq(X) /\ Len(f) = k /\ \A i \in 1 .. k : f[i] = IF i = k THEN y ELSE q[i]
        BY <2>6, <4>1, <4>3, ExceptSeq DEF X, k
      <4>5. /\ z \in Seq(X) /\ Len(z) = m + k
            /\ \A i \in 1 .. m + k : z[i] = IF i = m + k THEN y ELSE r[i]
        BY <4>1, <4>2, <4>3, ExceptSeq
      <4> HIDE DEF z, f
      <4>6. /\ g \in Seq(X) /\ Len(g) = m + k
            /\ \A i \in 1 .. m + k : g[i] = IF i <= m THEN p[i] ELSE f[i - m]
        BY <1>2, <4>4, ConcatProperties DEF X, m
      <4>7. ASSUME NEW i \in 1 .. m + k PROVE z[i] = g[i]
        <5>1. CASE i <= m
          <6>1. i # m + k
            BY <4>2, <5>1
          <6> QED
            BY <4>2, <4>5, <4>6, <5>1, <6>1
        <5>2. CASE ~(i <= m)
          <6>1. i - m \in 1 .. k /\ (i - m = k <=> i = m + k)
            BY <4>2, <5>2
          <6> QED
            BY <4>2, <4>4, <4>5, <4>6, <5>2, <6>1
        <5> QED
          BY <5>1, <5>2
      <4> HIDE DEF g
      <4>8. z = g
        BY <4>5, <4>6, <4>7, SeqEqual
      <4>9. r[Len(r)] = q[Len(q)]
        BY <4>2, <4>3 DEF k
      <4>10. SplitTurn(r, c, x) = z /\ SplitTurn(q, c, x) = f
        BY <3>2, <4>2, <4>9 DEF SplitTurn, z, f, y, k
      <4> QED
        BY <4>8, <4>10 DEF g, r
    <3> QED
      BY <3>1, <3>2
  <2> QED
    BY <2>1, <2>2, <2>4, <2>5, <2>7 DEF w, q
<1>5. \A s \in Seq(C) : s \in P
  <2>1. \A s \in Seq(C), x \in C : s \in P => Append(s, x) \in P
    BY <1>4
  <2> HIDE DEF P
  <2> QED
    BY <1>3, <2>1, Loops!SeqInduction
<1> QED
  BY <1>5 DEF a, p, SplitsAround

LEMMA SplitSlashed ==
  ASSUME NEW C, NEW c \in C, NEW v \in Seq(C)
  PROVE  <<c>> \o v \in Seq(C) /\ Same(Split(<<c>> \o v, c), << << >> >> \o Split(v, c))
<1>1. << >> \in Seq(C) /\ Split(<< >>, c) = << << >> >> /\ << >> \o <<c>> = <<c>>
  <2>1. Split(<< >>, c) = << << >> >>
    BY SplitAppend
  <2> QED
    BY <2>1, EmptySeq
<1>2. SplitsAround(C, c, << >>, v)
  BY <1>1, SplitConcat
<1> QED
  BY <1>1, <1>2 DEF SplitsAround, Same

(* Names that a normal path may be made of, and a slash between them.      *)
GoodNames(N) == Seq(N) \ {<< >>, <<".">>}

LEMMA JoinOne ==
  ASSUME NEW C, "/" \in C, NEW n \in Seq(C)
  PROVE  Join(<<n>>) = n
<1> DEFINE X == Seq(C)
<1>1. <<n>> = Append(<< >>, n) /\ << >> \in Seq(X) /\ n \in X
  BY EmptySeq
<1>2. X = Seq(C)
  OBVIOUS
<1> HIDE DEF X
<1>3. /\ Join(<< >>) = << >>
      /\ \A s \in Seq(X) : Join(s) \in Seq(C)
      /\ \A s \in Seq(X), x \in X : Join(Append(s, x)) = JoinTurn(Join(s), x)
  BY <1>2, JoinAppend
<1>4. Join(<<n>>) = JoinTurn(<< >>, n)
  BY <1>1, <1>3
<1> QED
  BY <1>4 DEF JoinTurn

LEMMA JoinConcat ==
  ASSUME NEW N, "/" \notin N, NEW a \in Seq(GoodNames(N)), a # << >>
  PROVE  /\ Join(a) \in Seq(N \union {"/"}) /\ Join(a) # << >>
         /\ \A b \in Seq(GoodNames(N)) :
              b # << >> => Join(a \o b) = Join(a) \o <<"/">> \o Join(b)
<1> DEFINE C == N \union {"/"}
           G == GoodNames(N)
           X == Seq(C)
           slash == <<"/">>
<1>1. "/" \in C /\ slash \in X /\ << >> \in Seq(G) /\ << >> \in X
  BY EmptySeq
<1>2. G \subseteq X /\ << >> \notin G
  <2>1. Seq(N) \subseteq Seq(C)
    BY SeqMonotonic
  <2> QED
    BY <2>1 DEF GoodNames
<1>3. \A s \in Seq(G) : s \in Seq(X)
  <2> HIDE DEF G, X
  <2> QED
    BY <1>2, SeqMonotonic
<1>4. /\ Join(<< >>) = << >>
      /\ \A s \in Seq(X) : Join(s) \in X
      /\ \A s \in Seq(X), x \in X : Join(Append(s, x)) = JoinTurn(Join(s), x)
  <2>1. "/" \in C /\ X = Seq(C)
    BY <1>1
  <2> HIDE DEF X, C
  <2> QED
    BY <2>1, JoinAppend
<1> HIDE DEF C, G, X, slash
<1>5. ASSUME NEW s \in X, s # << >>, NEW x \in X
      PROVE  /\ JoinTurn(s, x) = s \o slash \o x /\ JoinTurn(s, x) # << >>
             /\ JoinTurn(s, x) \in X /\ s \o slash \in X
  <2>1. s \o slash \in Seq(C) /\ (s \o slash = << >> <=> s = << >> /\ slash = << >>)
    BY <1>1, ConcatProperties, ConcatEqualIffEmpty DEF X
  <2>2. s \o slash \o x \in Seq(C) /\ (s \o slash \o x = << >> <=> s \o slash = << >> /\ x = << >>)
    BY <2>1, ConcatProperties, ConcatEqualIffEmpty DEF X
  <2> QED
    BY <1>5, <2>1, <2>2 DEF JoinTurn, slash, X
<1>7. \A s \in Seq(G) : s # << >> => Join(s) # << >>
  <2> DEFINE P == {s \in Seq(G) : s # << >> => Join(s) # << >>}
  <2>1. << >> \in P
    BY <1>1
  <2>2. \A s \in Seq(G), x \in G : s \in P => Append(s, x) \in P
    <3> SUFFICES ASSUME NEW s \in Seq(G), NEW x \in G, s # << >> => Join(s) # << >>
                 PROVE  Append(s, x) \in Seq(G) /\ Join(Append(s, x)) # << >>
      OBVIOUS
    <3>1. Append(s, x) \in Seq(G)
      BY AppendProperties
    <3>2. Join(Append(s, x)) = JoinTurn(Join(s), x) /\ Join(s) \in X /\ x \in X
      BY <1>2, <1>3, <1>4
    <3>3. CASE s = << >>
      <4>1. Join(Append(s, x)) = x
        BY <1>4, <3>2, <3>3 DEF JoinTurn
      <4> QED
        BY <1>2, <3>1, <4>1
    <3>4. CASE s # << >>
      BY <1>5, <3>1, <3>2, <3>4
    <3> QED
      BY <3>3, <3>4
  <2> HIDE DEF P
  <2>3. \A s \in Seq(G) : s \in P
    BY <2>1, <2>2, Loops!SeqInduction
  <2> QED
    BY <2>3 DEF P
<1>8. a \in Seq(G) /\ a \in Seq(X) /\ Join(a) \in X /\ Join(a) # << >>
  BY <1>3, <1>4, <1>7 DEF G
<1> DEFINE joined == Join(a)
           P == {b \in Seq(G) : b # << >> => Join(a \o b) = joined \o slash \o Join(b)}
<1>9. << >> \in P
  BY <1>1
<1>10. \A b \in Seq(G), x \in G : b \in P => Append(b, x) \in P
  <2> SUFFICES ASSUME NEW b \in Seq(G), NEW x \in G,
                      b # << >> => Join(a \o b) = joined \o slash \o Join(b)
               PROVE  /\ Append(b, x) \in Seq(G)
                      /\ Join(a \o Append(b, x)) = joined \o slash \o Join(Append(b, x))
    OBVIOUS
  <2>1. Append(b, x) \in Seq(G)
    BY AppendProperties
  <2>2. x \in X /\ b \in Seq(X) /\ a \o b \in Seq(G) /\ a \o b \in Seq(X)
    <3>1. a \o b \in Seq(G)
      BY <1>8, ConcatProperties
    <3> QED
      BY <1>2, <1>3, <3>1
  <2>3. a \o Append(b, x) = Append(a \o b, x)
    BY <1>8, ConcatAppend DEF Same
  <2>4. Join(a \o Append(b, x)) = JoinTurn(Join(a \o b), x) /\ Join(Append(b, x)) = JoinTurn(Join(b), x)
    BY <1>4, <2>2, <2>3
  <2>5. CASE b = << >>
    <3>1. a \o b = a
      BY <1>8, <2>5, ConcatEmptySeq
    <3>2. Join(Append(b, x)) = x
      BY <1>4, <2>4, <2>5 DEF JoinTurn
    <3>3. JoinTurn(Join(a), x) = Join(a) \o slash \o x
      BY <1>5, <1>8, <2>2
    <3> QED
      BY <2>1, <2>4, <3>1, <3>2, <3>3
  <2>6. CASE b # << >>
    <3> DEFINE j == Join(b)
    <3>1. j \in X /\ j # << >>
      BY <1>4, <1>7, <2>2, <2>6
    <3>2. Join(a \o b) = joined \o slash \o j
      BY <2>6
    <3>3. joined \o slash \in X /\ joined \o slash \o j = JoinTurn(joined, j)
      BY <1>5, <1>8, <3>1
    <3> HIDE DEF j, joined
    <3>4. joined \o slash \o j \in X /\ joined \o slash \o j # << >>
      BY <1>5, <1>8, <3>1, <3>3 DEF joined
    <3>5. JoinTurn(joined \o slash \o j, x) = (joined \o slash \o j) \o slash \o x
      BY <1>5, <2>2, <3>4
    <3>6. JoinTurn(j, x) = j \o slash \o x /\ j \o slash \in X
      BY <1>5, <2>2, <3>1
    <3>7. (joined \o slash \o j) \o slash \o x = joined \o slash \o (j \o slash \o x)
      <4> DEFINE y == joined \o slash
      <4>1. y \in X
        BY <3>3
      <4> HIDE DEF y
      <4>2. Same((y \o j) \o slash, y \o (j \o slash))
        BY <1>1, <3>1, <4>1, Regroup DEF X
      <4>3. Same((y \o (j \o slash)) \o x, y \o ((j \o slash) \o x))
        BY <2>2, <3>6, <4>1, Regroup DEF X
      <4> QED
        BY <4>2, <4>3 DEF y, Same
    <3> QED
      BY <2>1, <2>4, <3>2, <3>5, <3>6, <3>7 DEF j
  <2> QED
    BY <2>5, <2>6
<1>11. \A b \in Seq(G) : b \in P
  <2> HIDE DEF P
  <2> QED
    BY <1>9, <1>10, Loops!SeqInduction
<1> QED
  BY <1>8, <1>11 DEF G, C, X, slash

LEMMA SplitJoin ==
  ASSUME NEW N, "/" \notin N, NEW a \in Seq(GoodNames(N)), a # << >>
  PROVE  Split(Join(a), "/") = a
<1> DEFINE C == N \union {"/"}
           G == GoodNames(N)
           P == {s \in Seq(G) : s # << >> => Split(Join(s), "/") = s}
<1>1. << >> \in P
  BY EmptySeq
<1>2. \A s \in Seq(G), x \in G : s \in P => Append(s, x) \in P
  <2> SUFFICES ASSUME NEW s \in Seq(G), NEW x \in G, s # << >> => Split(Join(s), "/") = s
               PROVE  Append(s, x) \in Seq(G) /\ Split(Join(Append(s, x)), "/") = Append(s, x)
    OBVIOUS
  <2>1. Append(s, x) \in Seq(G) /\ Append(s, x) = s \o <<x>> /\ <<x>> \in Seq(G) /\ <<x>> # << >>
    BY AppendProperties, AppendIsConcat
  <2>2. x \in Seq(N) /\ x \in Seq(C) /\ Split(x, "/") = <<x>>
    <3>1. x \in Seq(N)
      BY DEF GoodNames
    <3> QED
      BY <3>1, SplitTyped, SeqMonotonic
  <2>3. Join(<<x>>) = x
    <3>1. "/" \in C
      OBVIOUS
    <3> HIDE DEF C
    <3> QED
      BY <2>2, <3>1, JoinOne
  <2>4. CASE s = << >>
    <3>1. Append(s, x) = <<x>>
      BY <2>4
    <3> QED
      BY <2>1, <2>2, <2>3, <3>1
  <2>5. CASE s # << >>
    <3>1. Join(s \o <<x>>) = Join(s) \o <<"/">> \o x /\ Join(s) \in Seq(C)
      <4>1. Join(s \o <<x>>) = Join(s) \o <<"/">> \o Join(<<x>>) /\ Join(s) \in Seq(C)
        BY <2>1, <2>5, JoinConcat
      <4> QED
        BY <2>3, <4>1
    <3>2. Split(Join(s) \o <<"/">> \o x, "/") = Split(Join(s), "/") \o Split(x, "/")
      <4> DEFINE j == Join(s)
      <4>1. "/" \in C /\ j \in Seq(C)
        BY <3>1
      <4> HIDE DEF C, j
      <4>2. SplitsAround(C, "/", j, x)
        BY <2>2, <4>1, SplitConcat
      <4> QED
        BY <4>2 DEF j, SplitsAround
    <3> QED
      BY <2>1, <2>2, <2>5, <3>1, <3>2
  <2> QED
    BY <2>4, <2>5
<1>3. \A s \in Seq(G) : s \in P
  <2> HIDE DEF P, G
  <2> QED
    BY <1>1, <1>2, Loops!SeqInduction
<1> QED
  BY <1>3

(* An absolute path walks to its normal names, wherever it is walked from. *)
ProperNames(N) == Seq(N) \ {<< >>, <<".">>, UP}

LEMMA AbsoluteWalk ==
  ASSUME NEW N, "." \in N, NEW ns \in Seq(Seq(N))
  PROVE  /\ Walked(TRUE, ns) \in Seq(ProperNames(N))
         /\ Walk(<< >>, ns) = Walked(TRUE, ns)
<1> DEFINE X == Seq(N)
           G == ProperNames(N)
           P == {s \in Seq(X) : Walked(TRUE, s) \in Seq(G) /\ Walk(<< >>, s) = Walked(TRUE, s)}
<1>1. UP \in X /\ UP \notin G /\ \A x \in X : x \in G <=> x \notin {<< >>, <<".">>} /\ x # UP
  BY DEF UP, ProperNames
<1>2. << >> \in Seq(X) /\ << >> \in Seq(G)
  BY EmptySeq
<1>3. /\ Walked(TRUE, << >>) = << >>
      /\ \A s \in Seq(X), x \in X : Walked(TRUE, Append(s, x)) = Step(TRUE, Walked(TRUE, s), x)
  <2> HIDE DEF X
  <2>1. WalksOn(TRUE, X)
    BY <1>1, WalkedAppend
  <2> QED
    BY <2>1 DEF WalksOn
<1>4. /\ Walk(<< >>, << >>) = << >>
      /\ \A s \in Seq(X), x \in X : Walk(<< >>, Append(s, x)) = Enter(Walk(<< >>, s), x)
  <2> HIDE DEF X
  <2> QED
    <3> DEFINE d == << >>
    <3>1. d \in Seq(X)
      BY <1>2
    <3> HIDE DEF d
    <3>2. /\ Walk(d, << >>) = d
          /\ \A s \in Seq(X) : Walk(d, s) \in Seq(X)
          /\ \A s \in Seq(X), x \in X : Walk(d, Append(s, x)) = Enter(Walk(d, s), x)
      BY <3>1, WalkAppend
    <3> QED
      BY <3>2 DEF d
<1> HIDE DEF X, G
<1>5. << >> \in P
  BY <1>2, <1>3, <1>4
<1>6. \A s \in Seq(X), x \in X : s \in P => Append(s, x) \in P
  <2> SUFFICES ASSUME NEW s \in Seq(X), NEW x \in X, s \in P PROVE Append(s, x) \in P
    OBVIOUS
  <2> DEFINE w == Walked(TRUE, s)
  <2>1. Append(s, x) \in Seq(X)
    BY AppendProperties
  <2>2. w \in Seq(G) /\ Walk(<< >>, s) = w
    OBVIOUS
  <2>3. Walked(TRUE, Append(s, x)) = Step(TRUE, w, x) /\ Walk(<< >>, Append(s, x)) = Enter(w, x)
    BY <1>3, <1>4, <2>2
  <2> HIDE DEF w
  <2>4. Step(TRUE, w, x) \in Seq(G) /\ Step(TRUE, w, x) = Enter(w, x)
    <3>1. CASE x \in {<< >>, <<".">>}
      BY <2>2, <3>1 DEF Step, Enter
    <3>2. CASE x \notin {<< >>, <<".">>} /\ x # UP
      <4>1. Append(w, x) \in Seq(G)
        BY <1>1, <2>2, <3>2, AppendProperties
      <4> QED
        BY <3>2, <4>1 DEF Step, Enter
    <3>3. CASE x \notin {<< >>, <<".">>} /\ x = UP /\ w = << >>
      BY <1>2, <3>3 DEF Step, Enter
    <3>4. CASE x \notin {<< >>, <<".">>} /\ x = UP /\ w # << >>
      <4>1. PICK f \in Seq(G), y \in G : w = Append(f, y)
        BY <2>2, <3>4, SequenceEmptyOrAppend
      <4>2. w[Len(w)] = y /\ SubSeq(w, 1, Len(w) - 1) = f
        BY <4>1, DropLast
      <4>3. y # UP
        BY <1>1, <4>1
      <4> QED
        BY <3>4, <4>1, <4>2, <4>3 DEF Step, Enter
    <3> QED
      BY <3>1, <3>2, <3>3, <3>4
  <2> QED
    BY <2>1, <2>3, <2>4
<1>7. \A s \in Seq(X) : s \in P
  <2> HIDE DEF P
  <2> QED
    BY <1>5, <1>6, Loops!SeqInduction
<1> QED
  BY <1>7 DEF X, G

(* A relative one walks to its normal names too, from where it is walked,  *)
(* unless they start upwards.                                              *)
LEMMA RelativeWalk ==
  ASSUME NEW N, "." \in N, NEW D \in Seq(Seq(N)), NEW ns \in Seq(Seq(N))
  PROVE  /\ Walked(FALSE, ns) \in Seq(GoodNames(N))
         /\ Walked(FALSE, ns) = << >> \/ Walked(FALSE, ns)[1] # UP =>
              Walk(D, ns) = D \o Walked(FALSE, ns)
<1> DEFINE X == Seq(N)
           G == GoodNames(N)
           H == ProperNames(N)
           Ups == Seq({UP})
           Is(w, d) == \E u \in Ups, r \in Seq(H) : w = u \o r /\ (u = << >> => d = D \o r)
           P == {s \in Seq(X) : Is(Walked(FALSE, s), Walk(D, s))}
<1>1. /\ UP \in X /\ UP \in G /\ UP \notin H /\ H \subseteq G /\ G \subseteq X
      /\ \A x \in X : x \in H <=> x \notin {<< >>, <<".">>} /\ x # UP
  BY DEF UP, ProperNames, GoodNames
<1>2. << >> \in Seq(X) /\ << >> \in Seq(H) /\ << >> \in Ups
  BY EmptySeq
<1>3. /\ \A s \in Ups : s \in Seq(X) /\ s \in Seq(G)
      /\ \A s \in Seq(H) : s \in Seq(X) /\ s \in Seq(G)
      /\ \A s \in Seq(G) : s \in Seq(X)
  <2> HIDE DEF X, G, H
  <2>1. {UP} \subseteq X /\ {UP} \subseteq G /\ H \subseteq X
    BY <1>1
  <2> QED
    BY <1>1, <2>1, SeqMonotonic
<1>4. /\ Walked(FALSE, << >>) = << >>
      /\ \A s \in Seq(X), x \in X : Walked(FALSE, Append(s, x)) = Step(FALSE, Walked(FALSE, s), x)
  <2> HIDE DEF X
  <2>1. WalksOn(FALSE, X)
    BY <1>1, WalkedAppend
  <2> QED
    BY <2>1 DEF WalksOn
<1>5. /\ Walk(D, << >>) = D
      /\ \A s \in Seq(X), x \in X : Walk(D, Append(s, x)) = Enter(Walk(D, s), x)
  <2>1. D \in Seq(X)
    OBVIOUS
  <2> HIDE DEF X
  <2> QED
    BY <2>1, WalkAppend
<1>6. D \in Seq(X)
  OBVIOUS
<1> HIDE DEF X, G, H, Ups
<1>7. \A b \in Seq(X), c \in Seq(X), x \in X : b \o c \in Seq(X) /\ b \o Append(c, x) = Append(b \o c, x)
  <2> SUFFICES ASSUME NEW b \in Seq(X), NEW c \in Seq(X), NEW x \in X
               PROVE  b \o c \in Seq(X) /\ b \o Append(c, x) = Append(b \o c, x)
    OBVIOUS
  <2>1. b \o c \in Seq(X)
    BY ConcatProperties
  <2>2. Same(Append(b \o c, x), b \o Append(c, x))
    BY ConcatAppend
  <2> QED
    BY <2>1, <2>2 DEF Same
<1>8. << >> \in P
  <2>1. << >> = << >> \o << >> /\ D = D \o << >>
    BY <1>2, <1>6, ConcatEmptySeq
  <2> QED
    BY <1>2, <1>4, <1>5, <2>1
<1>9. ASSUME NEW u \in Ups, NEW r \in Seq(H), NEW d, u = << >> => d = D \o r, NEW x \in X
      PROVE  Is(Step(FALSE, u \o r, x), Enter(d, x))
  <2> DEFINE w == u \o r
  <2>1. CASE x \in {<< >>, <<".">>}
    BY <1>9, <2>1 DEF Step, Enter
  <2>2. CASE x \notin {<< >>, <<".">>} /\ x # UP
    <3>1. Append(r, x) \in Seq(H)
      BY <1>1, <2>2, AppendProperties
    <3>2. Append(w, x) = u \o Append(r, x) /\ Append(D \o r, x) = D \o Append(r, x)
      BY <1>3, <1>6, <1>7
    <3>3. Step(FALSE, w, x) = Append(w, x) /\ Enter(d, x) = Append(d, x)
      BY <2>2 DEF Step, Enter
    <3> HIDE DEF w
    <3> QED
      BY <1>9, <3>1, <3>2, <3>3 DEF w
  <2>3. CASE x \notin {<< >>, <<".">>} /\ x = UP /\ r # << >>
    <3>1. PICK f \in Seq(H), y \in H : r = Append(f, y)
      BY <2>3, SequenceEmptyOrAppend
    <3>2. y \in X /\ y # UP /\ u \in Seq(X) /\ f \in Seq(X)
      BY <1>1, <1>3, <3>1
    <3>3. /\ w = Append(u \o f, y) /\ u \o f \in Seq(X)
          /\ D \o r = Append(D \o f, y) /\ D \o f \in Seq(X)
      BY <1>6, <1>7, <3>1, <3>2
    <3> HIDE DEF w
    <3>4. w # << >> /\ w[Len(w)] = y /\ SubSeq(w, 1, Len(w) - 1) = u \o f
      <4> DEFINE z == u \o f
      <4>1. z \in Seq(X) /\ w = Append(z, y)
        BY <3>3
      <4> HIDE DEF z
      <4>2. Append(z, y) # << >> /\ Append(z, y)[Len(Append(z, y))] = y
            /\ SubSeq(Append(z, y), 1, Len(Append(z, y)) - 1) = z
        BY <3>2, <4>1, DropLast
      <4> QED
        BY <4>1, <4>2 DEF z
    <3>5. D \o r # << >> /\ SubSeq(D \o r, 1, Len(D \o r) - 1) = D \o f
      BY <3>2, <3>3, DropLast
    <3>6. Step(FALSE, w, x) = u \o f
      BY <2>3, <3>2, <3>4 DEF Step
    <3>7. u = << >> => Enter(d, x) = D \o f
      <4> SUFFICES ASSUME u = << >> PROVE Enter(d, x) = D \o f
        OBVIOUS
      <4>1. d = D \o r
        BY <1>9
      <4> HIDE DEF Ups
      <4> QED
        BY <2>3, <3>5, <4>1 DEF Enter
    <3> QED
      BY <3>1, <3>6, <3>7 DEF w
  <2>4. CASE x \notin {<< >>, <<".">>} /\ x = UP /\ r = << >>
    <3>1. w = u /\ Append(u, UP) \in Ups /\ Append(u, UP) # << >> /\ Append(u, UP) = Append(u, UP) \o << >>
      <4>1. u \o << >> = u
        BY <1>3, ConcatEmptySeq
      <4>2. Append(u, UP) \in Ups /\ Append(u, UP) # << >>
        BY AppendProperties DEF Ups
      <4>3. Append(u, UP) \in Seq(X)
        BY <1>3, <4>2
      <4> DEFINE a == Append(u, UP)
      <4> HIDE DEF a
      <4>4. a \o << >> = a
        BY <4>3, ConcatEmptySeq DEF a
      <4> QED
        BY <2>4, <4>1, <4>2, <4>4 DEF a
    <3> HIDE DEF w
    <3>2. u # << >> => u[Len(u)] = UP
      <4> SUFFICES ASSUME u # << >> PROVE u[Len(u)] = UP
        OBVIOUS
      <4> DEFINE V == {UP}
      <4>1. u \in Seq(V)
        BY DEF Ups
      <4> HIDE DEF V
      <4>2. PICK f \in Seq(V), y \in V : u = Append(f, y)
        BY <4>1, SequenceEmptyOrAppend
      <4>3. u[Len(u)] = y
        BY <4>2, DropLast
      <4> QED
        BY <4>3 DEF V
    <3>3. Step(FALSE, w, x) = Append(u, UP)
      BY <2>4, <3>1, <3>2 DEF Step
    <3> DEFINE a == Append(u, UP)
    <3> HIDE DEF a
    <3>4. a \in Ups /\ a # << >> /\ a = a \o << >> /\ Step(FALSE, w, x) = a
      BY <3>1, <3>3 DEF a
    <3> QED
      BY <1>2, <3>4 DEF w
  <2> QED
    BY <2>1, <2>2, <2>3, <2>4
<1>10. \A s \in Seq(X), x \in X : s \in P => Append(s, x) \in P
  <2> SUFFICES ASSUME NEW s \in Seq(X), NEW x \in X, s \in P PROVE Append(s, x) \in P
    OBVIOUS
  <2>1. Append(s, x) \in Seq(X)
    BY AppendProperties
  <2>2. PICK u \in Ups, r \in Seq(H) : Walked(FALSE, s) = u \o r /\ (u = << >> => Walk(D, s) = D \o r)
    OBVIOUS
  <2> DEFINE d == Walk(D, s)
  <2>3. u = << >> => d = D \o r
    BY <2>2
  <2> HIDE DEF Is, d
  <2>4. Is(Step(FALSE, u \o r, x), Enter(d, x))
    BY <1>9, <2>3
  <2>5. /\ Walked(FALSE, Append(s, x)) = Step(FALSE, u \o r, x)
        /\ Walk(D, Append(s, x)) = Enter(Walk(D, s), x)
    BY <1>4, <1>5, <2>2
  <2> QED
    BY <2>1, <2>4, <2>5 DEF d
<1>11. \A s \in Seq(X) : s \in P
  <2> HIDE DEF P
  <2> QED
    BY <1>8, <1>10, Loops!SeqInduction
<1>12. PICK u \in Ups, r \in Seq(H) : Walked(FALSE, ns) = u \o r /\ (u = << >> => Walk(D, ns) = D \o r)
  BY <1>11 DEF X
<1> DEFINE w == u \o r
<1>13. u \in Seq(G) /\ r \in Seq(G)
  BY <1>3
<1>14. w \in Seq(G)
  BY <1>13, ConcatProperties
<1>15. u # << >> => w # << >> /\ w[1] = UP
  <2> SUFFICES ASSUME u # << >> PROVE w # << >> /\ w[1] = UP
    OBVIOUS
  <2>1. Len(u) \in Nat \ {0} /\ Len(r) \in Nat /\ Len(w) = Len(u) + Len(r) /\ Len(w) # 0
    BY <1>13, EmptySeq, LenProperties, ConcatProperties
  <2>2. 1 \in 1 .. Len(u) /\ 1 \in 1 .. Len(u) + Len(r) /\ 1 <= Len(u)
    BY <2>1
  <2>3. w[1] = u[1]
    BY <1>13, <2>2, ConcatProperties
  <2>4. u[1] \in {UP}
    BY <2>2, ElementOfSeq DEF Ups
  <2> HIDE DEF w
  <2> QED
    BY <2>1, <2>3, <2>4, EmptySeq
<1>16. u = << >> => w = r
  BY <1>13, ConcatEmptySeq
<1> HIDE DEF w
<1>17. Walked(FALSE, ns) = w
  BY <1>12 DEF w
<1> QED
  BY <1>12, <1>14, <1>15, <1>16, <1>17 DEF G

(* What a path is taken for: its normal names, how normPath spells them,   *)
(* and where they lead.                                                    *)
NormalNames(p) == Walked(Absolute(p), Split(p, "/"))
Spelt(p) == Split(normPath(p), "/")

Placed(N, D, p) ==
  /\ normPath(p) \in Seq(N \union {"/"}) /\ NormalNames(p) \in Seq(GoodNames(N))
  /\ Leads(D, p) \in Seq(Seq(N))
  /\ Absolute(p) =>
       /\ Leads(D, p) = NormalNames(p) /\ normPath(p) = <<"/">> \o Join(NormalNames(p))
       /\ Spelt(p) = << << >> >> \o (IF NormalNames(p) = << >> THEN << << >> >> ELSE NormalNames(p))
  /\ ~Absolute(p) =>
       /\ NormalNames(p) = << >> \/ NormalNames(p)[1] # UP => Leads(D, p) = D \o NormalNames(p)
       /\ Spelt(p) = IF NormalNames(p) = << >> THEN << <<".">> >> ELSE NormalNames(p)

LEMMA PathPlaced ==
  ASSUME NEW N, "/" \notin N, "." \in N, NEW D \in Seq(Seq(N)), NEW p \in Seq(N \union {"/"})
  PROVE  Placed(N, D, p)
<1> DEFINE C == N \union {"/"}
           ns == Split(p, "/")
           w == NormalNames(p)
           j == Join(w)
<1>1. ns \in Seq(Seq(N))
  BY SplitTyped DEF Pieces
<1>2. "/" \in C /\ << >> \in Seq(C) /\ Split(<< >>, "/") = << << >> >>
  <2>1. Split(<< >>, "/") = << << >> >>
    BY SplitAppend
  <2> QED
    BY <2>1, EmptySeq
<1>3. w = << >> \/ (w # << >> /\ w \in Seq(GoodNames(N))) =>
        j \in Seq(C) /\ Split(j, "/") = IF w = << >> THEN << << >> >> ELSE w
  <2>1. CASE w = << >>
    <3>1. j = << >>
      <4> DEFINE X == Seq(C)
      <4>1. X = Seq(C)
        OBVIOUS
      <4> HIDE DEF C, X
      <4>2. /\ Join(<< >>) = << >>
            /\ \A s \in Seq(X) : Join(s) \in Seq(C)
            /\ \A s \in Seq(X), x \in X : Join(Append(s, x)) = JoinTurn(Join(s), x)
        BY <1>2, <4>1, JoinAppend
      <4> QED
        BY <2>1, <4>2
    <3> QED
      BY <1>2, <2>1, <3>1
  <2>2. CASE w # << >> /\ w \in Seq(GoodNames(N))
    <3> HIDE DEF w
    <3>1. Join(w) \in Seq(N \union {"/"})
      BY <2>2, JoinConcat
    <3>2. Split(Join(w), "/") = w
      BY <2>2, SplitJoin
    <3> QED
      BY <2>2, <3>1, <3>2
  <2> QED
    BY <2>1, <2>2
<1>4. Leads(D, p) \in Seq(Seq(N))
  <2> DEFINE X == Seq(N)
             d == IF Absolute(p) THEN << >> ELSE D
  <2>1. d \in Seq(X)
    BY EmptySeq
  <2>2. Leads(D, p) = Walk(d, ns)
    BY DEF Leads
  <2> HIDE DEF X, d, ns
  <2>3. /\ Walk(d, << >>) = d
        /\ \A s \in Seq(X) : Walk(d, s) \in Seq(X)
        /\ \A s \in Seq(X), x \in X : Walk(d, Append(s, x)) = Enter(Walk(d, s), x)
    BY <2>1, WalkAppend
  <2> QED
    BY <1>1, <2>2, <2>3 DEF X
<1>5. CASE Absolute(p)
  <2>1. w = Walked(TRUE, ns) /\ Leads(D, p) = Walk(<< >>, ns) /\ normPath(p) = <<"/">> \o j
    BY <1>5 DEF NormalNames, Leads, normPath
  <2>2. w \in Seq(ProperNames(N)) /\ Leads(D, p) = w
    <3> HIDE DEF w, ns
    <3> QED
      BY <1>1, <2>1, AbsoluteWalk
  <2>3. w \in Seq(GoodNames(N))
    <3>1. ProperNames(N) \subseteq GoodNames(N)
      BY DEF ProperNames, GoodNames
    <3> HIDE DEF w
    <3> QED
      BY <2>2, <3>1, SeqMonotonic
  <2>4. j \in Seq(C) /\ Split(j, "/") = IF w = << >> THEN << << >> >> ELSE w
    BY <1>3, <2>3
  <2>5. <<"/">> \o j \in Seq(C) /\ Split(<<"/">> \o j, "/") = << << >> >> \o Split(j, "/")
    <3> HIDE DEF j, C
    <3>1. <<"/">> \o j \in Seq(C) /\ Same(Split(<<"/">> \o j, "/"), << << >> >> \o Split(j, "/"))
      BY <1>2, <2>4, SplitSlashed
    <3> QED
      BY <3>1 DEF Same
  <2> HIDE DEF w, j, C
  <2>6. normPath(p) \in Seq(C) /\ Spelt(p) = << << >> >> \o (IF w = << >> THEN << << >> >> ELSE w)
    BY <2>1, <2>4, <2>5 DEF Spelt
  <2> QED
    BY <1>4, <1>5, <2>1, <2>2, <2>3, <2>6 DEF Placed, C, w, j
<1>6. CASE ~Absolute(p)
  <2>1. w = Walked(FALSE, ns) /\ Leads(D, p) = Walk(D, ns)
        /\ normPath(p) = IF w = << >> THEN <<".">> ELSE j
    <3>1. Absolute(p) = FALSE
      BY <1>6 DEF Absolute, StartsWith, Stands
    <3> QED
      BY <3>1 DEF NormalNames, Leads, normPath
  <2>2. w \in Seq(GoodNames(N)) /\ (w = << >> \/ w[1] # UP => Leads(D, p) = D \o w)
    <3> HIDE DEF w, ns
    <3> QED
      BY <1>1, <2>1, RelativeWalk
  <2>3. j \in Seq(C) /\ Split(j, "/") = IF w = << >> THEN << << >> >> ELSE w
    BY <1>3, <2>2
  <2>4. <<".">> \in Seq(C) /\ Split(<<".">>, "/") = << <<".">> >>
    <3>1. <<".">> \in Seq(N) /\ <<".">> \in Seq(C)
      OBVIOUS
    <3> QED
      BY <3>1, SplitTyped
  <2> HIDE DEF w, j, C
  <2>5. normPath(p) \in Seq(C) /\ Spelt(p) = IF w = << >> THEN << <<".">> >> ELSE w
    BY <2>1, <2>3, <2>4 DEF Spelt
  <2> QED
    BY <1>4, <1>6, <2>2, <2>5 DEF Placed, C, w, j
<1> QED
  BY <1>5, <1>6

(* A text that starts with a root and a slash is split like the root first. *)
LEMMA WithinSplit ==
  ASSUME NEW N, "/" \notin N, NEW t \in Seq(N \union {"/"}), NEW r \in Seq(N \union {"/"})
  PROVE  /\ StartsWith(t, <<"/">>) => Split(t, "/")[1] = << >>
         /\ t = r \/ StartsWith(t, Append(r, "/")) =>
              \E v \in Seq(Seq(N)) : Split(t, "/") = Split(r, "/") \o v
<1> DEFINE C == N \union {"/"}
           X == Seq(N)
<1>1. "/" \in C /\ <<"/">> \in Seq(C) /\ t \in Seq(C) /\ r \in Seq(C)
  OBVIOUS
<1>2. \A s \in Seq(C) : Split(s, "/") \in Seq(X)
  BY SplitTyped DEF Pieces
<1> HIDE DEF C, X
<1>3. ASSUME StartsWith(t, <<"/">>) PROVE Split(t, "/")[1] = << >>
  <2>1. PICK v \in Seq(C) : t = <<"/">> \o v
    <3>1. Continues(C, t, <<"/">>)
      BY <1>1, <1>3, Prefix
    <3> QED
      BY <3>1 DEF Continues
  <2> DEFINE q == Split(v, "/")
             a == << << >> >>
  <2>2. Same(Split(<<"/">> \o v, "/"), a \o q)
    BY <1>1, SplitSlashed
  <2>3. << >> \in X
    BY EmptySeq DEF X
  <2>4. Split(t, "/") = a \o q /\ q \in Seq(X) /\ a \in Seq(X) /\ Len(a) = 1 /\ a[1] = << >>
    BY <1>2, <2>1, <2>2, <2>3 DEF Same
  <2> HIDE DEF q, a
  <2>5. 1 \in 1 .. Len(a) + Len(q)
    BY <2>4, LenProperties
  <2>6. (a \o q)[1] = a[1]
    BY <2>4, <2>5, ConcatProperties
  <2> QED
    BY <2>4, <2>6
<1>4. ASSUME t = r PROVE \E v \in Seq(X) : Split(t, "/") = Split(r, "/") \o v
  <2> DEFINE q == Split(r, "/")
  <2>1. q \in Seq(X) /\ << >> \in Seq(X) /\ Split(t, "/") = q
    BY <1>1, <1>2, <1>4, EmptySeq
  <2> HIDE DEF q
  <2>2. q \o << >> = q
    BY <2>1, ConcatEmptySeq
  <2> QED
    BY <2>1, <2>2 DEF q
<1>5. ASSUME StartsWith(t, Append(r, "/")) PROVE \E v \in Seq(X) : Split(t, "/") = Split(r, "/") \o v
  <2> DEFINE a == Append(r, "/")
  <2>1. a \in Seq(C) /\ a = r \o <<"/">>
    BY <1>1, AppendProperties, AppendIsConcat
  <2> HIDE DEF a
  <2>2. PICK v \in Seq(C) : t = a \o v
    <3>1. Continues(C, t, a)
      BY <1>1, <1>5, <2>1, Prefix DEF a
    <3> QED
      BY <3>1 DEF Continues
  <2>3. SplitsAround(C, "/", r, v)
    BY <1>1, SplitConcat
  <2> QED
    BY <1>2, <2>1, <2>2, <2>3 DEF SplitsAround
<1> QED
  BY <1>3, <1>4, <1>5 DEF X

LEMMA FirstOf ==
  ASSUME NEW X, NEW a \in Seq(X), a # << >>, NEW v \in Seq(X)
  PROVE  a \o v \in Seq(X) /\ a \o v # << >> /\ (a \o v)[1] = a[1] /\ a[1] \in X
<1>1. Len(a) \in Nat \ {0} /\ Len(v) \in Nat
  BY EmptySeq, LenProperties
<1>2. 1 \in 1 .. Len(a) /\ 1 \in 1 .. Len(a) + Len(v) /\ 1 <= Len(a)
  BY <1>1
<1>3. a \o v \in Seq(X) /\ (a \o v)[1] = a[1]
  BY <1>2, ConcatProperties
<1>4. a[1] \in X
  BY <1>2, ElementOfSeq
<1>5. a \o v # << >>
  BY ConcatEqualIffEmpty
<1> QED
  BY <1>3, <1>4, <1>5

LEMMA WithinOne ==
  ASSUME NEW p, NEW r
  PROVE  withinRoots(p, {r}) <=>
           \/ normPath(p) = normPath(r)
           \/ StartsWith(normPath(p), IF normPath(r) = <<"/">> THEN normPath(r) ELSE Append(normPath(r), "/"))
BY DEF withinRoots

(* What is taken to be within a root that does not climb leads there, from *)
(* any working directory.                                                  *)
LEMMA Confined ==
  ASSUME NEW N, "/" \notin N, "." \in N, NEW D \in Seq(Seq(N)),
         NEW p \in Seq(N \union {"/"}), NEW r \in Seq(N \union {"/"}),
         ~Climbs(r), withinRoots(p, {r})
  PROVE  StartsWith(Leads(D, p), Leads(D, r))
<1> DEFINE C == N \union {"/"}
           X == Seq(N)
           G == GoodNames(N)
           T == normPath(p)
           R == normPath(r)
           wp == NormalNames(p)
           wr == NormalNames(r)
           st == Spelt(p)
           sr == Spelt(r)
           none == << << >> >>
           slash == <<"/">>
           dot == << <<".">> >>
<1>1. Placed(N, D, p) /\ Placed(N, D, r)
  BY PathPlaced
<1>2. /\ T \in Seq(C) /\ R \in Seq(C) /\ slash \in Seq(C) /\ << >> \in Seq(C)
      /\ none \in Seq(X) /\ dot \in Seq(X) /\ << >> \in Seq(X)
  <2>1. << >> \in Seq(C) /\ << >> \in X /\ << >> \in Seq(X)
    BY EmptySeq
  <2>2. T \in Seq(C) /\ R \in Seq(C)
    BY <1>1 DEF Placed
  <2>3. <<".">> \in X
    OBVIOUS
  <2> QED
    BY <2>1, <2>2, <2>3
<1>3. \A s \in Seq(G) : s \in Seq(X)
  <2>1. G \subseteq X
    BY DEF GoodNames
  <2> HIDE DEF G, X
  <2> QED
    BY <2>1, SeqMonotonic
<1>4. wp \in Seq(G) /\ wr \in Seq(G) /\ wp \in Seq(X) /\ wr \in Seq(X)
  <2>1. wp \in Seq(G) /\ wr \in Seq(G)
    BY <1>1 DEF Placed
  <2> QED
    BY <1>3, <2>1
<1>5. (wp # << >> => wp[1] \in G) /\ (wr # << >> => wr[1] \in G)
  <2> HIDE DEF wp, wr, G
  <2> QED
    BY <1>4, EmptySeq, FirstOf
<1>6. (R = slash /\ StartsWith(T, slash)) \/ \E v \in Seq(X) : st = sr \o v
  <2>1. T = R \/ StartsWith(T, IF R = slash THEN R ELSE Append(R, "/"))
    BY WithinOne
  <2>2. T = R \/ StartsWith(T, Append(R, "/")) =>
          \E v \in Seq(Seq(N)) : Split(T, "/") = Split(R, "/") \o v
    <3> HIDE DEF T, R
    <3> QED
      BY <1>2, WithinSplit DEF C
  <2> QED
    BY <2>1, <2>2 DEF Spelt
<1>7. sr[1] # UP
  BY DEF Climbs, Spelt
<1>8. /\ Leads(D, p) \in Seq(X) /\ Leads(D, r) \in Seq(X)
      /\ Absolute(p) => Leads(D, p) = wp /\ st = none \o (IF wp = << >> THEN none ELSE wp)
      /\ Absolute(r) => Leads(D, r) = wr /\ sr = none \o (IF wr = << >> THEN none ELSE wr)
      /\ Absolute(r) => R = slash \o Join(wr)
      /\ ~Absolute(p) => /\ wp = << >> \/ wp[1] # UP => Leads(D, p) = D \o wp
                         /\ st = IF wp = << >> THEN dot ELSE wp
      /\ ~Absolute(r) => /\ wr = << >> \/ wr[1] # UP => Leads(D, r) = D \o wr
                         /\ sr = IF wr = << >> THEN dot ELSE wr
  BY <1>1 DEF Placed
<1>9. <<".">> \notin G /\ << >> \notin G /\ none[1] = << >> /\ dot[1] = <<".">> /\ none # << >> /\ dot # << >>
  BY DEF GoodNames
<1>10. <<".">> # << >> /\ <<".">> # UP
  BY DEF UP
<1>11. Absolute(p) => st[1] = << >>
  <2> DEFINE y == IF wp = << >> THEN none ELSE wp
  <2>1. y \in Seq(X)
    BY <1>2, <1>4
  <2> HIDE DEF y, none, wp, st, X
  <2> SUFFICES ASSUME Absolute(p) PROVE st[1] = << >>
    OBVIOUS
  <2>2. st = none \o y
    BY <1>8 DEF y
  <2> QED
    BY <1>2, <1>9, <2>1, <2>2, FirstOf
<1> HIDE DEF C, X, G, T, R, wp, wr, st, sr, none, slash, dot
<1>12. ~Absolute(p) => st[1] # << >>
  BY <1>5, <1>8, <1>9, <1>10
<1>13. CASE Absolute(r) /\ wr = << >>
  <2>1. Leads(D, r) = << >>
    BY <1>8, <1>13
  <2> DEFINE d == Leads(D, p)
  <2>2. d \in Seq(X) /\ d = << >> \o d
    <3>1. d \in Seq(X)
      BY <1>8
    <3> HIDE DEF d
    <3> QED
      BY <3>1, ConcatEmptySeq
  <2> HIDE DEF d
  <2>3. Continues(X, d, << >>)
    BY <2>2 DEF Continues
  <2>4. StartsWith(d, << >>)
    BY <1>2, <2>2, <2>3, Prefix
  <2> QED
    BY <2>1, <2>4 DEF d
<1>14. CASE Absolute(r) /\ wr # << >>
  <2>1. sr = none \o wr /\ Leads(D, r) = wr
    BY <1>8, <1>14
  <2>2. R # slash
    <3> DEFINE j == Join(wr)
    <3>1. j \in Seq(C) /\ j # << >>
      BY <1>4, <1>14, JoinConcat DEF C, G
    <3>2. R = slash \o j
      BY <1>8, <1>14
    <3> HIDE DEF j
    <3> QED
      BY <1>2, <3>1, <3>2, ConcatEqualIffEmpty
  <2>3. PICK v \in Seq(X) : st = sr \o v
    BY <1>6, <2>2
  <2>4. wr \o v \in Seq(X) /\ wr \o v # << >> /\ (wr \o v)[1] = wr[1]
    BY <1>4, <1>14, FirstOf
  <2> DEFINE w == wr \o v
  <2> HIDE DEF w
  <2>5. st = none \o w
    <3>1. Same((none \o wr) \o v, none \o (wr \o v))
      BY <1>2, <1>4, Regroup
    <3> QED
      BY <2>1, <2>3, <3>1 DEF Same, w
  <2>6. st[1] = << >>
    <3>1. w \in Seq(X)
      BY <2>4 DEF w
    <3> QED
      BY <1>2, <1>9, <2>5, <3>1, FirstOf
  <2>7. Absolute(p)
    BY <1>12, <2>6
  <2> DEFINE y == IF wp = << >> THEN none ELSE wp
  <2>8. y \in Seq(X) /\ st = none \o y
    BY <1>2, <1>4, <1>8, <2>7
  <2> HIDE DEF y
  <2>9. y = w
    <3>1. w \in Seq(X)
      BY <2>4 DEF w
    <3>2. none \o y = none \o w
      BY <2>5, <2>8
    <3> QED
      BY <1>2, <2>8, <3>1, <3>2, ConcatSimplifications
  <2>10. y[1] \in G
    BY <1>5, <1>14, <2>4, <2>9 DEF w
  <2>11. wp = wr \o v
    BY <1>9, <2>9, <2>10 DEF w, y
  <2>12. Leads(D, p) = wp
    BY <1>8, <2>7
  <2>13. Continues(X, wp, wr)
    BY <2>11 DEF Continues
  <2> QED
    BY <1>4, <2>1, <2>12, <2>13, Prefix
<1>15. CASE ~Absolute(r)
  <2>1. sr = (IF wr = << >> THEN dot ELSE wr) /\ sr \in Seq(X) /\ sr # << >> /\ sr[1] # << >>
    BY <1>2, <1>4, <1>5, <1>8, <1>9, <1>10, <1>15
  <2>2. R # slash
    <3> SUFFICES ASSUME R = slash PROVE FALSE
      OBVIOUS
    <3>1. slash = slash \o << >>
      BY <1>2, ConcatEmptySeq
    <3>2. Continues(C, R, slash)
      BY <1>2, <3>1 DEF Continues
    <3>3. StartsWith(R, slash)
      BY <1>2, <3>2, Prefix
    <3>4. R \in Seq(N \union {"/"}) /\ StartsWith(R, <<"/">>)
      BY <1>2, <3>3 DEF C, slash
    <3>5. Split(R, "/")[1] = << >>
      BY <3>4, WithinSplit
    <3> QED
      BY <2>1, <3>5 DEF sr, R, Spelt
  <2>3. PICK v \in Seq(X) : st = sr \o v
    BY <1>6, <2>2
  <2>4. st[1] = sr[1]
    BY <2>1, <2>3, FirstOf
  <2>5. ~Absolute(p)
    BY <1>11, <2>1, <2>4
  <2>6. CASE wr = << >>
    <3>1. wp = << >>
      BY <1>5, <1>8, <1>9, <2>1, <2>4, <2>5, <2>6
    <3>2. Leads(D, p) = D \o << >> /\ Leads(D, r) = D \o << >>
      BY <1>8, <1>15, <2>5, <2>6, <3>1
    <3> DEFINE d == D \o << >>
    <3>3. d \in Seq(X) /\ d = d \o << >>
      <4>1. D \in Seq(X)
        BY DEF X
      <4>2. D \o << >> = D
        BY <4>1, ConcatEmptySeq
      <4> QED
        BY <4>1, <4>2
    <3> HIDE DEF d
    <3>4. Continues(X, d, d)
      BY <1>2, <3>3 DEF Continues
    <3>5. StartsWith(d, d)
      BY <3>3, <3>4, Prefix
    <3> QED
      BY <3>2, <3>5 DEF d
  <2>7. CASE wr # << >>
    <3>1. wr[1] # UP /\ wr[1] \in G /\ sr = wr
      BY <1>5, <1>7, <2>1, <2>7
    <3>2. wp # << >> /\ st = wp
      BY <1>8, <1>9, <2>4, <2>5, <3>1
    <3>3. wp = wr \o v /\ wp[1] # UP
      BY <2>3, <2>4, <3>1, <3>2
    <3>4. Leads(D, p) = D \o (wr \o v) /\ Leads(D, r) = D \o wr
      BY <1>8, <1>15, <2>5, <3>1, <3>3
    <3>5. Same((D \o wr) \o v, D \o (wr \o v)) /\ D \o wr \in Seq(X)
      <4>1. D \in Seq(X)
        BY DEF X
      <4>2. Same((D \o wr) \o v, D \o (wr \o v))
        BY <1>4, <4>1, Regroup
      <4> QED
        BY <1>4, <4>1, <4>2, ConcatProperties
    <3> DEFINE d == D \o wr
               z == Leads(D, p)
    <3>6. z = d \o v /\ d \in Seq(X) /\ z \in Seq(X)
      BY <1>8, <3>4, <3>5 DEF Same
    <3> HIDE DEF d, z
    <3>7. Continues(X, z, d)
      BY <3>6 DEF Continues
    <3>8. StartsWith(z, d)
      BY <3>6, <3>7, Prefix
    <3> QED
      BY <3>4, <3>8 DEF d, z
  <2> QED
    BY <2>6, <2>7
<1> QED
  BY <1>13, <1>14, <1>15

(* What leads to beneath an absolute root is taken to be within it.        *)
LEMMA Contained ==
  ASSUME NEW N, "/" \notin N, "." \in N, NEW D \in Seq(Seq(N)),
         NEW p \in Seq(N \union {"/"}), NEW r \in Seq(N \union {"/"}),
         Absolute(p), Absolute(r), StartsWith(Leads(D, p), Leads(D, r))
  PROVE  withinRoots(p, {r})
<1> DEFINE C == N \union {"/"}
           G == GoodNames(N)
           T == normPath(p)
           R == normPath(r)
           wp == NormalNames(p)
           wr == NormalNames(r)
           slash == <<"/">>
           root == IF R = slash THEN R ELSE Append(R, "/")
<1>1. Placed(N, D, p) /\ Placed(N, D, r)
  BY PathPlaced
<1>2. /\ T \in Seq(C) /\ R \in Seq(C) /\ wp \in Seq(G) /\ wr \in Seq(G)
      /\ T = slash \o Join(wp) /\ R = slash \o Join(wr)
      /\ Leads(D, p) = wp /\ Leads(D, r) = wr
  BY <1>1 DEF Placed
<1>3. "/" \in C /\ slash \in Seq(C) /\ << >> \in Seq(C)
  BY EmptySeq
<1>4. T = R \/ StartsWith(T, root) => withinRoots(p, {r})
  BY WithinOne
<1>5. G = GoodNames(N) /\ C = N \union {"/"}
  OBVIOUS
<1> HIDE DEF C, G, T, R, wp, wr, slash, root
<1>6. PICK v \in Seq(G) : wp = wr \o v
  <2>1. StartsWith(wp, wr)
    BY <1>2
  <2>2. Continues(G, wp, wr)
    BY <1>2, <2>1, Prefix
  <2> QED
    BY <2>2 DEF Continues
<1>7. Join(<< >>) = << >> /\ Join(wp) \in Seq(C)
  <2> DEFINE X == Seq(C)
  <2>1. X = Seq(C)
    OBVIOUS
  <2>2. \A s \in Seq(G) : s \in Seq(X)
    <3>1. G \subseteq X
      <4>1. Seq(N) \subseteq Seq(C)
        BY <1>5, SeqMonotonic
      <4> QED
        BY <1>5, <4>1 DEF GoodNames
    <3> HIDE DEF X
    <3> QED
      BY <3>1, SeqMonotonic
  <2> HIDE DEF X
  <2>3. /\ Join(<< >>) = << >>
        /\ \A s \in Seq(X) : Join(s) \in Seq(C)
        /\ \A s \in Seq(X), x \in X : Join(Append(s, x)) = JoinTurn(Join(s), x)
    BY <1>3, <2>1, JoinAppend
  <2> QED
    BY <1>2, <2>2, <2>3
<1>8. CASE wr = << >>
  <2>1. R = slash
    <3>1. slash \o << >> = slash
      BY <1>3, ConcatEmptySeq
    <3> QED
      BY <1>2, <1>7, <1>8, <3>1
  <2>2. Continues(C, T, slash)
    BY <1>2, <1>7 DEF Continues
  <2>3. StartsWith(T, slash)
    BY <1>2, <1>3, <2>2, Prefix
  <2> QED
    BY <1>4, <2>1, <2>3 DEF root
<1>9. CASE v = << >>
  <2>1. wp = wr
    BY <1>2, <1>6, <1>9, ConcatEmptySeq
  <2> QED
    BY <1>2, <1>4, <2>1
<1>10. CASE wr # << >> /\ v # << >>
  <2> DEFINE j == Join(wr)
             k == Join(v)
  <2>1. j \in Seq(C) /\ j # << >> /\ k \in Seq(C) /\ Join(wp) = j \o slash \o k
    <3>1. /\ Join(wr) \in Seq(N \union {"/"}) /\ Join(wr) # << >>
          /\ \A b \in Seq(GoodNames(N)) :
               b # << >> => Join(wr \o b) = Join(wr) \o <<"/">> \o Join(b)
      BY <1>2, <1>5, <1>10, JoinConcat
    <3>2. Join(v) \in Seq(N \union {"/"})
      BY <1>5, <1>6, <1>10, JoinConcat
    <3> QED
      BY <1>5, <1>6, <1>10, <3>1, <3>2 DEF slash
  <2> HIDE DEF j, k
  <2>2. R = slash \o j /\ T = slash \o (j \o slash \o k)
    BY <1>2, <2>1 DEF j
  <2>3. R # slash
    BY <1>3, <2>1, <2>2, ConcatEqualIffEmpty
  <2>4. root = R \o slash /\ root \in Seq(C)
    BY <1>2, <1>3, <2>3, AppendIsConcat, AppendProperties DEF root, slash
  <2>5. T = root \o k
    <3> DEFINE s == j \o slash
    <3>1. s \in Seq(C)
      BY <1>3, <2>1, ConcatProperties
    <3> HIDE DEF s
    <3>2. Same((slash \o s) \o k, slash \o (s \o k))
      BY <1>3, <2>1, <3>1, Regroup
    <3>3. Same((slash \o j) \o slash, slash \o (j \o slash))
      BY <1>3, <2>1, Regroup
    <3> QED
      BY <2>2, <2>4, <3>2, <3>3 DEF s, Same
  <2>6. Continues(C, T, root)
    BY <2>1, <2>5 DEF Continues
  <2>7. StartsWith(T, root)
    BY <1>2, <2>4, <2>6, Prefix
  <2> QED
    BY <1>4, <2>7
<1> QED
  BY <1>8, <1>9, <1>10

(* For every alphabet and every path: withinRoots takes a path to be       *)
(* within a root that does not climb only when the path leads there, and   *)
(* within an absolute root whenever it does.                               *)
THEOREM RootsKept == WrittenSpec => []RootsConfine
<1> DEFINE N == (PathChars \ {"/"}) \union {"w"}
           C == N \union {"/"}
<1>1. "/" \notin N /\ "." \in N /\ PathChars \subseteq C
  BY DEF PathChars
<1>2. Deep \in Seq(Seq(N))
  <2> DEFINE X == Seq(N)
  <2>1. <<"w">> \in X
    OBVIOUS
  <2> HIDE DEF X
  <2>2. MaxPath + 1 \in Nat
    BY WrittenAssumption
  <2>3. Deep \in [1 .. MaxPath + 1 -> X]
    BY <2>1 DEF Deep
  <2>4. Deep \in Seq(X)
    BY <2>2, <2>3, SeqDef
  <2> QED
    BY <2>4 DEF X
<1>3. \A s \in Seq(PathChars) : s \in Seq(C)
  <2> HIDE DEF C
  <2> QED
    BY <1>1, SeqMonotonic
<1>4. \A r \in Roots : r \in Seq(C) /\ ~Climbs(r)
  <2>1. \A r \in TextsOf(PathChars, MaxPath - 1) : r \in Seq(PathChars)
    BY WrittenAssumption, SeqDef DEF TextsOf
  <2> QED
    BY <1>3, <2>1 DEF Roots
<1> HIDE DEF N
<1>5. WrittenType => RootsConfine
  <2> SUFFICES ASSUME WrittenType, written.as = "path", NEW r \in Roots
               PROVE  LET beneath == StartsWith(Leads(Deep, written.text), Led[r])
                      IN /\ withinRoots(written.text, {r}) => beneath
                         /\ (beneath /\ Absolute(r) /\ Absolute(written.text)) => withinRoots(written.text, {r})
    BY DEF RootsConfine
  <2> DEFINE p == written.text
  <2>1. p \in Seq(N \union {"/"}) /\ r \in Seq(N \union {"/"}) /\ ~Climbs(r)
    BY <1>3, <1>4 DEF WrittenType
  <2>2. Led[r] = Leads(Deep, r)
    BY DEF Led
  <2> HIDE DEF p
  <2>3. withinRoots(p, {r}) => StartsWith(Leads(Deep, p), Leads(Deep, r))
    BY <1>1, <1>2, <2>1, Confined
  <2>4. StartsWith(Leads(Deep, p), Leads(Deep, r)) /\ Absolute(r) /\ Absolute(p) => withinRoots(p, {r})
    BY <1>1, <1>2, <2>1, Contained
  <2> QED
    BY <2>2, <2>3, <2>4 DEF p
<1> QED
  BY <1>5, WrittenTyped, PTL
=============================================================================

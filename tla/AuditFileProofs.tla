---------------------------- MODULE AuditFileProofs ----------------------------
(***************************************************************************)
(* Lemmas about the audit log, for every log: as a file (AuditFile), what  *)
(* an append does to its chained lines, its running hash, its links and    *)
(* its anchor; in memory (AuditLog), that it is a file of chained lines    *)
(* whose links hold and that record() keeps it one.  The lemmas on loops   *)
(* they and other modules rest on come first.                              *)
(***************************************************************************)
EXTENDS AuditLog, FiniteSetTheorems, SequenceTheorems, WellFoundedInduction, TLAPS

(* The last chained line is the m-th, if there is one, and commits to rs.  *)
EndsWith(f, rs) ==
  \/ Chained(f) = {} /\ rs = << >>
  \/ \E m \in Chained(f) : /\ \A j \in Chained(f) : j <= m
                           /\ f[m].hash = rs

(* A checkpoint names a record of the chain by its number and its hash.    *)
Anchored(f, c) ==
  /\ c.count > 0
  /\ \E i \in Chained(f) : /\ Cardinality(ChainedTo(f, i)) = c.count
                           /\ f[i].hash = c.head
-----------------------------------------------------------------------------
(* Loops.  What holds before a loop and is kept by each turn holds after   *)
(* every turn.                                                             *)
LEMMA Induction ==
  ASSUME NEW n \in Nat, NEW P, 0 \in P, \A m \in 0 .. n - 1 : m \in P => m + 1 \in P
  PROVE  \A m \in 0 .. n : m \in P
<1> DEFINE T == {m \in 0 .. n : m \notin P}
<1>1. SUFFICES ASSUME T # {} PROVE FALSE
  OBVIOUS
<1>2. T \subseteq Nat
  OBVIOUS
<1>3. PICK t \in T : \A u \in T : <<u, t>> \notin OpToRel(<, Nat)
  <2> HIDE DEF T
  <2> QED
    BY <1>1, <1>2, NatLessThanWellFounded, WFMin
<1>4. t \in 0 .. n /\ t \notin P /\ t # 0
  OBVIOUS
<1>5. t - 1 \in 0 .. n - 1 /\ t - 1 \in Nat /\ t - 1 < t /\ (t - 1) + 1 = t
  BY <1>4
<1>6. t - 1 \notin T
  <2>1. <<t - 1, t>> \in OpToRel(<, Nat)
    BY <1>4, <1>5 DEF OpToRel
  <2> QED
    BY <1>3, <2>1
<1>7. t - 1 \in P
  BY <1>5, <1>6
<1> QED
  BY <1>4, <1>5, <1>7

(* A loop of n turns has a trace: its state before the first turn and      *)
(* after each.                                                             *)
Trace(f, n, S, s0, turn) ==
  f \in [0 .. n -> S] /\ f[0] = s0 /\ \A i \in 1 .. n : f[i] = turn[i][f[i - 1]]

LEMMA LoopTrace ==
  ASSUME NEW n \in Nat, NEW S, NEW s0 \in S, NEW turn \in [1 .. n -> [S -> S]]
  PROVE  \E f : Trace(f, n, S, s0, turn)
<1> DEFINE Is(f, m) == f[0] = s0 /\ \A i \in 1 .. m : f[i] = turn[i][f[i - 1]]
           P == {m \in 0 .. n : \E f \in [0 .. m -> S] : Is(f, m)}
<1>1. 0 \in P
  <2>1. [i \in 0 .. 0 |-> s0] \in [0 .. 0 -> S] /\ Is([i \in 0 .. 0 |-> s0], 0)
    OBVIOUS
  <2>2. 0 \in 0 .. n
    OBVIOUS
  <2> QED
    BY <2>1, <2>2, Zenon
<1>2. ASSUME NEW m \in 0 .. n - 1, m \in P PROVE m + 1 \in P
  <2>1. PICK f \in [0 .. m -> S] : Is(f, m)
    BY <1>2
  <2> DEFINE g == [i \in 0 .. m + 1 |-> IF i = m + 1 THEN turn[m + 1][f[m]] ELSE f[i]]
  <2>2. m + 1 \in 1 .. n /\ m \in 0 .. m /\ m \in Nat
    OBVIOUS
  <2>3. turn[m + 1] \in [S -> S] /\ f[m] \in S
    BY <2>1, <2>2
  <2>4. turn[m + 1][f[m]] \in S
    BY <2>3
  <2>5. g \in [0 .. m + 1 -> S]
    BY <2>1, <2>2, <2>4
  <2>6. /\ \A i \in 0 .. m : g[i] = f[i]
        /\ g[m + 1] = turn[m + 1][f[m]]
    BY <2>2
  <2> HIDE DEF g
  <2>7. \A i \in 1 .. m + 1 : i = m + 1 \/ (i \in 1 .. m /\ i \in 0 .. m /\ i - 1 \in 0 .. m)
    BY <2>2
  <2>8. Is(g, m + 1)
    <3>1. g[0] = s0
      BY <2>1, <2>2, <2>6
    <3>2. ASSUME NEW i \in 1 .. m + 1 PROVE g[i] = turn[i][g[i - 1]]
      <4>1. CASE i = m + 1
        <5>1. i - 1 = m
          BY <2>2, <4>1
        <5> QED
          BY <2>2, <2>6, <4>1, <5>1
      <4>2. CASE i # m + 1
        BY <2>1, <2>6, <2>7, <4>2
      <4> QED
        BY <4>1, <4>2
    <3> QED
      BY <3>1, <3>2
  <2>9. m + 1 \in 0 .. n
    BY <2>2
  <2> QED
    BY <2>5, <2>8, <2>9
<1> HIDE DEF P
<1>3. \A m \in 0 .. n - 1 : m \in P => m + 1 \in P
  BY <1>2
<1>4. \A m \in 0 .. n : m \in P
  BY <1>1, <1>3, Induction
<1>5. n \in P
  BY <1>4
<1> QED
  BY <1>5 DEF P, Trace

(* What holds of the empty sequence and is kept when one grows holds of    *)
(* every sequence.                                                         *)
LEMMA SeqInduction ==
  ASSUME NEW X, NEW P, << >> \in P, \A s \in Seq(X), x \in X : s \in P => Append(s, x) \in P
  PROVE  \A s \in Seq(X) : s \in P
<1> SUFFICES ASSUME NEW t \in Seq(X) PROVE t \in P
  OBVIOUS
<1> DEFINE N == Len(t)
           Q == {n \in 0 .. N : \A s \in Seq(X) : Len(s) = n => s \in P}
<1>1. N \in Nat /\ N \in 0 .. N
  BY LenProperties
<1>2. 0 \in Q
  <2>1. \A s \in Seq(X) : Len(s) = 0 => s = << >>
    BY EmptySeq
  <2> QED
    BY <1>1, <2>1
<1>3. ASSUME NEW m \in 0 .. N - 1, m \in Q PROVE m + 1 \in Q
  <2> SUFFICES ASSUME NEW s \in Seq(X), Len(s) = m + 1 PROVE s \in P
    BY <1>1
  <2>1. s # << >>
    BY EmptySeq
  <2>2. PICK r \in Seq(X), x \in X : s = Append(r, x)
    BY <2>1, SequenceEmptyOrAppend
  <2>3. Len(r) \in Nat /\ Len(s) = Len(r) + 1
    BY <2>2, LenProperties, AppendProperties
  <2>4. r \in P
    BY <1>3, <2>3
  <2> QED
    BY <2>2, <2>4
<1>4. \A m \in 0 .. N - 1 : m \in Q => m + 1 \in Q
  BY <1>3
<1>5. N \in Q
  <2> HIDE DEF Q, N
  <2> QED
    BY <1>1, <1>2, <1>4, Induction
<1> QED
  BY <1>5

LEMMA Least ==
  ASSUME NEW Q \in SUBSET Nat, Q # {}
  PROVE  \E i \in Q : \A j \in Q : i <= j
<1>1. PICK i \in Q : \A j \in Q : <<j, i>> \notin OpToRel(<, Nat)
  BY NatLessThanWellFounded, WFMin
<1>2. ASSUME NEW j \in Q PROVE i <= j
  <2>1. ~(j < i)
    BY <1>1 DEF OpToRel
  <2> QED
    BY <2>1
<1> QED
  BY <1>2

(* A loop over the elements of s, whose turns are T, ends in Run(T, s0, s).*)
Run(T, s0, s) ==
  LET u[i \in 0 .. Len(s)] == IF i = 0 THEN s0 ELSE T[s[i]][u[i - 1]] IN u[Len(s)]

RunOf(g, S, T, s0, s) ==
  /\ g \in [0 .. Len(s) -> S] /\ g[0] = s0 /\ Run(T, s0, s) = g[Len(s)]
  /\ \A i \in 1 .. Len(s) : g[i] = T[s[i]][g[i - 1]]

LEMMA RunTrace ==
  ASSUME NEW S, NEW X, NEW T \in [X -> [S -> S]], NEW s0 \in S, NEW s \in Seq(X)
  PROVE  \E g : RunOf(g, S, T, s0, s)
<1> DEFINE n == Len(s)
           turn == [i \in 1 .. n |-> T[s[i]]]
           Eq(g) == g = [i \in 0 .. n |-> IF i = 0 THEN s0 ELSE T[s[i]][g[i - 1]]]
           u == CHOOSE g : Eq(g)
<1>1. n \in Nat /\ \A i \in 1 .. n : s[i] \in X
  BY LenProperties, ElementOfSeq
<1>2. /\ turn \in [1 .. n -> [S -> S]]
      /\ \A i \in 1 .. n : turn[i] = T[s[i]]
  BY <1>1
<1>3. \A i \in 0 .. n : i = 0 \/ i \in 1 .. n
  BY <1>1
<1>4. \A i \in 1 .. n : i - 1 \in 0 .. n /\ i \in 0 .. n /\ i # 0
  BY <1>1
<1>5. Run(T, s0, s) = u[n]
  BY DEF Run
<1> HIDE DEF n, turn
<1>6. \E g : Trace(g, n, S, s0, turn)
  BY <1>1, <1>2, LoopTrace
<1>7. PICK g \in [0 .. n -> S] : g[0] = s0 /\ \A i \in 1 .. n : g[i] = turn[i][g[i - 1]]
  BY <1>6 DEF Trace
<1>8. \A i \in 1 .. n : g[i] = T[s[i]][g[i - 1]]
  BY <1>2, <1>4, <1>7
<1>9. Eq(g)
  BY <1>3, <1>7, <1>8
<1>10. Eq(u)
  BY <1>9
<1> HIDE DEF u
<1>11. u[0] = s0 /\ \A i \in 1 .. n : u[i] = T[s[i]][u[i - 1]]
  BY <1>1, <1>4, <1>10
<1>12. \A i \in 0 .. n : u[i] = g[i]
  <2> DEFINE P == {i \in 0 .. n : u[i] = g[i]}
  <2>1. 0 \in P
    BY <1>1, <1>7, <1>11
  <2>2. \A m \in 0 .. n - 1 : m \in P => m + 1 \in P
    <3> SUFFICES ASSUME NEW m \in 0 .. n - 1, u[m] = g[m]
                 PROVE  m + 1 \in 0 .. n /\ u[m + 1] = g[m + 1]
      OBVIOUS
    <3>1. m + 1 \in 1 .. n /\ m + 1 \in 0 .. n /\ (m + 1) - 1 = m
      BY <1>1
    <3> QED
      BY <1>8, <1>11, <3>1
  <2>3. \A m \in 0 .. n : m \in P
    <3> HIDE DEF P
    <3> QED
      BY <1>1, <2>1, <2>2, Induction
  <2> QED
    BY <2>3
<1>13. n \in 0 .. n
  BY <1>1
<1> QED
  BY <1>5, <1>7, <1>8, <1>12, <1>13 DEF n, RunOf

(* A function that goes through the same turns ends in the same state.     *)
Turns(h, S, T, s0, s) ==
  h[0] = s0 /\ \A i \in 1 .. Len(s) : h[i - 1] \in S => h[i] = T[s[i]][h[i - 1]]

LEMMA RunUnique ==
  ASSUME NEW S, NEW X, NEW T \in [X -> [S -> S]], NEW s0 \in S, NEW s \in Seq(X), NEW h,
         Turns(h, S, T, s0, s)
  PROVE  h[Len(s)] = Run(T, s0, s)
<1> DEFINE n == Len(s)
<1>1. PICK g : RunOf(g, S, T, s0, s)
  BY RunTrace
<1>2. /\ g \in [0 .. n -> S] /\ g[0] = s0 /\ Run(T, s0, s) = g[n]
      /\ \A i \in 1 .. n : g[i] = T[s[i]][g[i - 1]]
  BY <1>1 DEF RunOf
<1> DEFINE P == {i \in 0 .. n : h[i] = g[i]}
<1>3. n \in Nat /\ n \in 0 .. n
  BY LenProperties
<1>4. 0 \in P
  BY <1>2, <1>3 DEF Turns
<1>5. \A m \in 0 .. n - 1 : m \in P => m + 1 \in P
  <2> SUFFICES ASSUME NEW m \in 0 .. n - 1, h[m] = g[m]
               PROVE  m + 1 \in 0 .. n /\ h[m + 1] = g[m + 1]
    OBVIOUS
  <2>1. m + 1 \in 1 .. n /\ m + 1 \in 0 .. n /\ m \in 0 .. n /\ (m + 1) - 1 = m
    BY <1>3
  <2>2. g[m] \in S
    BY <1>2, <2>1
  <2> QED
    BY <1>2, <2>1, <2>2 DEF Turns
<1>6. \A m \in 0 .. n : m \in P
  <2> HIDE DEF P, n
  <2> QED
    BY <1>3, <1>4, <1>5, Induction
<1> QED
  BY <1>2, <1>3, <1>6

(* An element more is a turn more.                                         *)
Unrolls(S, X, T, s0) ==
  /\ Run(T, s0, << >>) = s0
  /\ \A s \in Seq(X) : Run(T, s0, s) \in S
  /\ \A s \in Seq(X), x \in X : Run(T, s0, Append(s, x)) = T[x][Run(T, s0, s)]

LEMMA RunAppend ==
  ASSUME NEW S, NEW X, NEW T \in [X -> [S -> S]], NEW s0 \in S
  PROVE  Unrolls(S, X, T, s0)
<1>1. Run(T, s0, << >>) = s0
  <2>1. << >> \in Seq(X) /\ Len(<< >>) = 0
    BY EmptySeq
  <2>2. PICK g : RunOf(g, S, T, s0, << >>)
    BY <2>1, RunTrace
  <2> QED
    BY <2>1, <2>2 DEF RunOf
<1>2. \A s \in Seq(X) : Run(T, s0, s) \in S
  <2> SUFFICES ASSUME NEW s \in Seq(X) PROVE Run(T, s0, s) \in S
    OBVIOUS
  <2>1. PICK g : RunOf(g, S, T, s0, s)
    BY RunTrace
  <2>2. Len(s) \in 0 .. Len(s)
    BY LenProperties
  <2> QED
    BY <2>1, <2>2 DEF RunOf
<1>3. ASSUME NEW s \in Seq(X), NEW x \in X
      PROVE  Run(T, s0, Append(s, x)) = T[x][Run(T, s0, s)]
  <2> DEFINE t == Append(s, x)
             n == Len(s)
  <2>1. /\ n \in Nat /\ t \in Seq(X) /\ Len(t) = n + 1 /\ t[n + 1] = x
        /\ \A i \in 1 .. n : t[i] = s[i]
    BY LenProperties, AppendProperties
  <2> HIDE DEF t
  <2>2. PICK g : RunOf(g, S, T, s0, t)
    BY <2>1, RunTrace
  <2>3. \A i \in 1 .. n : i \in 1 .. Len(t) /\ g[i] = T[s[i]][g[i - 1]]
    <3>1. \A i \in 1 .. n : i \in 1 .. Len(t)
      BY <2>1
    <3> QED
      BY <2>1, <2>2, <3>1 DEF RunOf
  <2>4. g[n] = Run(T, s0, s)
    <3>1. Turns(g, S, T, s0, s)
      BY <2>2, <2>3 DEF RunOf, Turns
    <3> HIDE DEF n
    <3>2. g[Len(s)] = Run(T, s0, s)
      BY <3>1, RunUnique
    <3> QED
      BY <3>2 DEF n
  <2>5. g[n + 1] = T[x][g[n]]
    <3>1. n + 1 \in 1 .. Len(t) /\ (n + 1) - 1 = n
      BY <2>1
    <3> QED
      BY <2>1, <2>2, <3>1 DEF RunOf
  <2> QED
    BY <2>1, <2>2, <2>4, <2>5 DEF t, RunOf
<1> QED
  BY <1>1, <1>2, <1>3 DEF Unrolls
-----------------------------------------------------------------------------
(* What appending a line leaves alone and what it adds.                    *)
LEMMA ChainedAppend ==
  ASSUME NEW f \in Seq(Lines), NEW l \in Lines
  PROVE  /\ l.kind = "chained" => Chained(Append(f, l)) = Chained(f) \union {Len(f) + 1}
         /\ l.kind # "chained" => Chained(Append(f, l)) = Chained(f)
         /\ \A n \in 0 .. Len(f) : ChainedTo(Append(f, l), n) = ChainedTo(f, n)
<1> DEFINE g == Append(f, l)
<1>1. /\ g \in Seq(Lines) /\ Len(g) = Len(f) + 1
      /\ g[Len(f) + 1] = l
      /\ \A i \in 1 .. Len(f) : g[i] = f[i]
  BY AppendProperties
<1>2. DOMAIN f = 1 .. Len(f) /\ DOMAIN g = 1 .. Len(f) + 1 /\ Len(f) \in Nat
  BY <1>1, LenProperties
<1> HIDE DEF g
<1>3. \A i \in DOMAIN g : i \in Chained(g) <=>
         \/ i \in Chained(f)
         \/ i = Len(f) + 1 /\ l.kind = "chained"
  BY <1>1, <1>2 DEF Chained
<1>4. Chained(f) \subseteq DOMAIN g /\ Chained(g) \subseteq DOMAIN g
  BY <1>2 DEF Chained
<1>5. \A n \in 0 .. Len(f) : ChainedTo(g, n) = ChainedTo(f, n)
  BY <1>2, <1>3, <1>4 DEF ChainedTo
<1>6. l.kind = "chained" => Chained(g) = Chained(f) \union {Len(f) + 1}
  BY <1>2, <1>3, <1>4
<1>7. l.kind # "chained" => Chained(g) = Chained(f)
  BY <1>2, <1>3, <1>4
<1> QED
  BY <1>5, <1>6, <1>7 DEF g

(* A non-empty set of positions has a last one.                            *)
LEMMA LastExists ==
  ASSUME NEW n \in Nat, NEW S \in SUBSET (1 .. n), S # {}
  PROVE  \E m \in S : \A j \in S : j <= m
<1> DEFINE T == {k \in 0 .. n : n - k \in S}
<1>1. T \subseteq Nat /\ T # {}
  <2>1. PICK i \in S : TRUE
    OBVIOUS
  <2>2. i \in 1 .. n /\ n - i \in 0 .. n /\ n - (n - i) = i
    BY <2>1
  <2>3. n - i \in T
    BY <2>2
  <2>4. T \subseteq 0 .. n
    OBVIOUS
  <2>5. 0 .. n \subseteq Nat
    OBVIOUS
  <2> HIDE DEF T
  <2> QED
    BY <2>3, <2>4, <2>5
<1>2. PICK t \in T : \A u \in T : <<u, t>> \notin OpToRel(<, Nat)
  <2> HIDE DEF T
  <2> QED BY <1>1, NatLessThanWellFounded, WFMin
<1>3. \A u \in T : t <= u
  <2> SUFFICES ASSUME NEW u \in T PROVE t <= u
    OBVIOUS
  <2>1. ~(<<u, t>> \in Nat \X Nat /\ u < t)
    BY <1>2 DEF OpToRel
  <2> QED
    BY <2>1, <1>1
<1>4. \A j \in S : j <= n - t
  <2> SUFFICES ASSUME NEW j \in S PROVE j <= n - t
    OBVIOUS
  <2>1. j \in 1 .. n /\ n - j \in 0 .. n /\ n - (n - j) = j
    OBVIOUS
  <2>2. n - j \in T
    BY <2>1
  <2>3. t <= n - j /\ t \in 0 .. n
    BY <1>3, <2>2
  <2> QED
    BY <2>1, <2>3
<1>5. n - t \in S
  OBVIOUS
<1> QED
  BY <1>4, <1>5

(* An append does not change the running hash at the lines before it.      *)
LEMMA HeadAtAppend ==
  ASSUME NEW f \in Seq(Lines), NEW l \in Lines, NEW n \in 0 .. Len(f)
  PROVE  HeadAt(Append(f, l), n) = HeadAt(f, n)
<1> DEFINE g == Append(f, l)
<1>1. ChainedTo(g, n) = ChainedTo(f, n)
  BY ChainedAppend
<1>2. \A i \in 1 .. Len(f) : g[i] = f[i]
  BY AppendProperties
<1>3. ChainedTo(f, n) \subseteq 1 .. Len(f)
  BY LenProperties DEF ChainedTo, Chained
<1> HIDE DEF g
<1>4. CASE ChainedTo(f, n) = {}
  BY <1>1, <1>4 DEF HeadAt, g
<1>5. CASE ChainedTo(f, n) # {}
  <2> DEFINE max == CHOOSE m \in ChainedTo(f, n) : \A j \in ChainedTo(f, n) : j <= m
  <2>1. \E m \in ChainedTo(f, n) : \A j \in ChainedTo(f, n) : j <= m
    BY <1>3, <1>5, LastExists, LenProperties
  <2>2. max \in ChainedTo(f, n)
    BY <2>1
  <2>3. g[max] = f[max]
    BY <2>2, <1>2, <1>3
  <2> QED
    BY <1>1, <2>2, <2>3 DEF HeadAt, g
<1> QED
  BY <1>4, <1>5

(* The running hash at the last chained line up to n.                      *)
LEMMA HeadAtMax ==
  ASSUME NEW f \in Seq(Lines), NEW n \in Nat,
         NEW m \in ChainedTo(f, n), \A j \in ChainedTo(f, n) : j <= m
  PROVE  HeadAt(f, n) = f[m].hash
<1>1. ChainedTo(f, n) \subseteq Nat
  BY LenProperties DEF ChainedTo, Chained
<1>2. m = CHOOSE k \in ChainedTo(f, n) : \A j \in ChainedTo(f, n) : j <= k
  BY <1>1
<1> QED
  BY <1>2 DEF HeadAt

(* The running hash is always a hash.                                      *)
LEMMA HeadAtType ==
  ASSUME NEW f \in Seq(Lines), NEW n \in Nat
  PROVE  HeadAt(f, n) \in Hashes
<1>1. CASE ChainedTo(f, n) = {}
  BY <1>1 DEF HeadAt, GENESIS, Hashes
<1>2. CASE ChainedTo(f, n) # {}
  <2>1. /\ ChainedTo(f, n) \subseteq 1 .. Len(f) /\ Len(f) \in Nat
        /\ DOMAIN f = 1 .. Len(f)
    BY LenProperties DEF ChainedTo, Chained
  <2>2. PICK m \in ChainedTo(f, n) : \A j \in ChainedTo(f, n) : j <= m
    BY <1>2, <2>1, LastExists
  <2>3. HeadAt(f, n) = f[m].hash
    BY <2>2, HeadAtMax
  <2>4. f[m] \in Lines /\ f[m].kind = "chained"
    BY <2>1, ElementOfSeq DEF ChainedTo, Chained
  <2>5. f[m].hash \in Hashes
    BY <2>4 DEF Lines, ForeignLine, BadLine
  <2> QED
    BY <2>3, <2>5
<1> QED
  BY <1>1, <1>2

(* Up to its length a log has all its chained lines; they are finitely many. *)
LEMMA ChainedToAll ==
  ASSUME NEW f \in Seq(Lines)
  PROVE  /\ ChainedTo(f, Len(f)) = Chained(f)
         /\ IsFiniteSet(Chained(f))
         /\ Chained(f) \subseteq 1 .. Len(f)
<1>1. Len(f) \in Nat /\ DOMAIN f = 1 .. Len(f)
  BY LenProperties
<1>2. Chained(f) \subseteq 1 .. Len(f)
  BY <1>1 DEF Chained
<1>3. IsFiniteSet(1 .. Len(f))
  BY <1>1, FS_Interval
<1>4. IsFiniteSet(Chained(f))
  BY <1>2, <1>3, FS_Subset
<1> QED
  BY <1>1, <1>2, <1>4 DEF ChainedTo

(* What the log ends with is its running hash, which chainStateOf returns. *)
LEMMA HeadOfEnd ==
  ASSUME NEW f \in Seq(Lines), NEW rs, EndsWith(f, rs)
  PROVE  HeadAt(f, Len(f)) = rs
<1>1. ChainedTo(f, Len(f)) = Chained(f) /\ Len(f) \in Nat
  BY ChainedToAll, LenProperties
<1>2. CASE Chained(f) = {}
  BY <1>1, <1>2 DEF EndsWith, HeadAt, GENESIS
<1>3. CASE Chained(f) # {}
  <2>1. PICK m \in Chained(f) : (\A j \in Chained(f) : j <= m) /\ f[m].hash = rs
    BY <1>3 DEF EndsWith
  <2> QED
    BY <1>1, <2>1, HeadAtMax
<1> QED
  BY <1>2, <1>3

(* AppendLine with a closed file is Append; the new line keeps the links   *)
(* when it is foreign or chains onto the running hash.                     *)
LEMMA LinksAppend ==
  ASSUME NEW f \in Seq(Lines), LinksHold(f), NEW l \in Lines,
         l.kind # "bad",
         l.kind = "chained" => /\ l.prev = HeadAt(f, Len(f))
                               /\ l.hash = HashOf(l.prev, l.rec)
  PROVE  LinksHold(Append(f, l))
<1> DEFINE g == Append(f, l)
<1>1. /\ Len(f) \in Nat /\ DOMAIN f = 1 .. Len(f)
      /\ DOMAIN g = 1 .. Len(f) + 1
      /\ g[Len(f) + 1] = l
      /\ \A i \in 1 .. Len(f) : g[i] = f[i]
  BY AppendProperties, LenProperties
<1>2. \A i \in DOMAIN g : HeadAt(g, i - 1) = HeadAt(f, i - 1)
  <2> TAKE i \in DOMAIN g
  <2>1. i - 1 \in 0 .. Len(f)
    BY <1>1
  <2> QED
    BY <2>1, HeadAtAppend
<1> HIDE DEF g
<1> SUFFICES ASSUME NEW i \in DOMAIN g
             PROVE  /\ g[i].kind # "bad"
                    /\ g[i].kind = "chained" =>
                         /\ g[i].prev = HeadAt(g, i - 1)
                         /\ g[i].hash = HashOf(g[i].prev, g[i].rec)
  BY DEF LinksHold, g
<1>3. CASE i \in DOMAIN f
  <2>1. g[i] = f[i]
    BY <1>1, <1>3
  <2>2. /\ f[i].kind # "bad"
        /\ f[i].kind = "chained" => /\ f[i].prev = HeadAt(f, i - 1)
                                    /\ f[i].hash = HashOf(f[i].prev, f[i].rec)
    BY <1>3 DEF LinksHold
  <2> QED
    BY <1>2, <2>1, <2>2
<1>4. CASE i = Len(f) + 1
  <2>1. g[i] = l /\ HeadAt(g, i - 1) = HeadAt(f, Len(f))
    BY <1>1, <1>2, <1>4
  <2> QED
    BY <2>1
<1> QED
  BY <1>1, <1>3, <1>4

(* A checkpoint that named a record still names it after an append.        *)
LEMMA AnchoredAppend ==
  ASSUME NEW f \in Seq(Lines), NEW l \in Lines, NEW c, Anchored(f, c)
  PROVE  Anchored(Append(f, l), c)
<1> DEFINE g == Append(f, l)
<1>1. PICK i \in Chained(f) : /\ Cardinality(ChainedTo(f, i)) = c.count
                              /\ f[i].hash = c.head
  BY DEF Anchored
<1>2. i \in 1 .. Len(f) /\ Len(f) \in Nat
  BY ChainedToAll, LenProperties
<1>3. g[i] = f[i] /\ i \in DOMAIN g
  BY <1>2, AppendProperties, LenProperties
<1>4. ChainedTo(g, i) = ChainedTo(f, i)
  BY <1>2, ChainedAppend
<1>5. i \in Chained(g)
  BY <1>3 DEF Chained
<1> QED
  BY <1>1, <1>3, <1>4, <1>5 DEF Anchored

(* chainStateOf on a log that ends with rs and has as many chained lines.  *)
LEMMA ChainStateOfInv ==
  ASSUME NEW f \in Seq(Lines), NEW rs, EndsWith(f, rs),
         Cardinality(Chained(f)) = Len(rs)
  PROVE  ChainStateOf(f) = [head |-> rs, count |-> Len(rs)]
BY HeadOfEnd DEF ChainStateOf

(* The lines that are appended, and the fields of a chained one.           *)
LEMMA LineTypes ==
  /\ ForeignLine \in Lines /\ ForeignLine.kind = "foreign"
  /\ \A h \in Hashes, r \in Recs :
       /\ HashOf(h, r) \in Hashes
       /\ ChainedLine(h, r) \in Lines
       /\ ChainedLine(h, r).kind = "chained"
       /\ ChainedLine(h, r).prev = h
       /\ ChainedLine(h, r).rec = r
       /\ ChainedLine(h, r).hash = HashOf(h, r)
<1>1. \A h \in Hashes, r \in Recs : HashOf(h, r) \in Hashes
  BY AppendProperties DEF HashOf, Hashes
<1> QED
  BY <1>1 DEF ForeignLine, Lines, ChainedLine

(* The running hash after an append of a chained line is that line's.      *)
LEMMA HeadAfterAppend ==
  ASSUME NEW f \in Seq(Lines), NEW l \in Lines, l.kind = "chained"
  PROVE  HeadAt(Append(f, l), Len(Append(f, l))) = l.hash
<1> DEFINE g == Append(f, l)
<1>1. /\ g \in Seq(Lines) /\ Len(g) = Len(f) + 1 /\ Len(f) \in Nat
      /\ g[Len(f) + 1] = l
  BY AppendProperties, LenProperties
<1>2. Chained(g) = Chained(f) \union {Len(f) + 1}
  BY ChainedAppend
<1>3. ChainedTo(g, Len(g)) = Chained(g) /\ Chained(f) \subseteq 1 .. Len(f)
  BY <1>1, ChainedToAll
<1> HIDE DEF g
<1>4. /\ Len(f) + 1 \in ChainedTo(g, Len(g))
      /\ \A j \in ChainedTo(g, Len(g)) : j <= Len(f) + 1
  BY <1>1, <1>2, <1>3
<1>5. HeadAt(g, Len(g)) = g[Len(f) + 1].hash
  BY <1>1, <1>4, HeadAtMax
<1> QED
  BY <1>1, <1>5 DEF g
-----------------------------------------------------------------------------
(* The entries of a log in memory.                                         *)
ChainOf(entries) ==
  /\ entries \in Seq(Lines) /\ LinksHold(entries)
  /\ \A i \in DOMAIN entries : entries[i].kind = "chained"

(* An empty log is a chain.                                                *)
LEMMA EmptyChain == ChainOf(<< >>) /\ DOMAIN << >> = {}
<1>1. << >> \in Seq(Lines) /\ DOMAIN << >> = {}
  BY EmptySeq
<1> QED
  BY <1>1 DEF ChainOf, LinksHold

(* `prev` is the hash of the last entry, the head of the chain.            *)
LEMMA PrevIsHead ==
  ASSUME NEW f, ChainOf(f)
  PROVE  Prev(f) = HeadAt(f, Len(f))
<1>1. f \in Seq(Lines) /\ Len(f) \in Nat /\ DOMAIN f = 1 .. Len(f)
  BY LenProperties DEF ChainOf
<1>2. Chained(f) = 1 .. Len(f)
  BY <1>1 DEF ChainOf, Chained
<1>3. ChainedTo(f, Len(f)) = 1 .. Len(f)
  BY <1>1, <1>2, ChainedToAll
<1>4. CASE f = << >>
  BY <1>3, <1>4 DEF Prev, GENESIS, HeadAt
<1>5. CASE f # << >>
  <2>1. Len(f) \in 1 .. Len(f)
    BY <1>1, <1>5, EmptySeq
  <2>2. HeadAt(f, Len(f)) = f[Len(f)].hash
    BY <1>1, <1>3, <2>1, HeadAtMax
  <2> QED
    BY <1>5, <2>2 DEF Prev
<1> QED
  BY <1>4, <1>5

(* record() adds one entry, which keeps the chain.                         *)
LEMMA RecordChains ==
  ASSUME NEW f, ChainOf(f), NEW r \in Recs
  PROVE  LET g == record(f, r) IN
         /\ ChainOf(g)
         /\ Len(f) \in Nat /\ DOMAIN f = 1 .. Len(f) /\ DOMAIN g = 1 .. Len(f) + 1
         /\ \A i \in DOMAIN f : g[i] = f[i]
         /\ g[Len(f) + 1].rec = r
<1> DEFINE h == HeadAt(f, Len(f))
           l == ChainedLine(h, r)
           g == Append(f, l)
<1>1. f \in Seq(Lines) /\ Len(f) \in Nat /\ DOMAIN f = 1 .. Len(f)
  BY LenProperties DEF ChainOf
<1>2. h \in Hashes
  BY <1>1, HeadAtType
<1>3. record(f, r) = g
  BY PrevIsHead DEF record
<1> HIDE DEF h
<1>4. /\ l \in Lines /\ l.kind = "chained" /\ l.prev = h
      /\ l.rec = r /\ l.hash = HashOf(l.prev, l.rec)
  BY <1>2, LineTypes
<1> HIDE DEF l
<1>5. /\ g \in Seq(Lines) /\ DOMAIN g = 1 .. Len(f) + 1
      /\ g[Len(f) + 1] = l
      /\ \A i \in 1 .. Len(f) : g[i] = f[i]
  <2>1. /\ g \in Seq(Lines) /\ Len(g) = Len(f) + 1
        /\ g[Len(f) + 1] = l
        /\ \A i \in 1 .. Len(f) : g[i] = f[i]
    BY <1>1, <1>4, AppendProperties
  <2> QED
    BY <2>1, LenProperties
<1>6. LinksHold(g)
  <2>1. LinksHold(f) /\ l.kind # "bad"
    BY <1>4 DEF ChainOf
  <2> QED
    BY <1>1, <1>4, <2>1, LinksAppend DEF h
<1>7. \A i \in DOMAIN g : g[i].kind = "chained"
  BY <1>1, <1>4, <1>5 DEF ChainOf
<1> HIDE DEF g
<1>8. ChainOf(g) /\ g[Len(f) + 1].rec = r
  BY <1>4, <1>5, <1>6, <1>7 DEF ChainOf
<1> QED
  BY <1>1, <1>3, <1>5, <1>8
=============================================================================

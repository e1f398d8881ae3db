--------------------------- MODULE ConnectionProofs ---------------------------
(***************************************************************************)
(* The daemon's connections, for any of them, any requests cut into any    *)
(* pieces, any policies and any reloads: what a client is told of a call   *)
(* is what the log has.                                                    *)
(***************************************************************************)
EXTENDS Connection, SequenceTheorems, WellFoundedInduction, TLAPS

Decided == {"block", "approve", "allow"}
Piece == [n : Nat, end : BOOLEAN]
Answers == Decided \union {"deny", "ask", "", "bad json", "unauthorized", "stats"}
Whats == Decided \union {"invoked"}
Marks == {"blocked", "asked", "forwarded", "invoked"}
Reply == [n : Nat, told : Answers]
Entry == [c : Conns, n : Nat, what : Whats, enforced : Marks]
Call  == [c : Conns, n : Nat, decision : Decided, strict : BOOLEAN]

Types ==
  /\ sent \in [Conns -> Seq(Requests)]
  /\ wire \in [Conns -> Seq(Piece)] /\ buf \in [Conns -> Seq(Piece)]
  /\ replies \in [Conns -> Seq(Reply)]
  /\ log \in Seq(Entry) /\ waiting \subseteq Call
  /\ policy \in Policies /\ config \in Policies \union {Torn}
  /\ session \in [Conns -> Policies]

(* The ends of lines in pieces s: they are in the order of the requests,   *)
(* they come before those of t, they are of requests after the n-th.       *)
Ordered(s) == \A i, j \in DOMAIN s : i < j /\ s[i].end /\ s[j].end => s[i].n < s[j].n
Before(s, t) ==
  \A i \in DOMAIN s, j \in DOMAIN t : s[i].end /\ t[j].end => s[i].n < t[j].n
After(s, n) == \A i \in DOMAIN s : s[i].end => n < s[i].n
UpTo(s, n) == \A i \in DOMAIN s : s[i].n \in 1 .. n

(* A call that is on record or at the judge; its line is not to be read    *)
(* any more.                                                               *)
Is(x, c, n) == x.c = c /\ x.n = n
OnRecord(c, n) == \E i \in DOMAIN log : Is(log[i], c, n)
Settled(c, n) == OnRecord(c, n) \/ \E w \in waiting : Is(w, c, n)
CallIn(reqs, c, n) == reqs[c][n].kind \in Calls /\ reqs[c][n].auth
IsCall(c, n) == CallIn(sent, c, n)

Unread(c) ==
  /\ Ordered(buf[c]) /\ Ordered(wire[c]) /\ Before(buf[c], wire[c])
  /\ UpTo(buf[c], Len(sent[c])) /\ UpTo(wire[c], Len(sent[c]))
  /\ \A n \in Nat : Settled(c, n) =>
       n \in 1 .. Len(sent[c]) /\ After(buf[c], n) /\ After(wire[c], n)
Books ==
  /\ \A i \in DOMAIN log : /\ sent[log[i].c][log[i].n].auth
                           /\ \A j \in DOMAIN log : Is(log[j], log[i].c, log[i].n) => i = j
  /\ \A w \in waiting : /\ IsCall(w.c, w.n) /\ ~OnRecord(w.c, w.n)
                        /\ \A x \in waiting : Is(x, w.c, w.n) => x = w
(* The answer p of connection c is told of a record in lines.              *)
Tells(lines, reqs, c, p) ==
  \E i \in DOMAIN lines : Is(lines[i], c, p.n) /\ Shown(reqs[c][p.n], lines[i]) = p.told
AllTold(lines, reqs, answers) ==
  \A c \in Conns : \A k \in DOMAIN answers[c] :
    /\ answers[c][k].n \in 1 .. Len(reqs[c])
    /\ CallIn(reqs, c, answers[c][k].n) => Tells(lines, reqs, c, answers[c][k])
Told == AllTold(log, sent, replies)
CInv == Types /\ (\A c \in Conns : Unread(c)) /\ Books /\ Told
-----------------------------------------------------------------------------
(* What is left of pieces when the first k are taken.                      *)
LEMMA Rest ==
  ASSUME NEW s \in Seq(Piece), NEW k \in 0 .. Len(s), Ordered(s)
  PROVE  LET t == SubSeq(s, k + 1, Len(s)) IN
         /\ t \in Seq(Piece) /\ Ordered(t)
         /\ DOMAIN t = 1 .. Len(s) - k
         /\ \A i \in 1 .. Len(s) - k : i + k \in DOMAIN s /\ t[i] = s[i + k]
<1> DEFINE t == SubSeq(s, k + 1, Len(s))
<1>1. Len(s) \in Nat /\ DOMAIN s = 1 .. Len(s) /\ \A i \in 1 .. Len(s) : s[i] \in Piece
  BY LenProperties, ElementOfSeq
<1>2. /\ t \in Seq(Piece)
      /\ Len(t) = IF k + 1 <= Len(s) THEN Len(s) - (k + 1) + 1 ELSE 0
      /\ \A i \in 1 .. Len(s) - (k + 1) + 1 : t[i] = s[k + 1 + i - 1]
  <2>1. \A i \in k + 1 .. Len(s) : s[i] \in Piece
    BY <1>1
  <2>2. k + 1 \in Int /\ Len(s) \in Int
    BY <1>1
  <2> HIDE DEF t
  <2> QED
    BY <2>1, <2>2, SubSeqProperties DEF t
<1>3. DOMAIN t = 1 .. Len(t)
  BY <1>2, LenProperties
<1> HIDE DEF t
<1>4. Len(t) = Len(s) - k
  <2>1. k \in Nat /\ k <= Len(s) /\ Len(s) - (k + 1) + 1 = Len(s) - k
    BY <1>1
  <2>2. CASE k + 1 <= Len(s)
    BY <1>2, <2>1, <2>2
  <2>3. CASE ~(k + 1 <= Len(s))
    <3>1. \A a, b \in Nat : a <= b /\ ~(a + 1 <= b) => b - a = 0
      OBVIOUS
    <3>2. Len(s) - k = 0
      BY <1>1, <2>1, <2>3, <3>1
    <3> QED
      BY <1>2, <2>3, <3>2
  <2> QED
    BY <2>2, <2>3
<1>5. \A i \in 1 .. Len(s) - k : i + k \in DOMAIN s /\ t[i] = s[i + k]
  <2> TAKE i \in 1 .. Len(s) - k
  <2>1. k + 1 + i - 1 = i + k /\ i + k \in 1 .. Len(s) /\ i \in 1 .. Len(s) - (k + 1) + 1
    BY <1>1
  <2> QED
    BY <1>1, <1>2, <2>1
<1>6. Ordered(t)
  <2> SUFFICES ASSUME NEW i \in DOMAIN t, NEW j \in DOMAIN t, i < j, t[i].end, t[j].end
               PROVE  t[i].n < t[j].n
    BY DEF Ordered
  <2>1. i \in 1 .. Len(s) - k /\ j \in 1 .. Len(s) - k
    BY <1>3, <1>4
  <2>2. i + k \in DOMAIN s /\ j + k \in DOMAIN s /\ i + k < j + k
    BY <1>1, <1>5, <2>1
  <2> QED
    BY <1>5, <2>1, <2>2 DEF Ordered
<1> QED
  BY <1>2, <1>3, <1>4, <1>5, <1>6 DEF t

(* The first k pieces.                                                     *)
LEMMA Start ==
  ASSUME NEW s \in Seq(Piece), NEW k \in 1 .. Len(s)
  PROVE  LET t == SubSeq(s, 1, k) IN
         /\ t \in Seq(Piece) /\ Len(t) = k /\ DOMAIN t = 1 .. k
         /\ \A i \in 1 .. k : i \in DOMAIN s /\ t[i] = s[i]
<1> DEFINE t == SubSeq(s, 1, k)
<1>1. Len(s) \in Nat /\ DOMAIN s = 1 .. Len(s) /\ \A i \in 1 .. Len(s) : s[i] \in Piece
  BY LenProperties, ElementOfSeq
<1>2. \A i \in 1 .. k : s[i] \in Piece
  BY <1>1
<1>3. 1 \in Int /\ k \in Int /\ 1 <= k
  BY <1>1
<1>4. /\ t \in Seq(Piece) /\ Len(t) = k - 1 + 1
      /\ \A i \in 1 .. k - 1 + 1 : t[i] = s[1 + i - 1]
  BY <1>2, <1>3, SubSeqProperties
<1>5. DOMAIN t = 1 .. Len(t)
  BY <1>4, LenProperties
<1> HIDE DEF t
<1>6. Len(t) = k
  BY <1>3, <1>4
<1>7. \A i \in 1 .. k : i \in DOMAIN s /\ t[i] = s[i]
  <2> TAKE i \in 1 .. k
  <2>1. i \in 1 .. k - 1 + 1 /\ 1 + i - 1 = i /\ i \in 1 .. Len(s)
    BY <1>1
  <2> QED
    BY <1>1, <1>4, <2>1
<1> QED
  BY <1>4, <1>5, <1>6, <1>7 DEF t

(* Pieces after pieces.                                                    *)
LEMMA Joined ==
  ASSUME NEW s \in Seq(Piece), NEW t \in Seq(Piece), Ordered(s), Ordered(t), Before(s, t)
  PROVE  /\ s \o t \in Seq(Piece) /\ Ordered(s \o t)
         /\ \A i \in DOMAIN (s \o t) :
              \/ i \in DOMAIN s /\ (s \o t)[i] = s[i]
              \/ i - Len(s) \in DOMAIN t /\ (s \o t)[i] = t[i - Len(s)]
<1> DEFINE u == s \o t
<1>1. /\ Len(s) \in Nat /\ DOMAIN s = 1 .. Len(s)
      /\ Len(t) \in Nat /\ DOMAIN t = 1 .. Len(t)
  BY LenProperties
<1>2. /\ u \in Seq(Piece) /\ Len(u) = Len(s) + Len(t)
      /\ \A i \in 1 .. Len(s) + Len(t) : u[i] = IF i <= Len(s) THEN s[i] ELSE t[i - Len(s)]
  BY ConcatProperties
<1>3. DOMAIN u = 1 .. Len(s) + Len(t)
  BY <1>2, LenProperties
<1> HIDE DEF u
<1>4. \A i \in DOMAIN u : \/ i \in DOMAIN s /\ i <= Len(s) /\ u[i] = s[i]
                          \/ /\ i - Len(s) \in DOMAIN t /\ i > Len(s)
                             /\ u[i] = t[i - Len(s)]
  BY <1>1, <1>2, <1>3
<1>5. Ordered(u)
  <2> SUFFICES ASSUME NEW i \in DOMAIN u, NEW j \in DOMAIN u, i < j, u[i].end, u[j].end
               PROVE  u[i].n < u[j].n
    BY DEF Ordered
  <2>1. i \in Nat /\ j \in Nat
    BY <1>1, <1>3
  <2>2. CASE j <= Len(s)
    BY <1>1, <1>4, <2>1, <2>2 DEF Ordered
  <2>3. CASE i <= Len(s) /\ j > Len(s)
    BY <1>1, <1>4, <2>1, <2>3 DEF Before
  <2>4. CASE i > Len(s) /\ j > Len(s)
    <3>1. i - Len(s) < j - Len(s)
      BY <1>1, <2>1
    <3> QED
      BY <1>1, <1>4, <2>1, <2>4, <3>1 DEF Ordered
  <2> QED
    BY <1>1, <2>1, <2>2, <2>3, <2>4
<1> QED
  BY <1>2, <1>4, <1>5 DEF u

(* A buffer with a line in it has a first one.                             *)
LEMMA FirstLine ==
  ASSUME NEW c \in Conns, buf[c] \in Seq(Piece), HasLine(c)
  PROVE  /\ LineEnd(c) \in DOMAIN buf[c] /\ buf[c][LineEnd(c)].end
         /\ \A j \in 1 .. LineEnd(c) - 1 : ~buf[c][j].end
<1> DEFINE T == {i \in DOMAIN buf[c] : buf[c][i].end}
<1>1. DOMAIN buf[c] = 1 .. Len(buf[c]) /\ Len(buf[c]) \in Nat
  BY LenProperties
<1>2. T \subseteq Nat /\ T # {}
  BY <1>1 DEF HasLine
<1>3. PICK m \in T : \A u \in T : <<u, m>> \notin OpToRel(<, Nat)
  <2> HIDE DEF T
  <2> QED BY <1>2, NatLessThanWellFounded, WFMin
<1>4. \A u \in T : ~(u < m)
  BY <1>2, <1>3 DEF OpToRel
<1>5. \A j \in 1 .. m - 1 : ~buf[c][j].end
  <2> SUFFICES ASSUME NEW j \in 1 .. m - 1, buf[c][j].end PROVE FALSE
    OBVIOUS
  <2>1. m \in 1 .. Len(buf[c])
    BY <1>1
  <2>2. j \in 1 .. Len(buf[c]) /\ j < m
    BY <1>1, <2>1
  <2> QED
    BY <1>1, <1>4, <2>2
<1>6. \E i \in DOMAIN buf[c] : buf[c][i].end /\ \A j \in 1 .. i - 1 : ~buf[c][j].end
  BY <1>5
<1> QED
  BY <1>6 DEF LineEnd

(* The next line is of a request that was sent and is not settled.         *)
LEMMA NextLine ==
  ASSUME CInv, NEW c \in Conns, HasLine(c)
  PROVE  Next_n(c) \in 1 .. Len(sent[c]) /\ ~Settled(c, Next_n(c)) /\ Next_n(c) \in Nat
<1>1. LineEnd(c) \in DOMAIN buf[c] /\ buf[c][LineEnd(c)].end
  BY FirstLine DEF CInv, Types
<1>2. Next_n(c) \in 1 .. Len(sent[c])
  BY <1>1 DEF CInv, Unread, UpTo, Next_n
<1>3. Len(sent[c]) \in Nat
  BY LenProperties DEF CInv, Types
<1>4. Next_n(c) \in Nat
  BY <1>2, <1>3
<1>5. ~(Next_n(c) < Next_n(c))
  BY <1>4
<1> QED
  BY <1>1, <1>2, <1>4, <1>5 DEF CInv, Unread, After, Next_n

(* A line is taken and nothing but its request is settled: what is unread  *)
(* is still in order and not settled.                                      *)
LEMMA TakesLine ==
  ASSUME CInv, NEW c \in Conns, HasLine(c), TakeLine(c), UNCHANGED <<sent, wire>>,
         \A d \in Conns, n \in Nat :
           Settled(d, n)' => Settled(d, n) \/ (d = c /\ n = Next_n(c))
  PROVE  buf' \in [Conns -> Seq(Piece)] /\ \A d \in Conns : Unread(d)'
<1> DEFINE s == buf[c]
           e == LineEnd(c)
           t == SubSeq(s, e + 1, Len(s))
<1>1. s \in Seq(Piece) /\ Len(s) \in Nat /\ DOMAIN s = 1 .. Len(s)
  BY LenProperties DEF CInv, Types
<1>2. /\ e \in DOMAIN s /\ s[e].end /\ s[e].n = Next_n(c)
      /\ \A j \in 1 .. e - 1 : ~s[j].end
  BY <1>1, FirstLine DEF Next_n
<1>3. Ordered(s)
  BY DEF CInv, Unread
<1>4. buf' = [buf EXCEPT ![c] = t]
  BY DEF TakeLine
<1> HIDE DEF s, e
<1>5. /\ t \in Seq(Piece) /\ Ordered(t)
      /\ DOMAIN t = 1 .. Len(s) - e
      /\ \A i \in 1 .. Len(s) - e : i + e \in DOMAIN s /\ t[i] = s[i + e]
  <2>1. e \in 0 .. Len(s)
    BY <1>1, <1>2
  <2> QED
    BY <1>1, <1>3, <2>1, Rest
<1> HIDE DEF t
<1>6. \A i \in DOMAIN t : \E j \in DOMAIN s : t[i] = s[j] /\ (t[i].end => s[e].n < t[i].n)
  <2> TAKE i \in DOMAIN t
  <2>1. i + e \in DOMAIN s /\ t[i] = s[i + e] /\ e < i + e
    BY <1>1, <1>2, <1>5
  <2>2. t[i].end => s[e].n < t[i].n
    BY <1>2, <1>3, <2>1 DEF Ordered
  <2> QED
    BY <2>1, <2>2
<1>7. buf'[c] = t /\ \A d \in Conns \ {c} : buf'[d] = buf[d]
  BY <1>4 DEF CInv, Types
<1>8. buf' \in [Conns -> Seq(Piece)]
  BY <1>4, <1>5 DEF CInv, Types
<1>9. ASSUME NEW d \in Conns, d # c PROVE Unread(d)'
  BY <1>7, <1>9 DEF CInv, Unread
<1>10. Unread(c)'
  <2>1. Unread(c)
    BY DEF CInv
  <2>2. Ordered(t) /\ Before(t, wire[c]) /\ UpTo(t, Len(sent[c]))
    BY <1>5, <1>6, <2>1 DEF Unread, Before, UpTo, s
  <2>3. Next_n(c) \in 1 .. Len(sent[c]) /\ After(t, Next_n(c)) /\ After(wire[c], Next_n(c))
    <3>1. Next_n(c) \in 1 .. Len(sent[c])
      BY NextLine
    <3>2. After(t, Next_n(c))
      BY <1>2, <1>6 DEF After
    <3>3. After(wire[c], Next_n(c))
      BY <1>2, <2>1 DEF Unread, Before, After, s
    <3> QED
      BY <3>1, <3>2, <3>3
  <2>4. \A n \in Nat : Settled(c, n) => After(t, n) /\ n \in 1 .. Len(sent[c]) /\ After(wire[c], n)
    <3> SUFFICES ASSUME NEW n \in Nat, Settled(c, n), NEW i \in DOMAIN t, t[i].end
                 PROVE  n < t[i].n
      BY <2>1 DEF Unread, After
    <3>1. PICK j \in DOMAIN s : t[i] = s[j]
      BY <1>6
    <3> QED
      BY <2>1, <3>1 DEF Unread, After, s
  <2>5. \A n \in Nat : Settled(c, n)' =>
          n \in 1 .. Len(sent[c]) /\ After(t, n) /\ After(wire[c], n)
    BY <2>3, <2>4
  <2> QED
    BY <1>7, <2>1, <2>2, <2>5 DEF Unread
<1> QED
  BY <1>8, <1>9, <1>10
-----------------------------------------------------------------------------
(* One more record, of the n-th request of c.                              *)
Grows(c, n) ==
  /\ log' \in Seq(Entry) /\ Len(log') = Len(log) + 1
  /\ \A i \in 1 .. Len(log) : log'[i] = log[i]
  /\ Is(log'[Len(log) + 1], c, n)

LEMMA RecordGrows ==
  ASSUME CInv, NEW c \in Conns, NEW n \in Nat, NEW what \in Whats, NEW enforced \in Marks,
         Record(c, n, what, enforced)
  PROVE  /\ Grows(c, n)
         /\ log'[Len(log) + 1] = [c |-> c, n |-> n, what |-> what, enforced |-> enforced]
<1> DEFINE e == [c |-> c, n |-> n, what |-> what, enforced |-> enforced]
<1>1. e \in Entry /\ Is(e, c, n)
  BY DEF Entry, Is
<1>2. log \in Seq(Entry) /\ log' = Append(log, e)
  BY DEF CInv, Types, Record
<1> HIDE DEF e
<1>3. /\ Append(log, e) \in Seq(Entry) /\ Len(Append(log, e)) = Len(log) + 1
      /\ \A i \in 1 .. Len(log) : Append(log, e)[i] = log[i]
      /\ Append(log, e)[Len(log) + 1] = e
  BY <1>1, <1>2, AppendProperties
<1> QED
  BY <1>1, <1>2, <1>3 DEF Grows, e

(* Everything on record or at the judge is of a request that was sent.     *)
LEMMA SettledWasSent ==
  ASSUME CInv
  PROVE  /\ \A i \in DOMAIN log : /\ log[i].c \in Conns /\ log[i].n \in Nat
                                  /\ log[i].n \in 1 .. Len(sent[log[i].c])
         /\ \A w \in waiting : w.c \in Conns /\ w.n \in 1 .. Len(sent[w.c])
<1>1. \A i \in DOMAIN log : log[i] \in Entry
  BY LenProperties, ElementOfSeq DEF CInv, Types
<1>2. \A i \in DOMAIN log : /\ log[i].c \in Conns /\ log[i].n \in Nat
                            /\ Settled(log[i].c, log[i].n)
  BY <1>1 DEF Entry, Settled, OnRecord, Is
<1>3. \A w \in waiting : w.c \in Conns /\ w.n \in Nat /\ Settled(w.c, w.n)
  BY DEF CInv, Types, Call, Settled, Is
<1> QED
  BY <1>2, <1>3 DEF CInv, Unread

(* The books after a record of a call that had none.                       *)
LEMMA Booked ==
  ASSUME CInv, NEW c \in Conns, NEW n \in Nat, Grows(c, n), sent' = sent,
         waiting' \subseteq waiting, sent[c][n].auth, ~OnRecord(c, n),
         \A w \in waiting' : ~Is(w, c, n)
  PROVE  /\ Books'
         /\ \A d \in Conns, m \in Nat : Settled(d, m)' => Settled(d, m) \/ (d = c /\ m = n)
<1>1. /\ Len(log) \in Nat /\ DOMAIN log = 1 .. Len(log)
      /\ DOMAIN log' = 1 .. Len(log) + 1
  BY LenProperties DEF CInv, Types, Grows
<1>2. /\ \A i \in DOMAIN log : log'[i] = log[i] /\ ~Is(log'[i], c, n)
      /\ log'[Len(log) + 1].c = c /\ log'[Len(log) + 1].n = n
      /\ \A i \in DOMAIN log' : i \in DOMAIN log \/ i = Len(log) + 1
  BY <1>1 DEF Grows, OnRecord, Is
<1>3. \A d, m : OnRecord(d, m)' => OnRecord(d, m) \/ (d = c /\ m = n)
  BY <1>2 DEF OnRecord, Is
<1>4. \A i \in DOMAIN log' :
        /\ sent[log'[i].c][log'[i].n].auth
        /\ \A j \in DOMAIN log' : Is(log'[j], log'[i].c, log'[i].n) => i = j
  <2> TAKE i \in DOMAIN log'
  <2>1. CASE i \in DOMAIN log
    BY <1>2, <2>1 DEF CInv, Books, Is
  <2>2. CASE i = Len(log) + 1
    BY <1>2, <2>2 DEF Is
  <2> QED
    BY <1>2, <2>1, <2>2
<1>5. \A w \in waiting' : /\ IsCall(w.c, w.n)' /\ ~OnRecord(w.c, w.n)'
                          /\ \A x \in waiting' : Is(x, w.c, w.n) => x = w
  BY <1>3 DEF CInv, Books, IsCall, Is
<1>6. Books'
  BY <1>4, <1>5 DEF Books
<1>7. \A d \in Conns, m \in Nat : Settled(d, m)' => Settled(d, m) \/ (d = c /\ m = n)
  BY <1>3 DEF Settled
<1> QED
  BY <1>6, <1>7

(* enforcedBy can be read back.                                            *)
LEMMA ReadBack ==
  ASSUME NEW r, r.kind = "hook", NEW d \in {"deny", "ask", ""}, NEW e, e.enforced = enforcedBy(d)
  PROVE  Shown(r, e) = d
<1>1. CASE d = "deny"
  BY <1>1 DEF Shown, enforcedBy
<1>2. CASE d = "ask"
  BY <1>2 DEF Shown, enforcedBy
<1>3. CASE d = ""
  BY <1>3 DEF Shown, enforcedBy
<1> QED
  BY <1>1, <1>2, <1>3

(* What was told stays told when the log grows.                            *)
LEMMA OldTellings ==
  ASSUME CInv, NEW c, NEW n, Grows(c, n),
         NEW d \in Conns, NEW q, Tells(log, sent, d, q)
  PROVE  Tells(log', sent, d, q)
<1>1. /\ Len(log) \in Nat /\ DOMAIN log = 1 .. Len(log)
      /\ DOMAIN log' = 1 .. Len(log) + 1
  BY LenProperties DEF CInv, Types, Grows
<1>2. \A i \in DOMAIN log : i \in DOMAIN log' /\ log'[i] = log[i]
  BY <1>1 DEF Grows
<1> QED
  BY <1>2 DEF Tells

(* A client is sent one more answer, or its socket is gone.                *)
LEMMA Written ==
  ASSUME CInv, NEW c \in Conns, NEW n \in Nat, NEW told \in Answers, Write(c, n, told)
  PROVE  /\ replies' \in [Conns -> Seq(Reply)]
         /\ \A d \in Conns : \A k \in DOMAIN replies'[d] :
              \/ k \in DOMAIN replies[d] /\ replies'[d][k] = replies[d][k]
              \/ d = c /\ replies'[d][k] = [n |-> n, told |-> told]
<1> DEFINE q == [n |-> n, told |-> told]
<1>1. q \in Reply
  BY DEF Reply
<1> HIDE DEF q
<1>2. replies \in [Conns -> Seq(Reply)]
  BY DEF CInv, Types
<1>3. CASE replies' = replies
  BY <1>2, <1>3
<1>4. CASE replies' = [replies EXCEPT ![c] = Append(@, q)]
  <2>1. /\ Append(replies[c], q) \in Seq(Reply)
        /\ Len(Append(replies[c], q)) = Len(replies[c]) + 1
        /\ \A k \in 1 .. Len(replies[c]) : Append(replies[c], q)[k] = replies[c][k]
        /\ Append(replies[c], q)[Len(replies[c]) + 1] = q
    BY <1>1, <1>2, AppendProperties
  <2>2. /\ Len(replies[c]) \in Nat /\ DOMAIN replies[c] = 1 .. Len(replies[c])
        /\ DOMAIN Append(replies[c], q) = 1 .. Len(replies[c]) + 1
    BY <1>2, <2>1, LenProperties
  <2>3. replies'[c] = Append(replies[c], q) /\ \A d \in Conns \ {c} : replies'[d] = replies[d]
    BY <1>2, <1>4
  <2>4. \A k \in DOMAIN replies'[c] : \/ k \in DOMAIN replies[c] /\ replies'[c][k] = replies[c][k]
                                    \/ replies'[c][k] = q
    BY <2>1, <2>2, <2>3
  <2>5. replies' \in [Conns -> Seq(Reply)]
    BY <1>2, <1>4, <2>1
  <2> QED
    BY <2>3, <2>4, <2>5 DEF q
<1> QED
  BY <1>3, <1>4 DEF Write, q

(* An answer that shows what is recorded with it.                          *)
LEMMA TellsRecorded ==
  ASSUME CInv, NEW c \in Conns, NEW n \in Nat, n \in 1 .. Len(sent[c]), sent' = sent,
         NEW what \in Whats, NEW enforced \in Marks, NEW told \in Answers,
         Record(c, n, what, enforced), Write(c, n, told),
         Shown(sent[c][n], [c |-> c, n |-> n, what |-> what, enforced |-> enforced]) = told
  PROVE  Grows(c, n) /\ replies' \in [Conns -> Seq(Reply)] /\ Told'
<1>1. /\ Grows(c, n)
      /\ log'[Len(log) + 1] = [c |-> c, n |-> n, what |-> what, enforced |-> enforced]
  BY RecordGrows
<1>2. /\ replies' \in [Conns -> Seq(Reply)]
      /\ \A x \in Conns : \A k \in DOMAIN replies'[x] :
           \/ k \in DOMAIN replies[x] /\ replies'[x][k] = replies[x][k]
           \/ x = c /\ replies'[x][k] = [n |-> n, told |-> told]
  BY Written
<1>3. Len(log) + 1 \in DOMAIN log'
  BY <1>1, LenProperties DEF CInv, Types, Grows
<1>4. AllTold(log', sent, replies')
  <2> SUFFICES ASSUME NEW x \in Conns, NEW k \in DOMAIN replies'[x]
               PROVE  /\ replies'[x][k].n \in 1 .. Len(sent[x])
                      /\ CallIn(sent, x, replies'[x][k].n) => Tells(log', sent, x, replies'[x][k])
    BY DEF AllTold
  <2>1. CASE k \in DOMAIN replies[x] /\ replies'[x][k] = replies[x][k]
    <3>1. /\ replies[x][k].n \in 1 .. Len(sent[x])
          /\ CallIn(sent, x, replies[x][k].n) => Tells(log, sent, x, replies[x][k])
      BY <2>1 DEF CInv, Told, AllTold
    <3>2. Tells(log, sent, x, replies[x][k]) => Tells(log', sent, x, replies[x][k])
      BY <1>1, OldTellings
    <3> QED
      BY <2>1, <3>1, <3>2
  <2>2. CASE x = c /\ replies'[x][k] = [n |-> n, told |-> told]
    BY <1>1, <1>3, <2>2 DEF Tells, Is
  <2> QED
    BY <1>2, <2>1, <2>2
<1>5. Told'
  BY <1>4 DEF Told
<1> QED
  BY <1>1, <1>2, <1>5

(* The end of a call: what is written is what is recorded.                 *)
LEMMA FinishTells ==
  ASSUME CInv, NEW w \in Call, NEW c \in Conns, NEW n \in Nat, w.c = c, w.n = n,
         n \in 1 .. Len(sent[c]),
         NEW decision \in Decided, Finish(w, decision), sent' = sent
  PROVE  Grows(c, n) /\ replies' \in [Conns -> Seq(Reply)] /\ Told'
<1>1. w.strict \in BOOLEAN /\ decision \in Answers /\ decision \in Whats
  BY DEF Call, Answers, Whats
<1>2. PICK d \in {"deny", "ask", ""} : d = verdictToHook(decision, w.strict)
  BY <1>1 DEF verdictToHook
<1>3. PICK told \in Answers : told = IF sent[c][n].kind = "hook" THEN d ELSE decision
  BY <1>1 DEF Answers
<1>4. PICK enforced \in Marks : enforced = enforcedBy(d)
  BY DEF enforcedBy, Marks
<1>5. Record(c, n, decision, enforced) /\ Write(c, n, told)
  BY <1>2, <1>3, <1>4 DEF Finish
<1>6. Shown(sent[c][n], [c |-> c, n |-> n, what |-> decision, enforced |-> enforced]) = told
  <2> DEFINE e == [c |-> c, n |-> n, what |-> decision, enforced |-> enforced]
  <2>1. CASE sent[c][n].kind = "hook"
    <3>1. e.enforced = enforcedBy(d)
      BY <1>4
    <3> HIDE DEF e
    <3>2. Shown(sent[c][n], e) = d
      BY <2>1, <3>1, ReadBack
    <3> QED
      BY <1>3, <2>1, <3>2 DEF e
  <2>2. CASE sent[c][n].kind # "hook"
    BY <1>3, <2>2 DEF Shown
  <2> QED
    BY <2>1, <2>2
<1> QED
  BY <1>1, <1>5, <1>6, TellsRecorded
-----------------------------------------------------------------------------
(* A connection is made, a handler returns, the policy file is written or  *)
(* read: nothing is sent, read, recorded or answered.                      *)
LEMMA StillStep ==
  ASSUME CInv, UNCHANGED <<sent, wire, buf, waiting, replies, log>>,
         session' \in [Conns -> Policies], policy' \in Policies,
         config' \in Policies \union {Torn}
  PROVE  CInv'
<1>1. Types'
  BY DEF CInv, Types
<1>2. \A c \in Conns : Unread(c)'
  BY DEF CInv, Unread, Settled, OnRecord
<1>3. Books' /\ Told'
  BY DEF CInv, Books, Told, OnRecord, IsCall
<1> QED
  BY <1>1, <1>2, <1>3 DEF CInv

(* The pieces a request is sent in.                                        *)
PiecesOf(news, n, k) ==
  /\ news \in Seq(Piece) /\ DOMAIN news = 1 .. k
  /\ \A i \in 1 .. k : news[i].n = n /\ (news[i].end <=> i = k)

LEMMA Pieces ==
  ASSUME NEW n \in Nat, NEW k \in Nat
  PROVE  PiecesOf([i \in 1 .. k |-> [n |-> n, end |-> i = k]], n, k)
<1> DEFINE news == [i \in 1 .. k |-> [n |-> n, end |-> i = k]]
<1>1. \A i \in 1 .. k : [n |-> n, end |-> i = k] \in Piece
  <2> TAKE i \in 1 .. k
  <2>1. (i = k) \in BOOLEAN
    OBVIOUS
  <2> QED
    BY <2>1, Zenon DEF Piece
<1>2. news \in [1 .. k -> Piece]
  BY <1>1, Zenon
<1>3. news \in Seq(Piece)
  <2> HIDE DEF news
  <2> QED
    BY <1>2, SeqDef
<1>4. \A i \in 1 .. k : news[i] = [n |-> n, end |-> i = k]
  BY Zenon
<1>5. \A i \in 1 .. k : news[i].n = n
  BY <1>4, Zenon
<1>6. \A i \in 1 .. k : news[i].end = (i = k)
  BY <1>4, Zenon
<1> HIDE DEF news
<1> QED
  BY <1>2, <1>3, <1>5, <1>6 DEF news, PiecesOf

(* A request is sent: its line ends after all that are under way, and the  *)
(* requests before it are what they were.                                  *)
LEMMA SendStep ==
  ASSUME CInv, NEW c \in Conns, NEW r \in Sends, Send(c, r)
  PROVE  CInv'
<1> DEFINE n == Len(sent[c]) + 1
           news == [i \in 1 .. r.pieces |-> [n |-> n, end |-> i = r.pieces]]
<1>1. /\ sent' = [sent EXCEPT ![c] = Append(@, r)]
      /\ wire' = [wire EXCEPT ![c] = @ \o news]
      /\ UNCHANGED <<session, buf, waiting, replies, policy, config, log>>
  BY DEF Send, files
<1>2. r \in Requests /\ r.pieces \in Nat
  BY ConnectionAssumption DEF Requests
<1>3. sent \in [Conns -> Seq(Requests)] /\ wire \in [Conns -> Seq(Piece)]
  BY DEF CInv, Types
<1>4. Len(sent[c]) \in Nat /\ n \in Nat
  BY <1>3, LenProperties
<1> HIDE DEF n
<1>5. /\ news \in Seq(Piece) /\ DOMAIN news = 1 .. r.pieces
      /\ \A i \in 1 .. r.pieces : news[i].n = n /\ (news[i].end => i = r.pieces)
  <2> DEFINE ps(x, k) == [i \in 1 .. k |-> [n |-> x, end |-> i = k]]
  <2>1. \A x \in Nat, k \in Nat : PiecesOf(ps(x, k), x, k)
    BY Pieces, Zenon
  <2>2. news = ps(n, r.pieces)
    OBVIOUS
  <2> HIDE DEF news, ps
  <2>3. PiecesOf(news, n, r.pieces)
    BY <1>2, <1>4, <2>1, <2>2
  <2> QED
    BY <2>3 DEF PiecesOf
<1> HIDE DEF news
<1>6. Ordered(news)
  BY <1>2, <1>5 DEF Ordered
<1>7. Unread(c) /\ UpTo(wire[c], Len(sent[c])) /\ UpTo(buf[c], Len(sent[c]))
  BY DEF CInv, Unread
<1>8. Before(wire[c], news) /\ Before(buf[c], news)
  <2>1. \A m \in 1 .. Len(sent[c]) : m < n
    BY <1>4 DEF n
  <2> QED
    BY <1>5, <1>7, <2>1 DEF Before, UpTo
<1>9. /\ wire[c] \o news \in Seq(Piece) /\ Ordered(wire[c] \o news)
      /\ \A i \in DOMAIN (wire[c] \o news) :
           \/ i \in DOMAIN wire[c] /\ (wire[c] \o news)[i] = wire[c][i]
           \/ i - Len(wire[c]) \in DOMAIN news /\ (wire[c] \o news)[i] = news[i - Len(wire[c])]
  BY <1>3, <1>5, <1>6, <1>7, <1>8, Joined DEF Unread
<1>10. /\ sent'[c] = Append(sent[c], r) /\ wire'[c] = wire[c] \o news
       /\ \A d \in Conns \ {c} : sent'[d] = sent[d] /\ wire'[d] = wire[d]
  BY <1>1, <1>3
<1>11. /\ Append(sent[c], r) \in Seq(Requests) /\ Len(Append(sent[c], r)) = n
       /\ \A i \in 1 .. Len(sent[c]) : Append(sent[c], r)[i] = sent[c][i]
  BY <1>2, <1>3, AppendProperties DEF n
<1>12. \A d \in Conns : \A i \in 1 .. Len(sent[d]) :
         i \in 1 .. Len(sent'[d]) /\ sent'[d][i] = sent[d][i]
  BY <1>4, <1>10, <1>11 DEF n
<1>13. Types'
  BY <1>1, <1>3, <1>9, <1>11 DEF CInv, Types
<1>14. \A d \in Conns : \A m : Settled(d, m)' <=> Settled(d, m)
  BY <1>1 DEF Settled, OnRecord
<1>15. Unread(c)'
  <2> DEFINE u == wire[c] \o news
  <2>1. \A i \in DOMAIN u : \/ \E j \in DOMAIN wire[c] : u[i] = wire[c][j]
                           \/ u[i].n = n
    BY <1>5, <1>9
  <2> HIDE DEF u
  <2>2. n \in 1 .. n /\ \A m \in 1 .. Len(sent[c]) : m \in 1 .. n /\ m < n
    BY <1>4 DEF n
  <2>3. Before(buf[c], u)
    BY <1>7, <2>1, <2>2 DEF Before, UpTo, Unread
  <2>4. UpTo(u, n) /\ UpTo(buf[c], n)
    BY <1>7, <2>1, <2>2 DEF UpTo
  <2>5. \A m \in Nat : Settled(c, m) => m \in 1 .. n /\ After(buf[c], m) /\ After(u, m)
    BY <1>7, <2>1, <2>2 DEF Unread, After
  <2> QED
    BY <1>1, <1>7, <1>9, <1>10, <1>11, <1>14, <2>3, <2>4, <2>5 DEF Unread, u
<1>16. \A d \in Conns \ {c} : Unread(d)'
  BY <1>1, <1>10, <1>14 DEF CInv, Unread
<1>17. Books'
  <2>1. /\ \A i \in DOMAIN log : sent'[log[i].c][log[i].n] = sent[log[i].c][log[i].n]
        /\ \A w \in waiting : sent'[w.c][w.n] = sent[w.c][w.n]
    BY <1>12, SettledWasSent
  <2> QED
    BY <1>1, <2>1 DEF CInv, Books, OnRecord, IsCall, CallIn
<1>18. Told'
  <2> SUFFICES ASSUME NEW d \in Conns, NEW k \in DOMAIN replies[d]
               PROVE  /\ replies[d][k].n \in 1 .. Len(sent'[d])
                      /\ CallIn(sent', d, replies[d][k].n) => Tells(log, sent', d, replies[d][k])
    BY <1>1 DEF Told, AllTold
  <2>1. /\ replies[d][k].n \in 1 .. Len(sent[d])
        /\ CallIn(sent, d, replies[d][k].n) => Tells(log, sent, d, replies[d][k])
    BY DEF CInv, Told, AllTold
  <2>2. /\ sent'[d][replies[d][k].n] = sent[d][replies[d][k].n]
        /\ replies[d][k].n \in 1 .. Len(sent'[d])
    BY <1>12, <2>1
  <2> QED
    BY <2>1, <2>2 DEF CallIn, Tells
<1> QED
  BY <1>13, <1>15, <1>16, <1>17, <1>18 DEF CInv

(* Pieces move from the wire to the buffer, or are dropped with the socket. *)
LEMMA MovedStep ==
  ASSUME CInv, NEW c \in Conns, UNCHANGED <<session, sent, waiting, replies, policy, config, log>>,
         NEW b \in Seq(Piece), NEW u \in Seq(Piece),
         buf' = [buf EXCEPT ![c] = b], wire' = [wire EXCEPT ![c] = u],
         Ordered(b), Ordered(u), Before(b, u),
         \A i \in DOMAIN b : \/ \E j \in DOMAIN buf[c] : b[i] = buf[c][j]
                             \/ \E j \in DOMAIN wire[c] : b[i] = wire[c][j],
         \A i \in DOMAIN u : \E j \in DOMAIN wire[c] : u[i] = wire[c][j]
  PROVE  CInv'
<1>1. Types'
  BY DEF CInv, Types
<1>2. /\ buf'[c] = b /\ wire'[c] = u
      /\ \A d \in Conns \ {c} : buf'[d] = buf[d] /\ wire'[d] = wire[d]
  BY DEF CInv, Types
<1>3. \A d \in Conns : \A m : Settled(d, m)' <=> Settled(d, m)
  BY DEF Settled, OnRecord
<1>4. Unread(c)'
  <2>1. Unread(c)
    BY DEF CInv
  <2>2. UpTo(b, Len(sent[c])) /\ UpTo(u, Len(sent[c]))
    BY <2>1 DEF Unread, UpTo
  <2>3. \A m \in Nat : Settled(c, m) => m \in 1 .. Len(sent[c]) /\ After(b, m) /\ After(u, m)
    BY <2>1 DEF Unread, After
  <2> QED
    BY <1>2, <1>3, <2>2, <2>3 DEF Unread
<1>5. \A d \in Conns \ {c} : Unread(d)'
  BY <1>2, <1>3 DEF CInv, Unread
<1>6. Books' /\ Told'
  BY DEF CInv, Books, Told, OnRecord, IsCall
<1> QED
  BY <1>1, <1>4, <1>5, <1>6 DEF CInv

LEMMA DataStep ==
  ASSUME CInv, NEW c \in Conns, Data(c)
  PROVE  CInv'
<1>1. PICK k \in 1 .. Len(wire[c]) :
        /\ buf' = [buf EXCEPT ![c] = @ \o SubSeq(wire[c], 1, k)]
        /\ \/ wire' = [wire EXCEPT ![c] = << >>]
           \/ wire' = [wire EXCEPT ![c] = SubSeq(@, k + 1, Len(@))]
  BY DEF Data, Gone
<1>2. UNCHANGED <<session, sent, waiting, replies, policy, config, log>>
  BY DEF Data, files
<1> DEFINE s == wire[c]
           p == SubSeq(s, 1, k)
           t == SubSeq(s, k + 1, Len(s))
           b == buf[c] \o p
<1>3. s \in Seq(Piece) /\ buf[c] \in Seq(Piece) /\ Ordered(s) /\ Ordered(buf[c])
      /\ Before(buf[c], s)
  BY DEF CInv, Types, Unread
<1>4. Len(s) \in Nat /\ DOMAIN s = 1 .. Len(s) /\ k \in 1 .. Len(s) /\ k \in 0 .. Len(s)
  BY <1>3, LenProperties
<1> HIDE DEF s
<1>5. /\ p \in Seq(Piece) /\ DOMAIN p = 1 .. k
      /\ \A i \in 1 .. k : i \in DOMAIN s /\ p[i] = s[i]
  BY <1>3, <1>4, Start
<1>6. /\ t \in Seq(Piece) /\ Ordered(t) /\ DOMAIN t = 1 .. Len(s) - k
      /\ \A i \in 1 .. Len(s) - k : i + k \in DOMAIN s /\ t[i] = s[i + k]
  BY <1>3, <1>4, Rest
<1> HIDE DEF p, t
<1>7. Ordered(p) /\ Before(buf[c], p)
  BY <1>3, <1>5 DEF Ordered, Before
<1>8. Before(p, t)
  <2> SUFFICES ASSUME NEW i \in DOMAIN p, NEW j \in DOMAIN t, p[i].end, t[j].end
               PROVE  p[i].n < t[j].n
    BY DEF Before
  <2>1. i \in DOMAIN s /\ j + k \in DOMAIN s /\ p[i] = s[i] /\ t[j] = s[j + k]
    BY <1>5, <1>6
  <2>2. i < j + k
    BY <1>4, <1>5, <1>6
  <2> QED
    BY <1>3, <2>1, <2>2 DEF Ordered
<1>9. Before(buf[c], t)
  BY <1>3, <1>6 DEF Before
<1>10. /\ b \in Seq(Piece) /\ Ordered(b)
       /\ \A i \in DOMAIN b : \/ \E j \in DOMAIN buf[c] : b[i] = buf[c][j]
                              \/ \E j \in DOMAIN p : b[i] = p[j]
  BY <1>3, <1>5, <1>7, Joined
<1> HIDE DEF b
<1>11. Before(b, t)
  BY <1>8, <1>9, <1>10 DEF Before
<1>12. /\ \A i \in DOMAIN b : \/ \E j \in DOMAIN buf[c] : b[i] = buf[c][j]
                             \/ \E j \in DOMAIN s : b[i] = s[j]
       /\ \A i \in DOMAIN t : \E j \in DOMAIN s : t[i] = s[j]
  BY <1>5, <1>6, <1>10
<1>13. PICK x \in Seq(Piece) : x = b
  BY <1>10
<1>14. CASE wire' = [wire EXCEPT ![c] = t]
  <2>1. PICK y \in Seq(Piece) : y = t
    BY <1>6
  <2> QED
    BY <1>1, <1>2, <1>6, <1>10, <1>11, <1>12, <1>13, <1>14, <2>1, MovedStep DEF s, p, b
<1>15. CASE wire' = [wire EXCEPT ![c] = << >>]
  <2>1. << >> \in Seq(Piece) /\ DOMAIN << >> = {}
    BY EmptySeq
  <2>2. Ordered(<< >>) /\ Before(b, << >>)
    BY <2>1 DEF Ordered, Before
  <2> QED
    BY <1>1, <1>2, <1>10, <1>12, <1>13, <1>15, <2>1, <2>2, MovedStep DEF s, p, b
<1> QED
  BY <1>1, <1>14, <1>15 DEF s, t

LEMMA CloseStep ==
  ASSUME CInv, NEW c \in Conns, Close(c)
  PROVE  CInv'
<1>1. wire' = [wire EXCEPT ![c] = << >>]
      /\ UNCHANGED <<session, sent, buf, waiting, replies, policy, config, log>>
  BY DEF Close, Gone, files
<1>2. buf \in [Conns -> Seq(Piece)] /\ Ordered(buf[c])
  BY DEF CInv, Types, Unread
<1>3. PICK b \in Seq(Piece) : b = buf[c]
  BY <1>2
<1>4. buf' = [buf EXCEPT ![c] = b]
  BY <1>1, <1>2, <1>3
<1>5. << >> \in Seq(Piece) /\ DOMAIN << >> = {}
  BY EmptySeq
<1>6. Ordered(<< >>) /\ Before(b, << >>)
  BY <1>5 DEF Ordered, Before
<1> QED
  BY <1>1, <1>2, <1>3, <1>4, <1>5, <1>6, MovedStep

(* A line that is no call is answered, and a report is put on record.      *)
LEMMA OtherStep ==
  ASSUME CInv, NEW c \in Conns, AnswerOther(c)
  PROVE  CInv'
<1>1. /\ UNCHANGED <<session, sent, wire, waiting, policy, config>>
      /\ HasLine(c) /\ TakeLine(c)
  BY DEF AnswerOther, files
<1>2. PICK n \in Nat : n = Next_n(c) /\ n \in 1 .. Len(sent[c]) /\ ~Settled(c, n)
  BY <1>1, NextLine
<1>3. ~CallIn(sent, c, n)
  BY <1>2 DEF AnswerOther, CallIn, Refused
<1>4. PICK told \in Answers : Write(c, n, told)
  BY <1>2 DEF AnswerOther, Answers
<1>5. /\ replies' \in [Conns -> Seq(Reply)]
      /\ \A d \in Conns : \A k \in DOMAIN replies'[d] :
           \/ k \in DOMAIN replies[d] /\ replies'[d][k] = replies[d][k]
           \/ d = c /\ replies'[d][k] = [n |-> n, told |-> told]
  BY <1>4, Written
<1>6. ASSUME \A d \in Conns : \A q : Tells(log, sent, d, q) => Tells(log', sent, d, q)
      PROVE  Told'
  <2> SUFFICES ASSUME NEW d \in Conns, NEW k \in DOMAIN replies'[d]
               PROVE  /\ replies'[d][k].n \in 1 .. Len(sent[d])
                      /\ CallIn(sent, d, replies'[d][k].n) => Tells(log', sent, d, replies'[d][k])
    BY <1>1 DEF Told, AllTold
  <2>1. CASE k \in DOMAIN replies[d] /\ replies'[d][k] = replies[d][k]
    BY <1>6, <2>1 DEF CInv, Told, AllTold
  <2>2. CASE d = c /\ replies'[d][k] = [n |-> n, told |-> told]
    BY <1>2, <1>3, <2>2
  <2> QED
    BY <1>5, <2>1, <2>2
<1>7. CASE log' = log
  <2>1. \A d \in Conns : \A m : Settled(d, m)' <=> Settled(d, m)
    BY <1>1, <1>7 DEF Settled, OnRecord
  <2>2. buf' \in [Conns -> Seq(Piece)] /\ \A d \in Conns : Unread(d)'
    BY <1>1, <2>1, TakesLine
  <2>3. Books'
    BY <1>1, <1>7 DEF CInv, Books, OnRecord, IsCall
  <2>4. Told'
    BY <1>6, <1>7
  <2>5. Types'
    BY <1>1, <1>5, <1>7, <2>2 DEF CInv, Types
  <2> QED
    BY <2>2, <2>3, <2>4, <2>5 DEF CInv
<1>8. CASE Record(c, n, "invoked", "invoked") /\ sent[c][n].auth
  <2>1. Grows(c, n)
    BY <1>8, RecordGrows DEF Whats, Marks
  <2>2. ~OnRecord(c, n) /\ \A w \in waiting' : ~Is(w, c, n)
    BY <1>1, <1>2 DEF Settled
  <2>3. /\ Books'
        /\ \A d \in Conns, m \in Nat : Settled(d, m)' => Settled(d, m) \/ (d = c /\ m = n)
    BY <1>1, <1>8, <2>1, <2>2, Booked
  <2>4. buf' \in [Conns -> Seq(Piece)] /\ \A d \in Conns : Unread(d)'
    BY <1>1, <1>2, <2>3, TakesLine
  <2>5. \A d \in Conns : \A q : Tells(log, sent, d, q) => Tells(log', sent, d, q)
    BY <2>1, OldTellings
  <2>6. Told'
    BY <1>6, <2>5
  <2>7. Types'
    BY <1>1, <1>5, <2>1, <2>4 DEF CInv, Types, Grows
  <2> QED
    BY <2>3, <2>4, <2>6, <2>7 DEF CInv
<1> QED
  BY <1>2, <1>7, <1>8 DEF AnswerOther

(* A call is decided, and given to the judge or finished.                  *)
LEMMA CallStep ==
  ASSUME CInv, NEW c \in Conns, AnswerCall(c)
  PROVE  CInv'
<1>1. /\ UNCHANGED <<session, sent, wire, policy, config>>
      /\ HasLine(c) /\ TakeLine(c)
  BY DEF AnswerCall, files
<1>2. PICK n \in Nat : n = Next_n(c) /\ n \in 1 .. Len(sent[c]) /\ ~Settled(c, n)
  BY <1>1, NextLine
<1>3. IsCall(c, n) /\ CallIn(sent, c, n) /\ sent[c][n].auth
  BY <1>2 DEF AnswerCall, IsCall, CallIn
<1>4. PICK decision \in Decided : decision = Decides[CallPolicy(c)]
  BY ConnectionAssumption DEF CInv, Types, CallPolicy, Decided
<1>5. PICK strict \in BOOLEAN : strict = IF sent[c][n].kind = "hook" THEN Strict[policy] ELSE TRUE
  BY ConnectionAssumption DEF CInv, Types
<1> DEFINE w == [c |-> c, n |-> n, decision |-> decision, strict |-> strict]
<1>6. w \in Call /\ w.c = c /\ w.n = n
  BY DEF Call
<1>7. \/ waiting' = waiting \union {w} /\ UNCHANGED <<replies, log>>
      \/ Finish(w, decision) /\ UNCHANGED waiting
  BY <1>2, <1>4, <1>5 DEF AnswerCall
<1> HIDE DEF w
<1>8. CASE waiting' = waiting \union {w} /\ UNCHANGED <<replies, log>>
  <2>1. \A d \in Conns, m \in Nat : Settled(d, m)' => Settled(d, m) \/ (d = c /\ m = n)
    BY <1>6, <1>8 DEF Settled, OnRecord, Is
  <2>2. buf' \in [Conns -> Seq(Piece)] /\ \A d \in Conns : Unread(d)'
    BY <1>1, <1>2, <2>1, TakesLine
  <2>3. ~OnRecord(c, n) /\ \A x \in waiting : ~Is(x, c, n)
    BY <1>2 DEF Settled
  <2>4. Books'
    <3>1. \A x \in waiting' : IsCall(x.c, x.n)' /\ ~OnRecord(x.c, x.n)'
      BY <1>1, <1>3, <1>6, <1>8, <2>3 DEF CInv, Books, OnRecord, IsCall
    <3>2. \A x, y \in waiting' : Is(y, x.c, x.n) => y = x
      BY <1>6, <1>8, <2>3 DEF CInv, Books, Is
    <3> QED
      BY <1>1, <1>8, <3>1, <3>2 DEF CInv, Books
  <2>5. Told' /\ Types'
    BY <1>1, <1>6, <1>8, <2>2 DEF CInv, Types, Told
  <2> QED
    BY <2>2, <2>4, <2>5 DEF CInv
<1>9. CASE Finish(w, decision) /\ UNCHANGED waiting
  <2>1. PICK x \in Call : x = w /\ x.c = c /\ x.n = n
    BY <1>6
  <2>2. Grows(c, n) /\ replies' \in [Conns -> Seq(Reply)] /\ Told'
    BY <1>1, <1>2, <1>9, <2>1, FinishTells
  <2>3. ~OnRecord(c, n) /\ \A y \in waiting' : ~Is(y, c, n)
    BY <1>2, <1>9 DEF Settled
  <2>4. /\ Books'
        /\ \A d \in Conns, m \in Nat : Settled(d, m)' => Settled(d, m) \/ (d = c /\ m = n)
    BY <1>1, <1>3, <1>9, <2>2, <2>3, Booked
  <2>5. buf' \in [Conns -> Seq(Piece)] /\ \A d \in Conns : Unread(d)'
    BY <1>1, <1>2, <2>4, TakesLine
  <2>6. Types'
    BY <1>1, <1>9, <2>2, <2>5 DEF CInv, Types, Grows
  <2> QED
    BY <2>2, <2>4, <2>5, <2>6 DEF CInv
<1> QED
  BY <1>7, <1>8, <1>9

(* The judge has answered, whatever has happened to the policy and the     *)
(* connection since it was asked.                                          *)
LEMMA JudgeStep ==
  ASSUME CInv, NEW c \in Conns, JudgeAnswers(c)
  PROVE  CInv'
<1>1. UNCHANGED <<session, sent, wire, buf, policy, config>>
  BY DEF JudgeAnswers, files
<1>2. PICK w \in waiting, decision \in Decided :
        w.c = c /\ waiting' = waiting \ {w} /\ Finish(w, decision)
  BY DEF JudgeAnswers, CInv, Types, Call, Decided
<1>3. w \in Call
  BY DEF CInv, Types
<1>4. PICK n \in Nat : n = w.n
  BY <1>3 DEF Call
<1>5. /\ n \in 1 .. Len(sent[c]) /\ IsCall(c, n) /\ CallIn(sent, c, n) /\ sent[c][n].auth
      /\ ~OnRecord(c, n)
  BY <1>2, <1>4, SettledWasSent DEF CInv, Books, IsCall, CallIn
<1>6. waiting' \subseteq waiting /\ \A x \in waiting' : ~Is(x, c, n)
  BY <1>2, <1>4 DEF CInv, Books
<1>7. Grows(c, n) /\ replies' \in [Conns -> Seq(Reply)] /\ Told'
  BY <1>1, <1>2, <1>3, <1>4, <1>5, FinishTells
<1>8. /\ Books'
      /\ \A d \in Conns, m \in Nat : Settled(d, m)' => Settled(d, m) \/ (d = c /\ m = n)
  BY <1>1, <1>5, <1>6, <1>7, Booked
<1>9. Settled(c, n)
  BY <1>2, <1>4 DEF Settled, Is
<1>10. \A d \in Conns : Unread(d)'
  BY <1>1, <1>8, <1>9 DEF CInv, Unread
<1>11. Types'
  BY <1>1, <1>6, <1>7 DEF CInv, Types, Grows
<1> QED
  BY <1>7, <1>8, <1>10, <1>11 DEF CInv

LEMMA InductiveInvariant == Spec => []CInv
<1>1. Init => CInv
  <2> SUFFICES ASSUME Init PROVE CInv
    OBVIOUS
  <2>1. /\ << >> \in Seq(Piece) /\ << >> \in Seq(Requests) /\ << >> \in Seq(Reply)
        /\ << >> \in Seq(Entry) /\ DOMAIN << >> = {}
    BY EmptySeq
  <2>2. Types
    BY <2>1 DEF Init, Types
  <2>3. \A c \in Conns : buf[c] = << >> /\ wire[c] = << >> /\ replies[c] = << >>
    BY DEF Init
  <2>4. log = << >> /\ waiting = {}
    BY DEF Init
  <2>5. \A c \in Conns : Unread(c)
    BY <2>1, <2>3, <2>4 DEF Unread, Ordered, Before, UpTo, Settled, OnRecord
  <2>6. Books /\ Told
    BY <2>1, <2>3, <2>4 DEF Books, Told, AllTold
  <2> QED
    BY <2>2, <2>5, <2>6 DEF CInv
<1>2. CInv /\ [Next]_vars => CInv'
  <2> SUFFICES ASSUME CInv, [Next]_vars PROVE CInv'
    OBVIOUS
  <2>1. policy \in Policies /\ config \in Policies \union {Torn} /\ session \in [Conns -> Policies]
    BY DEF CInv, Types
  <2>2. ASSUME NEW c \in Conns, Connect(c) PROVE CInv'
    BY <2>1, <2>2, StillStep DEF Connect, files
  <2>3. ASSUME NEW c \in Conns, HandlerReturns(c) PROVE CInv'
    BY <2>1, <2>3, StillStep DEF HandlerReturns, files
  <2>4. ASSUME SaveBegins \/ \E p \in Policies : SaveEnds(p) PROVE CInv'
    BY <2>1, <2>4, StillStep DEF SaveBegins, SaveEnds
  <2>5. ASSUME Reload PROVE CInv'
    BY <2>1, <2>5, StillStep, ConnectionAssumption DEF Reload, loadPolicy
  <2>6. CASE UNCHANGED vars
    BY <2>1, <2>6, StillStep DEF vars, files
  <2> QED
    BY <2>2, <2>3, <2>4, <2>5, <2>6, SendStep, DataStep, CloseStep, OtherStep, CallStep, JudgeStep
    DEF Next, Handler
<1> QED
  BY <1>1, <1>2, PTL DEF Spec
-----------------------------------------------------------------------------
(* daemon.mjs:113-134: what a client is told of a call is what the log has *)
(* as decided and enforced, and every call and report is recorded once,    *)
(* for any connections, pipelines, chunks, judges and reloads.             *)
THEOREM WhatIsToldIsRecorded == Spec => []ToldIsRecorded
<1>1. CInv => ToldIsRecorded
  BY DEF CInv, Told, AllTold, Tells, CallIn, Books, Is, ToldIsRecorded
<1> QED
  BY <1>1, InductiveInvariant, PTL
-----------------------------------------------------------------------------
(* The m-th request of c is under way: the end of its line is in pieces s, *)
(* in the buffer or on the wire; or it is at the judge.                    *)
EndOf(s, m) == \E i \in DOMAIN s : s[i].end /\ s[i].n = m
Pending(c, m) == EndOf(buf[c], m) \/ EndOf(wire[c], m)
AtJudge(c, m) == \E w \in waiting : Is(w, c, m)

(* While a connection lasts, what is under way is exactly what is sent and *)
(* not answered, and of that only the next one can be at the judge.        *)
Serves(c) == patient[c] \/ ~judge
Underway(c) ==
  /\ patient[c] => Len(sent[c]) <= Len(replies[c]) + 1
  /\ \A m \in Nat : Pending(c, m) => Len(replies[c]) < m
  /\ \A w \in waiting : w.c = c => w.n = Len(replies[c]) + 1
  /\ \A m \in Len(replies[c]) + 1 .. Len(sent[c]) : Pending(c, m) \/ AtJudge(c, m)
InTurn(c) ==
  /\ \A k \in DOMAIN replies[c] : replies[c][k].n = k
  /\ status[c] = "new" => sent[c] = << >>
  /\ status[c] # "gone" => Underway(c)
Settings ==
  /\ judge \in BOOLEAN /\ patient \in [Conns -> BOOLEAN]
  /\ status \in [Conns -> {"new", "open", "gone"}]
  /\ ~judge => waiting = {}
RInv == Settings /\ \A c \in Conns : Serves(c) => InTurn(c)

(* The ends of lines in pieces that are joined, and that are parted.       *)
LEMMA EndsJoined ==
  ASSUME NEW s \in Seq(Piece), NEW t \in Seq(Piece)
  PROVE  \A m : EndOf(s \o t, m) <=> EndOf(s, m) \/ EndOf(t, m)
<1> DEFINE u == s \o t
<1>1. /\ Len(s) \in Nat /\ DOMAIN s = 1 .. Len(s)
      /\ Len(t) \in Nat /\ DOMAIN t = 1 .. Len(t)
  BY LenProperties
<1>2. /\ u \in Seq(Piece) /\ Len(u) = Len(s) + Len(t)
      /\ \A i \in 1 .. Len(s) + Len(t) : u[i] = IF i <= Len(s) THEN s[i] ELSE t[i - Len(s)]
  BY ConcatProperties
<1>3. DOMAIN u = 1 .. Len(s) + Len(t)
  BY <1>2, LenProperties
<1> HIDE DEF u
<1>4. \A i \in DOMAIN u : (i \in DOMAIN s /\ u[i] = s[i])
                          \/ (i - Len(s) \in DOMAIN t /\ u[i] = t[i - Len(s)])
  BY <1>1, <1>2, <1>3
<1>5. \A i \in DOMAIN s : i \in DOMAIN u /\ u[i] = s[i]
  BY <1>1, <1>2, <1>3
<1>6. \A i \in DOMAIN t : i + Len(s) \in DOMAIN u /\ u[i + Len(s)] = t[i]
  BY <1>1, <1>2, <1>3
<1>7. ASSUME NEW m, EndOf(u, m) PROVE EndOf(s, m) \/ EndOf(t, m)
  <2>1. PICK i \in DOMAIN u : u[i].end /\ u[i].n = m
    BY <1>7 DEF EndOf
  <2> QED
    BY <1>4, <2>1 DEF EndOf
<1>8. ASSUME NEW m, EndOf(s, m) PROVE EndOf(u, m)
  BY <1>5, <1>8 DEF EndOf
<1>9. ASSUME NEW m, EndOf(t, m) PROVE EndOf(u, m)
  <2>1. PICK i \in DOMAIN t : t[i].end /\ t[i].n = m
    BY <1>9 DEF EndOf
  <2> QED
    BY <1>6, <2>1 DEF EndOf
<1> QED
  BY <1>7, <1>8, <1>9 DEF u

LEMMA EndsParted ==
  ASSUME NEW s \in Seq(Piece), Ordered(s), NEW k \in 1 .. Len(s)
  PROVE  \A m : EndOf(s, m) <=> \/ EndOf(SubSeq(s, 1, k), m)
                               \/ EndOf(SubSeq(s, k + 1, Len(s)), m)
<1> DEFINE p == SubSeq(s, 1, k)
           t == SubSeq(s, k + 1, Len(s))
<1>1. Len(s) \in Nat /\ DOMAIN s = 1 .. Len(s) /\ k \in 0 .. Len(s)
  BY LenProperties
<1>2. DOMAIN p = 1 .. k /\ \A i \in 1 .. k : i \in DOMAIN s /\ p[i] = s[i]
  BY Start
<1>3. DOMAIN t = 1 .. Len(s) - k /\ \A i \in 1 .. Len(s) - k : i + k \in DOMAIN s /\ t[i] = s[i + k]
  BY <1>1, Rest
<1> HIDE DEF p, t
<1>4. \A i \in DOMAIN s : i \in DOMAIN p \/ (i - k \in DOMAIN t /\ t[i - k] = s[i])
  BY <1>1, <1>2, <1>3
<1>5. ASSUME NEW m, EndOf(s, m) PROVE EndOf(p, m) \/ EndOf(t, m)
  <2>1. PICK i \in DOMAIN s : s[i].end /\ s[i].n = m
    BY <1>5 DEF EndOf
  <2>2. CASE i \in DOMAIN p
    BY <1>2, <2>1, <2>2 DEF EndOf
  <2>3. CASE i - k \in DOMAIN t /\ t[i - k] = s[i]
    BY <2>1, <2>3 DEF EndOf
  <2> QED
    BY <1>4, <2>2, <2>3
<1>6. ASSUME NEW m, EndOf(p, m) PROVE EndOf(s, m)
  BY <1>2, <1>6 DEF EndOf
<1>7. ASSUME NEW m, EndOf(t, m) PROVE EndOf(s, m)
  BY <1>3, <1>7 DEF EndOf
<1> QED
  BY <1>5, <1>6, <1>7 DEF p, t

(* What is under way was sent and is not settled.                          *)
LEMMA PendingSent ==
  ASSUME CInv, NEW c \in Conns, NEW m, Pending(c, m)
  PROVE  m \in 1 .. Len(sent[c]) /\ ~Settled(c, m) /\ m \in Nat /\ Len(sent[c]) \in Nat
<1>1. Len(sent[c]) \in Nat
  BY LenProperties DEF CInv, Types
<1>2. m \in 1 .. Len(sent[c])
  BY DEF CInv, Unread, UpTo, Pending, EndOf
<1>3. m \in Nat /\ ~(m < m)
  BY <1>1, <1>2
<1>4. ~Settled(c, m)
  BY <1>3 DEF CInv, Unread, After, Pending, EndOf
<1> QED
  BY <1>1, <1>2, <1>3, <1>4

(* The next line is the first of those under way; when it is taken, the    *)
(* others stay.                                                            *)
LEMMA NextIsFirst ==
  ASSUME CInv, NEW c \in Conns, HasLine(c)
  PROVE  Pending(c, Next_n(c)) /\ \A m : Pending(c, m) => Next_n(c) <= m
<1> DEFINE e == LineEnd(c)
<1>1. buf[c] \in Seq(Piece) /\ DOMAIN buf[c] = 1 .. Len(buf[c]) /\ Len(buf[c]) \in Nat
  BY LenProperties DEF CInv, Types
<1>2. /\ e \in DOMAIN buf[c] /\ buf[c][e].end /\ buf[c][e].n = Next_n(c)
      /\ \A j \in 1 .. e - 1 : ~buf[c][j].end
  BY <1>1, FirstLine DEF Next_n
<1> HIDE DEF e
<1>3. Next_n(c) \in Nat
  BY NextLine
<1>4. \A j \in DOMAIN buf[c] : buf[c][j].end => j = e \/ e < j
  BY <1>1, <1>2
<1>5. Ordered(buf[c]) /\ Before(buf[c], wire[c])
  BY DEF CInv, Unread
<1>6. Pending(c, Next_n(c))
  BY <1>2 DEF Pending, EndOf
<1>7. ASSUME NEW m, Pending(c, m) PROVE Next_n(c) = m \/ Next_n(c) < m
  BY <1>2, <1>4, <1>5, <1>7 DEF Pending, EndOf, Ordered, Before
<1>8. ASSUME NEW m, Pending(c, m) PROVE Next_n(c) <= m
  <2>1. m \in Nat
    BY <1>8, PendingSent
  <2> QED
    BY <1>3, <1>7, <1>8, <2>1
<1> QED
  BY <1>6, <1>8

LEMMA OthersStay ==
  ASSUME CInv, NEW c \in Conns, HasLine(c), TakeLine(c), UNCHANGED wire
  PROVE  /\ \A m : Pending(c, m)' <=> Pending(c, m) /\ m # Next_n(c)
         /\ \A d \in Conns \ {c} : buf'[d] = buf[d]
<1> DEFINE s == buf[c]
           e == LineEnd(c)
           t == SubSeq(s, e + 1, Len(s))
<1>1. /\ s \in Seq(Piece) /\ Ordered(s) /\ Len(s) \in Nat /\ DOMAIN s = 1 .. Len(s)
      /\ Before(s, wire[c]) /\ wire[c] \in Seq(Piece)
  BY LenProperties DEF CInv, Types, Unread
<1>2. /\ e \in DOMAIN s /\ s[e].end /\ s[e].n = Next_n(c)
      /\ \A j \in 1 .. e - 1 : ~s[j].end
  BY <1>1, FirstLine DEF Next_n
<1>3. buf'[c] = t /\ \A d \in Conns \ {c} : buf'[d] = buf[d]
  BY DEF TakeLine, CInv, Types
<1>4. Next_n(c) \in Nat
  BY NextLine
<1> HIDE DEF s, e
<1>5. /\ DOMAIN t = 1 .. Len(s) - e
      /\ \A i \in 1 .. Len(s) - e : i + e \in DOMAIN s /\ t[i] = s[i + e]
  <2>1. e \in 0 .. Len(s)
    BY <1>1, <1>2
  <2> QED
    BY <1>1, <2>1, Rest
<1> HIDE DEF t
<1>6. \A i \in DOMAIN s : s[i].end => i = e \/ (i - e \in DOMAIN t /\ t[i - e] = s[i])
  BY <1>1, <1>2, <1>5
<1>7. \A i \in DOMAIN t : i + e \in DOMAIN s /\ t[i] = s[i + e] /\ e < i + e
  BY <1>1, <1>2, <1>5
<1>8. \A m : EndOf(s, m) => m = Next_n(c) \/ EndOf(t, m)
  BY <1>2, <1>6 DEF EndOf
<1>9. \A m : EndOf(t, m) => EndOf(s, m)
  BY <1>7 DEF EndOf
<1>10. \A m : EndOf(t, m) \/ EndOf(wire[c], m) => Next_n(c) < m
  BY <1>1, <1>2, <1>7 DEF EndOf, Ordered, Before
<1>11. ~(Next_n(c) < Next_n(c))
  BY <1>4
<1> QED
  BY <1>3, <1>8, <1>9, <1>10, <1>11 DEF Pending, s

(* What is done on other connections leaves a connection in turn.          *)
Same(d) ==
  /\ status'[d] = status[d] /\ sent'[d] = sent[d] /\ replies'[d] = replies[d]
  /\ \A m : Pending(d, m)' <=> Pending(d, m)
  /\ \A w : w.c = d => (w \in waiting' <=> w \in waiting)
Steady == judge' = judge /\ patient' = patient
LEMMA StaysInTurn ==
  ASSUME NEW d \in Conns, Same(d), Steady, InTurn(d)
  PROVE  InTurn(d)'
<1>1. \A m : AtJudge(d, m)' <=> AtJudge(d, m)
  BY DEF Same, AtJudge, Is
<1>2. Underway(d) => Underway(d)'
  BY <1>1 DEF Same, Steady, Underway
<1> QED
  BY <1>2 DEF InTurn, Same

(* The next line is of the next request to be answered, and the judge has  *)
(* no call of this connection.                                             *)
LEMMA NextIsDue ==
  ASSUME CInv, Settings, NEW c \in Conns, Serves(c), InTurn(c), status[c] # "gone", HasLine(c)
  PROVE  Next_n(c) = Len(replies[c]) + 1 /\ \A w \in waiting : w.c # c
<1> DEFINE n == Next_n(c)
           L == Len(replies[c])
           S == Len(sent[c])
<1>1. Pending(c, n) /\ \A m : Pending(c, m) => n <= m
  BY NextIsFirst
<1>2. n \in 1 .. S /\ ~Settled(c, n) /\ n \in Nat /\ S \in Nat
  BY <1>1, PendingSent
<1>3. L \in Nat
  BY LenProperties DEF CInv, Types
<1>4. Underway(c)
  BY DEF InTurn
<1> HIDE DEF n, L, S
<1>5. L < n
  BY <1>1, <1>2, <1>4 DEF Underway, L
<1>6. CASE patient[c]
  <2>1. S <= L + 1
    BY <1>4, <1>6 DEF Underway, L, S
  <2>2. n = L + 1
    BY <1>2, <1>3, <1>5, <2>1
  <2>3. \A w \in waiting : w.c # c
    BY <1>2, <1>4, <2>2 DEF Underway, Settled, Is, L
  <2> QED
    BY <2>2, <2>3 DEF n, L
<1>7. CASE ~judge
  <2>1. waiting = {}
    BY <1>7 DEF Settings
  <2>2. L + 1 \in L + 1 .. S
    BY <1>2, <1>3, <1>5
  <2>3. Pending(c, L + 1)
    BY <1>4, <2>1, <2>2 DEF Underway, AtJudge, L, S
  <2>4. n <= L + 1
    BY <1>1, <2>3
  <2>5. n = L + 1
    BY <1>2, <1>3, <1>5, <2>4
  <2> QED
    BY <2>1, <2>5 DEF n, L
<1> QED
  BY <1>6, <1>7 DEF Serves

(* An answer in turn keeps the answers in turn.                            *)
LEMMA AnsweredInTurn ==
  ASSUME CInv, NEW c \in Conns, NEW n \in Nat, NEW told \in Answers, Write(c, n, told)
  PROVE  /\ \A d \in Conns \ {c} : replies'[d] = replies[d]
         /\ status[c] # "open" => replies'[c] = replies[c]
         /\ status[c] = "open" => /\ Len(replies'[c]) = Len(replies[c]) + 1
                                  /\ (/\ n = Len(replies[c]) + 1
                                      /\ \A k \in DOMAIN replies[c] : replies[c][k].n = k)
                                       => \A k \in DOMAIN replies'[c] : replies'[c][k].n = k
<1> DEFINE q == [n |-> n, told |-> told]
<1>1. q \in Reply /\ q.n = n
  BY DEF Reply
<1>2. replies \in [Conns -> Seq(Reply)]
  BY DEF CInv, Types
<1>3. replies' = IF status[c] = "open" THEN [replies EXCEPT ![c] = Append(@, q)] ELSE replies
  BY DEF Write
<1> HIDE DEF q
<1>4. \A d \in Conns \ {c} : replies'[d] = replies[d]
  BY <1>2, <1>3
<1>5. status[c] # "open" => replies'[c] = replies[c]
  BY <1>3
<1>6. ASSUME status[c] = "open"
      PROVE  /\ Len(replies'[c]) = Len(replies[c]) + 1
             /\ (/\ n = Len(replies[c]) + 1
                 /\ \A k \in DOMAIN replies[c] : replies[c][k].n = k)
                  => \A k \in DOMAIN replies'[c] : replies'[c][k].n = k
  <2> DEFINE b == Append(replies[c], q)
  <2>1. /\ b \in Seq(Reply)
        /\ Len(b) = Len(replies[c]) + 1
        /\ \A k \in 1 .. Len(replies[c]) : b[k] = replies[c][k]
        /\ b[Len(replies[c]) + 1] = q
    BY <1>1, <1>2, AppendProperties
  <2>2. replies'[c] = b
    BY <1>2, <1>3, <1>6
  <2> HIDE DEF b
  <2>3. /\ Len(replies[c]) \in Nat /\ DOMAIN replies[c] = 1 .. Len(replies[c])
        /\ DOMAIN b = 1 .. Len(replies[c]) + 1
    BY <1>2, <2>1, LenProperties
  <2>4. \A k \in DOMAIN b : k \in DOMAIN replies[c] \/ k = Len(replies[c]) + 1
    BY <2>3
  <2> QED
    BY <1>1, <2>1, <2>2, <2>3, <2>4
<1> QED
  BY <1>4, <1>5, <1>6

LEMMA FinishWrites ==
  ASSUME CInv, NEW w \in Call, NEW decision \in Decided, Finish(w, decision)
  PROVE  \E told \in Answers : Write(w.c, w.n, told)
<1>1. w.strict \in BOOLEAN /\ decision \in Answers
  BY DEF Call, Answers
<1>2. PICK d \in Answers : d = verdictToHook(decision, w.strict)
  BY <1>1 DEF verdictToHook, Answers
<1>3. PICK told \in Answers : told = IF sent[w.c][w.n].kind = "hook" THEN d ELSE decision
  BY <1>1
<1>4. Write(w.c, w.n, told)
  BY <1>2, <1>3 DEF Finish
<1> QED
  BY <1>4

(* What a step of connection c does to it: the line of request n, which    *)
(* was the next due, is taken and answered.                                *)
LEMMA TakenInTurn ==
  ASSUME CInv, Settings, NEW c \in Conns, Serves(c), InTurn(c), HasLine(c), TakeLine(c),
         NEW told \in Answers, Write(c, Next_n(c), told),
         UNCHANGED <<judge, patient, status, sent, wire, waiting>>
  PROVE  InTurn(c)'
<1>1. PICK n \in Nat : n = Next_n(c) /\ n \in 1 .. Len(sent[c])
  BY NextLine
<1>2. status[c] # "new"
  BY <1>1, EmptySeq DEF InTurn
<1>3. CASE status[c] = "gone"
  <2>1. replies'[c] = replies[c]
    BY <1>1, <1>3, AnsweredInTurn
  <2> QED
    BY <1>3, <2>1 DEF InTurn
<1>4. CASE status[c] = "open"
  <2> DEFINE L == Len(replies[c])
  <2>1. n = L + 1 /\ \A w \in waiting : w.c # c
    BY <1>1, <1>4, NextIsDue
  <2>2. /\ Len(replies'[c]) = L + 1
        /\ \A k \in DOMAIN replies'[c] : replies'[c][k].n = k
    BY <1>1, <1>4, <2>1, AnsweredInTurn DEF InTurn
  <2>3. \A m : Pending(c, m)' <=> Pending(c, m) /\ m # n
    BY <1>1, OthersStay
  <2>4. L \in Nat /\ Len(sent[c]) \in Nat
    BY LenProperties DEF CInv, Types
  <2>5. Underway(c)
    BY <1>4 DEF InTurn
  <2> HIDE DEF L
  <2>6. patient[c] => Len(sent[c]) <= (L + 1) + 1
    BY <2>4, <2>5 DEF Underway, L
  <2>7. ASSUME NEW m \in Nat, Pending(c, m)' PROVE L + 1 < m
    <3>1. L < m /\ m # L + 1
      BY <2>1, <2>3, <2>5, <2>7 DEF Underway, L
    <3> QED
      BY <2>4, <3>1
  <2>8. ASSUME NEW m \in (L + 1) + 1 .. Len(sent[c]) PROVE Pending(c, m)'
    <3>1. m \in L + 1 .. Len(sent[c]) /\ m # L + 1
      BY <2>4
    <3>2. Pending(c, m)
      BY <2>1, <2>5, <3>1 DEF Underway, AtJudge, Is, L
    <3> QED
      BY <2>1, <2>3, <3>1, <3>2
  <2>9. Underway(c)'
    BY <2>1, <2>2, <2>6, <2>7, <2>8 DEF Underway
  <2> QED
    BY <1>4, <2>2, <2>9 DEF InTurn
<1> QED
  BY <1>2, <1>3, <1>4 DEF Settings

(* A call given to the judge is the one whose answer is due.               *)
LEMMA AskedInTurn ==
  ASSUME CInv, Settings, NEW c \in Conns, Serves(c), InTurn(c), HasLine(c), TakeLine(c),
         NEW w, Is(w, c, Next_n(c)), waiting' = waiting \union {w},
         UNCHANGED <<judge, patient, status, sent, wire, replies>>
  PROVE  InTurn(c)'
<1>1. PICK n \in Nat : n = Next_n(c) /\ n \in 1 .. Len(sent[c])
  BY NextLine
<1>2. CASE status[c] = "gone"
  BY <1>2 DEF InTurn
<1>3. CASE status[c] # "gone"
  <2>1. n = Len(replies[c]) + 1 /\ \A x \in waiting : x.c # c
    BY <1>1, <1>3, NextIsDue
  <2>2. \A m : Pending(c, m)' <=> Pending(c, m) /\ m # n
    BY <1>1, OthersStay
  <2>3. Underway(c)
    BY <1>3 DEF InTurn
  <2>4. \A x \in waiting' : x.c = c => x.n = Len(replies[c]) + 1
    BY <1>1, <2>1 DEF Is
  <2>5. \A m \in Len(replies[c]) + 1 .. Len(sent[c]) : Pending(c, m)' \/ AtJudge(c, m)'
    BY <1>1, <2>1, <2>2, <2>3 DEF Underway, AtJudge, Is
  <2>6. Underway(c)'
    BY <2>2, <2>3, <2>4, <2>5 DEF Underway
  <2> QED
    BY <1>3, <2>6 DEF InTurn
<1> QED
  BY <1>2, <1>3

(* The answer of the judge is the one that is due.                         *)
LEMMA JudgedInTurn ==
  ASSUME CInv, Settings, NEW c \in Conns, Serves(c), InTurn(c),
         NEW w \in waiting, w.c = c, waiting' = waiting \ {w},
         NEW told \in Answers, Write(c, w.n, told),
         UNCHANGED <<judge, patient, status, sent, wire, buf>>
  PROVE  InTurn(c)'
<1>1. PICK n \in Nat : n = w.n /\ n \in 1 .. Len(sent[c]) /\ Is(w, c, n)
  BY SettledWasSent DEF CInv, Types, Call, Is
<1>2. status[c] # "new"
  BY <1>1, EmptySeq DEF InTurn
<1>3. CASE status[c] = "gone"
  <2>1. replies'[c] = replies[c]
    BY <1>1, <1>3, AnsweredInTurn
  <2> QED
    BY <1>3, <2>1 DEF InTurn
<1>4. CASE status[c] = "open"
  <2> DEFINE L == Len(replies[c])
  <2>1. Underway(c)
    BY <1>4 DEF InTurn
  <2>2. n = L + 1 /\ \A x \in waiting : x.c = c => x.n = L + 1
    BY <1>1, <2>1 DEF Underway
  <2>3. \A x \in waiting' : x.c # c
    BY <1>1, <2>2 DEF CInv, Books, Is
  <2>4. /\ Len(replies'[c]) = L + 1
        /\ \A k \in DOMAIN replies'[c] : replies'[c][k].n = k
    BY <1>1, <1>4, <2>2, AnsweredInTurn DEF InTurn
  <2>5. L \in Nat /\ Len(sent[c]) \in Nat
    BY LenProperties DEF CInv, Types
  <2>6. ~Pending(c, n)
    BY <1>1, PendingSent DEF Settled
  <2>7. \A m : Pending(c, m)' <=> Pending(c, m)
    BY DEF Pending
  <2> HIDE DEF L
  <2>8. patient[c] => Len(sent[c]) <= (L + 1) + 1
    BY <2>1, <2>5 DEF Underway, L
  <2>9. ASSUME NEW m \in Nat, Pending(c, m) PROVE L + 1 < m
    <3>1. L < m /\ m # L + 1
      BY <2>1, <2>2, <2>6, <2>9 DEF Underway, L
    <3> QED
      BY <2>5, <3>1
  <2>10. ASSUME NEW m \in (L + 1) + 1 .. Len(sent[c]) PROVE Pending(c, m)
    <3>1. m \in L + 1 .. Len(sent[c]) /\ m # L + 1
      BY <2>5
    <3> QED
      BY <2>1, <2>2, <3>1 DEF Underway, AtJudge, Is, L
  <2>11. Underway(c)'
    BY <2>3, <2>4, <2>7, <2>8, <2>9, <2>10 DEF Underway
  <2> QED
    BY <1>4, <2>4, <2>11 DEF InTurn
<1> QED
  BY <1>2, <1>3, <1>4 DEF Settings

(* A request is sent: it is under way, and due after the others.           *)
LEMMA SentInTurn ==
  ASSUME CInv, NEW c \in Conns, NEW r \in Sends, Send(c, r), InTurn(c)
  PROVE  InTurn(c)'
<1> DEFINE n == Len(sent[c]) + 1
           news == [i \in 1 .. r.pieces |-> [n |-> n, end |-> i = r.pieces]]
           L == Len(replies[c])
<1>1. /\ sent' = [sent EXCEPT ![c] = Append(@, r)]
      /\ wire' = [wire EXCEPT ![c] = @ \o news]
      /\ UNCHANGED <<judge, patient, status, buf, waiting, replies>>
      /\ status[c] = "open" /\ (patient[c] => L = n - 1)
  BY DEF Send, client
<1>2. r \in Requests /\ r.pieces \in Nat /\ r.pieces \in 1 .. r.pieces
  BY ConnectionAssumption DEF Requests
<1>3. sent \in [Conns -> Seq(Requests)] /\ wire \in [Conns -> Seq(Piece)]
  BY DEF CInv, Types
<1>4. Len(sent[c]) \in Nat /\ n \in Nat /\ L \in Nat /\ DOMAIN replies[c] = 1 .. L
  BY <1>3, LenProperties DEF CInv, Types
<1>5. Len(sent'[c]) = n
  BY <1>1, <1>2, <1>3, AppendProperties
<1> HIDE DEF n, L
<1>6. news \in Seq(Piece) /\ \A m : EndOf(news, m) <=> m = n
  <2> DEFINE ps(x, k) == [i \in 1 .. k |-> [n |-> x, end |-> i = k]]
  <2>1. \A x \in Nat, k \in Nat : PiecesOf(ps(x, k), x, k)
    BY Pieces, Zenon
  <2>2. news = ps(n, r.pieces)
    OBVIOUS
  <2> HIDE DEF news, ps
  <2>3. PiecesOf(news, n, r.pieces)
    BY <1>2, <1>4, <2>1, <2>2
  <2> QED
    BY <1>2, <2>3 DEF EndOf, PiecesOf
<1> HIDE DEF news
<1>7. wire'[c] = wire[c] \o news
  BY <1>1, <1>3
<1>8. \A m : Pending(c, m)' <=> Pending(c, m) \/ m = n
  <2>1. \A m : EndOf(wire[c] \o news, m) <=> EndOf(wire[c], m) \/ m = n
    BY <1>3, <1>6, EndsJoined
  <2> QED
    BY <1>1, <1>7, <2>1 DEF Pending
<1>9. L <= Len(sent[c])
  <2>1. CASE L = 0
    BY <1>4, <2>1
  <2>2. CASE L # 0
    <3>1. L \in DOMAIN replies[c]
      BY <1>4, <2>2
    <3>2. L \in 1 .. Len(sent[c])
      BY <3>1 DEF InTurn, CInv, Told, AllTold
    <3> QED
      BY <1>4, <3>2
  <2> QED
    BY <2>1, <2>2
<1>10. Underway(c)
  BY <1>1 DEF InTurn
<1>11. L < n /\ (patient[c] => n <= L + 1)
  BY <1>1, <1>4, <1>9 DEF n
<1>12. \A m \in L + 1 .. n : m = n \/ m \in L + 1 .. Len(sent[c])
  BY <1>4 DEF n
<1>13. Underway(c)'
  <2>1. \A m \in Nat : Pending(c, m)' => L < m
    BY <1>8, <1>10, <1>11 DEF Underway, L
  <2>2. \A m \in L + 1 .. n : Pending(c, m)' \/ AtJudge(c, m)'
    BY <1>1, <1>8, <1>10, <1>12 DEF Underway, AtJudge, L
  <2>3. \A w \in waiting : w.c = c => w.n = L + 1
    BY <1>10 DEF Underway, L
  <2> QED
    BY <1>1, <1>5, <1>11, <2>1, <2>2, <2>3 DEF Underway, L
<1> QED
  BY <1>1, <1>13 DEF InTurn

(* Data moves what is under way, or the connection is gone.                *)
LEMMA DataInTurn ==
  ASSUME CInv, NEW c \in Conns, Data(c), InTurn(c), status \in [Conns -> {"new", "open", "gone"}]
  PROVE  InTurn(c)'
<1>1. UNCHANGED <<judge, patient, sent, waiting, replies>> /\ status[c] = "open"
  BY DEF Data, client
<1>2. PICK k \in 1 .. Len(wire[c]) :
        /\ buf' = [buf EXCEPT ![c] = @ \o SubSeq(wire[c], 1, k)]
        /\ \/ status' = [status EXCEPT ![c] = "gone"]
           \/ /\ wire' = [wire EXCEPT ![c] = SubSeq(@, k + 1, Len(@))]
              /\ status' = status
  BY DEF Data, Gone
<1>3. CASE status' = [status EXCEPT ![c] = "gone"]
  BY <1>1, <1>3 DEF InTurn
<1>4. CASE status' = status /\ wire' = [wire EXCEPT ![c] = SubSeq(@, k + 1, Len(@))]
  <2> DEFINE p == SubSeq(wire[c], 1, k)
             t == SubSeq(wire[c], k + 1, Len(wire[c]))
  <2>1. wire[c] \in Seq(Piece) /\ buf[c] \in Seq(Piece) /\ Ordered(wire[c])
    BY DEF CInv, Types, Unread
  <2>2. \A m : EndOf(wire[c], m) <=> EndOf(p, m) \/ EndOf(t, m)
    BY <2>1, EndsParted
  <2>3. p \in Seq(Piece)
    BY <2>1, Start
  <2>4. buf'[c] = buf[c] \o p /\ wire'[c] = t
    BY <1>2, <1>4 DEF CInv, Types
  <2> HIDE DEF p, t
  <2>5. \A m : EndOf(buf[c] \o p, m) <=> EndOf(buf[c], m) \/ EndOf(p, m)
    BY <2>1, <2>3, EndsJoined
  <2>6. \A m : Pending(c, m)' <=> Pending(c, m)
    BY <2>2, <2>4, <2>5 DEF Pending
  <2>7. Same(c) /\ Steady
    BY <1>1, <1>4, <2>6 DEF Same, Steady
  <2> QED
    BY <2>7, StaysInTurn
<1> QED
  BY <1>2, <1>3, <1>4

(* A call goes to the judge or is finished.                                *)
LEMMA CallGoes ==
  ASSUME CInv, NEW c \in Conns, AnswerCall(c)
  PROVE  \E w \in Call, decision \in Decided :
           /\ Is(w, c, Next_n(c))
           /\ \/ waiting' = waiting \union {w} /\ UNCHANGED replies
              \/ Finish(w, decision) /\ UNCHANGED waiting
<1>1. PICK n \in Nat : n = Next_n(c)
  BY NextLine DEF AnswerCall
<1>2. PICK decision \in Decided : decision = Decides[CallPolicy(c)]
  BY ConnectionAssumption DEF CInv, Types, CallPolicy, Decided
<1>3. PICK strict \in BOOLEAN : strict = IF sent[c][n].kind = "hook" THEN Strict[policy] ELSE TRUE
  BY ConnectionAssumption DEF CInv, Types
<1> DEFINE w == [c |-> c, n |-> n, decision |-> decision, strict |-> strict]
<1>4. w \in Call /\ Is(w, c, n)
  BY DEF Call, Is
<1>5. \/ waiting' = waiting \union {w} /\ UNCHANGED replies
      \/ Finish(w, decision) /\ UNCHANGED waiting
  BY <1>1, <1>2, <1>3 DEF AnswerCall
<1> QED
  BY <1>1, <1>4, <1>5

(* A step of one connection leaves the others as they are.                 *)
LEMMA Elsewhere ==
  ASSUME CInv, Settings, NEW c \in Conns, NEW d \in Conns \ {c},
         \/ Connect(c) \/ \E r \in Sends : Send(c, r)
         \/ Data(c) \/ Close(c) \/ Handler(c) \/ JudgeAnswers(c)
  PROVE  Same(d)
<1>1. /\ sent \in [Conns -> Seq(Requests)] /\ wire \in [Conns -> Seq(Piece)]
      /\ buf \in [Conns -> Seq(Piece)] /\ status \in [Conns -> {"new", "open", "gone"}]
  BY DEF CInv, Types, Settings
<1>2. ASSUME Connect(c) PROVE Same(d)
  BY <1>1, <1>2 DEF Connect, Same, Pending
<1>3. ASSUME NEW r \in Sends, Send(c, r) PROVE Same(d)
  BY <1>1, <1>3 DEF Send, Same, Pending
<1>4. ASSUME Data(c) PROVE Same(d)
  <2>1. UNCHANGED <<sent, waiting, replies>>
    BY <1>4 DEF Data
  <2>2. buf'[d] = buf[d] /\ wire'[d] = wire[d] /\ status'[d] = status[d]
    BY <1>1, <1>4 DEF Data, Gone
  <2> QED
    BY <2>1, <2>2 DEF Same, Pending
<1>5. ASSUME Close(c) PROVE Same(d)
  BY <1>1, <1>5 DEF Close, Gone, Same, Pending
<1>6. ASSUME HandlerReturns(c) PROVE Same(d)
  BY <1>6 DEF HandlerReturns, Same, Pending
<1>7. ASSUME AnswerOther(c) PROVE Same(d)
  <2>1. UNCHANGED <<status, sent, wire, waiting>> /\ HasLine(c) /\ TakeLine(c)
    BY <1>7 DEF AnswerOther
  <2>2. PICK n \in Nat : n = Next_n(c)
    BY <2>1, NextLine
  <2>3. PICK told \in Answers : Write(c, n, told)
    BY <1>7, <2>2 DEF AnswerOther, Answers
  <2>4. replies'[d] = replies[d] /\ buf'[d] = buf[d]
    BY <2>1, <2>3, AnsweredInTurn, OthersStay
  <2> QED
    BY <2>1, <2>4 DEF Same, Pending
<1>8. ASSUME AnswerCall(c) PROVE Same(d)
  <2>1. UNCHANGED <<status, sent, wire>> /\ HasLine(c) /\ TakeLine(c)
    BY <1>8 DEF AnswerCall
  <2>2. buf'[d] = buf[d]
    BY <2>1, OthersStay
  <2>3. PICK w \in Call, decision \in Decided :
          /\ Is(w, c, Next_n(c))
          /\ \/ waiting' = waiting \union {w} /\ UNCHANGED replies
             \/ Finish(w, decision) /\ UNCHANGED waiting
    BY <1>8, CallGoes
  <2>4. replies'[d] = replies[d]
    BY <2>3 DEF Finish, Write, Is, CInv, Types
  <2>5. \A x : x.c = d => (x \in waiting' <=> x \in waiting)
    BY <2>3 DEF Is
  <2> QED
    BY <2>1, <2>2, <2>4, <2>5 DEF Same, Pending
<1>9. ASSUME JudgeAnswers(c) PROVE Same(d)
  <2>1. UNCHANGED <<status, sent, wire, buf>>
    BY <1>9 DEF JudgeAnswers
  <2>2. replies'[d] = replies[d]
    BY <1>9 DEF JudgeAnswers, Finish, Write, CInv, Types
  <2>3. \A w : w.c = d => (w \in waiting' <=> w \in waiting)
    BY <1>9 DEF JudgeAnswers
  <2> QED
    BY <2>1, <2>2, <2>3 DEF Same, Pending
<1> QED
  BY <1>2, <1>3, <1>4, <1>5, <1>6, <1>7, <1>8, <1>9 DEF Handler

(* What a step of a connection does to that connection.                    *)
LEMMA OwnStep ==
  ASSUME CInv, Settings, NEW c \in Conns, Serves(c), InTurn(c),
         \/ Connect(c) \/ \E r \in Sends : Send(c, r)
         \/ Data(c) \/ Close(c) \/ Handler(c) \/ JudgeAnswers(c)
  PROVE  InTurn(c)'
<1>1. status \in [Conns -> {"new", "open", "gone"}]
  BY DEF Settings
<1>2. ASSUME Connect(c) PROVE InTurn(c)'
  <2>1. /\ UNCHANGED <<judge, patient, sent, wire, buf, waiting, replies>>
        /\ status[c] = "new" /\ status'[c] = "open"
    BY <1>1, <1>2 DEF Connect, client
  <2>2. Underway(c)'
    BY <2>1 DEF InTurn, Underway, Pending, AtJudge
  <2> QED
    BY <2>1, <2>2 DEF InTurn
<1>3. ASSUME Close(c) PROVE InTurn(c)'
  BY <1>1, <1>3 DEF Close, Gone, InTurn
<1>4. ASSUME HandlerReturns(c) PROVE InTurn(c)'
  <2>1. Same(c) /\ Steady
    BY <1>4 DEF HandlerReturns, client, Same, Steady, Pending
  <2> QED
    BY <2>1, StaysInTurn
<1>5. ASSUME AnswerOther(c) PROVE InTurn(c)'
  <2>1. UNCHANGED <<judge, patient, status, sent, wire, waiting>> /\ HasLine(c) /\ TakeLine(c)
    BY <1>5 DEF AnswerOther, client
  <2>2. PICK told \in Answers : Write(c, Next_n(c), told)
    BY <1>5 DEF AnswerOther, Answers
  <2> QED
    BY <2>1, <2>2, TakenInTurn
<1>6. ASSUME AnswerCall(c) PROVE InTurn(c)'
  <2>1. UNCHANGED <<judge, patient, status, sent, wire>> /\ HasLine(c) /\ TakeLine(c)
    BY <1>6 DEF AnswerCall, client
  <2>2. PICK w \in Call, decision \in Decided :
          /\ Is(w, c, Next_n(c))
          /\ \/ waiting' = waiting \union {w} /\ UNCHANGED replies
             \/ Finish(w, decision) /\ UNCHANGED waiting
    BY <1>6, CallGoes
  <2>3. CASE waiting' = waiting \union {w} /\ UNCHANGED replies
    BY <2>1, <2>2, <2>3, AskedInTurn
  <2>4. CASE Finish(w, decision) /\ UNCHANGED waiting
    <3>1. PICK told \in Answers : Write(c, Next_n(c), told)
      BY <2>2, <2>4, FinishWrites DEF Is
    <3> QED
      BY <2>1, <2>4, <3>1, TakenInTurn
  <2> QED
    BY <2>2, <2>3, <2>4
<1>7. ASSUME JudgeAnswers(c) PROVE InTurn(c)'
  <2>1. UNCHANGED <<judge, patient, status, sent, wire, buf>>
    BY <1>7 DEF JudgeAnswers, client
  <2>2. PICK w \in waiting, decision \in Decided :
          w.c = c /\ waiting' = waiting \ {w} /\ Finish(w, decision)
    BY <1>7 DEF JudgeAnswers, CInv, Types, Call, Decided
  <2>3. w \in Call
    BY DEF CInv, Types
  <2>4. PICK told \in Answers : Write(c, w.n, told)
    BY <2>2, <2>3, FinishWrites
  <2> QED
    BY <2>1, <2>2, <2>4, JudgedInTurn
<1> QED
  BY <1>1, <1>2, <1>3, <1>4, <1>5, <1>6, <1>7, SentInTurn, DataInTurn DEF Handler

LEMMA SettingsStay ==
  ASSUME CInv, Settings, [Next]_vars
  PROVE  Settings' /\ Steady
<1>1. ASSUME NEW c \in Conns, Connect(c) \/ (\E r \in Sends : Send(c, r)) \/ Data(c) \/ Close(c)
      PROVE  Settings' /\ Steady
  BY <1>1 DEF Settings, Steady, Connect, Send, Data, Close, Gone, client
<1>2. ASSUME NEW c \in Conns, Handler(c) \/ JudgeAnswers(c)
      PROVE  Settings' /\ Steady
  <2>1. UNCHANGED <<judge, patient, status>>
    BY <1>2 DEF Handler, HandlerReturns, AnswerOther, AnswerCall, JudgeAnswers, client
  <2>2. ~judge => waiting' \subseteq waiting
    BY <1>2 DEF Handler, HandlerReturns, AnswerOther, AnswerCall, JudgeAnswers
  <2> QED
    BY <2>1, <2>2 DEF Settings, Steady
<1>3. ASSUME SaveBegins \/ (\E p \in Policies : SaveEnds(p)) \/ Reload \/ UNCHANGED vars
      PROVE  Settings' /\ Steady
  BY <1>3 DEF Settings, Steady, SaveBegins, SaveEnds, Reload, vars, client
<1> QED
  BY <1>1, <1>2, <1>3 DEF Next

(* daemon.mjs:76-137: replies carry no id, and the client takes them in    *)
(* turn.  They are in turn for every client that waits for each answer,    *)
(* and for every client of a daemon without a judge, however requests are  *)
(* cut and pipelined.                                                      *)
THEOREM RepliesInTurn == Spec => []RepliesInOrder
<1>1. Init => RInv
  <2> SUFFICES ASSUME Init PROVE RInv
    OBVIOUS
  <2>1. Settings
    BY DEF Init, Settings
  <2>2. \A c \in Conns : /\ status[c] = "new" /\ sent[c] = << >> /\ wire[c] = << >>
                         /\ buf[c] = << >> /\ replies[c] = << >>
    BY DEF Init
  <2>3. waiting = {} /\ DOMAIN << >> = {} /\ Len(<< >>) = 0
    BY EmptySeq DEF Init
  <2>4. ASSUME NEW c \in Conns PROVE InTurn(c)
    <3>1. \A m : ~Pending(c, m)
      BY <2>2, <2>3 DEF Pending, EndOf
    <3>2. Underway(c)
      BY <2>2, <2>3, <3>1 DEF Underway
    <3> QED
      BY <2>2, <2>3, <3>2 DEF InTurn
  <2> QED
    BY <2>1, <2>4 DEF RInv
<1>2. CInv /\ RInv /\ [Next]_vars => RInv'
  <2> SUFFICES ASSUME CInv, RInv, [Next]_vars PROVE RInv'
    OBVIOUS
  <2>1. Settings /\ Settings' /\ Steady
    BY SettingsStay DEF RInv
  <2>2. ASSUME NEW d \in Conns, Serves(d)' PROVE InTurn(d)'
    <3>1. Serves(d) /\ InTurn(d)
      BY <2>1, <2>2 DEF Serves, Steady, RInv
    <3>2. ASSUME NEW c \in Conns, \/ Connect(c) \/ \E r \in Sends : Send(c, r)
                                  \/ Data(c) \/ Close(c) \/ Handler(c) \/ JudgeAnswers(c)
          PROVE  InTurn(d)'
      <4>1. CASE d = c
        BY <2>1, <3>1, <3>2, <4>1, OwnStep
      <4>2. CASE d # c
        <5>1. Same(d)
          BY <2>1, <3>2, <4>2, Elsewhere
        <5> QED
          BY <2>1, <3>1, <5>1, StaysInTurn
      <4> QED
        BY <4>1, <4>2
    <3>3. ASSUME SaveBegins \/ (\E p \in Policies : SaveEnds(p)) \/ Reload \/ UNCHANGED vars
          PROVE  InTurn(d)'
      <4>1. Same(d)
        BY <3>3 DEF SaveBegins, SaveEnds, Reload, vars, Same, Pending
      <4> QED
        BY <2>1, <3>1, <4>1, StaysInTurn
    <3> QED
      BY <3>2, <3>3 DEF Next
  <2> QED
    BY <2>1, <2>2 DEF RInv
<1>3. RInv => RepliesInOrder
  BY DEF RInv, Serves, InTurn, RepliesInOrder
<1> QED
  BY <1>1, <1>2, <1>3, InductiveInvariant, PTL DEF Spec
=============================================================================

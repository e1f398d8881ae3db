--------------------------- MODULE AuditChainProofs ---------------------------
(***************************************************************************)
(* Theorems about AuditChain for every set of records, every bound and     *)
(* every log.  Under every fault: types, a broken log stays broken, and    *)
(* what verifies was recorded.  When writes are whole and nothing is lost  *)
(* ("chk" faults may happen): the log verifies in every reachable state,   *)
(* holds exactly what was recorded, and damage to it shows.                *)
(***************************************************************************)
EXTENDS AuditChain, AuditFileProofs

WholeWrites == "torn" \notin Faults /\ "loss" \notin Faults

IInv ==
  /\ TypeOK
  /\ closed
  /\ EndsWith(file, logged)
  /\ LinksHold(file)
  /\ Cardinality(Chained(file)) = Len(logged)
  /\ pc # "off" => prev = logged /\ count = Len(logged)
  /\ pc = "chk" => logged # << >>
  /\ \A c \in chk : Anchored(file, c)
-----------------------------------------------------------------------------
(* Every state has the types it should, whatever the faults.               *)
THEOREM TypeCorrect == Spec => []TypeOK
<1>1. Init => TypeOK
  BY LenProperties DEF Init, TypeOK, GENESIS, Hashes, CheckpointRec
<1>2. TypeOK /\ [Next]_vars => TypeOK'
  <2> SUFFICES ASSUME TypeOK, [Next]_vars PROVE TypeOK'
    OBVIOUS
  <2> USE DEF TypeOK
  <2>1. \A l \in Lines : AppendLine(file, closed, l) \in Seq(Lines)
    <3> SUFFICES ASSUME NEW l \in Lines
                 PROVE  AppendLine(file, closed, l) \in Seq(Lines)
      OBVIOUS
    <3>1. Append(file, l) \in Seq(Lines)
      BY AppendProperties
    <3>2. [file EXCEPT ![Len(file)] = BadLine] \in Seq(Lines)
      <4>1. BadLine \in Lines /\ Len(file) \in Nat /\ DOMAIN file = 1 .. Len(file)
        BY LenProperties DEF Lines
      <4>2. CASE Len(file) > 0
        BY <4>1, <4>2, ExceptSeq
      <4>3. CASE Len(file) = 0
        <5>1. file = << >>
          BY <4>3, EmptySeq
        <5>2. [file EXCEPT ![Len(file)] = BadLine] = << >>
          BY <5>1
        <5>3. << >> \in Seq(Lines)
          OBVIOUS
        <5> HIDE DEF TypeOK
        <5> QED
          BY <5>2, <5>3
      <4> QED
        BY <4>1, <4>2, <4>3
    <3> QED
      BY <3>1, <3>2 DEF AppendLine
  <2>2. BadLine \in Lines
    BY DEF Lines
  <2>3. CASE Open
    <3>1. ChainStateOf(file).head \in Hashes /\ ChainStateOf(file).count \in Nat
      <4>1. Cardinality(Chained(file)) \in Nat
        BY ChainedToAll, FS_CardinalityType
      <4>2. HeadAt(file, Len(file)) \in Hashes
        BY HeadAtType, LenProperties
      <4> QED
        BY <4>1, <4>2 DEF ChainStateOf
    <3> QED
      BY <2>3, <3>1 DEF Open, disk, history
  <2>4. CASE \E r \in Recs : RecordAppend(r)
    <3>1. PICK r \in Recs : RecordAppend(r)
      BY <2>4
    <3>2. /\ ChainedLine(prev, r) \in Lines /\ HashOf(prev, r) \in Hashes
          /\ Append(asked, r) \in Seq(Recs) /\ Append(logged, r) \in Seq(Recs)
      BY LineTypes, AppendProperties
    <3> QED
      BY <2>1, <3>1, <3>2 DEF RecordAppend
  <2>5. CASE RecordCheckpoint
    BY <2>5 DEF RecordCheckpoint, CheckpointRec
  <2>6. CASE CheckpointFails
    BY <2>6 DEF CheckpointFails, history
  <2>7. CASE \E r \in Recs : TornAppend(r)
    <3>1. PICK r \in Recs : TornAppend(r)
      BY <2>7
    <3>2. ChainedLine(prev, r) \in Lines /\ Append(asked, r) \in Seq(Recs)
      BY LineTypes, AppendProperties
    <3> QED
      BY <2>1, <2>2, <3>1, <3>2 DEF TornAppend, memory
  <2>8. CASE Crash
    BY <2>8 DEF Crash, disk, history, GENESIS, Hashes
  <2>9. CASE ForeignAppend
    BY <2>9, <2>1, LineTypes DEF ForeignAppend, memory, history
  <2>10. CASE TailLoss
    <3>1. PICK n \in 0 .. Len(file) - 1 : file' = SubSeq(file, 1, n)
      BY <2>10 DEF TailLoss
    <3>2. file' \in Seq(Lines)
      BY <3>1, SubSeqProperties, LenProperties
    <3> QED
      BY <2>10, <3>2 DEF TailLoss, memory, history
  <2>11. CASE UNCHANGED vars
    BY <2>11 DEF vars
  <2> QED
    BY <2>3, <2>4, <2>5, <2>6, <2>7, <2>8, <2>9, <2>10, <2>11 DEF Next
<1> QED
  BY <1>1, <1>2, PTL DEF Spec

(* The invariant holds whatever happens but a torn write or a lost tail.   *)
THEOREM InvHolds == ASSUME WholeWrites PROVE Spec => []IInv
<1>1. Init => IInv
  <2> SUFFICES ASSUME Init PROVE IInv
    OBVIOUS
  <2>1. Chained(file) = {} /\ Len(logged) = 0
    BY DEF Init, Chained
  <2>2. TypeOK
    BY DEF Init, TypeOK, GENESIS, Hashes, CheckpointRec
  <2>3. EndsWith(file, logged) /\ LinksHold(file)
    BY <2>1 DEF Init, EndsWith, LinksHold
  <2> QED
    BY <2>1, <2>2, <2>3, FS_EmptySet DEF Init, IInv
<1>2. IInv /\ TypeOK' /\ [Next]_vars => IInv'
  <2> SUFFICES ASSUME IInv, TypeOK', [Next]_vars PROVE IInv'
    OBVIOUS
  <2>t. /\ TypeOK /\ TypeOK' /\ closed /\ file \in Seq(Lines)
        /\ logged \in Seq(Recs) /\ Len(logged) \in Nat /\ Len(file) \in Nat
        /\ DOMAIN file = 1 .. Len(file)
    BY LenProperties DEF IInv, TypeOK
  (* Steps that leave the log alone: only pc, memory or the sidecar move.  *)
  <2>u. ASSUME UNCHANGED <<file, closed, logged>>,
               pc' # "off" => prev' = logged /\ count' = Len(logged),
               pc' = "chk" => logged # << >>,
               \A c \in chk' : Anchored(file, c)
        PROVE  IInv'
    <3>1. file' = file /\ closed' = closed /\ logged' = logged
      BY <2>u
    <3>2. LinksHold(file') /\ EndsWith(file', logged')
      BY <3>1 DEF IInv
    <3>3. Cardinality(Chained(file')) = Len(logged')
      BY <3>1 DEF IInv
    <3>4. \A c \in chk' : Anchored(file', c)
      BY <2>u, <3>1
    <3> QED
      BY <2>t, <2>u, <3>1, <3>2, <3>3, <3>4 DEF IInv
  (* Steps that append a line to the log.                                  *)
  <2>a. ASSUME NEW l \in Lines, l.kind # "bad",
               l.kind = "chained" => /\ l.prev = HeadAt(file, Len(file))
                                     /\ l.hash = HashOf(l.prev, l.rec),
               file' = Append(file, l), chk' = chk
        PROVE  /\ LinksHold(file')
               /\ \A c \in chk' : Anchored(file', c)
    BY <2>t, <2>a, LinksAppend, AnchoredAppend DEF IInv
  <2>1. CASE Open
    BY <2>1, <2>t, <2>u, ChainStateOfInv DEF Open, IInv, disk, history
  <2>2. CASE \E r \in Recs : RecordAppend(r)
    <3>1. PICK r \in Recs : RecordAppend(r)
      BY <2>2
    <3> DEFINE l == ChainedLine(prev, r)
    <3>2. prev = logged /\ count = Len(logged) /\ prev \in Hashes
      BY <3>1 DEF RecordAppend, IInv, TypeOK
    <3>3. /\ l \in Lines /\ l.kind = "chained" /\ l.prev = prev /\ l.rec = r
          /\ l.hash = HashOf(prev, r)
      BY <3>2, LineTypes
    <3>4. HeadAt(file, Len(file)) = logged
      BY <2>t, HeadOfEnd DEF IInv
    <3>5. file' = Append(file, l) /\ chk' = chk
      BY <2>t, <3>1 DEF RecordAppend, AppendLine
    <3> HIDE DEF l
    <3>6. LinksHold(file') /\ \A c \in chk' : Anchored(file', c)
      BY <2>a, <3>2, <3>3, <3>4, <3>5
    <3>7. /\ logged' = Append(logged, r) /\ prev' = logged' /\ count' = Len(logged')
          /\ logged' # << >> /\ Len(logged') = Len(logged) + 1 /\ closed'
      BY <2>t, <3>1, <3>2, AppendProperties DEF RecordAppend, HashOf
    <3>8. Chained(file') = Chained(file) \union {Len(file) + 1}
      BY <2>t, <3>3, <3>5, ChainedAppend
    <3>9. Cardinality(Chained(file')) = Len(logged')
      <4>1. IsFiniteSet(Chained(file)) /\ Len(file) + 1 \notin Chained(file)
        BY <2>t, ChainedToAll
      <4>2. Cardinality(Chained(file)) = Len(logged)
        BY DEF IInv
      <4> QED
        BY <3>7, <3>8, <4>1, <4>2, FS_AddElement
    <3>10. EndsWith(file', logged')
      <4>1. file'[Len(file) + 1] = l
        BY <2>t, <3>3, <3>5, AppendProperties
      <4>2. \A j \in Chained(file') : j <= Len(file) + 1
        BY <2>t, <3>8, ChainedToAll
      <4>3. l.hash = logged'
        BY <3>2, <3>3, <3>7 DEF HashOf
      <4> QED
        BY <3>8, <4>1, <4>2, <4>3 DEF EndsWith
    <3> QED
      BY <2>t, <3>6, <3>7, <3>9, <3>10 DEF IInv
  <2>3. CASE RecordCheckpoint
    <3>1. logged # << >> /\ Len(logged) > 0 /\ prev = logged /\ count = Len(logged)
      BY <2>3, <2>t, EmptySeq DEF RecordCheckpoint, IInv
    <3>2. PICK m \in Chained(file) : /\ \A j \in Chained(file) : j <= m
                                     /\ file[m].hash = logged
      BY <3>1 DEF IInv, EndsWith
    <3>3. ChainedTo(file, m) = Chained(file)
      BY <3>2 DEF ChainedTo
    <3>4. Anchored(file, [count |-> count, head |-> prev])
      BY <3>1, <3>2, <3>3 DEF Anchored, IInv
    <3> QED
      BY <2>3, <2>t, <2>u, <3>1, <3>4 DEF RecordCheckpoint
  <2>4. CASE CheckpointFails
    <3>1. pc = "chk" /\ prev = logged /\ count = Len(logged)
      BY <2>4 DEF CheckpointFails, IInv
    <3>2. \A c \in chk' : Anchored(file, c)
      BY <2>4 DEF CheckpointFails, IInv
    <3> QED
      BY <2>4, <2>u, <3>1, <3>2 DEF CheckpointFails, history
  <2>5. CASE \E r \in Recs : TornAppend(r)
    BY <2>5, WholeWrites DEF TornAppend, WholeWrites
  <2>6. CASE Crash
    BY <2>6, <2>u DEF Crash, IInv, disk, history
  <2>7. CASE ForeignAppend
    <3>1. file' = Append(file, ForeignLine) /\ chk' = chk /\ closed'
      BY <2>7, <2>t DEF ForeignAppend, AppendLine
    <3>2. LinksHold(file') /\ \A c \in chk' : Anchored(file', c)
      BY <2>a, <3>1, LineTypes
    <3>3. Chained(file') = Chained(file)
      BY <2>t, <3>1, LineTypes, ChainedAppend
    <3>4. EndsWith(file', logged)
      <4>1. \A j \in Chained(file) : file'[j] = file[j]
        BY <2>t, <3>1, LineTypes, AppendProperties, ChainedToAll
      <4> QED
        BY <3>3, <4>1 DEF IInv, EndsWith
    <3> QED
      BY <2>7, <2>t, <3>1, <3>2, <3>3, <3>4
         DEF ForeignAppend, IInv, memory, history
  <2>8. CASE TailLoss
    BY <2>8, WholeWrites DEF TailLoss, WholeWrites
  <2>9. CASE UNCHANGED vars
    BY <2>9, <2>u DEF vars, IInv
  <2> QED
    BY <2>1, <2>2, <2>3, <2>4, <2>5, <2>6, <2>7, <2>8, <2>9 DEF Next
<1> QED
  BY <1>1, <1>2, TypeCorrect, PTL DEF Spec

(* The log verifies in every state, against the checkpoint as it is then.  *)
THEOREM ChainVerifies == ASSUME WholeWrites PROVE Spec => []ChainSurvives
<1>1. IInv => ChainSurvives
  BY DEF IInv, ChainSurvives, VerifyAuditFile, CheckpointHolds, Anchored
<1> QED
  BY <1>1, InvHolds, PTL

(* A running writer continues the chain from where the disk left it.       *)
THEOREM WriterIsAtHead == ASSUME WholeWrites PROVE Spec => []WriterAtHead
<1>1. IInv => WriterAtHead
  BY ChainStateOfInv DEF IInv, TypeOK, WriterAtHead
<1> QED
  BY <1>1, InvHolds, PTL

(* Every record whose append succeeded is in the chain, in order.          *)
THEOREM LogIsComplete == ASSUME WholeWrites PROVE Spec => []NothingLost
<1>1. IInv => NothingLost
  BY ChainStateOfInv DEF IInv, TypeOK, NothingLost
<1> QED
  BY <1>1, InvHolds, PTL

(* The streaming audit implements the append-only ledger: a record extends *)
(* it, a checkpoint moves or loses its anchor, and opening, crashing and   *)
(* foreign lines do not touch it.                                          *)
THEOREM ImplementsLedger == ASSUME WholeWrites PROVE Spec => LedgerSpec
<1> DEFINE led == ChainStateOf(file).head
           anc == IF chk = {} THEN 0 ELSE (CHOOSE c \in chk : TRUE).count
<1>1. Init => Ledger!Init
  <2> SUFFICES ASSUME Init PROVE led = << >> /\ anc = 0
    BY DEF Ledger!Init
  <2>1. Chained(file) = {}
    BY DEF Init, Chained
  <2> QED
    BY <2>1 DEF Init, ChainStateOf, HeadAt, ChainedTo, GENESIS
<1>2. IInv /\ IInv' /\ [Next]_vars => [Ledger!Next]_<<led, anc>>
  <2> SUFFICES ASSUME IInv, IInv', [Next]_vars
               PROVE  Ledger!Next \/ (led' = led /\ anc' = anc)
    OBVIOUS
  <2>1. led = logged /\ led' = logged'
    <3>1. \A f \in Seq(Lines) : \A rs :
            EndsWith(f, rs) /\ Cardinality(Chained(f)) = Len(rs)
              => ChainStateOf(f).head = rs
      BY ChainStateOfInv
    <3>2. /\ EndsWith(file, logged) /\ Cardinality(Chained(file)) = Len(logged)
          /\ file \in Seq(Lines)
      BY DEF IInv, TypeOK
    <3>3. /\ EndsWith(file', logged') /\ Cardinality(Chained(file')) = Len(logged')
          /\ file' \in Seq(Lines)
      BY DEF IInv, TypeOK
    <3> QED
      BY <3>1, <3>2, <3>3
  <2> DEFINE sameLed == led' = led
             sameAnc == anc' = anc
  <2>2. chk' = chk => sameAnc
    OBVIOUS
  <2>3. logged' = logged => sameLed
    BY <2>1
  <2>4. CASE Open \/ Crash \/ ForeignAppend \/ UNCHANGED vars
    <3>1. chk' = chk /\ logged' = logged
      BY <2>4 DEF Open, Crash, ForeignAppend, vars, disk, memory, history
    <3> QED
      BY <3>1, <2>2, <2>3
  <2>5. CASE \E r \in Recs : RecordAppend(r)
    <3>1. PICK r \in Recs : logged' = Append(logged, r) /\ chk' = chk
      BY <2>5 DEF RecordAppend
    <3>2. led' = Append(led, r) /\ sameAnc
      BY <3>1, <2>1, <2>2
    <3> HIDE DEF led, anc
    <3>3. Ledger!Extend
      BY <3>2 DEF Ledger!Extend, led, anc
    <3> QED
      BY <3>3 DEF Ledger!Next
  <2>6. CASE RecordCheckpoint
    <3>1. /\ chk' = {[count |-> count, head |-> prev]} /\ logged' = logged
          /\ count = Len(logged)
      BY <2>6 DEF RecordCheckpoint, IInv
    <3>2. anc' = count
      <4> DEFINE x == [count |-> count, head |-> prev]
      <4>1. (CHOOSE c \in {x} : TRUE) = x
        OBVIOUS
      <4>2. x.count = count
        OBVIOUS
      <4> HIDE DEF x
      <4>3. chk' = {x} /\ {x} # {}
        BY <3>1 DEF x
      <4>4. anc' = (CHOOSE c \in {x} : TRUE).count
        BY <4>3
      <4> QED
        BY <4>1, <4>2, <4>4
    <3>3. anc' = Len(led) /\ sameLed
      BY <3>1, <3>2, <2>1, <2>3
    <3>4. Ledger!MoveAnchor
      BY <3>3 DEF Ledger!MoveAnchor
    <3> QED
      BY <3>4 DEF Ledger!Next
  <2>7. CASE CheckpointFails
    <3>1. (chk' = chk \/ chk' = {}) /\ logged' = logged
      BY <2>7 DEF CheckpointFails, history
    <3>2. CASE chk' = chk
      BY <3>1, <3>2, <2>2, <2>3
    <3>3. CASE chk' = {}
      <4>1. anc' = 0 /\ sameLed
        BY <3>1, <3>3, <2>3
      <4>2. Ledger!LoseAnchor
        BY <4>1 DEF Ledger!LoseAnchor
      <4> QED
        BY <4>2 DEF Ledger!Next
    <3> QED
      BY <3>1, <3>2, <3>3
  <2>8. CASE (\E r \in Recs : TornAppend(r)) \/ TailLoss
    BY <2>8, WholeWrites DEF TornAppend, TailLoss, WholeWrites
  <2> QED
    BY <2>4, <2>5, <2>6, <2>7, <2>8 DEF Next
<1> QED
  BY <1>1, <1>2, InvHolds, PTL DEF Spec, LedgerSpec, Ledger!Spec
-----------------------------------------------------------------------------
(* A line more leaves a broken link broken, and so does a line that is     *)
(* continued: it no longer parses.                                         *)
LEMMA BrokenAppend ==
  ASSUME NEW f \in Seq(Lines), ~LinksHold(f), NEW l \in Lines, NEW ends \in BOOLEAN
  PROVE  ~LinksHold(AppendLine(f, ends, l))
<1>1. PICK i \in DOMAIN f :
        ~(/\ f[i].kind # "bad"
          /\ f[i].kind = "chained" => /\ f[i].prev = HeadAt(f, i - 1)
                                      /\ f[i].hash = HashOf(f[i].prev, f[i].rec))
  BY DEF LinksHold
<1>2. DOMAIN f = 1 .. Len(f) /\ Len(f) \in Nat
  BY LenProperties
<1>3. CASE ends
  <2> DEFINE g == Append(f, l)
  <2>1. g \in Seq(Lines) /\ Len(g) = Len(f) + 1 /\ \A j \in 1 .. Len(f) : g[j] = f[j]
    BY AppendProperties
  <2>2. DOMAIN g = 1 .. Len(f) + 1
    BY <2>1, LenProperties
  <2>3. HeadAt(g, i - 1) = HeadAt(f, i - 1)
    <3>1. i - 1 \in 0 .. Len(f)
      BY <1>2
    <3> QED
      BY <3>1, HeadAtAppend
  <2> HIDE DEF g
  <2>4. i \in DOMAIN g /\ g[i] = f[i]
    BY <1>2, <2>1, <2>2
  <2>5. ~LinksHold(g)
    BY <1>1, <2>3, <2>4 DEF LinksHold
  <2> QED
    BY <1>3, <2>5 DEF AppendLine, g
<1>4. CASE ~ends
  <2> DEFINE g == [f EXCEPT ![Len(f)] = BadLine]
  <2>1. Len(f) \in DOMAIN g /\ g[Len(f)].kind = "bad"
    BY <1>2 DEF BadLine
  <2> HIDE DEF g
  <2>2. ~LinksHold(g)
    BY <2>1 DEF LinksHold
  <2> QED
    BY <1>4, <2>2 DEF AppendLine, g
<1> QED
  BY <1>3, <1>4

(* SECURITY.md:26, under every fault but the loss of lines itself: a break *)
(* in the chain outlives any number of records and restarts.               *)
THEOREM BrokenStaysBroken == Spec => AlarmSticks
<1>1. TypeOK /\ [Next]_vars => [~LinksHold(file) => ~LinksHold(file)' \/ TailLoss]_vars
  <2> SUFFICES ASSUME TypeOK, Next, ~LinksHold(file), ~TailLoss PROVE ~LinksHold(file')
    OBVIOUS
  <2>1. file \in Seq(Lines) /\ closed \in BOOLEAN /\ prev \in Hashes
    BY DEF TypeOK
  <2>2. CASE UNCHANGED file
    BY <2>2
  <2>3. CASE \E l \in Lines : file' = AppendLine(file, closed, l)
    BY <2>1, <2>3, BrokenAppend
  <2>4. ASSUME NEW r \in Recs, RecordAppend(r) \/ TornAppend(r)
        PROVE  \E l \in Lines : file' = AppendLine(file, closed, l)
    <3>1. ChainedLine(prev, r) \in Lines /\ BadLine \in Lines
      BY <2>1, LineTypes DEF Lines
    <3> QED
      BY <2>4, <3>1 DEF RecordAppend, TornAppend
  <2>5. ASSUME ForeignAppend
        PROVE  \E l \in Lines : file' = AppendLine(file, closed, l)
    BY <2>5, LineTypes DEF ForeignAppend
  <2>6. ASSUME Open \/ RecordCheckpoint \/ CheckpointFails \/ Crash
        PROVE  UNCHANGED file
    BY <2>6 DEF Open, RecordCheckpoint, CheckpointFails, Crash, disk
  <2> QED
    BY <2>2, <2>3, <2>4, <2>5, <2>6 DEF Next
<1> QED
  BY <1>1, TypeCorrect, PTL DEF Spec, AlarmSticks
-----------------------------------------------------------------------------
(* Whenever the links of the first n lines hold, what the log is then the  *)
(* chain of was asked for, whatever follows.                               *)
Genuine(f, calls) ==
  \A n \in 0 .. Len(f) : LinksTo(f, n) => IsSubsequence(HeadAt(f, n), calls)

(* Logs that begin with the same lines agree on them.                      *)
LEMMA SameStart ==
  ASSUME NEW f \in Seq(Lines), NEW g \in Seq(Lines), NEW k \in 0 .. Len(f),
         k <= Len(g), \A i \in 1 .. k : g[i] = f[i]
  PROVE  \A n \in 0 .. k : HeadAt(g, n) = HeadAt(f, n) /\ (LinksTo(g, n) <=> LinksTo(f, n))
<1>1. /\ Len(f) \in Nat /\ DOMAIN f = 1 .. Len(f)
      /\ Len(g) \in Nat /\ DOMAIN g = 1 .. Len(g)
  BY LenProperties
<1>2. ASSUME NEW n \in 0 .. k PROVE HeadAt(g, n) = HeadAt(f, n)
  <2>1. \A i : i \in ChainedTo(f, n) <=> i \in ChainedTo(g, n)
    <3>1. \A i \in 1 .. Len(f) : i <= n => i \in 1 .. k /\ i \in 1 .. Len(g)
      BY <1>1
    <3>2. \A i \in 1 .. Len(g) : i <= n => i \in 1 .. k /\ i \in 1 .. Len(f)
      BY <1>1
    <3> QED
      BY <1>1, <3>1, <3>2 DEF ChainedTo, Chained
  <2>2. ChainedTo(f, n) = ChainedTo(g, n) /\ ChainedTo(f, n) \subseteq 1 .. Len(f)
    BY <1>1, <2>1 DEF ChainedTo, Chained
  <2>3. CASE ChainedTo(f, n) = {}
    BY <2>2, <2>3 DEF HeadAt
  <2>4. CASE ChainedTo(f, n) # {}
    <3>1. PICK m \in ChainedTo(f, n) : \A j \in ChainedTo(f, n) : j <= m
      BY <1>1, <2>2, <2>4, LastExists
    <3>2. m \in 1 .. k
      BY <1>1, <2>2 DEF ChainedTo
    <3>3. n \in Nat
      BY <1>1
    <3>4. HeadAt(f, n) = f[m].hash
      BY <3>1, <3>3, HeadAtMax
    <3>5. HeadAt(g, n) = g[m].hash
      BY <2>2, <3>1, <3>3, HeadAtMax
    <3> QED
      BY <3>2, <3>4, <3>5
  <2> QED
    BY <2>3, <2>4
<1>3. ASSUME NEW n \in 0 .. k PROVE LinksTo(g, n) <=> LinksTo(f, n)
  <2>1. \A i \in 1 .. n : g[i] = f[i] /\ HeadAt(g, i - 1) = HeadAt(f, i - 1)
    <3> TAKE i \in 1 .. n
    <3>1. i \in 1 .. k /\ i - 1 \in 0 .. k
      BY <1>1
    <3> QED
      BY <1>2, <3>1
  <2> QED
    BY <2>1 DEF LinksTo
<1> QED
  BY <1>2, <1>3

(* One more call, whether or not its record is one more of the chain.      *)
LEMMA LongerSubsequence ==
  ASSUME NEW s \in Seq(Recs), NEW t \in Seq(Recs), NEW r \in Recs, IsSubsequence(s, t)
  PROVE  IsSubsequence(s, Append(t, r)) /\ IsSubsequence(Append(s, r), Append(t, r))
<1> DEFINE u == Append(t, r)
           v == Append(s, r)
<1>1. /\ Len(s) \in Nat /\ DOMAIN s = 1 .. Len(s)
      /\ Len(t) \in Nat /\ DOMAIN t = 1 .. Len(t)
  BY LenProperties
<1>2. /\ u \in Seq(Recs) /\ Len(u) = Len(t) + 1 /\ u[Len(t) + 1] = r
      /\ \A i \in 1 .. Len(t) : u[i] = t[i]
  BY AppendProperties
<1>3. /\ v \in Seq(Recs) /\ Len(v) = Len(s) + 1 /\ v[Len(s) + 1] = r
      /\ \A i \in 1 .. Len(s) : v[i] = s[i]
  BY AppendProperties
<1>4. DOMAIN u = 1 .. Len(t) + 1 /\ DOMAIN v = 1 .. Len(s) + 1
  BY <1>2, <1>3, LenProperties
<1> HIDE DEF u, v
<1>5. PICK at \in [DOMAIN s -> DOMAIN t] :
        /\ \A i, j \in DOMAIN s : i < j => at[i] < at[j]
        /\ \A i \in DOMAIN s : s[i] = t[at[i]]
  BY DEF IsSubsequence
<1>6. IsSubsequence(s, u)
  <2>1. at \in [DOMAIN s -> DOMAIN u]
    BY <1>1, <1>4, <1>5
  <2>2. \A i \in DOMAIN s : s[i] = u[at[i]]
    BY <1>1, <1>2, <1>5
  <2> QED
    BY <1>5, <2>1, <2>2 DEF IsSubsequence
<1>7. IsSubsequence(v, u)
  <2> DEFINE to == [i \in DOMAIN v |-> IF i \in DOMAIN s THEN at[i] ELSE Len(t) + 1]
  <2>1. \A i \in DOMAIN v : i \in DOMAIN s \/ i = Len(s) + 1
    BY <1>1, <1>4
  <2>2. \A i \in DOMAIN s : to[i] = at[i] /\ at[i] \in 1 .. Len(t)
    BY <1>1, <1>4, <1>5
  <2>3. Len(s) + 1 \in DOMAIN v /\ to[Len(s) + 1] = Len(t) + 1
    BY <1>1, <1>4
  <2>4. to \in [DOMAIN v -> DOMAIN u]
    BY <1>1, <1>4, <1>5
  <2> HIDE DEF to
  <2>5. \A i, j \in DOMAIN v : i < j => to[i] < to[j]
    <3> SUFFICES ASSUME NEW i \in DOMAIN v, NEW j \in DOMAIN v, i < j PROVE to[i] < to[j]
      OBVIOUS
    <3>1. i \in DOMAIN s
      BY <1>1, <1>4
    <3>2. CASE j \in DOMAIN s
      BY <1>5, <2>2, <3>1, <3>2
    <3>3. CASE j = Len(s) + 1
      BY <1>1, <2>2, <2>3, <3>1, <3>3
    <3> QED
      BY <2>1, <3>2, <3>3
  <2>6. \A i \in DOMAIN v : v[i] = u[to[i]]
    <3> TAKE i \in DOMAIN v
    <3>1. CASE i \in DOMAIN s
      BY <1>1, <1>2, <1>3, <1>5, <2>2, <3>1
    <3>2. CASE i = Len(s) + 1
      BY <1>2, <1>3, <2>3, <3>2
    <3> QED
      BY <2>1, <3>1, <3>2
  <2> QED
    BY <2>4, <2>5, <2>6 DEF IsSubsequence
<1> QED
  BY <1>6, <1>7 DEF u, v

LEMMA GenuineAppend ==
  ASSUME NEW f \in Seq(Lines), NEW ends \in BOOLEAN, NEW l \in Lines,
         NEW s \in Seq(Recs), NEW t \in Seq(Recs), Genuine(f, s),
         \A h \in Seq(Recs) : IsSubsequence(h, s) => IsSubsequence(h, t),
         l.kind = "chained" =>
           \A h \in Seq(Recs) : IsSubsequence(h, s) => IsSubsequence(HashOf(h, l.rec), t)
  PROVE  Genuine(AppendLine(f, ends, l), t)
<1>1. Len(f) \in Nat /\ DOMAIN f = 1 .. Len(f)
  BY LenProperties
<1>2. \A n \in 0 .. Len(f) : HeadAt(f, n) \in Seq(Recs)
  BY <1>1, HeadAtType DEF Hashes
<1>3. ASSUME NEW g \in Seq(Lines), NEW k \in 0 .. Len(f), k <= Len(g), \A i \in 1 .. k : g[i] = f[i],
             NEW n \in 0 .. k, LinksTo(g, n)
      PROVE  IsSubsequence(HeadAt(g, n), t)
  <2>1. HeadAt(g, n) = HeadAt(f, n) /\ LinksTo(f, n)
    BY <1>3, SameStart
  <2>2. n \in 0 .. Len(f)
    BY <1>1
  <2> QED
    BY <1>2, <2>1, <2>2 DEF Genuine
<1>4. CASE ends
  <2> DEFINE g == Append(f, l)
  <2>1. /\ g \in Seq(Lines) /\ Len(g) = Len(f) + 1 /\ g[Len(f) + 1] = l
        /\ \A j \in 1 .. Len(f) : g[j] = f[j]
    BY AppendProperties
  <2>2. /\ l.kind # "chained" => Chained(g) = Chained(f)
        /\ ChainedTo(g, Len(f)) = ChainedTo(f, Len(f))
    BY <1>1, ChainedAppend
  <2>3. l.kind = "chained" => HeadAt(g, Len(g)) = l.hash
    BY HeadAfterAppend
  <2> HIDE DEF g
  <2>4. Len(f) \in 0 .. Len(f) /\ Len(f) <= Len(g)
    BY <1>1, <2>1
  <2>5. HeadAt(g, Len(f)) = HeadAt(f, Len(f)) /\ (LinksTo(g, Len(f)) <=> LinksTo(f, Len(f)))
    BY <2>1, <2>4, SameStart
  <2>6. ASSUME LinksTo(g, Len(f) + 1) PROVE IsSubsequence(HeadAt(g, Len(f) + 1), t)
    <3>1. /\ l.kind = "chained" => /\ l.prev = HeadAt(g, Len(f))
                                   /\ l.hash = HashOf(l.prev, l.rec)
          /\ LinksTo(g, Len(f))
      <4>1. Len(f) + 1 \in 1 .. Len(f) + 1 /\ (Len(f) + 1) - 1 = Len(f)
            /\ \A i \in 1 .. Len(f) : i \in 1 .. Len(f) + 1
        BY <1>1
      <4> QED
        BY <2>1, <2>6, <4>1 DEF LinksTo
    <3>2. IsSubsequence(HeadAt(f, Len(f)), s)
      BY <2>4, <2>5, <3>1 DEF Genuine
    <3>3. CASE l.kind = "chained"
      BY <1>2, <2>1, <2>3, <2>4, <2>5, <3>1, <3>2, <3>3
    <3>4. CASE l.kind # "chained"
      <4>1. ChainedTo(g, Len(g)) = ChainedTo(g, Len(f))
        BY <2>1, <2>2, <3>4, ChainedToAll
      <4>2. HeadAt(g, Len(g)) = HeadAt(g, Len(f))
        BY <4>1 DEF HeadAt
      <4> QED
        BY <1>2, <2>1, <2>4, <2>5, <3>2, <4>2
    <3> QED
      BY <3>3, <3>4
  <2>7. \A n \in 0 .. Len(g) : n \in 0 .. Len(f) \/ n = Len(f) + 1
    BY <1>1, <2>1
  <2>8. Genuine(g, t)
    BY <1>3, <2>1, <2>4, <2>6, <2>7 DEF Genuine
  <2> QED
    BY <1>4, <2>8 DEF AppendLine, g
<1>5. CASE ~ends /\ Len(f) = 0
  <2>1. f = << >>
    BY <1>5, EmptySeq
  <2>2. AppendLine(f, ends, l) = f
    BY <1>5, <2>1 DEF AppendLine
  <2> QED
    BY <1>2, <2>2 DEF Genuine
<1>6. CASE ~ends /\ Len(f) # 0
  <2> DEFINE g == [f EXCEPT ![Len(f)] = BadLine]
  <2>1. BadLine \in Lines /\ BadLine.kind = "bad" /\ Len(f) \in 1 .. Len(f)
    BY <1>1, <1>6 DEF Lines, BadLine
  <2>2. g \in Seq(Lines) /\ Len(g) = Len(f) /\ \A i \in 1 .. Len(f) : i # Len(f) => g[i] = f[i]
    <3>1. \A i \in 1 .. Len(f), l2 \in Lines :
            /\ [f EXCEPT ![i] = l2] \in Seq(Lines)
            /\ Len([f EXCEPT ![i] = l2]) = Len(f)
            /\ \A x \in 1 .. Len(f) : [f EXCEPT ![i] = l2][x] = IF x = i THEN l2 ELSE f[x]
      BY ExceptSeq
    <3>2. \A i \in 1 .. Len(f) : i # Len(f) => g[i] = f[i]
      BY <2>1, <3>1
    <3> QED
      BY <2>1, <3>1, <3>2
  <2>3. g[Len(f)].kind = "bad"
    BY <1>1, <2>1
  <2> HIDE DEF g
  <2>4. PICK k \in Nat : k = Len(f) /\ k # 0
    BY <1>1, <1>6
  <2>5. Len(f) - 1 \in 0 .. Len(f) /\ Len(f) - 1 <= Len(g)
        /\ \A i \in 1 .. Len(f) - 1 : g[i] = f[i]
    <3>1. /\ k - 1 \in 0 .. k /\ k - 1 <= k
          /\ \A i \in 1 .. k - 1 : i \in 1 .. k /\ i # k
      BY <2>4
    <3> QED
      BY <2>2, <2>4, <3>1
  <2>6. ~LinksTo(g, Len(f))
    BY <2>1, <2>3 DEF LinksTo
  <2>7. \A n \in 0 .. Len(g) : n \in 0 .. Len(f) - 1 \/ n = Len(f)
    <3>1. \A n \in 0 .. k : n \in 0 .. k - 1 \/ n = k
      BY <2>4
    <3> QED
      BY <2>2, <2>4, <3>1
  <2>8. Genuine(g, t)
    BY <1>3, <2>2, <2>5, <2>6, <2>7 DEF Genuine
  <2> QED
    BY <1>6, <2>8 DEF AppendLine, g
<1> QED
  BY <1>4, <1>5, <1>6

(* audit.mjs:118-139, under every fault, torn writes and lost tails too: a *)
(* log that verifies holds nothing but what record() was called with, each *)
(* once and in the order of the calls.                                     *)
THEOREM VerifiedWasRecorded == Spec => []VerifiedIsGenuine
<1> DEFINE G == Genuine(file, asked)
<1>1. Init => G
  <2> SUFFICES ASSUME Init PROVE G
    OBVIOUS
  <2>1. file = << >> /\ asked = << >> /\ Len(<< >>) = 0 /\ DOMAIN << >> = {}
    BY EmptySeq DEF Init
  <2>2. HeadAt(file, 0) = << >>
    BY <2>1 DEF HeadAt, ChainedTo, Chained, GENESIS
  <2>3. IsSubsequence(<< >>, << >>)
    <3> DEFINE at == [i \in {} |-> i]
    <3>1. at \in [{} -> {}]
      OBVIOUS
    <3> HIDE DEF at
    <3> QED
      BY <2>1, <3>1 DEF IsSubsequence
  <2> QED
    BY <2>1, <2>2, <2>3 DEF Genuine
<1>2. TypeOK /\ G /\ [Next]_vars => G'
  <2> SUFFICES ASSUME TypeOK, G, [Next]_vars PROVE G'
    OBVIOUS
  <2>1. /\ file \in Seq(Lines) /\ closed \in BOOLEAN /\ prev \in Hashes
        /\ asked \in Seq(Recs)
    BY DEF TypeOK
  <2> HIDE DEF G
  <2>2. ASSUME NEW r \in Recs, RecordAppend(r) \/ TornAppend(r) PROVE G'
    <3>1. PICK l \in {BadLine, ChainedLine(prev, r)} : file' = AppendLine(file, closed, l)
      BY <2>2 DEF RecordAppend, TornAppend
    <3>2. asked' = Append(asked, r)
      BY <2>2 DEF RecordAppend, TornAppend
    <3>3. asked' \in Seq(Recs)
      BY <2>1, <3>2, AppendProperties
    <3>4. l \in Lines /\ (l.kind = "chained" => l.rec = r)
      BY <2>1, <3>1, LineTypes DEF BadLine, Lines
    <3>5. \A h \in Seq(Recs) : IsSubsequence(h, asked) =>
            IsSubsequence(h, asked') /\ IsSubsequence(HashOf(h, r), asked')
      BY <2>1, <3>2, LongerSubsequence DEF HashOf
    <3>6. Genuine(AppendLine(file, closed, l), asked')
      BY <2>1, <3>3, <3>4, <3>5, GenuineAppend DEF G
    <3> QED
      BY <3>1, <3>6 DEF G
  <2>3. ASSUME ForeignAppend PROVE G'
    <3>1. ForeignLine \in Lines /\ ForeignLine.kind = "foreign"
      BY LineTypes
    <3>2. Genuine(AppendLine(file, closed, ForeignLine), asked)
      BY <2>1, <3>1, GenuineAppend DEF G
    <3> QED
      BY <2>3, <3>2 DEF ForeignAppend, history, G
  <2>4. ASSUME TailLoss PROVE G'
    <3>1. PICK m \in 0 .. Len(file) - 1 : file' = SubSeq(file, 1, m)
      BY <2>4 DEF TailLoss
    <3>2. Len(file) \in Nat /\ m \in 0 .. Len(file)
      BY <2>1, LenProperties
    <3>3. /\ file' \in Seq(Lines) /\ Len(file') = m
          /\ \A i \in 1 .. m : file'[i] = file[i]
      BY <2>1, <3>1, <3>2, LenProperties, SubSeqProperties
    <3>4. \A n \in 0 .. m : HeadAt(file', n) = HeadAt(file, n)
                            /\ (LinksTo(file', n) <=> LinksTo(file, n))
      BY <2>1, <3>2, <3>3, SameStart
    <3>5. \A n \in 0 .. m : n \in 0 .. Len(file)
      BY <3>2
    <3> QED
      BY <2>4, <3>3, <3>4, <3>5 DEF TailLoss, history, G, Genuine
  <2>5. ASSUME Open \/ RecordCheckpoint \/ CheckpointFails \/ Crash \/ UNCHANGED vars
        PROVE  G'
    BY <2>5 DEF Open, RecordCheckpoint, CheckpointFails, Crash, disk, history, vars, G, Genuine
  <2> QED
    BY <2>2, <2>3, <2>4, <2>5 DEF Next
<1>3. TypeOK /\ G => VerifiedIsGenuine
  <2> SUFFICES ASSUME TypeOK, G, LinksHold(file)
               PROVE  IsSubsequence(HeadAt(file, Len(file)), asked)
    BY DEF VerifiedIsGenuine, VerifyAuditFile, ChainStateOf
  <2>1. Len(file) \in Nat /\ DOMAIN file = 1 .. Len(file)
    BY LenProperties DEF TypeOK
  <2>2. LinksTo(file, Len(file))
    BY <2>1 DEF LinksHold, LinksTo
  <2> QED
    BY <2>1, <2>2 DEF Genuine
<1> QED
  BY <1>1, <1>2, <1>3, TypeCorrect, PTL DEF Spec
-----------------------------------------------------------------------------
(* A chained line commits to the records up to its own, by its number.     *)
At(f, i) == Cardinality(ChainedTo(f, i))
Numbered(f, rs) ==
  \A i \in Chained(f) : At(f, i) \in 1 .. Len(rs) /\ f[i].hash = SubSeq(rs, 1, At(f, i))

LEMMA NumberedAppend ==
  ASSUME NEW f \in Seq(Lines), NEW l \in Lines, NEW rs \in Seq(Recs), NEW ss \in Seq(Recs),
         Numbered(f, rs), Len(rs) <= Len(ss), \A i \in 1 .. Len(rs) : ss[i] = rs[i],
         l.kind = "chained" => /\ l.hash = ss /\ Len(ss) = Len(rs) + 1
                               /\ Cardinality(Chained(f)) = Len(rs)
  PROVE  Numbered(Append(f, l), ss)
<1> DEFINE g == Append(f, l)
<1>1. /\ g \in Seq(Lines) /\ Len(g) = Len(f) + 1 /\ g[Len(f) + 1] = l
      /\ \A i \in 1 .. Len(f) : g[i] = f[i]
  BY AppendProperties
<1>2. Len(f) \in Nat /\ Len(rs) \in Nat /\ Len(ss) \in Nat
  BY LenProperties
<1>3. /\ l.kind = "chained" => Chained(g) = Chained(f) \union {Len(f) + 1}
      /\ l.kind # "chained" => Chained(g) = Chained(f)
      /\ \A n \in 0 .. Len(f) : ChainedTo(g, n) = ChainedTo(f, n)
  BY ChainedAppend
<1> HIDE DEF g
<1>4. PICK F \in Nat, R \in Nat, S \in Nat : F = Len(f) /\ R = Len(rs) /\ S = Len(ss) /\ R <= S
  BY <1>2
<1>5. Chained(f) \subseteq 1 .. F /\ IsFiniteSet(Chained(f))
  BY <1>4, ChainedToAll
<1>6. ASSUME NEW i \in Chained(f)
      PROVE  At(g, i) \in 1 .. S /\ g[i].hash = SubSeq(ss, 1, At(g, i))
  <2>1. i \in 1 .. F /\ i \in 0 .. F
    BY <1>5
  <2>2. PICK k \in 1 .. R : k = At(f, i) /\ f[i].hash = SubSeq(rs, 1, k)
    BY <1>4 DEF Numbered
  <2>3. At(g, i) = k /\ g[i] = f[i]
    BY <1>1, <1>3, <1>4, <2>1, <2>2 DEF At
  <2>4. k \in 1 .. S /\ k \in 0 .. R /\ k \in 0 .. S
    BY <1>4
  <2>5. SubSeq(ss, 1, k) = SubSeq(rs, 1, k)
    <3>1. \A x \in 1 .. k : x \in 1 .. R
      BY <1>4
    <3>2. /\ SubSeq(ss, 1, k) = Restrict(ss, 1 .. k)
          /\ SubSeq(rs, 1, k) = Restrict(rs, 1 .. k)
      BY <1>4, <2>4, SubSeqRestrict
    <3> QED
      BY <1>4, <3>1, <3>2 DEF Restrict
  <2> QED
    BY <2>2, <2>3, <2>4, <2>5
<1>7. ASSUME l.kind = "chained"
      PROVE  At(g, F + 1) \in 1 .. S /\ g[F + 1].hash = SubSeq(ss, 1, At(g, F + 1))
  <2>1. ChainedTo(g, F + 1) = Chained(f) \union {F + 1}
    BY <1>1, <1>3, <1>4, <1>7, ChainedToAll
  <2>2. F + 1 \notin Chained(f)
    BY <1>4, <1>5
  <2>3. At(g, F + 1) = S
    <3>1. Cardinality(Chained(f) \union {F + 1}) = Cardinality(Chained(f)) + 1
      BY <1>5, <2>2, FS_AddElement
    <3>2. S = R + 1 /\ Cardinality(Chained(f)) = R
      BY <1>4, <1>7
    <3> QED
      BY <2>1, <3>1, <3>2 DEF At
  <2>4. SubSeq(ss, 1, S) = ss
    BY <1>4, SubSeqFull
  <2>5. S \in 1 .. S
    BY <1>4, <1>7
  <2> QED
    BY <1>1, <1>4, <1>7, <2>3, <2>4, <2>5
<1>8. \A i \in Chained(g) : i \in Chained(f) \/ (l.kind = "chained" /\ i = F + 1)
  BY <1>3, <1>4
<1> QED
  BY <1>4, <1>6, <1>7, <1>8 DEF Numbered, g

LEMMA LinesAreNumbered == ASSUME WholeWrites PROVE Spec => [](IInv /\ Numbered(file, logged))
<1> DEFINE NInv == Numbered(file, logged)
<1>1. Init => NInv
  BY DEF Init, Numbered, Chained
<1>2. IInv /\ NInv /\ [Next]_vars => NInv'
  <2> SUFFICES ASSUME IInv, NInv, [Next]_vars PROVE Numbered(file', logged')
    BY DEF Numbered, At
  <2>1. /\ file \in Seq(Lines) /\ logged \in Seq(Recs) /\ closed /\ Len(logged) \in Nat
        /\ Cardinality(Chained(file)) = Len(logged)
    BY LenProperties DEF IInv, TypeOK
  <2> HIDE DEF NInv
  <2>2. ASSUME NEW r \in Recs, RecordAppend(r) PROVE Numbered(file', logged')
    <3>1. prev = logged /\ prev \in Hashes
      BY <2>2 DEF RecordAppend, IInv, TypeOK
    <3>2. PICK l \in Lines : /\ l = ChainedLine(prev, r) /\ l.kind = "chained"
                             /\ l.hash = Append(logged, r)
      BY <3>1, LineTypes DEF HashOf
    <3>3. file' = Append(file, l) /\ logged' = Append(logged, r)
      BY <2>1, <2>2, <3>2 DEF RecordAppend, AppendLine
    <3>4. /\ Append(logged, r) \in Seq(Recs) /\ Len(Append(logged, r)) = Len(logged) + 1
          /\ \A i \in 1 .. Len(logged) : Append(logged, r)[i] = logged[i]
      BY <2>1, AppendProperties
    <3>5. Numbered(Append(file, l), Append(logged, r))
      <4>1. PICK ss \in Seq(Recs) : ss = Append(logged, r)
        BY <3>4
      <4>2. Len(logged) <= Len(ss) /\ \A i \in 1 .. Len(logged) : ss[i] = logged[i]
        BY <2>1, <3>4, <4>1
      <4>3. Numbered(Append(file, l), ss)
        BY <2>1, <3>2, <3>4, <4>1, <4>2, NumberedAppend DEF NInv
      <4> QED
        BY <4>1, <4>3
    <3> QED
      BY <3>3, <3>5
  <2>3. ASSUME ForeignAppend PROVE Numbered(file', logged')
    <3>1. file' = Append(file, ForeignLine) /\ logged' = logged
      BY <2>1, <2>3 DEF ForeignAppend, AppendLine, history
    <3>2. Numbered(Append(file, ForeignLine), logged)
      BY <2>1, LineTypes, NumberedAppend DEF NInv
    <3> QED
      BY <3>1, <3>2
  <2>4. ASSUME Open \/ RecordCheckpoint \/ CheckpointFails \/ Crash \/ UNCHANGED vars
        PROVE  Numbered(file', logged')
    BY <2>4 DEF Open, RecordCheckpoint, CheckpointFails, Crash, disk, history, vars, NInv
  <2> QED
    BY <2>2, <2>3, <2>4, WholeWrites DEF Next, TornAppend, TailLoss, WholeWrites
<1> QED
  BY <1>1, <1>2, InvHolds, PTL DEF Spec

(* What a forger writes: line k commits to the first k records.            *)
LEMMA RechainedLines ==
  ASSUME NEW rs \in Seq(Recs), NEW k \in Chained(Rechained(rs))
  PROVE  /\ k \in 1 .. Len(rs) /\ At(Rechained(rs), k) = k
         /\ Rechained(rs)[k].hash = SubSeq(rs, 1, k)
<1> DEFINE g == Rechained(rs)
<1>1. PICK R \in Nat : R = Len(rs) /\ DOMAIN rs = 1 .. R
  BY LenProperties
<1>2. DOMAIN g = 1 .. R /\ \A i \in 1 .. R : g[i] = ChainedLine(SubSeq(rs, 1, i - 1), rs[i])
  BY <1>1 DEF Rechained
<1> HIDE DEF g
<1>3. \A i \in 1 .. R : g[i].kind = "chained" /\ g[i].hash = HashOf(SubSeq(rs, 1, i - 1), rs[i])
  BY <1>2 DEF ChainedLine
<1>4. k \in 1 .. R
  BY <1>2 DEF Chained, g
<1>5. ChainedTo(g, k) = 1 .. k
  <2>1. \A i : i \in ChainedTo(g, k) <=> i \in 1 .. k
    BY <1>2, <1>3, <1>4 DEF ChainedTo, Chained
  <2> QED
    BY <2>1 DEF ChainedTo
<1>6. At(g, k) = k
  <2>1. Cardinality(1 .. k) = k
    BY <1>4, FS_Interval
  <2> QED
    BY <1>5, <2>1 DEF At
<1>7. g[k].hash = SubSeq(rs, 1, k)
  <2>1. 1 \in 1 .. Len(rs) /\ k \in 1 .. Len(rs) /\ k - 1 \in Int /\ rs[k] \in Recs
    BY <1>1, <1>4, ElementOfSeq
  <2>2. SubSeq(rs, 1, k) = SubSeq(rs, 1, k - 1) \o <<rs[k]>>
    BY <2>1, SubSeqRecursiveSecond
  <2>3. SubSeq(rs, 1, k - 1) \in Seq(Recs)
    <3>1. \A i \in 1 .. k - 1 : rs[i] \in Recs
      BY <1>1, <1>4, ElementOfSeq
    <3> QED
      BY <2>1, <3>1, SubSeqProperties
  <2>4. Append(SubSeq(rs, 1, k - 1), rs[k]) = SubSeq(rs, 1, k - 1) \o <<rs[k]>>
    BY <2>1, <2>3, AppendIsConcat
  <2> QED
    BY <1>3, <1>4, <2>2, <2>4 DEF HashOf
<1> QED
  BY <1>1, <1>4, <1>6, <1>7 DEF g

(* audit.mjs:130-139: a checkpoint that was written pins the records it    *)
(* was written for: no shorter log and no freshly hashed one, however      *)
(* long, passes against it unless it begins with exactly those records,    *)
(* and a log that is gone does not.                                        *)
THEOREM CheckpointsPin == ASSUME WholeWrites PROVE Spec => []CheckpointPins
<1>1. IInv /\ Numbered(file, logged) => CheckpointPins
  <2> SUFFICES ASSUME IInv, Numbered(file, logged), NEW c \in chk
               PROVE  /\ \A n \in 0 .. Len(file) :
                           VerifyAuditFile(SubSeq(file, 1, n), chk)
                             => Cardinality(ChainedTo(file, n)) >= c.count
                      /\ \A rs \in BoundedSeq(Recs, MaxLines) :
                           VerifyAuditFile(Rechained(rs), chk)
                             => IsPrefix(SubSeq(logged, 1, c.count), rs)
                      /\ ~VerifyUnreadable(chk)
    BY DEF CheckpointPins
  <2>1. file \in Seq(Lines) /\ logged \in Seq(Recs) /\ c \in CheckpointRec /\ Anchored(file, c)
    BY DEF IInv, TypeOK
  <2>2. PICK k \in Nat : k = c.count /\ k > 0
    BY <2>1 DEF Anchored, CheckpointRec
  <2>3. c.head = SubSeq(logged, 1, k) /\ k \in 1 .. Len(logged)
    <3>1. PICK i \in Chained(file) : At(file, i) = c.count /\ file[i].hash = c.head
      BY <2>1 DEF Anchored, At
    <3> QED
      BY <2>2, <3>1 DEF Numbered
  <2>4. PICK L \in Nat, F \in Nat : L = Len(logged) /\ F = Len(file) /\ DOMAIN file = 1 .. F
    BY <2>1, LenProperties
  <2>5. ASSUME NEW f, VerifyAuditFile(f, chk)
        PROVE  \E i \in Chained(f) : At(f, i) = k /\ f[i].hash = SubSeq(logged, 1, k)
    BY <2>2, <2>3, <2>5 DEF VerifyAuditFile, CheckpointHolds, At
  <2>6. ASSUME NEW n \in 0 .. Len(file), VerifyAuditFile(SubSeq(file, 1, n), chk)
        PROVE  Cardinality(ChainedTo(file, n)) >= c.count
    <3> DEFINE f == SubSeq(file, 1, n)
    <3>1. PICK i \in Chained(f) : At(f, i) = k
      BY <2>5, <2>6
    <3>2. f = Restrict(file, 1 .. n)
      BY <2>1, SubSeqRestrict
    <3>3. DOMAIN f = 1 .. n /\ \A x \in 1 .. n : f[x] = file[x]
      BY <3>2 DEF Restrict
    <3> HIDE DEF f
    <3>4. ChainedTo(f, i) \subseteq ChainedTo(file, n) /\ ChainedTo(file, n) \subseteq Chained(file)
      BY <2>4, <3>3 DEF ChainedTo, Chained
    <3>5. IsFiniteSet(ChainedTo(file, n))
      BY <2>1, <3>4, ChainedToAll, FS_Subset
    <3>6. Cardinality(ChainedTo(f, i)) <= Cardinality(ChainedTo(file, n))
      BY <3>4, <3>5, FS_Subset
    <3>7. Cardinality(ChainedTo(file, n)) \in Nat
      BY <3>5, FS_CardinalityType
    <3> QED
      BY <2>2, <3>1, <3>6, <3>7 DEF At
  <2>7. ASSUME NEW rs \in BoundedSeq(Recs, MaxLines), VerifyAuditFile(Rechained(rs), chk)
        PROVE  IsPrefix(SubSeq(logged, 1, c.count), rs)
    <3>1. rs \in Seq(Recs)
      BY BoundAssumption, SeqDef DEF BoundedSeq, SeqOf
    <3>2. PICK i \in Chained(Rechained(rs)) :
            At(Rechained(rs), i) = k /\ Rechained(rs)[i].hash = SubSeq(logged, 1, k)
      BY <2>5, <2>7
    <3>3. k \in 1 .. Len(rs) /\ SubSeq(rs, 1, k) = SubSeq(logged, 1, k)
      BY <3>1, <3>2, RechainedLines
    <3>4. PICK R \in Nat : R = Len(rs)
      BY <3>1, LenProperties
    <3>5. PICK h \in Seq(Recs) : h = SubSeq(rs, 1, k) /\ Len(h) = k
      <4>1. 1 \in Int /\ k \in Int /\ k - 1 + 1 = k /\ 1 <= k /\ \A x \in 1 .. k : x \in 1 .. R
        BY <3>3, <3>4
      <4>2. \A x \in 1 .. k : rs[x] \in Recs
        BY <3>1, <3>4, <4>1, ElementOfSeq
      <4>3. /\ SubSeq(rs, 1, k) \in Seq(Recs)
            /\ Len(SubSeq(rs, 1, k)) = IF 1 <= k THEN k - 1 + 1 ELSE 0
        BY <4>1, <4>2, SubSeqProperties
      <4> QED
        BY <4>1, <4>3
    <3>6. SubSeq(h, 1, k) = h
      BY <3>5, SubSeqFull
    <3>7. k <= R
      BY <3>3, <3>4
    <3> QED
      BY <2>2, <3>3, <3>4, <3>5, <3>6, <3>7 DEF IsPrefix
  <2>8. ~VerifyUnreadable(chk)
    BY <2>2 DEF VerifyUnreadable
  <2> QED
    BY <2>6, <2>7, <2>8
<1> QED
  BY <1>1, LinesAreNumbered, PTL
-----------------------------------------------------------------------------
(* The running hash depends on the chained lines only.                     *)
LEMMA HeadSkips ==
  ASSUME NEW f \in Seq(Lines), NEW g, NEW k, NEW n,
         ChainedTo(g, n) = ChainedTo(f, k), \A x \in ChainedTo(f, k) : g[x] = f[x]
  PROVE  HeadAt(g, n) = HeadAt(f, k)
<1>1. PICK F \in Nat : F = Len(f) /\ DOMAIN f = 1 .. F
  BY LenProperties
<1>2. ChainedTo(f, k) \subseteq 1 .. F
  BY <1>1 DEF ChainedTo, Chained
<1>3. CASE ChainedTo(f, k) = {}
  BY <1>3 DEF HeadAt
<1>4. CASE ChainedTo(f, k) # {}
  <2> DEFINE last == CHOOSE m \in ChainedTo(f, k) : \A j \in ChainedTo(f, k) : j <= m
  <2>1. \E m \in ChainedTo(f, k) : \A j \in ChainedTo(f, k) : j <= m
    BY <1>2, <1>4, LastExists
  <2>2. last \in ChainedTo(f, k)
    BY <2>1
  <2>3. HeadAt(f, k) = f[last].hash /\ HeadAt(g, n) = g[last].hash
    BY <1>4 DEF HeadAt
  <2> HIDE DEF last
  <2> QED
    BY <2>2, <2>3
<1> QED
  BY <1>3, <1>4

(* Of the chained lines after line i there is a first one.                 *)
LEMMA NextChained ==
  ASSUME NEW f \in Seq(Lines), NEW i \in Chained(f), NEW j \in Chained(f), i < j
  PROVE  \E k \in Chained(f) : i < k /\ k <= j /\ \A x \in Chained(f) : i < x => k <= x
<1> DEFINE T == {x \in Chained(f) : i < x}
<1>1. Chained(f) \subseteq Nat
  BY LenProperties DEF Chained
<1>2. T \subseteq Nat /\ j \in T
  BY <1>1
<1>3. PICK k \in T : \A u \in T : <<u, k>> \notin OpToRel(<, Nat)
  <2> HIDE DEF T
  <2> QED BY <1>2, NatLessThanWellFounded, WFMin
<1>4. \A u \in T : ~(u < k)
  BY <1>2, <1>3 DEF OpToRel
<1>5. k \in Chained(f) /\ i < k
  BY <1>3
<1>6. \A x \in Chained(f) : i < x => k <= x
  <2> TAKE x \in Chained(f)
  <2> HAVE i < x
  <2>1. x \in T /\ x \in Nat /\ k \in Nat
    BY <1>1, <1>5
  <2>2. ~(x < k)
    BY <1>4, <2>1
  <2> QED
    BY <2>1, <2>2
<1> QED
  BY <1>5, <1>6

(* The first k lines of a log, and those from line k on.                   *)
LEMMA FirstLines ==
  ASSUME NEW f \in Seq(Lines), NEW F \in Nat, F = Len(f), NEW k \in 0 .. F
  PROVE  /\ SubSeq(f, 1, k) \in Seq(Lines) /\ Len(SubSeq(f, 1, k)) = k
         /\ \A x \in 1 .. k : SubSeq(f, 1, k)[x] = f[x]
<1> DEFINE a == SubSeq(f, 1, k)
<1>1. DOMAIN f = 1 .. F /\ \A x \in 1 .. F : f[x] \in Lines
  BY LenProperties, ElementOfSeq
<1>2. a = Restrict(f, 1 .. k)
  BY SubSeqRestrict
<1>3. a = [x \in 1 .. k |-> f[x]]
  BY <1>2 DEF Restrict
<1> HIDE DEF a
<1>4. k \in Nat /\ \A x \in 1 .. k : x \in 1 .. F
  OBVIOUS
<1>5. a \in [1 .. k -> Lines]
  BY <1>1, <1>3, <1>4
<1>6. a \in Seq(Lines)
  BY <1>4, <1>5, SeqDef
<1>7. DOMAIN a = 1 .. k
  BY <1>3
<1>8. Len(a) = k
  BY <1>4, <1>6, <1>7, LenProperties
<1> QED
  BY <1>3, <1>6, <1>8 DEF a

LEMMA LastLines ==
  ASSUME NEW f \in Seq(Lines), NEW F \in Nat, F = Len(f), NEW k \in 1 .. F + 1
  PROVE  /\ SubSeq(f, k, F) \in Seq(Lines) /\ Len(SubSeq(f, k, F)) = F + 1 - k
         /\ \A x \in 1 .. F + 1 - k : SubSeq(f, k, F)[x] = f[x + k - 1]
<1>1. \A x \in 1 .. F : f[x] \in Lines
  BY LenProperties, ElementOfSeq
<1>2. \A x \in k .. F : f[x] \in Lines
  <2>1. \A x \in k .. F : x \in 1 .. F
    OBVIOUS
  <2> QED
    BY <1>1, <2>1
<1>3. /\ SubSeq(f, k, F) \in Seq(Lines)
      /\ Len(SubSeq(f, k, F)) = IF k <= F THEN F - k + 1 ELSE 0
      /\ \A x \in 1 .. F - k + 1 : SubSeq(f, k, F)[x] = f[k + x - 1]
  BY <1>2, SubSeqProperties
<1>4. /\ (IF k <= F THEN F - k + 1 ELSE 0) = F + 1 - k
      /\ F - k + 1 = F + 1 - k /\ \A x \in 1 .. F + 1 - k : k + x - 1 = x + k - 1
  OBVIOUS
<1> QED
  BY <1>3, <1>4

(* The lines of a log without line i.                                      *)
LEMMA RemovedLines ==
  ASSUME NEW f \in Seq(Lines), NEW F \in Nat, F = Len(f), NEW i \in 1 .. F
  PROVE  /\ RemoveAt(f, i) \in Seq(Lines) /\ DOMAIN RemoveAt(f, i) = 1 .. F - 1
         /\ \A x \in 1 .. i - 1 : RemoveAt(f, i)[x] = f[x]
         /\ \A x \in i .. F - 1 : RemoveAt(f, i)[x] = f[x + 1]
<1> DEFINE a == SubSeq(f, 1, i - 1)
           b == SubSeq(f, i + 1, Len(f))
<1>1. i - 1 \in 0 .. F /\ i + 1 \in 1 .. F + 1 /\ F + 1 - (i + 1) = F - i
      /\ \A x \in 1 .. F - i : x + (i + 1) - 1 = x + i
  OBVIOUS
<1>2. a \in Seq(Lines) /\ Len(a) = i - 1 /\ \A x \in 1 .. i - 1 : a[x] = f[x]
  BY <1>1, FirstLines
<1>3. b \in Seq(Lines) /\ Len(b) = F - i /\ \A x \in 1 .. F - i : b[x] = f[x + i]
  BY <1>1, LastLines
<1> HIDE DEF a, b
<1>4. /\ a \o b \in Seq(Lines) /\ Len(a \o b) = Len(a) + Len(b)
      /\ \A x \in 1 .. Len(a) + Len(b) : (a \o b)[x] = IF x <= Len(a) THEN a[x] ELSE b[x - Len(a)]
  BY <1>2, <1>3, ConcatProperties
<1>5. (i - 1) + (F - i) = F - 1
  OBVIOUS
<1>6. DOMAIN (a \o b) = 1 .. F - 1
  BY <1>2, <1>3, <1>4, <1>5, LenProperties
<1>7. \A x \in 1 .. F - 1 : (a \o b)[x] = IF x <= i - 1 THEN a[x] ELSE b[x - (i - 1)]
  BY <1>2, <1>3, <1>4, <1>5
<1>8. /\ \A x \in 1 .. i - 1 : x \in 1 .. F - 1 /\ x <= i - 1
      /\ \A x \in i .. F - 1 : /\ x \in 1 .. F - 1 /\ ~(x <= i - 1)
                               /\ x - (i - 1) \in 1 .. F - i /\ (x - (i - 1)) + i = x + 1
  OBVIOUS
<1>9. \A x \in i .. F - 1 : (a \o b)[x] = f[x + 1]
  BY <1>3, <1>7, <1>8
<1>10. \A x \in 1 .. i - 1 : (a \o b)[x] = f[x]
  BY <1>2, <1>7, <1>8
<1> QED
  BY <1>4, <1>6, <1>9, <1>10 DEF RemoveAt, a, b

(* In a log that verifies, numbers and lengths of what is committed to go  *)
(* together.                                                               *)
LEMMA Depths ==
  ASSUME NEW f \in Seq(Lines), LinksHold(f), NEW rs \in Seq(Recs), Numbered(f, rs)
  PROVE  /\ \A i \in Chained(f) : /\ f[i].prev \in Seq(Recs) /\ f[i].rec \in Recs
                                  /\ f[i].hash = Append(f[i].prev, f[i].rec)
                                  /\ f[i].prev = HeadAt(f, i - 1)
                                  /\ Len(f[i].prev) \in Nat /\ Len(f[i].prev) + 1 = At(f, i)
         /\ \A i, j \in Chained(f) : i < j => f[i].prev # f[j].prev
<1>1. PICK F \in Nat : F = Len(f) /\ DOMAIN f = 1 .. F
  BY LenProperties
<1>2. ASSUME NEW i \in Chained(f)
      PROVE  /\ f[i].prev \in Seq(Recs) /\ f[i].rec \in Recs
             /\ f[i].hash = Append(f[i].prev, f[i].rec)
             /\ f[i].prev = HeadAt(f, i - 1)
             /\ Len(f[i].prev) \in Nat /\ Len(f[i].prev) + 1 = At(f, i)
  <2>1. i \in DOMAIN f /\ f[i].kind = "chained" /\ f[i] \in Lines
    BY ElementOfSeq, <1>1 DEF Chained
  <2>2. PICK p \in Seq(Recs), r \in Recs : p = f[i].prev /\ r = f[i].rec
    BY <2>1 DEF Lines, ForeignLine, BadLine, Hashes
  <2>3. f[i].prev = HeadAt(f, i - 1) /\ f[i].hash = Append(p, r)
    BY <2>1, <2>2 DEF LinksHold, HashOf
  <2>4. Len(Append(p, r)) = Len(p) + 1 /\ Len(p) \in Nat
    BY AppendProperties, LenProperties
  <2>5. PICK k \in 1 .. Len(rs) : k = At(f, i) /\ f[i].hash = SubSeq(rs, 1, k)
    BY DEF Numbered
  <2>6. PICK R \in Nat : R = Len(rs) /\ DOMAIN rs = 1 .. R
    BY LenProperties
  <2>7. Len(SubSeq(rs, 1, k)) = k
    <3>1. 1 \in Int /\ k \in Int /\ k - 1 + 1 = k /\ 1 <= k /\ \A x \in 1 .. k : x \in 1 .. R
      BY <2>6
    <3>2. \A x \in 1 .. k : rs[x] \in Recs
      BY <2>6, <3>1, ElementOfSeq
    <3>3. Len(SubSeq(rs, 1, k)) = IF 1 <= k THEN k - 1 + 1 ELSE 0
      BY <3>1, <3>2, SubSeqProperties
    <3> QED
      BY <3>1, <3>3
  <2> QED
    BY <2>2, <2>3, <2>4, <2>5, <2>7
<1>3. ASSUME NEW i \in Chained(f), NEW j \in Chained(f), i < j, f[i].prev = f[j].prev
      PROVE  FALSE
  <2>1. At(f, i) = At(f, j)
    BY <1>2, <1>3
  <2>2. i \in 1 .. F /\ j \in 1 .. F
    BY <1>1 DEF Chained
  <2>3. ChainedTo(f, i) \subseteq ChainedTo(f, j) /\ j \notin ChainedTo(f, i) /\ j \in ChainedTo(f, j)
    BY <1>1, <1>3, <2>2 DEF ChainedTo, Chained
  <2>4. IsFiniteSet(ChainedTo(f, j))
    <3>1. ChainedTo(f, j) \subseteq Chained(f)
      BY DEF ChainedTo
    <3> QED
      BY <3>1, ChainedToAll, FS_Subset
  <2>5. ChainedTo(f, j) = ChainedTo(f, i)
    BY <2>1, <2>3, <2>4, FS_Subset DEF At
  <2> QED
    BY <2>3, <2>5
<1> QED
  BY <1>2, <1>3

(* SECURITY.md:26, audit.mjs:118-139: an edit of a chained record is found *)
(* wherever it is, and a removal, a stripping of the hashes and an         *)
(* exchange when a chained record follows, all without a checkpoint.       *)
THEOREM DamageIsFound == ASSUME WholeWrites PROVE Spec => []DamageCaught
<1>1. IInv /\ Numbered(file, logged) => DamageCaught
  <2> SUFFICES ASSUME IInv, Numbered(file, logged), NEW i \in Chained(file)
               PROVE  /\ \A r \in Recs \ {file[i].rec} : ~LinksHold(Edited(file, i, r))
                      /\ \A j \in Chained(file) : j > i =>
                           /\ ~LinksHold(RemoveAt(file, i))
                           /\ ~LinksHold(Stripped(file, i))
                           /\ ~LinksHold(Swapped(file, i, j))
    BY DEF DamageCaught, VerifyAuditFile
  <2>1. file \in Seq(Lines) /\ logged \in Seq(Recs) /\ LinksHold(file)
    BY DEF IInv, TypeOK
  <2>2. PICK F \in Nat : F = Len(file) /\ DOMAIN file = 1 .. F
    BY <2>1, LenProperties
  <2>3. Chained(file) \subseteq 1 .. F /\ i \in 1 .. F
    BY <2>2 DEF Chained
  <2>4. \A x \in Chained(file) :
          /\ file[x].prev \in Seq(Recs) /\ file[x].rec \in Recs
          /\ file[x].hash = Append(file[x].prev, file[x].rec)
          /\ file[x].prev = HeadAt(file, x - 1) /\ file[x].kind = "chained"
    BY <2>1, Depths DEF Chained
  <2>5. \A x, y \in Chained(file) : x < y => file[x].prev # file[y].prev
    BY <2>1, Depths
  <2>6. ASSUME NEW r \in Recs \ {file[i].rec} PROVE ~LinksHold(Edited(file, i, r))
    <3> DEFINE g == Edited(file, i, r)
    <3>1. /\ i \in DOMAIN g /\ g[i].kind = "chained"
          /\ g[i].prev = file[i].prev /\ g[i].hash = file[i].hash /\ g[i].rec = r
      <4>1. file[i] \in Lines /\ file[i].kind = "chained"
        BY <2>1, <2>2, <2>3, <2>4, ElementOfSeq
      <4>2. PICK l \in [kind : {"chained"}, rec : Recs, prev : Hashes, hash : Hashes] : l = file[i]
        BY <4>1 DEF Lines, ForeignLine, BadLine
      <4>3. g[i] = [l EXCEPT !.rec = r] /\ i \in DOMAIN g
        BY <2>2, <2>3, <4>2 DEF Edited
      <4> QED
        BY <4>2, <4>3
    <3> HIDE DEF g
    <3>2. Append(file[i].prev, r) # Append(file[i].prev, file[i].rec)
      BY <2>4, AppendInjective
    <3>3. ~LinksHold(g)
      BY <2>4, <3>1, <3>2 DEF LinksHold, HashOf
    <3> QED
      BY <3>3 DEF g
  (* The line that is chained onto line i does not fit onto what is before it. *)
  <2>7. ASSUME NEW j \in Chained(file), i < j,
               \A x \in Chained(file) : i < x => j <= x,
               NEW g, NEW n \in 1 .. F, n \in DOMAIN g, g[n] = file[j],
               ChainedTo(g, n - 1) = ChainedTo(file, i - 1),
               \A x \in ChainedTo(file, i - 1) : g[x] = file[x]
        PROVE  ~LinksHold(g)
    <3>1. HeadAt(g, n - 1) = HeadAt(file, i - 1)
      BY <2>1, <2>7, HeadSkips
    <3>2. file[j].prev # file[i].prev
      BY <2>5, <2>7
    <3>3. g[n].kind = "chained" /\ g[n].prev # HeadAt(g, n - 1)
      BY <2>4, <2>7, <3>1, <3>2
    <3> QED
      BY <2>7, <3>3 DEF LinksHold
  <2>8. ASSUME NEW k \in Chained(file), k > i
        PROVE  ~LinksHold(RemoveAt(file, i)) /\ ~LinksHold(Stripped(file, i))
    <3>1. PICK j \in Chained(file) : i < j /\ \A x \in Chained(file) : i < x => j <= x
      BY <2>1, <2>3, <2>8, NextChained
    <3>2. j \in 1 .. F /\ j - 1 \in 1 .. F /\ i <= j - 1 /\ (j - 1) + 1 = j /\ j - 1 \in i .. F - 1
          /\ j - 1 \in 1 .. F - 1
      BY <2>3, <3>1
    <3>3. \A x \in ChainedTo(file, i - 1) : x \in 1 .. i - 1 /\ x \in 1 .. F /\ x # i
      BY <2>3 DEF ChainedTo
    <3>4. ASSUME NEW g, g = RemoveAt(file, i) PROVE ~LinksHold(g)
      <4>1. /\ DOMAIN g = 1 .. F - 1
            /\ \A x \in 1 .. i - 1 : g[x] = file[x]
            /\ \A x \in i .. F - 1 : g[x] = file[x + 1]
        BY <2>1, <2>2, <2>3, <3>4, RemovedLines
      <4>2. ASSUME NEW x PROVE x \in ChainedTo(g, (j - 1) - 1) <=> x \in ChainedTo(file, i - 1)
        <5>1. x \in ChainedTo(file, i - 1) => x \in ChainedTo(g, (j - 1) - 1)
          <6> HAVE x \in ChainedTo(file, i - 1)
          <6>1. x \in 1 .. i - 1 /\ x \in Chained(file) /\ x \in 1 .. F - 1 /\ x <= (j - 1) - 1
            BY <2>3, <3>2, <3>3 DEF ChainedTo
          <6> QED
            BY <2>4, <4>1, <6>1 DEF ChainedTo, Chained
        <5>2. x \in ChainedTo(g, (j - 1) - 1) => x \in ChainedTo(file, i - 1)
          <6> HAVE x \in ChainedTo(g, (j - 1) - 1)
          <6>1. x \in 1 .. F - 1 /\ g[x].kind = "chained" /\ x <= (j - 1) - 1
            BY <4>1 DEF ChainedTo, Chained
          <6>2. CASE x \in 1 .. i - 1
            <7>1. x <= i - 1 /\ x \in 1 .. F
              BY <2>3, <6>2
            <7> QED
              BY <2>2, <4>1, <6>1, <6>2, <7>1 DEF ChainedTo, Chained
          <6>3. CASE x \in i .. F - 1
            <7>1. x + 1 \in 1 .. F /\ i < x + 1 /\ ~(j <= x + 1)
              BY <2>3, <3>2, <6>1, <6>3
            <7>2. x + 1 \in Chained(file)
              BY <2>2, <4>1, <6>1, <6>3, <7>1 DEF Chained
            <7> QED
              BY <3>1, <7>1, <7>2
          <6> QED
            BY <2>3, <6>1, <6>2, <6>3
        <5> QED
          BY <5>1, <5>2
      <4>3. ChainedTo(g, (j - 1) - 1) = ChainedTo(file, i - 1)
        BY <4>2 DEF ChainedTo
      <4>4. \A x \in ChainedTo(file, i - 1) : g[x] = file[x]
        BY <3>3, <4>1
      <4>5. j - 1 \in DOMAIN g /\ g[j - 1] = file[j]
        BY <3>2, <4>1
      <4> QED
        BY <2>7, <3>1, <3>2, <4>3, <4>4, <4>5
    <3>5. ASSUME NEW g, g = Stripped(file, i) PROVE ~LinksHold(g)
      <4>1. /\ DOMAIN g = 1 .. F /\ g[i].kind = "foreign"
            /\ \A x \in 1 .. F : x # i => g[x] = file[x]
        BY <2>2, <2>3, <3>5 DEF Stripped, ForeignLine
      <4>2. ASSUME NEW x PROVE x \in ChainedTo(g, j - 1) <=> x \in ChainedTo(file, i - 1)
        <5>1. x \in ChainedTo(file, i - 1) => x \in ChainedTo(g, j - 1)
          <6> HAVE x \in ChainedTo(file, i - 1)
          <6>1. x \in 1 .. F /\ x # i /\ x \in Chained(file) /\ x <= j - 1
            BY <2>3, <3>2, <3>3 DEF ChainedTo
          <6> QED
            BY <2>4, <4>1, <6>1 DEF ChainedTo, Chained
        <5>2. x \in ChainedTo(g, j - 1) => x \in ChainedTo(file, i - 1)
          <6> HAVE x \in ChainedTo(g, j - 1)
          <6>1. x \in 1 .. F /\ x # i /\ g[x].kind = "chained" /\ x <= j - 1
            BY <4>1 DEF ChainedTo, Chained
          <6>2. x \in Chained(file)
            BY <2>2, <4>1, <6>1 DEF Chained
          <6>3. ~(i < x)
            BY <2>3, <3>1, <3>2, <6>1, <6>2
          <6>4. x <= i - 1
            BY <2>3, <6>1, <6>3
          <6> QED
            BY <6>2, <6>4 DEF ChainedTo
        <5> QED
          BY <5>1, <5>2
      <4>3. ChainedTo(g, j - 1) = ChainedTo(file, i - 1)
        BY <4>2 DEF ChainedTo
      <4>4. \A x \in ChainedTo(file, i - 1) : g[x] = file[x]
        BY <3>3, <4>1
      <4>5. j \in DOMAIN g /\ g[j] = file[j]
        BY <2>3, <3>1, <3>2, <4>1
      <4> QED
        BY <2>7, <3>1, <3>2, <4>3, <4>4, <4>5
    <3> QED
      BY <3>4, <3>5
  <2>9. ASSUME NEW j \in Chained(file), j > i PROVE ~LinksHold(Swapped(file, i, j))
    <3> DEFINE g == Swapped(file, i, j)
    <3>1. /\ DOMAIN g = 1 .. F /\ g[i] = file[j]
          /\ \A x \in 1 .. F : x # i /\ x # j => g[x] = file[x]
      BY <2>2, <2>3, <2>9 DEF Swapped
    <3> HIDE DEF g
    <3>2. \A x \in 1 .. F : x <= i - 1 => x # i /\ x # j
      BY <2>3, <2>9
    <3>3. \A x : x \in ChainedTo(g, i - 1) <=> x \in ChainedTo(file, i - 1)
      BY <2>2, <3>1, <3>2 DEF ChainedTo, Chained
    <3>4. ChainedTo(g, i - 1) = ChainedTo(file, i - 1)
      BY <3>3 DEF ChainedTo
    <3>5. \A x \in ChainedTo(file, i - 1) : g[x] = file[x]
      BY <2>3, <3>1, <3>2 DEF ChainedTo
    <3>6. HeadAt(g, i - 1) = HeadAt(file, i - 1)
      BY <2>1, <3>4, <3>5, HeadSkips
    <3>7. file[i].prev # file[j].prev
      BY <2>5, <2>9
    <3>8. g[i].kind = "chained" /\ g[i].prev # HeadAt(g, i - 1) /\ i \in DOMAIN g
      BY <2>3, <2>4, <3>1, <3>6, <3>7
    <3> QED
      BY <3>8 DEF LinksHold, g
  <2> QED
    BY <2>6, <2>8, <2>9
<1> QED
  BY <1>1, LinesAreNumbered, PTL
-----------------------------------------------------------------------------
(* The lines of a log with one more line at i.                             *)
Inserted(g, f, F, i, l) ==
  /\ g \in Seq(Lines) /\ Len(g) = F + 1
  /\ \A x \in 1 .. i - 1 : g[x] = f[x]
  /\ g[i] = l
  /\ \A x \in i .. F : g[x + 1] = f[x]

LEMMA InsertedLines ==
  ASSUME NEW f \in Seq(Lines), NEW F \in Nat, F = Len(f), NEW i \in 1 .. F + 1,
         NEW l \in Lines
  PROVE  Inserted(InsertAt(f, i, l), f, F, i, l)
<1> DEFINE a == SubSeq(f, 1, i - 1)
           b == SubSeq(f, i, Len(f))
           e == << l >>
<1>1. i - 1 \in 0 .. F
  OBVIOUS
<1>2. a \in Seq(Lines) /\ Len(a) = i - 1 /\ \A x \in 1 .. i - 1 : a[x] = f[x]
  BY <1>1, FirstLines
<1>3. b \in Seq(Lines) /\ Len(b) = F + 1 - i /\ \A x \in 1 .. F + 1 - i : b[x] = f[x + i - 1]
  BY LastLines
<1>4. e \in Seq(Lines) /\ Len(e) = 1 /\ e[1] = l
  OBVIOUS
<1> HIDE DEF a, b, e
<1>5. /\ a \o e \in Seq(Lines) /\ Len(a \o e) = Len(a) + Len(e)
      /\ \A x \in 1 .. Len(a) + Len(e) : (a \o e)[x] = IF x <= Len(a) THEN a[x] ELSE e[x - Len(a)]
  BY <1>2, <1>4, ConcatProperties
<1> DEFINE h == a \o e
<1>6. h \in Seq(Lines) /\ Len(h) = i /\ h[i] = l /\ \A x \in 1 .. i - 1 : h[x] = f[x]
  <2>1. /\ (i - 1) + 1 = i /\ i \in 1 .. i /\ ~(i <= i - 1) /\ i - (i - 1) = 1
        /\ \A x \in 1 .. i - 1 : x \in 1 .. i /\ x <= i - 1
    OBVIOUS
  <2> QED
    BY <1>2, <1>4, <1>5, <2>1
<1> HIDE DEF h
<1>7. /\ h \o b \in Seq(Lines) /\ Len(h \o b) = Len(h) + Len(b)
      /\ \A x \in 1 .. Len(h) + Len(b) : (h \o b)[x] = IF x <= Len(h) THEN h[x] ELSE b[x - Len(h)]
  BY <1>3, <1>6, ConcatProperties
<1>8. /\ i + (F + 1 - i) = F + 1 /\ i \in 1 .. F + 1 /\ i <= i
      /\ \A x \in 1 .. i - 1 : x \in 1 .. F + 1 /\ x <= i
      /\ \A x \in i .. F : /\ x + 1 \in 1 .. F + 1 /\ ~(x + 1 <= i)
                           /\ x + 1 - i \in 1 .. F + 1 - i /\ (x + 1 - i) + i - 1 = x
  OBVIOUS
<1>9. Len(h \o b) = F + 1
  BY <1>3, <1>6, <1>7, <1>8
<1>10. \A x \in 1 .. F + 1 : (h \o b)[x] = IF x <= i THEN h[x] ELSE b[x - i]
  BY <1>3, <1>6, <1>7, <1>8
<1>11. ASSUME NEW x \in i .. F PROVE (h \o b)[x + 1] = f[x]
  <2>1. (h \o b)[x + 1] = b[x + 1 - i]
    <3>1. x + 1 \in 1 .. F + 1 /\ ~(x + 1 <= i)
      OBVIOUS
    <3> DEFINE u == h \o b
               y == x + 1
    <3>2. \A k \in 1 .. F + 1 : ~(k <= i) => u[k] = b[k - i]
      BY <1>10
    <3>3. y \in 1 .. F + 1 /\ ~(y <= i)
      BY <3>1
    <3> HIDE DEF u, y
    <3>4. u[y] = b[y - i]
      BY <3>2, <3>3
    <3> QED
      BY <3>4 DEF u, y
  <2>2. b[x + 1 - i] = f[(x + 1 - i) + i - 1]
    BY <1>3, <1>8
  <2> QED
    BY <1>8, <2>1, <2>2
<1>12. (h \o b)[i] = l /\ \A x \in 1 .. i - 1 : (h \o b)[x] = f[x]
  BY <1>6, <1>8, <1>10
<1> QED
  BY <1>7, <1>9, <1>11, <1>12 DEF InsertAt, Inserted, a, b, e, h

(* A foreign line shifts what is behind it and changes no head and no      *)
(* number of a chained line.                                               *)
LEMMA ForeignInserted ==
  ASSUME NEW f \in Seq(Lines), NEW F \in Nat, F = Len(f), NEW i \in 1 .. F + 1, NEW cs
  PROVE  VerifyAuditFile(InsertAt(f, i, ForeignLine), cs) <=> VerifyAuditFile(f, cs)
<1> DEFINE g == InsertAt(f, i, ForeignLine)
           To(x) == IF x < i THEN x ELSE x + 1
<1>1. /\ g \in Seq(Lines) /\ Len(g) = F + 1
      /\ g[i] = ForeignLine /\ ForeignLine.kind = "foreign"
      /\ \A x \in 1 .. F : g[To(x)] = f[x]
  <2>1. /\ g \in Seq(Lines) /\ Len(g) = F + 1
        /\ \A x \in 1 .. i - 1 : g[x] = f[x]
        /\ g[i] = ForeignLine
        /\ \A x \in i .. F : g[x + 1] = f[x]
    <3>1. ForeignLine \in Lines
      BY LineTypes
    <3>2. Inserted(g, f, F, i, ForeignLine)
      BY <3>1, InsertedLines
    <3> QED
      BY <3>2 DEF Inserted
  <2> HIDE DEF g
  <2>2. ASSUME NEW x \in 1 .. F PROVE g[To(x)] = f[x]
    <3>1. CASE x < i
      <4>1. x \in 1 .. i - 1
        BY <3>1
      <4> QED
        BY <2>1, <3>1, <4>1
    <3>2. CASE ~(x < i)
      <4>1. x \in i .. F
        BY <3>2
      <4> QED
        BY <2>1, <3>2, <4>1
    <3> QED
      BY <3>1, <3>2
  <2> QED
    BY <2>1, <2>2, LineTypes
<1> HIDE DEF g
<1>2. /\ DOMAIN f = 1 .. F /\ DOMAIN g = 1 .. F + 1
      /\ Chained(f) \subseteq 1 .. F /\ Chained(g) \subseteq 1 .. F + 1
  BY <1>1, LenProperties DEF Chained
<1>3. /\ \A x \in 1 .. F : To(x) \in 1 .. F + 1 /\ To(x) # i
      /\ \A x, z \in 1 .. F : (x <= z <=> To(x) <= To(z)) /\ (To(x) = To(z) => x = z)
      /\ \A y \in 1 .. F + 1 : y # i => \E x \in 1 .. F : y = To(x)
  <2>1. ASSUME NEW y \in 1 .. F + 1, y # i PROVE \E x \in 1 .. F : y = To(x)
    <3>1. CASE y < i
      BY <3>1
    <3>2. CASE y > i
      <4>1. y - 1 \in 1 .. F /\ y = To(y - 1)
        BY <3>2
      <4> QED
        BY <4>1
    <3> QED
      BY <2>1, <3>1, <3>2
  <2> QED
    BY <2>1
<1> HIDE DEF To
<1>4. \A y : y \in Chained(g) <=> \E x \in Chained(f) : y = To(x)
  <2>1. ASSUME NEW y \in Chained(g) PROVE \E x \in Chained(f) : y = To(x)
    <3>1. y \in 1 .. F + 1 /\ y # i
      BY <1>1, <1>2 DEF Chained
    <3>2. PICK x \in 1 .. F : y = To(x)
      BY <1>3, <3>1
    <3>3. x \in Chained(f)
      BY <1>1, <1>2, <3>2 DEF Chained
    <3> QED
      BY <3>2, <3>3
  <2>2. ASSUME NEW x \in Chained(f) PROVE To(x) \in Chained(g)
    <3>1. x \in 1 .. F /\ f[x].kind = "chained"
      BY <1>2 DEF Chained
    <3> QED
      BY <1>1, <1>2, <1>3, <3>1 DEF Chained
  <2> QED
    BY <2>1, <2>2
<1>5. ASSUME NEW k \in 0 .. F, NEW n \in 0 .. F + 1, \A x \in 1 .. F : x <= k <=> To(x) <= n
      PROVE  /\ HeadAt(g, n) = HeadAt(f, k)
             /\ Cardinality(ChainedTo(g, n)) = Cardinality(ChainedTo(f, k))
  <2>1. \A y : y \in ChainedTo(g, n) <=> \E x \in ChainedTo(f, k) : y = To(x)
    BY <1>2, <1>4, <1>5 DEF ChainedTo
  <2>2. ChainedTo(f, k) \subseteq 1 .. F
    BY <1>2 DEF ChainedTo
  <2>3. ASSUME ChainedTo(f, k) = {} PROVE HeadAt(g, n) = HeadAt(f, k)
    BY <2>1, <2>3 DEF HeadAt
  <2>4. ASSUME ChainedTo(f, k) # {} PROVE HeadAt(g, n) = HeadAt(f, k)
    <3>1. PICK m \in ChainedTo(f, k) : \A j \in ChainedTo(f, k) : j <= m
      BY <2>2, <2>4, LastExists
    <3>2. To(m) \in ChainedTo(g, n) /\ \A j \in ChainedTo(g, n) : j <= To(m)
      BY <1>3, <2>1, <2>2, <3>1
    <3>3. HeadAt(f, k) = f[m].hash /\ HeadAt(g, n) = g[To(m)].hash
      BY <1>1, <3>1, <3>2, HeadAtMax
    <3> QED
      BY <1>1, <2>2, <3>1, <3>3
  <2>5. HeadAt(g, n) = HeadAt(f, k)
    BY <2>3, <2>4
  <2>6. Cardinality(ChainedTo(g, n)) = Cardinality(ChainedTo(f, k))
    <3> DEFINE S == ChainedTo(f, k)
               T == ChainedTo(g, n)
               b == [x \in S |-> To(x)]
    <3>1. IsFiniteSet(S)
      BY ChainedToAll, FS_Subset DEF ChainedTo
    <3>2. b \in Bijection(S, T)
      <4>1. \A x \in S : b[x] \in T
        BY <2>1
      <4>2. \A x, z \in S : b[x] = b[z] => x = z
        BY <1>3, <2>2
      <4>3. \A y \in T : \E x \in S : b[x] = y
        BY <2>1
      <4>4. b \in [S -> T]
        BY <4>1
      <4> QED
        BY <4>2, <4>3, <4>4 DEF Bijection, Injection, Surjection, IsInjective
    <3> QED
      BY <3>1, <3>2, FS_Bijection DEF ExistsBijection
  <2> QED
    BY <2>5, <2>6
<1>6. ASSUME NEW x \in 1 .. F
      PROVE  /\ HeadAt(g, To(x) - 1) = HeadAt(f, x - 1)
             /\ Cardinality(ChainedTo(g, To(x))) = Cardinality(ChainedTo(f, x))
  <2>1. x - 1 \in 0 .. F /\ To(x) - 1 \in 0 .. F + 1 /\ x \in 0 .. F /\ To(x) \in 0 .. F + 1
    BY <1>3
  <2>2. \A z \in 1 .. F : z <= x - 1 <=> To(z) <= To(x) - 1
    BY DEF To
  <2> QED
    BY <1>3, <1>5, <2>1, <2>2
<1>7. HeadAt(g, F + 1) = HeadAt(f, F)
  <2>1. \A x \in 1 .. F : x <= F <=> To(x) <= F + 1
    BY <1>3
  <2> QED
    BY <1>5, <2>1
<1>8. LinksHold(g) <=> LinksHold(f)
  <2>1. ASSUME LinksHold(g) PROVE LinksHold(f)
    BY <1>1, <1>2, <1>3, <1>6, <2>1 DEF LinksHold
  <2>2. ASSUME LinksHold(f) PROVE LinksHold(g)
    <3> SUFFICES ASSUME NEW y \in 1 .. F + 1
                 PROVE  /\ g[y].kind # "bad"
                        /\ g[y].kind = "chained" =>
                             /\ g[y].prev = HeadAt(g, y - 1)
                             /\ g[y].hash = HashOf(g[y].prev, g[y].rec)
      BY <1>2 DEF LinksHold
    <3>1. CASE y = i
      BY <1>1, <3>1
    <3>2. CASE y # i
      <4>1. PICK x \in 1 .. F : y = To(x)
        BY <1>3, <3>2
      <4>2. g[y] = f[x] /\ HeadAt(g, y - 1) = HeadAt(f, x - 1)
        BY <1>1, <1>6, <4>1
      <4> QED
        BY <1>2, <2>2, <4>2 DEF LinksHold
    <3> QED
      BY <3>1, <3>2
  <2> QED
    BY <2>1, <2>2
<1>9. ASSUME NEW c
      PROVE  (\E y \in Chained(g) : /\ Cardinality(ChainedTo(g, y)) = c.count
                                     /\ g[y].hash = c.head)
             <=> (\E x \in Chained(f) : /\ Cardinality(ChainedTo(f, x)) = c.count
                                         /\ f[x].hash = c.head)
  <2>1. ASSUME NEW y \in Chained(g), Cardinality(ChainedTo(g, y)) = c.count, g[y].hash = c.head
        PROVE  \E x \in Chained(f) : /\ Cardinality(ChainedTo(f, x)) = c.count
                                      /\ f[x].hash = c.head
    <3>1. PICK x \in Chained(f) : y = To(x)
      BY <1>4
    <3>2. x \in 1 .. F
      BY <1>2
    <3> QED
      BY <1>1, <1>6, <2>1, <3>1, <3>2
  <2>2. ASSUME NEW x \in Chained(f), Cardinality(ChainedTo(f, x)) = c.count, f[x].hash = c.head
        PROVE  \E y \in Chained(g) : /\ Cardinality(ChainedTo(g, y)) = c.count
                                      /\ g[y].hash = c.head
    <3>1. To(x) \in Chained(g) /\ x \in 1 .. F
      BY <1>2, <1>4
    <3> QED
      BY <1>1, <1>6, <2>2, <3>1
  <2> QED
    BY <2>1, <2>2
<1>10. CheckpointHolds(g, cs) <=> CheckpointHolds(f, cs)
  BY <1>1, <1>7, <1>9 DEF CheckpointHolds
<1> QED
  BY <1>8, <1>10 DEF VerifyAuditFile, g

(* Under every fault: a foreign line anywhere in the log neither hides     *)
(* damage nor looks like it.                                               *)
THEOREM ForeignLinesPass == Spec => []ForeignLinesHarmless
<1>1. TypeOK => ForeignLinesHarmless
  <2> SUFFICES ASSUME TypeOK, NEW i \in 1 .. Len(file) + 1
               PROVE  VerifyAuditFile(InsertAt(file, i, ForeignLine), chk)
                        = VerifyAuditFile(file, chk)
    BY DEF ForeignLinesHarmless
  <2>1. file \in Seq(Lines) /\ Len(file) \in Nat
    BY LenProperties DEF TypeOK
  <2>2. VerifyAuditFile(InsertAt(file, i, ForeignLine), chk) <=> VerifyAuditFile(file, chk)
    BY <2>1, ForeignInserted
  <2> QED
    BY <2>2 DEF VerifyAuditFile, LinksHold, CheckpointHolds
<1> QED
  BY <1>1, TypeCorrect, PTL
-----------------------------------------------------------------------------
(* One more line: what it adds to the chained ones and to the links.       *)
LEMMA NextLine ==
  ASSUME NEW f \in Seq(Lines), NEW m \in Nat, m + 1 \in 1 .. Len(f)
  PROVE  /\ f[m + 1] \in Lines
         /\ ChainedTo(f, m) \subseteq ChainedTo(f, m + 1)
         /\ IsFiniteSet(ChainedTo(f, m)) /\ Cardinality(ChainedTo(f, m)) \in Nat
         /\ f[m + 1].kind = "chained" =>
              /\ ChainedTo(f, m + 1) = ChainedTo(f, m) \union {m + 1} /\ m + 1 \notin ChainedTo(f, m)
              /\ Cardinality(ChainedTo(f, m + 1)) = Cardinality(ChainedTo(f, m)) + 1
              /\ HeadAt(f, m + 1) = f[m + 1].hash
         /\ f[m + 1].kind # "chained" =>
              ChainedTo(f, m + 1) = ChainedTo(f, m) /\ HeadAt(f, m + 1) = HeadAt(f, m)
<1>1. Len(f) \in Nat /\ DOMAIN f = 1 .. Len(f) /\ f[m + 1] \in Lines
  BY LenProperties, ElementOfSeq
<1>2. ChainedTo(f, m) \subseteq Chained(f) /\ Chained(f) \subseteq 1 .. Len(f) /\ IsFiniteSet(Chained(f))
  BY ChainedToAll DEF ChainedTo
<1>3. IsFiniteSet(ChainedTo(f, m)) /\ Cardinality(ChainedTo(f, m)) \in Nat
  BY <1>2, FS_Subset, FS_CardinalityType
<1>4. \A i \in Chained(f) : i <= m + 1 <=> i <= m \/ i = m + 1
  BY <1>1, <1>2
<1>5. ChainedTo(f, m) \subseteq ChainedTo(f, m + 1)
  BY <1>4 DEF ChainedTo
<1>6. ASSUME f[m + 1].kind = "chained"
      PROVE  /\ ChainedTo(f, m + 1) = ChainedTo(f, m) \union {m + 1} /\ m + 1 \notin ChainedTo(f, m)
             /\ Cardinality(ChainedTo(f, m + 1)) = Cardinality(ChainedTo(f, m)) + 1
             /\ HeadAt(f, m + 1) = f[m + 1].hash
  <2>1. m + 1 \in Chained(f)
    BY <1>1, <1>6 DEF Chained
  <2>2. ChainedTo(f, m + 1) = ChainedTo(f, m) \union {m + 1} /\ m + 1 \notin ChainedTo(f, m)
    BY <1>4, <2>1 DEF ChainedTo
  <2>3. Cardinality(ChainedTo(f, m + 1)) = Cardinality(ChainedTo(f, m)) + 1
    BY <1>3, <2>2, FS_AddElement
  <2>4. m + 1 \in ChainedTo(f, m + 1) /\ \A j \in ChainedTo(f, m + 1) : j <= m + 1
    BY <2>2 DEF ChainedTo
  <2>5. HeadAt(f, m + 1) = f[m + 1].hash
    BY <2>4, HeadAtMax
  <2> QED
    BY <2>2, <2>3, <2>5
<1>7. ASSUME f[m + 1].kind # "chained"
      PROVE  ChainedTo(f, m + 1) = ChainedTo(f, m) /\ HeadAt(f, m + 1) = HeadAt(f, m)
  <2>1. m + 1 \notin Chained(f)
    BY <1>7 DEF Chained
  <2>2. ChainedTo(f, m + 1) = ChainedTo(f, m)
    BY <1>4, <2>1 DEF ChainedTo
  <2> QED
    BY <2>2, HeadSkips
<1> QED
  BY <1>1, <1>3, <1>5, <1>6, <1>7

(* Before the first line.                                                  *)
LEMMA NoLineYet ==
  ASSUME NEW f \in Seq(Lines)
  PROVE  ChainedTo(f, 0) = {} /\ HeadAt(f, 0) = GENESIS /\ Cardinality(ChainedTo(f, 0)) = 0
<1>1. ChainedTo(f, 0) = {}
  BY ChainedToAll DEF ChainedTo
<1>2. HeadAt(f, 0) = GENESIS
  BY <1>1 DEF HeadAt
<1> QED
  BY <1>1, <1>2, FS_EmptySet

(* chainStateOf, which counts and hashes in one pass, gives the head of    *)
(* the chain and its length.                                               *)
LEMMA StateLoopIsRight ==
  ASSUME NEW f \in Seq(Lines)
  PROVE  StateLoop(f) = ChainStateOf(f)
<1> DEFINE n == Len(f)
           S == [head : Hashes, count : Nat]
           s0 == [head |-> GENESIS, count |-> 0]
           turn == [i \in 1 .. n |-> [s \in S |-> StateTurn(s, f[i])]]
           Eq(g) == g = [i \in 0 .. n |-> IF i = 0 THEN s0 ELSE StateTurn(g[i - 1], f[i])]
           after == CHOOSE g : Eq(g)
           P == {m \in 0 .. n : after[m] = [head |-> HeadAt(f, m), count |-> Cardinality(ChainedTo(f, m))]}
<1>1. n \in Nat /\ \A i \in 1 .. n : f[i] \in Lines
  BY LenProperties, ElementOfSeq
<1>2. s0 \in S
  BY EmptySeq DEF GENESIS, Hashes
<1>3. \A i \in 1 .. n, s \in S : StateTurn(s, f[i]) \in S
  BY <1>1 DEF StateTurn, Lines, ForeignLine, BadLine
<1>4. /\ turn \in [1 .. n -> [S -> S]]
      /\ \A i \in 1 .. n, s \in S : turn[i][s] = StateTurn(s, f[i])
  BY <1>3
<1>5. \A i \in 0 .. n : i = 0 \/ (i \in 1 .. n /\ i - 1 \in 0 .. n)
  BY <1>1
<1> HIDE DEF n, S, s0, turn
<1>6. Eq(after)
  <2>1. \E g : Trace(g, n, S, s0, turn)
    BY <1>1, <1>2, <1>4, LoopTrace
  <2>2. PICK g \in [0 .. n -> S] : g[0] = s0 /\ \A i \in 1 .. n : g[i] = turn[i][g[i - 1]]
    BY <2>1 DEF Trace
  <2>3. \A i \in 1 .. n : g[i] = StateTurn(g[i - 1], f[i])
    BY <1>1, <1>4, <1>5, <2>2
  <2>4. Eq(g)
    BY <1>5, <2>2, <2>3
  <2> QED
    BY <2>4
<1> HIDE DEF after
<1>7. after[0] = s0 /\ \A i \in 1 .. n : after[i] = StateTurn(after[i - 1], f[i])
  BY <1>1, <1>5, <1>6
<1>8. 0 \in P
  BY <1>1, <1>7, NoLineYet DEF s0
<1>9. \A m \in 0 .. n - 1 : m \in P => m + 1 \in P
  <2> SUFFICES ASSUME NEW m \in 0 .. n - 1,
                      after[m] = [head |-> HeadAt(f, m), count |-> Cardinality(ChainedTo(f, m))]
               PROVE  /\ m + 1 \in 0 .. n
                      /\ after[m + 1] = [head |-> HeadAt(f, m + 1),
                                         count |-> Cardinality(ChainedTo(f, m + 1))]
    OBVIOUS
  <2>1. m \in Nat /\ m + 1 \in 1 .. n /\ (m + 1) - 1 = m /\ m + 1 \in 0 .. n
    BY <1>1
  <2>2. after[m + 1] = StateTurn(after[m], f[m + 1])
    BY <1>7, <2>1
  <2> QED
    BY <2>1, <2>2, NextLine DEF StateTurn, n
<1> HIDE DEF P
<1>10. n \in P
  <2>1. \A m \in 0 .. n : m \in P
    BY <1>1, <1>8, <1>9, Induction
  <2> QED
    BY <1>1, <2>1
<1>11. after[n] = [head |-> HeadAt(f, n), count |-> Cardinality(ChainedTo(f, n))]
  BY <1>10 DEF P
<1>12. StateLoop(f) = after[n]
  BY DEF StateLoop, after, n, s0
<1> QED
  BY <1>11, <1>12, ChainedToAll DEF ChainStateOf, n

(* A chained line is a later entry than any before it.                     *)
LEMMA LaterEntry ==
  ASSUME NEW f \in Seq(Lines), NEW i \in Chained(f), NEW k \in Nat, k < i
  PROVE  /\ Cardinality(ChainedTo(f, k)) \in Nat /\ Cardinality(ChainedTo(f, i)) \in Nat
         /\ Cardinality(ChainedTo(f, k)) < Cardinality(ChainedTo(f, i))
<1>1. IsFiniteSet(Chained(f)) /\ i \in Nat /\ Chained(f) \subseteq 1 .. Len(f) /\ Len(f) \in Nat
  BY ChainedToAll, LenProperties
<1>2. IsFiniteSet(ChainedTo(f, k)) /\ IsFiniteSet(ChainedTo(f, i))
  <2>1. ChainedTo(f, k) \subseteq Chained(f) /\ ChainedTo(f, i) \subseteq Chained(f)
    BY DEF ChainedTo
  <2> QED
    BY <1>1, <2>1, FS_Subset
<1>3. i \notin ChainedTo(f, k) /\ ChainedTo(f, k) \union {i} \subseteq ChainedTo(f, i)
  BY <1>1 DEF ChainedTo
<1>4. /\ IsFiniteSet(ChainedTo(f, k) \union {i})
      /\ Cardinality(ChainedTo(f, k) \union {i}) = Cardinality(ChainedTo(f, k)) + 1
  BY <1>2, <1>3, FS_AddElement
<1>5. Cardinality(ChainedTo(f, k) \union {i}) <= Cardinality(ChainedTo(f, i))
  BY <1>2, <1>3, FS_Subset
<1>6. Cardinality(ChainedTo(f, k)) \in Nat /\ Cardinality(ChainedTo(f, i)) \in Nat
  BY <1>2, FS_CardinalityType
<1> QED
  BY <1>4, <1>5, <1>6

(* What the scan of verifyAuditFile knows after m lines: that their links  *)
(* hold, where the chain stands and what the checkpoint's record hashes    *)
(* to; or how many entries were good when it stopped.                      *)
Entries(f, m) == Cardinality(ChainedTo(f, m))
ScanHolds(f, want, m, s) ==
  /\ LinksTo(f, m) /\ s.prev = HeadAt(f, m) /\ s.at = Entries(f, m)
  /\ s.headAt # {} => \E i \in ChainedTo(f, m) : Entries(f, i) = want /\ s.headAt = {f[i].hash}
  /\ \A i \in ChainedTo(f, m) : Entries(f, i) = want => s.headAt = {f[i].hash}
ScanFailed(f, m, s) ==
  /\ ~LinksTo(f, m)
  /\ \E k \in 0 .. m : LinksTo(f, k) /\ s.at = Entries(f, k)
ScanKnows(f, want, m, s) ==
  /\ s \in Scanning
  /\ s.ok => ScanHolds(f, want, m, s)
  /\ ~s.ok => ScanFailed(f, m, s)

(* One turn of the scan.                                                   *)
LEMMA ScanOn ==
  ASSUME NEW f \in Seq(Lines), NEW m \in Nat, m + 1 \in 1 .. Len(f), NEW want \in Nat,
         NEW s, ScanKnows(f, want, m, s)
  PROVE  ScanKnows(f, want, m + 1, ScanTurn(s, f[m + 1], want))
<1> DEFINE l == f[m + 1]
           t == ScanTurn(s, l, want)
           good == l.kind # "bad" /\ (l.kind = "chained" => l.prev = HeadAt(f, m) /\ l.hash = HashOf(l.prev, l.rec))
<1>1. l \in Lines /\ s \in Scanning /\ Entries(f, m) \in Nat
  BY NextLine DEF ScanKnows, Entries
<1>2. /\ l.kind \in {"chained", "foreign", "bad"}
      /\ l.kind = "chained" => l.hash \in Hashes /\ l.prev \in Hashes
  BY <1>1 DEF Lines, ForeignLine, BadLine
<1>3. LinksTo(f, m + 1) <=> LinksTo(f, m) /\ good
  <2>1. \A i \in 1 .. m + 1 : i \in 1 .. m \/ i = m + 1
    OBVIOUS
  <2>2. (m + 1) - 1 = m /\ m + 1 \in 1 .. m + 1 /\ \A i \in 1 .. m : i \in 1 .. m + 1
    OBVIOUS
  <2> QED
    BY <2>1, <2>2 DEF LinksTo
<1>4. CASE ~s.ok
  <2>1. t = s /\ ScanFailed(f, m, s)
    BY <1>4 DEF ScanTurn, ScanKnows
  <2>2. \A k \in 0 .. m : k \in 0 .. m + 1
    OBVIOUS
  <2>3. ScanFailed(f, m + 1, s)
    BY <1>3, <2>1, <2>2 DEF ScanFailed
  <2> QED
    BY <1>1, <1>4, <2>1, <2>3 DEF ScanKnows
<1>5. CASE s.ok /\ l.kind = "foreign"
  <2>1. t = s /\ ScanHolds(f, want, m, s)
    BY <1>5 DEF ScanTurn, ScanKnows
  <2>2. ChainedTo(f, m + 1) = ChainedTo(f, m) /\ HeadAt(f, m + 1) = HeadAt(f, m)
    BY <1>5, NextLine
  <2>3. ScanHolds(f, want, m + 1, s)
    BY <1>3, <1>5, <2>1, <2>2 DEF ScanHolds, Entries
  <2> QED
    BY <1>1, <1>5, <2>1, <2>3 DEF ScanKnows
<1>6. CASE s.ok /\ l.kind # "foreign" /\ ~good
  <2>1. ScanHolds(f, want, m, s)
    BY <1>6 DEF ScanKnows
  <2>2. t = [ok |-> FALSE, prev |-> s.prev, at |-> s.at, headAt |-> s.headAt]
    BY <1>2, <1>6, <2>1 DEF ScanTurn, ScanHolds
  <2>3. t \in Scanning /\ ~t.ok /\ t.at = s.at
    BY <1>1, <2>2 DEF Scanning
  <2>4. ScanFailed(f, m + 1, t)
    <3>1. m \in 0 .. m + 1 /\ LinksTo(f, m) /\ t.at = Entries(f, m)
      BY <2>1, <2>3 DEF ScanHolds
    <3> QED
      BY <1>3, <1>6, <3>1 DEF ScanFailed
  <2> HIDE DEF t
  <2> QED
    BY <2>3, <2>4 DEF ScanKnows, t
<1>7. CASE s.ok /\ l.kind = "chained" /\ good
  <2>1. ScanHolds(f, want, m, s) /\ l.prev = s.prev
    BY <1>7 DEF ScanKnows, ScanHolds
  <2>2. t = [ok |-> TRUE, prev |-> l.hash, at |-> s.at + 1,
             headAt |-> IF s.at + 1 = want THEN {l.hash} ELSE s.headAt]
    BY <1>7, <2>1 DEF ScanTurn
  <2>3. t \in Scanning
    BY <1>1, <1>2, <1>7, <2>2 DEF Scanning
  <2>4. /\ t.ok /\ t.prev = l.hash /\ t.at = s.at + 1
        /\ s.at + 1 = want => t.headAt = {l.hash}
        /\ s.at + 1 # want => t.headAt = s.headAt
    BY <2>2
  <2>5. /\ ChainedTo(f, m + 1) = ChainedTo(f, m) \union {m + 1} /\ m + 1 \notin ChainedTo(f, m)
        /\ Entries(f, m + 1) = Entries(f, m) + 1 /\ HeadAt(f, m + 1) = l.hash
    BY <1>7, NextLine DEF Entries
  <2>6. LinksTo(f, m + 1) /\ t.at = Entries(f, m + 1) /\ s.at = Entries(f, m)
    BY <1>3, <1>7, <2>1, <2>4, <2>5 DEF ScanHolds
  <2>7. \A i \in ChainedTo(f, m) : Entries(f, i) < Entries(f, m + 1)
    <3>1. \A i \in ChainedTo(f, m) : i < m + 1 /\ i \in Nat
      BY ChainedToAll DEF ChainedTo
    <3>2. m + 1 \in Chained(f)
      BY <2>5 DEF ChainedTo
    <3> QED
      BY <3>1, <3>2, LaterEntry DEF Entries
  <2>8. t.headAt # {} =>
          \E i \in ChainedTo(f, m + 1) : Entries(f, i) = want /\ t.headAt = {f[i].hash}
    <3>1. CASE s.at + 1 = want
      BY <2>4, <2>5, <2>6, <3>1
    <3>2. CASE s.at + 1 # want
      BY <2>1, <2>4, <2>5, <3>2 DEF ScanHolds
    <3> QED
      BY <3>1, <3>2
  <2>9. \A i \in ChainedTo(f, m + 1) : Entries(f, i) = want => t.headAt = {f[i].hash}
    <3> SUFFICES ASSUME NEW i \in ChainedTo(f, m + 1), Entries(f, i) = want
                 PROVE  t.headAt = {f[i].hash}
      OBVIOUS
    <3>1. CASE i = m + 1
      BY <2>4, <2>6, <2>5, <3>1
    <3>2. CASE i \in ChainedTo(f, m)
      <4>1. Entries(f, i) # s.at + 1
        BY <1>1, <2>5, <2>6, <2>7, <3>2
      <4> QED
        BY <2>1, <2>4, <3>2, <4>1 DEF ScanHolds
    <3> QED
      BY <2>5, <3>1, <3>2
  <2> HIDE DEF t
  <2>10. ScanHolds(f, want, m + 1, t)
    BY <2>4, <2>5, <2>6, <2>8, <2>9 DEF ScanHolds
  <2> QED
    BY <2>3, <2>4, <2>10 DEF ScanKnows, t
<1> QED
  BY <1>2, <1>4, <1>5, <1>6, <1>7

(* The whole scan.                                                         *)
LEMMA ScanLoopKnows ==
  ASSUME NEW f \in Seq(Lines), NEW want \in Nat
  PROVE  ScanKnows(f, want, Len(f), ScanLoop(f, want))
<1> DEFINE n == Len(f)
           s0 == [ok |-> TRUE, prev |-> GENESIS, at |-> 0, headAt |-> {}]
           turn == [i \in 1 .. n |-> [s \in Scanning |-> ScanTurn(s, f[i], want)]]
           Eq(g) == g = [i \in 0 .. n |-> IF i = 0 THEN s0 ELSE ScanTurn(g[i - 1], f[i], want)]
           after == CHOOSE g : Eq(g)
           P == {m \in 0 .. n : ScanKnows(f, want, m, after[m])}
<1>1. n \in Nat /\ \A i \in 1 .. n : f[i] \in Lines
  BY LenProperties, ElementOfSeq
<1>2. s0 \in Scanning
  BY EmptySeq DEF GENESIS, Hashes, Scanning
<1>3. \A i \in 1 .. n, s \in Scanning : ScanTurn(s, f[i], want) \in Scanning
  <2> SUFFICES ASSUME NEW i \in 1 .. n, NEW s \in Scanning
               PROVE  ScanTurn(s, f[i], want) \in Scanning
    OBVIOUS
  <2>1. f[i].kind \in {"chained", "foreign", "bad"} /\ (f[i].kind = "chained" => f[i].hash \in Hashes)
    BY <1>1 DEF Lines, ForeignLine, BadLine
  <2> QED
    BY <2>1 DEF ScanTurn, Scanning
<1>4. /\ turn \in [1 .. n -> [Scanning -> Scanning]]
      /\ \A i \in 1 .. n, s \in Scanning : turn[i][s] = ScanTurn(s, f[i], want)
  BY <1>3
<1>5. \A i \in 0 .. n : i = 0 \/ (i \in 1 .. n /\ i - 1 \in 0 .. n)
  BY <1>1
<1>6. ScanKnows(f, want, 0, s0)
  <2>1. ChainedTo(f, 0) = {} /\ HeadAt(f, 0) = GENESIS /\ Entries(f, 0) = 0
    BY NoLineYet DEF Entries
  <2>2. LinksTo(f, 0)
    BY DEF LinksTo
  <2> QED
    BY <1>2, <2>1, <2>2 DEF ScanKnows, ScanHolds
<1> HIDE DEF n, s0, turn
<1>7. Eq(after)
  <2>1. \E g : Trace(g, n, Scanning, s0, turn)
    BY <1>1, <1>2, <1>4, LoopTrace
  <2>2. PICK g \in [0 .. n -> Scanning] : g[0] = s0 /\ \A i \in 1 .. n : g[i] = turn[i][g[i - 1]]
    BY <2>1 DEF Trace
  <2>3. \A i \in 1 .. n : g[i] = ScanTurn(g[i - 1], f[i], want)
    BY <1>1, <1>4, <1>5, <2>2
  <2>4. Eq(g)
    BY <1>5, <2>2, <2>3
  <2> QED
    BY <2>4
<1> HIDE DEF after
<1>8. after[0] = s0 /\ \A i \in 1 .. n : after[i] = ScanTurn(after[i - 1], f[i], want)
  BY <1>1, <1>5, <1>7
<1>9. 0 \in P
  BY <1>1, <1>6, <1>8
<1>10. \A m \in 0 .. n - 1 : m \in P => m + 1 \in P
  <2> SUFFICES ASSUME NEW m \in 0 .. n - 1, ScanKnows(f, want, m, after[m])
               PROVE  m + 1 \in 0 .. n /\ ScanKnows(f, want, m + 1, after[m + 1])
    OBVIOUS
  <2>1. m \in Nat /\ m + 1 \in 1 .. n /\ (m + 1) - 1 = m /\ m + 1 \in 0 .. n
    BY <1>1
  <2>2. after[m + 1] = ScanTurn(after[m], f[m + 1], want)
    BY <1>8, <2>1
  <2> QED
    BY <2>1, <2>2, ScanOn DEF n
<1> HIDE DEF P
<1>11. n \in P
  <2>1. \A m \in 0 .. n : m \in P
    BY <1>1, <1>9, <1>10, Induction
  <2> QED
    BY <1>1, <2>1
<1>12. ScanLoop(f, want) = after[n]
  BY DEF ScanLoop, after, n, s0
<1> QED
  BY <1>11, <1>12 DEF P, n

(* A checkpoint: none, or one record.                                      *)
IsCheckpoint(cs) == cs = {} \/ \E c \in CheckpointRec : cs = {c}

(* The loop of verifyAuditFile finds what VerifyAuditFile says, and reports *)
(* as many entries as it may.                                              *)
LEMMA LoopVerifies ==
  ASSUME NEW f \in Seq(Lines), NEW cs, IsCheckpoint(cs)
  PROVE  LoopIsRight(f, cs)
<1> DEFINE c == CHOOSE x \in cs : TRUE
           want == IF cs = {} THEN 0 ELSE c.count
           s == ScanLoop(f, want)
           n == Len(f)
           report == VerifyLoop(f, cs)
<1>1. cs # {} => cs = {c} /\ c \in CheckpointRec
  BY DEF IsCheckpoint
<1>2. want \in Nat /\ (cs # {} => c.count = want /\ c.head \in Hashes)
  BY <1>1 DEF CheckpointRec
<1> HIDE DEF c
<1>3. n \in Nat /\ DOMAIN f = 1 .. n /\ ChainedTo(f, n) = Chained(f) /\ Chained(f) \subseteq 1 .. n
  BY LenProperties, ChainedToAll
<1> HIDE DEF want
<1>4. ScanKnows(f, want, n, s)
  BY <1>2, ScanLoopKnows
<1> HIDE DEF s
<1>5. LinksTo(f, n) <=> LinksHold(f)
  BY <1>3 DEF LinksTo, LinksHold
<1>6. \A i \in Chained(f) : Entries(f, i) \in Nat /\ Entries(f, i) <= Entries(f, n)
  <2> SUFFICES ASSUME NEW i \in Chained(f)
               PROVE  Entries(f, i) \in Nat /\ Entries(f, i) <= Entries(f, n)
    OBVIOUS
  <2>1. IsFiniteSet(Chained(f)) /\ ChainedTo(f, i) \subseteq Chained(f)
    BY ChainedToAll DEF ChainedTo
  <2> QED
    BY <1>3, <2>1, FS_Subset, FS_CardinalityType DEF Entries
<1>7. Entries(f, n) \in Nat /\ s.at \in Nat
  <2>1. IsFiniteSet(Chained(f))
    BY ChainedToAll
  <2> QED
    BY <1>3, <1>4, <2>1, FS_CardinalityType DEF Entries, ScanKnows, Scanning
<1>8. CASE ~s.ok
  <2>1. ScanFailed(f, n, s)
    BY <1>4, <1>8 DEF ScanKnows
  <2>2. report = [ok |-> FALSE, at |-> s.at]
    BY <1>8 DEF VerifyLoop, s, want, c
  <2>3. ~VerifyAuditFile(f, cs)
    BY <1>5, <2>1 DEF ScanFailed, VerifyAuditFile
  <2>4. PICK k \in 0 .. n : LinksTo(f, k) /\ s.at = Entries(f, k)
    BY <2>1 DEF ScanFailed
  <2>5. \A i \in Chained(f) : Entries(f, i) <= s.at => LinksTo(f, i)
    <3> SUFFICES ASSUME NEW i \in Chained(f), Entries(f, i) <= s.at
                 PROVE  LinksTo(f, i)
      OBVIOUS
    <3>1. i \in Nat /\ k \in Nat
      BY <1>3
    <3>2. ~(k < i)
      BY <2>4, <3>1, LaterEntry DEF Entries
    <3>3. \A x \in 1 .. i : x \in 1 .. k
      BY <3>1, <3>2
    <3> QED
      BY <2>4, <3>3 DEF LinksTo
  <2> HIDE DEF report
  <2> QED
    BY <2>2, <2>3, <2>5 DEF LoopIsRight, verifyCommand, formatVerify, report, Entries
<1>9. CASE s.ok
  <2>1. ScanHolds(f, want, n, s)
    BY <1>4, <1>9 DEF ScanKnows
  <2>2. LinksHold(f) /\ s.prev = HeadAt(f, n) /\ s.at = Entries(f, n)
    BY <1>5, <2>1 DEF ScanHolds
  <2>3. \A i \in Chained(f) : LinksTo(f, i)
    <3> SUFFICES ASSUME NEW i \in Chained(f) PROVE LinksTo(f, i)
      OBVIOUS
    <3>1. \A x \in 1 .. i : x \in 1 .. n
      BY <1>3
    <3> QED
      BY <1>5, <2>2, <3>1 DEF LinksTo
  <2> DEFINE truncated == want > 0 /\ s.at < want
             rollback == IF want > 0 THEN s.headAt # {c.head} ELSE cs # {} /\ s.prev # c.head
  <2>4. /\ report.ok <=> ~truncated /\ ~rollback
        /\ report.ok => report.at = s.at
    BY <1>9 DEF VerifyLoop, s, want, c
  <2>5. CheckpointHolds(f, cs) <=> ~truncated /\ ~rollback
    <3>1. CASE cs = {}
      <4>1. want = 0
        BY <3>1 DEF want
      <4> QED
        BY <3>1, <4>1 DEF CheckpointHolds
    <3>2. CASE cs # {} /\ want = 0
      <4>1. CheckpointHolds(f, cs) <=> HeadAt(f, n) = c.head
        BY <1>1, <1>2, <3>2 DEF CheckpointHolds
      <4> QED
        BY <2>2, <3>2, <4>1
    <3>3. CASE cs # {} /\ want > 0
      <4>1. CheckpointHolds(f, cs) <=>
              \E i \in Chained(f) : Entries(f, i) = want /\ f[i].hash = c.head
        BY <1>1, <1>2, <3>3 DEF CheckpointHolds, Entries
      <4>2. ASSUME NEW i \in Chained(f), Entries(f, i) = want, f[i].hash = c.head
            PROVE  ~truncated /\ ~rollback
        <5>1. s.headAt = {f[i].hash}
          BY <1>3, <2>1, <4>2 DEF ScanHolds
        <5>2. want <= s.at
          BY <1>6, <2>2, <4>2
        <5> QED
          BY <1>2, <1>7, <3>3, <4>2, <5>1, <5>2
      <4>3. ASSUME ~truncated, ~rollback
            PROVE  \E i \in Chained(f) : Entries(f, i) = want /\ f[i].hash = c.head
        <5>1. s.headAt = {c.head}
          BY <3>3, <4>3
        <5>2. PICK i \in Chained(f) : Entries(f, i) = want /\ s.headAt = {f[i].hash}
          BY <1>3, <2>1, <5>1 DEF ScanHolds
        <5> QED
          BY <5>1, <5>2
      <4> HIDE DEF truncated, rollback
      <4> QED
        BY <4>1, <4>2, <4>3
    <3> QED
      BY <1>2, <3>1, <3>2, <3>3
  <2>6. report.ok <=> VerifyAuditFile(f, cs)
    BY <2>2, <2>4, <2>5 DEF VerifyAuditFile
  <2>7. report.ok => report.at = Cardinality(Chained(f))
    BY <1>3, <2>2, <2>4 DEF Entries
  <2> HIDE DEF report
  <2> QED
    BY <2>3, <2>6, <2>7 DEF LoopIsRight, verifyCommand, formatVerify, report
<1> QED
  BY <1>8, <1>9

(* What somebody leaves of a log is a log.                                 *)
LEMMA DamagedAreLogs ==
  ASSUME file \in Seq(Lines), NEW f \in DamagedCopies
  PROVE  f \in Seq(Lines)
<1> DEFINE n == Len(file)
<1>1. n \in Nat /\ DOMAIN file = 1 .. n /\ \A i \in 1 .. n : file[i] \in Lines
  BY LenProperties, ElementOfSeq
<1>2. Chained(file) \subseteq 1 .. n
  BY ChainedToAll
<1>3. BadLine \in Lines /\ ForeignLine \in Lines
  BY DEF Lines
<1>4. \A i \in 1 .. n, l \in Lines : [file EXCEPT ![i] = l] \in Seq(Lines)
  BY <1>1, ExceptSeq
<1>5. ASSUME NEW k \in 0 .. n, f = SubSeq(file, 1, k) PROVE f \in Seq(Lines)
  BY <1>1, <1>5, FirstLines
<1>6. ASSUME NEW i \in Chained(file), NEW r \in Recs, f = Edited(file, i, r) PROVE f \in Seq(Lines)
  <2>1. file[i] \in Lines /\ file[i].kind = "chained"
    BY <1>1, <1>2 DEF Chained
  <2>2. [file[i] EXCEPT !.rec = r] \in Lines
    BY <2>1 DEF Lines, ForeignLine, BadLine
  <2> QED
    BY <1>2, <1>4, <1>6, <2>2 DEF Edited
<1>7. ASSUME NEW i \in Chained(file), f = Stripped(file, i) PROVE f \in Seq(Lines)
  BY <1>2, <1>3, <1>4, <1>7 DEF Stripped
<1>8. ASSUME NEW i \in DOMAIN file, f = RemoveAt(file, i) PROVE f \in Seq(Lines)
  BY <1>1, <1>8, RemovedLines
<1>9. ASSUME NEW i \in DOMAIN file, NEW j \in DOMAIN file, f = Swapped(file, i, j)
      PROVE  f \in Seq(Lines)
  <2> DEFINE g == [file EXCEPT ![i] = file[j]]
  <2>1. g \in Seq(Lines) /\ Len(g) = n /\ f = [g EXCEPT ![j] = file[i]]
    BY <1>1, <1>9, ExceptSeq DEF Swapped
  <2> HIDE DEF g
  <2> QED
    BY <1>1, <2>1, ExceptSeq
<1>10. ASSUME NEW i \in 1 .. n + 1, f = InsertAt(file, i, BadLine) PROVE f \in Seq(Lines)
  <2>1. Inserted(f, file, n, i, BadLine)
    BY <1>1, <1>3, <1>10, InsertedLines
  <2> QED
    BY <2>1 DEF Inserted
<1>11. ASSUME NEW rs \in BoundedSeq(Recs, MaxLines), f = Rechained(rs) PROVE f \in Seq(Lines)
  <2>1. rs \in Seq(Recs)
    BY BoundAssumption, SeqDef DEF BoundedSeq, SeqOf
  <2> DEFINE R == Len(rs)
  <2>2. R \in Nat /\ DOMAIN rs = 1 .. R /\ \A i \in 1 .. R : rs[i] \in Recs
    BY <2>1, LenProperties, ElementOfSeq
  <2>3. ASSUME NEW i \in 1 .. R PROVE ChainedLine(SubSeq(rs, 1, i - 1), rs[i]) \in Lines
    <3>1. \A x \in 1 .. i - 1 : rs[x] \in Recs
      BY <2>2
    <3>2. SubSeq(rs, 1, i - 1) \in Hashes
      BY <2>1, <2>2, <3>1, SubSeqProperties DEF Hashes
    <3> QED
      BY <2>2, <3>2, LineTypes
  <2>4. f \in [1 .. R -> Lines]
    BY <1>11, <2>2, <2>3 DEF Rechained
  <2> QED
    BY <2>2, <2>4, SeqDef
<1> HIDE DEF n
<1> QED
  BY <1>5, <1>6, <1>7, <1>8, <1>9, <1>10, <1>11 DEF DamagedCopies, n

(* The sidecar holds one checkpoint or none, whatever the faults.          *)
LEMMA OneCheckpoint == Spec => []IsCheckpoint(chk)
<1>1. Init => IsCheckpoint(chk)
  BY DEF Init, IsCheckpoint
<1>2. TypeOK /\ IsCheckpoint(chk) /\ [Next]_vars => IsCheckpoint(chk)'
  <2> SUFFICES ASSUME TypeOK, IsCheckpoint(chk), [Next]_vars PROVE IsCheckpoint(chk')
    BY DEF IsCheckpoint
  <2>1. CASE RecordCheckpoint
    <3>1. [count |-> count, head |-> prev] \in CheckpointRec
      BY DEF TypeOK, CheckpointRec
    <3> QED
      BY <2>1, <3>1 DEF RecordCheckpoint, IsCheckpoint
  <2>2. CASE CheckpointFails
    BY <2>2 DEF CheckpointFails, IsCheckpoint
  <2>3. CASE chk' = chk
    BY <2>3
  <2> QED
    BY <2>1, <2>2, <2>3 DEF Next, Open, RecordAppend, TornAppend, Crash, ForeignAppend, TailLoss,
       vars, disk
<1> QED
  BY <1>1, <1>2, TypeCorrect, PTL DEF Spec

(* `redstamp verify` and the restart compute, line by line, what the       *)
(* declarative definitions say, whatever became of the log and whatever    *)
(* the faults; the numbers it reports are right.                           *)
THEOREM LoopsAreRight == Spec => []VerifyIsTheLoop
<1>1. TypeOK /\ IsCheckpoint(chk) => VerifyIsTheLoop
  <2> SUFFICES ASSUME TypeOK, IsCheckpoint(chk), NEW f \in DamagedCopies
               PROVE  /\ ChainStateOf(f) = StateLoop(f)
                      /\ \A c \in {chk, {}} \union
                              {{[count |-> 0, head |-> h]} : h \in {GENESIS, logged}} :
                           LoopIsRight(f, c)
    BY DEF VerifyIsTheLoop
  <2>1. f \in Seq(Lines)
    BY DamagedAreLogs DEF TypeOK
  <2>2. \A h \in {GENESIS, logged} : [count |-> 0, head |-> h] \in CheckpointRec
    BY EmptySeq DEF TypeOK, CheckpointRec, GENESIS, Hashes
  <2>3. \A c \in {chk, {}} \union {{[count |-> 0, head |-> h]} : h \in {GENESIS, logged}} :
          IsCheckpoint(c)
    BY <2>2 DEF IsCheckpoint
  <2> QED
    BY <2>1, <2>3, StateLoopIsRight, LoopVerifies
<1> QED
  BY <1>1, TypeCorrect, OneCheckpoint, PTL

(* audit.mjs:110-174: verifyAuditFile finds every damage to a chained      *)
(* record, pins the checkpointed prefix, passes over foreign lines, and is *)
(* the loop the code runs.                                                 *)
THEOREM VerifyTells == ASSUME WholeWrites PROVE Spec => []VerifyIsRight
<1>1. DamageCaught /\ CheckpointPins /\ ForeignLinesHarmless /\ VerifyIsTheLoop => VerifyIsRight
  BY DEF VerifyIsRight
<1> QED
  BY <1>1, DamageIsFound, CheckpointsPin, ForeignLinesPass, LoopsAreRight, PTL
-----------------------------------------------------------------------------
(* Lines end one behind the other.                                         *)
LEMMA EndsGrow ==
  ASSUME NEW n \in Nat, NEW size \in [1 .. n -> Nat \ {0}], NEW end, end = Ends(size, n)
  PROVE  /\ end \in [0 .. n -> Nat]
         /\ \A j \in 0 .. n : \A i \in 0 .. j : end[i] <= end[j]
<1> DEFINE turn == [i \in 1 .. n |-> [s \in Nat |-> s + size[i]]]
           Eq(g) == g = [i \in 0 .. n |-> IF i = 0 THEN 0 ELSE g[i - 1] + size[i]]
           P == {j \in 0 .. n : \A i \in 0 .. j : end[i] \in Nat /\ end[i] <= end[j]}
<1>1. /\ turn \in [1 .. n -> [Nat -> Nat]]
      /\ \A i \in 1 .. n, s \in Nat : turn[i][s] = s + size[i]
  OBVIOUS
<1>2. \A i \in 0 .. n : i = 0 \/ (i \in 1 .. n /\ i - 1 \in 0 .. n)
  OBVIOUS
<1> HIDE DEF turn
<1>3. Eq(end)
  <2>1. \E g : Trace(g, n, Nat, 0, turn)
    BY <1>1, LoopTrace
  <2>2. PICK g \in [0 .. n -> Nat] : g[0] = 0 /\ \A i \in 1 .. n : g[i] = turn[i][g[i - 1]]
    BY <2>1 DEF Trace
  <2>3. ASSUME NEW i \in 1 .. n PROVE g[i] = g[i - 1] + size[i]
    <3>1. i - 1 \in 0 .. n
      OBVIOUS
    <3>2. g[i - 1] \in Nat
      BY <2>2, <3>1
    <3> QED
      BY <1>1, <2>2, <3>2
  <2>4. Eq(g)
    BY <1>2, <2>2, <2>3
  <2>5. end = CHOOSE h : Eq(h)
    BY DEF Ends
  <2> QED
    BY <2>4, <2>5
<1>4. end[0] = 0 /\ \A i \in 1 .. n : end[i] = end[i - 1] + size[i]
  BY <1>2, <1>3
<1>5. 0 \in P
  BY <1>4
<1>6. \A m \in 0 .. n - 1 : m \in P => m + 1 \in P
  <2> SUFFICES ASSUME NEW m \in 0 .. n - 1,
                      \A i \in 0 .. m : end[i] \in Nat /\ end[i] <= end[m]
               PROVE  /\ m + 1 \in 0 .. n
                      /\ \A i \in 0 .. m + 1 : end[i] \in Nat /\ end[i] <= end[m + 1]
    OBVIOUS
  <2>1. m + 1 \in 1 .. n /\ (m + 1) - 1 = m /\ size[m + 1] \in Nat
    OBVIOUS
  <2>2. end[m + 1] = end[m] + size[m + 1]
    BY <1>4, <2>1
  <2>3. end[m] \in Nat /\ end[m + 1] \in Nat /\ end[m] <= end[m + 1]
    <3>1. m \in 0 .. m
      OBVIOUS
    <3> QED
      BY <2>1, <2>2, <3>1
  <2>4. ASSUME NEW i \in 0 .. m + 1 PROVE end[i] \in Nat /\ end[i] <= end[m + 1]
    <3>1. CASE i = m + 1
      BY <2>3, <3>1
    <3>2. CASE i # m + 1
      <4>1. i \in 0 .. m
        BY <3>2
      <4>2. end[i] \in Nat /\ end[i] <= end[m]
        BY <4>1
      <4> QED
        BY <2>3, <4>2
    <3> QED
      BY <3>1, <3>2
  <2> QED
    BY <2>1, <2>3, <2>4
<1>7. \A m \in 0 .. n : m \in P
  <2> HIDE DEF P
  <2> QED
    BY <1>5, <1>6, Induction
<1>8. \A j \in 0 .. n : \A i \in 0 .. j : end[i] \in Nat /\ end[i] <= end[j]
  BY <1>7
<1>9. \A j \in 0 .. n : end[j] \in Nat
  <2>1. \A j \in 0 .. n : j \in 0 .. j
    OBVIOUS
  <2> QED
    BY <1>8, <2>1
<1> QED
  BY <1>3, <1>8, <1>9

(* In any window that shows a chained line, or the whole file, the last    *)
(* chained line of the file is the last one.                               *)
LEMMA UsableHasHead ==
  ASSUME NEW f \in Seq(Lines), NEW end \in [0 .. Len(f) -> Nat], NEW len \in Nat,
         \A j \in 0 .. Len(f) : \A i \in 0 .. j : end[i] <= end[j],
         Usable(f, end, len) # {} \/ len = end[Len(f)]
  PROVE  HashIn(f, Usable(f, end, len)) = HeadAt(f, Len(f))
<1> DEFINE U == Usable(f, end, len)
<1>1. /\ ChainedTo(f, Len(f)) = Chained(f) /\ Chained(f) \subseteq 1 .. Len(f)
      /\ Len(f) \in Nat
  BY ChainedToAll, LenProperties DEF Chained
<1>2. CASE Chained(f) = {}
  BY <1>1, <1>2 DEF Usable, HashIn, HeadAt
<1>3. CASE Chained(f) # {}
  <2>1. PICK m \in Chained(f) : \A j \in Chained(f) : j <= m
    BY <1>1, <1>3, LastExists
  <2>2. m \in U
    <3>1. CASE len = end[Len(f)]
      BY <3>1 DEF Usable
    <3>2. CASE U # {}
      <4>1. PICK i \in U : i \in Chained(f) /\ (len = end[Len(f)] \/ end[i - 1] > end[Len(f)] - len)
        BY <3>2 DEF Usable
      <4>2. /\ i - 1 \in 0 .. m - 1 /\ m - 1 \in 0 .. Len(f) /\ i - 1 \in 0 .. Len(f)
            /\ Len(f) \in 0 .. Len(f)
        BY <1>1, <2>1, <4>1
      <4>3. end[i - 1] <= end[m - 1]
        BY <4>2
      <4>4. end[i - 1] \in Nat /\ end[m - 1] \in Nat /\ end[Len(f)] \in Nat
        BY <4>2
      <4>5. len = end[Len(f)] \/ end[m - 1] > end[Len(f)] - len
        BY <4>1, <4>3, <4>4
      <4> QED
        BY <4>5 DEF Usable
    <3> QED
      BY <3>1, <3>2
  <2>3. U \subseteq Chained(f)
    BY DEF Usable
  <2>4. HashIn(f, U) = f[m].hash
    <3> HIDE DEF U
    <3>1. \A k \in U : (\A j \in U : j <= k) => k = m
      BY <1>1, <2>1, <2>2, <2>3
    <3>2. \A j \in U : j <= m
      BY <2>1, <2>3
    <3>3. LastOf(U) = m
      BY <2>2, <3>1, <3>2 DEF LastOf
    <3> QED
      BY <2>2, <3>3 DEF HashIn
  <2>5. HeadAt(f, Len(f)) = f[m].hash
    BY <1>1, <2>1, HeadAtMax
  <2> QED
    BY <2>4, <2>5
<1> QED
  BY <1>2, <1>3

(* The loop of lastHashOf ends with the head of the chain, at whatever     *)
(* window it begins.                                                       *)
LEMMA TailFindsHead ==
  ASSUME NEW f \in Seq(Lines), NEW size \in [DOMAIN f -> Nat \ {0}]
  PROVE  LastHashOf(f, size) = ChainStateOf(f).head
<1> DEFINE end == Ends(size, Len(f))
           total == end[Len(f)]
           window(chunk) == Window(total, chunk)
           done(chunk) == Usable(f, end, window(chunk)) # {} \/ window(chunk) = total
           Pos == Nat \ {0}
           head == HeadAt(f, Len(f))
           Eq(g) == g = [chunk \in Pos |-> IF done(chunk) THEN HashIn(f, Usable(f, end, window(chunk)))
                                           ELSE g[Growth * chunk]]
           read == CHOOSE g : Eq(g)
<1>1. Len(f) \in Nat /\ DOMAIN f = 1 .. Len(f)
  BY LenProperties
<1>2. /\ end \in [0 .. Len(f) -> Nat]
      /\ \A j \in 0 .. Len(f) : \A i \in 0 .. j : end[i] <= end[j]
  BY <1>1, EndsGrow
<1>3. LastHashOf(f, size) = read[1]
  BY DEF LastHashOf, done, window, total, end
<1> HIDE DEF end
<1>4. total \in Nat
  BY <1>1, <1>2
<1>5. \A chunk \in Pos : /\ window(chunk) \in Nat
                         /\ chunk >= total => window(chunk) = total
                         /\ Growth * chunk \in Pos /\ chunk < Growth * chunk
  <2> HIDE DEF total
  <2> QED
    BY <1>4 DEF Window, Growth
<1>6. \A chunk \in Pos : done(chunk) => HashIn(f, Usable(f, end, window(chunk))) = head
  BY <1>2, <1>5, UsableHasHead
<1> HIDE DEF total, window
<1>7. \A chunk \in Pos : chunk >= total => done(chunk)
  BY <1>5
<1> DEFINE val(chunk) == HashIn(f, Usable(f, end, window(chunk)))
<1> HIDE DEF done, head
<1>8. Eq(read)
  <2> DEFINE g == [chunk \in Pos |-> head]
  <2>1. \A chunk \in Pos : g[Growth * chunk] = head
    BY <1>5
  <2>2. Eq(g)
    BY <1>6, <2>1
  <2> QED
    BY <2>2
<1> HIDE DEF read
<1>9. \A chunk \in Pos : IF done(chunk) THEN read[chunk] = head
                         ELSE read[chunk] = read[Growth * chunk]
  BY <1>6, <1>8
<1>10. \A chunk \in Pos : read[chunk] = head
  <2> DEFINE Bad == {chunk \in Pos : read[chunk] # head}
  <2> SUFFICES ASSUME Bad # {} PROVE FALSE
    OBVIOUS
  <2>1. \A chunk \in Bad : /\ chunk \in Pos /\ chunk < total
                           /\ Growth * chunk \in Bad /\ chunk < Growth * chunk
    BY <1>4, <1>5, <1>7, <1>9
  <2>2. Bad \in SUBSET (1 .. total)
    BY <1>4, <2>1
  <2> HIDE DEF Bad
  <2>3. PICK m \in Bad : \A j \in Bad : j <= m
    BY <1>4, <2>2, LastExists
  <2>4. PICK k \in Bad : m < k
    BY <2>1
  <2>5. k <= m /\ k \in 1 .. total /\ m \in 1 .. total
    BY <2>2, <2>3
  <2> QED
    BY <1>4, <2>4, <2>5
<1>11. read[1] = head
  BY <1>10
<1> QED
  BY <1>3, <1>11 DEF ChainStateOf, head

(* audit.mjs:43-67, 99-108: whatever became of the log, a daemon without a *)
(* checkpoint continues the chain where one with a checkpoint does.        *)
THEOREM TailsAgree == Spec => []TailReadAgrees
<1>1. TypeOK => TailReadAgrees
  <2> SUFFICES ASSUME TypeOK, NEW size \in [DOMAIN file -> Sizes]
               PROVE  LastHashOf(file, size) = ChainStateOf(file).head
    BY DEF TailReadAgrees
  <2>1. size \in [DOMAIN file -> Nat \ {0}]
    BY SizeAssumption
  <2> QED
    BY <2>1, TailFindsHead DEF TypeOK
<1> QED
  BY <1>1, TypeCorrect, PTL
=============================================================================

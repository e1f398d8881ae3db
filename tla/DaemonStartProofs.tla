--------------------------- MODULE DaemonStartProofs ---------------------------
(***************************************************************************)
(* Theorems about DaemonStart and FastHook, for every set of daemons, of   *)
(* records and every length of the log: while none has slipped by the      *)
(* guard of the start, daemons write one chain and can be found; and a     *)
(* native hook that runs among them screens its call unless they share a   *)
(* port.                                                                   *)
(***************************************************************************)
EXTENDS FastHook, AuditFileProofs

DaemonsTypeOK ==
  /\ pc \in [Daemons -> {"new", "starting", "up", "gone"}]
  /\ info \in Daemons \union {NoDaemon}
  /\ prev \in [Daemons -> Hashes]
  /\ file \in Seq(Lines)
  /\ slip \in {"never", "now", "past"}

(* While no daemon that is alive slipped by, there is one at most; if it   *)
(* has published itself it is the one in the file, and what it holds for   *)
(* the head of the log is the head.                                        *)
Alone   == \A d, x \in Live : d = x
InPlace == \A d \in Live : prev[d] = HeadAt(file, Len(file))
Found   == \A d \in Daemons : pc[d] = "up" => info = d
DInv == /\ DaemonsTypeOK
        /\ slip # "now" => Alone /\ InPlace /\ Found
        /\ slip = "never" => LinksHold(file)

(* Only the daemon whose token the hook has read ever answers it.          *)
HInv ==
  /\ at \in {"idle", "main", "dial"} => peer = NoDaemon
  /\ peer \in {NoDaemon, saw}
  /\ got # "empty line"
  /\ ScreenedOrAlone
-----------------------------------------------------------------------------
LEMMA DInvInit == Init => DInv
<1> SUFFICES ASSUME Init PROVE DInv
  OBVIOUS
<1>1. Live = {} /\ file = << >>
  BY DEF Init, Live
<1>2. DaemonsTypeOK
  BY DEF Init, DaemonsTypeOK, GENESIS, Hashes
<1>3. LinksHold(file) /\ Found
  BY <1>1 DEF Init, LinksHold, Found
<1> QED
  BY <1>1, <1>2, <1>3 DEF DInv, Alone, InPlace

(* The guard lets a daemon start only when none is alive or one has        *)
(* slipped by: whoever is alive otherwise is starting, and then this one   *)
(* slips by, or would be in the file.                                      *)
LEMMA GuardHolds ==
  ASSUME DInv, NEW d \in Daemons, Start(d), slip' # "now"
  PROVE  Live = {} /\ (slip' = "never" => slip = "never")
<1>1. ~(\E x \in Daemons : pc[x] = "starting")
  BY DEF Start, SlipAtStart
<1>2. slip' = IF Live = {} /\ slip = "now" THEN "past" ELSE slip
  BY <1>1 DEF Start, SlipAtStart
<1>3. CASE slip = "now"
  BY <1>2, <1>3
<1>4. CASE slip # "now"
  <2>1. ASSUME NEW x \in Live PROVE FALSE
    <3>1. x \in Daemons /\ pc[x] = "up"
      BY <1>1, <2>1 DEF Live
    <3>2. info = x
      BY <1>4, <3>1 DEF DInv, Found
    <3> QED
      BY <2>1, <3>2 DEF Start
  <2> QED
    BY <1>2, <1>4, <2>1
<1> QED
  BY <1>3, <1>4

(* One step, by action.                                                    *)
LEMMA DInvStep == DInv /\ [Next]_vars => DInv'
<1> SUFFICES ASSUME DInv, [Next]_vars PROVE DInv'
  OBVIOUS
<1> USE StartAssumption
<1>t. DaemonsTypeOK /\ file \in Seq(Lines) /\ Len(file) \in Nat
  BY LenProperties DEF DInv, DaemonsTypeOK
<1>1. ASSUME NEW d \in Daemons, Start(d) PROVE DInv'
  <2>1. HeadAt(file, Len(file)) \in Hashes
    BY <1>t, HeadAtType
  <2>2. slip' \in {"never", "now", "past"}
    BY <1>t, <1>1 DEF Start, SlipAtStart, DaemonsTypeOK
  <2>3. DaemonsTypeOK'
    BY <1>t, <1>1, <2>1, <2>2 DEF Start, DaemonsTypeOK, ChainStateOf
  <2>4. ASSUME slip' # "now"
        PROVE  (Alone /\ InPlace /\ Found)' /\ (slip' = "never" => LinksHold(file'))
    <3>1. Live = {} /\ (slip' = "never" => slip = "never")
      BY <1>1, <2>4, GuardHolds
    <3>2. Live' = {d} /\ prev'[d] = HeadAt(file, Len(file)) /\ file' = file
      BY <1>t, <1>1, <3>1 DEF Start, Live, DaemonsTypeOK, ChainStateOf
    <3>3. Found'
      BY <1>t, <1>1, <3>1 DEF Start, Live, DaemonsTypeOK, Found
    <3> QED
      BY <3>1, <3>2, <3>3 DEF DInv, Alone, InPlace
  <2> QED
    BY <2>3, <2>4 DEF DInv
<1>2. ASSUME NEW d \in Daemons, Publish(d) PROVE DInv'
  <2>1. Live' = Live /\ prev' = prev /\ file' = file /\ slip' = slip
    BY <1>t, <1>2 DEF Publish, Live, DaemonsTypeOK
  <2>2. DaemonsTypeOK'
    BY <1>t, <1>2 DEF Publish, DaemonsTypeOK
  <2>3. ASSUME slip # "now" PROVE Found'
    <3>1. \A x \in Live : x = d
      BY <1>t, <1>2, <2>3 DEF Publish, Live, DInv, Alone
    <3> QED
      BY <1>t, <1>2, <2>1, <3>1 DEF Publish, Live, Found
  <2> QED
    BY <2>1, <2>2, <2>3 DEF DInv, Alone, InPlace
<1>3. ASSUME NEW d \in Daemons, PublishFails(d) PROVE DInv'
  <2>1. DaemonsTypeOK'
    BY <1>t, <1>3 DEF PublishFails, DaemonsTypeOK
  <2> QED
    BY <1>3, <2>1 DEF PublishFails, DInv
<1>4. ASSUME NEW d \in Daemons, NEW r \in Recs, Record(d, r) PROVE DInv'
  <2> DEFINE l == ChainedLine(prev[d], r)
  <2>1. prev[d] \in Hashes /\ d \in Live
    BY <1>t, <1>4 DEF Record, DaemonsTypeOK
  <2>2. /\ l \in Lines /\ l.kind = "chained" /\ l.prev = prev[d] /\ l.rec = r
        /\ l.hash = HashOf(prev[d], r) /\ l.hash \in Hashes
    BY <2>1, LineTypes
  <2>3. file' = Append(file, l) /\ file' \in Seq(Lines)
    BY <1>t, <1>4, <2>2, AppendProperties DEF Record, AppendLine
  <2> HIDE DEF l
  <2>4. HeadAt(file', Len(file')) = l.hash
    BY <1>t, <2>2, <2>3, HeadAfterAppend
  <2>5. /\ prev' = [prev EXCEPT ![d] = l.hash] /\ Live' = Live
        /\ pc' = pc /\ info' = info /\ slip' = slip
    BY <1>4, <2>2 DEF Record, Live
  <2>6. DaemonsTypeOK'
    BY <1>t, <2>2, <2>3, <2>5 DEF DaemonsTypeOK
  <2>7. ASSUME slip # "now" PROVE prev[d] = HeadAt(file, Len(file)) /\ \A x \in Live : x = d
    BY <2>1, <2>7 DEF DInv, Alone, InPlace
  <2>8. ASSUME slip # "now" PROVE InPlace'
    BY <1>t, <2>4, <2>5, <2>7, <2>8 DEF InPlace, DaemonsTypeOK
  <2>9. ASSUME slip = "never" PROVE LinksHold(file')
    <3>1. LinksHold(file) /\ prev[d] = HeadAt(file, Len(file))
      BY <2>7, <2>9 DEF DInv
    <3> QED
      BY <1>t, <2>2, <2>3, <3>1, LinksAppend
  <2> QED
    BY <2>5, <2>6, <2>8, <2>9 DEF DInv, Alone, Found
<1>5. ASSUME NEW d \in Daemons, Terminate(d) \/ Kill(d) PROVE DInv'
  <2>1. /\ d \in Live /\ pc' = [pc EXCEPT ![d] = "gone"]
        /\ prev' = prev /\ file' = file /\ slip' = slip
        /\ info' \in {info, NoDaemon}
    BY <1>5 DEF Terminate, Kill
  <2>2. DaemonsTypeOK'
    BY <1>t, <2>1 DEF DaemonsTypeOK
  <2>3. ASSUME slip # "now" PROVE Live' = {}
    <3>1. \A x \in Live : x = d
      BY <2>1, <2>3 DEF DInv, Alone
    <3> QED
      BY <1>t, <2>1, <3>1 DEF Live, DaemonsTypeOK
  <2>4. ASSUME slip # "now" PROVE Found'
    BY <2>3, <2>4 DEF Live, Found
  <2> QED
    BY <2>1, <2>2, <2>3, <2>4 DEF DInv, Alone, InPlace
<1>6. CASE UNCHANGED vars
  BY <1>6 DEF vars, DInv, DaemonsTypeOK, Alone, InPlace, Live, Found
<1> QED
  BY <1>1, <1>2, <1>3, <1>4, <1>5, <1>6 DEF Next

(* A step of the composition is a step of the daemons or leaves them.      *)
LEMMA DaemonsStep == [FastNext]_fastVars => [Next]_vars
BY DEF FastNext, DaemonStep, HookStep, ReadInfo, Dial, Read, fallbackNode, NoNode,
       Reply, Invoke, fastVars

LEMMA DInvHolds == FastSpec => []DInv
<1>1. FastInit => DInv
  BY DInvInit DEF FastInit
<1>2. DInv /\ [FastNext]_fastVars => DInv'
  BY DInvStep, DaemonsStep
<1> QED
  BY <1>1, <1>2, PTL DEF FastSpec

(* daemon-cli.mjs:27-34: however many daemons come and go, by a signal or  *)
(* killed, the log has one writer at a time, who holds its head, unless    *)
(* one of those alive started beside another or could not write            *)
(* daemon.json; and it is one chain if there never was such a daemon.      *)
THEOREM OneWriter == FastSpec => []OneWriterOneChain
<1>1. DInv => OneWriterOneChain
  <2> SUFFICES ASSUME DInv, slip # "now" PROVE Cardinality(Live) <= 1
    BY DEF OneWriterOneChain, DInv, InPlace
  <2>1. CASE Live = {}
    BY <2>1, FS_EmptySet
  <2>2. CASE Live # {}
    <3>1. PICK d \in Live : Live = {d}
      BY <2>2 DEF DInv, Alone
    <3>2. Cardinality(Live) = 1
      BY <3>1, FS_Singleton
    <3> QED
      BY <3>2
  <2> QED
    BY <2>1, <2>2
<1> QED
  BY <1>1, DInvHolds, PTL

(* daemon.mjs:152-162: a daemon that serves is the one in the discovery    *)
(* file, unless it or one alive beside it could not write that file, or    *)
(* they started at one moment.                                             *)
THEOREM ServingFound == FastSpec => []ServingIsFound
<1>1. DInv => ServingIsFound
  BY DEF DInv, ServingIsFound, Found
<1> QED
  BY <1>1, DInvHolds, PTL
-----------------------------------------------------------------------------
(* warden-fast.go:12-17: if no daemon takes over the port of an earlier    *)
(* one, whatever daemons come and go while it runs, a native hook that     *)
(* ended relayed a verdict or left the call to the node hook.              *)
THEOREM HookScreens == ASSUME ~SamePort PROVE FastSpec => []ScreenedOrAlone
<1> USE StartAssumption
<1>1. FastInit => HInv
  BY DEF FastInit, HInv, ScreenedOrAlone
<1>2. HInv /\ [FastNext]_fastVars => HInv'
  <2> SUFFICES ASSUME HInv, [FastNext]_fastVars PROVE HInv'
    OBVIOUS
  <2> USE DEF HInv, ScreenedOrAlone
  <2>1. CASE DaemonStep
    BY <2>1 DEF DaemonStep
  <2>2. CASE Reply
    BY <2>2 DEF Reply
  <2>3. CASE \E p \in {"call", "text", "empty"} : Invoke(p)
    BY <2>3 DEF Invoke, Exit
  <2>4. CASE ReadInfo
    BY <2>4 DEF ReadInfo, FallBack
  <2>5. CASE Dial
    BY <2>5 DEF Dial, Listens, FallBack
  <2>6. CASE Read
    BY <2>6 DEF Read, Line, Exit, FallBack
  <2>7. CASE fallbackNode \/ NoNode
    BY <2>7 DEF fallbackNode, NoNode, Exit
  <2>8. CASE UNCHANGED fastVars
    BY <2>8 DEF fastVars, hook
  <2> QED
    BY <2>1, <2>2, <2>3, <2>4, <2>5, <2>6, <2>7, <2>8 DEF FastNext, HookStep
<1>3. HInv => ScreenedOrAlone
  BY DEF HInv
<1> QED
  BY <1>1, <1>2, <1>3, PTL DEF FastSpec
=============================================================================

------------------------------ MODULE AuditChain ------------------------------
(***************************************************************************)
(* ChainedFileAudit of src/src/audit.mjs, the streaming audit of the       *)
(* daemon ({ checkpoint: true }), over a file that outlives it: one writer *)
(* process that opens the log, records, crashes between any two effects on *)
(* the disk and is started again, and in-process hooks that append         *)
(* un-chained lines to the same file.                                      *)
(*                                                                         *)
(* record() is synchronous but touches the disk twice.  It is two actions, *)
(* RecordAppend and RecordCheckpoint, because a crash or the reader of the *)
(* log can come between.                                                   *)
(***************************************************************************)
EXTENDS AuditTail, SequencesExt

CONSTANTS MaxLines,           \* bound: foreign lines stop when the file has as many
          MaxRecords,         \* bound: calls of record()
          Sizes,              \* how long a line may be, for TailReadAgrees
          Faults              \* what may go wrong outside the program:
                              \*   "torn"  a write stops part way
                              \*   "loss"  the end of the log is lost
                              \*   "chk"   the sidecar is left unreadable

ASSUME BoundAssumption == MaxLines \in Nat /\ MaxRecords \in Nat
ASSUME SizeAssumption == Sizes \subseteq Nat \ {0}
ASSUME FaultAssumption == Faults \subseteq {"torn", "loss", "chk"}

VARIABLES
  file,      \* the lines of audit.jsonl
  closed,    \* the file ends in a newline
  chk,       \* audit.jsonl.chk: {} or one [count, head]
  pc,        \* "off"; "up"; "chk": appended, checkpoint not written yet
  prev,      \* this.prev
  count,     \* this.count
  asked,     \* history: the records record() was called with, in order
  logged,    \* history: those of them whose append succeeded
  anchored   \* history: the heads ever written to the checkpoint

vars == <<file, closed, chk, pc, prev, count, asked, logged, anchored>>
disk == <<file, closed, chk>>
memory == <<pc, prev, count>>
history == <<asked, logged, anchored>>

Init ==
  /\ file = << >> /\ closed = TRUE /\ chk = {}
  /\ pc = "off" /\ prev = GENESIS /\ count = 0
  /\ asked = << >> /\ logged = << >> /\ anchored = {}

(* The constructor seeds the chain from the file.  It does not read the    *)
(* checkpoint.                                                             *)
OpenFromGenesis ==
  /\ pc = "off" /\ pc' = "up"
  /\ prev' = GENESIS /\ count' = 0
  /\ UNCHANGED <<disk, history>>
Open ==
  /\ pc = "off" /\ pc' = "up"
  /\ prev' = ChainStateOf(file).head
  /\ count' = ChainStateOf(file).count
  /\ UNCHANGED <<disk, history>>

(* record(): the append, and the head moved past it.                       *)
RecordAppendRetried(r) ==
  /\ pc = "up" /\ Len(asked) < MaxRecords
  /\ file' = AppendLine(AppendLine(file, closed, ChainedLine(prev, r)), TRUE,
                        ChainedLine(HashOf(prev, r), r))
  /\ closed' = TRUE
  /\ prev' = HashOf(HashOf(prev, r), r) /\ count' = count + 2
  /\ pc' = "chk"
  /\ asked' = Append(asked, r) /\ logged' = Append(logged, r)
  /\ UNCHANGED <<chk, anchored>>
RecordAppend(r) ==
  /\ pc = "up" /\ Len(asked) < MaxRecords
  /\ file' = AppendLine(file, closed, ChainedLine(prev, r))
  /\ closed' = TRUE
  /\ prev' = HashOf(prev, r) /\ count' = count + 1
  /\ pc' = "chk"
  /\ asked' = Append(asked, r) /\ logged' = Append(logged, r)
  /\ UNCHANGED <<chk, anchored>>

(* record(): writeCheckpoint, whose failure is swallowed.                  *)
RecordCheckpointLate ==
  /\ pc = "chk" /\ pc' = "up"
  /\ chk' = {[count |-> count + 1, head |-> prev]}
  /\ anchored' = anchored \union {prev}
  /\ UNCHANGED <<file, closed, prev, count, asked, logged>>
RecordCheckpoint ==
  /\ pc = "chk" /\ pc' = "up"
  /\ chk' = {[count |-> count, head |-> prev]}
  /\ anchored' = anchored \union {prev}
  /\ UNCHANGED <<file, closed, prev, count, asked, logged>>

(* writeFileSync truncates before it writes: a write that fails after that *)
(* leaves a sidecar readCheckpoint makes null of, one that fails before    *)
(* leaves the old one.                                                     *)
CheckpointFails ==
  /\ "chk" \in Faults
  /\ pc = "chk" /\ pc' = "up"
  /\ chk' \in {chk, {}}
  /\ UNCHANGED <<file, closed, prev, count, history>>

(* record(): an append that throws part way (a full disk) or that a crash  *)
(* cuts.  What reached the file is a piece of the line, or all of it but   *)
(* the newline.  Nothing in memory moves.  An append that writes nothing   *)
(* changes nothing and needs no action.                                    *)
TornAppend(r) ==
  /\ "torn" \in Faults
  /\ pc = "up" /\ Len(asked) < MaxRecords
  /\ \E line \in {BadLine, ChainedLine(prev, r)} :
        file' = AppendLine(file, closed, line)
  /\ closed' = FALSE
  /\ asked' = Append(asked, r)
  /\ UNCHANGED <<chk, memory, logged, anchored>>

(* The process is killed; this.prev and this.count go with it.             *)
Crash ==
  /\ pc # "off" /\ pc' = "off"
  /\ prev' = GENESIS /\ count' = 0
  /\ UNCHANGED <<disk, history>>

(* The hook's in-process fallback appends an un-chained line (main in      *)
(* cc-hook.mjs) to the log the daemon chains.                              *)
ForeignAppend ==
  /\ Len(file) < MaxLines
  /\ file' = AppendLine(file, closed, ForeignLine)
  /\ closed' = TRUE
  /\ UNCHANGED <<chk, memory, history>>

(* The newest lines of the log are lost (a restored copy, a disk repair).  *)
TailLoss ==
  /\ "loss" \in Faults
  /\ \E n \in 0 .. Len(file) - 1 : file' = SubSeq(file, 1, n)
  /\ closed' = TRUE
  /\ UNCHANGED <<chk, memory, history>>

Next ==
  \/ Open
  \/ \E r \in Recs : RecordAppend(r)
  \/ RecordCheckpoint
  \/ CheckpointFails
  \/ \E r \in Recs : TornAppend(r)
  \/ Crash
  \/ ForeignAppend
  \/ TailLoss

Spec == Init /\ [][Next]_vars
-----------------------------------------------------------------------------
TypeOK ==
  /\ file \in Seq(Lines) /\ closed \in BOOLEAN
  /\ chk \subseteq CheckpointRec
  /\ pc \in {"off", "up", "chk"}
  /\ prev \in Hashes /\ count \in Nat
  /\ asked \in Seq(Recs) /\ logged \in Seq(Recs) /\ anchored \subseteq Hashes

(* Whatever the order of records, crashes, restarts, lost checkpoint       *)
(* writes and foreign lines, the log verifies at every moment a reader may *)
(* look: no false tamper alarm, not even between the append and the        *)
(* checkpoint.                                                             *)
ChainSurvives == VerifyAuditFile(file, chk)

(* A running writer's memory is the disk's state, however many restarts    *)
(* ago the chain began and whatever others appended since it opened.       *)
WriterAtHead ==
  pc # "off" => [head |-> prev, count |-> count] = ChainStateOf(file)

(* Nothing recorded is missing from the log, or out of order in it: the    *)
(* head commits to every record whose append succeeded.                    *)
NothingLost == ChainStateOf(file).head = logged
-----------------------------------------------------------------------------
(* The damage verifyAuditFile is there for, as functions of a file.        *)
Edited(f, i, r)   == [f EXCEPT ![i] = [f[i] EXCEPT !.rec = r]]
Stripped(f, i)    == [f EXCEPT ![i] = ForeignLine]
Swapped(f, i, j)  == [f EXCEPT ![i] = f[j], ![j] = f[i]]

(* Editing a chained record is caught wherever it is, and with no          *)
(* checkpoint at all; removing one, or stripping its hashes so that it     *)
(* looks foreign, is caught when a chained record follows it; so is        *)
(* exchanging two chained records.                                         *)
DamageCaught ==
  \A i \in Chained(file) :
    /\ \A r \in Recs \ {file[i].rec} : ~VerifyAuditFile(Edited(file, i, r), {})
    /\ \A j \in Chained(file) : j > i =>
         /\ ~VerifyAuditFile(RemoveAt(file, i), {})
         /\ ~VerifyAuditFile(Stripped(file, i), {})
         /\ ~VerifyAuditFile(Swapped(file, i, j), {})

(* The file a forger who knows the format would write for the records rs.  *)
Rechained(rs) ==
  [n \in DOMAIN rs |-> ChainedLine(SubSeq(rs, 1, n - 1), rs[n])]

(* A checkpoint pins the prefix it was written for: no truncation and no   *)
(* freshly hashed chain passes against it unless it begins with exactly    *)
(* the records that were logged when it was written, and a log that is     *)
(* gone does not pass at all.                                              *)
CheckpointPins ==
  \A c \in chk :
    /\ \A n \in 0 .. Len(file) :
         VerifyAuditFile(SubSeq(file, 1, n), chk)
           => Cardinality(ChainedTo(file, n)) >= c.count
    /\ \A rs \in BoundedSeq(Recs, MaxLines) :
         VerifyAuditFile(Rechained(rs), chk)
           => IsPrefix(SubSeq(logged, 1, c.count), rs)
    /\ ~VerifyUnreadable(chk)

(* The same one junk line that a non-chained writer may append anywhere is *)
(* never read as tampering and never hides it.                             *)
ForeignLinesHarmless ==
  \A i \in 1 .. Len(file) + 1 :
    VerifyAuditFile(InsertAt(file, i, ForeignLine), chk)
      = VerifyAuditFile(file, chk)

(* The declarative VerifyAuditFile and ChainStateOf give what the loops of *)
(* audit.mjs compute, on the file, on every damaged copy of it and on      *)
(* every freshly hashed one, and `redstamp verify` exits with 2 exactly    *)
(* when the log is not intact.  What it reports is right too: an intact    *)
(* log has as many entries as it says, and "TAMPER DETECTED at entry n"    *)
(* means that the n entries before hold.                                   *)
LoopIsRight(f, c) ==
  LET report == VerifyLoop(f, c) IN
  /\ verifyCommand(f, c) = IF VerifyAuditFile(f, c) THEN 0 ELSE 2
  /\ report.ok => report.at = Cardinality(Chained(f))
  /\ \A i \in Chained(f) : Cardinality(ChainedTo(f, i)) <= report.at => LinksTo(f, i)

DamagedCopies ==
  {file} \union {SubSeq(file, 1, n) : n \in 0 .. Len(file)}
    \union {Edited(file, i, r) : i \in Chained(file), r \in Recs}
    \union {Stripped(file, i) : i \in Chained(file)}
    \union {RemoveAt(file, i) : i \in DOMAIN file}
    \union {Swapped(file, i, j) : i \in DOMAIN file, j \in DOMAIN file}
    \union {InsertAt(file, i, BadLine) : i \in 1 .. Len(file) + 1}
    \union {Rechained(rs) : rs \in BoundedSeq(Recs, MaxLines)}

VerifyIsTheLoop ==
  \A f \in DamagedCopies :
    /\ ChainStateOf(f) = StateLoop(f)
    /\ \A c \in {chk, {}} \union {{[count |-> 0, head |-> h]} : h \in {GENESIS, logged}} :
         LoopIsRight(f, c)

(* Every damage to a chained record is found, a checkpoint pins the prefix *)
(* it was written for, junk lines neither look like tampering nor hide it, *)
(* and all this is what the loop of verifyAuditFile computes.              *)
VerifyIsRight ==
  DamageCaught /\ CheckpointPins /\ ForeignLinesHarmless /\ VerifyIsTheLoop

(* A log opened without a checkpoint is continued where one opened with it *)
(* is: however long its records are against the windows lastHashOf reads,  *)
(* whatever foreign or torn lines follow the last chained one, neither     *)
(* starts a second chain.                                                  *)
TailReadAgrees ==
  \A size \in [DOMAIN file -> Sizes] : LastHashOf(file, size) = ChainStateOf(file).head

(* The log implements the ledger: the head is what it holds, the           *)
(* checkpoint where its anchor stands.                                     *)
Ledger == INSTANCE AuditLedger WITH
  ledger <- ChainStateOf(file).head,
  anchor <- IF chk = {} THEN 0 ELSE (CHOOSE c \in chk : TRUE).count
LedgerSpec == Ledger!Spec
-----------------------------------------------------------------------------
(* s is t with some of its elements left out.                              *)
IsSubsequence(s, t) ==
  \E at \in [DOMAIN s -> DOMAIN t] :
    /\ \A i, j \in DOMAIN s : i < j => at[i] < at[j]
    /\ \A i \in DOMAIN s : s[i] = t[at[i]]

(* Under every fault: a log that verifies holds nothing but records        *)
(* record() was called with, each once and in the order of the calls.      *)
VerifiedIsGenuine ==
  VerifyAuditFile(file, {}) => IsSubsequence(ChainStateOf(file).head, asked)

(* Under every fault: a chain once broken is never mended by the program,  *)
(* so the alarm is still there when somebody looks, after any number of    *)
(* restarts and records.                                                   *)
AlarmSticks ==
  [][~LinksHold(file) => ~LinksHold(file)' \/ TailLoss]_vars
-----------------------------------------------------------------------------
(* What audit.mjs and SECURITY.md say, refuted under the faults they name. *)

(* "Seeds from the file's last hash so the chain survives restarts": when  *)
(* a daemon has just recorded, the log verifies.                           *)
RestartKeepsChain == pc = "chk" => VerifyAuditFile(file, chk)

(* "Truncation missed when a checkpoint is present is in scope": a log     *)
(* that verifies against its checkpoint extends every head a checkpoint    *)
(* was ever written for.                                                   *)
TruncationCaught ==
  (chk # {} /\ VerifyAuditFile(file, chk))
    => \A h \in anchored : IsPrefix(h, ChainStateOf(file).head)
=============================================================================

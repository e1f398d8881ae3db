------------------------------ MODULE AuditFile ------------------------------
(***************************************************************************)
(* The audit log as src/src/audit.mjs reads and writes it: a JSONL file,   *)
(* the hash chain that runs through its lines, the sidecar checkpoint and  *)
(* verifyAuditFile.  Only operators; the processes that use the file are   *)
(* in AuditChain, DaemonStart and the modules that use AuditLog.           *)
(*                                                                         *)
(* The hash is ideal: SHA-256 is modelled as the injective commitment to   *)
(* everything it was computed over, so the hash of a chain is the sequence *)
(* of records it chains.  A file is the sequence of its non-blank lines.   *)
(***************************************************************************)
EXTENDS Integers, Sequences, FiniteSets

CONSTANT Recs                 \* payloads: the fields of an entry but prev, hash

GENESIS == << >>
HashDropsPrev(prev, rec) == <<rec>>
HashOf(prev, rec) == Append(prev, rec)

Hashes == Seq(Recs)

(* A line is an entry of the chain (a string prev and a string hash), JSON *)
(* from a writer that does not chain, or text JSON.parse rejects.          *)
ChainedLine(prev, rec) ==
  [kind |-> "chained", rec |-> rec, prev |-> prev, hash |-> HashOf(prev, rec)]
ForeignLine == [kind |-> "foreign"]
BadLine     == [kind |-> "bad"]

Lines == [kind : {"chained"}, rec : Recs, prev : Hashes, hash : Hashes]
           \union {ForeignLine, BadLine}

Chained(f)      == {i \in DOMAIN f : f[i].kind = "chained"}
ChainedTo(f, i) == {j \in Chained(f) : j <= i}

(* The running hash `prev` of a scan after the first n lines of f.         *)
HeadAt(f, n) ==
  IF ChainedTo(f, n) = {} THEN GENESIS
  ELSE f[CHOOSE m \in ChainedTo(f, n) : \A j \in ChainedTo(f, n) : j <= m].hash

ChainStateOf(f) ==
  [head |-> HeadAt(f, Len(f)), count |-> Cardinality(Chained(f))]

(* appendFileSync(line + '\n').  `closed` says that the file ends in a     *)
(* newline (or is empty): if it does not, the text continues the last line *)
(* and the two together are not JSON.                                      *)
AppendLineRepairs(f, closed, line) ==
  IF closed THEN Append(f, line) ELSE [f EXCEPT ![Len(f)] = line]
AppendLine(f, closed, line) ==
  IF closed THEN Append(f, line) ELSE [f EXCEPT ![Len(f)] = BadLine]

(* A checkpoint is the empty set when readCheckpoint gives null, and the   *)
(* singleton of its {count, head} otherwise.                               *)
CheckpointRec == [count : Nat, head : Hashes]

(* Every line parses, and every chained one follows the last one before it *)
(* and hashes to what it says.                                             *)
LinksHoldNoPrev(f) ==
  \A i \in DOMAIN f :
    /\ f[i].kind # "bad"
    /\ f[i].kind = "chained" => f[i].hash = HashOf(f[i].prev, f[i].rec)
LinksHold(f) ==
  \A i \in DOMAIN f :
    /\ f[i].kind # "bad"
    /\ f[i].kind = "chained" => /\ f[i].prev = HeadAt(f, i - 1)
                                /\ f[i].hash = HashOf(f[i].prev, f[i].rec)

CheckpointHolds(f, chk) ==
  \A c \in chk :
    IF c.count > 0
      THEN \E i \in Chained(f) : /\ Cardinality(ChainedTo(f, i)) = c.count
                                 /\ f[i].hash = c.head
      ELSE HeadAt(f, Len(f)) = c.head

(* verifyAuditFile(path, expected).ok, of a file that can be read; of one  *)
(* that cannot, only the number of records promised is looked at.          *)
VerifyAuditFile(f, chk) == LinksHold(f) /\ CheckpointHolds(f, chk)
VerifyUnreadable(chk) == \A c \in chk : c.count = 0

(* The links of the first n lines hold.                                    *)
LinksTo(f, n) ==
  \A i \in 1 .. n : /\ f[i].kind # "bad"
                    /\ f[i].kind = "chained" => /\ f[i].prev = HeadAt(f, i - 1)
                                                /\ f[i].hash = HashOf(f[i].prev, f[i].rec)
-----------------------------------------------------------------------------
(* The same as the loops they are, a line a turn.  chainStateOf:           *)
StateTurn(s, line) ==
  IF line.kind = "chained" THEN [head |-> line.hash, count |-> s.count + 1] ELSE s
StateLoop(f) ==
  LET after[i \in 0 .. Len(f)] ==
        IF i = 0 THEN [head |-> GENESIS, count |-> 0] ELSE StateTurn(after[i - 1], f[i])
  IN after[Len(f)]

(* verifyAuditFile: the scan, which remembers the hash of the record the   *)
(* checkpoint was written for, and then the checkpoint.  `at` is the       *)
(* number of entries found good, which the result calls `entries` or `at`. *)
Scanning == [ok : BOOLEAN, prev : Hashes, at : Nat, headAt : SUBSET Hashes]
ScanTurn(s, line, want) ==
  IF ~s.ok \/ line.kind = "foreign" THEN s
  ELSE IF line.kind = "bad" \/ line.prev # s.prev \/ line.hash # HashOf(s.prev, line.rec)
         THEN [ok |-> FALSE, prev |-> s.prev, at |-> s.at, headAt |-> s.headAt]
  ELSE [ok |-> TRUE, prev |-> line.hash, at |-> s.at + 1,
        headAt |-> IF s.at + 1 = want THEN {line.hash} ELSE s.headAt]
ScanLoop(f, want) ==
  LET after[i \in 0 .. Len(f)] ==
        IF i = 0 THEN [ok |-> TRUE, prev |-> GENESIS, at |-> 0, headAt |-> {}]
        ELSE ScanTurn(after[i - 1], f[i], want)
  IN after[Len(f)]
VerifyLoop(f, expected) ==
  LET c == CHOOSE x \in expected : TRUE
      want == IF expected = {} THEN 0 ELSE c.count
      s == ScanLoop(f, want)
      truncated == want > 0 /\ s.at < want
      rollback == IF want > 0 THEN s.headAt # {c.head}
                  ELSE expected # {} /\ s.prev # c.head
  IN IF ~s.ok \/ truncated THEN [ok |-> FALSE, at |-> s.at]
     ELSE IF rollback THEN [ok |-> FALSE, at |-> IF want > 0 THEN want ELSE s.at]
     ELSE [ok |-> TRUE, at |-> s.at]

(* The exit code of `redstamp verify`.                                     *)
formatVerify(report) == IF report.ok THEN 0 ELSE 2
verifyCommand(f, sidecar) == formatVerify(VerifyLoop(f, sidecar))
=============================================================================

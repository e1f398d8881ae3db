------------------------------ MODULE DaemonStart ------------------------------
(***************************************************************************)
(* Several `redstamp serve` processes on one machine: the double-start     *)
(* guard of src/src/daemon-cli.mjs, the discovery file startDaemon writes  *)
(* and removes, and the one audit log each of them chains from the head it *)
(* found when it started.  A daemon here is a process id, started once.    *)
(***************************************************************************)
EXTENDS AuditFile

CONSTANTS Daemons,       \* process ids
          NoDaemon,
          MaxLines       \* bound: lines in the log

ASSUME StartAssumption == NoDaemon \notin Daemons /\ MaxLines \in Nat

VARIABLES
  pc,      \* "new", "starting" (not listening yet), "up" or "gone"
  info,    \* the pid in daemon.json, NoDaemon when there is no such file
  prev,    \* per daemon: this.prev of its audit
  file,    \* the lines of audit.jsonl
  slip     \* history: has a daemon been out of the guard's sight, "never",
           \* "now" (it, or one that started beside it, may be alive) or "past"

vars == <<pc, info, prev, file, slip>>
Live == {d \in Daemons : pc[d] \in {"starting", "up"}}

Init ==
  /\ pc = [d \in Daemons |-> "new"] /\ info = NoDaemon
  /\ prev = [d \in Daemons |-> GENESIS] /\ file = << >>
  /\ slip = "never"

(* A daemon that is starting is not in daemon.json yet: one that starts    *)
(* beside it is not stopped.  What slipped by is over when none is alive.  *)
SlipAtStart ==
  slip' = IF \E x \in Daemons : pc[x] = "starting" THEN "now"
          ELSE IF Live = {} /\ slip = "now" THEN "past" ELSE slip

(* The guard reads daemon.json and probes the pid in it; if it is dead, or *)
(* there is no file, startDaemon opens the audit in the same turn.         *)
StartUnguarded(d) ==
  /\ pc[d] = "new"
  /\ pc' = [pc EXCEPT ![d] = "starting"]
  /\ prev' = [prev EXCEPT ![d] = ChainStateOf(file).head]
  /\ SlipAtStart
  /\ UNCHANGED <<info, file>>
Start(d) ==
  /\ pc[d] = "new"
  /\ info \notin Live
  /\ pc' = [pc EXCEPT ![d] = "starting"]
  /\ prev' = [prev EXCEPT ![d] = ChainStateOf(file).head]
  /\ SlipAtStart
  /\ UNCHANGED <<info, file>>

(* The listener's callback writes daemon.json over whatever is there.      *)
PublishExclusive(d) ==
  /\ pc[d] = "starting"
  /\ pc' = [pc EXCEPT ![d] = "up"]
  /\ info' = IF info = NoDaemon THEN d ELSE info
  /\ UNCHANGED <<prev, file, slip>>
Publish(d) ==
  /\ pc[d] = "starting"
  /\ pc' = [pc EXCEPT ![d] = "up"]
  /\ info' = d
  /\ UNCHANGED <<prev, file, slip>>

(* The port cannot be had or the file cannot be written: that is logged,   *)
(* and the daemon goes on serving (the Unix socket at least) unpublished.  *)
(* The file is as it was, or cut, which the guard reads like none.         *)
PublishFails(d) ==
  /\ pc[d] = "starting"
  /\ pc' = [pc EXCEPT ![d] = "up"]
  /\ info' \in {info, NoDaemon}
  /\ slip' = "now"
  /\ UNCHANGED <<prev, file>>

(* A request is audited; the Unix socket may serve before the TCP listener *)
(* has called back.                                                        *)
Record(d, r) ==
  /\ d \in Live /\ Len(file) < MaxLines
  /\ file' = AppendLine(file, TRUE, ChainedLine(prev[d], r))
  /\ prev' = [prev EXCEPT ![d] = HashOf(prev[d], r)]
  /\ UNCHANGED <<pc, info, slip>>

(* SIGINT, SIGTERM, exit: cleanupInfo.                                     *)
Terminate(d) ==
  /\ d \in Live
  /\ pc' = [pc EXCEPT ![d] = "gone"]
  /\ info' = NoDaemon
  /\ UNCHANGED <<prev, file, slip>>

(* Killed outright; daemon.json is left behind.                            *)
Kill(d) ==
  /\ d \in Live
  /\ pc' = [pc EXCEPT ![d] = "gone"]
  /\ UNCHANGED <<info, prev, file, slip>>

Next == \E d \in Daemons : \/ Start(d) \/ Publish(d) \/ PublishFails(d)
                           \/ \E r \in Recs : Record(d, r)
                           \/ Terminate(d) \/ Kill(d)
Spec == Init /\ [][Next]_vars
-----------------------------------------------------------------------------
(* The guard of daemon-cli.mjs:27-34 makes daemons take turns: unless one  *)
(* of those alive started beside another or could not publish itself, the  *)
(* log has one writer, who holds its head.  So the log is one chain as     *)
(* long as none ever slipped by the guard; and when one did, the daemons   *)
(* after it go on from the head of what it left.                           *)
OneWriterOneChain ==
  /\ slip # "now" => /\ Cardinality(Live) <= 1
                     /\ \A d \in Live : prev[d] = HeadAt(file, Len(file))
  /\ slip = "never" => LinksHold(file)

(* A daemon that serves can be found, and goes on to be: neither a file    *)
(* left behind by a killed one nor the end of an earlier one takes its     *)
(* place in daemon.json.  Only a daemon that could not write the file, or  *)
(* one that started beside another, serves unseen.                         *)
ServingIsFound == slip # "now" => \A d \in Daemons : pc[d] = "up" => info = d
=============================================================================

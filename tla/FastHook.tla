------------------------------- MODULE FastHook -------------------------------
(***************************************************************************)
(* The native hook client, src/native/warden-fast.go, while daemons come   *)
(* and go (DaemonStart): it reads the discovery file, dials the port in    *)
(* it, sends the hook payload with the token of the file and relays one    *)
(* line, or leaves the call to the node hook.                              *)
(***************************************************************************)
EXTENDS DaemonStart

CONSTANT SamePort   \* the daemons listen on one fixed port (tcpPort), not each on its own

ASSUME PortAssumption == SamePort \in BOOLEAN

VARIABLES
  at,        \* of the hook: "idle", "main", "dial", "read", "fallback" or "done"
  payload,   \* what Claude Code wrote: "call", "text" (no JSON object), "empty"
  saw,       \* the daemon whose port and token are in the file the hook read
  peer,      \* the daemon that has the connection, NoDaemon once it is closed
  got,       \* what has arrived: "nothing", "part" of a line, or a whole
             \* "verdict" or "empty line"
  out        \* what screened the call: "verdict", "node", or "none"

hook == <<at, payload, saw, peer, got, out>>
fastVars == <<vars, hook>>

FastInit == /\ Init /\ at = "idle" /\ payload = "empty" /\ saw = NoDaemon
            /\ peer = NoDaemon /\ got = "nothing" /\ out = "none"

Exit(what) == at' = "done" /\ out' = what
FallBack == at' = "fallback" /\ UNCHANGED out

Invoke(p) ==
  /\ at = "idle" /\ payload' = p
  /\ IF p = "empty" THEN Exit("none") ELSE at' = "main" /\ UNCHANGED out
  /\ UNCHANGED <<saw, peer, got, vars>>

(* The file is missing, half written or of no daemon's; or the payload is  *)
(* no object to put the token in.                                          *)
ReadInfo ==
  /\ at = "main"
  /\ \/ /\ info # NoDaemon /\ payload = "call"
        /\ saw' = info /\ at' = "dial" /\ UNCHANGED out
     \/ /\ info = NoDaemon \/ payload = "text" \/ \E d \in Daemons : pc[d] = "starting"
        /\ FallBack /\ UNCHANGED saw
  /\ UNCHANGED <<payload, peer, got, vars>>

Listens(d) == pc[d] = "up" /\ (SamePort \/ d = saw)
Dial ==
  /\ at = "dial"
  /\ \/ /\ \E d \in Daemons : Listens(d) /\ peer' = d
        /\ at' = "read" /\ UNCHANGED out
     \/ FallBack /\ UNCHANGED peer
  /\ UNCHANGED <<payload, saw, got, vars>>

(* The daemon answers: the verdict as a hook prints it, which is no text   *)
(* for a deferral, or an empty line to a token that is not its own.  A     *)
(* line may arrive in pieces.                                              *)
Reply ==
  /\ peer # NoDaemon /\ got \in {"nothing", "part"}
  /\ got' \in {IF peer = saw THEN "verdict" ELSE "empty line"}
              \union (IF peer = saw /\ got = "nothing" THEN {"part"} ELSE {})
  /\ UNCHANGED <<at, payload, saw, peer, out, vars>>

Line == got \in {"verdict", "empty line"}
(* Faulty variant: whatever arrived before the connection closed is the    *)
(* answer.                                                                 *)
ReadShort ==
  /\ at = "read"
  /\ \/ Line /\ Exit(IF got = "verdict" THEN got ELSE "none")
     \/ ~Line /\ peer = NoDaemon /\ Exit("none")
  /\ UNCHANGED <<payload, saw, peer, got, vars>>
(* Faulty variant: no deadline.                                            *)
ReadForever ==
  /\ at = "read"
  /\ \/ Line /\ Exit(IF got = "verdict" THEN got ELSE "none")
     \/ ~Line /\ peer = NoDaemon /\ FallBack
  /\ UNCHANGED <<payload, saw, peer, got, vars>>
(* A whole line ends the read; so do the deadline and a closed connection, *)
(* and then the node hook is asked.                                        *)
Read ==
  /\ at = "read"
  /\ \/ Line /\ Exit(IF got = "verdict" THEN got ELSE "none")
     \/ ~Line /\ FallBack
  /\ UNCHANGED <<payload, saw, peer, got, vars>>

(* The node hook screens the call, or it cannot be found or run.           *)
fallbackNode ==
  /\ at = "fallback"
  /\ Exit("node")
  /\ UNCHANGED <<payload, saw, peer, got, vars>>
NoNode ==
  /\ at = "fallback"
  /\ at' = "open" /\ out' = "none"
  /\ UNCHANGED <<payload, saw, peer, got, vars>>

(* A daemon that goes takes its connections along.                         *)
DaemonStep ==
  /\ Next
  /\ peer' = IF peer \in Daemons /\ pc'[peer] = "gone" THEN NoDaemon ELSE peer
  /\ UNCHANGED <<at, payload, saw, got, out>>

HookStep == ReadInfo \/ Dial \/ Read \/ fallbackNode \/ NoNode
FastNext == \/ DaemonStep \/ Reply \/ HookStep
            \/ \E p \in {"call", "text", "empty"} : Invoke(p)
(* The hook's own process runs, and its timeouts fire.                     *)
FastSpec == FastInit /\ [][FastNext]_fastVars /\ WF_fastVars(HookStep)
-----------------------------------------------------------------------------
(* warden-fast.go:12-17: "Fail SAFE, not open": a hook that has ended and  *)
(* had something to screen has relayed the verdict of a daemon that knew   *)
(* its token, or the node hook has screened the call; only one that found  *)
(* no node hook to run ("open") lets it pass.  Whatever becomes of the     *)
(* daemons between its reading the file, dialling, and the answer; but     *)
(* only if no daemon takes over the port of an earlier one (SamePort).     *)
ScreenedOrAlone == (at = "done" /\ payload # "empty") => out # "none"

(* A hook that was called ends, whatever the daemon does: the dial and the *)
(* read have deadlines.                                                    *)
FastHookEnds == (at = "main") ~> (at \in {"done", "open"})
=============================================================================

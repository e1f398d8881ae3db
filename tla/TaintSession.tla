----------------------------- MODULE TaintSession -----------------------------
(***************************************************************************)
(* Cross-call taint (src/src/taint.mjs): one session's shell commands,     *)
(* each checked in one synchronous turn and, unless it is refused, run by  *)
(* a shell one simple command at a time.  Where a secret's bytes really    *)
(* come to lie is tracked beside the session's idea of it, along the ways  *)
(* it undertakes to follow: what a command that reads the secret writes,   *)
(* and the copies cp, mv and install make of that.  The agent may run any  *)
(* other command in between; a redirection (`cat p1 > p2`, where p1 is no  *)
(* secret by its name) is none of these ways, and writes p2 anew.          *)
(***************************************************************************)
EXTENDS Verdict, Sequences, SequencesExt

CONSTANTS Paths,       \* files that are not sensitive by their name
          Secret,      \* a path SENSITIVE_PATH_RE matches
          MaxSteps,    \* bound: simple commands in a call
          MaxCalls,    \* bound: calls in a session
          Shells,      \* how many calls the agent runs at a time
          Listed       \* egressAllow is not empty

ASSUME TaintAssumption ==
  Secret \notin Paths /\ MaxSteps \in Nat /\ MaxCalls \in Nat /\ Listed \in BOOLEAN

(* What a simple command does: copy with cp, mv or install; copy by        *)
(* redirection or into an archive; print a file; send a file, or data from *)
(* elsewhere, or nothing at all, to an external host.                      *)
Files == Paths \union {Secret}
SimpleCommands ==
  [op : {"cp"}, src : Files, dst : Paths]
    \union [op : {"cat>"}, src : Files, dst : Paths]
    \union [op : {"cat"}, src : Files]
    \union [op : {"send"}, src : Files]
    \union {[op |-> "post"], [op |-> "get"]}
Commands == BoundedSeq(SimpleCommands, MaxSteps) \ {<< >>}

Ops(c)      == {c[i].op : i \in DOMAIN c}
Names(c)    == {c[i].src : i \in {j \in DOMAIN c : c[j].op \notin {"post", "get"}}}
                 \union {c[i].dst : i \in {j \in DOMAIN c : c[j].op \in {"cp", "cat>"}}}
External(c) == Ops(c) \intersect {"send", "post", "get"} # {}

(* scanSecrets(action).hasSecret: the text names a sensitive path.         *)
HasSecret(c) == Secret \in Names(c)
(* looksLikeSend                                                           *)
LooksLikeSend(c) == Ops(c) \intersect {"send", "post"} # {}
(* writeDests: every redirection target and copy destination of the text.  *)
WriteDests(c) == {c[i].dst : i \in {j \in DOMAIN c : c[j].op \in {"cp", "cat>"}}}

(* decide(): secret and external in one command is black, each alone red.  *)
Stateless(c) ==
  decide([class |-> "shell", base |-> "green", secret |-> HasSecret(c),
          external |-> External(c), skill |-> FALSE, inj |-> FALSE,
          ssrf |-> "none", persist |-> FALSE, listed |-> Listed, cmd |-> TRUE,
          egress |-> External(c), outside |-> FALSE, smell |-> FALSE,
          denied |-> FALSE, allowed |-> FALSE])

VARIABLES
  tainted,    \* this.taintedPaths
  holds,      \* this.holdsSecret
  calls,      \* this.calls
  running,    \* per shell: what is left of the command it runs
  dirty,      \* history: the files with bytes of the secret, by the ways followed
  leaked      \* history: such a file, or the secret, was sent out

session == <<tainted, holds, calls>>
truth == <<dirty, leaked>>
vars == <<tainted, holds, calls, running, dirty, leaked>>

Idle == \A k \in 1 .. Shells : running[k] = << >>

Init ==
  /\ tainted = {} /\ holds = FALSE /\ calls = 0
  /\ running = [k \in 1 .. Shells |-> << >>]
  /\ dirty = {} /\ leaked = FALSE

(* SINK: is this call shipping tainted data out?                           *)
SinkNamesOnly(c, t, h) ==
  LET v == Stateless(c) IN
  IF v.decision = "block" \/ ~External(c) THEN v
  ELSE IF \E i \in DOMAIN c : c[i].op = "send" /\ c[i].src \in t
         THEN Escalate(v, "black")
  ELSE IF v.decision = "allow" /\ h /\ LooksLikeSend(c) THEN Escalate(v, "red")
  ELSE v
Sink(c, t, h) ==
  LET v == Stateless(c) IN
  IF v.decision = "block" \/ ~External(c) THEN v
  ELSE IF Names(c) \intersect t # {} THEN Escalate(v, "black")
  ELSE IF v.decision = "allow" /\ h /\ LooksLikeSend(c) THEN Escalate(v, "red")
  ELSE v

(* PROPAGATION: the copy pairs in the order of the text.                   *)
CopyTaints(x, s) ==
  IF x.op = "cp" /\ x.src \in s \union {Secret} THEN s \union {x.dst} ELSE s
Propagate(c, t) ==
  LET after[i \in 0 .. Len(c)] == IF i = 0 THEN t ELSE CopyTaints(c[i], after[i - 1])
  IN after[Len(c)]
Sources(c) == IF HasSecret(c) THEN WriteDests(c) ELSE {}

(* The host refuses the call or hands it to a free shell; an approval may  *)
(* be granted or not.                                                      *)
Host(c, decision) ==
  \E k \in 1 .. Shells :
    /\ running[k] = << >>
    /\ \/ decision # "allow" /\ UNCHANGED running
       \/ decision # "block" /\ running' = [running EXCEPT ![k] = c]

(* TaintSession.check(): the session is brought up to date whatever the    *)
(* verdict, before the command runs.                                       *)
CheckAllowedOnly(c) ==
  /\ calls < MaxCalls
  /\ calls' = calls + 1
  /\ tainted' = IF Sink(c, tainted, holds).decision = "allow"
                  THEN Propagate(c, tainted \union Sources(c)) ELSE tainted
  /\ holds' = (holds \/ (HasSecret(c) /\ WriteDests(c) = {}))
  /\ Host(c, Sink(c, tainted, holds).decision)
  /\ UNCHANGED truth
Check(c) ==
  /\ calls < MaxCalls
  /\ calls' = calls + 1
  /\ tainted' = Propagate(c, tainted \union Sources(c))
  /\ holds' = (holds \/ (HasSecret(c) /\ WriteDests(c) = {}))
  /\ Host(c, Sink(c, tainted, holds).decision)
  /\ UNCHANGED truth

(* A shell runs its next simple command.                                   *)
Carries(x) ==
  \/ x.op = "cp" /\ x.src \in dirty \union {Secret}
  \/ x.op = "cat>" /\ x.src = Secret
Execute(k) ==
  /\ running[k] # << >>
  /\ LET x == Head(running[k]) IN
     /\ dirty' = IF x.op \notin {"cp", "cat>"} THEN dirty
                 ELSE IF Carries(x) THEN dirty \union {x.dst} ELSE dirty \ {x.dst}
     /\ leaked' = (leaked \/ (x.op = "send" /\ x.src \in dirty \union {Secret}))
  /\ running' = [running EXCEPT ![k] = Tail(@)]
  /\ UNCHANGED session

(* TaintSession.reset(), for a new agent task (or a new connection).  What *)
(* the old task left behind is no longer this session's business.          *)
Reset ==
  /\ Idle /\ calls > 0
  /\ tainted' = {} /\ holds' = FALSE /\ calls' = 0
  /\ dirty' = {}
  /\ UNCHANGED <<running, leaked>>

Next == \/ \E c \in Commands : Check(c)
        \/ \E k \in 1 .. Shells : Execute(k)
        \/ Reset
Spec == Init /\ [][Next]_vars
-----------------------------------------------------------------------------
TypeOK ==
  /\ tainted \subseteq Paths /\ holds \in BOOLEAN /\ calls \in 0 .. MaxCalls
  /\ running \in [1 .. Shells -> Seq(SimpleCommands)]
  /\ dirty \subseteq Paths /\ leaked \in BOOLEAN

(* "propagation (the file a secret lands in, and any copy of it, becomes   *)
(* tainted)": when nothing is running the session knows of every file into *)
(* which a command has written the secret or a chain of copies, within a   *)
(* call and across calls, has carried it, whatever was approved or refused *)
(* and whatever else was written, redirected or overwritten in between.    *)
TaintCoversDirty == Idle => dirty \subseteq tainted

(* No file the secret has reached by those ways is ever sent out, not even *)
(* by a command that makes, copies and sends it at once, or by one         *)
(* somebody approved.                                                      *)
NothingLeaks == ~leaked

(* One file is like another: a command names any of them.                  *)
Symmetry == Permutations(Paths)
=============================================================================

------------------------------ MODULE HookPromise ------------------------------
(***************************************************************************)
(* What redstamp promises Claude Code of each tool call (src/src/cc-hook   *)
(* .mjs), with no daemon, no socket, no timeout and no file: one answer,   *)
(* as strict as the rules ask for or stricter, and final; a tool that runs *)
(* after it, once, unless it was denied; and two books that only grow, of  *)
(* what was decided and of what ran.                                       *)
(***************************************************************************)
CONSTANT Calls
VARIABLES rules, strict,   \* per call the decision of check(); the hooks are strict
          hook, tool,      \* per call: "idle", "asking" or the answer; what became of it
          marks,           \* the book of decisions: <<call, what was enforced>>
          runs             \* the book of runs: <<call, result>>

Final == {"deny", "ask", "defer"}
Enforced == [deny |-> "blocked", ask |-> "asked", defer |-> "forwarded"]
Answers(c) ==
  {a \in Final : /\ rules[c] = "block" => a = "deny"
                 /\ rules[c] = "approve" /\ strict => a # "defer"
                 /\ ~strict => a # "ask"}

Init == /\ rules \in [Calls -> {"allow", "approve", "block"}] /\ strict \in BOOLEAN
        /\ hook = [c \in Calls |-> "idle"] /\ tool = [c \in Calls |-> "waiting"]
        /\ marks = {} /\ runs = {}

Ask(c) == /\ hook[c] = "idle"
          /\ hook' = [hook EXCEPT ![c] = "asking"]
          /\ UNCHANGED <<rules, strict, tool, marks, runs>>

(* A decision is booked for a call that was asked about, in time or not.   *)
Decide(c) == /\ hook[c] # "idle"
             /\ \E a \in Answers(c) : marks' = marks \union {<<c, Enforced[a]>>}
             /\ UNCHANGED <<rules, strict, hook, tool, runs>>

(* The answer is one that is booked, or is booked with it.                 *)
Answer(c) == /\ hook[c] \notin Final
             /\ \E a \in Answers(c) : /\ hook' = [hook EXCEPT ![c] = a]
                                      /\ marks' = marks \union {<<c, Enforced[a]>>}
             /\ UNCHANGED <<rules, strict, tool, runs>>

RunTool(c) == /\ hook[c] \in Final /\ tool[c] = "waiting"
              /\ \E t \in {"never", "ok", "error"} :
                   /\ hook[c] = "deny" => t = "never"
                   /\ tool' = [tool EXCEPT ![c] = t]
              /\ UNCHANGED <<rules, strict, hook, marks, runs>>

Report(c) == /\ tool[c] \in {"ok", "error"} /\ c.id # ""
             /\ runs' = runs \union {<<c, tool[c]>>}
             /\ UNCHANGED <<rules, strict, hook, tool, marks>>

Next == \E c \in Calls : Ask(c) \/ Decide(c) \/ Answer(c) \/ RunTool(c) \/ Report(c)
Spec == Init /\ [][Next]_<<rules, strict, hook, tool, marks, runs>>
=============================================================================

-------------------------------- MODULE Policy --------------------------------
(***************************************************************************)
(* The policy of src/src/policy.mjs: which file is read, what it becomes   *)
(* when it is missing, torn or of the wrong shape, and which actions a     *)
(* rule matches.  A field of the file is a list of items or a scalar.      *)
(***************************************************************************)
EXTENDS Matching, TLC

List(items) == [list |-> TRUE, items |-> items]
Scalar(items) == [list |-> FALSE, items |-> items]     \* what the scalar names
DEFAULT_POLICY == [allow |-> List({}), deny |-> List({}), egressAllow |-> List({}),
                   writeRoots |-> Scalar({})]

DEFAULT_CONFIG == "redstamp.config.json"
LEGACY_CONFIG == "warden.config.json"
resolveConfig(explicit, dir) ==
  IF explicit # "" THEN explicit
  ELSE IF DEFAULT_CONFIG \notin dir /\ LEGACY_CONFIG \in dir THEN LEGACY_CONFIG
  ELSE DEFAULT_CONFIG

asRulesOfAnything(v) == List(v.items)
asRules(v) == IF v.list THEN v ELSE List({})
normalizePolicy(p) ==
  [allow |-> asRules(p.allow), deny |-> asRules(p.deny), egressAllow |-> asRules(p.egressAllow),
   writeRoots |-> IF p.writeRoots.list THEN p.writeRoots ELSE Scalar({})]

(* file: the fields that parsed, or json |-> FALSE.                        *)
loadPolicy(file) ==
  IF file.json THEN normalizePolicy(file.fields @@ DEFAULT_POLICY) ELSE DEFAULT_POLICY

(* A rule is tool(glob); a text of another shape matches nothing.  The     *)
(* subject is the first of command, path and url that is not empty, or the *)
(* whole input.                                                            *)
matchRule(rule, tool, subjects) ==
  LET named == {i \in DOMAIN subjects : subjects[i] # << >>}
      first == CHOOSE i \in named : \A j \in named : i <= j
  IN /\ rule.tool = tool
     /\ named # {} /\ globMatch(rule.glob, subjects[first])
=============================================================================

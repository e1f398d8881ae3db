------------------------------- MODULE HookCall -------------------------------
(***************************************************************************)
(* A Claude Code tool call on its way to a hook decision                   *)
(* (src/src/cc-hook.mjs): the action its name and input are mapped to, and *)
(* what the hook does with the verdict.                                    *)
(***************************************************************************)
EXTENDS McpCall

(* Of the input only the fields of the action are kept: the first of the   *)
(* keys that is there, or the empty string.                                *)
Only(ti, field, keys) ==
  LET kept == Under(Take(ti, field, keys), field)
  IN IF \E i \in DOMAIN keys : Under(ti, keys[i]) # {} THEN kept
     ELSE {[top |-> field, key |-> field, depth |-> 1, text |-> << >>]}

(* Faulty variant: a write's own name for its path is not known.           *)
ccToActionByPath(name, ti) ==
  [tool |-> IF name = "bash" THEN "shell" ELSE name, input |-> ti]
ccToAction(name, ti) ==
  LET action(tool, input) == [tool |-> tool, input |-> input]
      path == Only(ti, "path", <<"file_path", "path">>)
  IN CASE name \in {"bash", "powershell", "shell"} ->
            action("shell", Only(ti, "command", <<"command", "cmd">>))
       [] name = "write" -> action("write", path \union Only(ti, "content", <<"file_text", "content">>))
       [] name \in {"edit", "multiedit"} -> action("edit", path)
       [] name = "notebookedit" -> action("edit", Only(ti, "path", <<"notebook_path", "file_path">>))
       [] name = "read" -> action("read", path)
       [] name \in {"webfetch", "fetch"} -> action("fetch", Only(ti, "url", <<"url">>))
       [] name = "websearch" -> action("read", Only(ti, "query", <<"query">>))
       [] name = "grep" -> action("grep", Only(ti, "pattern", <<"pattern">>))
       [] name \in {"glob", "ls"} -> action("list", Only(ti, "pattern", <<"pattern">>))
       [] OTHER -> action(name, ti)

verdictToHook(v, strict) ==
  IF v.decision = "block" THEN "deny"
  ELSE IF v.decision = "approve" /\ strict THEN "ask" ELSE "defer"
=============================================================================

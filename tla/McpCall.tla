------------------------------- MODULE McpCall -------------------------------
(***************************************************************************)
(* An MCP tools/call on its way to a verdict (src/src/mcp.mjs): the        *)
(* action its name and arguments are mapped to, decide() on that action,   *)
(* and the scan of every string among the arguments.  A name is the set of *)
(* hints in it.                                                            *)
(***************************************************************************)
EXTENDS Decide

NAME_HINTS == <<[tool |-> "shell", names |-> {"exec", "run_", "command"}],
                [tool |-> "delete", names |-> {"delete", "remove"}],
                [tool |-> "write", names |-> {"write", "create", "save"}],
                [tool |-> "fetch", names |-> {"fetch", "http", "download"}],
                [tool |-> "read", names |-> {"read", "get", "search"}]>>

hasUrlish(args) == \E l \in args : l.depth = 1 /\ N!Has(N!Urls, S!Text(l.text))

(* The field takes over the first of the arguments that is there, and all  *)
(* that is under it.                                                       *)
Take(args, field, keys) ==
  LET there == {i \in DOMAIN keys : Under(args, keys[i]) # {}}
      k == keys[CHOOSE i \in there : \A j \in there : i <= j]
      kept == {l \in args : l.top # field}
  IN IF there = {} THEN kept
     ELSE kept \union {[l EXCEPT !.top = field, !.key = IF l.depth = 1 THEN field ELSE @] :
                         l \in Under(args, k)}
Also(args, field, text) ==
  {l \in args : l.top # field}
  \union {[top |-> field, key |-> field, depth |-> 1, text |-> text]}

netArgs(args) ==
  LET url == Under(Take(args, "url", <<"url", "uri", "endpoint", "target", "href", "link">>), "url")
      body == Under(Take(args, "body", <<"body", "data">>), "body")
  IN {l \in args : l.top \notin {"url", "body"}} \union url \union body
normalized(tool, args) ==
  CASE tool = "shell" -> IF \E k \in {"command", "cmd", "script"} : Under(args, k) # {}
                           THEN Take(args, "command", <<"command", "cmd", "script">>)
                           ELSE Also(args, "command", AsCommand(args))
    [] tool = "delete" -> Take(args, "path", <<"path", "target">>)
    [] tool = "write" ->
         LET path == Under(Take(args, "path", <<"path", "file", "filepath", "dest", "destination",
                                  "target", "output", "to", "location", "uri">>), "path")
             content == Under(Take(args, "content", <<"content", "text", "body">>), "content")
         IN {l \in args : l.top \notin {"path", "content"}} \union path \union content
    [] tool = "fetch" -> netArgs(args)
    [] tool = "read" -> Take(args, "path", <<"path", "uri">>)
    [] OTHER -> args

hintOf(name) ==
  LET at == {i \in DOMAIN NAME_HINTS : NAME_HINTS[i].names \cap name # {}}
  IN IF at = {} THEN "unknown" ELSE NAME_HINTS[CHOOSE i \in at : \A j \in at : i <= j].tool
mapByNameOnly(name, args) ==
  [tool |-> hintOf(name), input |-> normalized(hintOf(name), args)]
mapMcpToAction(name, args) ==
  LET hint == hintOf(name)
      tool == IF hasUrlish(args) /\ hint # "shell" THEN "fetch" ELSE hint
  IN [tool |-> tool, input |-> normalized(tool, args)]

(* wrap.mjs: a tool_use block of a native agent, without the leaf scan.    *)
guardToolUse(name, args, policy) == decide(mapMcpToAction(name, args), policy)

CONTENT_KEYS == {"content", "text", "body", "data", "message", "description", "value"}
(* The code stops at 65 leaves; no call here has as many.                  *)
shellLeaves(args) == {l.text : l \in {k \in args : k.depth <= MAX_DEPTH /\ k.key \notin CONTENT_KEYS}}

guardMcpCore(name, args, policy) ==
  LET a == mapMcpToAction(name, args)
      command(t) == [shape |-> "string", text |-> t, leaves |-> {}, size |-> Len(t)]
      tiers == {S!classify([tool |-> "shell", cmd |-> command(t), method |-> "GET"]) :
                  t \in shellLeaves(args)}
  IN V!LeafScan(decide(a, policy), ToolClass(a.tool), tiers)
=============================================================================

-------------------------------- MODULE MCCall --------------------------------
(***************************************************************************)
(* MCP calls from their name, arguments and policy file to their verdict:  *)
(* for kind "call" a state is a call, and a step gives it one more         *)
(* argument, a secret or an address if it has one already; for kind "hook" *)
(* the same of a Claude Code tool call.                                    *)
(***************************************************************************)
EXTENDS MCShell

C == INSTANCE McpCall
H == INSTANCE HookCall
L == INSTANCE Cli

CONSTANTS MaxArgs,         \* bound: strings among the arguments of a call
          Paired           \* the policy files under which it may have more than one

W(ws) == Spaced([i \in DOMAIN ws |-> Lexeme(ws[i])])
Wipe     == W(<<"rm", "-rf", "/">>)
Imds     == W(<<"http://imds/">>)
Public   == W(<<"https:">>)
Sudo     == W(<<"sudo", "ls">>)
Key      == W(<<"AKIA">>)
Said     == W(<<"ignore", "previous", "instructions">>)
Hidden   == <<<<"hid", "quotes", "rm">>>> \o W(<<"-rf">>)
Contact  == {W(<<"curl", "h1">>), <<<<"w", "curl">>, <<"ifs">>, <<"w", "h1">>>>,
             <<<<"set", "X", "h1">>, <<"op", ";">>>> \o W(<<"curl">>) \o <<<<"sp">>, <<"var", "X">>>>}
Cron     == W(<<"/etc/cron.d">>)
Texts    == {Sudo, Wipe, Imds, Public, Key, Said, Hidden, Cron, W(<<"src/../a">>)} \union Contact

Field(f) == [top |-> f, key |-> f, depth |-> 1]
Inside(f, k, d) == [top |-> f, key |-> k, depth |-> d]
Listed(f) == Inside(f, "list", 2)        \* an argv array, one word to a leaf
Places == {Field("url"), Field("q"), Field("target"), Field("content"), Field("command"),
           Inside("opts", "argv", 2), Inside("opts", "argv", 7), Inside("opts", "content", 2),
           Inside("command", "argv", 2), Listed("command")}
CallNames == { {"run_"}, {"get", "command"}, {"delete"}, {"create"}, {"http", "get"}, {"read"}, {"notes"} }

(* Policy files: none, one that is no JSON, rules in a list and as a       *)
(* scalar, an allowlist of hosts, roots to write under.                    *)
AnyOf(tools) == {[tool |-> t, glob |-> <<"*">>] : t \in tools}
Tools == {"shell", "delete", "write", "fetch", "read", "unknown"}
(* A project with sources, a remote and a policy file from before the      *)
(* rename, in which `init` and `init --global` were run.                   *)
Project == [dirs |-> {"s", "x"},
            remotes |-> {<<[word |-> "git", host |-> FALSE, next |-> "@"],
                           [word |-> "h1", host |-> TRUE, next |-> ":"],
                           [word |-> "repo.git", host |-> TRUE, next |-> " "]>>},
            files |-> [f \in {C!P!LEGACY_CONFIG} |-> [json |-> TRUE, fields |-> << >>]]]
Inits == L!init([Project EXCEPT !.files = L!init(Project, FALSE)], TRUE)
Exit(cmd, arg, policy) == L!main([cmd |-> cmd, args |-> {arg}, policy |-> policy], Inits, 2)
Explicit == [init |-> "", initGlobal |-> L!GLOBAL_CONFIG]
File(f, v) == [json |-> TRUE, fields |-> [x \in {f} |-> v]]
Files == [none |-> [json |-> FALSE], empty |-> [json |-> TRUE, fields |-> << >>],
          allow |-> File("allow", C!P!List(AnyOf(Tools))),
          allowText |-> File("allow", C!P!Scalar(AnyOf(Tools))),
          deny |-> File("deny", C!P!List(AnyOf({"fetch", "delete"}))),
          denyWipe |-> File("deny", C!P!List({[tool |-> "shell", glob |-> <<"curl", "*">>]})),
          egress |-> File("egressAllow", C!P!List({"api.ok"})),
          init |-> L!policyFile(Inits, Explicit.init),
          initGlobal |-> L!policyFile(Inits, Explicit.initGlobal),
          roots |-> File("writeRoots", C!P!List({<<"s">>}))]

HookNames == {"bash", "write", "edit", "notebookedit", "read", "webfetch", "grep", "mcp tool"}
HookPlaces == {Field("command"), Field("cmd"), Field("file_path"), Field("path"), Field("notebook_path"),
               Field("file_text"), Field("url"), Inside("command", "argv", 2)}

CallInit ==
  \/ /\ kind = "call"
     /\ \E n \in CallNames, f \in DOMAIN Files : text = [name |-> n, file |-> f, args |-> {}]
  \/ /\ kind = "hook"
     /\ \E n \in HookNames, f \in {"empty", "allow"} : text = [name |-> n, file |-> f, args |-> {}]
ArgvTexts == {W(<<"curl", "h1">>), Wipe, Sudo}
Leaves(p, t) ==
  IF p.key # "list" THEN {[top |-> p.top, key |-> p.key, depth |-> p.depth, text |-> t]}
  ELSE LET ws == SelectSeq(t, LAMBDA l : l # <<"sp">>)
       IN {[top |-> p.top, key |-> C!Indexes[i], depth |-> 2, text |-> <<ws[i]>>] : i \in DOMAIN ws}
Argument(places) ==
  \E p \in places, t \in IF text.args = {} THEN Texts ELSE {Public, Key} :
    /\ \A l \in text.args : l.top # p.top
    /\ p.key = "list" => t \in ArgvTexts
    /\ text' = [text EXCEPT !.args = @ \union Leaves(p, t)]
Argue == /\ kind \in {"call", "hook"}
         /\ Cardinality(text.args) < IF text.file \in Paired THEN MaxArgs ELSE 1
         /\ Argument(IF kind = "call" THEN Places ELSE HookPlaces)
CallNext == Argue /\ UNCHANGED kind
-----------------------------------------------------------------------------
PolicyOf(f) == C!P!loadPolicy(Files[f])
VerdictOf(c) == C!guardMcpCore(c.name, c.args, PolicyOf(c.file))
Carries(c, t) == \E l \in c.args : l.text = t
AtTop(c, t) == \E l \in c.args : l.text = t /\ l.depth = 1

(* mcp.mjs:23-35,52-93: whatever the tool is called and wherever among the *)
(* arguments it sits, a metadata address and a secret beside an outside    *)
(* URL are blocked, a wiping command is blocked unless it is a write's or  *)
(* under a key for text, an instruction to the reader is red unless the    *)
(* tool is a shell, and a hidden command is put before the judge.  An      *)
(* allow rule changes none of it but the approval of a red call.           *)
McpVerdictFits(c, tool, v, block) ==
  LET read(l) == l.depth <= 6 /\ l.key \notin C!CONTENT_KEYS IN
  /\ AtTop(c, Imds) => v.decision = "block" /\ block.decision = "block"
  /\ c.file = "none" => C!V!ORDER[block.tier] <= C!V!ORDER[v.tier]
  /\ AtTop(c, Public) /\ Carries(c, Key) => v.decision = "block"
  /\ (\E l \in c.args : l.text = Wipe /\ read(l)) \/ C!Joined(c.args, "command") = Wipe
     => tool = "write" \/ v.decision = "block"
  /\ Carries(c, Said) /\ tool # "shell" => v.tier \in {"red", "black"}
  /\ AtTop(c, Said) /\ tool = "fetch" => v.decision = "block"
  /\ (\E l \in c.args : l.text = Hidden /\ l.top = "command" /\ l.depth = 1)
     /\ tool # "write" /\ v.decision # "block" => v.gray
McpCallsAreSeen ==
  kind = "call" =>
    McpVerdictFits(text, C!mapMcpToAction(text.name, text.args).tool, VerdictOf(text),
                   C!guardToolUse(text.name, text.args, PolicyOf(text.file)))

(* cc-hook.mjs:16-35: a hook denies a wiping command of a shell or of a    *)
(* tool it does not know, in either field and as a string or in a list, a  *)
(* fetch of the metadata address, and a write or edit of a place that is   *)
(* run at start, by whatever name Claude Code gives the path; a key it     *)
(* writes is asked about at least, in strict mode and with no allow rule.  *)
HookAnswerFits(c, hook) ==
  LET at(f, t) == \E l \in c.args : l.top = f /\ l.text = t
      none(f) == \A l \in c.args : l.top # f
  IN /\ c.name \in {"bash", "mcp tool"} /\ (at("command", Wipe) \/ (at("cmd", Wipe) /\ none("command")))
          => hook = "deny"
     /\ c.name = "webfetch" /\ at("url", Imds) => hook = "deny"
     /\ \/ c.name \in {"write", "edit"} /\ at("file_path", Cron)
        \/ c.name \in {"write", "edit"} /\ at("path", Cron) /\ none("file_path")
        \/ c.name = "notebookedit" /\ at("notebook_path", Cron)
          => hook = "deny"
     /\ c.name = "write" /\ at("file_text", Key) /\ c.file = "empty" => hook # "defer"
HookCallsAreSeen ==
  kind = "hook" =>
    HookAnswerFits(text, H!verdictToHook(H!decide(H!ccToAction(text.name, text.args),
                                                  PolicyOf(text.file)), TRUE))

(* mcp.mjs:70-93, cc-hook.mjs:101-107: on both surfaces a dangerous call   *)
(* is caught by whatever name and whatever argument it comes under.        *)
CallsAreSeen == McpCallsAreSeen /\ HookCallsAreSeen

(* policy.mjs:73-99, index.mjs:51-53,115-147: a policy file that is no     *)
(* JSON, or whose rules are no list, pre-approves nothing and is the       *)
(* default; a deny rule blocks whatever the tool was called; a command     *)
(* that contacts a host off the list is red, however the shell would put   *)
(* the host together; dots do not lead a write out of its roots.  The      *)
(* policies of `init` (cli.mjs:15-50) are read back and mean what it says: *)
(* the project's remote and sources are open in the project's policy only. *)
PolicyFits(c, a, v, plain) ==
  LET at(f, ts) == \/ \E l \in c.args : l.top = f /\ l.depth = 1 /\ l.text \in ts
                   \/ C!Joined(c.args, f) \in ts
      only(ts) == {l.text : l \in c.args} \subseteq ts
  IN /\ c.file \in {"none", "allowText"} => v = plain
     /\ c.file = "allow" => plain.tier = v.tier /\ (v.tier = "black" => v.decision = "block")
     /\ c.file = "deny" /\ a.tool \in {"fetch", "delete"} => v.decision = "block"
     /\ c.file \in {"egress", "initGlobal"} /\ at("command", Contact) /\ a.tool \notin {"write", "fetch"} =>
          v.tier \in {"red", "black"}
     /\ c.file \in {"init", "initGlobal"} /\ a.tool = "shell" /\ at("command", {Sudo}) =>
          v.decision = "block" /\ Exit("check", a, Explicit[c.file]) = 1
     /\ \/ c.file = "init" /\ only(Contact)
        \/ c.file = "initGlobal" /\ only({W(<<"src/../a">>)})
          => v = plain
     /\ c.file \in {"roots", "init"} /\ a.tool = "write" /\ at("target", {W(<<"src/../a">>), Cron}) =>
          v.decision # "allow"
PolicyIsKept ==
  kind = "call" =>
    PolicyFits(text, C!mapMcpToAction(text.name, text.args), VerdictOf(text),
               VerdictOf([text EXCEPT !.file = "empty"]))
=============================================================================

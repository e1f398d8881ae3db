---------------------------------- MODULE Cli ----------------------------------
(***************************************************************************)
(* The commands of src/src/cli.mjs: `redstamp init` writes a policy,       *)
(* `redstamp check` decides by it, `redstamp scan-mcp` reads a manifest.   *)
(* A project is a record:                                                  *)
(*   dirs     its directories                                              *)
(*   remotes  the addresses of its git remotes, each a sequence of words   *)
(*            [word, host, next]: does it look like a host name, and the   *)
(*            character that follows it                                    *)
(*   files    its policy files, by name                                    *)
(***************************************************************************)
EXTENDS McpCall, TLC

BASE_EGRESS == {"api.anthropic.com", "registry.npmjs.org"}
SourceDirs == {"s", "d"}        \* src, docs and the others init looks for

(* The first word of an address that a colon or a slash follows.           *)
RemoteHost(url) ==
  LET at == {i \in DOMAIN url : url[i].host /\ url[i].next \in {":", "/"}}
  IN {url[i].word : i \in {j \in at : \A k \in at : j <= k}}

(* A global policy takes nothing from the project it was made in.          *)
buildInitPolicy(project, global) ==
  LET hosts == IF global THEN {} ELSE UNION {RemoteHost(u) : u \in project.remotes}
      roots == IF global THEN {} ELSE {<<d, "/">> : d \in project.dirs \intersect SourceDirs}
  IN [deny |-> P!List({[tool |-> "shell", glob |-> <<"sudo", "*">>]}),
      egressAllow |-> P!List(BASE_EGRESS \union hosts),
      writeRoots |-> IF roots = {} THEN P!Scalar({}) ELSE P!List(roots)]

(* The policy files after `redstamp init`: what it writes replaces what a  *)
(* later command would have read.                                          *)
GLOBAL_CONFIG == "~/.warden/config.json"
init(project, global) ==
  LET target == IF global THEN GLOBAL_CONFIG
                ELSE P!resolveConfig("", DOMAIN project.files)
  IN (target :> [json |-> TRUE, fields |-> buildInitPolicy(project, global)]) @@ project.files

(* The policy `redstamp check` uses: --policy, or the project's.           *)
policyFile(files, explicit) ==
  LET name == P!resolveConfig(explicit, DOMAIN files)
  IN IF name \in DOMAIN files THEN files[name] ELSE [json |-> FALSE]
exitCode(v) == IF v.decision = "block" THEN 1 ELSE 0
check(a, files, explicit) == exitCode(decide(a, P!loadPolicy(policyFile(files, explicit))))

(* The exit code of a command line: argv.args holds the action to check or *)
(* the manifest to scan, if one is given; `verified` is the answer of      *)
(* verifyCommand in AuditFile.  audit and init only print or write.        *)
main(argv, files, verified) ==
  LET given == argv.args # {}
      arg == CHOOSE x \in argv.args : TRUE
  IN CASE argv.cmd = "check" -> IF given THEN check(arg, files, argv.policy) ELSE 2
       [] argv.cmd = "scan-mcp" -> IF given THEN N!scanMcp(arg) ELSE 2
       [] argv.cmd = "verify" -> verified
       [] OTHER -> 0
=============================================================================

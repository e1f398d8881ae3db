# A formal model of redstamp

redstamp (formerly *warden*) stands between an AI agent and its tools. It
classifies each tool call, blocks it, holds it for approval or lets it run, and
writes a tamper-evident log of what it decided. This directory holds TLA+ models
of its run-time core, the TLC configurations that check them on small instances,
and proofs, checked by TLAPS, about its audit log, its verdicts, its guarded calls,
its taint session, its hook and daemon with their connections and their start, and
its proxy.

Paths such as `audit.mjs:130` are relative to `src/` of the repository
(`src/src/audit.mjs` from the directory above this one). `PROJECT.json` lists the
components, runs, mutants, findings, hazards and theorems, and maps each
definition to the source lines it stands for.

## 1. The system

### Components

| component | code | state | operations | modelled in |
|---|---|---|---|---|
| streaming audit | `audit.mjs` `ChainedFileAudit`, `chainStateOf`, `lastHashOf`, `writeCheckpoint`, `verifyAuditFile` | `audit.jsonl`, its `.chk` sidecar, `prev`, `count` | open, record, verify | `AuditFile`, `AuditTail`, `AuditChain`, `AuditLedger` |
| in-memory audit | `audit.mjs` `AuditLog` | `entries`, `prev` | record, verify, flush | `AuditLog` |
| invocation evidence | `audit.mjs` `invocationOf`, `cc-hook.mjs` `invocationRecord` | none; reads the log | say whether a decided call ran | `HookDaemon` |
| decision core | `index.mjs` `decide`, `check`, `checkAsync`, `applyJudge`, `recordVerdict` | none | read the evidence, decide, raise, record | `Decide`, `Verdict`, `VerdictSteps` |
| shell classifier | `classify.mjs:1-675` | none | tier of a command | `ShellRules`, `Shell` |
| shell egress | `classify.mjs:676-967` | none | hosts a command contacts | `Egress`, `EgressSteps` |
| scanners | `scan.mjs`; tool list and results in `mcp.mjs` | none | hosts, secrets, injected instructions | `Scan` |
| policy | `policy.mjs`, `withinRoots` | the loaded rules | find, load, normalise, match | `Policy`, `Matching`, `MatchingSteps` |
| guarded calls | `mcp.mjs` `mapMcpToAction`, `guardMcpCore`, `guardHandler`; `wrap.mjs` | one verdict object per call, the shared audit | map, judge, approve, run, scan the result | `McpCall`, `GuardedCalls` |
| judge tier | `judge.mjs` | none | answer with a tier, or nothing before its timeout | `Verdict`, `GuardedCalls`, `Connection` |
| cross-call taint | `taint.mjs` `TaintSession` | `taintedPaths`, `holdsSecret`, `calls` | check, reset | `TaintSession` |
| MCP proxy | `mcp-proxy.mjs`, `mcp-proxy-cli.mjs` | `state.pending`, the frame buffers, in-memory audit | frame, inspect a client line, inspect a server line, flush on exit | `Framer`, `McpProxy` |
| Claude Code hook | `cc-hook.mjs`, `client.mjs` | one process per event | map the call, ask the daemon, fall back, record | `HookCall`, `HookDaemon` |
| daemon | `daemon.mjs`, `daemon-cli.mjs` | connections and their buffers, policy, audit, `daemon.json` | start, serve, reload, clean up | `Connection`, `HookDaemon`, `DaemonStart` |
| native hook client | `native/warden-fast.go` | one process per event | find the daemon, relay a line, fall back | `FastHook` |
| command line | `cli.mjs` | none | write a policy, check an action, scan a manifest, verify and query the log | `Cli`, `AuditFile`, `GuardedCalls` |
| type declarations, arena, bench, demo, examples, fuzz, install | | | | not modelled |

### How they interact

A call enters by one of three ways: through a wrapped executor or MCP handler in
the agent's own process (`GuardedCalls`), through the stdio proxy between an MCP
client and a server (`McpProxy`), or through Claude Code's PreToolUse hook, node
or native, which asks a long-lived daemon over a socket and decides by itself if
there is none or it is slow (`HookDaemon`, `FastHook`). Each surface maps the
call to an action (`McpCall`, `HookCall`). `decide()` reads the evidence off the
action with the classifier, the egress walk, the scanners and the policy
(`Decide`) and weighs it (`Verdict`); its answer is then only ever raised: by the
scan of the leaves of an MCP call's arguments, by the judge, by what the session
did before (`TaintSession`). All write the chained log: in memory and flushed at
exit (`AuditLog`), or appended at once (`AuditChain`). The daemon and the hooks
that fall back share one file. Two daemons are kept apart only by `daemon.json`
(`DaemonStart`).

### What is hard

* The streaming log touches the disk twice per record, with a crash possible in
  between, and other processes append to the same file.
* A verdict object is changed after an `await`, with other calls in flight.
* A connection's data handler awaits the judge in the middle of its loop, while
  another handler of the same connection reads the same buffer, and the policy is
  replaced under both.
* The hook gives up on an answer that the daemon still computes and records.
* One answer may be recorded twice, late, or by another process than the one that
  acted on it, and `invocationOf` has to make sense of it.
* The native client reads a discovery file that may be of a daemon that is gone.
* The proxy matches answers to requests by id only.
* The taint session is brought up to date when a call is checked, not when it runs.
* A dozen findings assign or raise one tier, in the order of the code.
* The classifier undoes one disguise after another, each on what the last one left,
  and tells text that runs from text that is data.

`PROJECT.json` "hazards" names each such place by its line and the properties that
would catch it going wrong; the ones no property covers say why.

### What makes each component correct

* Audit: a log written by this code verifies at any moment; it holds every record
  whose append succeeded, in order; damage is caught; a checkpoint pins a prefix.
* Decision: more evidence never makes a verdict milder; allow rules clear no more
  than they matched; later tiers only raise.
* Classifier: no stack of disguises makes a command milder; what runs is
  classified and what is data is not.
* Egress and scanners: a host that is contacted is seen, and is internal by where it
  leads and not by how it is spelled; a description is critical if a clause of it
  instructs.
* Policy: a broken file allows nothing, a deny rule always blocks, dots do not lead
  out of the roots, `init` writes what `check` reads.
* Calls: whatever the tool is called and wherever in the arguments it sits, a
  dangerous value is caught.
* Guarded calls: what is logged is what was enforced; no interleaving lets a call
  run that the rules alone would have stopped; every call is answered.
* Taint: the session knows every file that holds secret-derived bytes.
* Proxy: frames are the lines of the stream; no poisoned content reaches the client
  unless its screening was turned off; log and enforcement agree.
* Connection: what the client is told of a call is what is on record; replies come
  in the order of the requests; every line is answered.
* Hook and daemon: evidence never says of a call what did not happen to it; the
  hook answers though the daemon does not.
* Start-up: unless one slips by the guard, one daemon writes the log, and hooks, node
  or native, find it or screen the call without it.

## 2. Modules

| module | models | state and actions |
|---|---|---|
| `AuditFile` | the log as `audit.mjs` reads and writes it | operators only: what the log says (`ChainStateOf`, `LinksHold`, `CheckpointHolds`, `VerifyAuditFile`), the loops that compute it (`StateLoop`, `ScanLoop`, `VerifyLoop`), `AppendLine`, `verifyCommand` |
| `AuditTail` | `lastHashOf`, the read of the tail in growing windows | operators only: `Usable`, the lines a window shows, and the loop over windows |
| `AuditLedger` | what the log promises, with no file, no hash and no crash | `Extend`, `MoveAnchor`, `LoseAnchor` |
| `AuditChain` | `ChainedFileAudit` over a file that outlives it | `Open`, `RecordAppend`, `RecordCheckpoint`; environment: `Crash`, `ForeignAppend`, `CheckpointFails`, `TornAppend`, `TailLoss` |
| `AuditFileProofs` | lemmas about any log, on disk or in memory, and about the loops that read it | section 5 |
| `VerdictProofs` | the theorems about `VerdictSteps`, `MatchingSteps` and `TaintSession` | section 5 |
| `AuditChainProofs`, `GuardedCallsProofs`, `HookDaemonProofs`, `ConnectionProofs`, `DaemonStartProofs`, `McpProxyProofs` | the theorems about the module of that name; in `GuardedCallsProofs` also about `EgressSteps`, in `McpProxyProofs` about `FramerSteps` and `ScanSteps` | section 5 |
| `AuditLog` | class `AuditLog` | operators over a sequence of entries |
| `ShellRules` | the rule tables of `classify.mjs` | sets of rules over words |
| `Shell` | `classify()`: decoders, quoting, prose, pipes, substitutions, bodies | operators over sequences of lexemes |
| `Egress` | `collectEgress`: the walk to each command that runs, its hosts | operators over sequences of words |
| `EgressSteps` | a command line as it is written | `AddWord`; which words the shell may run and where they go |
| `Scan` | hosts, secrets, injection phrases, `scanMcpTools`, `scanToolResult`, the exit code of `scan-mcp` | operators over sequences of words |
| `ScanSteps` | a host and a tool's description as they are written | `Label`, `Describe`; where a host leads and what a description instructs |
| `Matching` | `globMatch`, `normPath`, `withinRoots` | operators over a text; each loop a recursive function of the pieces |
| `MatchingSteps` | a glob and a path as they are written | `Write`; what a glob means and where a path leads |
| `Policy` | the policy file and its rules | operators |
| `Verdict` | the weighing in `decide`, the leaf scan, `applyJudge`, `escalate` | operators over a record of evidence |
| `VerdictSteps` | an action under one more piece of evidence after the other | `WorseBase`, `WorseSsrf`, `Found`, `WorseLeaf` |
| `Decide` | `decide()` from an action: reads the record of evidence | operators; composes `Shell`, `Egress`, `Scan`, `Policy`, `Verdict` |
| `McpCall`, `HookCall` | an MCP or Claude Code call on its way to a verdict | operators; extend `Decide` |
| `Cli` | `init` and `check` of the command line, and the exit code of every command that ends | operators; extend `McpCall` |
| `Framer` | `makeFramer` | operators over a text: the loop `Cut`, and `push` |
| `FramerSteps` | a framer behind a stream, cut into chunks in any way | `Chunk` |
| `GuardedCalls` | `guardHandler`, `guardExecutor`; `redstamp audit` as `queryAudit` | one `pc` per call; `Enter`, `Judged`, `Block`, `AskApproval`, `Grant`, `Deny`, `ApproverThrows`, `Run`, `Return` |
| `TaintSession` | `TaintSession` and the shell behind it | `Check`, `Reset`; external: `Execute` |
| `McpProxy` | the two inspectors with their options, `runProxy` | `ToolCall`, `OtherRequest`, `ServerAnswer`, `StrayAnswer`, `ServerRequest`, `Start`, `ServerExits`, `ProxyKilled` |
| `HookPromise` | what the hook promises of a call, with no daemon, no socket and no timeout | `Ask`, `Decide`, `Answer`, `RunTool`, `Report` |
| `HookDaemon` | the hooks, `daemonCheck`, the daemon's answers, `invocationOf` | per call: `Ask`, `DaemonReads`, `DaemonJudged`, `Receive`, `GiveUp`, `RunTool`, `PostAsk`, `DaemonRecordsInvoked`, `PostReceive`, `PostGiveUp`; `DaemonKilled`, `DaemonStarts` |
| `Connection` | `onConnection`, `onData`, the policy reload | per connection: `Connect`, `Send`, `Data`, `Close`, `AnswerOther`, `AnswerCall`, `JudgeAnswers`, `HandlerReturns`; `SaveBegins`, `SaveEnds`, `Reload` |
| `DaemonStart` | the start guard, the discovery file, the log each daemon chains | `Start`, `Publish`, `PublishFails`, `Record`, `Terminate`, `Kill` |
| `FastHook` | `warden-fast.go` over the daemons of `DaemonStart` | `Invoke`, `ReadInfo`, `Dial`, `Read`, `fallbackNode`, `NoNode`; the daemons: `DaemonStep`, `Reply` |
| `MC*` | instances: sets of values, the generation of evidence, texts and calls, reference definitions | |

`AuditChain` (through `AuditTail`), `DaemonStart` and `AuditLog` share `AuditFile`. `GuardedCalls` and
`McpProxy` use an instance of `AuditLog`. `GuardedCalls`, `TaintSession` and
`HookDaemon` extend `Verdict`, and so does `VerdictSteps`. `FastHook` extends `DaemonStart`, and a step of
either is a step of the composition. `AuditChain` implements `AuditLedger`,
and `HookDaemon` implements `HookPromise`.
`MCShell`, `MCCall` and `MCVerdict` extend one another: one
run writes inputs of every kind, and `kind` says of which. The evidence is that of
`VerdictSteps`, the streams are those of `FramerSteps`, the globs and paths those of
`MatchingSteps`, the command lines those of `EgressSteps` and the hosts and tools those
of `ScanSteps`, which stand apart because the others reach recursive operators.

### Abstractions

* **The hash** is ideal: the hash of a chain is the sequence of records it chains.
  Equality of hashes is equality of histories, as for a collision-free SHA-256.
* **A line** of the log is chained, foreign (JSON without hashes) or bad (text that
  does not parse). Bytes below that matter only in `AppendLine`: text appended to a
  file without a final newline continues its last line.
* **Atomicity** is JavaScript's: what runs between two awaits is one action. The
  exceptions are effects on the disk, which a crash can come between:
  `record()` is two actions. In `Connection` one handler's turn is several steps, one
  per line, and `turn` keeps every other handler and the reload out of it.
* **Commands** are sequences of lexemes: words, blanks, operators, assignments,
  uses of variables, brace lists, substitutions, quoted texts, comments, and words
  disguised in a named way. `Text` says what a regular expression reads of them, and
  each step of the decoder what it makes of them. A heredoc is an opening word, the
  lines of its body and the line of its delimiter. A rule names its words in order,
  what may lie between them and what must follow the last one; alternatives a rule
  does not tell apart share a word. Dropping a backslash joins the parts of a path
  or registry key (`Separated`) and does nothing to a word without a letter or slash
  (`NoLetters`), as `classify.mjs:616` does.
* **Texts and hosts** of the scanners are sequences of words and marks, each of a
  width, so that a gap spans as many characters at most as its pattern allows; a word
  counts nine characters with its blank. Where a hit begins is left out.
* **What a secret reaches** (`dirty` in `TaintSession`) is the ways the session
  undertakes to follow: the files a command writes that reads the secret, and the
  copies cp, mv and install make of them. A redirection (`cat p1 > p2`) is run and
  writes its target anew, and carries nothing on but the secret itself.
* **Globs, paths and frames** are sequences over a few characters; in `TaintSession`
  a file is one of a few names.
* **An argument** of a call is a leaf: its top-level field, its own key, its depth and
  its text. A tool's name is the set of hints in it.
* In `HookDaemon` a reply that was written is read by the hook if the hook has not
  given up; the answer of a daemon that is killed is lost. In `Connection` a reply on a
  destroyed socket is lost, and a line arrives in pieces, any number at a time.

Beside an operator or an action there may be a variant of it with a plausible bug
(a dropped guard, a missing reset); no specification uses it. `PROJECT.json`
"mutants" pairs each with the property that must fail if it took the other's place.

## 3. Runs

Run them here with `tlc -config X.cfg M`.

| run | module, cfg | what it shows | bounds |
|---|---|---|---|
| `audit_chain` | `AuditChain`, `AuditChain.cfg` | whole writes, crashes, unreadable checkpoints, foreign lines: the log verifies at every moment, implements the ledger, and damage is caught | 2 record values, 3 records, foreign lines up to 3 lines |
| `audit_faults` | `AuditChain`, `AuditFaults.cfg` | with torn appends and a lost tail too: a log that verifies is genuine, a broken chain is never mended, `lastHashOf` and `chainStateOf` find the same head | the same; lines of 1 and of 9 windows |
| `audit_torn` | `AuditChain`, `AuditTorn.cfg` | finding: a torn append breaks the chain for good | the same |
| `audit_loss` | `AuditChain`, `AuditLoss.cfg` | finding: a truncation is forgotten at the next record | the same |
| `verdict` | `MCVerdict`, `Verdict.cfg` | the path from a call to its verdict, over inputs of every kind (below) | below |
| `guarded` | `MCGuardedCalls`, `GuardedCalls.cfg` | two calls in flight, with and without a judge, on both surfaces; approvers and tools that throw | 8 kinds of verdict |
| `taint` | `TaintSession`, `Taint.cfg` | chains of copies by cp, mv and install within and across calls, redirections and overwriting in between, refusals, approvals, resets | 3 files (alike, by symmetry) and a secret one, 4 calls of up to 2 simple commands |
| `mcp_proxy` | `McpProxy`, `McpProxy.cfg` | blocks, reused ids, answers in any order and of any number, the server's own requests, every choice of the options | 2 ids, 3 requests |
| `mcp_proxy_ids` | `McpProxy`, `McpProxyIds.cfg` | finding, with every screen on: a server request with a pending id lets the answer through | 2 ids, 2 requests |
| `hook_daemon` | `MCHookDaemon`, `HookDaemon.cfg` | two calls with one id in two sessions, a daemon with a judge killed at any time, hooks that time out | 2 calls |
| `daemon_start` | `FastHook`, `DaemonStart.cfg` | daemons started at any moment, also together, killed, terminated or unable to write `daemon.json`, and a native hook that runs at any moment | 3 daemons, 3 lines of 1 record value, 1 hook |
| `connection` | `MCConnection`, `Connection.cfg` | pipelined requests, with and without a judge, a policy saved and reloaded meanwhile, the cap | 1 connection, 3 requests of 6 kinds, 1 save, 2 pieces buffered |

### The kinds of input of `verdict`

| kind | a state is | a step adds | bound | property |
|---|---|---|---|---|
| evidence | a record of what was found | one finding | all | `EvidenceNeverHelps`, `AllowRuleClearsNoMore`, `JudgeOnlyRaises` |
| globs, paths | a glob, or a path; subjects and roots are quantified over | a character | `MaxGlob` 6, `MaxPath` 6 | `GlobIsExact`, `RootsConfine` |
| commands | a command line | a word | `MaxWords` 5 | `EgressIsSeen` |
| frames | a stream and how it is cut | a character or a chunk | `MaxStream` 9, `MaxLine` 3, `MaxChunk` 5 | `FramesAreLines` |
| disguises | a rule of every table, and the layers its command is written in | a layer | all stacks of them | `DisguisesAreSeen` |
| contexts | a command and what carries it | | 5 commands, 21 contexts | `WhatRunsIsClassified` |
| hosts | an address or name and how it is spelled | a label | `MaxLabels` 3 | `SpellingsAgree` |
| tools | a name and a description | a word | `MaxPhrase` 4 | `InstructionsAreSeen` |
| calls | a tool name, a policy file, arguments, for MCP and for the hook | an argument, or an argv array of several words | `MaxArgs` 2 strings among the arguments under the policy files `Paired`, 1 under the others | `CallsAreSeen`, `PolicyIsKept` |

Each property compares what the code computes with a definition of what it is for,
written without the code's method: a glob with the words it stands for, the egress
walk with the command that a reader of the shell grammar finds, a host with where it
leads, a disguised command with the plain one.

### Why the bounds are enough

* The audit properties relate a line to its predecessor and a checkpoint to the
  line it names; three records give a first, a middle and a last one and a
  checkpoint that is behind. Two record values let an edit differ from the
  original. The theorems of section 5, about these properties and those of other
  modules, hold without these bounds.
* `decide` has finitely many kinds of evidence and the run enumerates all of them.
* Calls of `GuardedCalls` share only the log and calls of `HookDaemon` only the
  records that join on an id; two of each give every pairwise interference.
* In the taint run a secret passes over three hops (`Secret` to `p1` to `p2` to `p3`),
  one more than a copy of a copy, and is then sent, in one call or in four.
* In the proxy run a reuse of an id needs two requests, and three let another one
  be pending meanwhile.
* Handlers of different connections share only the policy, which one connection
  and the watcher exercise, and the log, to which each appends in one step. Three
  requests let one be at the judge, one be decided meanwhile and one be in the buffer;
  two pieces let a line be incomplete, and a third is over the cap. One save is two
  watch events, at a half written and a whole file.
* Globs of six characters have up to three segments, which is where an overlap of
  neighbouring segments or a wrong commitment shows. Commands of five words have a
  wrapper with an option, a client and a flag with its value; the eight words a
  wrapper's options may take (`REACH`) are not reached here, only by the theorem
  `EgressSeen`, which is about lines of up to sixteen words.
* Limits of the code that no input here reaches, and that are therefore not in the
  models: 64 hosts and 16384 characters in the egress walk (`classify.mjs:810`, `944`,
  `961`; no word adds more than four hosts, so that sixteen words stay within them), 64
  leaves of a command or of arguments (`classify.mjs:652`, `mcp.mjs:57`), 65536
  characters of a scanned input (`index.mjs:60`).
* Nine characters give a frame over the cap of three, its end in a later chunk and
  whole lines before and behind it.
* A phrase of four words holds a three-word instruction and something that parts it: a
  full stop, a line break, or an aside (85 characters with its blanks) that puts a
  destination out of reach of a theft (60) or a file out of reach of its reading (80)
  but not a destination out of reach of a file (100).
  A name of three labels has a first, a last and a middle one.
* Two arguments give a payload with a decoy that the mapping may prefer, and a
  secret with a destination.
* Three daemons give a predecessor that was killed, one that ended by itself, and a
  successor that the hook reaches with the file of either; or two that slipped by the
  guard and one after them.

### Deadlock

`CHECK_DEADLOCK FALSE` stands where the modelled activity ends: all calls are
answered, all processes gone, the client has sent what it may, the text is at its
bound. In `AuditChain` the writer can always be opened or killed, so deadlock is
checked there.

### Fairness

* `GuardedCalls`: weak fairness of each call's steps. The judge aborts at its
  timeout (`judge.mjs:35`); that approvers and tools return is assumed.
* `HookDaemon`: weak fairness of a hook's own steps only. `daemonCheck` has a
  connect and a read timer (`client.mjs:39-52`), so `GiveUp` stays enabled until the
  hook has answered. Nothing is assumed of the daemon, the judge, the tool, the user.
* `FastHook`: weak fairness of the hook's steps only; the dial and the read have
  deadlines. Nothing is assumed of the daemons.
* `Connection`: the event loop runs a handler to its end, data that arrived, the
  judge's answer or timeout (8 s, less than the 30 s after which an idle socket is
  destroyed), and a watch event; a write of the policy file that was begun ends.
  Nothing makes a client send, wait or close.
* No other specification has or needs fairness.

## 4. Findings

Three runs end in a counterexample to something the repository says:

* `audit_torn`: `audit.mjs:113` says the chain survives restarts. An append cut
  short leaves a line without a newline, the next record continues that line, and
  the log never verifies again.
* `audit_loss`: `SECURITY.md:26` and `audit.mjs:78` say truncation is caught when a
  checkpoint is present. The constructor does not compare the log with the
  checkpoint and the next record overwrites it.
* `mcp_proxy_ids`: `docs/mcp.md:35` says injected content is neutralized on every
  channel. With `strip` and `scanResults` on, a server request with the id of a pending
  client request makes the proxy forget the method that the answer is screened by.

The runs above stay inside limits where their properties hold. What lies outside:

* `McpProxy` with `MaxSessions = 2`: two sessions flushed to one `--audit` file, which
  `docs/mcp.md:39` calls hash-chained, do not verify. Every session starts at GENESIS
  and appends.
* `FastHook` with `SamePort = TRUE`: a native hook that read one daemon's token and
  reaches its successor on the same fixed port gets an empty line and relays it as a
  deferral, unscreened. The comment at `daemon.mjs:92-94` says that the hook falls back.
* `copyPairs` (`taint.mjs:56-63`) follows cp, mv and install, not `cat p1 > p2`, while
  `docs/taint-and-judge.md:7` says "any copy of it": a tainted file that is copied by a
  redirection and sent is let through. `dirty` does not count such a copy, so that the
  properties about taint say nothing of it.
* `TaintSession` with `Shells = 2` violates it too: a copy checked before the secret
  landed in its source, and run after, is not followed. The model therefore assumes
  an agent that runs one call at a time.
* `holdsSecret` (`taint.mjs:76`, "a secret was read to stdout/memory") stays false
  for a command that prints a secret and also writes some file (`110-114`).
* A verdict record without a tool_use_id reads as "not-invoked" if it says blocked
  (`audit.mjs:224`), also where the daemon's judge wrote it after the hook had given
  up and let the call run. `EvidenceIsTrue` is about records with an id.
* A daemon that starts while another is starting passes the guard, since `daemon.json`
  is written only when the listener is up; so does one that starts while a daemon serves
  that could not write that file (`daemon.mjs:158-161` logs that and goes on). Both then
  chain the log from the same head, and the first to end removes the other's
  `daemon.json` (`daemon.mjs:152`; compare the comment at 174). `DaemonStart` takes
  these steps and its history `slip` notes them: while such a daemon may be alive the
  properties of start-up ask for nothing, and afterwards for one writer again, at the
  head of what was left. Pids are never reused in the model: the guard takes any live
  process for the daemon (`daemon-cli.mjs:31`).
* With a judge and a client that does not wait, replies may come out of the order of
  the requests (`RepliesInOrder` is about the other cases); the clients of this
  repository send one request per connection.
* While the policy file is being written, a reload may find it half written and the
  default stands in, deny rules included; `PolicySettles` says that this ends.
* The JSON value `null` is outside three models because it throws where nothing
  catches: as a foreign line in `chainStateOf` (`audit.mjs:104`), as a request in the
  daemon's handler (`daemon.mjs:90`), as an entry of a tool list in the proxy
  (`mcp-proxy.mjs:78`).
* `withinRoots` with a root that climbs (`..`) takes `../..` to be inside it
  (`index.mjs:38-44`; compare the comment at 24-25). `RootsConfine` leaves climbing
  roots out.
* The walk over a command's words follows the first `-exec` of a find only, and looks
  no more than eight words behind a wrapper for the command (`classify.mjs:830-832`).
  `EgressSteps` writes up to `REACH` words before the first command.
* Of the rules that ask for the end of a root or home (`classify.mjs:140`), a further line
  behind `rm -rf /`, like the delimiter of a heredoc that is piped to a shell, leaves the
  command red where it is black by itself; `WhatRunsIsClassified` asks for red there.
* The copy of a command without its backslashes (`classify.mjs:616`) drops those before
  letters and slashes only, and all of them: `setenforce \0` and `iptables \-F` keep
  theirs, `r\eg add HKCU\...\Run` loses those of its key too, and each is milder than the
  plain command. `DisguisesAreSeen` hides no word without a letter behind a backslash, and
  nothing behind one in a command whose rule reads separators.
* Of what the server sends, `McpProxy` has requests, answers, also to ids that were
  answered before or never, and nothing else: a line that does not parse passes
  unread, and a batch array passes unscreened as it has no id of its own
  (`mcp-proxy.mjs:69-70`).
* `URL_RE` (`scan.mjs:198`) ends a host at a slash or white space, so that the query of
  `http://host?query` belongs to the host; such a host is external.

## 5. Proofs

Each theorem holds for every value of the constants: any sets of records, calls,
connections, daemons or ids, any bound, any length of the log. A theorem about a
property that a run checks shows it beyond the instance of that run.

| theorem | statement | assumes |
|---|---|---|
| `AuditChainProofs!TypeCorrect` | `Spec => []TypeOK` | nothing: all faults included |
| `AuditChainProofs!ChainVerifies` | `Spec => []ChainSurvives`: the log verifies against its checkpoint in every state | whole writes |
| `AuditChainProofs!WriterIsAtHead` | `Spec => []WriterAtHead` | whole writes |
| `AuditChainProofs!LogIsComplete` | `Spec => []NothingLost` | whole writes |
| `AuditChainProofs!ImplementsLedger` | `Spec => LedgerSpec`: the file refines the ledger | whole writes |
| `AuditChainProofs!BrokenStaysBroken` | `Spec => AlarmSticks` | nothing: all faults included |
| `AuditChainProofs!VerifiedWasRecorded` | `Spec => []VerifiedIsGenuine` | nothing: all faults included |
| `AuditChainProofs!TailsAgree` | `Spec => []TailReadAgrees` | nothing: all faults included |
| `AuditChainProofs!CheckpointsPin` | `Spec => []CheckpointPins`, a part of `VerifyIsRight` | whole writes |
| `AuditChainProofs!DamageIsFound` | `Spec => []DamageCaught`, a part of `VerifyIsRight` | whole writes |
| `AuditChainProofs!LoopsAreRight` | `Spec => []VerifyIsTheLoop`, a part of `VerifyIsRight` | nothing: all faults included |
| `AuditChainProofs!VerifyTells` | `Spec => []VerifyIsRight` | whole writes |
| `AuditChainProofs!ForeignLinesPass` | `Spec => []ForeignLinesHarmless`, a part of `VerifyIsRight` | nothing: all faults included |
| `VerdictProofs!MoreEvidenceNeverHelps` | `EvidenceSpec => EvidenceNeverHelps` | nothing |
| `VerdictProofs!AllowClearsNoMore` | `EvidenceSpec => []AllowRuleClearsNoMore` | nothing |
| `VerdictProofs!JudgeRaises` | `EvidenceSpec => []JudgeOnlyRaises` | nothing |
| `VerdictProofs!GlobsMean` | `WrittenSpec => []GlobIsExact` | nothing |
| `VerdictProofs!RootsKept` | `WrittenSpec => []RootsConfine` | nothing |
| `VerdictProofs!SessionInvariant` | `Spec => []SInv`: what a session knows is ahead of what its shell will do | one shell |
| `VerdictProofs!TaintCovers` | `Spec => []TaintCoversDirty` | one shell |
| `VerdictProofs!SessionLeaksNothing` | `Spec => []NothingLeaks` | one shell |
| `GuardedCallsProofs!NeverMilder` | `Spec => []NeverMilderThanRules` | nothing |
| `GuardedCallsProofs!LogSaysWhatWasDone` | `Spec => []AuditIsWhatWasDone` | nothing |
| `GuardedCallsProofs!EgressSeen` | `LineSpec => []EgressIsSeen` | nothing |
| `HookDaemonProofs!KeepsPromise` | `Spec => PromiseKept`: hooks and daemons refine `HookPromise` | nothing |
| `HookDaemonProofs!WhoeverDecided` | `Spec => []AnswerStands`: the rules stand, the answer is on file | nothing |
| `HookDaemonProofs!EvidenceStands` | `Spec => []EvidenceIsTrue` | nothing |
| `HookDaemonProofs!CompleteWindowTells` | `Spec => []CompleteWindowDecides` | nothing |
| `ConnectionProofs!WhatIsToldIsRecorded` | `Spec => []ToldIsRecorded` | nothing |
| `ConnectionProofs!RepliesInTurn` | `Spec => []RepliesInOrder` | nothing |
| `DaemonStartProofs!OneWriter` | `FastSpec => []OneWriterOneChain` | nothing |
| `DaemonStartProofs!ServingFound` | `FastSpec => []ServingIsFound` | nothing |
| `DaemonStartProofs!HookScreens` | `FastSpec => []ScreenedOrAlone` | `~SamePort` |
| `McpProxyProofs!ClientIsScreened` | `Spec => []NothingPoisonedDelivered` | `ApartIds` |
| `McpProxyProofs!LogAgreesWithServer` | `Spec => []AuditSaysWhatWasDone` | nothing |
| `McpProxyProofs!FramerGivesLines` | `StreamSpec => []FramesAreLines` | nothing |
| `McpProxyProofs!SpellingsHold` | `ScanSpec => []SpellingsAgree` | nothing |
| `McpProxyProofs!InstructionsSeen` | `ScanSpec => []InstructionsAreSeen` | nothing |

"Nothing" is nothing beyond the named assumptions of the module on its constants,
which every run evaluates. The other assumptions are those that section 4 shows to
be needed:

* whole writes is `"torn" \notin Faults /\ "loss" \notin Faults`; crashes, restarts,
  foreign lines and unreadable checkpoints remain (`audit_torn`, `audit_loss`);
* one shell is `Shells = 1`: an agent runs one call at a time;
* `~SamePort`: no daemon takes over the port of an earlier one;
* `ApartIds`: the server's ids and the client's do not meet (`mcp_proxy_ids`).

### The arguments

Each proof has `Init => Inv`, one step per action of `Next`, and `Inv => Property`. None
of the properties is inductive; what each invariant adds is this.

* `AuditChain` (`IInv`). That the next record chains correctly needs the writer's
  `prev` to be the head of the file; that the checkpoint written afterwards verifies
  needs `count` to be the number of chained lines; that an old checkpoint still
  verifies after an append needs the record it names to be in the file, by number
  and hash. So: the file ends in a newline, its links hold, its last chained line
  commits to `logged`, it has `Len(logged)` chained lines, a running writer's memory is
  `logged` and its length, and every checkpoint is `Anchored`.
* `AlarmSticks` needs types only: an append leaves every earlier link as it was, and
  where it continues an unfinished last line, the result does not parse. The loss of
  a tail, which can take the break with it, is excepted in the property.
* `VerifiedIsGenuine` (`Genuine`). A torn append can break the file and a lost tail can
  make it verify again, so that nothing is inductive about the whole file: the
  invariant speaks of every part of the file from its start. If the links of such a
  part hold, its head is a subsequence of what was asked for.
* `CheckpointPins` and `DamageCaught` (`Numbered`, beside `IInv`). The k-th chained line
  commits to the first k records. So no two chained lines follow the same hash, and a
  line whose predecessor is gone, stripped or elsewhere no longer follows the running
  head; a checkpoint's hash has the length of its count, so that a shorter log has no
  line for it, and one that was computed anew has the same records up to there.
* `ForeignLinesHarmless` holds of any sequence of lines: what is behind the new line
  moves up by one, so that the chained lines correspond one to one, each with the
  same running head before it and the same number.
* `AuditFileProofs` has the lemmas about one log that the proofs about `AuditChain` and
  `DaemonStart` share: what an append does to the set of chained lines, to the running
  head, to the links and to the anchor. That a last chained line exists is by the
  finiteness of the set of chained lines. The lemmas about `AuditLog`, for
  `GuardedCalls` and `McpProxy`, are instances of them.
* The loops (`VerifyIsTheLoop`) carry a record from line to line. The state after `i`
  lines is what the declarative definition says of the first `i` lines, by induction on
  `i`: the hash is the last chained line's, the count the number of chained lines, `ok`
  as long as every link so far holds. The last state, and the comparison with the
  checkpoint after it, are then `ChainStateOf` and `VerifyAuditFile`. `VerifyTells` puts
  the four parts of `VerifyIsRight` together.
* `TailReadAgrees`, for lines of any length: a window shows the last lines of the file, so
  that if it shows a chained one it shows the last chained one; and as each window is eight
  times the one before, one of them shows a chained line or is the whole file. That is an
  induction on how much of the file is not read yet. It holds of any sequence of lines.
* `EvidenceNeverHelps`: the tier of an action is the worst of what its findings ask for,
  and a decision rises with the tier under the same rules; each step adds to the
  findings. `AllowRuleClearsNoMore` and `JudgeOnlyRaises` are cases on the tier, the
  rules that match and the answer, for any evidence of the types that `EvidenceNext` keeps.
  `Init` and `Next` of `MCVerdict` imply those of `EvidenceSpec`.
* `GlobIsExact`, for texts of any length. What a beginning of a glob may have stood for is a
  set of places in the subject, and a star makes of such a set all places behind its first
  one. So, segment by segment, the places at which the glob read so far may end are those
  from `idx` on, at the end of a segment's occurrence: the first occurrence loses
  nothing, which is why the scan need not go back. Only the last segment is held to the
  end of the subject, and there `endsWith` and the length say that `idx` is not beyond it.
* `RootsConfine`, for paths of any length. `split` undoes `join` on names without a slash, so
  that a normalised path has the names that the walk over it kept; none of them is empty
  or `.`, and a `..` is only at the front of a relative path. Those names lead to where the
  path leads, from any working directory, since each `..` that the walk resolves takes
  away the name it would leave. A target that is the root or begins with it and a slash
  has the root's names first, and no `..` behind them unless the root climbs. Conversely
  the names of an absolute path are where it leads.
* The loops of both are recursive functions over a sequence. The library's induction
  theorems take operators, which no prover here can instantiate; instead, `AuditFileProofs`
  has induction over the elements of a sequence for a set of sequences (`SeqInduction`),
  a loop as a function of its body and its sequence (`Run`), that a trace which
  follows the body is that loop (`RunUnique`), that it unrolls at the end (`Unrolls`)
  and that it can be cut in two (`RunAppend`). The statement to prove is put as such a set.
* `TaintSession` (`SInv`). That a file which holds the secret is tainted is true between
  calls only: in the middle of a command the session is ahead of the shell. The
  invariant says by how much: through what the shell has left to run there is a
  growing set of files for each simple command, that starts with what is dirty, follows
  every way a secret is followed and ends within what is tainted; and a command under way that sends
  something names nothing dirty. `check` gives the first such sets, one simple command
  takes the first of them off, and when none is left the sets are those of the property.
* `GuardedCalls` (`GInv`, `LInv`). What ran was allowed, or held and granted, by the
  verdict the call now has, and that verdict is at least the rules': `applyJudge`
  changes it between the two. For the log: its lines chain, a call has an entry exactly
  once it is decided, and the entry is of the verdict that is acted on, which no later
  step changes; so a refusal says what the entry says, and what `redstamp audit` lists
  of a decision is the calls that got it.
* `HookDaemon` (`HInv`). A request that was answered and an answer that was acted on
  are no milder than the rules and on file, also when it was the fallback that acted.
  Records of runs are only of calls that ran, with their result, because the post
  hook and its request exist only after the run. `EvidenceIsTrue` follows as two
  verdicts of one call with different marks are a conflict. `CompleteWindowDecides`
  needs the converse (`FInv`): a post hook that is done has run and is on file.
  That the hooks keep what `HookPromise` says (`KInv`) needs two things more: only a call
  that was asked about has a request, and only one with an id is reported. A record of a
  verdict is then a step of the book of decisions, of a run one of the book of runs; an
  answer that is received is in the book already, the fallback's is booked with it; and a
  killed daemon, a lost request and a late start change nothing that was promised.
* `Connection` (`CInv`). Nothing is recorded twice because the ends of lines that are
  still in the buffer or on the wire are in the order of the requests and belong to
  requests that are neither recorded nor at the judge; what is at the judge is not
  recorded; each reply to a call has its record, with the reply that the record's
  mark stands for. The policy does not enter: a call that waits for the judge keeps
  the decision it was read under. For the order of the replies (`RInv`): while a
  connection of a patient client or of a daemon without a judge lasts, what is in the
  buffer, on the wire or at the judge is exactly what is sent and not answered, and
  only the next request due can be at the judge; so the line that is read next, which
  `CInv` has as the first of those, is the next one due.
* `DaemonStart` (`DInv`, `HInv`). Unless a daemon that slipped by may be alive, one at
  most is, its `prev` is the head of the file, and if it serves, the discovery file is its
  own; a successor passes the guard only when it is gone, unless it is itself not
  published yet, and then the successor is one that slips by. The links hold as long as
  none has. The hook's peer is the daemon whose token it read, or nobody.
* `McpProxy` (`PInv`). A request the server still has is remembered under its own
  method and no other one has its id, so that its answer is screened by that method.
  For the log (`AInv`) ids do not matter: a call has an entry when it is asked for and
  not again, the entry says `forwarded` exactly when the server was sent the call, and
  the file of a single session is empty, gone or the log.
* `FramesAreLines` (`Fits`). At each character of a chunk, the lines that came out and what
  is kept are the lines of what was sent up to there and its unfinished last line, each
  without a beginning that the bound made it lose. A push carries on from the kept text as
  if it had begun with it (`PushFits`), because a text that is continued keeps its lines,
  and its last one grows; only a line that is over the bound already loses what is kept.
* `EgressIsSeen`, for command lines of up to sixteen words (`LineOK`); the proof does
  not use the bound, which keeps the line within the walk's own limits. A line has one
  simple command, or two of which the second is without wrappers, and what is before the
  first command word is short enough for the walk. The walk stops at that word exactly
  if the shell may run it: the set of places the walk can stand on contains the first
  word and is closed under what leads on. No word behind it may run, for nothing leads
  past a command. How the arguments are read is shown from the last one backwards: for
  each place, what is read from there on covers what is contacted from there on, if no
  flag before it takes that place for its value; git's flags are skipped forwards. What
  a shell reads as its command and what a substitution holds are plain words, so that
  the two levels of `Contacts` are followed one by one, each with the lemma about a line
  for the level below. The readers are recursive functions over the places of a
  sequence; `Recursion` shows that such a function exists.
* `SpellingsAgree`, for names of any number of labels. What `Bare` takes off a written host
  is what was put around its name: the user with its colon, the brackets, the port. What is
  left of several labels has them at its odd places and a dot between them, so that it is
  no number, no bracketed address and no single internal label, and the last label, with or
  without a dot behind it, decides. A single label is one of finitely many.
* `InstructionsAreSeen`, for a name and a description of any length. A phrase of two or
  three words is in a text exactly if there are such places in it with the gap that the
  phrase allows between them, of its kind and no longer than it may be; for these
  lengths the recursive function `Says` unrolls. The words of `ScanSteps` can say two of
  the phrases of `INJECTION_RE` and the one about a credential file, and none of them
  meets the punctuation of the JSON around them. So what is found in the text of a tool
  has all its places in the description, where the name is blanked, and each clause of
  the description is a clause of the text; between two places in it the text and the
  description are the same words (`Agree`), so that the gap is of the same length in
  both (`SameStretch`).

### What stays with TLC

* Liveness under fairness (`EveryCallAnswered`, `HookAnswers`, `EveryRunIsRecorded`,
  `FastHookEnds`, `EveryLineIsAnswered`, `PolicySettles`), which the prover does not
  reach, like anything with ENABLED.
* What is stated with RECURSIVE operators, which no module with a theorem may reach
  (`Shell` and what extends it): that the classifier agrees with its reference
  definitions (`DisguisesAreSeen`, `WhatRunsIsClassified`), and the properties of the way
  from a call to its evidence (`CallsAreSeen`, `PolicyIsKept`). These are inductions over
  data or finite tables, and are checked over the bounded inputs of section 3.

## 6. Not modelled

* The judge's HTTP exchange and its prompt: any tier may be the answer.
* What the commands of the CLI print, and `serve`, which runs the daemon. Their exit
  codes, the entries `audit` lists and what `verify` finds are modelled.
* Characters below the level of a word in the classifier and the scanners: each
  alternative of a pattern, the offsets of hits, how quoted text
  is split into words for the egress walk. The patterns are data; what is modelled is
  the order in which they are applied and what each stage leaves for the next.
* `nameMap` and `onBlock`, which a caller of the guarded handler may give.
* The text a caller may give as `skillText`: a piece of evidence in
  `Verdict`, which no modelled surface gives.
* A hook payload that does not parse, and one that standard input had not finished
  after 2.5 s (`cc-hook.mjs:59-67`): the node hook defers at once.
* Type declarations, arena, bench, demo, examples, fuzz targets and install files:
  nothing that runs with the system.

## 7. Plan

Done: the audit chain, the decision path from a call to its verdict, guarded calls,
taint, proxy with its framer, hook, daemon and its connections, daemon start and the
native client, and the theorems of section 5.

What remains is the recursion of `Shell` as a recursive function, with the depth of the
nesting as an argument as `Egress` has it, so that `WhatRunsIsClassified` comes within
the prover's reach.

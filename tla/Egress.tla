-------------------------------- MODULE Egress --------------------------------
(***************************************************************************)
(* shellEgressHosts() and shellEgressUnresolved() of                       *)
(* src/src/classify.mjs on a command line: which words are the commands    *)
(* that run, and which hosts their arguments name.  The words are told     *)
(* apart by what the walk does with them: one that was quoted stands for   *)
(* the words it holds when a shell reads it, one with a substitution for   *)
(* the command in it.  The line is one that the walk's own limits (64      *)
(* hosts noted, 16384 characters of text) do not cut.                      *)
(***************************************************************************)
EXTENDS Integers, Sequences, FiniteSets, SequencesExt

CLIENTS == {"curl", "wget", "http"}
DOWNLOADERS == {"iwr", "aria2c", "certutil"}
SHELLS == {"bash"}
WRAPPERS == {"sudo", "xargs"}
Commands == CLIENTS \union DOWNLOADERS \union SHELLS \union {"git"}

(* A bare name, an address with a scheme, git's user@host:path.            *)
Host == [h1 |-> "h1", url2 |-> "h2", scp3 |-> "h3"]
Url(w)  == IF w = "url2" THEN {Host[w]} ELSE {}
Dest(w) == IF w \in {"h1", "url2"} THEN {Host[w]} ELSE {}
Repo(w) == IF w \in {"url2", "scp3"} THEN {Host[w]} ELSE {}
Quoted == [quoted |-> <<"curl", "-s", "h1">>]
Subst  == [sub |-> <<"wget", "url2">>]
Dynamic(w) == w = "$dyn" \/ w \in DOMAIN Subst

(* values: flags that take the next word; destFlags: its word is a host;   *)
(* overrides: the host no longer says where the request goes.              *)
Values(c) == CASE c \in {"curl", "wget", "http", "aria2c"} -> {"-o"}
               [] c = "iwr" -> {"-outfile"} [] c = "git" -> {"--depth"}
               [] OTHER -> {}
DestFlags(c) == CASE c \in {"curl", "http", "aria2c"} -> {"--proxy"}
                  [] c = "iwr" -> {"-uri"} [] OTHER -> {}
Overrides(c) == IF c = "curl" THEN {"--resolve"} ELSE {}
FirstOnly(c) == c \in {"http", "iwr", "certutil"}
Verbs == {"-urlcache"}               \* certutil's netVerbs
GIT_NET == {"clone", "fetch"}
Flags == {"-s", "-o", "--proxy", "--resolve", "-outfile", "-uri", "--depth", "-C",
          "-urlcache", "-c"}

(* The simple commands of a line: what is between two ends.                *)
shellCommands(line) ==
  LET ends == {0, Len(line) + 1} \union {i \in DOMAIN line : line[i] = ";"}
      next(i) == {j \in ends : j > i + 1 /\ \A m \in i + 1 .. j - 1 : m \notin ends}
  IN UNION {{SubSeq(line, i + 1, j - 1) : j \in next(i)} : i \in ends}

REACH == 8            \* how far behind a wrapper the command is looked for
Nearest(S) == CHOOSE i \in S : \A j \in S : i <= j

(* Faulty variant: the first word is the command, keyword or not.          *)
CommandAtStart(words) == [k |-> 1, xargs |-> FALSE]

(* k: the word the walk stops at; xargs: it came by one.                   *)
CommandAt(words) ==
  LET n == Len(words)
      execs(k) == {i \in k + 1 .. n - 1 : words[i] = "-exec"}
      named(k) == {j \in k + 1 .. n : j <= k + REACH /\ words[j] \in Commands \union WRAPPERS}
      walk[k \in 1 .. n + 1] ==
        IF k > n THEN [k |-> k, xargs |-> FALSE]
        ELSE IF words[k] = "if" THEN walk[k + 1]
        ELSE IF words[k] = "find" /\ execs(k) # {} THEN walk[Nearest(execs(k)) + 1]
        ELSE IF words[k] \in WRAPPERS
          THEN LET r == walk[IF named(k) = {} THEN k + 1 ELSE Nearest(named(k))]
               IN [k |-> r.k, xargs |-> r.xargs \/ words[k] = "xargs"]
        ELSE [k |-> k, xargs |-> FALSE]
  IN walk[1]

None == [hosts |-> {}, unresolved |-> FALSE]
And(r, hosts, unresolved) ==
  [hosts |-> r.hosts \union hosts, unresolved |-> r.unresolved \/ unresolved]

(* curl, wget and httpie: one argument after the other, a flag may take    *)
(* the next one with it.                                                   *)
ReadClient(c, args) ==
  LET n == Len(args)
      at(a, r) == And(r, Dest(args[a]), Dynamic(args[a]))
      read[a \in 1 .. n + 2] ==
        IF a > n THEN None
        ELSE IF args[a] \in Overrides(c) THEN And(read[a + 2], {}, TRUE)
        ELSE IF args[a] \in DestFlags(c) THEN IF a = n THEN None ELSE at(a + 1, read[a + 2])
        ELSE IF args[a] \in Values(c) THEN read[a + 2]
        ELSE IF args[a] \in Flags THEN read[a + 1]
        ELSE IF FirstOnly(c) /\ args[a] = "POST" THEN read[a + 1]
        ELSE at(a, IF FirstOnly(c) THEN None ELSE read[a + 1])
  IN read[1]

(* The first argument from each one on that is no flag, nor what a flag in *)
(* takes has behind it.                                                    *)
Past(args, takes) ==
  LET n == Len(args)
      past[a \in 1 .. n + 2] == IF a > n \/ args[a] \notin Flags THEN a
                                ELSE past[IF args[a] \in takes THEN a + 2 ELSE a + 1]
  IN past

(* git contacts a host under a network subcommand only: any address or     *)
(* remote among its arguments, and the repository is the first positional. *)
ReadGit(args) ==
  LET n == Len(args)
      v == Past(args, {"-C"})[1]
      r == Past(args, Values("git"))[v + 1]
  IN IF v > n \/ args[v] \notin GIT_NET THEN None
     ELSE [hosts |-> UNION {Repo(args[a]) : a \in v + 1 .. n},
           unresolved |-> r <= n /\ Dynamic(args[r])]

(* The download clients: an address with a scheme counts anywhere, a bare  *)
(* name where a destination may stand.                                     *)
ReadDownload(c, args) ==
  LET n == Len(args)
      bare == c # "certutil" \/ \E a \in DOMAIN args : args[a] \in Verbs
      read[a \in 1 .. n + 2] ==
        [seen \in BOOLEAN |->
           IF a > n THEN None
           ELSE IF args[a] \in DestFlags(c)
             THEN IF a = n THEN None
                  ELSE And(read[a + 2][seen], Dest(args[a + 1]), Dynamic(args[a + 1]))
           ELSE IF args[a] \in Values(c) /\ a < n THEN And(read[a + 2][seen], Url(args[a + 1]), FALSE)
           ELSE IF args[a] \in Flags THEN read[a + 1][seen]
           ELSE IF FirstOnly(c) /\ seen THEN And(read[a + 1][seen], Url(args[a]), FALSE)
           ELSE IF Url(args[a]) # {} \/ ~bare THEN And(read[a + 1][TRUE], Url(args[a]), FALSE)
           ELSE And(read[a + 1][TRUE], Dest(args[a]), Dynamic(args[a]))]
  IN read[1][FALSE]

(* What a shell reads as its command: its arguments but the flags, joined. *)
Body(args) ==
  FlattenSeq([a \in DOMAIN args |-> IF args[a] \in Flags \ {"--proxy", "--resolve", "--depth"}
                                      THEN << >>
                                    ELSE IF args[a] \in DOMAIN Quoted THEN Quoted[args[a]]
                                    ELSE <<args[a]>>])

(* The words of a simple command that a shell in it reads as its command.  *)
BodyOf(words) ==
  LET k == CommandAt(words).k
  IN IF k <= Len(words) /\ words[k] \in SHELLS THEN Body(SubSeq(words, k + 1, Len(words)))
     ELSE << >>

(* What the command itself names; body: what its body does.                *)
OwnEgress(words, body) ==
  LET at == CommandAt(words)
      name == words[at.k]
      args == SubSeq(words, at.k + 1, Len(words))
  IN IF at.k > Len(words) \/ name \notin Commands THEN None
     ELSE IF name \in SHELLS THEN body
     ELSE And(IF name \in CLIENTS THEN ReadClient(name, args)
              ELSE IF name = "git" THEN ReadGit(args) ELSE ReadDownload(name, args),
              {}, at.xargs)

Join(results) == [hosts |-> UNION {r.hosts : r \in results},
                  unresolved |-> \E r \in results : r.unresolved]

(* What a command has in it to follow, and what it contacts, given what    *)
(* each of these does.                                                     *)
Inner(words) == {BodyOf(words)} \union {Subst[w] : w \in Range(words) \cap DOMAIN Subst}
CollectCommand(words, deeper) ==
  Join({OwnEgress(words, deeper[BodyOf(words)])}
       \union {deeper[Subst[w]] : w \in Range(words) \cap DOMAIN Subst})

(* Bodies and substitutions are followed to this depth and no further.     *)
Depth3(line) ==
  Join({CollectCommand(ws, [l \in Inner(ws) |-> None]) : ws \in shellCommands(line)})
Depth2(line) ==
  Join({CollectCommand(ws, [l \in Inner(ws) |-> Depth3(l)]) : ws \in shellCommands(line)})
Depth1(line) ==
  Join({CollectCommand(ws, [l \in Inner(ws) |-> Depth2(l)]) : ws \in shellCommands(line)})

(* Hosts found, and whether the command has a destination the text does    *)
(* not fix.                                                                *)
collectEgress(line) ==
  Join({CollectCommand(ws, [l \in Inner(ws) |-> Depth1(l)]) : ws \in shellCommands(line)})
=============================================================================

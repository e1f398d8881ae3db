-------------------------------- MODULE Shell --------------------------------
(***************************************************************************)
(* classify() of src/src/classify.mjs.  A command is a sequence of         *)
(* lexemes, and the text a rule reads is the sequence of its words, spaces *)
(* and operators: a word the writer disguised reads as something else      *)
(* until a step of the decoder has undone it.                              *)
(*   <<"w", x>>       a word        <<"hid", how, x>>  a disguised word     *)
(*   <<"sp">>         white space   <<"ifs">>          ${IFS}               *)
(*   <<"op", c>>      "|", ";" or a new line "nl"                           *)
(*   <<"set", n, v>>  n=v, where v = DYNAMIC is no literal                  *)
(*   <<"bind", n>>    for n in, read n, printf -v n                         *)
(*   <<"var", n>>     $n            <<"ind", n>>       ${!n}                *)
(*   <<"brace", ws>>  {a,b}         <<"sub", t>>       $( t )               *)
(*   <<"quo", q, t>>  t in quotes, or in "<(" and ")"  <<"#", t>> a comment *)
(*   <<"here", d>>    a heredoc of delimiter d: its body is the lines after *)
(*                    this one, up to a line <<"w", "EOF">>               *)
(***************************************************************************)
EXTENDS ShellRules, Integers, FiniteSets, SequencesExt

TIER == <<"green", "yellow", "red", "black">>
Rank(tier) == CHOOSE i \in DOMAIN TIER : TIER[i] = tier
WorstOf(S) == CHOOSE t \in S : \A u \in S : Rank(u) <= Rank(t)

DYNAMIC == "dynamic"
EOF == "<<EOF"           \* an unquoted heredoc delimiter: its body expands
QEOF == "<<'EOF'"

RECURSIVE Text(_)
Text(t) ==
  LET read(l) == CASE l[1] = "w" -> <<l[2]>>
                   [] l[1] = "hid" -> <<l[2]>>
                   [] l[1] = "sp" -> <<"sp">>
                   [] l[1] = "op" -> <<l[2]>>
                   [] l[1] = "set" -> <<"=", l[3]>>
                   [] l[1] = "bind" -> <<"read", "sp", "name">>
                   [] l[1] \in {"var", "ind", "ifs"} -> <<"$">>
                   [] l[1] = "brace" -> FlattenSeq([i \in DOMAIN l[2] |-> <<"{,", l[2][i]>>])
                   [] l[1] = "sub" -> <<"$(">> \o Text(l[2]) \o <<")">>
                   [] l[1] = "quo" -> <<l[2]>> \o Text(l[3]) \o <<IF l[2] = "<(" THEN ")" ELSE l[2]>>
                   [] l[1] = "here" -> <<l[2]>>
                   [] l[1] = "#" -> Text(l[2])
  IN FlattenSeq([i \in DOMAIN t |-> read(t[i])])

(* Whether a span between quotes holds a substitution, which runs.         *)
Substitutes(t) == \E i \in DOMAIN t : t[i][1] = "sub"
(* Faulty variant: as if double quotes kept it from running.               *)
ExecutesUnquoted(q, t) == q \notin {SQ, DQ, QEOF} /\ Substitutes(t)
Executes(q, t) == q \notin {SQ, QEOF} /\ Substitutes(t)
-----------------------------------------------------------------------------
(* Words that only look different: NFKC and the stripped zero-width marks.  *)
(* A backslash is dropped before a letter or a slash, and there only: one  *)
(* that stands before anything else stays, and one that separates the      *)
(* parts of a path or key goes too.                                        *)
RECURSIVE Reveal(_, _)
Reveal(hows, t) ==
  LET shown(l) == IF /\ l[1] = "hid" /\ l[2] \in hows
                     /\ l[2] = "backslash" => l[3] \notin NoLetters
                    THEN <<"w", l[3]>> ELSE l
      joins(l) == "backslash" \in hows /\ l[1] = "w" /\ l[2] \in Separated
      word(l) == IF joins(shown(l)) THEN <<"w", "joined">> ELSE shown(l)
  IN [i \in DOMAIN t |->
        CASE t[i][1] \in {"w", "hid"} -> word(t[i])
          [] t[i][1] = "brace" -> <<"brace", [j \in DOMAIN t[i][2] |-> word(<<"w", t[i][2][j]>>)[2]]>>
          [] t[i][1] = "sub" -> <<"sub", Reveal(hows, t[i][2])>>
          [] t[i][1] = "quo" -> <<"quo", t[i][2], Reveal(hows, t[i][3])>>
          [] OTHER -> t[i]]
Fold(t) == Reveal({"zero-width", "fullwidth"}, t)
Deescape(t) == Reveal({"backslash"}, t)

(* The quoted argument of a prose flag, and grep's pattern, are data.      *)
ProseFlags == {"-m", "--message", "--body", "--description", "--notes", "--grep"}
Greps == {"grep", "rg", "ag"}
IsFlag(w) == w \in ProseFlags \union {"-n", "-r", "-c"}
neutralizeQuotedData(t) ==
  LET idle == [tok |-> "", blank |-> FALSE, grep |-> FALSE]
      onToken(s) ==
        IF s.tok = "" THEN s
        ELSE IF s.tok \in ProseFlags THEN [s EXCEPT !.tok = "", !.blank = TRUE]
        ELSE IF s.tok \in Greps THEN [tok |-> "", blank |-> FALSE, grep |-> TRUE]
        ELSE [tok |-> "", blank |-> FALSE, grep |-> s.grep /\ IsFlag(s.tok)]
      token(s, w) == [s EXCEPT !.tok = IF @ = "" THEN w ELSE "glued"]
      step(acc, l) ==
        LET s == acc.s
            o == onToken(s)
            put(x, n) == [out |-> Append(acc.out, x), s |-> n]
        IN CASE l[1] = "quo" /\ l[2] \in {SQ, DQ} ->
                  put(IF (o.blank \/ o.grep) /\ ~Executes(l[2], l[3])
                        THEN <<"quo", l[2], << >>>> ELSE l, idle)
             [] l[1] = "#" -> [out |-> acc.out, s |-> idle]
             [] l[1] = "sp" \/ l = <<"op", "nl">> -> put(l, o)
             [] l[1] = "op" /\ l # <<"op", "nl">> -> put(l, idle)
             [] l[1] = "w" -> put(l, token(s, l[2]))
             [] l = <<"here", QEOF>> -> put(l, idle)
             [] OTHER -> put(l, token(s, "glued"))
  IN FoldLeft(step, [out |-> << >>, s |-> idle], t).out

(* A word of the decoder's layers in place of one or more lexemes.         *)
RECURSIVE Rewrite(_, _)
Rewrite(map, t) ==
  FlattenSeq([i \in DOMAIN t |->
     IF t[i] \in DOMAIN map THEN map[t[i]]
     ELSE IF t[i][1] = "brace" /\ <<"brace">> \in DOMAIN map /\ Len(t[i][2]) > 1
       THEN FlattenSeq([j \in DOMAIN t[i][2] |-> IF j = 1 THEN <<<<"w", t[i][2][1]>>>>
                                                 ELSE <<<<"sp">>, <<"w", t[i][2][j]>>>>])
     ELSE IF t[i][1] = "sub" THEN <<<<"sub", Rewrite(map, t[i][2])>>>>
     ELSE IF t[i][1] = "quo" THEN <<<<"quo", t[i][2], Rewrite(map, t[i][3])>>>>
     ELSE <<t[i]>>])
ExpandIFS(t) == Rewrite([l \in {<<"ifs">>} |-> <<<<"sp">>>>], t)
expandBraces(t) == Rewrite([l \in {<<"brace">>} |-> << >>], t)

(* The last literal a name is given; one that is given a value at run time *)
(* anywhere in the command is forgotten.                                   *)
resolveVars(t) ==
  LET sets == {i \in DOMAIN t : t[i][1] = "set"}
      last(n) == CHOOSE i \in sets : t[i][2] = n /\ \A j \in sets : t[j][2] = n => j <= i
      bound == {t[i][2] : i \in {j \in DOMAIN t : t[j][1] = "bind"}}
      names == {n \in {t[i][2] : i \in sets} \ bound : t[last(n)][3] # DYNAMIC}
      val == [n \in names |-> t[last(n)][3]]
      dbl == {n \in names : val[n] \in names}
  IN Rewrite([l \in {<<"var", n>> : n \in names} \union {<<"ind", n>> : n \in dbl} |->
                <<<<"w", IF l[1] = "var" THEN val[l[2]] ELSE val[val[l[2]]]>>>>], t)

(* Faulty variant: each layer starts over from the command.                *)
TargetsUnstacked(cmd, isString) ==
  LET m == neutralizeQuotedData(cmd)
  IN IF ~isString THEN {cmd, Deescape(cmd)}
     ELSE {m, Deescape(m), ExpandIFS(m), expandBraces(m), resolveVars(m)}

(* The command as written, without its backslashes, and after each layer   *)
(* of the decoder; a command that was no string is read as it stands.      *)
Layers(m) ==
  LET spaced == ExpandIFS(m)
      braced == expandBraces(spaced)
  IN {m, Deescape(m), spaced, braced, resolveVars(braced)}
Targets(cmd, isString) ==
  IF ~isString THEN {cmd, Deescape(cmd)}
  ELSE Layers(neutralizeQuotedData(cmd))
-----------------------------------------------------------------------------
(* A rule against a text: its words in their order, with what may lie      *)
(* between them.                                                           *)
RuleHits(rule, x) ==
  LET n == Len(rule.words)
      apart(i, j, k) == IF k \in rule.near
                          THEN \A b \in i + 1 .. j - 1 : x[b] \in Spaces
                          ELSE \A b \in i + 1 .. j - 1 : x[b] \notin rule.stop
      ends(i) == x[i] \in DOMAIN rule.ends =>
                   LET end == rule.ends[x[i]]
                   IN \A j \in i + 1 .. Len(x) : (\A b \in i + 1 .. j - 1 : x[b] \in end.over)
                                                 => x[j] \in end.over \union end.at
      reach[k \in 1 .. n] ==
        {j \in DOMAIN x : /\ x[j] \in rule.words[k]
                          /\ k > 1 => \E i \in reach[k - 1] : i < j /\ apart(i, j, k - 1)
                          /\ k = n => ends(j)}
  IN reach[n] # {}
Found(set, x) == \E r \in set : RuleHits(r, x)
Holds(words, x) == \E i \in DOMAIN x : x[i] \in words

(* Quoted spans and a heredoc's body left out, but for what a substitution *)
(* in them runs; what follows on the heredoc's own line is command.        *)
HEREDOC == "<<HEREDOC"
withoutHeredoc(t) ==
  LET opens == {i \in DOMAIN t : t[i][1] = "here"}
      i == CHOOSE a \in opens : \A b \in opens : a <= b
      after(k, l) == {j \in k + 1 .. Len(t) : t[j] = l}
      first(P) == CHOOSE a \in P : \A b \in P : a <= b
      line == first(after(i, <<"op", "nl">>))
      close == first(after(line, <<"w", "EOF">>))
  IN IF opens = {} THEN t
     ELSE IF Executes(t[i][2], SubSeq(t, i, close)) THEN t
     ELSE SubSeq(t, 1, i - 1) \o <<<<"here", HEREDOC>>>> \o SubSeq(t, i + 1, line - 1)
          \o SubSeq(t, close + 1, Len(t))
shellSkeleton(t) ==
  LET u == withoutHeredoc(t)
  IN [i \in DOMAIN u |-> IF u[i][1] = "quo" /\ ~Executes(u[i][2], u[i][3])
                           THEN <<"quo", u[i][2], << >>>> ELSE u[i]]
Sinks == {"echo", "printf", "cat", "tee"}
Siblings == {"cd", "ls", "mkdir", "echo", "printf", "test"}
OnlyWritesText(x) ==
  LET breaks == {i \in DOMAIN x : x[i] \in {";", "nl"}}
      starts == {i \in DOMAIN x : /\ x[i] \notin Spaces \union {";"}
                                  /\ \A j \in 1 .. i - 1 : (\A b \in j + 1 .. i - 1 : b \notin breaks)
                                                           => x[j] \in Spaces \union {";"}}
      writes(i) == /\ x[i] \in Sinks
                   /\ \E j \in i + 1 .. Len(x) : /\ x[j] \in {">", ">>", HEREDOC}
                                                 /\ \A b \in i .. j : b \notin breaks
  IN /\ ~Holds(Interps \union {"|", "chmod", "./", "eval", "xargs"}, x)
     /\ \E i \in starts : writes(i)
     /\ \A i \in starts : writes(i) \/ x[i] \in Siblings
isProseAboutACommand(t) ==
  ~Holds({"$("}, Text(t)) /\ OnlyWritesText(Text(shellSkeleton(t)))

LocalUrls == {"http://localhost/"}
RemoteUrls == {"https:"}
pipeDownloadIsExternal(x) == Holds(LocalUrls, x) => Holds(RemoteUrls, x)

(* The second look is at the folded command itself, not at the targets.    *)
GateOf(gate, cmd, x) ==
  CASE gate = "none" -> TRUE
    [] gate = "runs remote code" -> pipeDownloadIsExternal(x) /\ ~isProseAboutACommand(cmd)
    [] gate = "encrypts" -> Holds({"gpg-c", "ccencrypt"}, x)
    [] gate = "archives a system tree" -> Holds({"tar", "zip"}, x) /\ Holds(Creds \union {"/etc"}, x)
    [] gate = "encodes in a loop" -> Holds({"base64"}, x) /\ Holds({"foreach"}, x)
    [] gate = "posts" -> Holds({"irm", "iwr"}, x) /\ Holds({"POST"}, x) /\ Holds({"-Body"}, x)
    [] gate = "pipes an archive" -> Holds({"|"}, x) /\ Holds({"tar", "zip"}, x) /\ Holds({"user@host"}, x)

(* The worst tier of the tables over all targets.                          *)
RulesOf == [black |-> BLACK_SHELL, red |-> RED_SHELL, yellow |-> YELLOW_SHELL]
TablesTier(cmd, targets) ==
  LET texts == {Text(t) : t \in targets}
      hits(r) == (\E x \in texts : RuleHits(r, x)) /\ GateOf(r.gate, cmd, Text(cmd))
  IN WorstOf({"green"} \union {tier \in DOMAIN RulesOf : \E r \in RulesOf[tier] : hits(r)})

(* The quoted bodies of bash -c and eval, found in the folded command.     *)
Bodies(t) ==
  {t[i][3] : i \in {j \in DOMAIN t :
     /\ t[j][1] = "quo" /\ t[j][2] \in {SQ, DQ} /\ t[j][3] # << >>
     /\ LET x == Text(SubSeq(t, 1, j - 1))
            w == SelectSeq(x, LAMBDA a : a \notin Spaces)
        IN /\ x # << >> /\ Last(x) \in Spaces
           /\ \/ Last(w) = "eval"
              \/ Len(w) > 1 /\ Last(w) = "-c" /\ w[Len(w) - 1] \in Shells \union {"zsh"}}}

MAX_COMMAND == 16384
RECURSIVE ClassifyCommand(_)
(* A string command, a list of words, or an object with commands in its    *)
(* leaves, each read at a clean boundary too.  The code takes the first 64 *)
(* of the leaves, more than any command here has.                          *)
ClassifyCommand(c) ==
  IF c.size > MAX_COMMAND THEN "red"
  ELSE LET cmd == Fold(c.text)
           inner == IF c.shape = "string" THEN Bodies(cmd) \ {cmd} ELSE c.leaves
           sub(t) == ClassifyCommand([shape |-> "string", text |-> t, leaves |-> {},
                                      size |-> 0])
       IN WorstOf({TablesTier(cmd, Targets(cmd, c.shape = "string"))}
                  \union {sub(t) : t \in inner})

SHELL == {"shell", "bash", "powershell"}
NET == {"fetch", "webhook"}
WRITE == {"write", "edit"}
READONLY == {"read", "list"}
classify(a) ==
  IF a.tool \in SHELL \/ (a.cmd.shape # "none" /\ a.tool \notin WRITE)
    THEN ClassifyCommand(a.cmd)
  ELSE IF a.tool \in WRITE THEN "yellow"
  ELSE IF a.tool \in {"delete", "unlink"} THEN "red"
  ELSE IF a.tool \in NET THEN IF a.method \in {"GET", "HEAD"} THEN "green" ELSE "red"
  ELSE IF a.tool \in READONLY THEN "green"
  ELSE "yellow"
=============================================================================

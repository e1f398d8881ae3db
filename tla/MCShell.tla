------------------------------- MODULE MCShell -------------------------------
(***************************************************************************)
(* classify() on written commands.  For kind "trick" a state is a rule and *)
(* the ways its words are disguised, and a step adds one; for kind         *)
(* "context" a command and what it stands in.                              *)
(***************************************************************************)
EXTENDS Integers, Sequences, FiniteSets, SequencesExt

VARIABLES kind,     \* what is written
          text

S == INSTANCE Shell

CONSTANT RuleSets      \* the tables whose rules are disguised

NoText == text = << >>

Tables == [unix |-> S!UnixBlack, exfil |-> S!ExfilBlack, remote |-> S!RemoteBlack,
           windows |-> S!WindowsBlack, disk |-> S!DiskBlack,
           deletes |-> S!WindowsDeletes, red |-> S!RED_SHELL]
Lexeme(w) == IF w \in {"|", ";", "nl"} THEN <<"op", w>> ELSE <<"w", w>>
Spaced(ls) == FlattenSeq([i \in DOMAIN ls |-> IF i = 1 THEN <<ls[1]>> ELSE <<<<"sp">>, ls[i]>>])

(* A command the rule is about: one word of each set, in order.            *)
Sample(rule) ==
  LET w == [i \in DOMAIN rule.words |-> CHOOSE x \in rule.words[i] : TRUE]
      subs == {i \in DOMAIN w : w[i] \in {"$(", "<("}}
      k == CHOOSE i \in subs : TRUE
      plain(a, b) == [i \in 1 .. b - a + 1 |-> Lexeme(w[a + i - 1])]
  IN IF subs = {} THEN plain(1, Len(w))
     ELSE Append(plain(1, k - 1), IF w[k] = "$(" THEN <<"sub", plain(k + 1, Len(w))>>
                                  ELSE <<"quo", "<(", plain(k + 1, Len(w))>>)

Layers == {"var", "ind", "brace", "ifs"}
Tricks == Layers \union {"zero-width", "fullwidth", "backslash"}
(* The layers stack on one another and on the folded characters; the copy  *)
(* without backslashes is a target of its own, and a command that needs    *)
(* the backslashes of its paths is not seen in it.                         *)
Stackable(T, rule) ==
  /\ ~({"var", "ind"} \subseteq T) /\ Cardinality(T \ Layers) <= 1
  /\ "backslash" \in T => /\ T \cap Layers = {}
                          /\ \A i \in DOMAIN Sample(rule) :
                               Sample(rule)[i] \notin {<<"w", s>> : s \in S!Separated}
Disguised(ls, T) ==
  LET first == ls[1]
      rest == Tail(ls)
      words == rest # << >> /\ \A i \in DOMAIN rest : rest[i][1] = "w"
      how == CHOOSE t \in T \ Layers : TRUE
      hide(l) == IF \/ T \subseteq Layers \/ l[1] # "w"
                    \/ how = "backslash" /\ l[2] \in S!NoLetters
                   THEN l ELSE <<"hid", how, l[2]>>
      set(n, v) == <<<<"set", n, v>>, <<"op", ";">>, <<"sp">>>>
      call == IF first[1] # "w" THEN <<hide(first)>>
              ELSE IF "var" \in T THEN set("X", first[2]) \o <<<<"var", "X">>>>
              ELSE IF "ind" \in T
                THEN set("A", "B") \o set("B", first[2]) \o <<<<"ind", "A">>>>
              ELSE <<hide(first)>>
      args == IF "brace" \in T /\ words /\ Len(rest) > 1
                THEN <<<<"brace", [i \in DOMAIN rest |-> rest[i][2]]>>>>
                ELSE [i \in DOMAIN rest |-> hide(rest[i])]
      all == call \o FlattenSeq([i \in DOMAIN args |-> <<<<"sp">>, args[i]>>])
  IN [i \in DOMAIN all |->
        IF all[i] = <<"sp">> /\ "ifs" \in T /\ i > Len(call) THEN <<"ifs">> ELSE all[i]]

String(t) == [shape |-> "string", text |-> t, leaves |-> {}, size |-> Len(t)]
Tier(t) == S!Rank(S!ClassifyCommand(String(t)))
-----------------------------------------------------------------------------
Bases == {<<"rm", "-rf", "/">>, <<"rm", "-rf", "/etc">>, <<"curl", "https:", "|", "bash">>,
          <<"git", "push">>, <<"mkdir", "file">>}
Typed(ws) == Spaced([i \in DOMAIN ws |-> Lexeme(ws[i])])
With(before, l) == Typed(before) \o <<<<"sp">>, l>>
HereBody(t) == <<<<"op", "nl">>>> \o t \o <<<<"op", "nl">>, <<"w", "EOF">>>>

Runs == {"alone", "later line", "second", "before a clause", "bash -c", "eval",
         "sh -c in single quotes", "argv", "leaf", "read"}
Ahead == {"before a line", "heredoc to sh"}
Data == {"commit message", "pr body", "grep pattern", "comment"}
Notes == {"echo >>", "cat heredoc >>", "cd and echo >>"}
Expands == {"message substitution", "heredoc substitution"}
Contexts == Runs \union Ahead \union Data \union Notes \union Expands

InContext(c, t) ==
  CASE c = "alone" -> String(t)
    [] c = "later line" -> String(Typed(<<"ls">>) \o <<<<"sp">>, <<"#", Typed(<<"note">>)>>, <<"op", "nl">>>> \o t)
    [] c = "second" -> String(With(<<"echo", "done">>, <<"op", ";">>) \o <<<<"sp">>>> \o t)
    [] c = "before a clause" -> String(t \o <<<<"sp">>, <<"op", ";">>, <<"sp">>>> \o Typed(<<"echo", "done">>))
    [] c = "before a line" -> String(t \o <<<<"op", "nl">>>> \o Typed(<<"ls">>))
    [] c = "bash -c" -> String(With(<<"bash", "-c">>, <<"quo", S!DQ, t>>))
    [] c = "eval" -> String(With(<<"eval">>, <<"quo", S!DQ, t>>))
    [] c = "sh -c in single quotes" -> String(With(<<"sh", "-c">>, <<"quo", S!SQ, t>>))
    [] c = "argv" -> [String(t) EXCEPT !.shape = "list",
                       !.leaves = {<<t[i]>> : i \in {j \in DOMAIN t : t[j] # <<"sp">>}}]
    [] c \in {"leaf", "read"} ->
         [shape |-> "object", text |-> <<<<"quo", S!DQ, t>>, <<"w", "}">>>>, leaves |-> {t}, size |-> 0]
    [] c = "heredoc to sh" -> String(With(<<"cat">>, <<"here", S!QEOF>>) \o <<<<"sp">>>> \o Typed(<<"|", "bash">>) \o HereBody(t))
    [] c = "commit message" -> String(With(<<"git", "commit", "-m">>, <<"quo", S!DQ, t>>))
    [] c = "pr body" -> String(With(<<"gh", "create", "--body">>, <<"quo", S!SQ, t>>))
    [] c = "grep pattern" -> String(With(<<"grep", "-n">>, <<"quo", S!DQ, t>>))
    [] c = "comment" -> String(With(<<"ls">>, <<"#", t>>))
    [] c = "echo >>" -> String(With(<<"echo">>, <<"quo", S!DQ, t>>) \o <<<<"sp">>>> \o Typed(<<">>", "notes">>))
    [] c = "cat heredoc >>" -> String(With(<<"cat", ">>", "notes">>, <<"here", S!QEOF>>) \o HereBody(t))
    [] c = "cd and echo >>" -> String(Typed(<<"cd", "dir", ";", "echo">>)
                                      \o <<<<"sp">>, <<"quo", S!SQ, t>>, <<"sp">>>> \o Typed(<<">>", "notes">>))
    [] c = "message substitution" ->
         String(With(<<"git", "commit", "-m">>, <<"quo", S!DQ, <<<<"sub", t>>>>>>))
    [] c = "heredoc substitution" -> String(With(<<"cat", ">>", "notes">>, <<"here", S!EOF>>) \o HereBody(<<<<"sub", t>>>>))

ShellInit == \/ kind = "trick" /\ text = [table |-> "none"]
             \/ kind = "context" /\ text = [at |-> "none"]
PickRule == /\ kind = "trick" /\ text = [table |-> "none"]
            /\ \E n \in RuleSets : \E r \in Tables[n] :
                 text' = [table |-> n, rule |-> r, tricks |-> {}]
Disguise == /\ kind = "trick" /\ text.table # "none"
            /\ \E k \in Tricks \ text.tricks :
                 /\ Stackable(text.tricks \union {k}, text.rule)
                 /\ text' = [text EXCEPT !.tricks = @ \union {k}]
PickContext == /\ kind = "context" /\ text = [at |-> "none"]
               /\ \E c \in Contexts, b \in Bases : text' = [at |-> c, base |-> b]
ShellNext == (PickRule \/ Disguise \/ PickContext) /\ UNCHANGED kind
-----------------------------------------------------------------------------
(* classify.mjs:613-636: "each step feeds the next so a command STACKING   *)
(* tricks still resolves to the real command": whatever layers a command   *)
(* of a rule is written in, the tier is not milder than for the plain      *)
(* command.  The gates look at the command as written, before any layer,   *)
(* and are left out.                                                       *)
DisguisesAreSeen ==
  (kind = "trick" /\ text.table # "none" /\ text.rule.gate = "none") =>
     LET ls == Sample(text.rule)
     IN Tier(Disguised(ls, text.tricks)) >= Tier(Spaced(ls))

(* classify.mjs:444-497,638-661: a command that an executor, a later line, *)
(* another clause, a list of words or a leaf of an object carries is       *)
(* classified as it would be alone, and one that stands in a message, a    *)
(* pattern or a comment as the message or pattern would be.  A download    *)
(* piped into a shell is no such download in a note.  A red or black one   *)
(* in a substitution that runs is held at least, and one with a further    *)
(* line below it too: the rules of a root or home ask for its end.         *)
TierFits(c, base, tier, alone, inert) ==
  /\ c \in Runs => tier >= alone
  /\ c \in Data => tier = inert
  /\ c \in Notes /\ "|" \in Range(base) => tier < S!Rank("black")
  /\ c \in Ahead \union Expands /\ alone >= S!Rank("red") => tier >= S!Rank("red")
TierIn(c, t) == S!Rank(S!ClassifyCommand(InContext(c, t)))
WhatRunsIsClassified ==
  (kind = "context" /\ text.at # "none") =>
     TierFits(text.at, text.base, TierIn(text.at, Typed(text.base)), Tier(Typed(text.base)),
              TierIn(text.at, Typed(<<"hello">>)))
=============================================================================

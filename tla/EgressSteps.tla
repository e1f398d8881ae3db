----------------------------- MODULE EgressSteps -----------------------------
(***************************************************************************)
(* What a command contacts against what its words are to the shell and the *)
(* client: a state is a command line, and a step writes one word more.     *)
(* No word makes the walk note more than four hosts (a download client's   *)
(* address is noted twice, a substitution at each depth of the shells      *)
(* around it), so that in a line of sixteen it stays within the 64 behind  *)
(* which it would follow no further body, and in the text it reads.        *)
(***************************************************************************)
EXTENDS Integers, Sequences, FiniteSets, SequencesExt

CONSTANT MaxWords   \* bound: words of a command line
ASSUME EgressAssumption == MaxWords \in 0 .. 16

VARIABLE lines      \* the lines that are written: one or none

G == INSTANCE Egress

NoLine == lines = {}
LineInit == lines = { << >> }

(* What may run a command is written first, and near enough to it, then    *)
(* the command, then words that mean something to it, then perhaps a       *)
(* second command.                                                         *)
ArgsOf(c) ==
  CASE c = "curl" -> {"h1", "file", "$dyn", "-s", "-o", "--proxy", "--resolve", "sub"}
    [] c = "wget" -> {"url2", "file", "-s", "-o", "sub"}
    [] c = "http" -> {"POST", "h1", "url2", "-o", "--proxy"}
    [] c = "git" -> {"clone", "commit", "url2", "scp3", "$dyn", "-C", "--depth"}
    [] c = "iwr" -> {"h1", "url2", "$dyn", "-uri", "-outfile"}
    [] c = "aria2c" -> {"h1", "url2", "-o", "--proxy", "$dyn"}
    [] c = "certutil" -> {"-urlcache", "h1", "url2", "file"}
    [] c = "bash" -> {"-c", "quoted", "curl", "h1", "sub"}
Leading == G!WRAPPERS \union {"if", "find", "-exec", "file"}
Named(line) == {i \in DOMAIN line : line[i] \in G!Commands}
NextWord(line) ==
  IF Named(line) = {} THEN G!Commands \union (IF Len(line) < G!REACH THEN Leading ELSE {})
  ELSE ArgsOf(line[G!Nearest(Named(line))])
       \union (IF line[1] = "curl" THEN {";", "wget"} ELSE {})
AddWord == \E line \in lines : \E w \in NextWord(line) :
             Len(line) < MaxWords /\ lines' = {Append(line, w)}
LineSpec == LineInit /\ [][AddWord]_lines
-----------------------------------------------------------------------------
(* The words that the shell may run as a command: the first one, what      *)
(* follows a keyword, the command a wrapper runs behind its own options,   *)
(* what find runs.                                                         *)
LeadsTo(ws, j, k) ==
  \/ ws[j] = "if" /\ k = j + 1
  \/ /\ ws[j] \in G!WRAPPERS
     /\ k = j + 1 \/ ws[k] \in G!Commands \union G!WRAPPERS
     /\ \A i \in j + 1 .. k - 1 : ws[i] \notin G!Commands \union G!WRAPPERS
  \/ /\ ws[j] = "find" /\ ws[k - 1] = "-exec" /\ k - 1 > j
     /\ \A i \in j + 1 .. k - 2 : ws[i] # "-exec"
MayRun(ws) ==
  {k \in DOMAIN ws : \A S \in SUBSET DOMAIN ws :
     1 \in S /\ (\A i \in S, j \in DOMAIN ws : i < j /\ LeadsTo(ws, i, j) => j \in S) => k \in S}

(* The values of the options in takes, and the words that are neither      *)
(* options nor values.                                                     *)
ValuesOf(args, takes) ==
  LET value[i \in DOMAIN args] == i > 1 /\ ~value[i - 1] /\ args[i - 1] \in takes
  IN {i \in DOMAIN args : value[i]}
WordsOf(args, takes) ==
  {i \in DOMAIN args \ ValuesOf(args, takes) : args[i] \notin G!Flags \union {"POST"}}
FirstOf(S) == {i \in S : \A j \in S : i <= j}

(* The arguments that are where the client goes: the value of a flag that  *)
(* names one, and, but for flags and their values, every word (curl), the  *)
(* first one (httpie, iwr, certutil), the repository (git).  The code does *)
(* not read what follows httpie's address, and this leaves it out.         *)
Contacted(c, args) ==
  LET takes == G!Values(c) \union G!DestFlags(c) \union G!Overrides(c)
      words == WordsOf(args, takes)
      named == {i \in ValuesOf(args, takes) :
                  /\ args[i - 1] \in G!DestFlags(c)
                  /\ c = "http" => \A j \in FirstOf(words) : i < j}
  IN CASE c = "certutil" -> IF "-urlcache" \in Range(args) THEN FirstOf(words) ELSE {}
       [] c \in {"http", "iwr"} -> named \union FirstOf(words)
       [] OTHER -> named \union words
Repository(args) ==
  UNION {LET rest == SubSeq(args, v + 1, Len(args))
         IN {rest[r] : r \in FirstOf(WordsOf(rest, {"--depth"}))} :
         v \in {i \in FirstOf(WordsOf(args, {"-C"})) : args[i] \in G!GIT_NET}}
Destinations(c, args) ==
  IF c = "git" THEN Repository(args) ELSE {args[i] : i \in Contacted(c, args)}

(* What a line contacts, by what each word is to the shell and the client. *)
(* A body here holds no further one, and a substitution holds neither.     *)
ContactsOf(ws, Inner(_)) ==
  LET own(k) == LET args == SubSeq(ws, k + 1, Len(ws))
                IN IF ws[k] \in G!SHELLS THEN Inner(G!Body(args)) ELSE Destinations(ws[k], args)
  IN (UNION {own(k) : k \in MayRun(ws) \intersect Named(ws)})
     \union (UNION {Inner(G!Subst[w]) : w \in Range(ws) \intersect DOMAIN G!Subst})
ContactsIn(line, Inner(_)) == UNION {ContactsOf(ws, Inner) : ws \in G!shellCommands(line)}
Innermost(line) == ContactsIn(line, LAMBDA l : {})
InBody(line) == ContactsIn(line, Innermost)
Contacts(line) == ContactsIn(line, InBody)

(* classify.mjs:682-691: every host a client in command position contacts  *)
(* is found or the call is reported as unresolved, behind wrappers and     *)
(* find, in a shell's own command, in a substitution, in a later command.  *)
EgressIsSeen ==
  \A line \in lines :
    LET seen == G!collectEgress(line)
        dests == Contacts(line)
    IN /\ \A d \in dests \intersect DOMAIN G!Host : G!Host[d] \in seen.hosts
       /\ (\E d \in dests : G!Dynamic(d)) => seen.unresolved
=============================================================================

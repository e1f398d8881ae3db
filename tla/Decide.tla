-------------------------------- MODULE Decide --------------------------------
(***************************************************************************)
(* decide() of src/src/index.mjs from an action to its evidence: the       *)
(* classifier, the scanners, the egress walk and the policy read the same  *)
(* input, each in its own way.  An input is a set of string leaves:        *)
(*   top    the field of the input it is under                             *)
(*   key    its own key                                                    *)
(*   depth  1 for a field that is a string, more inside an object          *)
(*   text   its lexemes (see Shell)                                        *)
(* The leaves of a list have its indexes as keys.  No input here is longer *)
(* than the 65536 characters (SCAN_CAP) the scans read.                    *)
(***************************************************************************)
EXTENDS Integers, Sequences, FiniteSets, SequencesExt

S == INSTANCE Shell
G == INSTANCE Egress
N == INSTANCE Scan
P == INSTANCE Policy
V == INSTANCE Verdict

Under(input, field) == {l \in input : l.top = field}
(* The field's text if it is a string; empty is as good as missing.        *)
String(input, field) ==
  LET s == {l \in Under(input, field) : l.depth = 1}
  IN IF s = {} THEN << >> ELSE (CHOOSE l \in s : TRUE).text
FieldTexts(input) == SetToSeq({S!Text(l.text) : l \in input})
InputText(input) == N!safeStringify(FieldTexts(input))
(* The input as one text, for a command that is no string.                 *)
AsCommand(input) ==
  FlattenSeq(SetToSeq({<<<<"w", "key">>, <<"quo", S!DQ, l.text>>>> : l \in input})) \o <<<<"w", "}">>>>
-----------------------------------------------------------------------------
CmdField(input) == IF Under(input, "command") # {} THEN "command" ELSE "cmd"
MAX_DEPTH == 6
(* An argv array is the command of its words; for the egress walk a word   *)
(* with spaces is quoted, for the classifier it is not.                    *)
Indexes == <<"0", "1", "2">>
Argv(input, field, elem(_)) ==
  LET at(i) == {l \in Under(input, field) : l.depth = 2 /\ l.key = Indexes[i]}
      there == {i \in DOMAIN Indexes : at(i) # {}}
  IN FlattenSeq([i \in 1 .. Cardinality(there) |->
       (IF i = 1 THEN << >> ELSE <<<<"sp">>>>) \o elem((CHOOSE l \in at(i) : TRUE).text)])
Joined(input, field) == Argv(input, field, LAMBDA t : t)
Quoted(input, field) ==
  Argv(input, field, LAMBDA t : IF <<"sp">> \in Range(t) THEN <<<<"quo", S!SQ, t>>>> ELSE t)
CommandOf(input) ==
  LET f == CmdField(input)
      t == String(input, f)
  IN IF Under(input, f) = {} THEN [shape |-> "none", text |-> AsCommand(input), leaves |-> {}, size |-> 0]
     ELSE IF t # << >> THEN [shape |-> "string", text |-> t, leaves |-> {}, size |-> Len(t)]
     ELSE [shape |-> "object", size |-> 0,
           text |-> IF Joined(input, f) # << >> THEN Joined(input, f) ELSE AsCommand(input),
           leaves |-> {l.text : l \in {k \in Under(input, f) : k.depth - 1 <= MAX_DEPTH}}]
BaseTier(a) ==
  S!classify([tool |-> a.tool, cmd |-> CommandOf(a.input),
              method |-> IF String(a.input, "method") = << >> THEN "GET"
                         ELSE String(a.input, "method")[1][2]])

(* The commands the egress walk reads: as written and after the decoder.   *)
EgressWords(t) ==
  IF \E i \in DOMAIN t : t[i] = <<"ifs">> THEN <<"glued">>
  ELSE FlattenSeq([i \in DOMAIN t |->
         CASE t[i][1] = "w" -> <<t[i][2]>>
           [] t[i][1] = "op" -> <<";">>
           [] t[i][1] \in {"var", "ind", "sub"} -> <<"$dyn">>
           [] OTHER -> << >>])
shellEgressHostsAsWritten(t) == G!collectEgress(EgressWords(t)).hosts
shellEgressHosts(t) ==
  UNION {G!collectEgress(EgressWords(v)).hosts :
           v \in {t, S!resolveVars(t), S!expandBraces(t), S!ExpandIFS(t),
                  S!resolveVars(S!ExpandIFS(t))}}
shellEgressUnresolved(t) ==
  G!collectEgress(EgressWords(S!resolveVars(S!ExpandIFS(t)))).unresolved

(* What is likely to hide a command, without being one.                    *)
obfuscationHits(t) ==
  LET x == S!Text(t)
      var(i) == i \in DOMAIN t /\ t[i][1] = "var"
      between(i, j) == {t[b] : b \in i + 1 .. j - 1}
      hits(near, words) == S!RuleHits(S!Pipe(near, words), x)
  IN \/ \E i \in DOMAIN t : t[i] = <<"ifs">> \/ (var(i) /\ var(i + 1))
     \/ \E i, j \in DOMAIN t : i < j /\ t[i] = <<"op", "|">> /\ var(j)
                               /\ between(i, j) \subseteq {<<"sp">>}
     \/ \E i, k, j \in DOMAIN t : /\ i < k /\ k < j /\ t[i][1] = "set" /\ t[k] = <<"op", ";">>
                                  /\ var(j) /\ between(i, k) \subseteq {<<"sp">>}
                                  /\ <<"op", ";">> \notin between(k, j)
     \/ hits({1}, <<{"xxd"}, {"-r"}>>) \/ hits({2}, <<{"base64"}, {"|"}, S!Shells>>)
     \/ S!Holds({"eval", "iex", "quotes", "\\x72\\x6d"}, x)
     \/ hits({}, <<{"& ("}, {"-join"}>>)

(* Destination keys of a write, and where writing is persistence.          *)
DEST_KEYS == {"path", "file", "dest", "target", "output", "to", "location", "uri"}
PERSISTENCE_PATH_RE == {"/etc/cron.d", "authorized_keys", ".bashrc"}
destPaths(input) == {l.text : l \in {k \in input : k.depth = 1 /\ k.top \in DEST_KEYS}}

(* The paths of a write whose place in the tree matters, character by      *)
(* character, for writeRoots.                                              *)
Chars == [p \in {"src/a", "src/../a"} |->
            IF p = "src/a" THEN <<"s", "/", "a">> ELSE <<"s", "/", ".", ".", "/", "a">>]
OutsideRoots(policy, path) ==
  /\ policy.writeRoots.list /\ path # << >>
  /\ path[1][2] \in DOMAIN Chars => ~P!withinRoots(Chars[path[1][2]], policy.writeRoots.items)

Subject(input, field) == IF String(input, field) # << >> THEN S!Text(String(input, field))
                         ELSE IF Joined(input, field) # << >> THEN S!Text(Joined(input, field))
                         ELSE InputText(Under(input, field))
Matches(rule, a) ==
  P!matchRule(rule, a.tool, <<Subject(a.input, "command"), Subject(a.input, "path"),
                              Subject(a.input, "url"), <<"{">> \o InputText(a.input)>>)

ToolClass(tool) ==
  CASE tool \in S!SHELL -> "shell" [] tool \in S!NET -> "net" [] tool \in S!WRITE -> "write"
    [] OTHER -> "other"

EvidenceOf(a, policy) ==
  LET x == InputText(a.input)
      found == N!scanSecrets(x)
      scopes == {N!ipScope(h) : h \in found.hosts}
      words(f) == IF String(a.input, f) # << >> THEN String(a.input, f) ELSE Quoted(a.input, f)
      cmd == IF words("command") # << >> THEN words("command") ELSE words("cmd")
      typed == String(a.input, CmdField(a.input))
      class == ToolClass(a.tool)
  IN [class |-> class, base |-> BaseTier(a), secret |-> found.hasSecret,
      external |-> \E h \in found.hosts : N!isExternal(h, policy.egressAllow.items),
      skill |-> FALSE,
      inj |-> class # "shell" /\ N!injectionHits(x) # {},
      ssrf |-> IF N!Has(N!METADATA_RE, x) \/ "linklocal" \in scopes THEN "linklocal"
               ELSE IF "private" \in scopes THEN "private" ELSE "none",
      persist |-> \E p \in destPaths(a.input) : S!Holds(PERSISTENCE_PATH_RE, S!Text(p)),
      listed |-> policy.egressAllow.items # {},
      cmd |-> Under(a.input, CmdField(a.input)) # {},
      egress |-> \/ \E h \in shellEgressHosts(cmd) : N!isExternal(<<h>>, policy.egressAllow.items)
                 \/ shellEgressUnresolved(cmd),
      outside |-> OutsideRoots(policy, String(a.input, "path")),
      smell |-> obfuscationHits(IF typed # << >> THEN typed ELSE AsCommand(a.input)),
      denied |-> \E r \in policy.deny.items : Matches(r, a),
      allowed |-> \E r \in policy.allow.items : Matches(r, a)]

decide(a, rawPolicy) == V!decide(EvidenceOf(a, P!normalizePolicy(rawPolicy)))
=============================================================================

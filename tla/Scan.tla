--------------------------------- MODULE Scan ---------------------------------
(***************************************************************************)
(* The scanners of src/src/scan.mjs and the tool-list scan of              *)
(* src/src/mcp.mjs.  A text is a sequence of words, marks and line breaks: *)
(*   "sp", "nl"   white space      "esc"  a line break as JSON writes it,  *)
(*   ".", ",", "|"  punctuation           a backslash and an n             *)
(* A word that a rule's alternatives share stands for all of them.         *)
(***************************************************************************)
EXTENDS Integers, Sequences, FiniteSets, SequencesExt

White == {"sp", "nl"}
Has(words, x) == \E i \in DOMAIN x : x[i] \in words
-----------------------------------------------------------------------------
(* Hosts: an address or labels with "." between, with what a URL may put   *)
(* around it: "user", "@", ":80", "[", "]".                                *)
LinkLocal == {"169.254.169.254"}
Private   == {"10.0.0.1"}
Loopback  == {"127.0.0.1"}
Inside6   == {"::1", "fe80::1", "fd00::1"}
Spelled   == [h \in {"0x7f000001", "10.1", "2852039166", "134744072", "0:0:0:0:0:0:0:1"} |->
                CASE h = "0x7f000001" -> "127.0.0.1" [] h = "10.1" -> "10.0.0.1"
                  [] h = "2852039166" -> "169.254.169.254" [] h = "134744072" -> "8.8.8.8"
                  [] h = "0:0:0:0:0:0:0:1" -> "::1"]
V6 == Inside6 \union {"0:0:0:0:0:0:0:1", "2001:db8::1"}
Labels == {"db", "localhost", "134744072", "2852039166", "0x7f000001"}   \* no dot in it

AfterUser(h) == LET at == {i \in DOMAIN h : h[i] = "@"}
                IN IF at = {} THEN h ELSE SubSeq(h, 1 + CHOOSE i \in at : \A j \in at : j <= i, Len(h))
Unbracketed(h) == IF h = << >> \/ Head(h) # "[" THEN h
                  ELSE SubSeq(h, 2, (CHOOSE i \in DOMAIN h : h[i] = "]") - 1)
WithoutPort(h) == IF h # << >> /\ Last(h) = ":80" /\ ~Has(V6, h) THEN Front(h) ELSE h
Bare(h) == WithoutPort(Unbracketed(AfterUser(h)))

canonicalHost(h) ==
  LET g == IF h # << >> /\ Last(h) = "." THEN Front(h) ELSE h
  IN IF Len(g) = 1 /\ g[1] \in DOMAIN Spelled THEN <<Spelled[g[1]]>> ELSE g
isExternalAsWritten(host, allow) ==
  LET h == Bare(host) IN
  /\ h # << >> /\ Last(h) # "localhost" /\ Last(h) \notin allow
  /\ ~(Len(h) = 1 /\ h[1] \in Loopback \union Private \union LinkLocal \union Inside6 \union Labels)
isExternal(host, allow) ==
  LET h == canonicalHost(Bare(host)) IN
  /\ h # << >> /\ Last(h) # "localhost" /\ Last(h) \notin allow
  /\ ~(Len(h) = 1 /\ h[1] \in Loopback \union Private \union LinkLocal \union Inside6 \union Labels)
ipScope(host) ==
  LET h == Bare(host)
      one(S) == Len(h) = 1 /\ h[1] \in S
  IN IF one(LinkLocal) THEN "linklocal" ELSE IF one(Loopback \union {"::1"}) THEN "loopback"
     ELSE IF one(Private) THEN "private" ELSE "none"
-----------------------------------------------------------------------------
(* What lies between two words of a phrase.                                *)
SecretPaths == {".env", ".ssh/id", ".aws/c.json"}
Urls == {"https:", "http://localhost/", "http://imds/", "http://10.0.0.1/"}
Dotted == {"http://imds/", "http://10.0.0.1/", "@host", "to host"} \union SecretPaths
Articles == {"all", "the", "your"}
(* How many characters it is, with the blanks around it.  A word is taken  *)
(* to have eight, "aside" is a longer stretch of text that says nothing.   *)
Width(w) == CASE w \in White \union {".", ",", "|", "quote"} -> 1
              [] w = "esc" -> 2
              [] w = "aside" -> 85
              [] OTHER -> 9
Chars(x) == LET upto[k \in 0 .. Len(x)] == IF k = 0 THEN 1 ELSE upto[k - 1] + Width(x[k])
            IN upto[Len(x)]
(* A sentence's dots and a path's are not told apart.                      *)
GapEndsAtAnyDot(gap, x) ==
  LET how == gap[1] IN
  /\ Len(gap) = 2 => Chars(x) <= gap[2]
  /\ CASE how = "white" -> Range(x) \subseteq White
       [] how = "the" -> Range(x) \subseteq White \union Articles
       [] how = "clause" -> ~Has({".", "nl", "esc"} \union Dotted, x)
       [] how = "pipe" -> ~Has({"|", "nl"}, x)
       [] OTHER -> ~Has({"."} \union Dotted, x)
(* A gap is of a kind and, but for white space and articles, of so many    *)
(* characters at most.                                                     *)
Gap(gap, x) ==
  LET how == gap[1] IN
  /\ Len(gap) = 2 => Chars(x) <= gap[2]
  /\ CASE how = "white" -> Range(x) \subseteq White
       [] how = "the" -> /\ Range(x) \subseteq White \union Articles
                         /\ Cardinality({i \in DOMAIN x : x[i] \in Articles}) <= 1
       [] how = "clause" -> ~Has({".", "nl", "esc"}, x)
       [] how = "sentence" -> ~Has({"."} \union Dotted, x)
       [] how = "list item" -> ~Has({".", ",", "|"} \union Urls \union Dotted, x)
       [] how = "pipe" -> ~Has({"|", "nl"}, x)
Phrase(why, words, gaps) == [why |-> why, words |-> words, gaps |-> gaps]
Says(p, x) ==
  LET n == Len(p.words)
      at[k \in 1 .. n] ==
        {j \in DOMAIN x : /\ x[j] \in p.words[k]
                          /\ k > 1 => \E i \in at[k - 1] :
                               i < j /\ Gap(p.gaps[k - 1], SubSeq(x, i + 1, j - 1))}
  IN at[n] # {}

Dest == {"webhook", "attacker", "to host", "@host"} \union Urls
Nouns == {"secrets", "credentials", "keys", "passwords", "tokens"}
Exfil == "exfiltration intent"
INJECTION_RE ==
  {Phrase("instruction-override", <<{"ignore"}, {"previous", "prior", "above"},
                                    {"instructions", "rules", "prompt"}>>, << <<"the">>, <<"white">> >>),
   Phrase(Exfil, <<{"exfiltrate", "leak", "steal"},
                   Nouns \union SecretPaths \union {"data", "env"} \union Dest>>, << <<"clause", 60>> >>),
   Phrase("safety-bypass", <<{"disregard"}, {"safety", "guardrail", "policy"}>>, << <<"sentence", 20>> >>),
   Phrase("payload to shell", <<{"base64"}, {"|"}, {"sh", "bash"}>>, << <<"pipe", 40>>, <<"white">> >>),
   Phrase("data-exfil", <<{"send"}, {"files", "secrets", "env", "credentials", "keys"},
                          {"webhook", "curl"} \union Urls>>, << <<"the">>, <<"sentence", 40>> >>),
   Phrase("data-exfil to a destination",
          <<{"send", "email", "upload", "post", "forward"}, Nouns \union {".env"},
            {"@host", "webhook", "attacker"} \union Urls>>, << <<"the">>, <<"sentence", 60>> >>),
   Phrase("secret extraction", <<{"reveal"}, {"secrets", "prompt", "credentials"}>>, << <<"the">> >>),
   Phrase("instruction-override", <<{"disregard"}, {"prompt", "instructions", "rules"}>>, << <<"the">> >>),
   Phrase("jailbreak persona", <<{"you are now"}, {"developer", "unrestricted"}, {"mode"}>>,
          << <<"the">>, <<"white">> >>),
   Phrase("paraphrased override", <<{"set aside", "put aside"},
          {"directives", "instructions", "rules", "guidance"}>>, << <<"list item", 40>> >>),
   Phrase("paraphrased data-exfil",
          <<{"deliver", "copy", "forward", "send", "hand over"},
            {".ssh/id", ".env", "keys", "credentials", "secrets"},
            {"webhook", "server", "backup", "attacker", "@host"} \union Urls>>,
          << <<"sentence", 60>>, <<"sentence", 60>> >>)}
SENSITIVE_PATH_EXFIL_RE ==
  Phrase("path to destination",
         <<{"read", "cat", "copy", "send", "post", "upload", "forward", "curl", "fetch"},
           SecretPaths, Dest>>, << <<"clause", 80>>, <<"clause", 100>> >>)
injectionHits(x) == {p.why : p \in {q \in INJECTION_RE : Says(q, x)}}

SECRET_RE == {"sk-ant-", "ghp_", "AKIA", "PRIVATE KEY"}
SECRET_ENV_RE == {"$API_KEY"}
METADATA_RE == {"http://imds/", "metadata.google.internal"}
(* The host of a word that is a URL.                                       *)
UrlHost == [u \in Urls |->
              CASE u = "https:" -> <<"evil", ".", "com">> [] u = "http://localhost/" -> <<"localhost">>
                [] u = "http://imds/" -> <<"169.254.169.254">> [] u = "http://10.0.0.1/" -> <<"10.0.0.1">>]
scanSecrets(x) == [hasSecret |-> Has(SECRET_RE \union SECRET_ENV_RE \union SecretPaths, x),
                   hosts |-> {UrlHost[u] : u \in Range(x) \cap DOMAIN UrlHost}]
-----------------------------------------------------------------------------
(* JSON.stringify writes a line break as two characters, in every field.   *)
safeStringify(fields) ==
  FlattenSeq([i \in DOMAIN fields |->
    <<"quote">> \o [j \in DOMAIN fields[i] |-> IF fields[i][j] = "nl" THEN "esc" ELSE fields[i][j]]
    \o <<"quote">>])
scanTextOf(fields) ==
  LET x == safeStringify(fields) IN [j \in DOMAIN x |-> IF x[j] = "esc" THEN "nl" ELSE x[j]]
(* The name is the first field; one whose JSON form the text no longer     *)
(* holds is left in.                                                       *)
blankNameValue(x, name) ==
  [j \in DOMAIN x |-> IF j - 1 \in DOMAIN name /\ ~Has({"nl", "esc"}, name) THEN "sp" ELSE x[j]]

scanMcpTool(name, description) ==
  LET x == scanTextOf(<<name, description>>)
      said == blankNameValue(x, name)
      instructs == injectionHits(said)
                   \union (IF Says(SENSITIVE_PATH_EXFIL_RE, said)
                             THEN {SENSITIVE_PATH_EXFIL_RE.why} ELSE {})
      mentions == (IF Has(SecretPaths, x) THEN {"sensitive path"} ELSE {})
                  \union (IF Has(SECRET_ENV_RE, x) THEN {"secret env var"} ELSE {})
  IN [flags |-> instructs \union mentions,
      severity |-> IF instructs \ {Exfil} # {} THEN "critical" ELSE "advisory"]

(* A list's findings: the tools with a flag, critical or not.              *)
scanMcpTools(list) == {t \in list : scanMcpTool(t.name, t.description).flags # {}}
(* The exit code of `redstamp scan-mcp`.                                   *)
scanMcp(list) == IF scanMcpTools(list) = {} THEN 0 ELSE 1

(* A result that is a string is scanned as it is, any other as JSON, up to *)
(* a length that a number of words stands for.                             *)
MAX_RESULT_SCAN == 6
scanToolResult(fields, isString) ==
  LET x == IF isString THEN FlattenSeq(fields) ELSE safeStringify(fields)
  IN injectionHits(SubSeq(x, 1, IF Len(x) > MAX_RESULT_SCAN THEN MAX_RESULT_SCAN ELSE Len(x)))
=============================================================================

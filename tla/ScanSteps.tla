------------------------------ MODULE ScanSteps ------------------------------
(***************************************************************************)
(* The scanners on every host and every description: a host is written, a  *)
(* label at a time, in any of the ways a URL has for it; a server          *)
(* advertises a tool, and a step writes one word more of what it says.     *)
(***************************************************************************)
EXTENDS Scan

CONSTANTS ToolNames,              \* names a tool may have, each a sequence of words
          MaxPhrase, MaxLabels    \* bounds: words of a description, labels of a name

Words == {"read", ".aws/c.json", "https:", "steal", "secrets", "ignore", "previous",
          "instructions", ".", "nl", "aside"}

ASSUME ScanAssumption ==
  ToolNames \subseteq Seq(Words) /\ MaxPhrase \in Nat /\ MaxLabels \in Nat

VARIABLES tools,   \* the list a server advertises: no tool, or one
          hosts    \* the hosts written: none, or one and how it is written

Numbers == {"127.0.0.1", "0x7f000001", "10.0.0.1", "10.1", "169.254.169.254",
            "2852039166", "8.8.8.8", "134744072"}
Names == {"localhost", "db", "api.ok", "evil.com"}
Users == { << >>, <<"user", "@">>, <<"user", ":80", "@">>}

NothingScanned == tools = {} /\ hosts = {}
ScanInit ==
  \/ tools = {} /\ \E u \in Users, d, p \in BOOLEAN :
                    hosts = {[user |-> u, names |-> << >>, dot |-> d, port |-> p]}
  \/ hosts = {} /\ \E n \in ToolNames : tools = {[name |-> n, description |-> << >>]}

Label ==
  /\ \E t \in hosts, x \in Numbers \union Names \union V6 :
       /\ Len(t.names) < MaxLabels
       /\ t.names # << >> => t.names[1] \notin V6 /\ x \notin V6
       /\ hosts' = {[t EXCEPT !.names = Append(@, x)]}
  /\ UNCHANGED tools
Describe ==
  /\ \E t \in tools, w \in Words :
       /\ Len(t.description) < MaxPhrase
       /\ tools' = {[t EXCEPT !.description = Append(@, w)]}
  /\ UNCHANGED hosts
ScanNext == Label \/ Describe
ScanSpec == ScanInit /\ [][ScanNext]_<<tools, hosts>>
-----------------------------------------------------------------------------
Joined(names) ==
  [k \in 1 .. 2 * Len(names) - 1 |-> IF k % 2 = 1 THEN names[(k + 1) \div 2] ELSE "."]
Written(t) ==
  LET name == IF t.names[1] \in V6 THEN <<"[">> \o t.names \o <<"]">>
              ELSE IF t.dot THEN Append(Joined(t.names), ".") ELSE Joined(t.names)
  IN t.user \o IF t.port THEN Append(name, ":80") ELSE name

(* Where a resolver goes: a number, however it is spelled, is an address;  *)
(* a name is public if it has a dot and is not under localhost.            *)
Reached(names) == IF Len(names) = 1 /\ names[1] \in DOMAIN Spelled
                    THEN Spelled[names[1]] ELSE names[Len(names)]
Outside(names, allow) ==
  LET last == names[Len(names)] IN
  IF Len(names) > 1 THEN last # "localhost" /\ last \notin allow
  ELSE Reached(names) \in {"8.8.8.8", "2001:db8::1", "evil.com", "api.ok"} \ allow

(* scan.mjs:219-281: a host is internal by where it leads, however it is   *)
(* written: user and port around it, brackets, a trailing dot, a number in *)
(* another spelling, a name that starts like an internal address or ends   *)
(* like an allowed one.  The scope read off it is that address's, and no   *)
(* host with an internal scope is external.  A name whose last label is a  *)
(* number is none.                                                         *)
SpellingsAgree ==
  \A t \in hosts :
    LET h == Written(t)
        scope == ipScope(h)
        n == Len(t.names)
    IN n > 0 /\ (n > 1 => t.names[n] \in Names) =>
       /\ \A allow \in SUBSET {"api.ok", "evil.com"} :
            isExternal(h, allow) = Outside(t.names, allow)
       /\ scope = "linklocal" => n = 1 /\ Reached(t.names) \in LinkLocal
       /\ scope = "private" => n = 1 /\ Reached(t.names) \in Private
       /\ n = 1 /\ t.names[1] \in LinkLocal \union Private /\ ~t.dot =>
            scope = IF t.names[1] \in LinkLocal THEN "linklocal" ELSE "private"
-----------------------------------------------------------------------------
(* What a description tells its reader to do: the words of an override, on *)
(* one line or several; a clause that reads a credential file and names a  *)
(* destination; a clause that steals.  The words of a clause are within    *)
(* reach of one another: the object 60 characters behind the theft, the    *)
(* file 80 behind the reading and the destination 100 behind the file.     *)
Overrides(x) ==
  \E i, j, k \in DOMAIN x :
    /\ i < j /\ j < k /\ x[i] = "ignore" /\ x[j] = "previous" /\ x[k] = "instructions"
    /\ \A m \in i .. k : m \in {i, j, k} \/ x[m] = "nl"
OneClause(x, i, k) == \A m \in i .. k : x[m] \notin {".", "nl"}
Within(n, x, i, j) == Chars(SubSeq(x, i + 1, j - 1)) <= n
Moves(x) ==
  \E i, j, k \in DOMAIN x :
    /\ i < j /\ j < k /\ x[i] = "read" /\ x[j] = ".aws/c.json" /\ x[k] = "https:"
    /\ OneClause(x, i, k) /\ Within(80, x, i, j) /\ Within(100, x, j, k)
Steals(x) ==
  \E i, j \in DOMAIN x :
    /\ i < j /\ x[i] = "steal" /\ x[j] \in {"secrets", ".aws/c.json", "https:"}
    /\ OneClause(x, i, j) /\ Within(60, x, i, j)

(* What a result is read for: a text of words says both at most.           *)
Instructs(x) == (IF Overrides(x) THEN {"instruction-override"} ELSE {})
                \union (IF Steals(x) THEN {Exfil} ELSE {})
Harmless == [name |-> <<"notes">>, description |-> << >>]

(* mcp.mjs:175-191,210-222, scan.mjs:74-94: a tool is critical exactly if  *)
(* its description instructs, and one clause does it, which a dot in a     *)
(* path does not end but a long aside puts out of reach; a clause that     *)
(* steals is advisory.  The words of its name are no instruction, but a    *)
(* path in it is still found, and a name that cannot be blanked hides      *)
(* nothing.  A result that is text is read as it stands, up to the bound.  *)
(* A list `redstamp scan-mcp` passes (cli.mjs:93-100) has no such tool in  *)
(* it, not even an advisory one.                                           *)
InstructionsAreSeen ==
  \A t \in tools :
    LET r == scanMcpTool(t.name, t.description)
        d == t.description
        critical == Overrides(d) \/ Moves(d)
    IN /\ critical => r.severity = "critical"
       /\ "nl" \notin Range(t.name) =>
            /\ r.severity = "critical" => critical
            /\ (Exfil \in r.flags) = Steals(d)
       /\ ("sensitive path" \in r.flags) = (".aws/c.json" \in Range(t.name \o d))
       /\ scanMcp({t, Harmless}) = 0 =>
            ~critical /\ ~Steals(d) /\ ".aws/c.json" \notin Range(d)
       /\ scanToolResult(<<d>>, TRUE) =
            Instructs(SubSeq(d, 1, IF Len(d) > MAX_RESULT_SCAN THEN MAX_RESULT_SCAN ELSE Len(d)))
=============================================================================

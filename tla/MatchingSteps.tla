---------------------------- MODULE MatchingSteps ----------------------------
(***************************************************************************)
(* The two matchers of a policy on every glob and every path: a step       *)
(* writes one character more.                                              *)
(***************************************************************************)
EXTENDS Matching

CONSTANTS Letters,           \* what a glob and a subject are written with, but for "*"
          NameLetters,       \* what a path is written with, but for "/" and "."
          MaxGlob, MaxPath   \* bounds: characters

ASSUME WrittenAssumption == MaxGlob \in Nat /\ MaxPath \in Nat \ {0}

VARIABLE written   \* as: "glob" or "path"; text: what is written of it

GlobChars == Letters \union {"*"}
PathChars == NameLetters \union {"/", "."}
TextsOf(chars, n) == UNION {[1 .. k -> chars] : k \in 0 .. n}

WrittenInit == written \in [as : {"glob", "path"}, text : {<< >>}]
Write(as, chars, max) ==
  /\ written.as = as /\ Len(written.text) < max
  /\ \E x \in chars : written' = [written EXCEPT !.text = Append(@, x)]
WriteNext == Write("glob", GlobChars, MaxGlob) \/ Write("path", PathChars, MaxPath)
WrittenSpec == WrittenInit /\ [][WriteNext]_written
-----------------------------------------------------------------------------
(* A glob means: each "*" is some run of characters, any other character   *)
(* is itself.  How much of the subject a beginning of the glob may have    *)
(* stood for tells how much one character more may.                        *)
Reach(at, x, t) ==
  IF x = "*" THEN {j \in 0 .. Len(t) : \E i \in at : i <= j}
  ELSE {j \in 1 .. Len(t) : j - 1 \in at /\ t[j] = x}
Reaches(g, t) ==
  LET at[i \in 0 .. Len(g)] == IF i = 0 THEN {0} ELSE Reach(at[i - 1], g[i], t)
  IN at[Len(g)]
Means(g, t) == Len(t) \in Reaches(g, t)

(* policy.mjs:32-38: the greedy scan from left to right, which never goes  *)
(* back, matches exactly what the glob means.                              *)
GlobIsExact ==
  written.as = "glob" =>
    \A t \in TextsOf(Letters, MaxGlob) : globMatch(written.text, t) <=> Means(written.text, t)
-----------------------------------------------------------------------------
(* Where a path leads from a directory of the tree, name by name.          *)
Enter(dir, name) ==
  IF name \in {<< >>, <<".">>} THEN dir
  ELSE IF name # UP THEN Append(dir, name)
  ELSE IF dir = << >> THEN dir ELSE SubSeq(dir, 1, Len(dir) - 1)
Walk(dir, names) ==
  LET in[i \in 0 .. Len(names)] == IF i = 0 THEN dir ELSE Enter(in[i - 1], names[i])
  IN in[Len(names)]
Leads(cwd, p) == Walk(IF Absolute(p) THEN << >> ELSE cwd, Split(p, "/"))

(* A working directory deep enough not to meet the top of the tree.        *)
Deep == [i \in 1 .. MaxPath + 1 |-> <<"w">>]
Climbs(r) == Split(normPath(r), "/")[1] = UP
Roots == {r \in TextsOf(PathChars, MaxPath - 1) : ~Climbs(r)}
Led == [r \in Roots |-> Leads(Deep, r)]

(* index.mjs:24-25,36-38: what withinRoots takes to be inside is inside,   *)
(* wherever the dots and slashes of either path are, and a sibling whose   *)
(* name starts like the root is not; under an absolute root, what leads    *)
(* inside is taken to be.  A root that itself climbs (..) is left out.     *)
RootsConfine ==
  written.as = "path" =>
    LET led == Leads(Deep, written.text) IN
    \A r \in Roots :
      LET beneath == StartsWith(led, Led[r])
      IN /\ withinRoots(written.text, {r}) => beneath
         /\ (beneath /\ Absolute(r) /\ Absolute(written.text)) => withinRoots(written.text, {r})
=============================================================================

------------------------------- MODULE Matching -------------------------------
(***************************************************************************)
(* The two matchers a policy is read with: globMatch() of                  *)
(* src/src/policy.mjs, behind every allow and deny rule, and normPath()    *)
(* and withinRoots() of src/src/index.mjs, behind writeRoots.  A text is a *)
(* sequence of characters; a path is one too, with "/" and "." in it.      *)
(***************************************************************************)
EXTENDS Integers, Sequences

(* s.split(c): a character c more, a part more.                            *)
SplitTurn(parts, c, x) ==
  IF x = c THEN Append(parts, << >>) ELSE [parts EXCEPT ![Len(parts)] = Append(@, x)]
Split(s, c) ==
  LET after[i \in 0 .. Len(s)] ==
        IF i = 0 THEN << << >> >> ELSE SplitTurn(after[i - 1], c, s[i])
  IN after[Len(s)]

(* seg is in the text behind its first i characters.                       *)
Stands(seg, text, i) ==
  i + Len(seg) <= Len(text) /\ \A j \in 1 .. Len(seg) : text[i + j] = seg[j]
StartsWith(s, t) == Stands(t, s, 0)
EndsWith(s, t) == Len(t) <= Len(s) /\ Stands(t, s, Len(s) - Len(t))

NotFound == -1
indexOf(text, seg, from) ==
  LET at == {i \in from .. Len(text) : Stands(seg, text, i)}
  IN IF at = {} THEN NotFound ELSE CHOOSE i \in at : \A j \in at : i <= j

(* The middle segments, each after the one before.                         *)
MiddleTurn(idx, seg, text) ==
  IF idx = NotFound \/ seg = << >> THEN idx
  ELSE LET at == indexOf(text, seg, idx)
       IN IF at = NotFound THEN NotFound ELSE at + Len(seg)
AfterMiddles(parts, text) ==
  LET idx[k \in 0 .. Len(parts) - 2] ==
        IF k = 0 THEN Len(parts[1]) ELSE MiddleTurn(idx[k - 1], parts[k + 1], text)
  IN idx[Len(parts) - 2]

globMatchOverlap(pattern, text) ==
  LET parts == Split(pattern, "*")
  IN IF Len(parts) = 1 THEN text = pattern
     ELSE /\ StartsWith(text, parts[1])
          /\ AfterMiddles(parts, text) # NotFound
          /\ EndsWith(text, parts[Len(parts)])
globMatch(pattern, text) ==
  LET parts == Split(pattern, "*")
      idx == AfterMiddles(parts, text)
      last == parts[Len(parts)]
  IN IF Len(parts) = 1 THEN text = pattern
     ELSE /\ StartsWith(text, parts[1])
          /\ idx # NotFound
          /\ Len(text) - Len(last) >= idx
          /\ EndsWith(text, last)
-----------------------------------------------------------------------------
Absolute(p) == StartsWith(p, <<"/">>)
UP == <<".", ".">>

(* path.posix.normalize and the trailing slash: no ".", and ".." only in   *)
(* front of a relative path.                                               *)
Step(absolute, walked, name) ==
  IF name \in {<< >>, <<".">>} THEN walked
  ELSE IF name # UP THEN Append(walked, name)
  ELSE IF walked # << >> /\ walked[Len(walked)] # UP THEN SubSeq(walked, 1, Len(walked) - 1)
  ELSE IF absolute THEN walked ELSE Append(walked, UP)
Walked(absolute, names) ==
  LET after[i \in 0 .. Len(names)] ==
        IF i = 0 THEN << >> ELSE Step(absolute, after[i - 1], names[i])
  IN after[Len(names)]
JoinTurn(s, name) == IF s = << >> THEN name ELSE s \o <<"/">> \o name
Join(names) ==
  LET joined[i \in 0 .. Len(names)] ==
        IF i = 0 THEN << >> ELSE JoinTurn(joined[i - 1], names[i])
  IN joined[Len(names)]
normPath(p) ==
  LET names == Walked(Absolute(p), Split(p, "/"))
  IN IF Absolute(p) THEN <<"/">> \o Join(names)
     ELSE IF names = << >> THEN <<".">> ELSE Join(names)

withinRootsByPrefix(p, roots) ==
  \E r \in roots : StartsWith(normPath(p), normPath(r))
withinRoots(p, roots) ==
  LET target == normPath(p)
  IN \E r \in roots :
       LET root == normPath(r)
       IN \/ target = root
          \/ StartsWith(target, IF root = <<"/">> THEN root ELSE Append(root, "/"))
=============================================================================

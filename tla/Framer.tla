-------------------------------- MODULE Framer --------------------------------
(***************************************************************************)
(* makeFramer() of src/src/mcp-proxy.mjs: lines out of the chunks of a     *)
(* stream, whose unfinished last line is kept up to a bound.  A character  *)
(* is a number, NL the line break.                                         *)
(***************************************************************************)
EXTENDS Integers, Sequences

NL == 0

(* The complete lines of a text, and what follows the last of them: the    *)
(* loop of push(), a character a turn.                                     *)
CutTurn(s, c) ==
  IF c = NL THEN [lines |-> Append(s.lines, s.rest), rest |-> << >>]
  ELSE [s EXCEPT !.rest = Append(@, c)]
Cut(t) ==
  LET after[i \in 0 .. Len(t)] ==
        IF i = 0 THEN [lines |-> << >>, rest |-> << >>] ELSE CutTurn(after[i - 1], t[i])
  IN after[Len(t)]

(* Faulty variant: the bound is held against the whole buffer.             *)
pushCapFirst(buf, chunk, maxLen) ==
  IF Len(buf \o chunk) > maxLen THEN [lines |-> << >>, buf |-> << >>, overflow |-> TRUE]
  ELSE LET c == Cut(buf \o chunk) IN [lines |-> c.lines, buf |-> c.rest, overflow |-> FALSE]
push(buf, chunk, maxLen) ==
  LET c == Cut(buf \o chunk)
      overflow == Len(c.rest) > maxLen
  IN [lines |-> c.lines, buf |-> IF overflow THEN << >> ELSE c.rest, overflow |-> overflow]
=============================================================================

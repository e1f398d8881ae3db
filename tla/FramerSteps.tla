------------------------------ MODULE FramerSteps ------------------------------
(***************************************************************************)
(* The framer of the proxy on every stream: a step is the next chunk of    *)
(* it, wherever the sender's or the pipe's buffers happened to cut it.     *)
(***************************************************************************)
EXTENDS Framer

CONSTANTS MaxStream, MaxChunk,   \* bounds: the characters of a stream, of a chunk
          MaxLine                \* maxLen of makeFramer

ASSUME StreamAssumption == MaxStream \in Nat /\ MaxChunk \in Nat /\ MaxLine \in Nat

VARIABLE stream    \* what was sent, the lines that came out, and the closure's buf

StreamInit == stream = [sent |-> << >>, lines |-> << >>, buf |-> << >>]

(* The next chunk arrives; every character but a line break is another.    *)
Chunk ==
  \E n \in 1 .. MaxChunk : \E breaks \in SUBSET (1 .. n) :
    LET at == Len(stream.sent)
        chunk == [i \in 1 .. n |-> IF i \in breaks THEN NL ELSE at + i]
        got == push(stream.buf, chunk, MaxLine)
    IN /\ at + n <= MaxStream
       /\ stream' = [sent |-> stream.sent \o chunk, lines |-> stream.lines \o got.lines,
                     buf |-> got.buf]
StreamSpec == StreamInit /\ [][Chunk]_stream
-----------------------------------------------------------------------------
(* Where the lines of a text end, and the k-th of them; the one after the  *)
(* last break is not complete.                                             *)
Break(b, c, i) == IF c = NL THEN Append(b, i) ELSE b
Breaks(s) ==
  LET upto[i \in 0 .. Len(s)] == IF i = 0 THEN << >> ELSE Break(upto[i - 1], s[i], i)
  IN upto[Len(s)]
LineStart(b, k) == IF k = 1 THEN 1 ELSE b[k - 1] + 1
LineEnd(s, b, k) == IF k <= Len(b) THEN b[k] - 1 ELSE Len(s)
LineOf(s, k) == SubSeq(s, LineStart(Breaks(s), k), LineEnd(s, Breaks(s), k))

(* A line that is within the bound comes out whole, and any other without  *)
(* its beginning at most.                                                  *)
Keeps(got, line) ==
  \E n \in 0 .. Len(line) : /\ got = SubSeq(line, n + 1, Len(line))
                            /\ Len(line) <= MaxLine => n = 0

(* mcp-proxy.mjs:14-32: however a stream is cut into chunks, each of its   *)
(* lines comes out once and in its place, whole if it is within the bound, *)
(* and otherwise without its beginning at most; the bound holds for what   *)
(* is kept.                                                                *)
FramesAreLines ==
  /\ Len(stream.lines) = Len(Breaks(stream.sent))
  /\ \A k \in DOMAIN stream.lines : Keeps(stream.lines[k], LineOf(stream.sent, k))
  /\ Keeps(stream.buf, LineOf(stream.sent, Len(stream.lines) + 1))
  /\ Len(stream.buf) <= MaxLine
=============================================================================

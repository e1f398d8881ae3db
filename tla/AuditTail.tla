------------------------------- MODULE AuditTail -------------------------------
(***************************************************************************)
(* lastHashOf() of src/src/audit.mjs: where ChainedFileAudit without a     *)
(* checkpoint continues the chain.  It reads the end of the file in        *)
(* windows that grow until one holds a usable record, instead of the whole *)
(* file as chainStateOf does.  Sizes are in units of the smallest window.  *)
(***************************************************************************)
EXTENDS AuditFile

Growth == 8

(* Where each line ends, when line j is size[j] long with its newline.     *)
Ends(size, n) ==
  LET end[i \in 0 .. n] == IF i = 0 THEN 0 ELSE end[i - 1] + size[i] IN end

(* The chained ones of the whole lines that the last `len` units show.  A  *)
(* window that does not go back to the start of the file drops its first   *)
(* segment, a whole line or not.                                           *)
Usable(f, end, len) ==
  {i \in Chained(f) : len = end[Len(f)] \/ end[i - 1] > end[Len(f)] - len}

LastOf(lines) == CHOOSE m \in lines : \A j \in lines : j <= m
HashIn(f, lines) == IF lines = {} THEN GENESIS ELSE f[LastOf(lines)].hash

(* The first window with a usable record gives the last one's hash.  Each  *)
(* window is cut to the file, and one over the whole file ends the loop.   *)
Window(total, chunk) == IF chunk < total THEN chunk ELSE total
LastHashOfFixed(f, size) ==
  LET end == Ends(size, Len(f)) IN HashIn(f, Usable(f, end, Window(end[Len(f)], 1)))
LastHashOf(f, size) ==
  LET end == Ends(size, Len(f))
      window(chunk) == Window(end[Len(f)], chunk)
      read[chunk \in Nat \ {0}] ==
        IF Usable(f, end, window(chunk)) # {} \/ window(chunk) = end[Len(f)]
        THEN HashIn(f, Usable(f, end, window(chunk)))
        ELSE read[Growth * chunk]
  IN read[1]
=============================================================================

----------------------------- MODULE AuditLedger -----------------------------
(***************************************************************************)
(* What the streaming audit of src/src/audit.mjs promises, with no file,   *)
(* no hash and no crash: a ledger that only ever grows by one record at    *)
(* its end, and an anchor that pins a prefix of it.  The anchor moves to   *)
(* the ledger's end or, when the sidecar cannot be read, is not there (0). *)
(***************************************************************************)
EXTENDS Naturals, Sequences

CONSTANT Recs
VARIABLES ledger, anchor

Init == ledger = << >> /\ anchor = 0

Extend == /\ \E r \in Recs : ledger' = Append(ledger, r)
          /\ UNCHANGED anchor
MoveAnchor == /\ anchor' = Len(ledger)
              /\ UNCHANGED ledger
LoseAnchor == /\ anchor' = 0
              /\ UNCHANGED ledger

Next == Extend \/ MoveAnchor \/ LoseAnchor
Spec == Init /\ [][Next]_<<ledger, anchor>>
=============================================================================

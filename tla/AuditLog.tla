------------------------------- MODULE AuditLog -------------------------------
(***************************************************************************)
(* class AuditLog of src/src/audit.mjs: the in-memory chain, verify() and  *)
(* flush().  Its state is the sequence of its entries; this.prev is the    *)
(* hash of the last one.                                                   *)
(***************************************************************************)
EXTENDS AuditFile

Prev(entries) ==
  IF entries = << >> THEN GENESIS ELSE entries[Len(entries)].hash

record(entries, rec) == Append(entries, ChainedLine(Prev(entries), rec))

verify(entries) == LinksHold(entries)

(* All the entries are appended to whatever the file holds.                *)
flush(file, entries) == file \o entries
=============================================================================

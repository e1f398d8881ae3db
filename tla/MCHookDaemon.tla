---------------------------- MODULE MCHookDaemon ----------------------------
EXTENDS HookDaemon

(* Two calls of two sessions that use one id: the joins have each other's  *)
(* records in them, and each call alone has none but its own.              *)
OneId == {[id |-> "t1", session |-> "s1"], [id |-> "t1", session |-> "s2"]}
=============================================================================

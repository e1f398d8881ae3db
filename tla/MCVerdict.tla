------------------------------ MODULE MCVerdict ------------------------------
(***************************************************************************)
(* The verdicts on every action (VerdictSteps) and, beside them, the       *)
(* streams the calls come in (FramerSteps), the globs and paths of a       *)
(* policy (MatchingSteps), hosts and tool descriptions (ScanSteps), the    *)
(* command lines (EgressSteps), and the commands and calls the evidence is *)
(* read from, which the other modules it extends write.                    *)
(***************************************************************************)
EXTENDS VerdictSteps, FramerSteps, MatchingSteps, ScanSteps, EgressSteps, MCCall

Plainest == [class |-> "other", base |-> "green", secret |-> FALSE, external |-> FALSE,
             skill |-> FALSE, inj |-> FALSE, ssrf |-> "none", persist |-> FALSE,
             listed |-> FALSE, cmd |-> FALSE, egress |-> FALSE, outside |-> FALSE,
             smell |-> FALSE, denied |-> FALSE, allowed |-> FALSE]

NoEvidence == e = Plainest /\ leaves = {}
NoneWritten == written = [as |-> "none", text |-> << >>]

(* Identifiers that read like prose, and one with a line break in it.      *)
SomeNames == { << >>, <<"ignore", "previous", "instructions">>, <<"steal", "secrets">>,
              <<".aws/c.json">>, <<"ignore", "nl", "previous">>}

Init == /\ StreamInit
        /\ \/ EvidenceInit /\ kind = "none" /\ NoText /\ NoneWritten /\ NothingScanned /\ NoLine
           \/ /\ NoEvidence /\ NoText
              /\ \/ kind = "stream" /\ NoneWritten /\ NothingScanned /\ NoLine
                 \/ kind = "policy" /\ WrittenInit /\ NothingScanned /\ NoLine
                 \/ kind = "scan" /\ NoneWritten /\ ScanInit /\ NoLine
                 \/ kind = "line" /\ NoneWritten /\ NothingScanned /\ LineInit
           \/ /\ NoEvidence /\ NoneWritten /\ NothingScanned /\ NoLine
              /\ ShellInit \/ CallInit
Next == \/ /\ kind = "none" /\ EvidenceNext
           /\ UNCHANGED <<kind, text, stream, written, tools, hosts, lines>>
        \/ /\ kind = "stream" /\ Chunk
           /\ UNCHANGED <<e, leaves, kind, text, written, tools, hosts, lines>>
        \/ WriteNext /\ UNCHANGED <<e, leaves, kind, text, stream, tools, hosts, lines>>
        \/ ScanNext /\ UNCHANGED <<e, leaves, kind, text, stream, written, lines>>
        \/ AddWord /\ UNCHANGED <<e, leaves, kind, text, stream, written, tools, hosts>>
        \/ /\ ShellNext \/ CallNext
           /\ UNCHANGED <<e, leaves, stream, written, tools, hosts, lines>>
Spec == Init /\ [][Next]_<<e, leaves, kind, text, stream, written, tools, hosts, lines>>
=============================================================================

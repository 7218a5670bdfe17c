---------------------------- MODULE AuditSink ----------------------------
(***************************************************************************)
(* What the audit log promises to whoever reads it (docs/security.md,      *)
(* "The audit log keeps receipts"): an append-only journal in which a      *)
(* request has at most one entry, and has it before its answer is sent.    *)
(***************************************************************************)
EXTENDS Integers, Sequences

CONSTANT Reqs

VARIABLES
    journal,    \* the requests that have an entry, in the order of entries
    answered    \* the requests whose answer was sent

sinkVars == <<journal, answered>>

Entries == {journal[i] : i \in DOMAIN journal}

SinkInit == journal = <<>> /\ answered = {}

Record(r) ==
    /\ r \notin Entries
    /\ journal' = Append(journal, r)
    /\ UNCHANGED answered

Reply(r) ==
    /\ r \in Entries
    /\ answered' = answered \cup {r}
    /\ UNCHANGED journal

SinkNext == \E r \in Reqs : Record(r) \/ Reply(r)

SinkSpec == SinkInit /\ [][SinkNext]_sinkVars
===========================================================================

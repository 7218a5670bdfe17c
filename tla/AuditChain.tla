---------------------------- MODULE AuditChain ----------------------------
(***************************************************************************)
(* The audit file and its tamper-evident chain as pure operators:          *)
(* internal/server/audit.go (lastRecordHash, the shape of a record, what   *)
(* an append leaves on disk, Verify) and the exit codes of                 *)
(* `sparkyctrl verify` (internal/cli/cli.go, runVerify).                   *)
(*                                                                         *)
(* SHA-256 and HMAC are ideal: two different lines never share a hash, and *)
(* a MAC checks out under the key it was made with and no other.  A line   *)
(* is therefore a record whose id IS its hash, whose key is the key its    *)
(* MAC was made with, and whose text is only                               *)
(*   "record"  a chained JSON record (prev_hash and hmac present),         *)
(*   "legacy"  a JSON record of a version without the chain,               *)
(*   "junk"    bytes json.Unmarshal rejects: a torn record, or a record    *)
(*             glued to a line that had lost its newline.                  *)
(* req is the request the record reports.                                  *)
(***************************************************************************)
EXTENDS Integers, Sequences, FiniteSets

CONSTANTS
    Reqs,   \* requests whose handlers call Auditor.Log, once each
    Keys    \* HMAC keys

NoKey == "absent"       \* there is no <audit>.key, or no key in memory
EmptyKey == "empty"     \* os.WriteFile created <audit>.key, nothing in it yet
NoReq == "none"
ZeroHash == 0           \* the [32]byte{} a fresh chain starts from

ASSUME ChainAssumption ==
    /\ NoKey \notin Keys
    /\ EmptyKey \notin Keys
    /\ NoReq \notin Reqs

Line == [id: Nat, form: {"record", "legacy", "junk"}, prev: Nat,
         key: Keys \cup {NoKey}, req: Reqs \cup {NoReq}, nl: BOOLEAN]

Junk(id, nl) ==
    [id |-> id, form |-> "junk", prev |-> ZeroHash, key |-> NoKey,
     req |-> NoReq, nl |-> nl]

LegacyLine(id) == [Junk(id, TRUE) EXCEPT !.form = "legacy"]

(* The line Log builds for request r: prev_hash, then the HMAC over the    *)
(* record with an empty hmac field, then a newline.                        *)
ChainedLine(id, prev, key, r) ==
    [id |-> id, form |-> "record", prev |-> prev, key |-> key, req |-> r,
     nl |-> TRUE]

---------------------------------------------------------------------------
(* What the file holds.                                                    *)

(* Variant: a tail without chain fields counts as an empty file.           *)
LastChainedHash(f) ==
    IF f = <<>> \/ f[Len(f)].form # "record" THEN ZeroHash ELSE f[Len(f)].id

LastRecordHash(f) == IF f = <<>> THEN ZeroHash ELSE f[Len(f)].id

TornTail(f) == f # <<>> /\ ~f[Len(f)].nl

(* What one f.Write(line) on the O_APPEND descriptor leaves, by how much   *)
(* of the line reached the file: all of it ("full"), all but the newline   *)
(* ("body"), a proper prefix ("part"), nothing ("none").  Log ignores the  *)
(* result.  Bytes that follow a line without a newline become part of that *)
(* line, which is then no JSON; fresh is the hash of such a line.          *)
AppendBytes(f, l, how, fresh) ==
    CASE how = "none" -> f
      [] how # "none" /\ TornTail(f) ->
            [f EXCEPT ![Len(f)] = Junk(fresh, how = "full")]
      [] how # "none" /\ ~TornTail(f) ->
            Append(f, IF how = "part" THEN Junk(fresh, FALSE)
                                      ELSE [l EXCEPT !.nl = (how = "full")])

Recorded(f, r) == \E i \in DOMAIN f : f[i].form = "record" /\ f[i].req = r

---------------------------------------------------------------------------
(* Verify walks the lines in order and stops at the first that is not      *)
(* JSON, has no chain fields, does not name the hash of the line before    *)
(* it, or whose MAC is not the key's.                                      *)

HashBefore(f, i) == IF i = 1 THEN ZeroHash ELSE f[i - 1].id

(* Variant: the MAC is checked and prev_hash is not.                       *)
ContinuesMacOnly(f, k, i) == f[i].form = "record" /\ f[i].key = k

Continues(f, k, i) ==
    /\ f[i].form = "record"
    /\ f[i].prev = HashBefore(f, i)
    /\ f[i].key = k

StopsAt(f, k) == {i \in 1..Len(f) : ~Continues(f, k, i)}

(* Variant: the walk goes on and reports the last bad line.                *)
LastOf(S) == CHOOSE i \in S : \A j \in S : j <= i

FirstOf(S) == CHOOSE i \in S : \A j \in S : i <= j

Verify(f, k) ==
    LET stop == FirstOf(StopsAt(f, k))
    IN  IF StopsAt(f, k) = {} THEN [line |-> 0, err |-> FALSE]
        ELSE IF f[stop].form = "legacy" THEN [line |-> -1, err |-> FALSE]
        ELSE [line |-> stop, err |-> TRUE]

(* The exit status of `sparkyctrl verify` given the key it found (the      *)
(* --key flag or the key file): 2 without a usable key, then the error     *)
(* test, and only then the switch on the line number.                      *)
VerifyExit(f, k) ==
    IF k \notin Keys THEN 2
    ELSE IF Verify(f, k).err THEN 3
    ELSE CASE Verify(f, k).line = 0 -> 0
           [] Verify(f, k).line = -1 -> 2
           [] OTHER -> 1
===========================================================================

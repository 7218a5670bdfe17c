--------------------------- MODULE AuditTamper ---------------------------
(***************************************************************************)
(* The audit log with one change made to the file from outside, by someone *)
(* who does not hold the key: a record edited, with its chain fields left  *)
(* in or taken out, removed or swapped with its neighbour, or the file cut *)
(* short.  A line is never added.  It happens at any moment, between       *)
(* any two steps of the worker, which goes on logging and may restart.     *)
(* What Verify is documented to say of it is in docs/security.md,          *)
(* "Tamper-evident chain".                                                 *)
(***************************************************************************)
EXTENDS AuditLog

VARIABLE
    tamper     \* what was done: kind, the line it was done at, whether a
               \* worker had the log open then, which one, the next hash

tamperVars == <<vars, tamper>>

Untouched ==
    [kind |-> "none", at |-> 0, live |-> FALSE, life |-> 0, serial |-> 0]

TamperInit == Init /\ tamper = Untouched

Touch(kind, i, f) ==
    /\ tamper = Untouched
    /\ file' = f
    /\ tamper' = [kind |-> kind, at |-> i, live |-> worker = "up",
                  life |-> crashes, serial |-> serial]
    /\ serial' = serial + 1
    /\ UNCHANGED <<legacy, keyFile, worker, memKey, prevHash, mutex, pc, line,
                   life, faults, crashes>>

(* The text of a line changes and so does its hash; it is still a record   *)
(* with both chain fields, whose MAC fits no key, or no JSON any more.     *)
EditRecord ==
    \E i \in DOMAIN file, form \in {"record", "junk"} :
        Touch("inside", i,
              [file EXCEPT ![i].id = serial, ![i].form = form,
                           ![i].key = NoKey])

(* The text of a line changes and its prev_hash or hmac is empty or gone:  *)
(* what is left looks like a record of a version without the chain.        *)
StripRecord ==
    \E i \in DOMAIN file :
        Touch("stripped", i,
              [file EXCEPT ![i].id = serial, ![i].form = "legacy",
                           ![i].key = NoKey])

RemoveRecord ==
    \E i \in 1 .. Len(file) - 1 :
        Touch("inside", i,
              SubSeq(file, 1, i - 1) \o SubSeq(file, i + 1, Len(file)))

SwapRecords ==
    \E i \in 1 .. Len(file) - 1 :
        Touch("inside", i,
              [file EXCEPT ![i] = file[i + 1], ![i + 1] = file[i]])

(* truncate(1), or a log rotation that copies and truncates: the first n   *)
(* records stay.                                                           *)
CutShort ==
    \E n \in 0 .. Len(file) - 1 : Touch("cut", n + 1, SubSeq(file, 1, n))

TamperNext ==
    \/ Next /\ UNCHANGED tamper
    \/ EditRecord
    \/ StripRecord
    \/ RemoveRecord
    \/ SwapRecords
    \/ CutShort

TamperSpec == TamperInit /\ [][TamperNext]_tamperVars

---------------------------------------------------------------------------

(* Deletions, reorderings and edits that leave the chain fields in are     *)
(* detected, at the right line (audit.go:20-21 and 179-181), and stay      *)
(* detected at that line whatever the worker logs afterwards and however   *)
(* often it restarts and resumes the chain from the changed tail.  A log   *)
(* that failed writes or a lost key had broken before is reported there,   *)
(* not later.  An edit that takes the chain fields out is not located:     *)
(* nobody needs the key for it, and Verify takes the line for a legacy     *)
(* record, says -1 without an error and looks at nothing after it          *)
(* (audit.go:203-208).  Such a log never verifies as whole either, and     *)
(* that is all.                                                            *)
TamperLocated ==
    legacy = 0 =>
        /\ tamper.kind = "inside" =>
              /\ \A k \in Keys : /\ Verify(file, k).err
                                  /\ Verify(file, k).line <= tamper.at
              /\ (faults = 0 /\ VerifyKey \in Keys) =>
                    Verify(file, VerifyKey).line = tamper.at
        /\ tamper.kind = "stripped" =>
              /\ \A k \in Keys : /\ Verify(file, k).line # 0
                                  /\ Verify(file, k).line <= tamper.at
              /\ (faults = 0 /\ VerifyKey \in Keys) =>
                    Verify(file, VerifyKey) = [line |-> -1, err |-> FALSE]

(* A log cut short under a running worker is detected as soon as that      *)
(* worker logs again: its prevHash still names a record that is gone       *)
(* (audit.go:83,98).  docs/security.md: it catches `truncate -s0`.         *)
LiveCutDetected ==
    (/\ tamper.kind = "cut" /\ tamper.live
     /\ \E r \in Reqs : /\ Recorded(file, r)
                        /\ life[r] = tamper.life
                        /\ line[r].id >= tamper.serial
     /\ VerifyKey \in Keys) =>
        VerifyExit(file, VerifyKey) # 0

(* Until somebody touches the file, also a log that began with records of  *)
(* an un-chained version (audit.go:47-56) is linked from the last of those *)
(* on, holds one entry per answered request, and is reported as legacy.    *)
UntouchedIntact == tamper = Untouched => WorkerInv /\ ChainIntact

(* cli.go:606-611 and the table of docs/security.md: tampering exits 1.    *)
TamperExitsOne ==
    (tamper.kind \in {"inside", "stripped"} /\ VerifyKey \in Keys) =>
        VerifyExit(file, VerifyKey) = 1
===========================================================================

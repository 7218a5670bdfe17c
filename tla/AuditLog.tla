----------------------------- MODULE AuditLog -----------------------------
(***************************************************************************)
(* The worker's audit log: `sparkyctrl serve` loading or creating the HMAC *)
(* key and resuming the chain (internal/cli/cli.go runServe,               *)
(* internal/server/audit.go NewAuditor), and the request goroutines that   *)
(* execute, call Auditor.Log under its mutex, and only then answer         *)
(* (internal/server/server.go).  The process may die between any two steps *)
(* and be restarted; a write may be short or fail (a full disk), which Log *)
(* ignores.                                                                *)
(***************************************************************************)
EXTENDS AuditChain

CONSTANTS
    FlagKey,       \* the --audit-key flag, NoKey when it is not given
    LegacyCounts,  \* how many records an un-chained version may have left
    MaxFaults,     \* bound on short or failed writes and lost key files
    MaxCrashes     \* bound on process deaths

ASSUME AuditLogAssumption ==
    /\ FlagKey \in Keys \cup {NoKey}
    /\ LegacyCounts \subseteq Nat
    /\ MaxFaults \in Nat
    /\ MaxCrashes \in Nat

VARIABLES
    legacy,    \* the records an un-chained version left in the file
    file,      \* the audit file, a sequence of lines
    serial,    \* the next hash nothing has yet
    keyFile,   \* <audit>.key: a key, EmptyKey or NoKey
    worker,    \* where runServe is
    memKey,    \* Auditor.key
    prevHash,  \* Auditor.prevHash
    mutex,     \* the request that holds Auditor.mu
    pc,        \* where each request's handler is
    line,      \* the line each request's Log call has built
    life,      \* the process (by crash count) that built it
    faults, crashes

vars == <<legacy, file, serial, keyFile, worker, memKey, prevHash, mutex, pc, line,
          life, faults, crashes>>

WorkerStates == {"down", "persisting", "keyed", "up", "refused"}
HandlerStates ==
    {"new", "ran", "locked", "chained", "logged", "answered", "aborted"}

TypeOK ==
    /\ legacy \in LegacyCounts
    /\ file \in Seq(Line)
    /\ serial \in Nat
    /\ keyFile \in Keys \cup {NoKey, EmptyKey}
    /\ worker \in WorkerStates
    /\ memKey \in Keys \cup {NoKey}
    /\ prevHash \in Nat
    /\ mutex \in Reqs \cup {NoReq}
    /\ pc \in [Reqs -> HandlerStates]
    /\ line \in [Reqs -> Line]
    /\ life \in [Reqs -> Nat]
    /\ faults \in 0..MaxFaults
    /\ crashes \in 0..MaxCrashes

Init ==
    /\ legacy \in LegacyCounts
    /\ file = [i \in 1..legacy |-> LegacyLine(i)]
    /\ serial = legacy + 1
    /\ keyFile = NoKey
    /\ worker = "down"
    /\ memKey = NoKey
    /\ prevHash = ZeroHash
    /\ mutex = NoReq
    /\ pc = [r \in Reqs |-> "new"]
    /\ line = [r \in Reqs |-> Junk(0, FALSE)]
    /\ life = [r \in Reqs |-> 0]
    /\ faults = 0
    /\ crashes = 0

---------------------------------------------------------------------------
(* Start-up: the key, then the log.                                        *)

LoadKey ==
    /\ worker = "down"
    /\ \/ FlagKey # NoKey /\ memKey' = FlagKey
       \/ FlagKey = NoKey /\ keyFile \in Keys /\ memKey' = keyFile
    /\ worker' = "keyed"
    /\ UNCHANGED <<legacy, file, serial, keyFile, prevHash, mutex, pc, line,
                   life, faults, crashes>>

(* No readable key file: a fresh key, which os.WriteFile persists in two   *)
(* steps, creating the file and then writing it.                           *)
GenerateKey ==
    /\ worker = "down"
    /\ FlagKey = NoKey
    /\ keyFile = NoKey
    /\ \E k \in Keys \ {file[i].key : i \in DOMAIN file} : memKey' = k
    /\ keyFile' = EmptyKey
    /\ worker' = "persisting"
    /\ UNCHANGED <<legacy, file, serial, prevHash, mutex, pc, line, life,
                   faults, crashes>>

PersistKey ==
    /\ worker = "persisting"
    /\ keyFile' = memKey
    /\ worker' = "keyed"
    /\ UNCHANGED <<legacy, file, serial, memKey, prevHash, mutex, pc, line,
                   life, faults, crashes>>

(* Variant: an empty key file is accepted as a key.                        *)
AcceptEmptyKey ==
    /\ worker = "down"
    /\ FlagKey = NoKey
    /\ keyFile = EmptyKey
    /\ memKey' = keyFile
    /\ worker' = "keyed"
    /\ UNCHANGED <<legacy, file, serial, keyFile, prevHash, mutex, pc, line,
                   life, faults, crashes>>

(* A key file without a key in it ends runServe.                           *)
RefuseStart ==
    /\ worker = "down"
    /\ FlagKey = NoKey
    /\ keyFile = EmptyKey
    /\ worker' = "refused"
    /\ UNCHANGED <<legacy, file, serial, keyFile, memKey, prevHash, mutex, pc,
                   line, life, faults, crashes>>

(* Variant: the chain starts afresh on every start.                        *)
OpenAuditFresh ==
    /\ worker = "keyed"
    /\ prevHash' = ZeroHash
    /\ worker' = "up"
    /\ UNCHANGED <<legacy, file, serial, keyFile, memKey, mutex, pc, line,
                   life, faults, crashes>>

(* NewAuditor resumes the chain from the tail of the file.                 *)
OpenAudit ==
    /\ worker = "keyed"
    /\ prevHash' = LastRecordHash(file)
    /\ worker' = "up"
    /\ UNCHANGED <<legacy, file, serial, keyFile, memKey, mutex, pc, line,
                   life, faults, crashes>>

---------------------------------------------------------------------------
(* One request: the handler runs the operation, logs it, answers.          *)

Execute(r) ==
    /\ worker = "up"
    /\ pc[r] = "new"
    /\ pc' = [pc EXCEPT ![r] = "ran"]
    /\ UNCHANGED <<legacy, file, serial, keyFile, worker, memKey, prevHash,
                   mutex, line, life, faults, crashes>>

(* Variant: Log does not take the mutex.                                   *)
LockUnguarded(r) ==
    /\ pc[r] = "ran"
    /\ mutex' = r
    /\ pc' = [pc EXCEPT ![r] = "locked"]
    /\ UNCHANGED <<legacy, file, serial, keyFile, worker, memKey, prevHash,
                   line, life, faults, crashes>>

Lock(r) ==
    /\ pc[r] = "ran"
    /\ mutex = NoReq
    /\ mutex' = r
    /\ pc' = [pc EXCEPT ![r] = "locked"]
    /\ UNCHANGED <<legacy, file, serial, keyFile, worker, memKey, prevHash,
                   line, life, faults, crashes>>

(* Variant: the chain is taken from the file's tail instead of prevHash.   *)
ChainFromFile(r) ==
    /\ pc[r] = "locked"
    /\ line' = [line EXCEPT ![r] =
                    ChainedLine(serial, LastRecordHash(file), memKey, r)]
    /\ life' = [life EXCEPT ![r] = crashes]
    /\ prevHash' = serial
    /\ serial' = serial + 1
    /\ pc' = [pc EXCEPT ![r] = "chained"]
    /\ UNCHANGED <<legacy, file, keyFile, worker, memKey, mutex, faults,
                   crashes>>

(* The line is chained to prevHash, and prevHash moves to the line, before *)
(* anything is written.                                                    *)
Chain(r) ==
    /\ pc[r] = "locked"
    /\ line' = [line EXCEPT ![r] = ChainedLine(serial, prevHash, memKey, r)]
    /\ life' = [life EXCEPT ![r] = crashes]
    /\ prevHash' = serial
    /\ serial' = serial + 1
    /\ pc' = [pc EXCEPT ![r] = "chained"]
    /\ UNCHANGED <<legacy, file, keyFile, worker, memKey, mutex, faults,
                   crashes>>

(* Variants: prevHash follows what is in the file; the mutex is kept when  *)
(* the write fails; the write is retried although it had succeeded.        *)
WriteRollsBack(r) ==
    /\ pc[r] = "chained"
    /\ \E how \in {"full", "body", "part", "none"} :
          /\ how # "full" => faults < MaxFaults
          /\ faults' = IF how = "full" THEN faults ELSE faults + 1
          /\ file' = AppendBytes(file, line[r], how, serial)
    /\ prevHash' = LastRecordHash(file')
    /\ serial' = serial + 1
    /\ mutex' = NoReq
    /\ pc' = [pc EXCEPT ![r] = "logged"]
    /\ UNCHANGED <<legacy, keyFile, worker, memKey, line, life, crashes>>

WriteKeepsLock(r) ==
    /\ pc[r] = "chained"
    /\ \E how \in {"full", "body", "part", "none"} :
          /\ how # "full" => faults < MaxFaults
          /\ faults' = IF how = "full" THEN faults ELSE faults + 1
          /\ file' = AppendBytes(file, line[r], how, serial)
          /\ mutex' = IF how = "full" THEN NoReq ELSE mutex
    /\ serial' = serial + 1
    /\ pc' = [pc EXCEPT ![r] = "logged"]
    /\ UNCHANGED <<legacy, keyFile, worker, memKey, prevHash, line, life,
                   crashes>>

WriteTwice(r) ==
    /\ pc[r] = "chained"
    /\ file' = file \o <<line[r], line[r]>>
    /\ serial' = serial + 1
    /\ mutex' = NoReq
    /\ pc' = [pc EXCEPT ![r] = "logged"]
    /\ UNCHANGED <<legacy, keyFile, worker, memKey, prevHash, line, life,
                   faults, crashes>>

(* f.Write and the deferred unlock.                                        *)
Write(r) ==
    /\ pc[r] = "chained"
    /\ \E how \in {"full", "body", "part", "none"} :
          /\ how # "full" => faults < MaxFaults
          /\ faults' = IF how = "full" THEN faults ELSE faults + 1
          /\ file' = AppendBytes(file, line[r], how, serial)
    /\ serial' = serial + 1
    /\ mutex' = NoReq
    /\ pc' = [pc EXCEPT ![r] = "logged"]
    /\ UNCHANGED <<legacy, keyFile, worker, memKey, prevHash, line, life,
                   crashes>>

(* Variant: the answer does not wait for the record.                       *)
AnswerEarly(r) ==
    /\ pc[r] \in {"ran", "logged"}
    /\ pc' = [pc EXCEPT ![r] = "answered"]
    /\ UNCHANGED <<legacy, file, serial, keyFile, worker, memKey, prevHash,
                   mutex, line, life, faults, crashes>>

Answer(r) ==
    /\ pc[r] = "logged"
    /\ pc' = [pc EXCEPT ![r] = "answered"]
    /\ UNCHANGED <<legacy, file, serial, keyFile, worker, memKey, prevHash,
                   mutex, line, life, faults, crashes>>

---------------------------------------------------------------------------
(* What happens to the process and its files from outside.                 *)

InFlight(s) == s \in {"ran", "locked", "chained", "logged"}

Crash ==
    /\ worker \notin {"down", "refused"}
    /\ crashes < MaxCrashes
    /\ crashes' = crashes + 1
    /\ worker' = "down"
    /\ memKey' = NoKey
    /\ prevHash' = ZeroHash
    /\ mutex' = NoReq
    /\ pc' = [r \in Reqs |-> IF InFlight(pc[r]) THEN "aborted" ELSE pc[r]]
    /\ UNCHANGED <<legacy, file, serial, keyFile, line, life, faults>>

(* The key file is deleted, or cannot be read when runServe tries: any     *)
(* error of os.ReadFile makes it generate a new key over the old one.      *)
LoseKey ==
    /\ worker = "down"
    /\ keyFile \in Keys
    /\ faults < MaxFaults
    /\ faults' = faults + 1
    /\ keyFile' = NoKey
    /\ UNCHANGED <<legacy, file, serial, worker, memKey, prevHash, mutex, pc,
                   line, life, crashes>>

(* The operator removes the empty key file that keeps the worker down.     *)
RemoveEmptyKey ==
    /\ worker = "refused"
    /\ keyFile' = NoKey
    /\ worker' = "down"
    /\ UNCHANGED <<legacy, file, serial, memKey, prevHash, mutex, pc, line,
                   life, faults, crashes>>

Start == LoadKey \/ GenerateKey \/ PersistKey \/ RefuseStart \/ OpenAudit

Handle(r) == Execute(r) \/ Lock(r) \/ Chain(r) \/ Write(r) \/ Answer(r)

Next ==
    \/ Start
    \/ \E r \in Reqs : Handle(r)
    \/ Crash
    \/ LoseKey
    \/ RemoveEmptyKey

Spec == Init /\ [][Next]_vars

(* A goroutine that can run does run, and Go's mutex hands itself to the   *)
(* longest waiter (starvation mode), so a Lock that is enabled again and   *)
(* again is taken.  Nothing is assumed of crashes, of the operator or of   *)
(* the arrival of requests.                                                *)
Fairness ==
    /\ WF_vars(Start)
    /\ \A r \in Reqs :
          SF_vars(Lock(r)) /\ WF_vars(Chain(r) \/ Write(r) \/ Answer(r))

FairSpec == Spec /\ Fairness

---------------------------------------------------------------------------
(* Properties.                                                             *)

(* The key `sparkyctrl verify` uses: the --key flag or the key file.       *)
VerifyKey == IF FlagKey # NoKey THEN FlagKey ELSE keyFile

Logged(r) == pc[r] \in {"logged", "answered"}

(* A log nobody touched verifies (audit.go:179-184): with every write      *)
(* complete and the key file kept, whatever the interleaving of the        *)
(* handlers and wherever the worker was killed and restarted, verify with  *)
(* the key of the key file reports an intact chain, or legacy records when *)
(* the log began with some.                                                *)
ChainIntact ==
    (faults = 0 /\ VerifyKey \in Keys) =>
        VerifyExit(file, VerifyKey) = (IF legacy = 0 THEN 0 ELSE 2)

(* A short write costs at most two records (audit.go:98-100): its own and  *)
(* the next one, which is glued to the torn line, also when that next one  *)
(* comes from a restarted worker.  In particular, without write faults,    *)
(* every request that has been answered is in the file (server.go logs     *)
(* before it replies), through any number of crashes.                      *)
BoundedLoss ==
    Cardinality({r \in Reqs : Logged(r) /\ ~Recorded(file, r)}) <= 2 * faults

(* prevHash moves on even when the write is lost (audit.go:98-100), which  *)
(* is what makes the loss visible: if a record is missing and a later      *)
(* record of the same process is in the file, Verify does not report an    *)
(* intact chain.                                                           *)
GapVisible ==
    \A r, s \in Reqs :
        (/\ Recorded(file, s) /\ ~Recorded(file, r)
         /\ life[r] = life[s]
         /\ ZeroHash < line[r].id /\ line[r].id < line[s].id
         /\ Logged(r)) =>
            \A k \in Keys : Verify(file, k).line # 0

(* Nothing the worker does afterwards, appending, failing to append or     *)
(* restarting, changes the verdict on a broken log: the line Verify        *)
(* reports stays the first bad line (audit.go:185-231).                    *)
StableVerdict ==
    [][\A k \in Keys :
          Verify(file, k).err => Verify(file', k) = Verify(file, k)]_vars

(* A request whose operation has run is answered, or its worker dies: the  *)
(* mutex is released on every path through Log (audit.go:74-75).           *)
RanIsAnswered ==
    \A r \in Reqs : pc[r] = "ran" ~> pc[r] \in {"answered", "aborted"}

---------------------------------------------------------------------------
(* Why ChainIntact holds: the inductive invariant.                         *)

(* Only the holder of the mutex is between reading prevHash and unlocking, *)
(* and handlers run only in a started worker.                              *)
HolderInv ==
    \A r \in Reqs :
        /\ InFlight(pc[r]) => worker = "up"
        /\ pc[r] \in {"locked", "chained"} => mutex = r

(* A started worker signs with the key a reader will verify with.          *)
KeyInv ==
    /\ worker \in {"keyed", "up"} => memKey = VerifyKey /\ VerifyKey \in Keys
    /\ worker = "persisting" =>
            FlagKey = NoKey /\ memKey \in Keys /\ keyFile = EmptyKey
    /\ worker = "refused" => FlagKey = NoKey /\ keyFile = EmptyKey

(* prevHash is the hash of the last line, except while a line chained to   *)
(* that last line waits to be written.                                     *)
TailInv ==
    /\ (worker = "up" /\ \A r \in Reqs : pc[r] # "chained") =>
            prevHash = LastRecordHash(file)
    /\ \A r \in Reqs : pc[r] = "chained" =>
            line[r] = ChainedLine(prevHash, LastRecordHash(file), memKey, r)

(* The file is its legacy lines and then whole, linked records.            *)
FileInv ==
    /\ legacy <= Len(file)
    /\ VerifyKey \notin Keys => Len(file) = legacy
    /\ \A i \in 1 .. Len(file) : file[i].nl
    /\ \A i \in 1 .. legacy : file[i].form = "legacy"
    /\ \A i \in legacy + 1 .. Len(file) : Continues(file, VerifyKey, i)

(* The four together, which every step preserves (audit.go:62-101 and      *)
(* cli.go:501-532): mutual exclusion, agreement on the key, and while no   *)
(* write has failed, the link between prevHash and the tail of the file.   *)
LogInv ==
    /\ HolderInv
    /\ KeyInv
    /\ faults = 0 => TailInv /\ FileInv

---------------------------------------------------------------------------
(* As long as no write has failed, the worker implements the journal of    *)
(* AuditSink: the journal is what a reader finds after the legacy lines.   *)

JournalOf(f) ==
    [i \in 1 .. Len(f) - legacy |-> f[i + legacy].req]

Sink == INSTANCE AuditSink
            WITH journal <- JournalOf(file),
                 answered <- {r \in Reqs : pc[r] = "answered"}

(* Every step of the worker, deaths and restarts included, is a step of    *)
(* the journal or leaves it alone: entries are only appended, at most one  *)
(* per request, and before its answer (server.go:158-160, audit.go:42-101).*)
ImplementsSink ==
    Sink!SinkInit /\ [][faults' = 0 => Sink!SinkNext]_(Sink!sinkVars)

(* Why it does: a handler that has not written yet has no entry, and one   *)
(* that has, has one; a handler the death of its worker cut off may have   *)
(* one or not (server.go:158).                                             *)
EntryInv ==
    faults = 0 =>
        \A r \in Reqs :
            /\ pc[r] \in {"new", "ran", "locked", "chained"} =>
                    r \notin Sink!Entries
            /\ Logged(r) => r \in Sink!Entries

(* All of it together: what the theorems of AuditLogProofs rest on.        *)
WorkerInv == LogInv /\ EntryInv
===========================================================================

-------------------------- MODULE AuditLogProofs --------------------------
(***************************************************************************)
(* Proofs about AuditLog for every set of requests and keys, any number of *)
(* legacy lines and any bounds on faults and crashes.                      *)
(***************************************************************************)
EXTENDS AuditLog, TLAPS

---------------------------------------------------------------------------
(* Type correctness.                                                       *)

LEMMA JunkTypes ==
    ASSUME NEW id \in Nat, NEW nl \in BOOLEAN
    PROVE  Junk(id, nl) \in Line
  BY DEF Junk, Line, ZeroHash

LEMMA LegacyLineType ==
    ASSUME NEW id \in Nat
    PROVE  LegacyLine(id) \in Line
  BY DEF LegacyLine, Junk, Line, ZeroHash

LEMMA ChainedLineType ==
    ASSUME NEW id \in Nat, NEW prev \in Nat, NEW key \in Keys \cup {NoKey},
           NEW r \in Reqs
    PROVE  ChainedLine(id, prev, key, r) \in Line
  BY DEF ChainedLine, Line

LEMMA LastRecordHashType ==
    ASSUME NEW f \in Seq(Line)
    PROVE  LastRecordHash(f) \in Nat
  <1>1. CASE f = <<>>
    BY <1>1 DEF LastRecordHash, ZeroHash
  <1>2. CASE f # <<>>
    <2>1. Len(f) \in 1..Len(f)
      BY <1>2
    <2>2. f[Len(f)] \in Line
      BY <2>1
    <2> QED
      BY <1>2, <2>2 DEF LastRecordHash, Line
  <1> QED
    BY <1>1, <1>2

(* An append leaves a file of lines.                                       *)
LEMMA AppendBytesType ==
    ASSUME NEW f \in Seq(Line), NEW l \in Line, NEW fresh \in Nat,
           NEW how \in {"full", "body", "part", "none"}
    PROVE  AppendBytes(f, l, how, fresh) \in Seq(Line)
  <1>1. /\ \A b \in BOOLEAN : Junk(fresh, b) \in Line
        /\ \A b \in BOOLEAN : [l EXCEPT !.nl = b] \in Line
    BY JunkTypes DEF Line
  <1>2. CASE how = "none"
    BY <1>2 DEF AppendBytes
  <1>3. CASE how # "none" /\ TornTail(f)
    <2>1. f # <<>> /\ Len(f) \in 1..Len(f)
      BY <1>3 DEF TornTail
    <2>2. Junk(fresh, how = "full") \in Line
      BY <1>1
    <2>3. [f EXCEPT ![Len(f)] = Junk(fresh, how = "full")] \in Seq(Line)
      BY <2>1, <2>2
    <2> QED
      BY <1>3, <2>3 DEF AppendBytes
  <1>4. CASE how # "none" /\ ~TornTail(f)
    <2> DEFINE piece == IF how = "part" THEN Junk(fresh, FALSE)
                                        ELSE [l EXCEPT !.nl = (how = "full")]
    <2>1. piece \in Line
      BY <1>1
    <2>2. AppendBytes(f, l, how, fresh) = Append(f, piece)
      BY <1>4 DEF AppendBytes
    <2> HIDE DEF piece
    <2> QED
      BY <2>1, <2>2
  <1> QED
    BY <1>2, <1>3, <1>4

LEMMA InitTypes == Init => TypeOK
  <1> SUFFICES ASSUME Init PROVE TypeOK
    OBVIOUS
  <1>1. \A i \in 1..legacy : LegacyLine(i) \in Line
    BY AuditLogAssumption, LegacyLineType
  <1>2. file \in Seq(Line)
    BY <1>1, AuditLogAssumption DEF Init
  <1>3. Junk(0, FALSE) \in Line
    BY DEF Junk, Line, ZeroHash
  <1>4. serial \in Nat /\ faults \in 0..MaxFaults /\ crashes \in 0..MaxCrashes
    BY AuditLogAssumption DEF Init
  <1>5. /\ pc \in [Reqs -> HandlerStates]
        /\ line \in [Reqs -> Line]
        /\ life \in [Reqs -> Nat]
    BY <1>3 DEF Init, HandlerStates
  <1> QED
    BY <1>2, <1>4, <1>5 DEF Init, TypeOK, WorkerStates, ZeroHash

LEMMA TypeStep == TypeOK /\ [Next]_vars => TypeOK'
  <1> SUFFICES ASSUME TypeOK, [Next]_vars PROVE TypeOK'
    OBVIOUS
  <1> USE AuditLogAssumption DEF TypeOK, WorkerStates, HandlerStates
  <1>1. ASSUME LoadKey PROVE TypeOK'
    BY <1>1 DEF LoadKey
  <1>2. ASSUME GenerateKey PROVE TypeOK'
    BY <1>2 DEF GenerateKey
  <1>3. ASSUME PersistKey PROVE TypeOK'
    BY <1>3 DEF PersistKey
  <1>4. ASSUME RefuseStart PROVE TypeOK'
    BY <1>4 DEF RefuseStart
  <1>5. ASSUME OpenAudit PROVE TypeOK'
    <2>1. LastRecordHash(file) \in Nat
      BY LastRecordHashType
    <2> QED
      BY <1>5, <2>1 DEF OpenAudit
  <1>6. ASSUME NEW r \in Reqs, Execute(r) PROVE TypeOK'
    BY <1>6 DEF Execute
  <1>7. ASSUME NEW r \in Reqs, Lock(r) PROVE TypeOK'
    BY <1>7 DEF Lock
  <1>8. ASSUME NEW r \in Reqs, Chain(r) PROVE TypeOK'
    <2>1. ChainedLine(serial, prevHash, memKey, r) \in Line
      BY ChainedLineType
    <2> QED
      BY <1>8, <2>1 DEF Chain
  <1>9. ASSUME NEW r \in Reqs, Write(r) PROVE TypeOK'
    <2>1. PICK how \in {"full", "body", "part", "none"} :
             /\ how # "full" => faults < MaxFaults
             /\ faults' = IF how = "full" THEN faults ELSE faults + 1
             /\ file' = AppendBytes(file, line[r], how, serial)
      BY <1>9 DEF Write
    <2>2. file' \in Seq(Line)
      BY <2>1, AppendBytesType
    <2>3. faults' \in 0..MaxFaults
      BY <2>1
    <2> QED
      BY <1>9, <2>2, <2>3 DEF Write
  <1>10. ASSUME NEW r \in Reqs, Answer(r) PROVE TypeOK'
    BY <1>10 DEF Answer
  <1>11. ASSUME Crash PROVE TypeOK'
    BY <1>11 DEF Crash, ZeroHash
  <1>12. ASSUME LoseKey PROVE TypeOK'
    BY <1>12 DEF LoseKey
  <1>13. ASSUME RemoveEmptyKey PROVE TypeOK'
    BY <1>13 DEF RemoveEmptyKey
  <1>14. ASSUME UNCHANGED vars PROVE TypeOK'
    BY <1>14 DEF vars
  <1> QED
    BY <1>1, <1>2, <1>3, <1>4, <1>5, <1>6, <1>7, <1>8, <1>9, <1>10,
       <1>11, <1>12, <1>13, <1>14
    DEF Next, Start, Handle

(* The state of the worker always has the types TypeOK gives it.           *)
THEOREM TypeCorrect == Spec => []TypeOK
  BY InitTypes, TypeStep, PTL DEF Spec

---------------------------------------------------------------------------
(* The inductive invariant, action by action.                              *)

LEMMA InitLogInv == Init => LogInv
  <1> SUFFICES ASSUME Init PROVE LogInv
    OBVIOUS
  <1> USE AuditLogAssumption, ChainAssumption DEF Init
  <1>1. HolderInv
    BY DEF HolderInv, InFlight
  <1>2. KeyInv
    BY DEF KeyInv
  <1>3. TailInv
    BY DEF TailInv
  <1>4. /\ Len(file) = legacy
        /\ \A i \in 1..legacy : file[i] = LegacyLine(i)
    OBVIOUS
  <1>5. FileInv
    BY <1>4 DEF FileInv, LegacyLine, Junk
  <1> QED
    BY <1>1, <1>2, <1>3, <1>5 DEF LogInv

(* The steps that touch neither the file nor the key keep FileInv.         *)
LEMMA FileInvFrame ==
    ASSUME FileInv, UNCHANGED <<legacy, file, keyFile>>
    PROVE  FileInv'
  BY DEF FileInv, Continues, HashBefore, VerifyKey

LEMMA StartPreserves == TypeOK /\ LogInv /\ Start => LogInv'
  <1> SUFFICES ASSUME TypeOK, LogInv, Start PROVE LogInv'
    OBVIOUS
  <1> USE ChainAssumption, AuditLogAssumption
  <1>1. CASE LoadKey
    <2>1. HolderInv'
      BY <1>1 DEF LogInv, HolderInv, InFlight, LoadKey
    <2>2. KeyInv'
      BY <1>1 DEF LogInv, KeyInv, LoadKey, VerifyKey
    <2>3. faults' = 0 => TailInv' /\ FileInv'
      <3> SUFFICES ASSUME faults = 0 PROVE TailInv' /\ FileInv'
        BY <1>1 DEF LoadKey
      <3>1. TailInv'
        BY <1>1 DEF LogInv, HolderInv, InFlight, TailInv, LoadKey
      <3> QED
        BY <1>1, <3>1, FileInvFrame DEF LogInv, LoadKey
    <2> QED
      BY <2>1, <2>2, <2>3 DEF LogInv
  <1>2. CASE GenerateKey
    <2>1. HolderInv'
      BY <1>2 DEF LogInv, HolderInv, InFlight, GenerateKey
    <2>2. KeyInv'
      BY <1>2 DEF LogInv, KeyInv, GenerateKey, VerifyKey
    <2>3. faults' = 0 => TailInv' /\ FileInv'
      <3> SUFFICES ASSUME faults = 0 PROVE TailInv' /\ FileInv'
        BY <1>2 DEF GenerateKey
      <3>1. TailInv'
        BY <1>2 DEF LogInv, HolderInv, InFlight, TailInv, GenerateKey
      <3>2. /\ VerifyKey \notin Keys /\ VerifyKey' \notin Keys
            /\ file' = file /\ legacy' = legacy
        BY <1>2 DEF GenerateKey, VerifyKey
      <3>3. Len(file) = legacy
        BY <3>2 DEF LogInv, FileInv
      <3> QED
        BY <3>1, <3>2, <3>3 DEF TypeOK, LogInv, FileInv
    <2> QED
      BY <2>1, <2>2, <2>3 DEF LogInv
  <1>3. CASE PersistKey
    <2>1. HolderInv'
      BY <1>3 DEF LogInv, HolderInv, InFlight, PersistKey
    <2>2. KeyInv'
      BY <1>3 DEF LogInv, KeyInv, PersistKey, VerifyKey
    <2>3. faults' = 0 => TailInv' /\ FileInv'
      <3> SUFFICES ASSUME faults = 0 PROVE TailInv' /\ FileInv'
        BY <1>3 DEF PersistKey
      <3>1. TailInv'
        BY <1>3 DEF LogInv, HolderInv, InFlight, TailInv, PersistKey
      <3>2. /\ VerifyKey \notin Keys /\ VerifyKey' \in Keys
            /\ file' = file /\ legacy' = legacy
        BY <1>3 DEF PersistKey, VerifyKey, LogInv, KeyInv
      <3>3. Len(file) = legacy
        BY <3>2 DEF LogInv, FileInv
      <3> QED
        BY <3>1, <3>2, <3>3 DEF TypeOK, LogInv, FileInv
    <2> QED
      BY <2>1, <2>2, <2>3 DEF LogInv
  <1>4. CASE RefuseStart
    <2>1. HolderInv' /\ KeyInv'
      BY <1>4 DEF LogInv, HolderInv, KeyInv, InFlight, RefuseStart, VerifyKey
    <2>2. faults = 0 => TailInv'
      BY <1>4 DEF LogInv, HolderInv, InFlight, TailInv, RefuseStart
    <2> QED
      BY <1>4, <2>1, <2>2, FileInvFrame DEF LogInv, RefuseStart
  <1>5. CASE OpenAudit
    <2>1. HolderInv' /\ KeyInv'
      BY <1>5 DEF LogInv, HolderInv, KeyInv, InFlight, OpenAudit, VerifyKey
    <2>2. faults = 0 => TailInv'
      BY <1>5 DEF LogInv, HolderInv, InFlight, TailInv, OpenAudit
    <2> QED
      BY <1>5, <2>1, <2>2, FileInvFrame DEF LogInv, OpenAudit
  <1> QED
    BY <1>1, <1>2, <1>3, <1>4, <1>5 DEF Start

(* A complete write after an untorn tail appends the line as it is.        *)
LEMMA AppendFull ==
    ASSUME NEW f \in Seq(Line), NEW l \in Line, NEW fresh \in Nat,
           l.nl, ~TornTail(f)
    PROVE  AppendBytes(f, l, "full", fresh) = Append(f, l)
  <1>1. [l EXCEPT !.nl = TRUE] = l
    BY DEF Line
  <1> QED
    BY <1>1 DEF AppendBytes

LEMMA WritePreserves ==
    ASSUME TypeOK, LogInv, NEW r \in Reqs, Write(r)
    PROVE  LogInv'
  <1> USE DEF TypeOK
  <1>1. /\ pc[r] = "chained" /\ pc' = [pc EXCEPT ![r] = "logged"]
        /\ mutex' = NoReq
        /\ UNCHANGED <<legacy, keyFile, worker, memKey, prevHash, line>>
    BY DEF Write
  <1>2. HolderInv' /\ KeyInv'
    BY <1>1 DEF LogInv, HolderInv, KeyInv, InFlight, VerifyKey
  <1>3. ASSUME faults' = 0 PROVE TailInv' /\ FileInv'
    <2>1. PICK how \in {"full", "body", "part", "none"} :
             /\ faults' = IF how = "full" THEN faults ELSE faults + 1
             /\ file' = AppendBytes(file, line[r], how, serial)
      BY DEF Write
    <2>2. how = "full" /\ faults = 0
      BY <1>3, <2>1
    <2>3. TailInv /\ FileInv
      BY <2>2 DEF LogInv
    <2>4. line[r] = ChainedLine(prevHash, LastRecordHash(file), memKey, r)
      BY <1>1, <2>3 DEF TailInv
    <2>5. line[r].nl /\ line[r] \in Line
      <3>1. line[r].nl = TRUE
        BY <2>4 DEF ChainedLine
      <3> QED
        BY <3>1
    <2>6. file' = Append(file, line[r])
      <3>1. line[r].nl /\ line[r] \in Line
        BY <2>5
      <3>2. ~TornTail(file)
        BY <2>3 DEF TornTail, FileInv
      <3> QED
        BY <2>1, <2>2, <3>1, <3>2, AppendFull
    <2>7. /\ Len(file') = Len(file) + 1
          /\ \A i \in 1..Len(file) : file'[i] = file[i]
          /\ file'[Len(file) + 1] = line[r]
          /\ file' # <<>>
      BY <2>6
    <2>8. TailInv'
      <3>1. LastRecordHash(file') = prevHash
        BY <2>4, <2>7 DEF LastRecordHash, ChainedLine
      <3>2. \A s \in Reqs : pc'[s] # "chained"
        BY <1>1 DEF LogInv, HolderInv
      <3> QED
        BY <1>1, <3>1, <3>2 DEF TailInv
    <2>9. FileInv'
      <3>1. VerifyKey' = VerifyKey /\ memKey = VerifyKey /\ VerifyKey \in Keys
        BY <1>1 DEF LogInv, HolderInv, KeyInv, InFlight, VerifyKey
      <3>2. legacy <= Len(file') /\ legacy \in Nat
        BY <2>3, <2>7, AuditLogAssumption DEF FileInv
      <3>3. \A i \in 1 .. Len(file') : file'[i].nl
        <4> SUFFICES ASSUME NEW i \in 1 .. Len(file') PROVE file'[i].nl
          OBVIOUS
        <4>1. CASE i \in 1 .. Len(file)
          <5>1. file[i].nl /\ file'[i] = file[i]
            BY <2>3, <2>7, <4>1 DEF FileInv
          <5> QED
            BY <5>1, Zenon
        <4>2. CASE i = Len(file) + 1
          <5>1. file'[i] = line[r]
            BY <2>7, <4>2
          <5> QED
            BY <2>5, <5>1, Zenon
        <4> QED
          BY <2>7, <4>1, <4>2
      <3>4. \A i \in 1 .. legacy : file'[i].form = "legacy"
        BY <2>3, <2>7, <3>2 DEF FileInv
      <3>5. ASSUME NEW i \in legacy + 1 .. Len(file')
            PROVE  Continues(file', VerifyKey, i)
        <4>1. CASE i \in legacy + 1 .. Len(file)
          <5>1. HashBefore(file', i) = HashBefore(file, i)
            BY <2>7, <3>2, <4>1 DEF HashBefore
          <5> QED
            BY <2>3, <2>7, <3>2, <4>1, <5>1 DEF FileInv, Continues
        <4>2. CASE i = Len(file) + 1
          <5>1. HashBefore(file', i) = LastRecordHash(file)
            BY <2>7, <4>2 DEF HashBefore, LastRecordHash
          <5> QED
            BY <2>4, <2>7, <3>1, <4>2, <5>1 DEF Continues, ChainedLine
        <4> QED
          BY <2>7, <3>2, <4>1, <4>2
      <3> QED
        BY <1>1, <3>1, <3>2, <3>3, <3>4, <3>5 DEF FileInv
    <2> QED
      BY <2>8, <2>9
  <1> QED
    BY <1>2, <1>3 DEF LogInv

LEMMA HandlePreserves ==
    ASSUME TypeOK, LogInv, NEW r \in Reqs, Handle(r)
    PROVE  LogInv'
  <1> USE DEF TypeOK
  <1>1. CASE Execute(r)
    <2>1. HolderInv' /\ KeyInv'
      BY <1>1 DEF LogInv, HolderInv, KeyInv, InFlight, Execute, VerifyKey
    <2>2. faults = 0 => TailInv'
      BY <1>1 DEF LogInv, TailInv, Execute
    <2> QED
      BY <1>1, <2>1, <2>2, FileInvFrame DEF LogInv, Execute
  <1>2. CASE Lock(r)
    <2>1. HolderInv' /\ KeyInv'
      BY <1>2, ChainAssumption
      DEF LogInv, HolderInv, KeyInv, InFlight, Lock, VerifyKey
    <2>2. faults = 0 => TailInv'
      BY <1>2 DEF LogInv, TailInv, Lock
    <2> QED
      BY <1>2, <2>1, <2>2, FileInvFrame DEF LogInv, Lock
  <1>3. CASE Chain(r)
    <2>1. HolderInv' /\ KeyInv'
      BY <1>3 DEF LogInv, HolderInv, KeyInv, InFlight, Chain, VerifyKey
    <2>2. ASSUME faults = 0 PROVE TailInv'
      <3>1. \A s \in Reqs : pc[s] # "chained"
        BY <1>3 DEF LogInv, HolderInv, Chain
      <3>2. worker = "up"
        BY <1>3 DEF LogInv, HolderInv, InFlight, Chain
      <3>3. prevHash = LastRecordHash(file)
        BY <2>2, <3>1, <3>2 DEF LogInv, TailInv
      <3> QED
        BY <1>3, <3>1, <3>3 DEF TailInv, Chain
    <2> QED
      BY <1>3, <2>1, <2>2, FileInvFrame DEF LogInv, Chain
  <1>4. CASE Write(r)
    BY <1>4, WritePreserves
  <1>5. CASE Answer(r)
    <2>1. HolderInv' /\ KeyInv'
      BY <1>5 DEF LogInv, HolderInv, KeyInv, InFlight, Answer, VerifyKey
    <2>2. faults = 0 => TailInv'
      BY <1>5 DEF LogInv, TailInv, Answer
    <2> QED
      BY <1>5, <2>1, <2>2, FileInvFrame DEF LogInv, Answer
  <1> QED
    BY <1>1, <1>2, <1>3, <1>4, <1>5 DEF Handle

LEMMA OutsidePreserves ==
    TypeOK /\ LogInv /\ (Crash \/ LoseKey \/ RemoveEmptyKey) => LogInv'
  <1> SUFFICES ASSUME TypeOK, LogInv, Crash \/ LoseKey \/ RemoveEmptyKey
               PROVE  LogInv'
    OBVIOUS
  <1> USE ChainAssumption DEF TypeOK
  <1>1. CASE Crash
    <2>1. HolderInv' /\ KeyInv'
      BY <1>1 DEF LogInv, HolderInv, KeyInv, InFlight, Crash, VerifyKey
    <2>2. TailInv'
      BY <1>1 DEF TailInv, Crash, InFlight
    <2> QED
      BY <1>1, <2>1, <2>2, FileInvFrame DEF LogInv, Crash
  <1>2. CASE LoseKey
    <2>1. HolderInv' /\ KeyInv'
      BY <1>2 DEF LogInv, HolderInv, KeyInv, InFlight, LoseKey, VerifyKey
    <2>2. faults' # 0
      BY <1>2 DEF LoseKey
    <2> QED
      BY <2>1, <2>2 DEF LogInv
  <1>3. CASE RemoveEmptyKey
    <2>1. HolderInv' /\ KeyInv'
      BY <1>3
      DEF LogInv, HolderInv, KeyInv, InFlight, RemoveEmptyKey, VerifyKey
    <2>2. ASSUME faults = 0 PROVE TailInv' /\ FileInv'
      <3>1. TailInv'
        BY <1>3, <2>2
        DEF LogInv, HolderInv, InFlight, TailInv, RemoveEmptyKey
      <3>2. /\ VerifyKey \notin Keys /\ VerifyKey' \notin Keys
            /\ file' = file /\ legacy' = legacy
        BY <1>3 DEF RemoveEmptyKey, VerifyKey, LogInv, KeyInv
      <3>3. Len(file) = legacy
        BY <2>2, <3>2 DEF LogInv, FileInv
      <3> QED
        BY <2>2, <3>1, <3>2, <3>3, AuditLogAssumption DEF LogInv, FileInv
    <2> QED
      BY <1>3, <2>1, <2>2 DEF LogInv, RemoveEmptyKey
  <1> QED
    BY <1>1, <1>2, <1>3

LEMMA LogStep == TypeOK /\ LogInv /\ [Next]_vars => LogInv'
  <1> SUFFICES ASSUME TypeOK, LogInv, [Next]_vars PROVE LogInv'
    OBVIOUS
  <1>1. CASE UNCHANGED vars
    BY <1>1, FileInvFrame
    DEF vars, LogInv, HolderInv, KeyInv, TailInv, VerifyKey
  <1>2. CASE Start
    BY <1>2, StartPreserves
  <1>3. CASE \E r \in Reqs : Handle(r)
    BY <1>3, HandlePreserves
  <1>4. CASE Crash \/ LoseKey \/ RemoveEmptyKey
    BY <1>4, OutsidePreserves
  <1> QED
    BY <1>1, <1>2, <1>3, <1>4 DEF Next

(* Mutual exclusion, agreement on the key and the link between prevHash    *)
(* and the tail of the file hold in every reachable state.                 *)
THEOREM LogInvariant == Spec => []LogInv
  BY InitLogInv, LogStep, TypeCorrect, PTL DEF Spec

---------------------------------------------------------------------------
(* What Verify says of such a file.                                        *)

LEMMA VerifyOfFileInv ==
    ASSUME TypeOK, FileInv, VerifyKey \in Keys
    PROVE  VerifyExit(file, VerifyKey) = IF legacy = 0 THEN 0 ELSE 2
  <1>1. CASE legacy = 0
    <2>1. StopsAt(file, VerifyKey) = {}
      BY <1>1 DEF StopsAt, FileInv
    <2>2. Verify(file, VerifyKey) = [line |-> 0, err |-> FALSE]
      BY <2>1 DEF Verify
    <2> QED
      BY <1>1, <2>2 DEF VerifyExit
  <1>2. CASE legacy # 0
    <2>1. 1 \in 1..legacy /\ 1 \in 1..Len(file) /\ Len(file) \in Nat
      BY <1>2, AuditLogAssumption DEF FileInv, TypeOK
    <2>2. file[1].form = "legacy"
      BY <2>1 DEF FileInv
    <2>3. 1 \in StopsAt(file, VerifyKey)
      BY <2>1, <2>2 DEF StopsAt, Continues
    <2>4. \A i \in StopsAt(file, VerifyKey) : 1 <= i /\ i \in Int
      BY <2>1 DEF StopsAt
    <2>5. FirstOf(StopsAt(file, VerifyKey)) = 1
      BY <2>3, <2>4 DEF FirstOf
    <2>6. Verify(file, VerifyKey) = [line |-> -1, err |-> FALSE]
      BY <2>2, <2>3, <2>5 DEF Verify
    <2> QED
      BY <1>2, <2>6 DEF VerifyExit
  <1> QED
    BY <1>1, <1>2

(* A log nobody touched verifies, for every number of requests, restarts   *)
(* and legacy lines, as long as no write failed and no key was lost.       *)
THEOREM ChainIntactHolds == Spec => []ChainIntact
  <1>1. TypeOK /\ LogInv => ChainIntact
    BY VerifyOfFileInv DEF LogInv, ChainIntact
  <1> QED
    BY <1>1, TypeCorrect, LogInvariant, PTL

---------------------------------------------------------------------------
(* The refinement: the worker implements the journal of AuditSink.         *)

(* Where the lines after the legacy ones come from does not change while   *)
(* the file does not.                                                      *)
LEMMA JournalFrame ==
    ASSUME UNCHANGED <<legacy, file>>
    PROVE  /\ JournalOf(file)' = JournalOf(file)
           /\ Sink!Entries' = Sink!Entries
  BY DEF JournalOf, Sink!Entries

(* A write that does not fail appends one entry, the writer's.             *)
LEMMA WriteAppends ==
    ASSUME TypeOK, LogInv, NEW r \in Reqs, Write(r), faults' = 0
    PROVE  /\ faults = 0
           /\ JournalOf(file)' = Append(JournalOf(file), r)
           /\ Sink!Entries' = Sink!Entries \cup {r}
  <1> USE DEF TypeOK
  <1>1. PICK how \in {"full", "body", "part", "none"} :
           /\ faults' = IF how = "full" THEN faults ELSE faults + 1
           /\ file' = AppendBytes(file, line[r], how, serial)
    BY DEF Write
  <1>2. how = "full" /\ faults = 0
    BY <1>1
  <1>3. TailInv /\ FileInv
    BY <1>2 DEF LogInv
  <1>4. line[r] = ChainedLine(prevHash, LastRecordHash(file), memKey, r)
    BY <1>3 DEF TailInv, Write
  <1>5. line[r].nl /\ line[r].req = r /\ line[r] \in Line
    <2>1. line[r].nl = TRUE /\ line[r].req = r
      BY <1>4 DEF ChainedLine
    <2> QED
      BY <2>1
  <1>6. file' = Append(file, line[r])
    <2>1. ~TornTail(file)
      BY <1>3 DEF TornTail, FileInv
    <2> QED
      BY <1>1, <1>2, <1>5, <2>1, AppendFull
  <1>7. legacy' = legacy /\ legacy \in Nat /\ legacy <= Len(file)
    BY <1>3, AuditLogAssumption DEF Write, FileInv
  <1>8. JournalOf(file)' = Append(JournalOf(file), r)
    BY <1>5, <1>6, <1>7 DEF JournalOf
  <1>9. Sink!Entries' = Sink!Entries \cup {r}
    <2> DEFINE j == JournalOf(file)
               n == Len(file) - legacy
    <2>1. n \in Nat /\ DOMAIN j = 1 .. n /\ Len(j) = n
      BY <1>7 DEF JournalOf
    <2>2. /\ DOMAIN Append(j, r) = 1 .. n + 1
          /\ \A i \in 1 .. n : Append(j, r)[i] = j[i]
          /\ Append(j, r)[n + 1] = r
      BY <1>7, <2>1 DEF JournalOf
    <2>3. Sink!Entries = {j[i] : i \in 1 .. n}
      BY <2>1 DEF Sink!Entries
    <2>4. Sink!Entries' = {Append(j, r)[i] : i \in 1 .. n + 1}
      BY <1>8, <2>2 DEF Sink!Entries
    <2> HIDE DEF j, n
    <2> QED
      BY <2>1, <2>2, <2>3, <2>4
  <1> QED
    BY <1>2, <1>8, <1>9

LEMMA InitEntryInv == Init => EntryInv /\ Sink!SinkInit
  <1> SUFFICES ASSUME Init PROVE EntryInv /\ Sink!SinkInit
    OBVIOUS
  <1>1. legacy \in Nat /\ Len(file) = legacy
    BY AuditLogAssumption DEF Init
  <1>2. JournalOf(file) = <<>>
    BY <1>1 DEF JournalOf
  <1>3. Sink!Entries = {}
    BY <1>2 DEF Sink!Entries
  <1> QED
    BY <1>2, <1>3 DEF Init, EntryInv, Logged, Sink!SinkInit

(* A step of the worker keeps what EntryInv says of the handlers, and is a *)
(* step of the journal or changes neither entries nor answers.             *)
LEMMA StepRefines ==
    ASSUME TypeOK, LogInv, EntryInv, [Next]_vars
    PROVE  EntryInv' /\ [faults' = 0 => Sink!SinkNext]_(Sink!sinkVars)
  <1> USE DEF TypeOK
  <1> DEFINE answered == {r \in Reqs : pc[r] = "answered"}
  <1>1. CASE UNCHANGED vars
    BY <1>1, JournalFrame DEF vars, EntryInv, Logged, Sink!sinkVars
  <1>2. CASE Start \/ LoseKey \/ RemoveEmptyKey
    <2>1. UNCHANGED <<legacy, file, pc>> /\ (faults' = 0 => faults = 0)
      BY <1>2 DEF Start, LoadKey, GenerateKey, PersistKey, RefuseStart,
                  OpenAudit, LoseKey, RemoveEmptyKey
    <2> QED
      BY <2>1, JournalFrame DEF EntryInv, Logged, Sink!sinkVars
  <1>3. CASE Crash
    <2>1. UNCHANGED <<legacy, file, faults>>
      BY <1>3 DEF Crash
    <2>2. \A r \in Reqs :
             /\ pc'[r] \in {"aborted", pc[r]}
             /\ pc'[r] = "answered" <=> pc[r] = "answered"
      BY <1>3 DEF Crash, InFlight
    <2>3. EntryInv'
      BY <2>1, <2>2, JournalFrame DEF EntryInv, Logged
    <2>4. answered' = answered
      BY <2>2
    <2> QED
      BY <2>1, <2>3, <2>4, JournalFrame DEF Sink!sinkVars
  <1>4. ASSUME NEW r \in Reqs, Execute(r) \/ Lock(r) \/ Chain(r)
        PROVE  EntryInv' /\ [faults' = 0 => Sink!SinkNext]_(Sink!sinkVars)
    <2>1. UNCHANGED <<legacy, file, faults>>
      BY <1>4 DEF Execute, Lock, Chain
    <2>2. /\ pc[r] \in {"new", "ran", "locked"}
          /\ \E s \in {"ran", "locked", "chained"} : pc' = [pc EXCEPT ![r] = s]
      BY <1>4 DEF Execute, Lock, Chain
    <2>3. EntryInv'
      BY <2>1, <2>2, JournalFrame DEF EntryInv, Logged
    <2>4. answered' = answered
      BY <2>2
    <2> QED
      BY <2>1, <2>3, <2>4, JournalFrame DEF Sink!sinkVars
  <1>5. ASSUME NEW r \in Reqs, Write(r)
        PROVE  EntryInv' /\ [faults' = 0 => Sink!SinkNext]_(Sink!sinkVars)
    <2>1. pc[r] = "chained" /\ pc' = [pc EXCEPT ![r] = "logged"]
      BY <1>5 DEF Write
    <2> SUFFICES ASSUME faults' = 0 PROVE EntryInv' /\ Sink!SinkNext
      BY DEF EntryInv
    <2>2. /\ faults = 0
          /\ JournalOf(file)' = Append(JournalOf(file), r)
          /\ Sink!Entries' = Sink!Entries \cup {r}
      BY <1>5, WriteAppends
    <2>3. EntryInv'
      BY <2>1, <2>2 DEF EntryInv, Logged
    <2>4. answered' = answered
      BY <2>1
    <2>5. r \notin Sink!Entries
      BY <2>1, <2>2 DEF EntryInv
    <2> QED
      BY <2>2, <2>3, <2>4, <2>5 DEF Sink!SinkNext, Sink!Record
  <1>6. ASSUME NEW r \in Reqs, Answer(r)
        PROVE  EntryInv' /\ [faults' = 0 => Sink!SinkNext]_(Sink!sinkVars)
    <2>1. /\ pc[r] = "logged" /\ pc' = [pc EXCEPT ![r] = "answered"]
          /\ UNCHANGED <<legacy, file, faults>>
      BY <1>6 DEF Answer
    <2>2. EntryInv'
      BY <2>1, JournalFrame DEF EntryInv, Logged
    <2> SUFFICES ASSUME faults' = 0 PROVE Sink!SinkNext
      BY <2>2
    <2>3. r \in Sink!Entries
      BY <2>1 DEF EntryInv, Logged
    <2>4. answered' = answered \cup {r}
      BY <2>1
    <2> QED
      BY <2>1, <2>3, <2>4, JournalFrame DEF Sink!SinkNext, Sink!Reply
  <1> QED
    BY <1>1, <1>2, <1>3, <1>4, <1>5, <1>6 DEF Next, Handle

(* The invariant all of it rests on holds in every reachable state.        *)
THEOREM WorkerInvariant == Spec => []WorkerInv
  <1>1. Init => EntryInv
    BY InitEntryInv
  <1>2. TypeOK /\ LogInv /\ EntryInv /\ [Next]_vars => EntryInv'
    BY StepRefines
  <1>3. LogInv /\ EntryInv <=> WorkerInv
    BY DEF WorkerInv
  <1> QED
    BY <1>1, <1>2, <1>3, TypeCorrect, LogInvariant, PTL DEF Spec

(* However requests interleave and wherever the worker is killed, as long  *)
(* as no write fails its log is the append-only journal of AuditSink: no   *)
(* entry is lost, rewritten or duplicated, and none comes after its        *)
(* answer.                                                                 *)
THEOREM SinkImplemented == Spec => ImplementsSink
  <1>1. Init => Sink!SinkInit
    BY InitEntryInv
  <1>2. TypeOK /\ LogInv /\ EntryInv /\ [Next]_vars
            => [faults' = 0 => Sink!SinkNext]_(Sink!sinkVars)
    BY StepRefines
  <1>3. WorkerInv => LogInv /\ EntryInv
    BY DEF WorkerInv
  <1> QED
    BY <1>1, <1>2, <1>3, TypeCorrect, WorkerInvariant, PTL
    DEF Spec, ImplementsSink
===========================================================================

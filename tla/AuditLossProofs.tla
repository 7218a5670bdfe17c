------------------------- MODULE AuditLossProofs -------------------------
(***************************************************************************)
(* What the audit log promises when writes fail and keys are lost: proofs  *)
(* about AuditLog for every set of requests and keys and any bounds.  The  *)
(* verdict on a broken log is final, a failed write costs at most two      *)
(* records, and a record that is missing before one that is there shows.   *)
(***************************************************************************)
EXTENDS AuditLogProofs, FiniteSetTheorems

---------------------------------------------------------------------------
(* Line numbers and files.                                                 *)

(* A nonempty set of naturals has a least element.                         *)
LEMMA LeastNatural ==
    ASSUME NEW S, S \subseteq Nat, S # {}
    PROVE  \E m \in S : \A n \in S : m <= n
  <1>1. PICK m \in S : \A n \in S : ~(<<n, m>> \in OpToRel(<, Nat))
    BY NatLessThanWellFounded, WFMin, Zenon
  <1>2. \A n \in S : ~(n < m)
    BY <1>1 DEF OpToRel
  <1> QED
    BY <1>2

LEMMA FirstOfIsLeast ==
    ASSUME NEW S, S \subseteq Nat, S # {}
    PROVE  FirstOf(S) \in S /\ \A n \in S : FirstOf(S) <= n
  BY LeastNatural DEF FirstOf

(* The elements of a file are lines.                                       *)
LEMMA LinesOfFile ==
    ASSUME NEW f \in Seq(Line)
    PROVE  /\ Len(f) \in Nat
           /\ DOMAIN f = 1 .. Len(f)
           /\ \A i \in 1 .. Len(f) :
                 f[i] \in Line /\ f[i].id \in Nat /\ f[i].prev \in Nat
  <1>1. \A i \in 1 .. Len(f) : f[i] \in Line
    OBVIOUS
  <1> QED
    BY <1>1 DEF Line

(* g is f with one line more, or with its last line replaced.              *)
Grown(f, g, e) ==
    /\ Len(g) = Len(f) + 1
    /\ \A i \in 1 .. Len(f) : g[i] = f[i]
    /\ g[Len(f) + 1] = e

Glued(f, g, e) ==
    /\ Len(f) \in 1 .. Len(f)
    /\ Len(g) = Len(f)
    /\ \A i \in 1 .. Len(f) - 1 : g[i] = f[i]
    /\ g[Len(f)] = e

LEMMA AppendGrows ==
    ASSUME NEW f \in Seq(Line), NEW e \in Line
    PROVE  Grown(f, Append(f, e), e)
  BY DEF Grown

(* What an append leaves: nothing new, a torn line made junk, or one line  *)
(* more, which is the record or a piece of it.                             *)
Appends(f, g, l, how, fresh) ==
    \/ how = "none" /\ g = f
    \/ /\ how # "none" /\ TornTail(f)
       /\ Glued(f, g, Junk(fresh, how = "full"))
    \/ /\ how = "part" /\ ~TornTail(f)
       /\ Grown(f, g, Junk(fresh, FALSE))
    \/ /\ how \in {"full", "body"} /\ ~TornTail(f)
       /\ Grown(f, g, [l EXCEPT !.nl = (how = "full")])

LEMMA AppendBytesDoes ==
    ASSUME NEW f \in Seq(Line), NEW l \in Line, NEW fresh \in Nat,
           NEW how \in {"full", "body", "part", "none"}
    PROVE  Appends(f, AppendBytes(f, l, how, fresh), l, how, fresh)
  <1> DEFINE g == AppendBytes(f, l, how, fresh)
  <1>1. CASE how = "none"
    BY <1>1 DEF AppendBytes, Appends
  <1>2. CASE how # "none" /\ TornTail(f)
    <2>1. Len(f) \in 1 .. Len(f)
      BY <1>2 DEF TornTail
    <2>2. g = [f EXCEPT ![Len(f)] = Junk(fresh, how = "full")]
      BY <1>2 DEF AppendBytes
    <2>3. Len(g) = Len(f) /\ \A i \in 1 .. Len(f) - 1 : g[i] = f[i]
      BY <2>1, <2>2
    <2>4. g[Len(f)] = Junk(fresh, how = "full")
      BY <2>1, <2>2
    <2> QED
      BY <1>2, <2>1, <2>3, <2>4 DEF Glued, Appends
  <1>3. CASE how = "part" /\ ~TornTail(f)
    <2>1. g = Append(f, Junk(fresh, FALSE))
      BY <1>3 DEF AppendBytes
    <2>2. Junk(fresh, FALSE) \in Line
      BY JunkTypes
    <2> QED
      BY <1>3, <2>1, <2>2, AppendGrows DEF Appends
  <1>4. CASE how \in {"full", "body"} /\ ~TornTail(f)
    <2>1. g = Append(f, [l EXCEPT !.nl = (how = "full")])
      BY <1>4 DEF AppendBytes
    <2>2. [l EXCEPT !.nl = (how = "full")] \in Line
      BY DEF Line
    <2> QED
      BY <1>4, <2>1, <2>2, AppendGrows DEF Appends
  <1> QED
    BY <1>1, <1>2, <1>3, <1>4

---------------------------------------------------------------------------
(* The verdict of Verify.                                                  *)

LEMMA StopsAtLines ==
    ASSUME NEW f \in Seq(Line), NEW k, StopsAt(f, k) # {}
    PROVE  /\ FirstOf(StopsAt(f, k)) \in 1 .. Len(f)
           /\ FirstOf(StopsAt(f, k)) \in StopsAt(f, k)
           /\ \A i \in 1 .. FirstOf(StopsAt(f, k)) - 1 : Continues(f, k, i)
  <1>1. StopsAt(f, k) \subseteq 1 .. Len(f) /\ Len(f) \in Nat
    BY DEF StopsAt
  <1>2. StopsAt(f, k) \subseteq Nat
    BY <1>1
  <1>3. /\ FirstOf(StopsAt(f, k)) \in StopsAt(f, k)
        /\ \A n \in StopsAt(f, k) : FirstOf(StopsAt(f, k)) <= n
    BY <1>2, FirstOfIsLeast
  <1> HIDE DEF FirstOf
  <1>4. FirstOf(StopsAt(f, k)) \in 1 .. Len(f)
    BY <1>1, <1>3
  <1>5. ASSUME NEW i \in 1 .. FirstOf(StopsAt(f, k)) - 1
        PROVE  Continues(f, k, i)
    <2>1. i \in 1 .. Len(f) /\ ~(FirstOf(StopsAt(f, k)) <= i)
      BY <1>1, <1>4
    <2> QED
      BY <1>3, <2>1 DEF StopsAt
  <1> QED
    BY <1>3, <1>4, <1>5

(* The first bad line decides: line s is bad, the ones before it are not.  *)
LEMMA VerdictIs ==
    ASSUME NEW f \in Seq(Line), NEW k, NEW s \in 1 .. Len(f),
           ~Continues(f, k, s), \A i \in 1 .. s - 1 : Continues(f, k, i),
           f[s].form # "legacy"
    PROVE  Verify(f, k) = [line |-> s, err |-> TRUE]
  <1>1. s \in StopsAt(f, k)
    BY DEF StopsAt
  <1>2. /\ FirstOf(StopsAt(f, k)) \in 1 .. Len(f)
        /\ FirstOf(StopsAt(f, k)) \in StopsAt(f, k)
        /\ \A i \in 1 .. FirstOf(StopsAt(f, k)) - 1 : Continues(f, k, i)
    BY <1>1, StopsAtLines
  <1>3. ~(FirstOf(StopsAt(f, k)) < s)
    BY <1>2 DEF StopsAt
  <1>4. ~(s < FirstOf(StopsAt(f, k)))
    BY <1>2
  <1>5. FirstOf(StopsAt(f, k)) = s
    BY <1>2, <1>3, <1>4
  <1> QED
    BY <1>1, <1>5 DEF Verify

(* What comes after the first bad line does not change the verdict, and a  *)
(* bad line that becomes junk stays bad.                                   *)
LEMMA VerdictKept ==
    ASSUME NEW f \in Seq(Line), NEW g \in Seq(Line), NEW k,
           Verify(f, k).err,
           \/ g = f
           \/ \E e : Glued(f, g, e) /\ e.form = "junk"
           \/ \E e : Grown(f, g, e)
    PROVE  Verify(g, k) = Verify(f, k)
  <1> DEFINE s == FirstOf(StopsAt(f, k))
  <1>1. StopsAt(f, k) # {} /\ f[s].form # "legacy"
    BY DEF Verify
  <1>2. /\ s \in 1 .. Len(f) /\ s \in StopsAt(f, k)
        /\ \A i \in 1 .. s - 1 : Continues(f, k, i)
    BY <1>1, StopsAtLines
  <1>3. Verify(f, k) = [line |-> s, err |-> TRUE]
    BY <1>1 DEF Verify
  <1>4. ~Continues(f, k, s)
    BY <1>2 DEF StopsAt
  <1> HIDE DEF s
  <1>5. /\ s \in 1 .. Len(g)
        /\ \A i \in 1 .. s - 1 : g[i] = f[i]
        /\ g[s] = f[s] \/ g[s].form = "junk"
    BY <1>2 DEF Glued, Grown
  <1>6. \A i \in 1 .. s : HashBefore(g, i) = HashBefore(f, i)
    <2> SUFFICES ASSUME NEW i \in 1 .. s
                 PROVE  HashBefore(g, i) = HashBefore(f, i)
      OBVIOUS
    <2>1. i = 1 \/ i - 1 \in 1 .. s - 1
      BY <1>2
    <2> QED
      BY <1>5, <2>1 DEF HashBefore
  <1>7. \A i \in 1 .. s - 1 : Continues(g, k, i)
    BY <1>2, <1>5, <1>6 DEF Continues
  <1>8. ~Continues(g, k, s) /\ g[s].form # "legacy"
    BY <1>1, <1>2, <1>4, <1>5, <1>6 DEF Continues, s
  <1> QED
    BY <1>3, <1>5, <1>7, <1>8, VerdictIs

(* What one step does to the file: nothing, or an append.                  *)
LEMMA FileStep ==
    ASSUME TypeOK, [Next]_vars
    PROVE  \/ file' = file
           \/ \E e : Glued(file, file', e) /\ e.form = "junk"
           \/ \E e : Grown(file, file', e)
  <1>1. ASSUME NEW r \in Reqs, Write(r)
        PROVE  \/ file' = file
               \/ \E e : Glued(file, file', e) /\ e.form = "junk"
               \/ \E e : Grown(file, file', e)
    <2>1. PICK how \in {"full", "body", "part", "none"} :
             file' = AppendBytes(file, line[r], how, serial)
      BY <1>1 DEF Write
    <2>2. file \in Seq(Line) /\ line[r] \in Line /\ serial \in Nat
      BY DEF TypeOK
    <2>3. Appends(file, file', line[r], how, serial)
      BY <2>1, <2>2, AppendBytesDoes
    <2>4. \A b : Junk(serial, b).form = "junk"
      BY DEF Junk
    <2> QED
      BY <2>3, <2>4, Zenon DEF Appends
  <1>2. ASSUME ~\E r \in Reqs : Write(r) PROVE file' = file
    BY <1>2 DEF Next, vars, Start, Handle, LoadKey, GenerateKey, PersistKey,
                RefuseStart, OpenAudit, Execute, Lock, Chain, Answer, Crash,
                LoseKey, RemoveEmptyKey
  <1> QED
    BY <1>1, <1>2

LEMMA VerdictStep ==
    ASSUME TypeOK, TypeOK', [Next]_vars, NEW k, Verify(file, k).err
    PROVE  Verify(file', k) = Verify(file, k)
  <1>1. file \in Seq(Line) /\ file' \in Seq(Line)
    BY DEF TypeOK
  <1> QED
    BY <1>1, FileStep, VerdictKept

(* Once Verify reports a bad line, nothing the worker does afterwards      *)
(* changes the report, whatever the keys, faults and restarts.             *)
THEOREM StableVerdictHolds == Spec => StableVerdict
  <1>1. TypeOK /\ TypeOK' /\ [Next]_vars =>
           [\A k \in Keys :
               Verify(file, k).err => Verify(file', k) = Verify(file, k)]_vars
    BY VerdictStep
  <1> QED
    BY <1>1, TypeCorrect, PTL DEF Spec, StableVerdict

---------------------------------------------------------------------------
(* Hashes: which line carries which, and who built it when.                *)

(* What a handler's Log call has built: nothing before it chains, then a   *)
(* record of its own, of this process and with prevHash for a hash, until  *)
(* it is written.  No two records share a hash.                            *)
LineInv ==
    \A r \in Reqs :
        /\ line[r].id < serial /\ line[r].prev < serial
        /\ line[r].id > 0 => line[r].prev < line[r].id
        /\ life[r] <= crashes
        /\ pc[r] \in {"new", "ran", "locked"} => line[r].id = 0
        /\ pc[r] = "chained" =>
              /\ line[r].form = "record" /\ line[r].req = r
              /\ line[r].id = prevHash /\ line[r].id > 0
              /\ life[r] = crashes
        /\ \A s \in Reqs : line[r].id = line[s].id /\ line[r].id > 0 => r = s

HashInv == serial > 0 /\ prevHash < serial

(* Hashes grow along the file, and what waits to be written has a newer    *)
(* one.                                                                    *)
FileIds ==
    /\ \A i \in 1 .. Len(file) : 0 < file[i].id /\ file[i].id < serial
    /\ \A i, j \in 1 .. Len(file) : i < j => file[i].id < file[j].id
    /\ \A r \in Reqs, i \in 1 .. Len(file) :
          pc[r] = "chained" => file[i].id < line[r].id

(* A record in the file is one that the handler it names has written.      *)
OriginInv ==
    \A i \in 1 .. Len(file) : file[i].form = "record" =>
        LET q == file[i].req IN
        /\ q \in Reqs
        /\ file[i].id = line[q].id /\ file[i].prev = line[q].prev
        /\ pc[q] \in {"logged", "answered", "aborted"}

(* The records one process built, written or not, form a chain: each       *)
(* names the one built before it, and prevHash names the last one.         *)
Sealed(n) == {r \in Reqs : life[r] = n /\ line[r].id > 0}

NamedBy(h, n) == \E q \in Sealed(n) : line[q].id = h

LifeInv ==
    /\ \A r \in Sealed(crashes) :
          /\ worker = "up"
          /\ line[r].id <= prevHash
          /\ NamedBy(prevHash, crashes)
    /\ \A r, s \in Reqs :
          (/\ life[r] = life[s]
           /\ 0 < line[r].id /\ line[r].id < line[s].id) =>
             /\ line[r].id <= line[s].prev
             /\ NamedBy(line[s].prev, life[s])

IdInv == LineInv /\ HashInv /\ FileIds /\ OriginInv /\ LifeInv

LEMMA TypeFacts ==
    ASSUME TypeOK
    PROVE  /\ serial \in Nat /\ prevHash \in Nat /\ crashes \in Nat
           /\ file \in Seq(Line)
           /\ Len(file) \in Nat /\ DOMAIN file = 1 .. Len(file)
           /\ \A i \in 1 .. Len(file) :
                 file[i] \in Line /\ file[i].id \in Nat /\ file[i].prev \in Nat
           /\ \A r \in Reqs :
                 /\ line[r] \in Line
                 /\ line[r].id \in Nat /\ line[r].prev \in Nat
                 /\ life[r] \in Nat /\ pc[r] \in HandlerStates
  <1>1. file \in Seq(Line)
    BY DEF TypeOK
  <1>2. \A r \in Reqs : line[r] \in Line
    BY DEF TypeOK
  <1>3. \A l \in Line : l.id \in Nat /\ l.prev \in Nat
    BY DEF Line
  <1> QED
    BY <1>1, <1>2, <1>3, LinesOfFile DEF TypeOK

---------------------------------------------------------------------------
(* The steps, by what they do to hashes, lines and lives.                  *)

(* Nothing: key handling, a handler on its way to the mutex or to its      *)
(* answer, a lost key.                                                     *)
Quiet ==
    /\ UNCHANGED <<file, serial, line, life, prevHash, crashes>>
    /\ worker = "up" <=> worker' = "up"
    /\ \A r \in Reqs :
          \/ pc'[r] = pc[r]
          \/ pc[r] \in {"new", "ran"} /\ pc'[r] \in {"ran", "locked"}
          \/ pc[r] = "logged" /\ pc'[r] = "answered"

LEMMA StepKinds ==
    ASSUME TypeOK, [Next]_vars
    PROVE  \/ Quiet
           \/ OpenAudit
           \/ \E r \in Reqs : Chain(r)
           \/ \E r \in Reqs : Write(r)
           \/ Crash
  <1> USE DEF TypeOK, Quiet
  <1>1. ASSUME LoadKey PROVE Quiet
    BY <1>1 DEF LoadKey
  <1>2. ASSUME GenerateKey PROVE Quiet
    BY <1>2 DEF GenerateKey
  <1>3. ASSUME PersistKey PROVE Quiet
    BY <1>3 DEF PersistKey
  <1>4. ASSUME RefuseStart PROVE Quiet
    BY <1>4 DEF RefuseStart
  <1>5. ASSUME NEW r \in Reqs, Execute(r) PROVE Quiet
    BY <1>5 DEF Execute
  <1>6. ASSUME NEW r \in Reqs, Lock(r) PROVE Quiet
    BY <1>6 DEF Lock
  <1>7. ASSUME NEW r \in Reqs, Answer(r) PROVE Quiet
    BY <1>7 DEF Answer
  <1>8. ASSUME LoseKey PROVE Quiet
    BY <1>8 DEF LoseKey
  <1>9. ASSUME RemoveEmptyKey PROVE Quiet
    BY <1>9 DEF RemoveEmptyKey
  <1>10. ASSUME UNCHANGED vars PROVE Quiet
    BY <1>10 DEF vars
  <1> QED
    BY <1>1, <1>2, <1>3, <1>4, <1>5, <1>6, <1>7, <1>8, <1>9, <1>10
    DEF Next, Start, Handle

(* Log's first half: the record is sealed and prevHash moves to it.        *)
Chains(r) ==
    /\ worker = "up" /\ worker' = "up" /\ pc[r] = "locked"
    /\ serial' = serial + 1 /\ prevHash' = serial
    /\ UNCHANGED <<file, crashes>>
    /\ \A s \in Reqs \ {r} : pc[s] # "chained"
    /\ \A s \in Reqs \ {r} : /\ pc'[s] = pc[s] /\ life'[s] = life[s]
                             /\ line'[s] = line[s]
    /\ pc'[r] = "chained" /\ life'[r] = crashes
    /\ line'[r].id = serial /\ line'[r].prev = prevHash
    /\ line'[r].form = "record" /\ line'[r].req = r

LEMMA ChainDoes ==
    ASSUME TypeOK, HolderInv, NEW r \in Reqs, Chain(r)
    PROVE  Chains(r)
  <1>1. /\ pc[r] = "locked" /\ worker = "up"
        /\ \A s \in Reqs \ {r} : pc[s] # "chained"
    BY DEF Chain, HolderInv, InFlight
  <1>2. line' = [line EXCEPT ![r] = ChainedLine(serial, prevHash, memKey, r)]
    BY DEF Chain
  <1>3. line'[r] = ChainedLine(serial, prevHash, memKey, r)
    BY <1>2 DEF TypeOK
  <1> QED
    BY <1>1, <1>2, <1>3 DEF Chain, TypeOK, ChainedLine, Chains

(* Its second half: the file takes what the write leaves of the record.    *)
Writes(r) ==
    /\ worker = "up" /\ worker' = "up" /\ pc[r] = "chained"
    /\ serial' = serial + 1
    /\ UNCHANGED <<line, life, prevHash, crashes>>
    /\ \A s \in Reqs \ {r} : pc'[s] = pc[s] /\ pc[s] # "chained"
    /\ pc'[r] = "logged"
    /\ \E how \in {"full", "body", "part", "none"} :
          /\ Appends(file, file', line[r], how, serial)
          /\ faults' = IF how = "full" THEN faults ELSE faults + 1

LEMMA WriteDoes ==
    ASSUME TypeOK, HolderInv, NEW r \in Reqs, Write(r)
    PROVE  Writes(r)
  <1>1. /\ pc[r] = "chained" /\ worker = "up"
        /\ \A s \in Reqs \ {r} : pc[s] # "chained"
    BY DEF Write, HolderInv, InFlight
  <1>2. PICK how \in {"full", "body", "part", "none"} :
           /\ faults' = IF how = "full" THEN faults ELSE faults + 1
           /\ file' = AppendBytes(file, line[r], how, serial)
    BY DEF Write
  <1>3. file \in Seq(Line) /\ line[r] \in Line /\ serial \in Nat
    BY DEF TypeOK
  <1>4. Appends(file, file', line[r], how, serial)
    BY <1>2, <1>3, AppendBytesDoes
  <1>5. \E h \in {"full", "body", "part", "none"} :
           /\ Appends(file, file', line[r], h, serial)
           /\ faults' = IF h = "full" THEN faults ELSE faults + 1
    BY <1>2, <1>4
  <1> QED
    BY <1>1, <1>5 DEF Write, TypeOK, Writes

Dies ==
    /\ worker' = "down" /\ crashes' = crashes + 1 /\ prevHash' = 0
    /\ UNCHANGED <<file, serial, line, life, faults>>
    /\ \A r \in Reqs :
          /\ pc'[r] \in {pc[r], "aborted"} /\ pc'[r] # "chained"
          /\ pc'[r] \notin {"ran", "locked", "logged"}

LEMMA CrashDoes ==
    ASSUME TypeOK, Crash
    PROVE  Dies
  BY DEF TypeOK, Crash, InFlight, ZeroHash, Dies

(* A write leaves the lines of the file but perhaps a torn last one, and   *)
(* adds at most one: junk under a new hash, or the record.                 *)
Piece(e, l, fresh) ==
    \/ e.form = "junk" /\ e.id = fresh
    \/ /\ e.form = "record" /\ l.form = "record"
       /\ e.id = l.id /\ e.prev = l.prev /\ e.req = l.req

LEMMA AppendShapes ==
    ASSUME NEW f \in Seq(Line), NEW g \in Seq(Line), NEW l \in Line,
           l.form = "record", NEW fresh \in Nat,
           NEW how \in {"full", "body", "part", "none"},
           Appends(f, g, l, how, fresh)
    PROVE  \/ g = f
           \/ \E e : /\ Glued(f, g, e) /\ e.form = "junk" /\ e.id = fresh
           \/ \E e : /\ Grown(f, g, e) /\ Piece(e, l, fresh)
  <1>1. \A b : Junk(fresh, b).form = "junk" /\ Junk(fresh, b).id = fresh
    BY DEF Junk
  <1>2. \A b : Piece([l EXCEPT !.nl = b], l, fresh)
    BY DEF Piece, Line
  <1>3. \A b : Piece(Junk(fresh, b), l, fresh)
    BY <1>1 DEF Piece
  <1> QED
    BY <1>1, <1>2, <1>3, Zenon DEF Appends

---------------------------------------------------------------------------
(* The hashes stay in order.                                               *)

LEMMA InitIdInv == Init => IdInv
  <1> SUFFICES ASSUME Init PROVE IdInv
    OBVIOUS
  <1>1. legacy \in Nat
    BY AuditLogAssumption DEF Init
  <1>2. /\ Len(file) = legacy
        /\ \A i \in 1 .. legacy : file[i] = LegacyLine(i)
    BY <1>1 DEF Init
  <1>3. \A i : LegacyLine(i).id = i /\ LegacyLine(i).form = "legacy"
    BY DEF LegacyLine, Junk
  <1>4. \A i \in 1 .. Len(file) : file[i].id = i /\ file[i].form = "legacy"
    BY <1>1, <1>2, <1>3
  <1>5. \A r \in Reqs : /\ line[r].id = 0 /\ line[r].prev = 0
                        /\ pc[r] = "new" /\ life[r] = 0
    BY DEF Init, Junk, ZeroHash
  <1>6. serial = legacy + 1 /\ prevHash = 0 /\ crashes = 0
    BY DEF Init, ZeroHash
  <1>7. LineInv
    BY <1>1, <1>5, <1>6 DEF LineInv
  <1>8. HashInv
    BY <1>1, <1>6 DEF HashInv
  <1>9. FileIds /\ OriginInv
    BY <1>1, <1>2, <1>4, <1>5, <1>6 DEF FileIds, OriginInv
  <1>10. LifeInv
    BY <1>5 DEF LifeInv, Sealed
  <1> QED
    BY <1>7, <1>8, <1>9, <1>10 DEF IdInv

LEMMA QuietKeepsIds ==
    ASSUME IdInv, Quiet
    PROVE  IdInv'
  <1> USE DEF IdInv, Quiet
  <1>1. LineInv'
    BY DEF LineInv
  <1>2. HashInv'
    BY DEF HashInv
  <1>3. FileIds'
    BY DEF FileIds
  <1>4. OriginInv'
    BY DEF OriginInv
  <1>5. LifeInv'
    BY DEF LifeInv, Sealed, NamedBy
  <1> QED
    BY <1>1, <1>2, <1>3, <1>4, <1>5

LEMMA OpenKeepsIds ==
    ASSUME TypeOK, IdInv, HolderInv, OpenAudit
    PROVE  IdInv'
  <1> USE DEF IdInv
  <1>1. /\ worker = "keyed" /\ worker' = "up"
        /\ UNCHANGED <<file, serial, line, life, pc, crashes>>
        /\ prevHash' = LastRecordHash(file)
    BY DEF OpenAudit
  <1>2. \A r \in Reqs : pc[r] # "chained"
    BY <1>1 DEF HolderInv, InFlight
  <1>3. Sealed(crashes) = {}
    BY <1>1 DEF LifeInv
  <1>4. LineInv'
    BY <1>1, <1>2 DEF LineInv
  <1>5. HashInv'
    <2>1. CASE file = <<>>
      BY <1>1, <2>1, TypeFacts DEF HashInv, LastRecordHash, ZeroHash
    <2>2. CASE file # <<>>
      <3>1. Len(file) \in 1 .. Len(file)
        BY <2>2, TypeFacts
      <3>2. file[Len(file)].id < serial
        BY <3>1 DEF FileIds
      <3> QED
        BY <1>1, <2>2, <3>2 DEF HashInv, LastRecordHash
    <2> QED
      BY <2>1, <2>2
  <1>6. FileIds'
    BY <1>1 DEF FileIds
  <1>7. OriginInv'
    BY <1>1 DEF OriginInv
  <1>8. LifeInv'
    BY <1>1, <1>3 DEF LifeInv, Sealed, NamedBy
  <1> QED
    BY <1>4, <1>5, <1>6, <1>7, <1>8

LEMMA ChainKeepsIds ==
    ASSUME TypeOK, TypeOK', IdInv, HolderInv, NEW r \in Reqs, Chain(r)
    PROVE  IdInv'
  <1> USE DEF IdInv
  <1>0. Chains(r)
    BY ChainDoes
  <1>1. /\ worker = "up" /\ worker' = "up" /\ pc[r] = "locked"
        /\ serial' = serial + 1 /\ prevHash' = serial
        /\ UNCHANGED <<file, crashes>>
        /\ \A s \in Reqs \ {r} : pc[s] # "chained"
        /\ \A s \in Reqs \ {r} : /\ pc'[s] = pc[s] /\ life'[s] = life[s]
                                 /\ line'[s] = line[s]
        /\ pc'[r] = "chained" /\ life'[r] = crashes
        /\ line'[r].id = serial /\ line'[r].prev = prevHash
        /\ line'[r].form = "record" /\ line'[r].req = r
    BY <1>0 DEF Chains
  <1>2. /\ serial \in Nat /\ prevHash \in Nat /\ serial > 0
        /\ prevHash < serial /\ crashes \in Nat
    BY TypeFacts DEF HashInv
  <1>3. line[r].id = 0
    BY <1>1 DEF LineInv
  <1>4. \A s \in Reqs : /\ line[s].id \in Nat /\ line[s].prev \in Nat
                        /\ line[s].id < serial /\ line[s].prev < serial
                        /\ life[s] \in Nat
    BY TypeFacts DEF LineInv
  <1>5. LineInv'
    <2> SUFFICES ASSUME NEW s \in Reqs
        PROVE  /\ line'[s].id < serial' /\ line'[s].prev < serial'
               /\ line'[s].id > 0 => line'[s].prev < line'[s].id
               /\ life'[s] <= crashes'
               /\ pc'[s] \in {"new", "ran", "locked"} => line'[s].id = 0
               /\ pc'[s] = "chained" =>
                     /\ line'[s].form = "record" /\ line'[s].req = s
                     /\ line'[s].id = prevHash' /\ line'[s].id > 0
                     /\ life'[s] = crashes'
               /\ \A t \in Reqs :
                     line'[s].id = line'[t].id /\ line'[s].id > 0 => s = t
      BY DEF LineInv
    <2>1. CASE s = r
      BY <1>1, <1>2, <1>4, <2>1 DEF LineInv
    <2>2. CASE s # r
      BY <1>1, <1>2, <1>4, <2>2 DEF LineInv
    <2> QED
      BY <2>1, <2>2
  <1>6. HashInv'
    BY <1>1, <1>2 DEF HashInv
  <1>7. FileIds'
    BY <1>1, <1>2, TypeFacts DEF FileIds
  <1>8. OriginInv'
    BY <1>1 DEF OriginInv
  <1>9. LifeInv'
    <2>1. ASSUME NEW h, NEW n, NamedBy(h, n)
          PROVE  \E q \in Reqs : /\ life'[q] = n
                                 /\ line'[q].id > 0 /\ line'[q].id = h
      <3>1. PICK q \in Reqs : /\ life[q] = n
                              /\ line[q].id > 0 /\ line[q].id = h
        BY <2>1 DEF NamedBy, Sealed
      <3>2. q # r
        BY <1>3, <3>1
      <3> QED
        BY <1>1, <3>1, <3>2
    <2>2. \E q \in Reqs : /\ life'[q] = crashes' /\ line'[q].id > 0
                          /\ line'[q].id = prevHash'
      BY <1>1, <1>2
    <2>3. ASSUME NEW s \in Reqs PROVE line'[s].id <= prevHash'
      BY <1>1, <1>2, <1>4
    <2>4. ASSUME NEW s \in Reqs, NEW t \in Reqs, life'[s] = life'[t],
                 0 < line'[s].id, line'[s].id < line'[t].id
          PROVE  /\ line'[s].id <= line'[t].prev
                 /\ \E q \in Reqs : /\ life'[q] = life'[t]
                                    /\ line'[q].id > 0
                                    /\ line'[q].id = line'[t].prev
      <3>1. s # r
        BY <1>1, <1>2, <1>4, <2>4
      <3>2. line'[s] = line[s] /\ life'[s] = life[s]
        BY <1>1, <3>1
      <3>3. CASE t = r
        <4>1. s \in Sealed(crashes)
          BY <1>1, <2>4, <3>2, <3>3 DEF Sealed
        <4>2. line[s].id <= prevHash /\ NamedBy(prevHash, crashes)
          BY <4>1 DEF LifeInv
        <4> QED
          BY <1>1, <2>1, <3>2, <3>3, <4>2
      <3>4. CASE t # r
        <4>1. line'[t] = line[t] /\ life'[t] = life[t]
          BY <1>1, <3>4
        <4>2. line[s].id <= line[t].prev /\ NamedBy(line[t].prev, life[t])
          BY <2>4, <3>2, <4>1 DEF LifeInv
        <4> QED
          BY <2>1, <3>2, <4>1, <4>2
      <3> QED
        BY <3>3, <3>4
    <2> QED
      BY <1>1, <2>2, <2>3, <2>4 DEF LifeInv, Sealed, NamedBy
  <1> QED
    BY <1>5, <1>6, <1>7, <1>8, <1>9

(* The file after a write, whatever the write leaves.                      *)
LEMMA WriteShape ==
    ASSUME TypeOK, TypeOK', LineInv, HolderInv, NEW r \in Reqs, Write(r)
    PROVE  \/ file' = file
           \/ \E e : /\ Glued(file, file', e)
                     /\ e.form = "junk" /\ e.id = serial
           \/ \E e : Grown(file, file', e) /\ Piece(e, line[r], serial)
  <1>0. Writes(r)
    BY WriteDoes
  <1>1. PICK how \in {"full", "body", "part", "none"} :
           Appends(file, file', line[r], how, serial)
    BY <1>0 DEF Writes
  <1>2. /\ file \in Seq(Line) /\ file' \in Seq(Line) /\ line[r] \in Line
        /\ serial \in Nat
    BY DEF TypeOK
  <1>3. line[r].form = "record"
    BY DEF LineInv, Write
  <1> QED
    BY <1>1, <1>2, <1>3, AppendShapes

LEMMA WriteKeepsIds ==
    ASSUME TypeOK, TypeOK', IdInv, HolderInv, NEW r \in Reqs, Write(r)
    PROVE  IdInv'
  <1> USE DEF IdInv
  <1>0. Writes(r)
    BY WriteDoes
  <1>1. /\ worker = "up" /\ worker' = "up" /\ pc[r] = "chained"
        /\ serial' = serial + 1
        /\ UNCHANGED <<line, life, prevHash, crashes>>
        /\ \A s \in Reqs \ {r} : pc'[s] = pc[s] /\ pc[s] # "chained"
        /\ pc'[r] = "logged"
    BY <1>0 DEF Writes
  <1>2. serial \in Nat /\ prevHash \in Nat /\ serial > 0 /\ prevHash < serial
    BY TypeFacts DEF HashInv
  <1>3. /\ line[r].form = "record" /\ line[r].req = r
        /\ line[r].id > 0 /\ line[r].id < serial /\ line[r].id \in Nat
    BY <1>1, TypeFacts DEF LineInv
  <1>4. LineInv'
    <2> SUFFICES ASSUME NEW s \in Reqs
        PROVE  /\ line[s].id < serial' /\ line[s].prev < serial'
               /\ line[s].id > 0 => line[s].prev < line[s].id
               /\ life[s] <= crashes
               /\ pc'[s] \in {"new", "ran", "locked"} => line[s].id = 0
               /\ pc'[s] # "chained"
               /\ \A t \in Reqs :
                     line[s].id = line[t].id /\ line[s].id > 0 => s = t
      BY <1>1 DEF LineInv
    <2>1. /\ line[s].id < serial /\ line[s].prev < serial
          /\ line[s].id \in Nat /\ line[s].prev \in Nat
      BY TypeFacts DEF LineInv
    <2>2. pc'[s] = pc[s] \/ s = r
      BY <1>1
    <2> QED
      BY <1>1, <1>2, <2>1, <2>2 DEF LineInv
  <1>5. HashInv'
    BY <1>1, <1>2 DEF HashInv
  <1>6. LifeInv'
    BY <1>1 DEF LifeInv, Sealed, NamedBy
  <1>7. FileIds' /\ OriginInv'
    <2>1. /\ \A s \in Reqs : pc'[s] # "chained"
          /\ Len(file) \in Nat
          /\ \A i \in 1 .. Len(file) : /\ file[i].id \in Nat
                                       /\ 0 < file[i].id
                                       /\ file[i].id < serial
                                       /\ file[i].id < line[r].id
      BY <1>1, TypeFacts DEF FileIds
    <2>2. CASE file' = file
      <3>1. FileIds'
        BY <1>2, <1>1, <2>1, <2>2 DEF FileIds
      <3>2. OriginInv'
        BY <1>1, <2>2 DEF OriginInv
      <3> QED
        BY <3>1, <3>2
    <2>3. ASSUME NEW e, Glued(file, file', e), e.form = "junk",
                 e.id = serial
          PROVE  FileIds' /\ OriginInv'
      <3>1. FileIds'
        <4>1. \A i \in 1 .. Len(file') :
                 0 < file'[i].id /\ file'[i].id < serial'
          BY <1>1, <1>2, <2>1, <2>3 DEF Glued
        <4>2. \A i, j \in 1 .. Len(file') :
                 i < j => file'[i].id < file'[j].id
          BY <1>2, <2>1, <2>3 DEF Glued, FileIds
        <4> QED
          BY <2>1, <4>1, <4>2 DEF FileIds
      <3>2. OriginInv'
        BY <1>1, <2>1, <2>3 DEF Glued, OriginInv
      <3> QED
        BY <3>1, <3>2
    <2>4. ASSUME NEW e, Grown(file, file', e), Piece(e, line[r], serial)
          PROVE  FileIds' /\ OriginInv'
      <3>1. /\ e.id \in {serial, line[r].id}
            /\ \A i \in 1 .. Len(file) : file[i].id < e.id
        BY <1>2, <1>3, <2>1, <2>4 DEF Piece
      <3>2. FileIds'
        <4>1. \A i \in 1 .. Len(file') :
                 0 < file'[i].id /\ file'[i].id < serial'
          BY <1>1, <1>2, <1>3, <2>1, <2>4, <3>1 DEF Grown
        <4>2. ASSUME NEW i \in 1 .. Len(file'), NEW j \in 1 .. Len(file'),
                     i < j
              PROVE  file'[i].id < file'[j].id
          <5>1. i \in 1 .. Len(file) /\ file'[i] = file[i]
            BY <2>1, <2>4, <4>2 DEF Grown
          <5>2. CASE j \in 1 .. Len(file)
            BY <2>4, <4>2, <5>1, <5>2 DEF Grown, FileIds
          <5>3. CASE j = Len(file) + 1
            BY <2>4, <3>1, <5>1, <5>3 DEF Grown
          <5> QED
            BY <2>1, <2>4, <5>2, <5>3 DEF Grown
        <4> QED
          BY <2>1, <4>1, <4>2 DEF FileIds
      <3>3. OriginInv'
        <4> SUFFICES ASSUME NEW i \in 1 .. Len(file'),
                            file'[i].form = "record"
            PROVE  LET q == file'[i].req IN
                   /\ q \in Reqs
                   /\ file'[i].id = line'[q].id
                   /\ file'[i].prev = line'[q].prev
                   /\ pc'[q] \in {"logged", "answered", "aborted"}
          BY DEF OriginInv
        <4>1. CASE i \in 1 .. Len(file)
          <5>1. file'[i] = file[i]
            BY <2>4, <4>1 DEF Grown
          <5> QED
            BY <1>1, <4>1, <5>1 DEF OriginInv
        <4>2. CASE i = Len(file) + 1
          <5>1. file'[i] = e
            BY <2>4, <4>2 DEF Grown
          <5> QED
            BY <1>1, <1>3, <2>4, <5>1 DEF Piece
        <4> QED
          BY <2>1, <2>4, <4>1, <4>2 DEF Grown
      <3> QED
        BY <3>2, <3>3
    <2> QED
      BY <2>2, <2>3, <2>4, WriteShape
  <1> QED
    BY <1>4, <1>5, <1>6, <1>7

LEMMA CrashKeepsIds ==
    ASSUME TypeOK, IdInv, Crash
    PROVE  IdInv'
  <1> USE DEF IdInv
  <1>0. Dies
    BY CrashDoes
  <1>1. /\ worker' = "down" /\ crashes' = crashes + 1 /\ prevHash' = 0
        /\ UNCHANGED <<file, serial, line, life>>
        /\ \A r \in Reqs :
              /\ pc'[r] \in {pc[r], "aborted"} /\ pc'[r] # "chained"
    BY <1>0 DEF Dies
  <1>2. crashes \in Nat /\ \A r \in Reqs : life[r] \in Nat
    BY TypeFacts
  <1>3. LineInv'
    BY <1>1, <1>2 DEF LineInv
  <1>4. HashInv'
    BY <1>1 DEF HashInv
  <1>5. FileIds'
    BY <1>1 DEF FileIds
  <1>6. OriginInv'
    BY <1>1 DEF OriginInv
  <1>7. \A r \in Reqs : life'[r] # crashes'
    BY <1>1, <1>2 DEF LineInv
  <1>8. LifeInv'
    BY <1>1, <1>7 DEF LifeInv, Sealed, NamedBy
  <1> QED
    BY <1>3, <1>4, <1>5, <1>6, <1>8

(* Every step keeps them, whoever holds which key.                         *)
LEMMA IdStep ==
    ASSUME TypeOK, TypeOK', HolderInv, IdInv, [Next]_vars
    PROVE  IdInv'
  BY StepKinds, QuietKeepsIds, OpenKeepsIds, ChainKeepsIds, WriteKeepsIds,
     CrashKeepsIds

(* Hashes, handlers and processes agree in every reachable state, however  *)
(* many writes failed.                                                     *)
THEOREM IdInvariant == Spec => []IdInv
  <1>1. TypeOK /\ TypeOK' /\ LogInv /\ IdInv /\ [Next]_vars => IdInv'
    BY IdStep DEF LogInv
  <1> QED
    BY <1>1, InitIdInv, TypeCorrect, LogInvariant, PTL DEF Spec

---------------------------------------------------------------------------
(* A gap shows.                                                            *)

(* A line whose predecessor is not the line before it stops Verify.        *)
LEMMA NoStopNoGap ==
    ASSUME NEW f \in Seq(Line), NEW k, Verify(f, k).line = 0
    PROVE  \A i \in 1 .. Len(f) : Continues(f, k, i)
  <1>1. ASSUME StopsAt(f, k) # {} PROVE FALSE
    <2>1. FirstOf(StopsAt(f, k)) \in 1 .. Len(f)
      BY <1>1, StopsAtLines
    <2>2. FirstOf(StopsAt(f, k)) # 0
      BY <2>1
    <2> QED
      BY <1>1, <2>2 DEF Verify
  <1> QED
    BY <1>1 DEF StopsAt

LEMMA GapShows ==
    ASSUME TypeOK, IdInv, NEW r \in Reqs, NEW s \in Reqs,
           Recorded(file, s), life[r] = life[s],
           0 < line[r].id, line[r].id < line[s].id,
           NEW k, \A i \in 1 .. Len(file) : Continues(file, k, i)
    PROVE  Recorded(file, r)
  <1> USE DEF IdInv
  <1> DEFINE later == {q \in Reqs : /\ Recorded(file, q) /\ life[q] = life[r]
                                    /\ line[r].id < line[q].id}
             ids == {line[q].id : q \in later}
  <1>1. \A q \in Reqs : line[q].id \in Nat /\ line[q].prev \in Nat
    BY TypeFacts
  <1>2. PICK q \in later : \A t \in later : line[q].id <= line[t].id
    <2>1. ids \subseteq Nat
      BY <1>1
    <2>2. ids # {}
      OBVIOUS
    <2>3. PICK m \in ids : \A n \in ids : m <= n
      BY <2>1, <2>2, LeastNatural
    <2> QED
      BY <2>3
  <1>3. PICK i \in 1 .. Len(file) : file[i].form = "record" /\ file[i].req = q
    BY <1>2, TypeFacts DEF Recorded
  <1>4. file[i].id = line[q].id /\ file[i].prev = line[q].prev
    BY <1>3 DEF OriginInv
  <1>5. /\ line[r].id <= line[q].prev
        /\ \E t \in Reqs : life[t] = life[r] /\ line[t].id = line[q].prev
    BY <1>1, <1>2 DEF LifeInv, NamedBy, Sealed
  <1>6. line[q].prev < line[q].id
    BY <1>1, <1>2 DEF LineInv
  <1>7. i - 1 \in 1 .. Len(file) /\ file[i - 1].id = line[q].prev
    <2>1. file[i].prev = HashBefore(file, i)
      BY DEF Continues
    <2>2. i # 1
      BY <1>1, <1>4, <1>5, <2>1 DEF HashBefore, ZeroHash
    <2> QED
      BY <1>4, <2>1, <2>2, TypeFacts DEF HashBefore
  <1>8. PICK p \in Reqs : /\ file[i - 1].form = "record"
                          /\ file[i - 1].req = p
                          /\ line[p].id = line[q].prev
    BY <1>7 DEF Continues, OriginInv
  <1>9. Recorded(file, p)
    BY <1>7, <1>8, TypeFacts DEF Recorded
  <1>10. life[p] = life[r]
    <2>1. PICK t \in Reqs : life[t] = life[r] /\ line[t].id = line[q].prev
      BY <1>5
    <2>2. line[p].id > 0
      BY <1>1, <1>5, <1>8
    <2>3. p = t
      BY <1>8, <2>1, <2>2 DEF LineInv
    <2> QED
      BY <2>1, <2>3
  <1>11. ~(line[r].id < line[p].id)
    <2>1. ASSUME line[r].id < line[p].id PROVE FALSE
      <3>1. p \in later
        BY <1>9, <1>10, <2>1
      <3> QED
        BY <1>1, <1>2, <1>6, <1>8, <3>1
    <2> QED
      BY <2>1
  <1>12. line[p].id = line[r].id
    BY <1>1, <1>5, <1>8, <1>11
  <1>13. p = r
    BY <1>12 DEF LineInv
  <1> QED
    BY <1>9, <1>13

(* A record that is missing before a later record of the same process is   *)
(* noticed by Verify under every key, whatever faults and restarts came    *)
(* in between: prevHash moves on before the write and never goes back.     *)
THEOREM GapVisibleHolds == Spec => []GapVisible
  <1>1. TypeOK /\ IdInv => GapVisible
    <2> SUFFICES ASSUME TypeOK, IdInv,
                        NEW r \in Reqs, NEW s \in Reqs,
                        Recorded(file, s), ~Recorded(file, r),
                        life[r] = life[s], ZeroHash < line[r].id,
                        line[r].id < line[s].id,
                        NEW k \in Keys
                 PROVE  Verify(file, k).line # 0
      BY DEF GapVisible
    <2>1. file \in Seq(Line) /\ 0 < line[r].id
      BY DEF TypeOK, ZeroHash
    <2> QED
      BY <2>1, NoStopNoGap, GapShows
  <1> QED
    BY <1>1, TypeCorrect, IdInvariant, PTL

---------------------------------------------------------------------------
(* What a failed write costs.                                              *)

Lost == {r \in Reqs : Logged(r) /\ ~Recorded(file, r)}

(* A torn line will swallow the record glued to it, and itself if it still *)
(* is a record: a whole one without its newline.                           *)
Debt ==
    IF ~TornTail(file) THEN 0
    ELSE IF file[Len(file)].form = "record" THEN 2 ELSE 1

LossInv ==
    /\ IsFiniteSet(Lost)
    /\ Cardinality(Lost) + Debt <= 2 * faults

LEMMA OneMoreLost ==
    ASSUME NEW S, IsFiniteSet(S), NEW x, NEW T, T \subseteq S \cup {x}
    PROVE  /\ IsFiniteSet(T)
           /\ Cardinality(S) \in Nat /\ Cardinality(T) \in Nat
           /\ Cardinality(T) <= Cardinality(S) + 1
  <1>1. IsFiniteSet(S \cup {x})
    BY FS_AddElement
  <1>2. /\ Cardinality(S) \in Nat /\ Cardinality(S \cup {x}) \in Nat
        /\ Cardinality(S \cup {x}) <= Cardinality(S) + 1
    BY <1>1, FS_AddElement, FS_CardinalityType
  <1>3. IsFiniteSet(T) /\ Cardinality(T) <= Cardinality(S \cup {x})
    BY <1>1, FS_Subset
  <1>4. Cardinality(T) \in Nat
    BY <1>3, FS_CardinalityType
  <1> QED
    BY <1>2, <1>3, <1>4

LEMMA TwoMoreLost ==
    ASSUME NEW S, IsFiniteSet(S), NEW x, NEW y, NEW T,
           T \subseteq (S \cup {x}) \cup {y}
    PROVE  /\ IsFiniteSet(T)
           /\ Cardinality(S) \in Nat /\ Cardinality(T) \in Nat
           /\ Cardinality(T) <= Cardinality(S) + 2
  <1>1. /\ IsFiniteSet(S \cup {x})
        /\ Cardinality(S) \in Nat /\ Cardinality(S \cup {x}) \in Nat
        /\ Cardinality(S \cup {x}) <= Cardinality(S) + 1
    BY OneMoreLost
  <1>2. /\ IsFiniteSet(T) /\ Cardinality(T) \in Nat
        /\ Cardinality(T) <= Cardinality(S \cup {x}) + 1
    BY <1>1, OneMoreLost
  <1> QED
    BY <1>1, <1>2

LEMMA NothingMoreLost ==
    ASSUME NEW S, IsFiniteSet(S), NEW T, T \subseteq S
    PROVE  /\ IsFiniteSet(T)
           /\ Cardinality(S) \in Nat /\ Cardinality(T) \in Nat
           /\ Cardinality(T) <= Cardinality(S)
  BY FS_Subset, FS_CardinalityType

(* Which records are in a file that was appended to.                       *)
LEMMA GrownKeeps ==
    ASSUME NEW f \in Seq(Line), NEW g \in Seq(Line), NEW e, Grown(f, g, e)
    PROVE  /\ \A q : Recorded(f, q) => Recorded(g, q)
           /\ e.form = "record" => Recorded(g, e.req)
           /\ g[Len(g)] = e /\ g # <<>> /\ Len(g) \in 1 .. Len(g)
  <1>1. DOMAIN f = 1 .. Len(f) /\ DOMAIN g = 1 .. Len(g) /\ Len(f) \in Nat
    OBVIOUS
  <1>2. Len(g) = Len(f) + 1 /\ Len(g) \in 1 .. Len(g)
    BY <1>1 DEF Grown
  <1>3. \A i \in 1 .. Len(f) : i \in 1 .. Len(g) /\ g[i] = f[i]
    BY <1>1 DEF Grown
  <1> QED
    BY <1>1, <1>2, <1>3 DEF Grown, Recorded

LEMMA GluedKeeps ==
    ASSUME NEW f \in Seq(Line), NEW g \in Seq(Line), NEW e, Glued(f, g, e)
    PROVE  /\ \A q : Recorded(f, q) =>
                 \/ Recorded(g, q)
                 \/ f[Len(f)].form = "record" /\ q = f[Len(f)].req
           /\ g[Len(g)] = e /\ g # <<>>
  <1>1. DOMAIN f = 1 .. Len(f) /\ DOMAIN g = 1 .. Len(g) /\ Len(f) \in Nat
    OBVIOUS
  <1>2. Len(g) = Len(f) /\ Len(g) \in 1 .. Len(g) /\ g[Len(g)] = e
    BY <1>1 DEF Glued
  <1>3. ASSUME NEW q, Recorded(f, q)
        PROVE  \/ Recorded(g, q)
               \/ f[Len(f)].form = "record" /\ q = f[Len(f)].req
    <2>1. PICK i \in 1 .. Len(f) : f[i].form = "record" /\ f[i].req = q
      BY <1>1, <1>3 DEF Recorded
    <2>2. CASE i = Len(f)
      BY <2>1, <2>2
    <2>3. CASE i # Len(f)
      <3>1. i \in 1 .. Len(f) - 1
        BY <2>1, <2>3, LinesOfFile
      <3>2. g[i] = f[i] /\ i \in DOMAIN g
        BY <1>1, <1>2, <3>1 DEF Glued
      <3> QED
        BY <2>1, <3>2 DEF Recorded
    <2> QED
      BY <2>2, <2>3
  <1> QED
    BY <1>2, <1>3

LEMMA JunkFields ==
    ASSUME NEW id, NEW b \in BOOLEAN
    PROVE  Junk(id, b).form = "junk" /\ (Junk(id, b).nl <=> b)
  <1>1. Junk(id, b).nl = b /\ Junk(id, b).form = "junk"
    BY DEF Junk
  <1> QED
    BY <1>1

LEMMA WriteKeepsLoss ==
    ASSUME TypeOK, TypeOK', LineInv, HolderInv, LossInv,
           NEW r \in Reqs, Write(r)
    PROVE  LossInv'
  <1>0. Writes(r)
    BY WriteDoes
  <1>1. /\ \A s \in Reqs \ {r} : pc'[s] = pc[s]
        /\ pc[r] = "chained" /\ pc'[r] = "logged"
    BY <1>0 DEF Writes
  <1>2. PICK how \in {"full", "body", "part", "none"} :
           /\ Appends(file, file', line[r], how, serial)
           /\ faults' = IF how = "full" THEN faults ELSE faults + 1
    BY <1>0 DEF Writes
  <1>3. line[r].form = "record" /\ line[r].req = r /\ line[r] \in Line
    BY <1>1, TypeFacts DEF LineInv
  <1>4. file \in Seq(Line) /\ file' \in Seq(Line) /\ faults \in Nat
    BY AuditLogAssumption DEF TypeOK
  <1>5. IsFiniteSet(Lost) /\ Cardinality(Lost) + Debt <= 2 * faults
    BY DEF LossInv
  <1>6. \A q \in Lost' :
           q \in Lost \/ q = r \/ (Recorded(file, q) /\ q \in Reqs)
    BY <1>1 DEF Lost, Logged
  <1>7. \A q \in Lost' : ~Recorded(file', q)
    BY DEF Lost
  <1>8. CASE how = "none" /\ file' = file
    <2>1. Lost' \subseteq Lost \cup {r}
      BY <1>6, <1>7, <1>8
    <2>2. /\ IsFiniteSet(Lost') /\ Cardinality(Lost) \in Nat
          /\ Cardinality(Lost') \in Nat
          /\ Cardinality(Lost') <= Cardinality(Lost) + 1
      BY <1>5, <2>1, OneMoreLost
    <2>3. Debt' = Debt /\ Debt \in Nat
      BY <1>8 DEF Debt
    <2> QED
      BY <1>2, <1>4, <1>5, <1>8, <2>2, <2>3 DEF LossInv
  <1>9. CASE /\ how # "none" /\ TornTail(file)
             /\ Glued(file, file', Junk(serial, how = "full"))
    <2> DEFINE q == file[Len(file)].req
    <2>1. /\ file'[Len(file')] = Junk(serial, how = "full")
          /\ file' # <<>>
          /\ \A t : Recorded(file, t) =>
                \/ Recorded(file', t)
                \/ file[Len(file)].form = "record" /\ t = q
      BY <1>4, <1>9, GluedKeeps
    <2>2. /\ file'[Len(file')].form = "junk"
          /\ file'[Len(file')].nl <=> how = "full"
      <3>1. (how = "full") \in BOOLEAN
        OBVIOUS
      <3>2. /\ Junk(serial, how = "full").form = "junk"
            /\ Junk(serial, how = "full").nl <=> how = "full"
        BY <3>1, JunkFields
      <3> QED
        BY <2>1, <3>2, Zenon
    <2>3. Debt' = IF how = "full" THEN 0 ELSE 1
      <3>1. CASE how = "full"
        <4>1. ~TornTail(file')
          BY <2>2, <3>1 DEF TornTail
        <4> QED
          BY <3>1, <4>1 DEF Debt
      <3>2. CASE how # "full"
        <4>1. ~file'[Len(file')].nl
          BY <2>2, <3>2, Zenon
        <4>2. TornTail(file')
          BY <2>1, <4>1, Zenon DEF TornTail
        <4> QED
          BY <2>2, <3>2, <4>2 DEF Debt
      <3> QED
        BY <3>1, <3>2
    <2>4. CASE file[Len(file)].form = "record"
      <3>1. Lost' \subseteq (Lost \cup {r}) \cup {q}
        BY <1>6, <1>7, <2>1
      <3> HIDE DEF q
      <3>2. /\ IsFiniteSet(Lost') /\ Cardinality(Lost) \in Nat
            /\ Cardinality(Lost') \in Nat
            /\ Cardinality(Lost') <= Cardinality(Lost) + 2
        BY <1>5, <3>1, TwoMoreLost
      <3>3. Debt = 2
        BY <1>9, <2>4 DEF Debt
      <3> QED
        BY <1>2, <1>4, <1>5, <2>3, <3>2, <3>3 DEF LossInv
    <2>5. CASE file[Len(file)].form # "record"
      <3>1. Lost' \subseteq Lost \cup {r}
        BY <1>6, <1>7, <2>1, <2>5
      <3>2. /\ IsFiniteSet(Lost') /\ Cardinality(Lost) \in Nat
            /\ Cardinality(Lost') \in Nat
            /\ Cardinality(Lost') <= Cardinality(Lost) + 1
        BY <1>5, <3>1, OneMoreLost
      <3>3. Debt = 1
        BY <1>9, <2>5 DEF Debt
      <3> QED
        BY <1>2, <1>4, <1>5, <2>3, <3>2, <3>3 DEF LossInv
    <2> QED
      BY <2>4, <2>5
  <1>10. CASE how = "part" /\ ~TornTail(file)
              /\ Grown(file, file', Junk(serial, FALSE))
    <2>1. /\ \A t : Recorded(file, t) => Recorded(file', t)
          /\ file'[Len(file')] = Junk(serial, FALSE)
      BY <1>4, <1>10, GrownKeeps
    <2>2. Lost' \subseteq Lost \cup {r}
      BY <1>6, <1>7, <2>1
    <2>3. /\ IsFiniteSet(Lost') /\ Cardinality(Lost) \in Nat
          /\ Cardinality(Lost') \in Nat
          /\ Cardinality(Lost') <= Cardinality(Lost) + 1
      BY <1>5, <2>2, OneMoreLost
    <2>4. Debt = 0 /\ Debt' \in {0, 1}
      BY <1>10, <2>1 DEF Debt, Junk
    <2> QED
      BY <1>2, <1>4, <1>5, <1>10, <2>3, <2>4 DEF LossInv
  <1>11. CASE how \in {"full", "body"} /\ ~TornTail(file)
              /\ Grown(file, file', [line[r] EXCEPT !.nl = (how = "full")])
    <2> DEFINE e == [line[r] EXCEPT !.nl = (how = "full")]
    <2>1. /\ e.form = "record" /\ e.req = r
          /\ how = "full" => e.nl
      BY <1>3 DEF Line
    <2> HIDE DEF e
    <2>2. /\ \A t : Recorded(file, t) => Recorded(file', t)
          /\ e.form = "record" => Recorded(file', e.req)
          /\ file'[Len(file')] = e
      <3>1. Grown(file, file', e)
        BY <1>11 DEF e
      <3> QED
        BY <1>4, <3>1, GrownKeeps
    <2>3. Lost' \subseteq Lost
      BY <1>6, <1>7, <2>1, <2>2
    <2>4. /\ IsFiniteSet(Lost') /\ Cardinality(Lost) \in Nat
          /\ Cardinality(Lost') \in Nat
          /\ Cardinality(Lost') <= Cardinality(Lost)
      BY <1>5, <2>3, NothingMoreLost
    <2>5. Debt = 0
      BY <1>11 DEF Debt
    <2>6. CASE how = "full"
      <3>1. ~TornTail(file')
        BY <2>1, <2>2, <2>6, Zenon DEF TornTail
      <3>2. Debt' = 0
        BY <3>1 DEF Debt
      <3> QED
        BY <1>2, <1>4, <1>5, <2>4, <2>5, <2>6, <3>2 DEF LossInv
    <2>7. CASE how = "body"
      <3>1. Debt' \in {0, 1, 2}
        BY DEF Debt
      <3> QED
        BY <1>2, <1>4, <1>5, <2>4, <2>5, <2>7, <3>1 DEF LossInv
    <2> QED
      BY <1>11, <2>6, <2>7
  <1> QED
    BY <1>2, <1>8, <1>9, <1>10, <1>11 DEF Appends

(* Any other step loses no record and forgives no fault.                   *)
LEMMA OthersLoseNothing ==
    ASSUME TypeOK, TypeOK', [Next]_vars, ~\E r \in Reqs : Write(r)
    PROVE  /\ file' = file /\ faults' >= faults
           /\ \A r \in Reqs : Logged(r)' => Logged(r)
  <1> USE AuditLogAssumption DEF TypeOK, Logged
  <1>1. CASE Start
    BY <1>1 DEF Start, LoadKey, GenerateKey, PersistKey, RefuseStart,
                OpenAudit
  <1>2. ASSUME NEW r \in Reqs, Execute(r) \/ Lock(r) \/ Chain(r) \/ Answer(r)
        PROVE  /\ file' = file /\ faults' >= faults
               /\ \A s \in Reqs : Logged(s)' => Logged(s)
    BY <1>2 DEF Execute, Lock, Chain, Answer
  <1>3. CASE Crash
    BY <1>3 DEF Crash, InFlight
  <1>4. CASE LoseKey
    BY <1>4 DEF LoseKey
  <1>5. CASE RemoveEmptyKey
    BY <1>5 DEF RemoveEmptyKey
  <1>6. CASE UNCHANGED vars
    BY <1>6 DEF vars
  <1> QED
    BY <1>1, <1>2, <1>3, <1>4, <1>5, <1>6 DEF Next, Handle

LEMMA LossStep ==
    ASSUME TypeOK, TypeOK', LineInv, HolderInv, LossInv, [Next]_vars
    PROVE  LossInv'
  <1>1. CASE \E r \in Reqs : Write(r)
    BY <1>1, WriteKeepsLoss
  <1>2. CASE ~\E r \in Reqs : Write(r)
    <2>1. /\ file' = file /\ faults' >= faults
          /\ \A r \in Reqs : Logged(r)' => Logged(r)
      BY <1>2, OthersLoseNothing
    <2>2. Lost' \subseteq Lost
      BY <2>1 DEF Lost
    <2>3. /\ IsFiniteSet(Lost') /\ Cardinality(Lost) \in Nat
          /\ Cardinality(Lost') \in Nat
          /\ Cardinality(Lost') <= Cardinality(Lost)
      BY <2>2, NothingMoreLost DEF LossInv
    <2>4. Debt' = Debt /\ Debt \in Nat
      BY <2>1 DEF Debt
    <2>5. faults \in Nat /\ faults' \in Nat
      BY AuditLogAssumption DEF TypeOK
    <2> QED
      BY <2>1, <2>3, <2>4, <2>5 DEF LossInv
  <1> QED
    BY <1>1, <1>2

(* A failed write costs at most two records of requests that were told     *)
(* they had been logged, however many handlers, restarts and faults.       *)
THEOREM BoundedLossHolds == Spec => []BoundedLoss
  <1>1. Init => LossInv
    <2> SUFFICES ASSUME Init PROVE LossInv
      OBVIOUS
    <2>1. Lost = {}
      BY DEF Init, Lost, Logged
    <2>2. Debt = 0
      <3>1. legacy \in Nat /\ Len(file) = legacy
        BY AuditLogAssumption DEF Init
      <3>2. \A i : LegacyLine(i).nl = TRUE
        BY DEF LegacyLine, Junk
      <3>3. file # <<>> => file[Len(file)] = LegacyLine(Len(file))
        BY <3>1 DEF Init
      <3> QED
        BY <3>2, <3>3 DEF Debt, TornTail
    <2>3. faults = 0 /\ IsFiniteSet({}) /\ Cardinality({}) = 0
      BY FS_EmptySet DEF Init
    <2> QED
      BY <2>1, <2>2, <2>3 DEF LossInv
  <1>2. TypeOK /\ TypeOK' /\ LogInv /\ IdInv /\ LossInv /\ [Next]_vars
           => LossInv'
    BY LossStep DEF LogInv, IdInv
  <1>3. TypeOK /\ LossInv => BoundedLoss
    <2> SUFFICES ASSUME TypeOK, LossInv PROVE BoundedLoss
      OBVIOUS
    <2>1. Debt \in Nat /\ faults \in Nat
      BY AuditLogAssumption DEF Debt, TypeOK
    <2>2. Cardinality(Lost) \in Nat
      BY FS_CardinalityType DEF LossInv
    <2>3. Cardinality(Lost) <= 2 * faults
      BY <2>1, <2>2 DEF LossInv
    <2> QED
      BY <2>3 DEF BoundedLoss, Lost
  <1> QED
    BY <1>1, <1>2, <1>3, TypeCorrect, LogInvariant, IdInvariant, PTL DEF Spec
===========================================================================

------------------------- MODULE AuditTamperProofs -------------------------
(***************************************************************************)
(* Proofs about AuditTamper: what Verify says of a log that somebody       *)
(* changed at any moment, for every set of requests and keys, any number   *)
(* of legacy lines and any bounds on faults and crashes.                   *)
(***************************************************************************)
EXTENDS AuditTamper, AuditLossProofs

---------------------------------------------------------------------------
(* The handlers and the key do not depend on what is in the file.          *)

LEMMA HolderStep ==
    ASSUME TypeOK, HolderInv, [Next]_vars
    PROVE  HolderInv'
  <1> USE ChainAssumption DEF TypeOK, HolderInv, InFlight
  <1>1. ASSUME LoadKey PROVE HolderInv'
    BY <1>1 DEF LoadKey
  <1>2. ASSUME GenerateKey PROVE HolderInv'
    BY <1>2 DEF GenerateKey
  <1>3. ASSUME PersistKey PROVE HolderInv'
    BY <1>3 DEF PersistKey
  <1>4. ASSUME RefuseStart PROVE HolderInv'
    BY <1>4 DEF RefuseStart
  <1>5. ASSUME OpenAudit PROVE HolderInv'
    BY <1>5 DEF OpenAudit
  <1>6. ASSUME NEW r \in Reqs, Execute(r) PROVE HolderInv'
    BY <1>6 DEF Execute
  <1>7. ASSUME NEW r \in Reqs, Lock(r) PROVE HolderInv'
    BY <1>7 DEF Lock
  <1>8. ASSUME NEW r \in Reqs, Chain(r) PROVE HolderInv'
    BY <1>8 DEF Chain
  <1>9. ASSUME NEW r \in Reqs, Write(r) PROVE HolderInv'
    BY <1>9 DEF Write
  <1>10. ASSUME NEW r \in Reqs, Answer(r) PROVE HolderInv'
    BY <1>10 DEF Answer
  <1>11. ASSUME Crash PROVE HolderInv'
    BY <1>11 DEF Crash
  <1>12. ASSUME LoseKey PROVE HolderInv'
    BY <1>12 DEF LoseKey
  <1>13. ASSUME RemoveEmptyKey PROVE HolderInv'
    BY <1>13 DEF RemoveEmptyKey
  <1>14. ASSUME UNCHANGED vars PROVE HolderInv'
    BY <1>14 DEF vars
  <1> QED
    BY <1>1, <1>2, <1>3, <1>4, <1>5, <1>6, <1>7, <1>8, <1>9, <1>10, <1>11,
       <1>12, <1>13, <1>14
    DEF Next, Start, Handle

LEMMA KeyStep ==
    ASSUME TypeOK, HolderInv, KeyInv, [Next]_vars
    PROVE  KeyInv'
  <1> USE ChainAssumption, AuditLogAssumption DEF TypeOK, KeyInv, VerifyKey
  <1>1. ASSUME LoadKey PROVE KeyInv'
    BY <1>1 DEF LoadKey
  <1>2. ASSUME GenerateKey PROVE KeyInv'
    BY <1>2 DEF GenerateKey
  <1>3. ASSUME PersistKey PROVE KeyInv'
    BY <1>3 DEF PersistKey
  <1>4. ASSUME RefuseStart PROVE KeyInv'
    BY <1>4 DEF RefuseStart
  <1>5. ASSUME OpenAudit PROVE KeyInv'
    BY <1>5 DEF OpenAudit
  <1>6. ASSUME NEW r \in Reqs, Handle(r) PROVE KeyInv'
    BY <1>6 DEF Handle, Execute, Lock, Chain, Write, Answer
  <1>7. ASSUME Crash PROVE KeyInv'
    BY <1>7 DEF Crash
  <1>8. ASSUME LoseKey PROVE KeyInv'
    BY <1>8 DEF LoseKey
  <1>9. ASSUME RemoveEmptyKey PROVE KeyInv'
    BY <1>9 DEF RemoveEmptyKey
  <1>10. ASSUME UNCHANGED vars PROVE KeyInv'
    BY <1>10 DEF vars
  <1> QED
    BY <1>1, <1>2, <1>3, <1>4, <1>5, <1>6, <1>7, <1>8, <1>9, <1>10
    DEF Next, Start

(* The key verify finds stays the same as long as no key file was lost.    *)
LEMMA KeyStays ==
    ASSUME TypeOK, KeyInv, [Next]_vars, VerifyKey \in Keys, faults' = 0
    PROVE  faults = 0 /\ VerifyKey' = VerifyKey
  <1> USE ChainAssumption, AuditLogAssumption DEF TypeOK, KeyInv, VerifyKey
  <1>1. CASE Start
    BY <1>1 DEF Start, LoadKey, GenerateKey, PersistKey, RefuseStart,
                OpenAudit
  <1>2. ASSUME NEW r \in Reqs, Handle(r)
        PROVE  faults = 0 /\ VerifyKey' = VerifyKey
    <2>1. UNCHANGED keyFile
      BY <1>2 DEF Handle, Execute, Lock, Chain, Write, Answer
    <2>2. faults = 0
      BY <1>2 DEF Handle, Execute, Lock, Chain, Write, Answer
    <2> QED
      BY <2>1, <2>2
  <1>3. CASE Crash
    BY <1>3 DEF Crash
  <1>4. CASE LoseKey
    BY <1>4 DEF LoseKey
  <1>5. CASE RemoveEmptyKey
    BY <1>5 DEF RemoveEmptyKey
  <1>6. CASE UNCHANGED vars
    BY <1>6 DEF vars
  <1> QED
    BY <1>1, <1>2, <1>3, <1>4, <1>5, <1>6 DEF Next

---------------------------------------------------------------------------
(* The link each record has to the one before it.                          *)

Pending == \E r \in Reqs : pc[r] = "chained"

(* Nothing in file f but perhaps its last line has the hash h, and h is    *)
(* the start of a chain only if there is nothing in it.                    *)
LastAtMost(f, h) ==
    /\ h = 0 => Len(f) = 0
    /\ \A i \in 1 .. Len(f) - 1 : f[i].id # h

(* The next record will name the last line or none that is in the file;    *)
(* the first line only when the file is empty.                             *)
NextLink ==
    /\ worker = "up" /\ ~Pending => LastAtMost(file, prevHash)
    /\ \A r \in Reqs : pc[r] = "chained" => LastAtMost(file, line[r].prev)

(* A record names the line before it or none that is in the file: it names *)
(* no earlier one, and only the first line names nothing.                  *)
FileLinks ==
    \A i \in 1 .. Len(file) : file[i].form = "record" =>
        /\ file[i].prev = 0 => i = 1
        /\ \A j \in 1 .. i - 2 : file[j].id # file[i].prev

LinkInv == NextLink /\ FileLinks

NoLegacy == legacy = 0 => \A i \in 1 .. Len(file) : file[i].form # "legacy"

LEMMA InitLinkInv == Init => LinkInv /\ NoLegacy
  <1> SUFFICES ASSUME Init PROVE LinkInv /\ NoLegacy
    OBVIOUS
  <1>1. legacy \in Nat
    BY AuditLogAssumption DEF Init
  <1>2. /\ Len(file) = legacy
        /\ \A i \in 1 .. legacy : file[i] = LegacyLine(i)
    BY <1>1 DEF Init
  <1>3. \A i : LegacyLine(i).form = "legacy"
    BY DEF LegacyLine, Junk
  <1>4. \A i \in 1 .. Len(file) : file[i].form = "legacy"
    BY <1>2, <1>3
  <1>5. worker = "down" /\ \A r \in Reqs : pc[r] = "new"
    BY DEF Init
  <1> QED
    BY <1>1, <1>2, <1>4, <1>5 DEF LinkInv, NextLink, FileLinks, NoLegacy

LEMMA QuietKeepsLinks ==
    ASSUME LinkInv, Quiet
    PROVE  LinkInv'
  <1>1. NextLink'
    <2>1. Pending' <=> Pending
      BY DEF Quiet, Pending
    <2> QED
      BY <2>1 DEF LinkInv, NextLink, LastAtMost, Quiet
  <1>2. FileLinks'
    BY DEF LinkInv, FileLinks, Quiet
  <1> QED
    BY <1>1, <1>2 DEF LinkInv

LEMMA OpenKeepsLinks ==
    ASSUME TypeOK, IdInv, HolderInv, LinkInv, OpenAudit
    PROVE  LinkInv'
  <1>1. /\ UNCHANGED <<file, line, pc>>
        /\ prevHash' = LastRecordHash(file) /\ worker = "keyed"
    BY DEF OpenAudit
  <1>2. LastAtMost(file, LastRecordHash(file))
    <2>1. CASE file = <<>>
      BY <2>1 DEF LastAtMost
    <2>2. CASE file # <<>>
      <3>1. Len(file) \in 1 .. Len(file)
        BY <2>2, TypeFacts
      <3>2. /\ file[Len(file)].id > 0
            /\ \A i \in 1 .. Len(file) - 1 : file[i].id < file[Len(file)].id
        BY <3>1, TypeFacts DEF IdInv, FileIds
      <3> QED
        BY <2>2, <3>1, <3>2, TypeFacts DEF LastAtMost, LastRecordHash
    <2> QED
      BY <2>1, <2>2
  <1>3. \A r \in Reqs : pc[r] # "chained"
    BY <1>1 DEF HolderInv, InFlight
  <1>4. NextLink'
    BY <1>1, <1>2, <1>3 DEF NextLink, LastAtMost
  <1> QED
    BY <1>1, <1>4 DEF LinkInv, FileLinks

LEMMA ChainKeepsLinks ==
    ASSUME TypeOK, HolderInv, LinkInv, NEW r \in Reqs, Chain(r)
    PROVE  LinkInv'
  <1>0. Chains(r)
    BY ChainDoes
  <1>1. /\ worker = "up" /\ pc[r] = "locked"
        /\ file' = file
        /\ \A s \in Reqs \ {r} : pc[s] # "chained"
        /\ \A s \in Reqs \ {r} : pc'[s] = pc[s]
        /\ pc'[r] = "chained" /\ line'[r].prev = prevHash
    BY <1>0 DEF Chains
  <1>2. ~Pending /\ Pending'
    BY <1>1 DEF Pending
  <1>3. LastAtMost(file, prevHash)
    BY <1>1, <1>2 DEF LinkInv, NextLink
  <1>4. NextLink'
    BY <1>1, <1>2, <1>3 DEF NextLink, LastAtMost
  <1> QED
    BY <1>1, <1>4 DEF LinkInv, FileLinks

LEMMA WriteKeepsLinks ==
    ASSUME TypeOK, TypeOK', IdInv, HolderInv, LinkInv,
           NEW r \in Reqs, Write(r)
    PROVE  LinkInv'
  <1>0. Writes(r)
    BY WriteDoes
  <1>1. /\ pc[r] = "chained" /\ pc'[r] = "logged"
        /\ UNCHANGED <<line, prevHash>>
        /\ \A s \in Reqs \ {r} : pc'[s] = pc[s] /\ pc[s] # "chained"
    BY <1>0 DEF Writes
  <1>2. line[r].id = prevHash /\ line[r].id > 0 /\ line[r].id \in Nat
    BY <1>1, TypeFacts DEF IdInv, LineInv
  <1>3. LastAtMost(file, line[r].prev) /\ line[r].prev \in Nat
    BY <1>1, TypeFacts DEF LinkInv, NextLink
  <1>4. /\ Len(file) \in Nat
        /\ \A i \in 1 .. Len(file) : /\ file[i].id # prevHash
                                     /\ file[i].id \in Nat
    BY <1>1, <1>2, TypeFacts DEF IdInv, FileIds
  <1>5. FileLinks
    BY DEF LinkInv
  <1>6. \A s \in Reqs : pc'[s] # "chained"
    BY <1>1
  <1>7. LastAtMost(file', prevHash') /\ FileLinks'
    <2>1. CASE file' = file
      BY <1>1, <1>2, <1>4, <1>5, <2>1 DEF LastAtMost, FileLinks
    <2>2. ASSUME NEW e, Glued(file, file', e), e.form = "junk"
          PROVE  LastAtMost(file', prevHash') /\ FileLinks'
      <3>1. LastAtMost(file', prevHash')
        BY <1>1, <1>2, <1>4, <2>2 DEF LastAtMost, Glued
      <3>2. FileLinks'
        <4> SUFFICES ASSUME NEW i \in 1 .. Len(file'),
                            file'[i].form = "record"
            PROVE  /\ file'[i].prev = 0 => i = 1
                   /\ \A j \in 1 .. i - 2 : file'[j].id # file'[i].prev
          BY DEF FileLinks
        <4>1. i \in 1 .. Len(file) - 1
          BY <1>4, <2>2 DEF Glued
        <4>2. /\ file'[i] = file[i]
              /\ \A j \in 1 .. i - 2 : file'[j] = file[j]
          BY <1>4, <2>2, <4>1 DEF Glued
        <4> QED
          BY <1>4, <1>5, <4>1, <4>2 DEF FileLinks
      <3> QED
        BY <3>1, <3>2
    <2>3. ASSUME NEW e, Grown(file, file', e), Piece(e, line[r], serial)
          PROVE  LastAtMost(file', prevHash') /\ FileLinks'
      <3>1. LastAtMost(file', prevHash')
        BY <1>1, <1>2, <1>4, <2>3 DEF LastAtMost, Grown
      <3>2. FileLinks'
        <4> SUFFICES ASSUME NEW i \in 1 .. Len(file'),
                            file'[i].form = "record"
            PROVE  /\ file'[i].prev = 0 => i = 1
                   /\ \A j \in 1 .. i - 2 : file'[j].id # file'[i].prev
          BY DEF FileLinks
        <4>1. CASE i \in 1 .. Len(file)
          <5>1. /\ file'[i] = file[i]
                /\ \A j \in 1 .. i - 2 : file'[j] = file[j]
            BY <1>4, <2>3, <4>1 DEF Grown
          <5> QED
            BY <1>5, <4>1, <5>1 DEF FileLinks
        <4>2. CASE i = Len(file) + 1
          <5>1. file'[i].prev = line[r].prev
            BY <2>3, <4>2 DEF Grown, Piece
          <5>2. \A j \in 1 .. i - 2 : /\ file'[j] = file[j]
                                      /\ j \in 1 .. Len(file) - 1
            BY <1>4, <2>3, <4>2 DEF Grown
          <5>3. file'[i].prev = 0 => i = 1
            BY <1>3, <4>2, <5>1 DEF LastAtMost
          <5>4. \A j \in 1 .. Len(file) - 1 : file[j].id # line[r].prev
            BY <1>3 DEF LastAtMost
          <5> QED
            BY <5>1, <5>2, <5>3, <5>4
        <4> QED
          BY <1>4, <2>3, <4>1, <4>2 DEF Grown
      <3> QED
        BY <3>1, <3>2
    <2> QED
      BY <2>1, <2>2, <2>3, WriteShape DEF IdInv
  <1> QED
    BY <1>6, <1>7 DEF LinkInv, NextLink

LEMMA CrashKeepsLinks ==
    ASSUME TypeOK, LinkInv, Crash
    PROVE  LinkInv'
  <1>0. Dies
    BY CrashDoes
  <1>1. /\ worker' = "down" /\ file' = file
        /\ \A r \in Reqs : pc'[r] # "chained"
    BY <1>0 DEF Dies
  <1> QED
    BY <1>1 DEF LinkInv, NextLink, FileLinks

LEMMA LinkStep ==
    ASSUME TypeOK, TypeOK', HolderInv, IdInv, LinkInv, [Next]_vars
    PROVE  LinkInv'
  BY StepKinds, QuietKeepsLinks, OpenKeepsLinks, ChainKeepsLinks,
     WriteKeepsLinks, CrashKeepsLinks

(* Only an un-chained version writes lines without chain fields.           *)
LEMMA NoLegacyStep ==
    ASSUME TypeOK, TypeOK', [Next]_vars, NoLegacy,
           \A r \in Reqs : pc[r] = "chained" => line[r].form = "record"
    PROVE  NoLegacy'
  <1>1. legacy' = legacy
    BY DEF Next, vars, Start, Handle, LoadKey, GenerateKey, PersistKey,
           RefuseStart, OpenAudit, Execute, Lock, Chain, Write, Answer,
           Crash, LoseKey, RemoveEmptyKey
  <1>2. CASE \E r \in Reqs : Write(r)
    <2>1. PICK r \in Reqs : Write(r)
      BY <1>2
    <2>2. PICK how \in {"full", "body", "part", "none"} :
             file' = AppendBytes(file, line[r], how, serial)
      BY <2>1 DEF Write
    <2>3. /\ file \in Seq(Line) /\ file' \in Seq(Line)
          /\ line[r] \in Line /\ serial \in Nat /\ line[r].form = "record"
      BY <2>1 DEF TypeOK, Write
    <2>4. Appends(file, file', line[r], how, serial)
      BY <2>2, <2>3, AppendBytesDoes
    <2>5. \/ file' = file
          \/ \E e : Glued(file, file', e) /\ e.form = "junk"
          \/ \E e : Grown(file, file', e) /\ Piece(e, line[r], serial)
      BY <2>3, <2>4, AppendShapes
    <2>6. Len(file) \in Nat
      BY TypeFacts
    <2> QED
      BY <1>1, <2>5, <2>6 DEF NoLegacy, Glued, Grown, Piece
  <1>3. CASE ~\E r \in Reqs : Write(r)
    BY <1>1, <1>3, OthersLoseNothing DEF NoLegacy
  <1> QED
    BY <1>2, <1>3

---------------------------------------------------------------------------
(* A change inside the log.                                                *)

(* Line s of f is bad under every key.                                     *)
BadAt(f, s) ==
    /\ s \in 1 .. Len(f)
    /\ \A k \in Keys : ~Continues(f, k, s)

(* A bad line is reported, or one before it is.                            *)
LEMMA BadIsReported ==
    ASSUME NEW f \in Seq(Line), NEW s, BadAt(f, s),
           \A i \in 1 .. Len(f) : f[i].form # "legacy",
           NEW k \in Keys
    PROVE  /\ Verify(f, k).err
           /\ Verify(f, k).line \in 1 .. s
           /\ (\A i \in 1 .. s - 1 : Continues(f, k, i)) =>
                 Verify(f, k).line = s
  <1> DEFINE first == FirstOf(StopsAt(f, k))
  <1>1. s \in StopsAt(f, k) /\ s \in 1 .. Len(f) /\ Len(f) \in Nat
    BY DEF StopsAt, BadAt
  <1>2. /\ first \in 1 .. Len(f) /\ first \in StopsAt(f, k)
        /\ \A i \in 1 .. first - 1 : Continues(f, k, i)
    BY <1>1, StopsAtLines
  <1>3. ~Continues(f, k, first) /\ ~Continues(f, k, s)
    BY <1>1, <1>2 DEF StopsAt
  <1>4. Verify(f, k) = [line |-> first, err |-> TRUE]
    BY <1>1, <1>2 DEF Verify
  <1> HIDE DEF first
  <1>5. ~(s < first)
    BY <1>1, <1>2, <1>3
  <1>6. (\A i \in 1 .. s - 1 : Continues(f, k, i)) => ~(first < s)
    BY <1>1, <1>2, <1>3
  <1> QED
    BY <1>1, <1>2, <1>4, <1>5, <1>6

(* The first line of f that is bad under k is s, and has no chain fields.  *)
PassesForLegacy(f, k, s) ==
    /\ f[s].form = "legacy"
    /\ \A i \in 1 .. s - 1 : Continues(f, k, i)

(* A bad line keeps the log from verifying as whole; a first bad line      *)
(* without chain fields makes it pass for a legacy log.                    *)
LEMMA StrippedVerdict ==
    ASSUME NEW f \in Seq(Line), NEW s, BadAt(f, s), NEW k \in Keys
    PROVE  /\ Verify(f, k).line # 0 /\ Verify(f, k).line <= s
           /\ PassesForLegacy(f, k, s) =>
                 Verify(f, k) = [line |-> -1, err |-> FALSE]
  <1> DEFINE first == FirstOf(StopsAt(f, k))
  <1>1. s \in StopsAt(f, k) /\ s \in 1 .. Len(f) /\ Len(f) \in Nat
    BY DEF StopsAt, BadAt
  <1>2. /\ first \in 1 .. Len(f) /\ first \in StopsAt(f, k)
        /\ \A i \in 1 .. first - 1 : Continues(f, k, i)
    BY <1>1, StopsAtLines
  <1>3. ~Continues(f, k, first) /\ ~Continues(f, k, s)
    BY <1>1, <1>2 DEF StopsAt
  <1>4. Verify(f, k) = IF f[first].form = "legacy"
                       THEN [line |-> -1, err |-> FALSE]
                       ELSE [line |-> first, err |-> TRUE]
    BY <1>1 DEF Verify
  <1> HIDE DEF first
  <1>5. ~(s < first)
    BY <1>1, <1>2, <1>3
  <1>6. (\A i \in 1 .. s - 1 : Continues(f, k, i)) => first = s
    BY <1>1, <1>2, <1>3
  <1>7. Verify(f, k).line \in {-1, first}
    BY <1>4
  <1>8. Verify(f, k).line # 0 /\ Verify(f, k).line <= s
    BY <1>1, <1>2, <1>5, <1>7
  <1> QED
    BY <1>4, <1>6, <1>8 DEF PassesForLegacy

(* What g has of f when line at was edited, removed or swapped with the    *)
(* next: the lines before it are as they were, and the line there now is   *)
(* one whose MAC fits no key, or the one that came after it.               *)
Meddled(f, g, at) ==
    /\ at \in 1 .. Len(f) /\ at \in 1 .. Len(g)
    /\ \A i \in 1 .. at - 1 : g[i] = f[i]
    /\ \/ g[at].key = NoKey
       \/ at + 1 \in 1 .. Len(f) /\ g[at] = f[at + 1]

LEMMA MeddledIsBad ==
    ASSUME TypeOK, IdInv, LinkInv, NEW g \in Seq(Line), NEW at,
           Meddled(file, g, at)
    PROVE  /\ BadAt(g, at)
           /\ \A i \in 1 .. at - 1, k \in Keys :
                 Continues(file, k, i) => Continues(g, k, i)
  <1>1. /\ Len(file) \in Nat /\ at \in 1 .. Len(file) /\ at \in 1 .. Len(g)
        /\ \A i \in 1 .. at - 1 : g[i] = file[i]
    BY TypeFacts DEF Meddled
  <1>2. \A i \in 1 .. at : HashBefore(g, i) = HashBefore(file, i)
    <2> SUFFICES ASSUME NEW i \in 1 .. at
                 PROVE  HashBefore(g, i) = HashBefore(file, i)
      OBVIOUS
    <2>1. i = 1 \/ i - 1 \in 1 .. at - 1
      BY <1>1
    <2> QED
      BY <1>1, <2>1 DEF HashBefore
  <1>3. ASSUME NEW i \in 1 .. at - 1, NEW k \in Keys, Continues(file, k, i)
        PROVE  Continues(g, k, i)
    <2>1. i \in 1 .. at
      BY <1>1
    <2> QED
      BY <1>1, <1>2, <1>3, <2>1 DEF Continues
  <1>4. ASSUME NEW k \in Keys PROVE ~Continues(g, k, at)
    <2>1. CASE g[at].key = NoKey
      BY <2>1, ChainAssumption DEF Continues
    <2>2. CASE at + 1 \in 1 .. Len(file) /\ g[at] = file[at + 1]
      <3> SUFFICES ASSUME file[at + 1].form = "record",
                          file[at + 1].prev = HashBefore(file, at)
                   PROVE  FALSE
        BY <1>1, <1>2, <2>2 DEF Continues
      <3>1. /\ file[at + 1].prev = 0 => at + 1 = 1
            /\ \A j \in 1 .. at + 1 - 2 : file[j].id # file[at + 1].prev
        <4>1. FileLinks /\ at + 1 \in 1 .. Len(file)
          BY <2>2 DEF LinkInv
        <4> QED
          BY <1>1, <4>1 DEF FileLinks
      <3>2. CASE at = 1
        BY <3>1, <3>2 DEF HashBefore, ZeroHash
      <3>3. CASE at # 1
        <4>1. at - 1 \in 1 .. at + 1 - 2
          BY <1>1, <3>3
        <4>2. HashBefore(file, at) = file[at - 1].id
          BY <3>3 DEF HashBefore
        <4> QED
          BY <3>1, <4>1, <4>2
      <3> QED
        BY <3>2, <3>3
    <2> QED
      BY <2>1, <2>2 DEF Meddled
  <1> QED
    BY <1>1, <1>3, <1>4 DEF BadAt

LEMMA MeddledIsLocated ==
    ASSUME TypeOK, KeyInv, IdInv, LinkInv, NoLegacy, legacy = 0,
           faults = 0 => FileInv,
           NEW g \in Seq(Line), NEW at, Meddled(file, g, at),
           \A i \in 1 .. Len(g) : g[i].form # "legacy"
    PROVE  /\ \A k \in Keys : Verify(g, k).err /\ Verify(g, k).line <= at
           /\ faults = 0 => /\ VerifyKey \in Keys
                            /\ Verify(g, VerifyKey).line = at
  <1>1. /\ BadAt(g, at)
        /\ \A i \in 1 .. at - 1, k \in Keys :
              Continues(file, k, i) => Continues(g, k, i)
    BY MeddledIsBad
  <1>2. at \in 1 .. Len(file) /\ Len(file) \in Nat
    BY TypeFacts DEF Meddled
  <1>3. ASSUME NEW k \in Keys
        PROVE  /\ Verify(g, k).err /\ Verify(g, k).line \in 1 .. at
               /\ (\A i \in 1 .. at - 1 : Continues(g, k, i)) =>
                     Verify(g, k).line = at
    BY <1>1, <1>3, BadIsReported
  <1>4. ASSUME faults = 0
        PROVE  VerifyKey \in Keys /\ Verify(g, VerifyKey).line = at
    <2>1. VerifyKey \in Keys
      BY <1>2, <1>4 DEF FileInv
    <2>2. \A i \in 1 .. at - 1 : Continues(file, VerifyKey, i)
      BY <1>2, <1>4 DEF FileInv
    <2>3. \A i \in 1 .. at - 1 : Continues(g, VerifyKey, i)
      BY <1>1, <2>1, <2>2
    <2> QED
      BY <1>3, <2>1, <2>3
  <1>5. ASSUME NEW k \in Keys
        PROVE  Verify(g, k).err /\ Verify(g, k).line <= at
    <2>1. Verify(g, k).err /\ Verify(g, k).line \in 1 .. at
      BY <1>3, <1>5
    <2> QED
      BY <1>2, <2>1
  <1> QED
    BY <1>4, <1>5

(* What a change leaves alone: everything but the file, the hashes and     *)
(* what is noted of the change.                                            *)
Tampered(kind, at) ==
    /\ tamper = Untouched
    /\ tamper'.kind = kind /\ tamper'.at = at
    /\ tamper'.life = crashes /\ tamper'.serial = serial
    /\ tamper'.live <=> worker = "up"
    /\ serial' = serial + 1
    /\ UNCHANGED <<legacy, keyFile, worker, memKey, prevHash, mutex, pc, line,
                   life, faults, crashes>>

LEMMA TouchTampers ==
    ASSUME NEW kind, NEW at, NEW f, Touch(kind, at, f)
    PROVE  Tampered(kind, at) /\ file' = f
  <1>1. tamper' = [kind |-> kind, at |-> at, live |-> worker = "up",
                   life |-> crashes, serial |-> serial]
    BY DEF Touch
  <1>2. tamper'.live = (worker = "up")
    BY <1>1
  <1>3. /\ tamper'.kind = kind /\ tamper'.at = at
        /\ tamper'.life = crashes /\ tamper'.serial = serial
    BY <1>1
  <1> QED
    BY <1>2, <1>3, Zenon DEF Touch, Tampered

(* A line looks like one of an un-chained version only if one did before.  *)
FormsKept ==
    \A j \in 1 .. Len(file') :
        \/ file'[j].form # "legacy"
        \/ \E m \in 1 .. Len(file) : file'[j].form = file[m].form

(* The three changes inside the log that leave the chain fields in meddle  *)
(* with one line.                                                          *)
LEMMA InsideMeddles ==
    ASSUME TypeOK, EditRecord \/ RemoveRecord \/ SwapRecords
    PROVE  \E at \in Nat :
              /\ Tampered("inside", at)
              /\ file' \in Seq(Line)
              /\ Meddled(file, file', at)
              /\ FormsKept
  <1>1. /\ file \in Seq(Line) /\ Len(file) \in Nat /\ serial \in Nat
        /\ DOMAIN file = 1 .. Len(file)
        /\ \A i \in 1 .. Len(file) : file[i] \in Line
    BY TypeFacts
  <1>2. ASSUME EditRecord
        PROVE  \E at \in Nat :
                  /\ Tampered("inside", at)
                  /\ file' \in Seq(Line)
                  /\ Meddled(file, file', at)
                  /\ FormsKept
    <2>1. PICK i \in 1 .. Len(file), form \in {"record", "junk"} :
             Touch("inside", i,
                   [file EXCEPT ![i].id = serial, ![i].form = form,
                                ![i].key = NoKey])
      BY <1>1, <1>2 DEF EditRecord
    <2> DEFINE e == [file[i] EXCEPT !.id = serial, !.form = form,
                                    !.key = NoKey]
    <2>2. file' = [file EXCEPT ![i] = e] /\ Tampered("inside", i)
      BY <1>1, <2>1, TouchTampers
    <2>3. e \in Line /\ e.key = NoKey /\ e.form # "legacy"
      BY <1>1 DEF Line
    <2> HIDE DEF e
    <2>4. /\ file' \in Seq(Line) /\ Len(file') = Len(file)
          /\ \A j \in 1 .. Len(file) : j # i => file'[j] = file[j]
          /\ file'[i] = e
      BY <1>1, <2>2, <2>3
    <2>5. Meddled(file, file', i)
      BY <1>1, <2>3, <2>4 DEF Meddled
    <2>6. FormsKept
      BY <2>3, <2>4 DEF FormsKept
    <2> QED
      BY <2>2, <2>4, <2>5, <2>6
  <1>3. ASSUME RemoveRecord
        PROVE  \E at \in Nat :
                  /\ Tampered("inside", at)
                  /\ file' \in Seq(Line)
                  /\ Meddled(file, file', at)
                  /\ FormsKept
    <2>1. PICK i \in 1 .. Len(file) - 1 :
             Touch("inside", i,
                   SubSeq(file, 1, i - 1) \o SubSeq(file, i + 1, Len(file)))
      BY <1>3 DEF RemoveRecord
    <2> DEFINE g == SubSeq(file, 1, i - 1) \o SubSeq(file, i + 1, Len(file))
    <2>2. file' = g /\ Tampered("inside", i)
      BY <2>1, TouchTampers
    <2>3. /\ g \in Seq(Line) /\ Len(g) = Len(file) - 1
          /\ \A j \in 1 .. i - 1 : g[j] = file[j]
          /\ \A j \in i .. Len(file) - 1 : g[j] = file[j + 1]
      BY <1>1
    <2> HIDE DEF g
    <2>4. Meddled(file, file', i)
      BY <1>1, <2>2, <2>3 DEF Meddled
    <2>5. \A j \in 1 .. Len(file') :
             \E m \in 1 .. Len(file) : file'[j].form = file[m].form
      <3> SUFFICES ASSUME NEW j \in 1 .. Len(file')
                   PROVE  \E m \in 1 .. Len(file) :
                             file'[j].form = file[m].form
        OBVIOUS
      <3>1. CASE j < i
        BY <1>1, <2>2, <2>3, <3>1
      <3>2. CASE ~(j < i)
        <4>1. j + 1 \in 1 .. Len(file) /\ file'[j] = file[j + 1]
          BY <1>1, <2>2, <2>3, <3>2
        <4> QED
          BY <4>1
      <3> QED
        BY <3>1, <3>2
    <2> QED
      BY <2>2, <2>3, <2>4, <2>5 DEF FormsKept
  <1>4. ASSUME SwapRecords
        PROVE  \E at \in Nat :
                  /\ Tampered("inside", at)
                  /\ file' \in Seq(Line)
                  /\ Meddled(file, file', at)
                  /\ FormsKept
    <2>1. PICK i \in 1 .. Len(file) - 1 :
             Touch("inside", i,
                   [file EXCEPT ![i] = file[i + 1], ![i + 1] = file[i]])
      BY <1>4 DEF SwapRecords
    <2> DEFINE g == [file EXCEPT ![i] = file[i + 1], ![i + 1] = file[i]]
    <2>2. file' = g /\ Tampered("inside", i)
      BY <2>1, TouchTampers
    <2>3. i \in 1 .. Len(file) /\ i + 1 \in 1 .. Len(file) /\ i # i + 1
      BY <1>1
    <2>4. /\ g \in Seq(Line) /\ Len(g) = Len(file)
          /\ g[i] = file[i + 1] /\ g[i + 1] = file[i]
          /\ \A j \in 1 .. Len(file) :
                j # i /\ j # i + 1 => g[j] = file[j]
      BY <1>1, <2>3
    <2> HIDE DEF g
    <2>5. Meddled(file, file', i)
      BY <1>1, <2>2, <2>3, <2>4 DEF Meddled
    <2>6. \A j \in 1 .. Len(file') :
             \E m \in 1 .. Len(file) : file'[j].form = file[m].form
      BY <2>2, <2>3, <2>4
    <2> QED
      BY <2>2, <2>3, <2>4, <2>5, <2>6 DEF FormsKept
  <1> QED
    BY <1>2, <1>3, <1>4

---------------------------------------------------------------------------
(* A log cut short under a running worker.                                 *)

(* No line of f has the hash h, nor does a chain start with it.            *)
Absent(f, h) == h # 0 /\ \A i \in 1 .. Len(f) : f[i].id # h

(* Nothing the worker that was cut off has built since is in the file.     *)
NoneSince ==
    \A i \in 1 .. Len(file) : file[i].form = "record" =>
        LET q == file[i].req IN
        ~(life[q] = tamper.life /\ line[q].id >= tamper.serial)

(* What that worker writes next names a record that is gone.               *)
Adrift ==
    /\ worker = "up"
    /\ ~Pending => Absent(file, prevHash)
    /\ \A r \in Reqs : pc[r] = "chained" => Absent(file, line[r].prev)

CutInv ==
    (tamper.kind = "cut" /\ tamper.live) =>
        /\ tamper.life \in Nat /\ tamper.life <= crashes
        /\ \/ \E s : BadAt(file, s)
           \/ NoneSince /\ (crashes = tamper.life => Adrift)

(* A bad line stays bad.                                                   *)
LEMMA BadStays ==
    ASSUME TypeOK, TypeOK', [Next]_vars, NEW s, BadAt(file, s)
    PROVE  BadAt(file', s)
  <1>1. s \in 1 .. Len(file) /\ Len(file) \in Nat
    BY TypeFacts DEF BadAt
  <1>2. CASE file' = file
    BY <1>2 DEF BadAt
  <1>3. ASSUME NEW e, \/ Glued(file, file', e) /\ e.form = "junk"
                      \/ Grown(file, file', e)
        PROVE  BadAt(file', s)
    <2>1. /\ s \in 1 .. Len(file')
          /\ \A i \in 1 .. s - 1 : file'[i] = file[i]
          /\ file'[s] = file[s] \/ file'[s].form = "junk"
      BY <1>1, <1>3 DEF Glued, Grown
    <2>2. HashBefore(file', s) = HashBefore(file, s)
      <3>1. s = 1 \/ s - 1 \in 1 .. s - 1
        BY <1>1
      <3> QED
        BY <2>1, <3>1 DEF HashBefore
    <2> QED
      BY <2>1, <2>2 DEF BadAt, Continues
  <1> QED
    BY <1>2, <1>3, FileStep

(* A line that is junk, or names a record that is gone, is bad.            *)
LEMMA LastIsBad ==
    ASSUME TypeOK, NEW g \in Seq(Line), NEW e, NEW h, Absent(file, h),
           \/ Glued(file, g, e) /\ e.form = "junk"
           \/ Grown(file, g, e) /\ (e.form = "record" => e.prev = h)
    PROVE  \E s : BadAt(g, s)
  <1>1. Len(file) \in Nat
    BY TypeFacts
  <1>2. CASE Glued(file, g, e) /\ e.form = "junk"
    <2>1. Len(file) \in 1 .. Len(g) /\ g[Len(file)].form = "junk"
      BY <1>2 DEF Glued
    <2>2. BadAt(g, Len(file))
      BY <2>1 DEF BadAt, Continues
    <2> QED
      BY <2>2
  <1>3. CASE Grown(file, g, e) /\ (e.form = "record" => e.prev = h)
    <2> DEFINE s == Len(file) + 1
    <2>1. s \in 1 .. Len(g) /\ g[s] = e
      BY <1>1, <1>3 DEF Grown
    <2>2. HashBefore(g, s) # h
      <3>1. CASE Len(file) = 0
        BY <3>1 DEF HashBefore, ZeroHash, Absent
      <3>2. CASE Len(file) # 0
        <4>1. Len(file) \in 1 .. Len(file) /\ s # 1 /\ s - 1 = Len(file)
          BY <1>1, <3>2
        <4>2. HashBefore(g, s) = file[Len(file)].id
          BY <1>3, <4>1 DEF HashBefore, Grown
        <4> QED
          BY <4>1, <4>2 DEF Absent
      <3> QED
        BY <3>1, <3>2
    <2>3. BadAt(g, s)
      BY <1>3, <2>1, <2>2 DEF BadAt, Continues
    <2> QED
      BY <2>3
  <1> QED
    BY <1>2, <1>3

(* The lines in the file are of handlers that have written.                *)
LEMMA ChainKeepsSince ==
    ASSUME TypeOK, IdInv, HolderInv, NEW r \in Reqs, Chain(r),
           tamper' = tamper, NoneSince
    PROVE  NoneSince'
  <1>0. Chains(r)
    BY ChainDoes
  <1>1. /\ pc[r] = "locked" /\ file' = file
        /\ \A s \in Reqs \ {r} : life'[s] = life[s] /\ line'[s] = line[s]
    BY <1>0 DEF Chains
  <1> SUFFICES ASSUME NEW i \in 1 .. Len(file), file[i].form = "record",
                      NEW q, q = file[i].req
               PROVE  ~(life'[q] = tamper.life /\ line'[q].id >= tamper.serial)
    BY <1>1 DEF NoneSince
  <1>2. q \in Reqs /\ q # r
    BY <1>1 DEF IdInv, OriginInv
  <1>3. ~(life[q] = tamper.life /\ line[q].id >= tamper.serial)
    BY DEF NoneSince
  <1> QED
    BY <1>1, <1>2, <1>3

LEMMA WriteKeepsCut ==
    ASSUME TypeOK, TypeOK', IdInv, HolderInv, NEW r \in Reqs, Write(r),
           tamper' = tamper, NoneSince, crashes = tamper.life => Adrift
    PROVE  \/ \E s : BadAt(file', s)
           \/ NoneSince' /\ (crashes' = tamper'.life => Adrift')
  <1>0. Writes(r)
    BY WriteDoes
  <1>1. /\ worker' = "up" /\ pc[r] = "chained" /\ pc'[r] = "logged"
        /\ UNCHANGED <<line, life, prevHash, crashes>>
        /\ \A s \in Reqs \ {r} : pc'[s] = pc[s] /\ pc[s] # "chained"
    BY <1>0 DEF Writes
  <1>2. /\ line[r].id = prevHash /\ line[r].id > 0 /\ life[r] = crashes
        /\ line[r].req = r /\ line[r].id \in Nat
    BY <1>1, TypeFacts DEF IdInv, LineInv
  <1>3. Len(file) \in Nat /\ file' \in Seq(Line)
    BY TypeFacts DEF TypeOK
  <1>4. CASE file' = file
    <2>1. NoneSince'
      BY <1>1, <1>4 DEF NoneSince
    <2>2. \A s \in Reqs : pc'[s] # "chained"
      BY <1>1
    <2>3. Absent(file, prevHash)
      BY <1>1, <1>2, TypeFacts DEF Absent, IdInv, FileIds
    <2>4. Adrift'
      BY <1>1, <1>4, <2>2, <2>3 DEF Adrift, Absent
    <2> QED
      BY <2>1, <2>4
  <1>5. ASSUME NEW e, crashes = tamper.life,
               \/ Glued(file, file', e) /\ e.form = "junk"
               \/ Grown(file, file', e) /\ Piece(e, line[r], serial)
        PROVE  \E s : BadAt(file', s)
    <2>1. Absent(file, line[r].prev)
      BY <1>1, <1>5 DEF Adrift
    <2>2. Piece(e, line[r], serial) =>
             (e.form = "record" => e.prev = line[r].prev)
      BY DEF Piece
    <2> QED
      BY <1>3, <1>5, <2>1, <2>2, LastIsBad
  <1>6. ASSUME NEW e, crashes # tamper.life,
               \/ Glued(file, file', e) /\ e.form = "junk"
               \/ Grown(file, file', e) /\ Piece(e, line[r], serial)
        PROVE  NoneSince'
    <2>1. life[r] # tamper.life
      BY <1>2, <1>6
    <2> SUFFICES ASSUME NEW i \in 1 .. Len(file'), file'[i].form = "record",
                        NEW q, q = file'[i].req
                 PROVE  ~(life[q] = tamper.life /\ line[q].id >= tamper.serial)
      BY <1>1 DEF NoneSince
    <2>2. \/ i \in 1 .. Len(file) /\ file'[i] = file[i]
          \/ Piece(file'[i], line[r], serial)
      BY <1>3, <1>6 DEF Glued, Grown
    <2>3. CASE i \in 1 .. Len(file) /\ file'[i] = file[i]
      BY <2>3 DEF NoneSince
    <2>4. CASE Piece(file'[i], line[r], serial)
      BY <1>2, <2>1, <2>4 DEF Piece
    <2> QED
      BY <2>2, <2>3, <2>4
  <1> QED
    BY <1>1, <1>4, <1>5, <1>6, WriteShape DEF IdInv

LEMMA CutStep ==
    ASSUME TypeOK, TypeOK', HolderInv, [Next]_vars, tamper' = tamper,
           tamper.kind = "cut" => IdInv, CutInv
    PROVE  CutInv'
  <1> SUFFICES ASSUME tamper.kind = "cut", tamper.live
      PROVE  /\ tamper.life \in Nat /\ tamper.life <= crashes'
             /\ \/ \E s : BadAt(file', s)
                \/ NoneSince' /\ (crashes' = tamper'.life => Adrift')
    BY DEF CutInv
  <1>1. /\ tamper.life \in Nat /\ tamper.life <= crashes /\ IdInv
        /\ crashes \in Nat
    BY TypeFacts DEF CutInv
  <1>2. crashes' = crashes \/ (Crash /\ crashes' = crashes + 1)
    BY StepKinds, ChainDoes, WriteDoes, CrashDoes
    DEF Quiet, OpenAudit, Chains, Writes, Dies
  <1>3. tamper.life <= crashes'
    BY <1>1, <1>2
  <1>4. CASE \E s : BadAt(file, s)
    BY <1>1, <1>3, <1>4, BadStays
  <1>5. ASSUME NoneSince, crashes = tamper.life => Adrift
        PROVE  \/ \E s : BadAt(file', s)
               \/ NoneSince' /\ (crashes' = tamper'.life => Adrift')
    <2>1. CASE Quiet
      <3>1. \A r \in Reqs : pc'[r] = "chained" <=> pc[r] = "chained"
        BY <2>1 DEF Quiet
      <3>2. Pending' <=> Pending
        BY <3>1 DEF Pending
      <3>3. NoneSince'
        BY <1>5, <2>1 DEF NoneSince, Quiet
      <3>4. Adrift => Adrift'
        BY <2>1, <3>1, <3>2 DEF Adrift, Absent, Quiet
      <3> QED
        BY <1>5, <2>1, <3>3, <3>4 DEF Quiet
    <2>2. CASE OpenAudit
      <3>1. NoneSince'
        BY <1>5, <2>2 DEF NoneSince, OpenAudit
      <3>2. crashes' = crashes /\ ~Adrift
        BY <2>2 DEF OpenAudit, Adrift
      <3> QED
        BY <1>5, <3>1, <3>2
    <2>3. ASSUME NEW r \in Reqs, Chain(r)
          PROVE  NoneSince' /\ (crashes' = tamper'.life => Adrift')
      <3>1. NoneSince'
        BY <1>1, <1>5, <2>3, ChainKeepsSince
      <3>0. Chains(r)
        BY <2>3, ChainDoes
      <3>2. /\ worker = "up" /\ worker' = "up" /\ pc[r] = "locked"
            /\ serial' = serial + 1 /\ prevHash' = serial
            /\ UNCHANGED <<file, crashes>>
            /\ \A s \in Reqs \ {r} : pc[s] # "chained"
            /\ \A s \in Reqs \ {r} : /\ pc'[s] = pc[s] /\ life'[s] = life[s]
                                     /\ line'[s] = line[s]
            /\ pc'[r] = "chained" /\ life'[r] = crashes
            /\ line'[r].id = serial /\ line'[r].prev = prevHash
        BY <3>0 DEF Chains
      <3>3. ~Pending /\ Pending'
        BY <3>2 DEF Pending
      <3>4. Adrift => Adrift'
        BY <3>2, <3>3 DEF Adrift, Absent
      <3> QED
        BY <1>5, <3>1, <3>2, <3>4
    <2>4. ASSUME NEW r \in Reqs, Write(r)
          PROVE  \/ \E s : BadAt(file', s)
                 \/ NoneSince' /\ (crashes' = tamper'.life => Adrift')
      BY <1>1, <1>5, <2>4, WriteKeepsCut
    <2>5. CASE Crash
      <3>0. Dies
        BY <2>5, CrashDoes
      <3>1. crashes' = crashes + 1 /\ UNCHANGED <<file, line, life>>
        BY <3>0 DEF Dies
      <3>2. NoneSince'
        BY <1>5, <3>1 DEF NoneSince
      <3> QED
        BY <1>1, <3>1, <3>2
    <2> QED
      BY <2>1, <2>2, <2>3, <2>4, <2>5, StepKinds
  <1> QED
    BY <1>1, <1>3, <1>4, <1>5 DEF CutInv

---------------------------------------------------------------------------
(* The invariant of the whole, and its steps.                              *)

LocatedInv ==
    (tamper.kind = "inside" /\ legacy = 0) =>
        /\ \A k \in Keys : /\ Verify(file, k).err
                           /\ Verify(file, k).line <= tamper.at
        /\ faults = 0 => /\ VerifyKey \in Keys
                         /\ Verify(file, VerifyKey).line = tamper.at

(* The line that lost its chain fields stays the only one without them, and*)
(* bad; while nothing else went wrong, it stays the first bad one.         *)
StrippedInv ==
    (tamper.kind = "stripped" /\ legacy = 0) =>
        /\ BadAt(file, tamper.at)
        /\ \A i \in 1 .. Len(file) : file[i].form = "legacy" => i = tamper.at
        /\ faults = 0 =>
              /\ VerifyKey \in Keys
              /\ \A i \in 1 .. Len(file) : file[i].nl
              /\ file[tamper.at].form = "legacy"
              /\ \A i \in 1 .. tamper.at - 1 : Continues(file, VerifyKey, i)

(* What Log is about to write is a chained record.                         *)
RecordLines == \A r \in Reqs : pc[r] = "chained" => line[r].form = "record"

(* Until it is touched, the log is as AuditLog keeps it, faults and all.   *)
UntouchedInv == WorkerInv /\ IdInv /\ LinkInv /\ NoLegacy

TamperInv ==
    /\ TypeOK /\ HolderInv /\ KeyInv
    /\ tamper = Untouched \/ tamper.kind \in {"inside", "stripped", "cut"}
    /\ RecordLines
    /\ tamper = Untouched => UntouchedInv
    /\ tamper.kind = "cut" => IdInv
    /\ CutInv
    /\ LocatedInv
    /\ StrippedInv

LEMMA UntouchedKind ==
    ASSUME tamper = Untouched
    PROVE  tamper.kind = "none"
  BY DEF Untouched

(* While nobody touches the file, ...                                      *)
LEMMA UntouchedStep ==
    ASSUME TypeOK, TypeOK', HolderInv, UntouchedInv, [Next]_vars
    PROVE  UntouchedInv'
  <1>1. LogInv /\ EntryInv /\ IdInv /\ LinkInv /\ NoLegacy
    BY DEF UntouchedInv, WorkerInv
  <1>2. LogInv'
    BY <1>1, LogStep
  <1>3. EntryInv'
    BY <1>1, StepRefines
  <1>4. IdInv'
    BY <1>1, IdStep
  <1>5. LinkInv'
    BY <1>1, LinkStep
  <1>6. NoLegacy'
    <2>1. \A r \in Reqs : pc[r] = "chained" => line[r].form = "record"
      BY <1>1 DEF IdInv, LineInv
    <2> QED
      BY <1>1, <2>1, NoLegacyStep
  <1> QED
    BY <1>2, <1>3, <1>4, <1>5, <1>6 DEF UntouchedInv, WorkerInv

(* ... and what the worker does afterwards.                                *)
LEMMA LocatedStep ==
    ASSUME TypeOK, TypeOK', KeyInv, LocatedInv, [Next]_vars,
           tamper' = tamper
    PROVE  LocatedInv'
  <1>1. legacy' = legacy
    BY DEF Next, vars, Start, Handle, LoadKey, GenerateKey, PersistKey,
           RefuseStart, OpenAudit, Execute, Lock, Chain, Write, Answer,
           Crash, LoseKey, RemoveEmptyKey
  <1> SUFFICES ASSUME tamper.kind = "inside", legacy = 0
      PROVE  /\ \A k \in Keys : /\ Verify(file', k).err
                                /\ Verify(file', k).line <= tamper.at
             /\ faults' = 0 => /\ VerifyKey' \in Keys
                               /\ Verify(file', VerifyKey').line = tamper.at
    BY <1>1 DEF LocatedInv
  <1>2. \A k \in Keys : Verify(file, k).err
    BY DEF LocatedInv
  <1>3. ASSUME NEW k \in Keys
        PROVE  Verify(file', k) = Verify(file, k)
    <2>1. Verify(file, k).err
      BY <1>2
    <2> QED
      BY <2>1, VerdictStep
  <1>4. \A k \in Keys : /\ Verify(file', k).err
                        /\ Verify(file', k).line <= tamper.at
    <2> SUFFICES ASSUME NEW k \in Keys
                 PROVE  /\ Verify(file', k).err
                        /\ Verify(file', k).line <= tamper.at
      OBVIOUS
    <2>1. Verify(file, k).err /\ Verify(file, k).line <= tamper.at
      BY DEF LocatedInv
    <2> QED
      BY <1>3, <2>1, Zenon
  <1>5. ASSUME faults' = 0
        PROVE  /\ VerifyKey' \in Keys
               /\ Verify(file', VerifyKey').line = tamper.at
    <2>1. faults = 0
      BY <1>5, AuditLogAssumption
      DEF TypeOK, Next, vars, Start, Handle, LoadKey, GenerateKey,
          PersistKey, RefuseStart, OpenAudit, Execute, Lock, Chain, Write,
          Answer, Crash, LoseKey, RemoveEmptyKey
    <2>2. VerifyKey \in Keys /\ Verify(file, VerifyKey).line = tamper.at
      BY <2>1 DEF LocatedInv
    <2>3. VerifyKey' = VerifyKey
      BY <1>5, <2>2, KeyStays
    <2> QED
      BY <1>3, <2>2, <2>3
  <1> QED
    BY <1>4, <1>5

LEMMA RecordLinesStep ==
    ASSUME TypeOK, HolderInv, RecordLines, [Next]_vars
    PROVE  RecordLines'
  <1> USE DEF RecordLines
  <1>1. ASSUME Quiet PROVE RecordLines'
    BY <1>1 DEF Quiet
  <1>2. ASSUME OpenAudit PROVE RecordLines'
    BY <1>2 DEF OpenAudit
  <1>3. ASSUME NEW r \in Reqs, Chain(r) PROVE RecordLines'
    BY <1>3, ChainDoes DEF Chains
  <1>4. ASSUME NEW r \in Reqs, Write(r) PROVE RecordLines'
    BY <1>4, WriteDoes DEF Writes
  <1>5. ASSUME Crash PROVE RecordLines'
    BY <1>5, CrashDoes DEF Dies
  <1> QED
    BY <1>1, <1>2, <1>3, <1>4, <1>5, StepKinds

(* A write adds no line without chain fields; one that does not fail adds  *)
(* whole lines to whole lines only.                                        *)
LEMMA FileGains ==
    ASSUME TypeOK, TypeOK', HolderInv, RecordLines, [Next]_vars
    PROVE  \/ file' = file
           \/ \E e : Glued(file, file', e) /\ e.form = "junk" /\ TornTail(file)
           \/ \E e : /\ Grown(file, file', e) /\ e.form # "legacy"
                     /\ faults' = 0 => e.nl
  <1>1. ASSUME NEW r \in Reqs, Write(r)
        PROVE  \/ file' = file
               \/ \E e : /\ Glued(file, file', e) /\ e.form = "junk"
                         /\ TornTail(file)
               \/ \E e : /\ Grown(file, file', e) /\ e.form # "legacy"
                         /\ faults' = 0 => e.nl
    <2>0. Writes(r)
      BY <1>1, WriteDoes
    <2>1. PICK how \in {"full", "body", "part", "none"} :
             /\ Appends(file, file', line[r], how, serial)
             /\ faults' = IF how = "full" THEN faults ELSE faults + 1
      BY <2>0 DEF Writes
    <2>2. line[r] \in Line /\ line[r].form = "record" /\ faults \in Nat
      BY <2>0 DEF Writes, RecordLines, TypeOK
    <2>3. \A b : Junk(serial, b).form = "junk"
      BY DEF Junk
    <2>4. how # "full" => faults' # 0
      BY <2>1, <2>2
    <2>5. LET e == [line[r] EXCEPT !.nl = (how = "full")]
          IN  e.form = "record" /\ (how = "full" => e.nl)
      BY <2>2 DEF Line
    <2> QED
      BY <2>1, <2>3, <2>4, <2>5 DEF Appends
  <1>2. CASE ~\E r \in Reqs : Write(r)
    BY <1>2, OthersLoseNothing
  <1> QED
    BY <1>1, <1>2

LEMMA StrippedStep ==
    ASSUME TypeOK, TypeOK', HolderInv, KeyInv, RecordLines, StrippedInv,
           [Next]_vars, tamper' = tamper
    PROVE  StrippedInv'
  <1>1. legacy' = legacy
    BY DEF Next, vars, Start, Handle, LoadKey, GenerateKey, PersistKey,
           RefuseStart, OpenAudit, Execute, Lock, Chain, Write, Answer,
           Crash, LoseKey, RemoveEmptyKey
  <1> DEFINE at == tamper.at
  <1> SUFFICES ASSUME tamper.kind = "stripped", legacy = 0
      PROVE  /\ BadAt(file', at)
             /\ \A i \in 1 .. Len(file') : file'[i].form = "legacy" => i = at
             /\ faults' = 0 =>
                   /\ VerifyKey' \in Keys
                   /\ \A i \in 1 .. Len(file') : file'[i].nl
                   /\ file'[at].form = "legacy"
                   /\ \A i \in 1 .. at - 1 :
                         Continues(file', VerifyKey', i)
    BY <1>1 DEF StrippedInv
  <1> HIDE DEF at
  <1>2. /\ BadAt(file, at)
        /\ \A i \in 1 .. Len(file) : file[i].form = "legacy" => i = at
        /\ faults = 0 =>
              /\ VerifyKey \in Keys
              /\ \A i \in 1 .. Len(file) : file[i].nl
              /\ file[at].form = "legacy"
              /\ \A i \in 1 .. at - 1 : Continues(file, VerifyKey, i)
    BY DEF StrippedInv, at
  <1>3. at \in 1 .. Len(file) /\ Len(file) \in Nat
    BY <1>2, TypeFacts DEF BadAt
  <1>4. BadAt(file', at)
    BY <1>2, BadStays
  <1>5. \/ file' = file
        \/ \E e : Glued(file, file', e) /\ e.form = "junk" /\ TornTail(file)
        \/ \E e : /\ Grown(file, file', e) /\ e.form # "legacy"
                  /\ faults' = 0 => e.nl
    BY FileGains
  <1>6. \A i \in 1 .. Len(file') : file'[i].form = "legacy" => i = at
    BY <1>2, <1>3, <1>5 DEF Glued, Grown
  <1>7. ASSUME faults' = 0
        PROVE  /\ VerifyKey' \in Keys
               /\ \A i \in 1 .. Len(file') : file'[i].nl
               /\ file'[at].form = "legacy"
               /\ \A i \in 1 .. at - 1 : Continues(file', VerifyKey', i)
    <2>1. faults = 0
      BY <1>7, AuditLogAssumption
      DEF TypeOK, Next, vars, Start, Handle, LoadKey, GenerateKey,
          PersistKey, RefuseStart, OpenAudit, Execute, Lock, Chain, Write,
          Answer, Crash, LoseKey, RemoveEmptyKey
    <2>2. VerifyKey' = VerifyKey /\ VerifyKey \in Keys
      BY <1>2, <1>7, <2>1, KeyStays
    <2>3. ~TornTail(file)
      BY <1>2, <1>3, <2>1 DEF TornTail
    <2>4. file' = file \/ \E e : Grown(file, file', e) /\ e.nl
      BY <1>5, <1>7, <2>3
    <2>5. /\ Len(file) <= Len(file')
          /\ \A i \in 1 .. Len(file) : file'[i] = file[i]
      BY <1>3, <2>4 DEF Grown
    <2>6. \A i \in 1 .. Len(file') : file'[i].nl
      BY <1>2, <1>3, <2>1, <2>4 DEF Grown
    <2>7. \A i \in 1 .. at - 1 : Continues(file', VerifyKey, i)
      <3> SUFFICES ASSUME NEW i \in 1 .. at - 1
                   PROVE  Continues(file', VerifyKey, i)
        OBVIOUS
      <3>1. i \in 1 .. Len(file) /\ (i = 1 \/ i - 1 \in 1 .. Len(file))
        BY <1>3
      <3>2. Continues(file, VerifyKey, i)
        BY <1>2, <2>1
      <3>3. HashBefore(file', i) = HashBefore(file, i)
        BY <2>5, <3>1 DEF HashBefore
      <3> QED
        BY <2>5, <3>1, <3>2, <3>3 DEF Continues
    <2> QED
      BY <1>2, <1>3, <2>1, <2>2, <2>5, <2>6, <2>7
  <1> QED
    BY <1>4, <1>6, <1>7

LEMMA NextKeeps ==
    ASSUME TamperInv, [Next]_vars, tamper' = tamper
    PROVE  TamperInv'
  <1>1. /\ TypeOK /\ HolderInv /\ KeyInv /\ CutInv /\ LocatedInv
        /\ RecordLines /\ StrippedInv
        /\ tamper.kind = "cut" => IdInv
    BY DEF TamperInv
  <1>2. TypeOK'
    BY <1>1, TypeStep
  <1>3. HolderInv'
    BY <1>1, HolderStep
  <1>4. KeyInv'
    BY <1>1, KeyStep
  <1>5. tamper = Untouched => UntouchedInv'
    BY <1>1, <1>2, UntouchedStep DEF TamperInv
  <1>6. tamper.kind = "cut" => IdInv'
    BY <1>1, <1>2, IdStep
  <1>7. CutInv'
    BY <1>1, <1>2, CutStep
  <1>8. LocatedInv'
    BY <1>1, <1>2, LocatedStep
  <1>9. tamper' = Untouched \/ tamper'.kind \in {"inside", "stripped", "cut"}
    BY DEF TamperInv
  <1>10. RecordLines'
    BY <1>1, RecordLinesStep
  <1>11. StrippedInv'
    BY <1>1, <1>2, StrippedStep
  <1> QED
    BY <1>2, <1>3, <1>4, <1>5, <1>6, <1>7, <1>8, <1>9, <1>10, <1>11
    DEF TamperInv

(* Whoever touches the file touches neither handlers nor keys.             *)
LEMMA TouchKeeps ==
    ASSUME TypeOK, HolderInv, KeyInv, NEW kind, NEW at, Tampered(kind, at),
           file' \in Seq(Line)
    PROVE  /\ TypeOK' /\ HolderInv' /\ KeyInv'
           /\ tamper' # Untouched \/ kind = "none"
  <1>1. TypeOK'
    BY DEF TypeOK, Tampered
  <1>2. HolderInv'
    BY DEF HolderInv, Tampered
  <1>3. KeyInv'
    BY DEF KeyInv, Tampered, VerifyKey
  <1>4. tamper' # Untouched \/ kind = "none"
    BY DEF Tampered, Untouched
  <1> QED
    BY <1>1, <1>2, <1>3, <1>4

LEMMA InsideKeeps ==
    ASSUME TamperInv, EditRecord \/ RemoveRecord \/ SwapRecords
    PROVE  TamperInv'
  <1>1. TypeOK /\ HolderInv /\ KeyInv
    BY DEF TamperInv
  <1>2. PICK at \in Nat :
           /\ Tampered("inside", at)
           /\ file' \in Seq(Line)
           /\ Meddled(file, file', at)
           /\ FormsKept
    BY <1>1, InsideMeddles
  <1>3. /\ TypeOK' /\ HolderInv' /\ KeyInv'
        /\ tamper' # Untouched
    BY <1>1, <1>2, TouchKeeps
  <1>4. /\ tamper'.kind = "inside" /\ tamper'.at = at
        /\ UNCHANGED <<legacy, faults, keyFile>>
        /\ UntouchedInv
    BY <1>2 DEF Tampered, TamperInv
  <1>5. /\ IdInv /\ LinkInv /\ NoLegacy
        /\ faults = 0 => FileInv
    BY <1>4 DEF UntouchedInv, WorkerInv, LogInv
  <1>6. LocatedInv'
    <2> SUFFICES ASSUME legacy = 0
        PROVE  /\ \A k \in Keys : /\ Verify(file', k).err
                                  /\ Verify(file', k).line <= at
               /\ faults = 0 => /\ VerifyKey \in Keys
                                /\ Verify(file', VerifyKey).line = at
      BY <1>4 DEF LocatedInv, VerifyKey
    <2>1. \A i \in 1 .. Len(file') : file'[i].form # "legacy"
      BY <1>2, <1>5 DEF NoLegacy, FormsKept
    <2> QED
      BY <1>1, <1>2, <1>5, <2>1, MeddledIsLocated
  <1>7. CutInv' /\ StrippedInv'
    BY <1>4 DEF CutInv, StrippedInv
  <1>8. RecordLines'
    BY <1>2 DEF TamperInv, RecordLines, Tampered
  <1> QED
    BY <1>3, <1>4, <1>6, <1>7, <1>8 DEF TamperInv

LEMMA StripKeeps ==
    ASSUME TamperInv, StripRecord
    PROVE  TamperInv'
  <1>1. TypeOK /\ HolderInv /\ KeyInv
    BY DEF TamperInv
  <1>2. /\ file \in Seq(Line) /\ Len(file) \in Nat /\ serial \in Nat
        /\ DOMAIN file = 1 .. Len(file)
        /\ \A i \in 1 .. Len(file) : file[i] \in Line
    BY <1>1, TypeFacts
  <1>3. PICK at \in 1 .. Len(file) :
           Touch("stripped", at,
                 [file EXCEPT ![at].id = serial, ![at].form = "legacy",
                              ![at].key = NoKey])
    BY <1>2 DEF StripRecord
  <1> DEFINE e == [file[at] EXCEPT !.id = serial, !.form = "legacy",
                                   !.key = NoKey]
  <1>4. file' = [file EXCEPT ![at] = e] /\ Tampered("stripped", at)
    BY <1>2, <1>3, TouchTampers
  <1>5. /\ e \in Line /\ e.key = NoKey /\ e.form = "legacy"
        /\ e.nl = file[at].nl
    BY <1>2 DEF Line
  <1> HIDE DEF e
  <1>6. /\ file' \in Seq(Line) /\ Len(file') = Len(file)
        /\ \A j \in 1 .. Len(file) : j # at => file'[j] = file[j]
        /\ file'[at] = e
    BY <1>2, <1>4, <1>5
  <1>7. Meddled(file, file', at)
    BY <1>2, <1>5, <1>6 DEF Meddled
  <1>8. /\ TypeOK' /\ HolderInv' /\ KeyInv'
        /\ tamper' # Untouched
    BY <1>1, <1>4, <1>6, TouchKeeps
  <1>9. /\ tamper'.kind = "stripped" /\ tamper'.at = at
        /\ UNCHANGED <<legacy, faults, keyFile>>
        /\ UntouchedInv
    BY <1>4 DEF Tampered, TamperInv
  <1>10. /\ IdInv /\ LinkInv /\ NoLegacy
         /\ faults = 0 => FileInv
    BY <1>9 DEF UntouchedInv, WorkerInv, LogInv
  <1>11. /\ BadAt(file', at)
         /\ \A i \in 1 .. at - 1, k \in Keys :
               Continues(file, k, i) => Continues(file', k, i)
    BY <1>1, <1>6, <1>7, <1>10, MeddledIsBad
  <1>12. StrippedInv'
    <2> SUFFICES ASSUME legacy = 0
        PROVE  /\ BadAt(file', at)
               /\ \A i \in 1 .. Len(file') :
                     file'[i].form = "legacy" => i = at
               /\ faults = 0 =>
                     /\ VerifyKey \in Keys
                     /\ \A i \in 1 .. Len(file') : file'[i].nl
                     /\ file'[at].form = "legacy"
                     /\ \A i \in 1 .. at - 1 : Continues(file', VerifyKey, i)
      BY <1>9 DEF StrippedInv, VerifyKey
    <2>1. \A i \in 1 .. Len(file') : file'[i].form = "legacy" => i = at
      BY <1>6, <1>10 DEF NoLegacy
    <2>2. ASSUME faults = 0
          PROVE  /\ VerifyKey \in Keys
                 /\ \A i \in 1 .. Len(file') : file'[i].nl
                 /\ file'[at].form = "legacy"
                 /\ \A i \in 1 .. at - 1 : Continues(file', VerifyKey, i)
      <3>1. VerifyKey \in Keys
        BY <1>2, <1>10, <2>2 DEF FileInv
      <3>2. \A i \in 1 .. Len(file') : file'[i].nl
        BY <1>2, <1>5, <1>6, <1>10, <2>2 DEF FileInv
      <3>3. \A i \in 1 .. at - 1 : Continues(file, VerifyKey, i)
        BY <1>2, <1>10, <2>2 DEF FileInv
      <3>4. \A i \in 1 .. at - 1 : Continues(file', VerifyKey, i)
        BY <1>11, <3>1, <3>3
      <3> QED
        BY <1>5, <1>6, <3>1, <3>2, <3>4
    <2> QED
      BY <1>11, <2>1, <2>2
  <1>13. CutInv' /\ LocatedInv'
    BY <1>9 DEF CutInv, LocatedInv
  <1>14. RecordLines'
    BY <1>4 DEF TamperInv, RecordLines, Tampered
  <1> QED
    BY <1>8, <1>9, <1>12, <1>13, <1>14 DEF TamperInv

LEMMA CutKeeps ==
    ASSUME TamperInv, CutShort
    PROVE  TamperInv'
  <1>1. TypeOK /\ HolderInv /\ KeyInv
    BY DEF TamperInv
  <1>2. PICK n \in 0 .. Len(file) - 1 :
           Touch("cut", n + 1, SubSeq(file, 1, n))
    BY DEF CutShort
  <1>3. Tampered("cut", n + 1) /\ file' = SubSeq(file, 1, n)
    BY <1>2, TouchTampers
  <1>4. /\ file' \in Seq(Line) /\ Len(file') = n /\ n \in Nat
        /\ n < Len(file) /\ Len(file) \in Nat
        /\ \A i \in 1 .. n : file'[i] = file[i] /\ i \in 1 .. Len(file)
                             /\ i \in 1 .. Len(file) - 1
    <2>1. file \in Seq(Line) /\ Len(file) \in Nat
      BY <1>1, TypeFacts
    <2> QED
      BY <1>3, <2>1
  <1>5. /\ TypeOK' /\ HolderInv' /\ KeyInv'
        /\ tamper' # Untouched
    BY <1>1, <1>3, <1>4, TouchKeeps
  <1>6. /\ tamper'.kind = "cut" /\ tamper'.life = crashes
        /\ tamper'.serial = serial
        /\ tamper'.live => worker = "up"
        /\ serial' = serial + 1 /\ serial \in Nat /\ crashes \in Nat
        /\ UNCHANGED <<worker, prevHash, pc, line, life, crashes>>
        /\ UntouchedInv
    BY <1>1, <1>3, TypeFacts DEF Tampered, TamperInv
  <1>7. IdInv /\ LinkInv
    BY <1>6 DEF UntouchedInv
  <1>8. IdInv'
    <2>1. LineInv'
      BY <1>1, <1>6, <1>7, TypeFacts DEF IdInv, LineInv
    <2>2. HashInv'
      BY <1>1, <1>6, <1>7, TypeFacts DEF IdInv, HashInv
    <2>3. FileIds'
      <3>1. \A i \in 1 .. Len(file') :
               /\ file'[i].id = file[i].id /\ file[i].id \in Nat
               /\ 0 < file[i].id /\ file[i].id < serial
               /\ i \in 1 .. Len(file)
        BY <1>1, <1>4, <1>7, TypeFacts DEF IdInv, FileIds
      <3>2. \A i, j \in 1 .. Len(file') :
               i < j => file'[i].id < file'[j].id
        BY <1>7, <3>1 DEF IdInv, FileIds
      <3>3. \A r \in Reqs, i \in 1 .. Len(file') :
               pc[r] = "chained" => file'[i].id < line[r].id
        BY <1>7, <3>1 DEF IdInv, FileIds
      <3> QED
        BY <1>6, <3>1, <3>2, <3>3 DEF FileIds
    <2>4. OriginInv'
      BY <1>4, <1>6, <1>7 DEF IdInv, OriginInv
    <2>5. LifeInv'
      BY <1>6, <1>7 DEF IdInv, LifeInv, Sealed, NamedBy
    <2> QED
      BY <2>1, <2>2, <2>3, <2>4, <2>5 DEF IdInv
  <1>9. ASSUME worker = "up" PROVE Adrift'
    <2>1. Pending' <=> Pending
      BY <1>6 DEF Pending
    <2>2. ASSUME NEW h, LastAtMost(file, h) PROVE Absent(file', h)
      BY <1>4, <2>2 DEF LastAtMost, Absent
    <2>3. ~Pending => Absent(file', prevHash)
      BY <1>7, <1>9, <2>2 DEF LinkInv, NextLink
    <2>4. \A r \in Reqs : pc[r] = "chained" => Absent(file', line[r].prev)
      BY <1>7, <2>2 DEF LinkInv, NextLink
    <2> QED
      BY <1>6, <1>9, <2>1, <2>3, <2>4 DEF Adrift
  <1>10. NoneSince'
    <2> SUFFICES ASSUME NEW i \in 1 .. Len(file'), file'[i].form = "record",
                        NEW q, q = file'[i].req
                 PROVE  ~(line[q].id >= serial)
      BY <1>6 DEF NoneSince
    <2>1. q \in Reqs
      BY <1>4, <1>7 DEF IdInv, OriginInv
    <2> QED
      BY <1>1, <1>6, <1>7, <2>1, TypeFacts DEF IdInv, LineInv
  <1>11. CutInv'
    BY <1>6, <1>9, <1>10 DEF CutInv
  <1>12. LocatedInv' /\ StrippedInv'
    BY <1>6 DEF LocatedInv, StrippedInv
  <1>13. RecordLines'
    BY <1>6 DEF TamperInv, RecordLines
  <1> QED
    BY <1>5, <1>6, <1>8, <1>11, <1>12, <1>13 DEF TamperInv

LEMMA InitTamperInv == TamperInit => TamperInv
  <1> SUFFICES ASSUME TamperInit PROVE TamperInv
    OBVIOUS
  <1>1. Init /\ tamper = Untouched /\ tamper.kind = "none"
    BY UntouchedKind DEF TamperInit
  <1>2. LogInv /\ EntryInv /\ IdInv /\ LinkInv /\ NoLegacy /\ TypeOK
    BY <1>1, InitLogInv, InitEntryInv, InitIdInv, InitLinkInv, InitTypes
  <1>3. RecordLines
    BY <1>1 DEF Init, RecordLines
  <1> QED
    BY <1>1, <1>2, <1>3
    DEF TamperInv, UntouchedInv, WorkerInv, LogInv, CutInv, LocatedInv,
        StrippedInv

LEMMA TamperStep == TamperInv /\ [TamperNext]_tamperVars => TamperInv'
  <1> SUFFICES ASSUME TamperInv, [TamperNext]_tamperVars PROVE TamperInv'
    OBVIOUS
  <1>1. CASE Next /\ UNCHANGED tamper
    BY <1>1, NextKeeps
  <1>2. CASE EditRecord \/ RemoveRecord \/ SwapRecords
    BY <1>2, InsideKeeps
  <1>3. CASE CutShort
    BY <1>3, CutKeeps
  <1>4. CASE StripRecord
    BY <1>4, StripKeeps
  <1>5. CASE UNCHANGED tamperVars
    <2>1. UNCHANGED vars /\ tamper' = tamper
      BY <1>5 DEF tamperVars
    <2> QED
      BY <2>1, NextKeeps
  <1> QED
    BY <1>1, <1>2, <1>3, <1>4, <1>5 DEF TamperNext

(* What holds of the log whoever touches it, and however the worker goes   *)
(* on.                                                                     *)
THEOREM TamperInvariant == TamperSpec => []TamperInv
  BY InitTamperInv, TamperStep, PTL DEF TamperSpec

(* An edit that leaves the chain fields in, a removal or a swap is         *)
(* reported at its line, or at an earlier one that a failed write or a     *)
(* lost key had broken, for ever after.  After an edit that takes them out *)
(* the log never verifies as whole, but if nothing else went wrong Verify  *)
(* names no line and gives no error: the log passes for a legacy one.      *)
THEOREM TamperLocatedHolds == TamperSpec => []TamperLocated
  <1>1. TamperInv => TamperLocated
    <2> SUFFICES ASSUME TamperInv, legacy = 0
                 PROVE  TamperLocated
      BY DEF TamperLocated
    <2>1. LocatedInv /\ StrippedInv /\ file \in Seq(Line)
      BY TypeFacts DEF TamperInv
    <2>2. ASSUME tamper.kind = "stripped"
          PROVE  /\ \A k \in Keys : /\ Verify(file, k).line # 0
                                     /\ Verify(file, k).line <= tamper.at
                 /\ (faults = 0 /\ VerifyKey \in Keys) =>
                       Verify(file, VerifyKey) = [line |-> -1, err |-> FALSE]
      <3>1. BadAt(file, tamper.at)
        BY <2>1, <2>2 DEF StrippedInv
      <3>2. faults = 0 => PassesForLegacy(file, VerifyKey, tamper.at)
        BY <2>1, <2>2 DEF StrippedInv, PassesForLegacy
      <3> QED
        BY <2>1, <3>1, <3>2, StrippedVerdict
    <2> QED
      BY <2>1, <2>2 DEF LocatedInv, TamperLocated
  <1> QED
    BY <1>1, TamperInvariant, PTL

(* A log cut short under a running worker does not verify once that worker *)
(* has a new record in it.                                                 *)
THEOREM LiveCutDetectedHolds == TamperSpec => []LiveCutDetected
  <1>1. TamperInv => LiveCutDetected
    <2> SUFFICES ASSUME TamperInv, tamper.kind = "cut", tamper.live,
                        NEW r \in Reqs, Recorded(file, r),
                        life[r] = tamper.life,
                        line[r].id >= tamper.serial, VerifyKey \in Keys
                 PROVE  VerifyExit(file, VerifyKey) # 0
      BY DEF LiveCutDetected
    <2>1. TypeOK /\ CutInv
      BY DEF TamperInv
    <2>2. file \in Seq(Line) /\ DOMAIN file = 1 .. Len(file)
      BY <2>1, TypeFacts
    <2>3. ~NoneSince
      BY <2>2 DEF NoneSince, Recorded
    <2>4. PICK s : BadAt(file, s)
      BY <2>1, <2>3 DEF CutInv
    <2>5. Verify(file, VerifyKey).line # 0
      BY <2>2, <2>4, NoStopNoGap DEF BadAt
    <2> QED
      BY <2>5 DEF VerifyExit
  <1> QED
    BY <1>1, TamperInvariant, PTL

(* Until somebody touches it, also a log with legacy records is whole, and *)
(* reported as what it is.                                                 *)
THEOREM UntouchedIntactHolds == TamperSpec => []UntouchedIntact
  <1>1. TamperInv => UntouchedIntact
    <2> SUFFICES ASSUME TamperInv, tamper = Untouched
                 PROVE  WorkerInv /\ ChainIntact
      BY DEF UntouchedIntact
    <2>1. WorkerInv /\ TypeOK
      BY DEF TamperInv, UntouchedInv
    <2>2. ChainIntact
      BY <2>1, VerifyOfFileInv DEF WorkerInv, LogInv, ChainIntact
    <2> QED
      BY <2>1, <2>2
  <1> QED
    BY <1>1, TamperInvariant, PTL
===========================================================================

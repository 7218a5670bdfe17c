---------------------------- MODULE FileOpsProofs ----------------------------
(***************************************************************************)
(* Proofs about FileOps for every set of requests, tokens and mixes, any   *)
(* content to begin with, and any bounds on faults and crashes.            *)
(***************************************************************************)
EXTENDS FileOps, TLAPS

---------------------------------------------------------------------------
(* The inductive invariant, in parts.                                      *)

Inode == [data: Content, mode: Modes, synced: BOOLEAN]

Temporary == {"temp", "written", "synced", "ready", "cleanup"}

Opened == {"reading", "writing", "accepted"} \cup Temporary

(* How far a handler is tells what it has opened and created.              *)
Handler(r) ==
    /\ pc[r] \in Temporary => temp[r] # Absent
    /\ pc[r] \notin Temporary \cup {"dead"} => temp[r] = Absent
    /\ pc[r] \in Opened => fd[r] # Absent
    /\ pc[r] \in {"start", "stat"} =>
          fd[r] = Absent /\ pos[r] = 0 /\ buf[r] = <<>>
    /\ pc[r] \in {"stat", "accepted"} \cup Temporary => op[r].kind = "edit"
    /\ pc[r] = "reading" => op[r].kind # "upload"
    /\ pc[r] = "writing" => op[r].kind = "upload"

HandlerInv == \A r \in Reqs : Handler(r)

(* An inode under a temporary name is nobody else's.                       *)
Alone(r) ==
    temp[r] # Absent =>
        /\ temp[r] # target
        /\ \A s \in Reqs : fd[s] # temp[r]
        /\ \A s \in Reqs : s # r => temp[s] # temp[r]

TempInv == \A r \in Reqs : Alone(r)

(* An edit has the mode of the file it replaces, and has set it in time.   *)
ModeOf(r) ==
    /\ pc[r] \in {"stat", "accepted", "temp", "written", "synced", "ready"} =>
          perm[r] # "private"
    /\ pc[r] = "reading" /\ op[r].kind = "edit" => perm[r] # "private"
    /\ pc[r] = "ready" => inodes[temp[r]].mode = perm[r]

ModeInv ==
    /\ target # Absent => inodes[target].mode # "private"
    /\ \A r \in Reqs : ModeOf(r)

(* Without uploads: what is or was at the path is a committed content and  *)
(* on disk; who reads has a prefix of it, an edit its substitution.        *)
Solid(i) == inodes[i].data \in versions /\ inodes[i].synced

Reading(r) ==
    pc[r] = "reading" =>
        /\ pos[r] <= Len(inodes[fd[r]].data)
        /\ buf[r] = SubSeq(inodes[fd[r]].data, 1, pos[r])

Editing(r) ==
    /\ pc[r] \in {"accepted", "temp", "written", "synced", "ready"} =>
          /\ Accepts(op[r], inodes[fd[r]].data)
          /\ buf[r] = Substitute(op[r], inodes[fd[r]].data)
    /\ pc[r] \in {"written", "synced", "ready"} =>
          inodes[temp[r]].data = buf[r]
    /\ pc[r] \in {"synced", "ready"} => inodes[temp[r]].synced

DataOf(r) ==
    /\ fd[r] # Absent => Solid(fd[r])
    /\ Reading(r)
    /\ op[r].kind = "download" /\ pc[r] = "ok" => buf[r] \in versions
    /\ Editing(r)

DataInv ==
    Uploads = {} =>
        /\ target # Absent => Solid(target)
        /\ \A r \in Reqs : DataOf(r)

(* With one upload and no crash: the inode it opened has what was copied.  *)
UploadInv ==
    crashes = 0 =>
        \A r \in Reqs : Uploads = {r} =>
            /\ pc[r] = "writing" =>
                  /\ pos[r] <= Len(op[r].body)
                  /\ inodes[fd[r]].data = SubSeq(op[r].body, 1, pos[r])
            /\ pc[r] = "ok" =>
                  fd[r] # Absent /\ inodes[fd[r]].data = op[r].body

FileInv ==
    TypeOK /\ HandlerInv /\ TempInv /\ ModeInv /\ DataInv /\ UploadInv

---------------------------------------------------------------------------
(* Lemmas about contents, inodes and operations.                           *)

(* What is assumed of the constants.                                       *)
LEMMA Constants ==
    /\ MaxFaults \in Nat /\ MaxCrashes \in Nat
    /\ Initial \in Content
    /\ \A mix \in Mixes : mix \subseteq OpTypes
  <1>1. /\ MaxFaults \in Nat /\ MaxCrashes \in Nat
        /\ Initial \in Seq(Tokens)
        /\ \A mix \in Mixes : mix \subseteq OpTypes
    BY FileAssumption
  <1>2. Initial \in Seq(Tokens \cup {Hole})
    BY <1>1
  <1> QED
    BY <1>1, <1>2 DEF Content

(* What a request may ask for.                                             *)
LEMMA Asked ==
    ASSUME NEW o \in OpTypes
    PROVE  /\ o.kind \in {"edit", "upload", "download"}
           /\ o.kind = "edit" => o.new \in Tokens
           /\ o.kind = "upload" => o.body \in Seq(Tokens)
  BY DEF OpTypes

LEMMA OpFacts ==
    ASSUME TypeOK, NEW r \in Reqs
    PROVE  /\ op[r].kind \in {"edit", "upload", "download"}
           /\ op[r].kind = "edit" => op[r].new \in Tokens
           /\ op[r].kind = "upload" => op[r].body \in Seq(Tokens)
  <1>1. PICK mix \in Mixes : op \in [Reqs -> mix]
    BY DEF TypeOK
  <1>2. op[r] \in OpTypes
    BY <1>1, Constants
  <1> QED
    BY <1>2, Asked

(* The substitution and the writes make contents of contents.              *)
LEMMA Substituted ==
    ASSUME NEW o, NEW c \in Content, o.new \in Tokens
    PROVE  Substitute(o, c) \in Content
  <1>1. /\ DOMAIN c = 1 .. Len(c) /\ Len(c) \in Nat
        /\ \A i \in DOMAIN c : c[i] \in Tokens \cup {Hole}
    BY DEF Content
  <1>2. Substitute(o, c) \in [1 .. Len(c) -> Tokens \cup {Hole}]
    BY <1>1 DEF Substitute
  <1> QED
    BY <1>1, <1>2 DEF Content

LEMMA WrittenAt ==
    ASSUME NEW c \in Content, NEW p \in Nat, NEW t \in Tokens
    PROVE  WriteAt(c, p, t) \in Content
  <1> DEFINE n == IF p > Len(c) THEN p ELSE Len(c)
  <1>1. /\ DOMAIN c = 1 .. Len(c) /\ Len(c) \in Nat
        /\ \A i \in DOMAIN c : c[i] \in Tokens \cup {Hole}
    BY DEF Content
  <1>2. n \in Nat
    BY <1>1
  <1>3. WriteAt(c, p, t) \in [1 .. n -> Tokens \cup {Hole}]
    BY <1>1 DEF WriteAt
  <1> QED
    BY <1>2, <1>3 DEF Content

(* A token written behind the last one is appended.                        *)
LEMMA WrittenBehind ==
    ASSUME NEW b \in Seq(Tokens), NEW p \in Nat, p < Len(b),
           NEW c, c = SubSeq(b, 1, p)
    PROVE  WriteAt(c, p + 1, b[p + 1]) = SubSeq(b, 1, p + 1)
  <1>1. Len(c) = p /\ \A i \in 1 .. p : c[i] = b[i]
    OBVIOUS
  <1>2. WriteAt(c, p + 1, b[p + 1]) =
            [i \in 1 .. (p + 1) |->
                IF i = p + 1 THEN b[p + 1] ELSE IF i <= p THEN c[i] ELSE Hole]
    BY <1>1 DEF WriteAt
  <1>3. SubSeq(b, 1, p + 1) = [i \in 1 .. (p + 1) |-> b[i]]
    OBVIOUS
  <1>4. \A i \in 1 .. (p + 1) : i = p + 1 \/ i \in 1 .. p
    OBVIOUS
  <1>5. \A i \in 1 .. (p + 1) :
            b[i] = IF i = p + 1 THEN b[p + 1]
                   ELSE IF i <= p THEN c[i] ELSE Hole
    BY <1>1, <1>4
  <1> QED
    BY <1>2, <1>3, <1>5

(* One inode is replaced, or one of its fields; an inode is added.         *)
WithData(S, n, d) == [S EXCEPT ![n].data = d]

Synced(S, n) == [S EXCEPT ![n].synced = TRUE]

Unsynced(S, n) == [S EXCEPT ![n].synced = FALSE]

WithMode(S, n, m) == [S EXCEPT ![n].mode = m]

WithNew(S, d, m) == Append(S, [data |-> d, mode |-> m, synced |-> FALSE])

(* What that leaves.                                                       *)
HasData(S, n, d, T) ==
    /\ T \in Seq(Inode) /\ Len(T) = Len(S)
    /\ T[n].data = d
    /\ T[n].mode = S[n].mode
    /\ T[n].synced = S[n].synced
    /\ \A i \in 1 .. Len(S) : i # n => T[i] = S[i]

HasSynced(S, n, T) ==
    /\ T \in Seq(Inode) /\ Len(T) = Len(S)
    /\ T[n].data = S[n].data
    /\ T[n].mode = S[n].mode
    /\ T[n].synced = TRUE
    /\ \A i \in 1 .. Len(S) : i # n => T[i] = S[i]

HasUnsynced(S, n, T) ==
    /\ T \in Seq(Inode) /\ Len(T) = Len(S)
    /\ T[n].data = S[n].data
    /\ T[n].mode = S[n].mode
    /\ T[n].synced = FALSE
    /\ \A i \in 1 .. Len(S) : i # n => T[i] = S[i]

HasMode(S, n, m, T) ==
    /\ T \in Seq(Inode) /\ Len(T) = Len(S)
    /\ T[n].data = S[n].data
    /\ T[n].mode = m
    /\ T[n].synced = S[n].synced
    /\ \A i \in 1 .. Len(S) : i # n => T[i] = S[i]

HasNew(S, d, m, T) ==
    /\ T \in Seq(Inode) /\ Len(T) = Len(S) + 1
    /\ T[Len(S) + 1].data = d /\ T[Len(S) + 1].mode = m
    /\ \A i \in 1 .. Len(S) : T[i] = S[i]

LEMMA Put ==
    ASSUME NEW S \in Seq(Inode), NEW n \in 1 .. Len(S), NEW x \in Inode,
           NEW T, T = [S EXCEPT ![n] = x]
    PROVE  /\ T \in Seq(Inode) /\ Len(T) = Len(S) /\ T[n] = x
           /\ \A i \in 1 .. Len(S) : i # n => T[i] = S[i]
  OBVIOUS

LEMMA DataSet ==
    ASSUME NEW S \in Seq(Inode), NEW n \in 1 .. Len(S), NEW d \in Content,
           NEW T, T = WithData(S, n, d)
    PROVE  HasData(S, n, d, T)
  <1>1. S[n] \in Inode
    OBVIOUS
  <1>2. PICK x : x = [S[n] EXCEPT !.data = d]
    OBVIOUS
  <1>3. /\ x \in Inode
        /\ x.data = d
        /\ x.mode = S[n].mode
        /\ x.synced = S[n].synced
    BY <1>1, <1>2 DEF Inode
  <1>4. T = [S EXCEPT ![n] = x]
    BY <1>2 DEF WithData
  <1>5. /\ T \in Seq(Inode) /\ Len(T) = Len(S) /\ T[n] = x
        /\ \A i \in 1 .. Len(S) : i # n => T[i] = S[i]
    BY <1>3, <1>4, Put
  <1> QED
    BY <1>3, <1>5 DEF HasData

LEMMA SyncedSet ==
    ASSUME NEW S \in Seq(Inode), NEW n \in 1 .. Len(S),
           NEW T, T = Synced(S, n)
    PROVE  HasSynced(S, n, T)
  <1>1. S[n] \in Inode
    OBVIOUS
  <1>2. PICK x : x = [S[n] EXCEPT !.synced = TRUE]
    OBVIOUS
  <1>3. /\ x \in Inode
        /\ x.data = S[n].data
        /\ x.mode = S[n].mode
        /\ x.synced = TRUE
    BY <1>1, <1>2 DEF Inode
  <1>4. T = [S EXCEPT ![n] = x]
    BY <1>2 DEF Synced
  <1>5. /\ T \in Seq(Inode) /\ Len(T) = Len(S) /\ T[n] = x
        /\ \A i \in 1 .. Len(S) : i # n => T[i] = S[i]
    BY <1>3, <1>4, Put
  <1> QED
    BY <1>3, <1>5 DEF HasSynced

LEMMA UnsyncedSet ==
    ASSUME NEW S \in Seq(Inode), NEW n \in 1 .. Len(S),
           NEW T, T = Unsynced(S, n)
    PROVE  HasUnsynced(S, n, T)
  <1>1. S[n] \in Inode
    OBVIOUS
  <1>2. PICK x : x = [S[n] EXCEPT !.synced = FALSE]
    OBVIOUS
  <1>3. /\ x \in Inode
        /\ x.data = S[n].data
        /\ x.mode = S[n].mode
        /\ x.synced = FALSE
    BY <1>1, <1>2 DEF Inode
  <1>4. T = [S EXCEPT ![n] = x]
    BY <1>2 DEF Unsynced
  <1>5. /\ T \in Seq(Inode) /\ Len(T) = Len(S) /\ T[n] = x
        /\ \A i \in 1 .. Len(S) : i # n => T[i] = S[i]
    BY <1>3, <1>4, Put
  <1> QED
    BY <1>3, <1>5 DEF HasUnsynced

LEMMA ModeSet ==
    ASSUME NEW S \in Seq(Inode), NEW n \in 1 .. Len(S), NEW m \in Modes,
           NEW T, T = WithMode(S, n, m)
    PROVE  HasMode(S, n, m, T)
  <1>1. S[n] \in Inode
    OBVIOUS
  <1>2. PICK x : x = [S[n] EXCEPT !.mode = m]
    OBVIOUS
  <1>3. /\ x \in Inode
        /\ x.data = S[n].data
        /\ x.mode = m
        /\ x.synced = S[n].synced
    BY <1>1, <1>2 DEF Inode
  <1>4. T = [S EXCEPT ![n] = x]
    BY <1>2 DEF WithMode
  <1>5. /\ T \in Seq(Inode) /\ Len(T) = Len(S) /\ T[n] = x
        /\ \A i \in 1 .. Len(S) : i # n => T[i] = S[i]
    BY <1>3, <1>4, Put
  <1> QED
    BY <1>3, <1>5 DEF HasMode

LEMMA Appended ==
    ASSUME NEW S \in Seq(Inode), NEW d \in Content, NEW m \in Modes,
           NEW T, T = WithNew(S, d, m)
    PROVE  HasNew(S, d, m, T)
  <1>1. PICK x \in Inode : x = [data |-> d, mode |-> m, synced |-> FALSE]
    BY DEF Inode
  <1>2. T = Append(S, x) /\ x.data = d /\ x.mode = m
    BY <1>1 DEF WithNew
  <1> QED
    BY <1>2 DEF HasNew

---------------------------------------------------------------------------
(* What a step leaves alone.                                               *)

Acts(r) == Edit(r) \/ Upload(r)

TypeParts ==
    /\ inodes \in Seq(Inode) /\ Len(inodes) \in Nat
    /\ target \in 0 .. Len(inodes)
    /\ temp \in [Reqs -> 0 .. Len(inodes)]
    /\ pc \in [Reqs -> States]
    /\ fd \in [Reqs -> 0 .. Len(inodes)]
    /\ pos \in [Reqs -> Nat]
    /\ buf \in [Reqs -> Content]
    /\ perm \in [Reqs -> Modes]
    /\ versions \subseteq Content
    /\ faults \in 0 .. MaxFaults
    /\ crashes \in 0 .. MaxCrashes

LEMMA Typed == TypeOK => TypeParts
  BY DEF TypeOK, TypeParts, Inode

(* A handler's step is its own.                                            *)
LEMMA Frame ==
    ASSUME TypeOK, NEW r \in Reqs, Acts(r)
    PROVE  /\ UNCHANGED <<op, crashes>>
           /\ \A s \in Reqs : s # r =>
                 /\ pc'[s] = pc[s] /\ temp'[s] = temp[s] /\ fd'[s] = fd[s]
                 /\ pos'[s] = pos[s] /\ buf'[s] = buf[s] /\ perm'[s] = perm[s]
  <1> USE DEF Goto, NewInode, Fault
  <1>0. TypeParts
    BY Typed
  <1> USE <1>0 DEF TypeParts
  <1>1. CASE EditStat(r)
    BY <1>1 DEF EditStat
  <1>2. CASE OpenRead(r)
    BY <1>2 DEF OpenRead
  <1>3. CASE ReadSome(r)
    BY <1>3 DEF ReadSome
  <1>4. CASE ReadEnd(r)
    BY <1>4 DEF ReadEnd
  <1>5. CASE CreateTemp(r)
    BY <1>5 DEF CreateTemp
  <1>6. CASE WriteTemp(r)
    BY <1>6 DEF WriteTemp
  <1>7. CASE SyncTemp(r)
    BY <1>7 DEF SyncTemp
  <1>8. CASE ChmodTemp(r)
    BY <1>8 DEF ChmodTemp
  <1>9. CASE Rename(r)
    BY <1>9 DEF Rename
  <1>10. CASE RemoveTemp(r)
    BY <1>10 DEF RemoveTemp
  <1>11. CASE OpenTrunc(r)
    BY <1>11 DEF OpenTrunc
  <1>12. CASE CopySome(r)
    BY <1>12 DEF CopySome
  <1>13. CASE CopyEnd(r)
    BY <1>13 DEF CopyEnd
  <1> QED
    BY <1>1, <1>2, <1>3, <1>4, <1>5, <1>6, <1>7, <1>8, <1>9, <1>10, <1>11,
       <1>12, <1>13 DEF Acts, Edit, Upload

---------------------------------------------------------------------------
(* What the steps that write inodes do to them.                            *)

Kept(n) == \A i \in 1 .. Len(inodes) : i # n => inodes'[i] = inodes[i]

LEMMA CreateTempDoes ==
    ASSUME TypeOK, NEW r \in Reqs, CreateTemp(r)
    PROVE  \/ UNCHANGED <<inodes, temp>> /\ pc'[r] = "failed"
           \/ /\ inodes' \in Seq(Inode) /\ Len(inodes') = Len(inodes) + 1
              /\ Kept(0)
              /\ temp'[r] = Len(inodes) + 1 /\ pc'[r] = "temp"
  <1>0. TypeParts
    BY Typed
  <1>a. inodes \in Seq(Inode) /\ Len(inodes) \in Nat
    BY <1>0 DEF TypeParts
  <1>1. /\ pc'[r] = "failed" \/ pc'[r] = "temp"
        /\ pc'[r] = "failed" => UNCHANGED <<inodes, temp>>
        /\ pc'[r] = "temp" =>
              /\ temp'[r] = Len(inodes) + 1
              /\ inodes' = WithNew(inodes, <<>>, "private")
    BY <1>0 DEF TypeParts, CreateTemp, NewInode, WithNew, Goto, Fault
  <1>2. <<>> \in Content /\ "private" \in Modes
    BY DEF Content, Modes
  <1>3. ASSUME pc'[r] = "temp"
        PROVE  /\ inodes' \in Seq(Inode) /\ Len(inodes') = Len(inodes) + 1
               /\ \A i \in 1 .. Len(inodes) : inodes'[i] = inodes[i]
    <2>1. inodes' = WithNew(inodes, <<>>, "private")
      BY <1>1, <1>3
    <2> QED
      <3>1. HasNew(inodes, <<>>, "private", inodes')
        BY <1>a, <1>2, <2>1, Appended
      <3> QED
        BY <3>1 DEF HasNew
  <1> QED
    BY <1>1, <1>3 DEF Kept

LEMMA WriteTempDoes ==
    ASSUME TypeOK, NEW r \in Reqs, Handler(r), WriteTemp(r)
    PROVE  /\ temp[r] \in 1 .. Len(inodes)
           /\ inodes' \in Seq(Inode) /\ Len(inodes') = Len(inodes)
           /\ Kept(temp[r])
           /\ \/ pc'[r] = "written" /\ inodes'[temp[r]].data = buf[r]
              \/ pc'[r] = "cleanup"
  <1>0. TypeParts
    BY Typed
  <1>a. inodes \in Seq(Inode) /\ Len(inodes) \in Nat
    BY <1>0 DEF TypeParts
  <1>1. temp[r] \in 1 .. Len(inodes)
    BY <1>0 DEF TypeParts, Handler, Temporary, WriteTemp, Absent
  <1>2. buf[r] \in Content
    BY <1>0 DEF TypeParts
  <1>3. /\ pc'[r] = "written" \/ pc'[r] = "cleanup"
        /\ pc'[r] = "written" =>
              inodes' = WithData(inodes, temp[r], buf[r])
        /\ pc'[r] = "cleanup" =>
              \E n \in 0 .. Len(buf[r]) - 1 :
                 inodes' = WithData(inodes, temp[r], SubSeq(buf[r], 1, n))
    BY <1>0 DEF TypeParts, WriteTemp, WithData, Goto, Fault
  <1>4. PICK d \in Content :
           /\ inodes' = WithData(inodes, temp[r], d)
           /\ pc'[r] = "written" => d = buf[r]
    <2>1. CASE pc'[r] = "written"
      BY <1>2, <1>3, <2>1
    <2>2. CASE pc'[r] = "cleanup"
      <3>1. PICK n \in 0 .. Len(buf[r]) - 1 :
               inodes' = WithData(inodes, temp[r], SubSeq(buf[r], 1, n))
        BY <1>3, <2>2
      <3>2. SubSeq(buf[r], 1, n) \in Content
        BY <1>2 DEF Content
      <3> QED
        BY <2>2, <3>1, <3>2
    <2> QED
      BY <1>3, <2>1, <2>2
  <1>5. /\ inodes' \in Seq(Inode) /\ Len(inodes') = Len(inodes)
        /\ inodes'[temp[r]].data = d
        /\ \A i \in 1 .. Len(inodes) : i # temp[r] => inodes'[i] = inodes[i]
    <2>1. HasData(inodes, temp[r], d, inodes')
      BY <1>a, <1>1, <1>4, DataSet
    <2> QED
      BY <2>1 DEF HasData
  <1> QED
    BY <1>1, <1>3, <1>4, <1>5 DEF Kept

LEMMA SyncTempDoes ==
    ASSUME TypeOK, NEW r \in Reqs, Handler(r), SyncTemp(r)
    PROVE  /\ temp[r] \in 1 .. Len(inodes)
           /\ inodes' \in Seq(Inode) /\ Len(inodes') = Len(inodes)
           /\ Kept(temp[r])
           /\ inodes'[temp[r]].data = inodes[temp[r]].data
           /\ \/ pc'[r] = "synced" /\ inodes'[temp[r]].synced
              \/ pc'[r] = "cleanup"
  <1>0. TypeParts
    BY Typed
  <1>a. inodes \in Seq(Inode) /\ Len(inodes) \in Nat
    BY <1>0 DEF TypeParts
  <1>1. temp[r] \in 1 .. Len(inodes)
    BY <1>0 DEF TypeParts, Handler, Temporary, SyncTemp, Absent
  <1>2. \/ /\ pc'[r] = "synced"
           /\ inodes' = Synced(inodes, temp[r])
        \/ pc'[r] = "cleanup" /\ UNCHANGED inodes
    BY <1>0 DEF TypeParts, SyncTemp, Synced, Goto, Fault
  <1>3. CASE pc'[r] = "cleanup" /\ UNCHANGED inodes
    BY <1>0, <1>1, <1>3 DEF TypeParts, Kept
  <1>4. CASE /\ pc'[r] = "synced"
             /\ inodes' = Synced(inodes, temp[r])
    <2>1. /\ inodes' \in Seq(Inode) /\ Len(inodes') = Len(inodes)
          /\ inodes'[temp[r]].data = inodes[temp[r]].data
          /\ inodes'[temp[r]].synced = TRUE
          /\ \A i \in 1 .. Len(inodes) : i # temp[r] => inodes'[i] = inodes[i]
      <3>1. HasSynced(inodes, temp[r], inodes')
        BY <1>a, <1>1, <1>4, SyncedSet
      <3> QED
        BY <3>1 DEF HasSynced
    <2> QED
      BY <1>1, <1>4, <2>1 DEF Kept
  <1> QED
    BY <1>2, <1>3, <1>4

LEMMA ChmodTempDoes ==
    ASSUME TypeOK, NEW r \in Reqs, Handler(r), ChmodTemp(r)
    PROVE  /\ temp[r] \in 1 .. Len(inodes)
           /\ inodes' \in Seq(Inode) /\ Len(inodes') = Len(inodes)
           /\ Kept(temp[r])
           /\ inodes'[temp[r]].data = inodes[temp[r]].data
           /\ inodes'[temp[r]].synced = inodes[temp[r]].synced
           /\ \/ pc'[r] = "ready" /\ inodes'[temp[r]].mode = perm[r]
              \/ pc'[r] = "cleanup"
  <1>0. TypeParts
    BY Typed
  <1>a. inodes \in Seq(Inode) /\ Len(inodes) \in Nat
    BY <1>0 DEF TypeParts
  <1>1. temp[r] \in 1 .. Len(inodes) /\ perm[r] \in Modes
    BY <1>0 DEF TypeParts, Handler, Temporary, ChmodTemp, Absent
  <1>2. \/ /\ pc'[r] = "ready"
           /\ inodes' = WithMode(inodes, temp[r], perm[r])
        \/ pc'[r] = "cleanup" /\ UNCHANGED inodes
    BY <1>0 DEF TypeParts, ChmodTemp, WithMode, Goto, Fault
  <1>3. CASE pc'[r] = "cleanup" /\ UNCHANGED inodes
    BY <1>0, <1>1, <1>3 DEF TypeParts, Kept
  <1>4. CASE /\ pc'[r] = "ready"
             /\ inodes' = WithMode(inodes, temp[r], perm[r])
    <2>1. /\ inodes' \in Seq(Inode) /\ Len(inodes') = Len(inodes)
          /\ inodes'[temp[r]].data = inodes[temp[r]].data
          /\ inodes'[temp[r]].synced = inodes[temp[r]].synced
          /\ inodes'[temp[r]].mode = perm[r]
          /\ \A i \in 1 .. Len(inodes) : i # temp[r] => inodes'[i] = inodes[i]
      <3>1. HasMode(inodes, temp[r], perm[r], inodes')
        BY <1>a, <1>1, <1>4, ModeSet
      <3> QED
        BY <3>1 DEF HasMode
    <2> QED
      BY <1>1, <1>4, <2>1 DEF Kept
  <1> QED
    BY <1>2, <1>3, <1>4

LEMMA OpenTruncDoes ==
    ASSUME TypeOK, NEW r \in Reqs, OpenTrunc(r)
    PROVE  \/ /\ UNCHANGED <<inodes, target, fd>>
              /\ pc'[r] = "failed"
           \/ /\ pc'[r] = "writing" /\ target # Absent
              /\ fd'[r] = target /\ UNCHANGED target
              /\ inodes' \in Seq(Inode) /\ Len(inodes') = Len(inodes)
              /\ Kept(target)
              /\ inodes'[target].data = <<>>
              /\ inodes'[target].mode = inodes[target].mode
           \/ /\ pc'[r] = "writing"
              /\ target' = Len(inodes) + 1 /\ fd'[r] = Len(inodes) + 1
              /\ inodes' \in Seq(Inode) /\ Len(inodes') = Len(inodes) + 1
              /\ Kept(0)
              /\ inodes'[Len(inodes) + 1].data = <<>>
              /\ inodes'[Len(inodes) + 1].mode = "upload"
  <1>0. TypeParts
    BY Typed
  <1>a. inodes \in Seq(Inode) /\ Len(inodes) \in Nat
    BY <1>0 DEF TypeParts
  <1>1. \/ UNCHANGED <<inodes, target, fd>> /\ pc'[r] = "failed"
        \/ /\ pc'[r] = "writing" /\ target # Absent
           /\ fd'[r] = target /\ UNCHANGED target
           /\ inodes' = Unsynced(WithData(inodes, target, <<>>), target)
        \/ /\ pc'[r] = "writing"
           /\ target' = Len(inodes) + 1 /\ fd'[r] = Len(inodes) + 1
           /\ inodes' = WithNew(inodes, <<>>, "upload")
    BY <1>0 DEF TypeParts, OpenTrunc, NewInode, WithNew, WithData, Synced,
       Unsynced,
           Goto, Fault
  <1>2. <<>> \in Content /\ "upload" \in Modes
    BY DEF Content, Modes
  <1>3. ASSUME target # Absent,
               inodes' = Unsynced(WithData(inodes, target, <<>>), target)
        PROVE  /\ inodes' \in Seq(Inode) /\ Len(inodes') = Len(inodes)
               /\ Kept(target)
               /\ inodes'[target].data = <<>>
               /\ inodes'[target].mode = inodes[target].mode
    <2>1. target \in 1 .. Len(inodes)
      BY <1>0, <1>3 DEF TypeParts, Absent
    <2>2. PICK U : U = WithData(inodes, target, <<>>)
      OBVIOUS
    <2>3. inodes' = Unsynced(U, target)
      BY <1>3, <2>2
    <2>4. /\ U \in Seq(Inode) /\ Len(U) = Len(inodes)
          /\ U[target].data = <<>> /\ U[target].mode = inodes[target].mode
          /\ \A i \in 1 .. Len(inodes) : i # target => U[i] = inodes[i]
      <3>1. HasData(inodes, target, <<>>, U)
        BY <1>a, <1>2, <2>1, <2>2, DataSet
      <3> QED
        BY <3>1 DEF HasData
    <2>5. /\ inodes' \in Seq(Inode) /\ Len(inodes') = Len(U)
          /\ inodes'[target].data = U[target].data
          /\ inodes'[target].mode = U[target].mode
          /\ \A i \in 1 .. Len(U) : i # target => inodes'[i] = U[i]
      <3>1. U \in Seq(Inode) /\ target \in 1 .. Len(U)
        BY <2>1, <2>4
      <3>2. HasUnsynced(U, target, inodes')
        BY <2>3, <3>1, UnsyncedSet
      <3> QED
        BY <3>2 DEF HasUnsynced
    <2> QED
      BY <2>4, <2>5 DEF Kept
  <1>4. ASSUME inodes' = WithNew(inodes, <<>>, "upload")
        PROVE  /\ inodes' \in Seq(Inode) /\ Len(inodes') = Len(inodes) + 1
               /\ Kept(0)
               /\ inodes'[Len(inodes) + 1].data = <<>>
               /\ inodes'[Len(inodes) + 1].mode = "upload"
    <2>1. /\ inodes' \in Seq(Inode) /\ Len(inodes') = Len(inodes) + 1
          /\ inodes'[Len(inodes) + 1].data = <<>>
          /\ inodes'[Len(inodes) + 1].mode = "upload"
          /\ \A i \in 1 .. Len(inodes) : inodes'[i] = inodes[i]
      <3>1. HasNew(inodes, <<>>, "upload", inodes')
        BY <1>a, <1>2, <1>4, Appended
      <3> QED
        BY <3>1 DEF HasNew
    <2> QED
      BY <2>1 DEF Kept
  <1> QED
    BY <1>1, <1>3, <1>4, Zenon

LEMMA CopySomeDoes ==
    ASSUME TypeOK, NEW r \in Reqs, Handler(r), CopySome(r)
    PROVE  \/ UNCHANGED <<inodes, pos>> /\ pc'[r] = "failed"
           \/ /\ UNCHANGED pc
              /\ fd[r] \in 1 .. Len(inodes)
              /\ pos'[r] = pos[r] + 1
              /\ inodes' \in Seq(Inode) /\ Len(inodes') = Len(inodes)
              /\ Kept(fd[r])
              /\ inodes'[fd[r]].data =
                    WriteAt(inodes[fd[r]].data, pos[r] + 1,
                            op[r].body[pos[r] + 1])
              /\ inodes'[fd[r]].mode = inodes[fd[r]].mode
  <1>0. TypeParts
    BY Typed
  <1>a. inodes \in Seq(Inode) /\ Len(inodes) \in Nat
    BY <1>0 DEF TypeParts
  <1>1. /\ fd[r] \in 1 .. Len(inodes) /\ pos[r] \in Nat
        /\ op[r].kind = "upload" /\ pos[r] < Len(op[r].body)
    BY <1>0 DEF TypeParts, Handler, Opened, CopySome, Absent
  <1>2. \/ UNCHANGED <<inodes, pos>> /\ pc'[r] = "failed"
        \/ /\ UNCHANGED pc /\ pos'[r] = pos[r] + 1
           /\ inodes' = WithData(inodes, fd[r],
                        WriteAt(inodes[fd[r]].data, pos[r] + 1,
                                op[r].body[pos[r] + 1]))
    BY <1>0 DEF TypeParts, CopySome, WithData, Goto, Fault
  <1>3. ASSUME inodes' = WithData(inodes, fd[r],
                        WriteAt(inodes[fd[r]].data, pos[r] + 1,
                                op[r].body[pos[r] + 1]))
        PROVE  /\ inodes' \in Seq(Inode) /\ Len(inodes') = Len(inodes)
               /\ Kept(fd[r])
               /\ inodes'[fd[r]].data =
                     WriteAt(inodes[fd[r]].data, pos[r] + 1,
                             op[r].body[pos[r] + 1])
               /\ inodes'[fd[r]].mode = inodes[fd[r]].mode
    <2>1. inodes[fd[r]].data \in Content
      <3>1. inodes[fd[r]] \in Inode
        BY <1>0, <1>1 DEF TypeParts
      <3> QED
        BY <3>1 DEF Inode
    <2>2. op[r].body[pos[r] + 1] \in Tokens
      BY <1>1, OpFacts
    <2>3. PICK d \in Content :
             d = WriteAt(inodes[fd[r]].data, pos[r] + 1,
                         op[r].body[pos[r] + 1])
      BY <1>1, <2>1, <2>2, WrittenAt
    <2>4. inodes' = WithData(inodes, fd[r], d)
      BY <1>3, <2>3, Zenon
    <2>5. /\ inodes' \in Seq(Inode) /\ Len(inodes') = Len(inodes)
          /\ inodes'[fd[r]].data = d
          /\ inodes'[fd[r]].mode = inodes[fd[r]].mode
          /\ \A i \in 1 .. Len(inodes) : i # fd[r] => inodes'[i] = inodes[i]
      <3>1. HasData(inodes, fd[r], d, inodes')
        BY <1>a, <1>1, <2>4, DataSet
      <3> QED
        BY <3>1 DEF HasData
    <2> QED
      BY <2>3, <2>5 DEF Kept
  <1> QED
    BY <1>1, <1>2, <1>3, Zenon

---------------------------------------------------------------------------
(* Inodes are never removed.  A handler changes its temporary file, or the *)
(* file it uploads to, and the latter's mode never.                        *)

Moved(r) ==
    /\ inodes' \in Seq(Inode)
    /\ Len(inodes') \in Nat /\ Len(inodes') >= Len(inodes)
    /\ \A i \in 1 .. Len(inodes) :
          /\ i # temp[r] /\ (op[r].kind = "upload" => i # fd'[r]) =>
                inodes'[i] = inodes[i]
          /\ i # temp[r] => inodes'[i].mode = inodes[i].mode

LEMMA InodesMoved ==
    ASSUME TypeOK, NEW r \in Reqs, Handler(r), Acts(r)
    PROVE  Moved(r)
  <1>0. TypeParts
    BY Typed
  <1>a. /\ inodes \in Seq(Inode) /\ Len(inodes) \in Nat
        /\ inodes' \in Seq(Inode) => Len(inodes') \in Nat
    BY <1>0 DEF TypeParts
  <1>u. ASSUME UNCHANGED inodes
        PROVE  Moved(r)
    BY <1>a, <1>u DEF Moved
  <1>n. ASSUME inodes' \in Seq(Inode), Len(inodes') = Len(inodes) + 1, Kept(0)
        PROVE  Moved(r)
    BY <1>a, <1>n DEF Moved, Kept
  <1>t. ASSUME inodes' \in Seq(Inode), Len(inodes') = Len(inodes),
               Kept(temp[r])
        PROVE  Moved(r)
    BY <1>a, <1>t DEF Moved, Kept
  <1>1. CASE EditStat(r)
    BY <1>1, <1>u DEF EditStat
  <1>2. CASE OpenRead(r)
    BY <1>2, <1>u DEF OpenRead
  <1>3. CASE ReadSome(r)
    BY <1>3, <1>u DEF ReadSome
  <1>4. CASE ReadEnd(r)
    BY <1>4, <1>u DEF ReadEnd
  <1>5. CASE CreateTemp(r)
    BY <1>5, <1>u, <1>n, CreateTempDoes
  <1>6. CASE WriteTemp(r)
    BY <1>6, <1>t, WriteTempDoes
  <1>7. CASE SyncTemp(r)
    BY <1>7, <1>t, SyncTempDoes
  <1>8. CASE ChmodTemp(r)
    BY <1>8, <1>t, ChmodTempDoes
  <1>9. CASE Rename(r)
    BY <1>9, <1>u DEF Rename
  <1>10. CASE RemoveTemp(r)
    BY <1>10, <1>u DEF RemoveTemp
  <1>11. CASE OpenTrunc(r)
    <2>1. op[r].kind = "upload"
      BY <1>11 DEF OpenTrunc
    <2>2. ASSUME fd'[r] = target, inodes' \in Seq(Inode),
                 Len(inodes') = Len(inodes), Kept(target),
                 inodes'[target].mode = inodes[target].mode
          PROVE  Moved(r)
      BY <1>a, <2>1, <2>2 DEF Moved, Kept
    <2> QED
      BY <1>11, <1>u, <1>n, <2>2, OpenTruncDoes
  <1>12. CASE CopySome(r)
    <2>1. op[r].kind = "upload" /\ fd'[r] = fd[r]
      BY <1>12 DEF CopySome, Handler
    <2>2. ASSUME inodes' \in Seq(Inode), Len(inodes') = Len(inodes),
                 Kept(fd[r]), inodes'[fd[r]].mode = inodes[fd[r]].mode
          PROVE  Moved(r)
      BY <1>a, <2>1, <2>2 DEF Moved, Kept
    <2> QED
      BY <1>12, <1>u, <2>2, CopySomeDoes
  <1>13. CASE CopyEnd(r)
    BY <1>13, <1>u DEF CopyEnd
  <1> QED
    BY <1>1, <1>2, <1>3, <1>4, <1>5, <1>6, <1>7, <1>8, <1>9, <1>10, <1>11,
       <1>12, <1>13 DEF Acts, Edit, Upload

(* A crash takes data that are not on disk, and nothing else.              *)
CrashKeeps ==
    /\ inodes' \in Seq(Inode) /\ Len(inodes') = Len(inodes)
    /\ \A i \in 1 .. Len(inodes) :
          /\ inodes'[i].mode = inodes[i].mode
          /\ inodes[i].synced => inodes'[i] = inodes[i]

LEMMA CrashDoes ==
    ASSUME TypeOK, Crash
    PROVE  CrashKeeps
  <1>0. TypeParts
    BY Typed
  <1>1. /\ inodes \in Seq(Inode) /\ Len(inodes) \in Nat
        /\ DOMAIN inodes = 1 .. Len(inodes)
        /\ \A i \in 1 .. Len(inodes) : inodes[i] \in Inode
    BY <1>0 DEF TypeParts
  <1>2. PICK gone \in SUBSET {i \in 1 .. Len(inodes) : ~inodes[i].synced} :
           inodes' = [i \in 1 .. Len(inodes) |->
                         IF i \in gone THEN [inodes[i] EXCEPT !.data = <<>>]
                                       ELSE inodes[i]]
    BY <1>1 DEF Crash
  <1>3. <<>> \in Content
    BY DEF Content
  <1>4. ASSUME NEW i \in 1 .. Len(inodes)
        PROVE  /\ inodes'[i] \in Inode
               /\ inodes'[i].mode = inodes[i].mode
               /\ inodes[i].synced => inodes'[i] = inodes[i]
    <2>1. CASE i \in gone
      <3>1. inodes'[i] = [inodes[i] EXCEPT !.data = <<>>] /\ ~inodes[i].synced
        BY <1>2, <2>1
      <3>2. inodes[i] \in Inode
        BY <1>1
      <3> QED
        BY <1>3, <3>1, <3>2 DEF Inode
    <2>2. CASE i \notin gone
      BY <1>1, <1>2, <2>2
    <2> QED
      BY <2>1, <2>2
  <1>5. inodes' \in [1 .. Len(inodes) -> Inode]
    BY <1>2, <1>4
  <1>6. inodes' \in Seq(Inode) /\ Len(inodes') = Len(inodes)
    BY <1>1, <1>5
  <1> QED
    BY <1>4, <1>6 DEF CrashKeeps

---------------------------------------------------------------------------
(* Types.                                                                  *)

LEMMA TypeStep ==
    ASSUME TypeOK, NEW r \in Reqs, Handler(r), Acts(r)
    PROVE  TypeOK'
  <1>0. TypeParts
    BY Typed
  <1>a. /\ op' = op /\ crashes' = crashes
        /\ inodes' \in Seq(Inode)
        /\ Len(inodes') \in Nat /\ Len(inodes') >= Len(inodes)
    BY Frame, InodesMoved DEF Moved
  <1>b. op' \in UNION {[Reqs -> mix] : mix \in Mixes}
    BY <1>a DEF TypeOK
  <1>c. /\ Len(inodes) \in Nat /\ Len(inodes') \in Nat
        /\ Len(inodes') >= Len(inodes)
    BY <1>0, <1>a DEF TypeParts
  <1>d. 0 .. Len(inodes) \subseteq 0 .. Len(inodes')
    BY <1>c
  <1>e. /\ target \in 0 .. Len(inodes')
        /\ temp \in [Reqs -> 0 .. Len(inodes')]
        /\ fd \in [Reqs -> 0 .. Len(inodes')]
        /\ 0 \in 0 .. Len(inodes')
    BY <1>0, <1>c, <1>d DEF TypeParts
  <1>f. MaxFaults \in Nat /\ MaxCrashes \in Nat
    BY Constants
  <1> DEFINE Steps ==
        /\ target' \in 0 .. Len(inodes')
        /\ temp' \in [Reqs -> 0 .. Len(inodes')]
        /\ pc' \in [Reqs -> States]
        /\ fd' \in [Reqs -> 0 .. Len(inodes')]
        /\ pos' \in [Reqs -> Nat]
        /\ buf' \in [Reqs -> Content]
        /\ perm' \in [Reqs -> Modes]
        /\ versions' \subseteq Content
        /\ faults' \in 0 .. MaxFaults
  <1>g. /\ pc \in [Reqs -> States] /\ pos \in [Reqs -> Nat]
        /\ buf \in [Reqs -> Content] /\ perm \in [Reqs -> Modes]
        /\ versions \subseteq Content
        /\ faults \in 0 .. MaxFaults
    BY <1>0 DEF TypeParts
  <1>h. ASSUME NEW n \in 1 .. Len(inodes)
        PROVE  inodes[n].data \in Content /\ inodes[n].mode \in Modes
    <2>1. inodes[n] \in Inode
      BY <1>0 DEF TypeParts
    <2> QED
      BY <2>1 DEF Inode
  <1>p. \A s \in States : Goto(r, s) => pc' \in [Reqs -> States]
    BY <1>g DEF Goto
  <1>q. Fault => faults' \in 0 .. MaxFaults
    BY <1>f, <1>g DEF Fault
  <1>1. ASSUME EditStat(r) PROVE Steps
    <2>1. target # Absent => inodes[target].mode \in Modes
      BY <1>0, <1>h DEF TypeParts, Absent
    <2> QED
      BY <1>1, <1>e, <1>g, <1>p, <2>1 DEF EditStat, States
  <1>2. ASSUME OpenRead(r) PROVE Steps
    BY <1>2, <1>e, <1>g, <1>p, <1>q DEF OpenRead, States
  <1>3. ASSUME ReadSome(r) PROVE Steps
    <2>1. fd[r] \in 1 .. Len(inodes)
      BY <1>0, <1>3 DEF TypeParts, ReadSome, Handler, Opened, Absent
    <2>2. /\ pos[r] \in Nat /\ pos[r] < Len(inodes[fd[r]].data)
          /\ inodes[fd[r]].data \in Content /\ buf[r] \in Content
      BY <1>3, <1>g, <1>h, <2>1 DEF ReadSome
    <2>3. PICK t \in Tokens \cup {Hole} : t = inodes[fd[r]].data[pos[r] + 1]
      BY <2>2 DEF Content
    <2>4. Append(buf[r], t) \in Content
      BY <2>2 DEF Content
    <2>5. buf' \in [Reqs -> Content] /\ pos' \in [Reqs -> Nat]
      <3>1. CASE UNCHANGED <<buf, pos>>
        BY <1>g, <3>1
      <3>2. CASE /\ buf' = [buf EXCEPT ![r] = Append(buf[r], t)]
                 /\ pos' = [pos EXCEPT ![r] = pos[r] + 1]
        BY <1>g, <2>2, <2>4, <3>2
      <3> QED
        BY <1>3, <1>g, <2>3, <3>1, <3>2 DEF ReadSome
    <2>6. pc' \in [Reqs -> States] /\ faults' \in 0 .. MaxFaults
      BY <1>3, <1>g, <1>p, <1>q DEF ReadSome, States
    <2> QED
      BY <1>3, <1>e, <1>g, <2>5, <2>6 DEF ReadSome
  <1>4. ASSUME ReadEnd(r) PROVE Steps
    <2>1. op[r].kind = "edit" => Substitute(op[r], buf[r]) \in Content
      BY <1>g, OpFacts, Substituted
    <2> QED
      BY <1>4, <1>e, <1>g, <1>p, <2>1 DEF ReadEnd, States
  <1>5. ASSUME CreateTemp(r) PROVE Steps
    <2>1. UNCHANGED temp \/ temp' = [temp EXCEPT ![r] = Len(inodes')]
      BY <1>0, <1>5, CreateTempDoes DEF CreateTemp, TypeParts
    <2>2. temp' \in [Reqs -> 0 .. Len(inodes')]
      BY <1>c, <1>e, <2>1
    <2> QED
      BY <1>5, <1>e, <1>g, <1>p, <1>q, <2>2 DEF CreateTemp, States
  <1>6. ASSUME WriteTemp(r) PROVE Steps
    BY <1>6, <1>e, <1>g, <1>p, <1>q DEF WriteTemp, States
  <1>7. ASSUME SyncTemp(r) PROVE Steps
    BY <1>7, <1>e, <1>g, <1>p, <1>q DEF SyncTemp, States
  <1>8. ASSUME ChmodTemp(r) PROVE Steps
    BY <1>8, <1>e, <1>g, <1>p, <1>q DEF ChmodTemp, States
  <1>9. ASSUME Rename(r) PROVE Steps
    <2>1. /\ target' \in 0 .. Len(inodes')
          /\ temp' \in [Reqs -> 0 .. Len(inodes')]
      BY <1>9, <1>e DEF Rename, Absent
    <2>2. versions' \subseteq Content
      BY <1>9, <1>g DEF Rename
    <2>3. pc' \in [Reqs -> States] /\ faults' \in 0 .. MaxFaults
      BY <1>9, <1>g, <1>p, <1>q DEF Rename, States
    <2> QED
      BY <1>9, <1>e, <1>g, <2>1, <2>2, <2>3 DEF Rename
  <1>10. ASSUME RemoveTemp(r) PROVE Steps
    BY <1>10, <1>e, <1>g, <1>p DEF RemoveTemp, States, Absent
  <1>11. ASSUME OpenTrunc(r) PROVE Steps
    <2>1. \/ UNCHANGED <<target, fd>>
          \/ UNCHANGED target /\ fd' = [fd EXCEPT ![r] = target]
          \/ target' = Len(inodes') /\ fd' = [fd EXCEPT ![r] = Len(inodes')]
      BY <1>0, <1>11, OpenTruncDoes DEF OpenTrunc, TypeParts
    <2>2. target' \in 0 .. Len(inodes') /\ fd' \in [Reqs -> 0 .. Len(inodes')]
      BY <1>c, <1>e, <2>1
    <2> QED
      BY <1>11, <1>e, <1>g, <1>p, <1>q, <2>2 DEF OpenTrunc, States
  <1>12. ASSUME CopySome(r) PROVE Steps
    <2>1. pos' \in [Reqs -> Nat]
      BY <1>12, <1>g, CopySomeDoes DEF CopySome
    <2>2. pc' \in [Reqs -> States] /\ faults' \in 0 .. MaxFaults
      BY <1>12, <1>g, <1>p, <1>q DEF CopySome, States
    <2> QED
      BY <1>12, <1>e, <1>g, <2>1, <2>2 DEF CopySome
  <1>13. ASSUME CopyEnd(r) PROVE Steps
    BY <1>13, <1>e, <1>g, <1>p DEF CopyEnd, States
  <1>14. Steps
    BY <1>1, <1>2, <1>3, <1>4, <1>5, <1>6, <1>7, <1>8, <1>9, <1>10, <1>11,
       <1>12, <1>13 DEF Acts, Edit, Upload
  <1>15. crashes' \in 0 .. MaxCrashes
    BY <1>0, <1>a DEF TypeParts
  <1> QED
    BY <1>a, <1>b, <1>14, <1>15 DEF TypeOK, Inode

LEMMA TypeCrash ==
    ASSUME TypeOK, Crash
    PROVE  TypeOK'
  <1>0. TypeParts
    BY Typed
  <1>1. inodes' \in Seq(Inode) /\ Len(inodes') = Len(inodes)
    BY CrashDoes DEF CrashKeeps
  <1>2. UNCHANGED <<op, target, temp, fd, pos, buf, perm, versions, faults>>
    BY DEF Crash
  <1>3. pc' \in [Reqs -> States]
    BY <1>0 DEF TypeParts, Crash, States
  <1>4. crashes' \in 0 .. MaxCrashes
    BY <1>0, Constants DEF TypeParts, Crash
  <1> QED
    BY <1>1, <1>2, <1>3, <1>4 DEF TypeOK, Inode

---------------------------------------------------------------------------
(* How far a handler is, and which inodes have a name.                     *)

LEMMA HandlerStep ==
    ASSUME TypeOK, HandlerInv, NEW r \in Reqs, Acts(r)
    PROVE  HandlerInv'
  <1>0. TypeParts /\ Handler(r)
    BY Typed DEF HandlerInv
  <1>a. UNCHANGED op
    BY Frame
  <1>b. ASSUME NEW s \in Reqs, s # r
        PROVE  Handler(s)'
    <2>1. Handler(s)
      BY DEF HandlerInv
    <2>2. /\ op' = op /\ pc'[s] = pc[s] /\ temp'[s] = temp[s]
          /\ fd'[s] = fd[s] /\ pos'[s] = pos[s] /\ buf'[s] = buf[s]
      BY <1>b, Frame
    <2> QED
      BY <2>1, <2>2 DEF Handler
  <1> USE <1>0, <1>a DEF TypeParts, Handler, Goto, Temporary, Opened, Absent
  <1>1. ASSUME EditStat(r)
         PROVE  Handler(r)'
    <2>1. /\ pc'[r] \in {"failed", "stat"} /\ op[r].kind = "edit"
          /\ temp[r] = 0 /\ fd[r] = 0 /\ pos[r] = 0 /\ buf[r] = <<>>
          /\ UNCHANGED <<op, temp, fd, pos, buf>>
      BY <1>1 DEF EditStat
    <2> QED
      BY <2>1
  <1>2. ASSUME OpenRead(r)
         PROVE  Handler(r)'
    BY <1>2 DEF OpenRead
  <1>3. ASSUME ReadSome(r)
         PROVE  Handler(r)'
    BY <1>3 DEF ReadSome
  <1>4. ASSUME ReadEnd(r)
         PROVE  Handler(r)'
    BY <1>4 DEF ReadEnd
  <1>5. ASSUME CreateTemp(r)
         PROVE  Handler(r)'
    BY <1>5 DEF CreateTemp
  <1>6. ASSUME WriteTemp(r)
         PROVE  Handler(r)'
    BY <1>6 DEF WriteTemp
  <1>7. ASSUME SyncTemp(r)
         PROVE  Handler(r)'
    BY <1>7 DEF SyncTemp
  <1>8. ASSUME ChmodTemp(r)
         PROVE  Handler(r)'
    BY <1>8 DEF ChmodTemp
  <1>9. ASSUME Rename(r)
         PROVE  Handler(r)'
    BY <1>9 DEF Rename
  <1>10. ASSUME RemoveTemp(r)
         PROVE  Handler(r)'
    BY <1>10 DEF RemoveTemp
  <1>11. ASSUME OpenTrunc(r)
         PROVE  Handler(r)'
    BY <1>11 DEF OpenTrunc
  <1>12. ASSUME CopySome(r)
         PROVE  Handler(r)'
    BY <1>12 DEF CopySome
  <1>13. ASSUME CopyEnd(r)
         PROVE  Handler(r)'
    BY <1>13 DEF CopyEnd
  <1>14. Handler(r)'
    BY <1>1, <1>2, <1>3, <1>4, <1>5, <1>6, <1>7, <1>8, <1>9, <1>10, <1>11,
       <1>12, <1>13 DEF Acts, Edit, Upload
  <1> QED
    BY <1>b, <1>14 DEF HandlerInv

(* The six things a step of a handler can do to names and descriptors.     *)
Named(r) ==
    \/ UNCHANGED <<target, temp, fd>>
    \/ /\ UNCHANGED <<target, temp>> /\ temp[r] = Absent
       /\ target # Absent /\ fd'[r] = target
       /\ pc[r] \in {"start", "stat"}
    \/ /\ UNCHANGED temp /\ temp[r] = Absent /\ op[r].kind = "upload"
       /\ target' = Len(inodes) + 1 /\ fd'[r] = Len(inodes) + 1
       /\ inodes'[Len(inodes) + 1].mode = "upload"
    \/ /\ UNCHANGED <<target, fd>> /\ temp[r] = Absent
       /\ temp'[r] = Len(inodes) + 1
    \/ UNCHANGED <<target, fd>> /\ temp'[r] = Absent
    \/ /\ UNCHANGED <<fd, inodes>> /\ pc[r] = "ready" /\ temp[r] # Absent
       /\ target' = temp[r] /\ temp'[r] = Absent
       /\ versions' = versions \cup {buf[r]}

LEMMA NamesMoved ==
    ASSUME TypeOK, NEW r \in Reqs, Handler(r), Acts(r)
    PROVE  Named(r)
  <1>0. TypeParts
    BY Typed
  <1> USE DEF Named
  <1>1. CASE EditStat(r)
    BY <1>1 DEF EditStat
  <1>2. CASE OpenRead(r)
    <2>1. temp[r] = Absent
      BY <1>2 DEF OpenRead, Handler, Temporary
    <2> QED
      BY <1>0, <1>2, <2>1 DEF OpenRead, TypeParts
  <1>3. CASE ReadSome(r)
    BY <1>3 DEF ReadSome
  <1>4. CASE ReadEnd(r)
    BY <1>4 DEF ReadEnd
  <1>5. CASE CreateTemp(r)
    <2>1. temp[r] = Absent /\ UNCHANGED <<target, fd>>
      BY <1>5 DEF CreateTemp, Handler, Temporary
    <2> QED
      BY <1>5, <2>1, CreateTempDoes
  <1>6. CASE WriteTemp(r)
    BY <1>6 DEF WriteTemp
  <1>7. CASE SyncTemp(r)
    BY <1>7 DEF SyncTemp
  <1>8. CASE ChmodTemp(r)
    BY <1>8 DEF ChmodTemp
  <1>9. CASE Rename(r)
    <2>1. temp[r] # Absent
      BY <1>9 DEF Rename, Handler, Temporary
    <2> QED
      BY <1>0, <1>9, <2>1 DEF Rename, TypeParts
  <1>10. CASE RemoveTemp(r)
    BY <1>0, <1>10 DEF RemoveTemp, TypeParts
  <1>11. CASE OpenTrunc(r)
    <2>1. /\ temp[r] = Absent /\ op[r].kind = "upload" /\ UNCHANGED temp
          /\ pc[r] = "start"
      BY <1>11 DEF OpenTrunc, Handler, Temporary
    <2> QED
      BY <1>11, <2>1, OpenTruncDoes
  <1>12. CASE CopySome(r)
    BY <1>12 DEF CopySome
  <1>13. CASE CopyEnd(r)
    BY <1>13 DEF CopyEnd
  <1> QED
    BY <1>1, <1>2, <1>3, <1>4, <1>5, <1>6, <1>7, <1>8, <1>9, <1>10, <1>11,
       <1>12, <1>13 DEF Acts, Edit, Upload

LEMMA TempStep ==
    ASSUME TypeOK, HandlerInv, TempInv, NEW r \in Reqs, Acts(r)
    PROVE  TempInv'
  <1>0. /\ Len(inodes) \in Nat /\ target \in 0 .. Len(inodes)
        /\ \A s \in Reqs : /\ temp[s] \in 0 .. Len(inodes)
                           /\ fd[s] \in 0 .. Len(inodes)
    BY Typed DEF TypeParts
  <1>1. \A s \in Reqs : s # r => temp'[s] = temp[s] /\ fd'[s] = fd[s]
    BY Frame
  <1>2. Named(r)
    BY NamesMoved DEF HandlerInv
  <1>3. \A s \in Reqs : Alone(s)
    BY DEF TempInv
  <1>4. ASSUME NEW s \in Reqs
        PROVE  Alone(s)'
    <2> USE <1>0, <1>1, <1>3 DEF Alone, Absent
    <2>1. CASE UNCHANGED <<target, temp, fd>>
      BY <2>1
    <2>2. CASE /\ UNCHANGED <<target, temp>> /\ temp[r] = Absent
               /\ fd'[r] = target
      BY <2>2
    <2>3. CASE /\ UNCHANGED temp /\ temp[r] = Absent
               /\ target' = Len(inodes) + 1 /\ fd'[r] = Len(inodes) + 1
      BY <2>3
    <2>4. CASE UNCHANGED <<target, fd>> /\ temp'[r] = Len(inodes) + 1
      BY <2>4
    <2>5. CASE UNCHANGED <<target, fd>> /\ temp'[r] = Absent
      BY <2>5
    <2>6. CASE /\ UNCHANGED fd /\ temp[r] # Absent
               /\ target' = temp[r] /\ temp'[r] = Absent
      BY <2>6
    <2> QED
      BY <1>2, <2>1, <2>2, <2>3, <2>4, <2>5, <2>6 DEF Named
  <1> QED
    BY <1>4 DEF TempInv

---------------------------------------------------------------------------
(* What a step does not disturb for the others, and the modes.             *)

LEMMA Undisturbed ==
    ASSUME TypeOK, HandlerInv, TempInv, NEW r \in Reqs, Acts(r),
           NEW s \in Reqs, s # r
    PROVE  /\ temp[s] # Absent => inodes'[temp[s]] = inodes[temp[s]]
           /\ fd[s] # Absent /\ op[r].kind # "upload" =>
                 inodes'[fd[s]] = inodes[fd[s]]
           /\ fd[s] # Absent => inodes'[fd[s]].mode = inodes[fd[s]].mode
  <1>0. /\ Len(inodes) \in Nat
        /\ temp[s] \in 0 .. Len(inodes) /\ fd[s] \in 0 .. Len(inodes)
        /\ temp[r] \in 0 .. Len(inodes)
    BY Typed DEF TypeParts
  <1>1. Moved(r)
    BY InodesMoved DEF HandlerInv
  <1>2. temp[s] # Absent => temp[r] # temp[s] /\ fd'[r] # temp[s]
    <2>1. temp'[s] = temp[s]
      BY Frame
    <2>2. Alone(s) /\ Alone(s)'
      BY TempStep DEF TempInv
    <2> QED
      BY <2>1, <2>2 DEF Alone
  <1>3. fd[s] # Absent => fd[s] # temp[r]
    <2>1. Alone(r)
      BY DEF TempInv
    <2> QED
      BY <2>1 DEF Alone
  <1> QED
    BY <1>0, <1>1, <1>2, <1>3 DEF Moved, Absent

LEMMA ModeStep ==
    ASSUME TypeOK, HandlerInv, TempInv, ModeInv, NEW r \in Reqs, Acts(r)
    PROVE  ModeInv'
  <1>0. TypeParts /\ Handler(r) /\ Alone(r) /\ ModeOf(r)
    BY Typed DEF HandlerInv, TempInv, ModeInv
  <1>1. target' # Absent => inodes'[target'].mode # "private"
    <2>1. Moved(r) /\ Named(r)
      BY <1>0, InodesMoved, NamesMoved
    <2>2. /\ Len(inodes) \in Nat /\ target \in 0 .. Len(inodes)
          /\ temp[r] \in 0 .. Len(inodes)
      BY <1>0 DEF TypeParts
    <2>3. target # Absent =>
             /\ target # temp[r]
             /\ inodes[target].mode # "private"
      BY <1>0 DEF Alone, ModeInv
    <2>4. target # Absent => inodes'[target].mode # "private"
      BY <2>1, <2>2, <2>3 DEF Moved, Absent
    <2>5. CASE UNCHANGED target
      BY <2>4, <2>5
    <2>6. CASE /\ target' = Len(inodes) + 1
               /\ inodes'[Len(inodes) + 1].mode = "upload"
      BY <2>6
    <2>7. CASE UNCHANGED inodes /\ pc[r] = "ready" /\ target' = temp[r]
      BY <1>0, <2>7 DEF ModeOf
    <2> QED
      BY <2>1, <2>5, <2>6, <2>7 DEF Named
  <1>2. ASSUME NEW s \in Reqs, s # r
        PROVE  ModeOf(s)'
    <2>1. /\ op' = op /\ pc'[s] = pc[s] /\ temp'[s] = temp[s]
          /\ perm'[s] = perm[s]
      BY <1>2, Frame
    <2>2. pc[s] = "ready" => temp[s] # Absent
      BY DEF HandlerInv, Handler, Temporary
    <2>3. temp[s] # Absent => inodes'[temp[s]] = inodes[temp[s]]
      BY <1>2, Undisturbed
    <2>4. ModeOf(s)
      BY DEF ModeInv
    <2> QED
      BY <2>1, <2>2, <2>3, <2>4 DEF ModeOf
  <1>3. ModeOf(r)'
    <2>0. /\ perm \in [Reqs -> Modes] /\ pc \in [Reqs -> States]
          /\ op' = op
      BY <1>0, Frame DEF TypeParts
    <2> USE <1>0, <2>0 DEF ModeOf, Goto
    <2>1. CASE EditStat(r)
      BY <2>1 DEF EditStat, ModeInv
    <2>2. CASE OpenRead(r)
      BY <2>2 DEF OpenRead
    <2>3. CASE ReadSome(r)
      BY <2>3 DEF ReadSome
    <2>4. CASE ReadEnd(r)
      BY <2>4 DEF ReadEnd
    <2>5. CASE CreateTemp(r)
      BY <2>5 DEF CreateTemp
    <2>6. CASE WriteTemp(r)
      BY <2>6 DEF WriteTemp
    <2>7. CASE SyncTemp(r)
      BY <2>7 DEF SyncTemp
    <2>8. CASE ChmodTemp(r)
      <3>1. pc[r] = "synced" /\ perm' = perm /\ temp' = temp
        BY <2>8 DEF ChmodTemp
      <3>2. \/ pc'[r] = "ready" /\ inodes'[temp[r]].mode = perm[r]
            \/ pc'[r] = "cleanup"
        BY <2>8, ChmodTempDoes
      <3> QED
        BY <3>1, <3>2
    <2>9. CASE Rename(r)
      BY <2>9 DEF Rename
    <2>10. CASE RemoveTemp(r)
      BY <2>10 DEF RemoveTemp
    <2>11. CASE OpenTrunc(r)
      BY <2>11 DEF OpenTrunc
    <2>12. CASE CopySome(r)
      BY <2>12 DEF CopySome
    <2>13. CASE CopyEnd(r)
      BY <2>13 DEF CopyEnd
    <2> QED
      BY <2>1, <2>2, <2>3, <2>4, <2>5, <2>6, <2>7, <2>8, <2>9, <2>10, <2>11,
         <2>12, <2>13 DEF Acts, Edit, Upload
  <1> QED
    BY <1>1, <1>2, <1>3 DEF ModeInv

---------------------------------------------------------------------------
(* Contents, as long as nobody uploads.                                    *)

LEMMA VersionsGrow ==
    ASSUME NEW r \in Reqs, Acts(r)
    PROVE  versions \subseteq versions'
  BY DEF Acts, Edit, Upload, EditStat, OpenRead, ReadSome, ReadEnd,
     CreateTemp, WriteTemp, SyncTemp, ChmodTemp, Rename, RemoveTemp,
     OpenTrunc, CopySome, CopyEnd

(* Reading one more token makes the prefix read one longer; at the end of  *)
(* the file it is the file.                                                *)
LEMMA ReadOn ==
    ASSUME NEW d \in Content, NEW p \in Nat, p <= Len(d),
           NEW b, b = SubSeq(d, 1, p)
    PROVE  /\ p < Len(d) =>
                 /\ p + 1 <= Len(d)
                 /\ Append(b, d[p + 1]) = SubSeq(d, 1, p + 1)
           /\ p >= Len(d) => b = d
  BY DEF Content

LEMMA DataStep ==
    ASSUME TypeOK, HandlerInv, TempInv, DataInv, NEW r \in Reqs, Acts(r)
    PROVE  DataInv'
  <1>u. UNCHANGED op
    BY Frame
  <1> SUFFICES ASSUME Uploads = {}
               PROVE  /\ target' # Absent => Solid(target)'
                      /\ \A s \in Reqs : DataOf(s)'
    BY <1>u DEF DataInv, Uploads
  <1>0. TypeParts /\ Handler(r) /\ Alone(r) /\ DataOf(r)
    BY Typed DEF HandlerInv, TempInv, DataInv
  <1>a. op[r].kind # "upload"
    BY DEF Uploads
  <1>b. versions \subseteq versions'
    BY VersionsGrow
  <1>c. ASSUME NEW i, i # Absent, Solid(i), inodes'[i] = inodes[i]
        PROVE  Solid(i)'
    BY <1>b, <1>c DEF Solid
  <1>d. /\ Len(inodes) \in Nat /\ target \in 0 .. Len(inodes)
        /\ temp[r] \in 0 .. Len(inodes) /\ fd[r] \in 0 .. Len(inodes)
    BY <1>0 DEF TypeParts
  <1>e. Moved(r) /\ Named(r)
    BY <1>0, InodesMoved, NamesMoved
  <1>f. fd[r] # Absent => inodes'[fd[r]] = inodes[fd[r]]
    BY <1>0, <1>a, <1>d, <1>e DEF Moved, Alone, Absent
  <1>1. target' # Absent => Solid(target)'
    <2>1. target # Absent => inodes'[target] = inodes[target]
      BY <1>0, <1>a, <1>d, <1>e DEF Moved, Alone, Absent
    <2>2. CASE UNCHANGED target
      <3>1. target # Absent => Solid(target)
        BY DEF DataInv
      <3> QED
        BY <1>b, <2>1, <2>2, <3>1 DEF Solid
    <2>3. CASE /\ UNCHANGED inodes /\ pc[r] = "ready" /\ target' = temp[r]
               /\ versions' = versions \cup {buf[r]}
      BY <1>0, <2>3 DEF Solid, DataOf, Editing
    <2> QED
      BY <1>a, <1>e, <2>2, <2>3 DEF Named
  <1>2. ASSUME NEW s \in Reqs, s # r
        PROVE  DataOf(s)'
    <2>1. /\ op' = op /\ pc'[s] = pc[s] /\ temp'[s] = temp[s]
          /\ fd'[s] = fd[s] /\ pos'[s] = pos[s] /\ buf'[s] = buf[s]
      BY <1>2, Frame
    <2>2. /\ temp[s] # Absent => inodes'[temp[s]] = inodes[temp[s]]
          /\ fd[s] # Absent => inodes'[fd[s]] = inodes[fd[s]]
      BY <1>2, <1>a, Undisturbed
    <2>3. /\ pc[s] \in Opened => fd[s] # Absent
          /\ pc[s] \in Temporary => temp[s] # Absent
      BY DEF HandlerInv, Handler
    <2>4. DataOf(s)
      BY DEF DataInv
    <2>5. (fd[s] # Absent => Solid(fd[s]))'
      BY <1>b, <2>1, <2>2, <2>4 DEF DataOf, Solid
    <2>6. Reading(s)'
      BY <2>1, <2>2, <2>3, <2>4 DEF DataOf, Reading, Opened
    <2>7. (op[s].kind = "download" /\ pc[s] = "ok" => buf[s] \in versions)'
      BY <1>b, <2>1, <2>4 DEF DataOf
    <2>8. Editing(s)'
      BY <2>1, <2>2, <2>3, <2>4 DEF DataOf, Editing, Opened, Temporary
    <2> QED
      BY <2>5, <2>6, <2>7, <2>8 DEF DataOf
  <1>3. DataOf(r)'
    <2>0. /\ pc \in [Reqs -> States] /\ fd \in [Reqs -> 0 .. Len(inodes)]
          /\ pos \in [Reqs -> Nat] /\ buf \in [Reqs -> Content]
          /\ temp \in [Reqs -> 0 .. Len(inodes)]
      BY <1>0 DEF TypeParts
    <2>a. (fd'[r] = fd[r] /\ fd[r] # Absent) => Solid(fd[r])'
      BY <1>0, <1>b, <1>f DEF Solid, DataOf
    <2>b. ASSUME UNCHANGED fd, pc'[r] \in {"failed", "stat", "cleanup"}
          PROVE  DataOf(r)'
      BY <1>b, <1>f, <2>a, <2>b DEF DataOf, Reading, Editing, Solid
    <2>c. fd[r] # Absent => inodes[fd[r]].data \in Content
      <3>1. fd[r] # Absent => inodes[fd[r]] \in Inode
        BY <1>0, <1>d DEF TypeParts, Absent
      <3> QED
        BY <3>1 DEF Inode
    <2>1. CASE EditStat(r)
      BY <2>0, <2>1, <2>b DEF EditStat, Goto
    <2>2. CASE OpenRead(r)
      <3>1. CASE target # Absent /\ fd'[r] = target /\ pc'[r] = "reading"
        <4>1. /\ pos'[r] = 0 /\ buf'[r] = <<>>
              /\ UNCHANGED <<inodes, versions>>
          BY <1>0, <2>2 DEF OpenRead, Handler
        <4>2. /\ Solid(target) /\ inodes[target] \in Inode
          BY <1>0, <1>d, <3>1 DEF DataInv, TypeParts, Absent
        <4>3. inodes[target].data \in Content
          BY <4>2 DEF Inode
        <4>4. /\ 0 <= Len(inodes[target].data)
              /\ <<>> = SubSeq(inodes[target].data, 1, 0)
          BY <4>3 DEF Content
        <4> QED
          BY <3>1, <4>1, <4>2, <4>4 DEF DataOf, Solid, Reading, Editing
      <3>2. CASE UNCHANGED fd /\ pc'[r] = "failed"
        BY <2>b, <3>2
      <3> QED
        BY <2>0, <2>2, <3>1, <3>2 DEF OpenRead, Goto
    <2>3. CASE ReadSome(r)
      <3>1. /\ UNCHANGED <<inodes, fd, versions>> /\ fd[r] # Absent
            /\ pc[r] = "reading" /\ pos[r] < Len(inodes[fd[r]].data)
        BY <1>0, <2>3 DEF ReadSome, Handler, Opened
      <3>2. CASE UNCHANGED fd /\ pc'[r] = "failed"
        BY <2>b, <3>2
      <3>3. CASE /\ UNCHANGED pc /\ pos'[r] = pos[r] + 1
                 /\ buf'[r] = Append(buf[r], inodes[fd[r]].data[pos[r] + 1])
        <4>1. PICK d \in Content : d = inodes[fd[r]].data
          BY <2>c, <3>1
        <4>2. /\ pos[r] \in Nat /\ pos[r] <= Len(d)
              /\ buf[r] = SubSeq(d, 1, pos[r])
          BY <1>0, <2>0, <3>1, <4>1 DEF DataOf, Reading
        <4>3. /\ pos[r] + 1 <= Len(d)
              /\ Append(buf[r], d[pos[r] + 1]) = SubSeq(d, 1, pos[r] + 1)
          BY <3>1, <4>1, <4>2, ReadOn
        <4>4. Reading(r)'
          BY <3>1, <3>3, <4>1, <4>3 DEF Reading
        <4>5. Editing(r)'
          BY <3>1, <3>3 DEF Editing
        <4> QED
          BY <2>a, <3>1, <3>3, <4>4, <4>5 DEF DataOf
      <3> QED
        BY <2>0, <2>3, <3>1, <3>2, <3>3 DEF ReadSome, Goto
    <2>4. CASE ReadEnd(r)
      <3>1. /\ UNCHANGED <<op, inodes, fd, versions>> /\ fd[r] # Absent
            /\ pc[r] = "reading" /\ pos[r] >= Len(inodes[fd[r]].data)
        BY <1>0, <2>4 DEF ReadEnd, Handler, Opened
      <3>2. buf[r] = inodes[fd[r]].data
        <4>1. PICK d \in Content : d = inodes[fd[r]].data
          BY <2>c, <3>1
        <4>2. /\ pos[r] \in Nat /\ pos[r] <= Len(d)
              /\ buf[r] = SubSeq(d, 1, pos[r])
          BY <1>0, <2>0, <3>1, <4>1 DEF DataOf, Reading
        <4> QED
          BY <3>1, <4>1, <4>2, ReadOn
      <3>3. CASE op[r].kind = "download" /\ pc'[r] = "ok" /\ UNCHANGED buf
        <4>1. inodes[fd[r]].data \in versions
          BY <1>0, <3>1 DEF DataOf, Solid
        <4> QED
          BY <2>a, <3>1, <3>2, <3>3, <4>1 DEF DataOf, Reading, Editing
      <3>4. CASE UNCHANGED fd /\ pc'[r] = "failed"
        BY <2>b, <3>4
      <3>5. CASE /\ op[r].kind = "edit" /\ Accepts(op[r], buf[r])
                 /\ buf'[r] = Substitute(op[r], buf[r])
                 /\ pc'[r] = "accepted"
        BY <2>a, <3>1, <3>2, <3>5 DEF DataOf, Reading, Editing
      <3> QED
        BY <2>0, <2>4, <3>1, <3>3, <3>4, <3>5 DEF ReadEnd, Goto
    <2>5. CASE CreateTemp(r)
      <3>1. /\ UNCHANGED <<op, fd, buf, versions>> /\ fd[r] # Absent
            /\ pc[r] = "accepted"
        BY <1>0, <2>5 DEF CreateTemp, Handler, Opened
      <3>2. pc'[r] = "temp" => DataOf(r)'
        BY <1>0, <1>f, <2>a, <3>1 DEF DataOf, Reading, Editing
      <3> QED
        BY <2>5, <2>b, <3>1, <3>2, CreateTempDoes
    <2>6. CASE WriteTemp(r)
      <3>1. /\ UNCHANGED <<op, fd, temp, buf, versions>> /\ fd[r] # Absent
            /\ pc[r] = "temp"
        BY <1>0, <2>6 DEF WriteTemp, Handler, Opened, Temporary
      <3>2. pc'[r] = "written" /\ inodes'[temp[r]].data = buf[r]
               => DataOf(r)'
        BY <1>0, <1>f, <2>a, <3>1 DEF DataOf, Reading, Editing
      <3> QED
        BY <1>0, <2>6, <2>b, <3>1, <3>2, WriteTempDoes
    <2>7. CASE SyncTemp(r)
      <3>1. /\ UNCHANGED <<op, fd, temp, buf, versions>> /\ fd[r] # Absent
            /\ pc[r] = "written"
        BY <1>0, <2>7 DEF SyncTemp, Handler, Opened, Temporary
      <3>2. ASSUME pc'[r] = "synced", inodes'[temp[r]].synced,
                   inodes'[temp[r]].data = inodes[temp[r]].data
            PROVE  DataOf(r)'
        <4>1. /\ Accepts(op[r], inodes[fd[r]].data)
              /\ buf[r] = Substitute(op[r], inodes[fd[r]].data)
              /\ inodes[temp[r]].data = buf[r]
          BY <1>0, <3>1 DEF DataOf, Editing
        <4>2. /\ Accepts(op[r], inodes[fd[r]].data)'
              /\ (buf[r] = Substitute(op[r], inodes[fd[r]].data))'
              /\ (inodes[temp[r]].data = buf[r])'
          BY <1>f, <3>1, <3>2, <4>1
        <4>3. inodes[temp[r]].synced'
          BY <3>1, <3>2, Zenon
        <4>4. Editing(r)'
          BY <4>2, <4>3, Zenon DEF Editing
        <4>5. Reading(r)'
          BY <3>2 DEF Reading
        <4> QED
          BY <2>a, <3>1, <3>2, <4>4, <4>5 DEF DataOf
      <3> QED
        BY <1>0, <2>7, <2>b, <3>1, <3>2, SyncTempDoes
    <2>8. CASE ChmodTemp(r)
      <3>1. /\ UNCHANGED <<op, fd, temp, buf, versions>> /\ fd[r] # Absent
            /\ pc[r] = "synced"
        BY <1>0, <2>8 DEF ChmodTemp, Handler, Opened, Temporary
      <3>2. ASSUME pc'[r] = "ready",
                   inodes'[temp[r]].synced = inodes[temp[r]].synced,
                   inodes'[temp[r]].data = inodes[temp[r]].data
            PROVE  DataOf(r)'
        <4>1. /\ Accepts(op[r], inodes[fd[r]].data)
              /\ buf[r] = Substitute(op[r], inodes[fd[r]].data)
              /\ inodes[temp[r]].data = buf[r]
              /\ inodes[temp[r]].synced
          BY <1>0, <3>1 DEF DataOf, Editing
        <4>2. /\ Accepts(op[r], inodes[fd[r]].data)'
              /\ (buf[r] = Substitute(op[r], inodes[fd[r]].data))'
              /\ (inodes[temp[r]].data = buf[r])'
          BY <1>f, <3>1, <3>2, <4>1
        <4>3. inodes[temp[r]].synced'
          BY <3>1, <3>2, <4>1, Zenon
        <4>4. Editing(r)'
          BY <4>2, <4>3, Zenon DEF Editing
        <4>5. Reading(r)'
          BY <3>2 DEF Reading
        <4> QED
          BY <2>a, <3>1, <3>2, <4>4, <4>5 DEF DataOf
      <3> QED
        BY <1>0, <2>8, <2>b, <3>1, <3>2, ChmodTempDoes
    <2>9. CASE Rename(r)
      <3>1. /\ UNCHANGED <<op, fd, inodes>> /\ op[r].kind = "edit"
            /\ pc'[r] = "ok" \/ pc'[r] = "cleanup"
        BY <1>0, <2>0, <2>9 DEF Rename, Handler, Temporary, Goto
      <3> QED
        BY <2>a, <2>b, <3>1 DEF DataOf, Reading, Editing
    <2>10. CASE RemoveTemp(r)
      BY <2>0, <2>10, <2>b DEF RemoveTemp, Goto
    <2>11. CASE Upload(r)
      <3>1. op[r].kind = "upload"
        BY <1>0, <2>11 DEF Upload, OpenTrunc, CopySome, CopyEnd, Handler
      <3> QED
        BY <1>a, <3>1
    <2> QED
      BY <2>1, <2>2, <2>3, <2>4, <2>5, <2>6, <2>7, <2>8, <2>9, <2>10,
         <2>11 DEF Acts, Edit
  <1> QED
    BY <1>1, <1>2, <1>3

---------------------------------------------------------------------------
(* One upload.                                                             *)

Landing(u) ==
    /\ pc[u] = "writing" =>
          /\ pos[u] <= Len(op[u].body)
          /\ inodes[fd[u]].data = SubSeq(op[u].body, 1, pos[u])
    /\ pc[u] = "ok" => fd[u] # Absent /\ inodes[fd[u]].data = op[u].body

LEMMA UploadStep ==
    ASSUME TypeOK, HandlerInv, TempInv, UploadInv, NEW r \in Reqs, Acts(r)
    PROVE  UploadInv'
  <1>u. UNCHANGED <<op, crashes>>
    BY Frame
  <1> SUFFICES ASSUME crashes = 0, NEW u \in Reqs, Uploads = {u}
               PROVE  Landing(u)'
    BY <1>u DEF UploadInv, Uploads, Landing
  <1>0. TypeParts /\ Handler(u) /\ Landing(u)
    BY Typed DEF HandlerInv, UploadInv, Landing
  <1>a. /\ op[u].kind = "upload" /\ op[u].body \in Seq(Tokens)
        /\ \A s \in Reqs : s # u => op[s].kind # "upload"
    BY OpFacts DEF Uploads
  <1>1. CASE r # u
    <2>1. /\ op' = op /\ pc'[u] = pc[u] /\ fd'[u] = fd[u] /\ pos'[u] = pos[u]
      BY <1>1, Frame
    <2>2. fd[u] # Absent => inodes'[fd[u]] = inodes[fd[u]]
      BY <1>1, <1>a, Undisturbed
    <2>3. pc[u] \in {"writing", "ok"} => fd[u] # Absent
      BY <1>0 DEF Handler, Opened, Landing
    <2> QED
      BY <1>0, <2>1, <2>2, <2>3 DEF Landing
  <1>2. CASE r = u
    <2>0. /\ pc \in [Reqs -> States] /\ pos \in [Reqs -> Nat]
          /\ Len(op[u].body) \in Nat
      BY <1>0, <1>a DEF TypeParts
    <2>1. CASE OpenTrunc(u)
      <3>1. pos'[u] = 0
        BY <1>0, <2>1 DEF OpenTrunc, Handler
      <3>2. SubSeq(op[u].body, 1, 0) = <<>>
        BY <1>a
      <3>3. \/ pc'[u] = "failed"
            \/ pc'[u] = "writing" /\ inodes'[fd'[u]].data = <<>>
        BY <2>1, OpenTruncDoes
      <3>4. /\ pos'[u] <= Len(op[u].body)
            /\ SubSeq(op[u].body, 1, pos'[u]) = <<>>
        BY <2>0, <3>1, <3>2
      <3> QED
        BY <1>u, <3>3, <3>4 DEF Landing
    <2>2. CASE CopySome(u)
      <3>1. /\ pc[u] = "writing" /\ pos[u] < Len(op[u].body)
            /\ fd' = fd
        BY <2>2 DEF CopySome
      <3>2. inodes[fd[u]].data = SubSeq(op[u].body, 1, pos[u])
        BY <1>0, <3>1 DEF Landing
      <3>3. WriteAt(inodes[fd[u]].data, pos[u] + 1, op[u].body[pos[u] + 1])
               = SubSeq(op[u].body, 1, pos[u] + 1)
        BY <1>a, <2>0, <3>1, <3>2, WrittenBehind
      <3>4. CASE pc'[u] = "failed"
        BY <3>4 DEF Landing
      <3>5. CASE /\ UNCHANGED pc /\ pos'[u] = pos[u] + 1
                 /\ inodes'[fd[u]].data =
                       WriteAt(inodes[fd[u]].data, pos[u] + 1,
                               op[u].body[pos[u] + 1])
        <4>1. /\ pos'[u] <= Len(op[u].body)
              /\ inodes'[fd[u]].data = SubSeq(op[u].body, 1, pos'[u])
          BY <2>0, <3>1, <3>3, <3>5
        <4> QED
          BY <1>u, <3>1, <3>5, <4>1 DEF Landing
      <3> QED
        BY <1>0, <2>2, <3>4, <3>5, CopySomeDoes
    <2>3. CASE CopyEnd(u)
      <3>1. /\ pc[u] = "writing" /\ pos[u] = Len(op[u].body)
            /\ pc'[u] = "ok" /\ UNCHANGED <<op, inodes, fd>>
        BY <2>0, <2>3 DEF CopyEnd, Goto
      <3>2. inodes[fd[u]].data = op[u].body
        BY <1>0, <1>a, <3>1 DEF Landing
      <3>3. fd[u] # Absent
        BY <1>0, <3>1 DEF Handler, Opened
      <3> QED
        BY <3>1, <3>2, <3>3 DEF Landing
    <2>4. CASE Edit(u)
      BY <1>0, <1>a, <2>4 DEF Handler, Edit, EditStat, OpenRead, ReadSome,
         ReadEnd, CreateTemp, WriteTemp, SyncTemp, ChmodTemp, Rename,
         RemoveTemp, Temporary
    <2> QED
      BY <1>2, <2>1, <2>2, <2>3, <2>4 DEF Acts, Upload
  <1> QED
    BY <1>1, <1>2

---------------------------------------------------------------------------
(* Crashes.                                                                *)

LEMMA CrashStep ==
    ASSUME FileInv, Crash
    PROVE  FileInv'
  <1>0. /\ TypeOK /\ TypeParts
        /\ HandlerInv /\ TempInv /\ ModeInv /\ DataInv
    BY Typed DEF FileInv
  <1>1. TypeOK'
    BY <1>0, TypeCrash
  <1>2. CrashKeeps
    BY <1>0, CrashDoes
  <1>3. /\ UNCHANGED <<op, target, temp, fd, pos, buf, perm, versions>>
        /\ crashes' = crashes + 1
    BY DEF Crash
  <1>4. \A r \in Reqs : \/ pc'[r] = "dead"
                        \/ pc'[r] = pc[r] /\ pc[r] \in Done \cup {"start"}
    BY <1>0 DEF Crash, TypeParts
  <1>5. HandlerInv'
    <2>1. ASSUME NEW r \in Reqs
          PROVE  Handler(r)'
      <3>1. Handler(r)
        BY <1>0 DEF HandlerInv
      <3> QED
        BY <1>3, <1>4, <3>1 DEF Handler, Temporary, Opened, Done
    <2> QED
      BY <2>1 DEF HandlerInv
  <1>6. TempInv'
    BY <1>0, <1>3 DEF TempInv, Alone
  <1>7. /\ Len(inodes) \in Nat /\ target \in 0 .. Len(inodes)
        /\ \A r \in Reqs : fd[r] \in 0 .. Len(inodes)
    BY <1>0 DEF TypeParts
  <1>8. ModeInv'
    <2>1. target' # Absent => inodes'[target'].mode # "private"
      BY <1>0, <1>2, <1>3, <1>7 DEF ModeInv, CrashKeeps, Absent
    <2>2. ASSUME NEW r \in Reqs
          PROVE  ModeOf(r)'
      BY <1>3, <1>4 DEF ModeOf, Done
    <2> QED
      BY <2>1, <2>2 DEF ModeInv
  <1>9. DataInv'
    <2> SUFFICES ASSUME Uploads = {}
                 PROVE  /\ target' # Absent => Solid(target)'
                        /\ \A r \in Reqs : DataOf(r)'
      BY <1>3 DEF DataInv, Uploads
    <2>1. ASSUME NEW i \in 1 .. Len(inodes), Solid(i)
          PROVE  Solid(i)'
      BY <1>2, <1>3, <2>1 DEF CrashKeeps, Solid
    <2>2. target' # Absent => Solid(target)'
      <3>1. target # Absent => target \in 1 .. Len(inodes) /\ Solid(target)
        BY <1>0, <1>7 DEF DataInv, Absent
      <3> QED
        BY <1>3, <2>1, <3>1 DEF Solid
    <2>3. ASSUME NEW r \in Reqs
          PROVE  DataOf(r)'
      <3>1. DataOf(r)
        BY <1>0 DEF DataInv
      <3>2. fd[r] # Absent => fd[r] \in 1 .. Len(inodes) /\ Solid(fd[r])
        BY <1>7, <3>1 DEF DataOf, Absent
      <3>3. (fd[r] # Absent => Solid(fd[r]))'
        BY <1>3, <2>1, <3>2 DEF Solid
      <3>4. Reading(r)' /\ Editing(r)'
        BY <1>4 DEF Reading, Editing, Done
      <3>5. (op[r].kind = "download" /\ pc[r] = "ok" => buf[r] \in versions)'
        BY <1>3, <1>4, <3>1 DEF DataOf
      <3> QED
        BY <3>3, <3>4, <3>5 DEF DataOf
    <2> QED
      BY <2>2, <2>3
  <1>10. UploadInv'
    <2>1. crashes \in Nat
      BY <1>0, Constants DEF TypeParts
    <2> QED
      BY <1>3, <2>1 DEF UploadInv
  <1> QED
    BY <1>1, <1>5, <1>6, <1>8, <1>9, <1>10 DEF FileInv

---------------------------------------------------------------------------
(* The invariant is inductive.                                             *)

LEMMA FirstStates == Init => FileInv
  <1> SUFFICES ASSUME Init
               PROVE  FileInv
    OBVIOUS
  <1>1. PICK x \in Inode : /\ inodes = <<x>> /\ x.data = Initial
                           /\ x.mode = "original" /\ x.synced = TRUE
    <2>1. [data |-> Initial, mode |-> "original", synced |-> TRUE] \in Inode
      BY Constants DEF Inode, Modes
    <2> QED
      BY <2>1 DEF Init
  <1>2. inodes \in Seq(Inode) /\ Len(inodes) = 1 /\ inodes[1] = x
    BY <1>1
  <1>3. /\ target \in {0, 1}
        /\ temp = [r \in Reqs |-> 0] /\ fd = [r \in Reqs |-> 0]
        /\ pc = [r \in Reqs |-> "start"] /\ pos = [r \in Reqs |-> 0]
        /\ buf = [r \in Reqs |-> <<>>] /\ perm = [r \in Reqs |-> "private"]
        /\ faults = 0 /\ crashes = 0
    BY DEF Init, Absent
  <1>4. /\ target # 0 => versions = {Initial}
        /\ versions \subseteq Content
    BY Constants DEF Init, Absent
  <1>5. TypeOK
    <2>1. op \in UNION {[Reqs -> mix] : mix \in Mixes}
      BY DEF Init
    <2>2. <<>> \in Content /\ "start" \in States /\ "private" \in Modes
      BY DEF Content, States, Modes
    <2> QED
      BY <1>2, <1>3, <1>4, <2>1, <2>2, Constants DEF TypeOK, Inode
  <1>6. HandlerInv
    BY <1>3 DEF HandlerInv, Handler, Temporary, Opened, Absent
  <1>7. TempInv
    BY <1>3 DEF TempInv, Alone, Absent
  <1>8. ModeInv
    BY <1>1, <1>2, <1>3 DEF ModeInv, ModeOf, Absent
  <1>9. DataInv
    <2>1. \A r \in Reqs : DataOf(r)
      BY <1>3 DEF DataOf, Reading, Editing, Absent
    <2>2. target # Absent => Solid(target)
      BY <1>1, <1>2, <1>3, <1>4 DEF Solid, Absent
    <2> QED
      BY <2>1, <2>2 DEF DataInv
  <1>10. UploadInv
    BY <1>3 DEF UploadInv
  <1> QED
    BY <1>5, <1>6, <1>7, <1>8, <1>9, <1>10 DEF FileInv

LEMMA NextSteps == FileInv /\ [Next]_vars => FileInv'
  <1> SUFFICES ASSUME FileInv, [Next]_vars
               PROVE  FileInv'
    OBVIOUS
  <1>1. CASE Crash
    BY <1>1, CrashStep
  <1>2. ASSUME NEW r \in Reqs, Acts(r)
        PROVE  FileInv'
    <2>1. /\ TypeOK /\ HandlerInv /\ TempInv /\ ModeInv /\ DataInv
          /\ UploadInv /\ Handler(r)
      BY DEF FileInv, HandlerInv
    <2>2. TypeOK'
      BY <1>2, <2>1, TypeStep
    <2>3. HandlerInv' /\ TempInv' /\ ModeInv'
      BY <1>2, <2>1, HandlerStep, TempStep, ModeStep
    <2>4. DataInv' /\ UploadInv'
      BY <1>2, <2>1, DataStep, UploadStep
    <2> QED
      BY <2>2, <2>3, <2>4 DEF FileInv
  <1>3. CASE UNCHANGED vars
    <2>0. UNCHANGED <<op, inodes, target, temp, pc, fd, pos, buf, perm,
                      versions, faults, crashes>>
      BY <1>3 DEF vars
    <2>1. TypeOK'
      BY <2>0 DEF FileInv, TypeOK
    <2>2. HandlerInv' /\ TempInv'
      BY <2>0 DEF FileInv, HandlerInv, Handler, TempInv, Alone
    <2>3. ModeInv'
      BY <2>0 DEF FileInv, ModeInv, ModeOf
    <2>4. DataInv'
      <3>1. /\ Uploads' = Uploads
            /\ target # Absent => Solid(target)' = Solid(target)
        BY <2>0 DEF Uploads, Solid
      <3>2. ASSUME NEW r \in Reqs, DataOf(r)
            PROVE  DataOf(r)'
        BY <2>0, <3>2 DEF DataOf, Solid, Reading, Editing
      <3> QED
        BY <2>0, <3>1, <3>2 DEF FileInv, DataInv, Solid
    <2>5. UploadInv'
      BY <2>0 DEF FileInv, UploadInv, Uploads
    <2> QED
      BY <2>1, <2>2, <2>3, <2>4, <2>5 DEF FileInv
  <1> QED
    BY <1>1, <1>2, <1>3 DEF Next, Acts

LEMMA Invariant == Spec => []FileInv
  <1>1. Init => FileInv
    BY FirstStates
  <1>2. FileInv /\ [Next]_vars => FileInv'
    BY NextSteps
  <1> QED
    BY <1>1, <1>2, PTL DEF Spec

---------------------------------------------------------------------------
(* What the runs check, for every value of the constants.                  *)

(* Every variable keeps its type, also over crashes.                       *)
THEOREM TypeCorrect == Spec => []TypeOK
  <1>1. FileInv => TypeOK
    BY DEF FileInv
  <1> QED
    BY <1>1, Invariant, PTL

(* An answered request has left no temporary file (edit.go:87-91).         *)
THEOREM TempRemovedHolds == Spec => []TempRemoved
  <1>1. FileInv => TempRemoved
    BY DEF FileInv, HandlerInv, Handler, Temporary, TempRemoved
  <1> QED
    BY <1>1, Invariant, PTL

(* Whatever fails and whenever the machine goes down, the path names a     *)
(* content that an edit committed in full, and never a file with the       *)
(* private mode of a temporary one (edit.go:85-131).                       *)
THEOREM TargetWholeHolds == Spec => []TargetWhole
  <1>1. FileInv => TargetWhole
    BY DEF FileInv, ModeInv, DataInv, Solid, TargetWhole
  <1> QED
    BY <1>1, Invariant, PTL

(* Among edits, a download that succeeds has read one committed content in *)
(* full (edit.go:20-23).                                                   *)
THEOREM ReaderSeesWholeHolds == Spec => []ReaderSeesWhole
  <1>1. FileInv => ReaderSeesWhole
    BY DEF FileInv, DataInv, DataOf, ReaderSeesWhole
  <1> QED
    BY <1>1, Invariant, PTL

(* The one upload among edits has written its body and nothing else into   *)
(* the file it opened (files.go:24-30).                                    *)
THEOREM UploadLandsHolds == Spec => []UploadLands
  <1>1. FileInv => UploadLands
    BY DEF FileInv, UploadInv, UploadLands
  <1> QED
    BY <1>1, Invariant, PTL

---------------------------------------------------------------------------
(* Edits and downloads implement the register.                             *)

Holds == IF target = Absent THEN {} ELSE {inodes[target].data}

Taken == [r \in Reqs |-> IF fd[r] = Absent THEN {} ELSE {inodes[fd[r]].data}]

Finished == {r \in Reqs : pc[r] \in Done}

LEMMA SameText ==
    ASSUME NEW o, NEW c
    PROVE  /\ Accepts(o, c) => Register!Accepts(o, c)
           /\ Register!Substitute(o, c) = Substitute(o, c)
  BY DEF Accepts, Count, Substitute, Register!Accepts, Register!Count,
     Register!Substitute, Register!Cardinality, Cardinality

LEMMA RegisterStarts ==
    ASSUME Init
    PROVE  Register!RegisterInit
  <1>1. /\ target \in {0, 1} /\ inodes[1].data = Initial
        /\ fd = [r \in Reqs |-> 0] /\ pc = [r \in Reqs |-> "start"]
    BY DEF Init, Absent
  <1> QED
    BY <1>1 DEF Register!RegisterInit, Absent, Done

(* A step that moves neither the path nor a descriptor is a stutter of the *)
(* register, or a request leaves it.                                       *)
LEMMA Aside ==
    ASSUME NEW E \in SUBSET (Reqs \ Finished), Finished' = Finished \cup E,
           UNCHANGED <<op, Holds, Taken>>
    PROVE  Register!RegisterNext
  BY DEF Register!RegisterNext, Register!Leave, Holds, Taken, Finished

LEMMA RegisterStep ==
    ASSUME FileInv, Uploads = {}, NEW r \in Reqs, Acts(r)
    PROVE  Register!RegisterNext
  <1>0. /\ TypeOK /\ TypeParts /\ Handler(r) /\ Alone(r) /\ DataOf(r)
        /\ HandlerInv /\ TempInv /\ DataInv
    BY Typed DEF FileInv, HandlerInv, TempInv, DataInv
  <1>1. /\ Len(inodes) \in Nat /\ target \in 0 .. Len(inodes)
        /\ \A s \in Reqs : fd[s] \in 0 .. Len(inodes)
        /\ pc \in [Reqs -> States] /\ fd \in [Reqs -> 0 .. Len(inodes)]
        /\ temp \in [Reqs -> 0 .. Len(inodes)]
    BY <1>0 DEF TypeParts
  <1>2. op[r].kind # "upload" /\ Moved(r)
    BY <1>0, InodesMoved DEF Uploads
  <1>3. /\ op' = op
        /\ \A s \in Reqs : s # r => pc'[s] = pc[s] /\ fd'[s] = fd[s]
    BY <1>0, Frame
  <1>4. ASSUME NEW i \in 1 .. Len(inodes),
               i = target \/ \E s \in Reqs : i = fd[s]
        PROVE  inodes'[i] = inodes[i]
    BY <1>0, <1>1, <1>2, <1>4 DEF Moved, Alone, Absent
  <1>5. UNCHANGED target => Holds' = Holds
    <2>1. target # Absent => inodes'[target] = inodes[target]
      BY <1>1, <1>4 DEF Absent
    <2> QED
      BY <2>1, Zenon DEF Holds
  <1>6. ASSUME NEW s \in Reqs, fd'[s] = fd[s]
        PROVE  Taken'[s] = Taken[s]
    <2>1. fd[s] # Absent => inodes'[fd[s]] = inodes[fd[s]]
      BY <1>1, <1>4 DEF Absent
    <2> QED
      BY <1>6, <2>1, Zenon DEF Taken
  <1>7. pc[r] \notin Done
    BY DEF Done, Acts, Edit, Upload, EditStat, OpenRead, ReadSome, ReadEnd,
       CreateTemp, WriteTemp, SyncTemp, ChmodTemp, Rename, RemoveTemp,
       OpenTrunc, CopySome, CopyEnd
  <1>8. ASSUME UNCHANGED <<target, fd>>
        PROVE  Register!RegisterNext
    <2>1. Holds' = Holds /\ Taken' = Taken
      BY <1>5, <1>6, <1>8 DEF Taken
    <2>2. PICK E \in SUBSET (Reqs \ Finished) : Finished' = Finished \cup E
      <3>1. CASE pc'[r] \in Done
        <4>1. Finished' = Finished \cup {r} /\ r \notin Finished
          BY <1>3, <1>7, <3>1 DEF Finished
        <4> QED
          BY <4>1
      <3>2. CASE pc'[r] \notin Done
        <4>1. Finished' = Finished \cup {}
          BY <1>3, <1>7, <3>2 DEF Finished
        <4> QED
          BY <4>1
      <3> QED
        BY <3>1, <3>2
    <2> QED
      BY <1>3, <2>1, <2>2, Aside
  <1>9. CASE OpenRead(r)
    <2>1. CASE UNCHANGED fd
      BY <1>8, <1>9, <2>1 DEF OpenRead
    <2>2. CASE /\ target # Absent /\ fd' = [fd EXCEPT ![r] = target]
               /\ pc'[r] = "reading"
      <3>1. UNCHANGED <<target, inodes>> /\ fd[r] = Absent
        BY <1>0, <1>9 DEF OpenRead, Handler
      <3>2. r \notin Finished /\ Finished' = Finished
        BY <1>3, <1>7, <2>2 DEF Finished, Done
      <3>3. Taken[r] = {} /\ Taken' = [Taken EXCEPT ![r] = Holds]
        BY <1>1, <2>2, <3>1 DEF Taken, Holds, Absent
      <3>4. Holds' = Holds
        BY <1>5, <3>1
      <3>5. Register!Snap(r)
        BY <1>3, <3>2, <3>3, <3>4 DEF Register!Snap, Taken, Holds, Finished
      <3> QED
        BY <3>5 DEF Register!RegisterNext
    <2> QED
      BY <1>1, <1>9, <2>1, <2>2 DEF OpenRead, Goto
  <1>10. CASE Rename(r)
    <2>1. CASE UNCHANGED target
      BY <1>8, <1>10, <2>1 DEF Rename
    <2>2. CASE target' = temp[r] /\ pc'[r] = "ok"
      <3>1. /\ UNCHANGED <<inodes, fd>> /\ pc[r] = "ready"
            /\ temp[r] # Absent /\ fd[r] # Absent /\ op[r].kind = "edit"
        BY <1>0, <1>10 DEF Rename, Handler, Temporary, Opened
      <3>2. PICK c : c = inodes[fd[r]].data
        OBVIOUS
      <3>3. /\ Accepts(op[r], c)
            /\ inodes[temp[r]].data = Substitute(op[r], c)
        BY <1>0, <3>1, <3>2 DEF DataOf, Editing
      <3>4. Taken[r] = {c} /\ Taken' = Taken
        BY <3>1, <3>2 DEF Taken
      <3>5. Holds' = {Substitute(op[r], c)}
        BY <2>2, <3>1, <3>3 DEF Holds
      <3>6. r \notin Finished /\ Finished' = Finished \cup {r}
        BY <1>3, <1>7, <2>2 DEF Finished, Done
      <3>7. /\ Register!Accepts(op[r], c)
            /\ Register!Substitute(op[r], c) = Substitute(op[r], c)
        BY <3>3, SameText
      <3>8. \E d \in Taken[r] : /\ Register!Accepts(op[r], d)
                                /\ Holds' = {Register!Substitute(op[r], d)}
        BY <3>4, <3>5, <3>7
      <3>9. Register!Swap(r)
        BY <1>3, <3>1, <3>4, <3>6, <3>8 DEF Register!Swap, Taken, Holds,
           Finished
      <3> QED
        BY <3>9 DEF Register!RegisterNext
    <2> QED
      BY <1>1, <1>10, <2>1, <2>2 DEF Rename, Goto
  <1>11. CASE Upload(r)
    BY <1>0, <1>2, <1>11 DEF Upload, OpenTrunc, CopySome, CopyEnd, Handler
  <1>12. CASE EditStat(r) \/ ReadSome(r) \/ ReadEnd(r) \/ RemoveTemp(r)
    BY <1>8, <1>12 DEF EditStat, ReadSome, ReadEnd, RemoveTemp
  <1>13. CASE \/ CreateTemp(r) \/ WriteTemp(r) \/ SyncTemp(r)
              \/ ChmodTemp(r)
    BY <1>8, <1>13 DEF CreateTemp, WriteTemp, SyncTemp, ChmodTemp
  <1> QED
    BY <1>9, <1>10, <1>11, <1>12, <1>13 DEF Acts, Edit

LEMMA RegisterCrash ==
    ASSUME FileInv, Uploads = {}, Crash
    PROVE  Register!RegisterNext
  <1>0. TypeOK /\ TypeParts /\ DataInv
    BY Typed DEF FileInv
  <1>1. /\ UNCHANGED <<op, target, fd>> /\ CrashKeeps
        /\ target \in 0 .. Len(inodes) /\ Len(inodes) \in Nat
        /\ \A r \in Reqs : fd[r] \in 0 .. Len(inodes)
    BY <1>0, CrashDoes DEF Crash, TypeParts
  <1>2. /\ target # Absent => inodes[target].synced
        /\ \A r \in Reqs : fd[r] # Absent => inodes[fd[r]].synced
    BY <1>0 DEF DataInv, DataOf, Solid
  <1>3. Holds' = Holds /\ Taken' = Taken
    <2>1. /\ target # Absent => inodes'[target] = inodes[target]
          /\ \A r \in Reqs : fd[r] # Absent => inodes'[fd[r]] = inodes[fd[r]]
      BY <1>1, <1>2 DEF CrashKeeps, Absent
    <2>2. Holds' = Holds
      BY <1>1, <2>1, Zenon DEF Holds
    <2>3. \A r \in Reqs : Taken'[r] = Taken[r]
      BY <1>1, <2>1, Zenon DEF Taken
    <2> QED
      BY <2>2, <2>3 DEF Taken
  <1>4. PICK E \in SUBSET (Reqs \ Finished) : Finished' = Finished \cup E
    <2>1. Finished \subseteq Finished' /\ Finished' \subseteq Reqs
      BY <1>0 DEF Finished, Crash, TypeParts, Done
    <2>2. /\ Finished' \ Finished \in SUBSET (Reqs \ Finished)
          /\ Finished' = Finished \cup (Finished' \ Finished)
      BY <2>1
    <2> QED
      BY <2>2
  <1> QED
    BY <1>1, <1>3, <1>4, Aside

(* As long as nobody uploads, every step is one of the register's or a     *)
(* stutter: an edit takes effect at its rename, in one step, or not at all *)
(* (edit.go:12-23).                                                        *)
THEOREM RegisterImplemented == Spec => ImplementsRegister
  <1>1. Init => (Uploads = {} => Register!RegisterInit)
    BY RegisterStarts
  <1>2. FileInv /\ [Next]_vars =>
           [Uploads = {} => Register!RegisterNext]_(Register!registerVars)
    <2> SUFFICES ASSUME FileInv, [Next]_vars, Uploads = {}
                 PROVE  \/ Register!RegisterNext
                        \/ UNCHANGED Register!registerVars
      OBVIOUS
    <2>1. CASE Crash
      BY <2>1, RegisterCrash
    <2>2. ASSUME NEW r \in Reqs, Acts(r)
          PROVE  Register!RegisterNext
      BY <2>2, RegisterStep
    <2>3. CASE UNCHANGED vars
      BY <2>3 DEF vars, Register!registerVars
    <2> QED
      BY <2>1, <2>2, <2>3 DEF Next, Acts
  <1> QED
    BY <1>1, <1>2, Invariant, PTL DEF Spec, ImplementsRegister


---------------------------------------------------------------------------
(* Several uploads.                                                        *)

Writers == {r \in Uploads : fd[r] # Absent}

(* A position of the content holds what an upload has there; a hole is     *)
(* ahead of an upload that truncated.                                      *)
Explained(d, i) ==
    IF d[i] = Hole
    THEN \E w \in Writers : pos[w] < i
    ELSE \E w \in Uploads : i <= Len(op[w].body) /\ d[i] = op[w].body[i]

(* Without edits and crashes the uploads have all opened the one file that *)
(* the path names.  Its content is explained everywhere and reaches as far *)
(* as an upload has come: the one that truncated last, or wrote last.      *)
Mixing ==
    /\ \A w \in Writers : fd[w] = target
    /\ \A w \in Uploads :
          pc[w] = "ok" => w \in Writers /\ pos[w] = Len(op[w].body)
    /\ Writers # {} =>
          LET d == inodes[target].data IN
          /\ \A i \in DOMAIN d : Explained(d, i)
          /\ \E w \in Writers : pos[w] <= Len(d)

MixInv == crashes = 0 /\ (\A r \in Reqs : op[r].kind # "edit") => Mixing

(* What a write at the end of one upload's part makes of an explained      *)
(* content.                                                                *)
LEMMA WriteExplains ==
    ASSUME NEW d \in Content, NEW p \in Nat, NEW t, NEW i \in Nat,
           i \in DOMAIN WriteAt(d, p + 1, t)
    PROVE  /\ i = p + 1 => WriteAt(d, p + 1, t)[i] = t
           /\ i # p + 1 /\ i <= Len(d) =>
                 i \in DOMAIN d /\ WriteAt(d, p + 1, t)[i] = d[i]
           /\ i # p + 1 /\ i > Len(d) =>
                 WriteAt(d, p + 1, t)[i] = Hole /\ Len(d) < i /\ i <= p
  <1>1. Len(d) \in Nat /\ DOMAIN d = 1 .. Len(d)
    BY DEF Content
  <1> QED
    BY <1>1 DEF WriteAt

LEMMA WriteLength ==
    ASSUME NEW d \in Content, NEW p \in Nat, NEW t
    PROVE  /\ DOMAIN WriteAt(d, p + 1, t) \subseteq Nat
           /\ Len(WriteAt(d, p + 1, t)) \in Nat
           /\ p + 1 <= Len(WriteAt(d, p + 1, t))
  <1>1. Len(d) \in Nat /\ DOMAIN d = 1 .. Len(d)
    BY DEF Content
  <1> QED
    BY <1>1 DEF WriteAt

(* A download's step, and an upload's that fails or ends, change nothing   *)
(* of this.                                                                *)
LEMMA MixAside ==
    ASSUME Mixing, TypeParts, NEW r \in Reqs,
           UNCHANGED <<op, inodes, target>>,
           \A s \in Reqs : s # r =>
              pc'[s] = pc[s] /\ fd'[s] = fd[s] /\ pos'[s] = pos[s],
           op[r].kind = "upload" =>
              /\ UNCHANGED <<fd, pos>>
              /\ pc'[r] = "ok" =>
                    r \in Writers /\ pos[r] = Len(op[r].body)
    PROVE  Mixing'
  <1>1. Uploads' = Uploads
    BY DEF Uploads
  <1>2. \A w \in Uploads : fd'[w] = fd[w] /\ pos'[w] = pos[w]
    BY DEF Uploads
  <1>3. Writers' = Writers
    BY <1>1, <1>2 DEF Writers
  <1>4. Writers \subseteq Uploads
    BY DEF Writers
  <1>5. \A w \in Writers' : fd'[w] = target'
    BY <1>2, <1>3, <1>4 DEF Mixing
  <1>6. ASSUME NEW w \in Uploads, pc'[w] = "ok"
        PROVE  w \in Writers /\ pos[w] = Len(op[w].body)
    BY <1>6 DEF Mixing, Uploads
  <1>7. ASSUME NEW d, NEW i, Explained(d, i)
        PROVE  Explained(d, i)'
    BY <1>1, <1>2, <1>3, <1>4, <1>7 DEF Explained
  <1> QED
    BY <1>1, <1>2, <1>3, <1>4, <1>5, <1>6, <1>7 DEF Mixing

(* An upload that opens truncates, and so explains everything anew.        *)
LEMMA MixOpen ==
    ASSUME TypeOK, HandlerInv, Mixing, NEW r \in Reqs, OpenTrunc(r)
    PROVE  Mixing'
  <1>0. TypeParts /\ Handler(r)
    BY Typed DEF HandlerInv
  <1>1. /\ pc[r] = "start" /\ r \in Uploads /\ pos[r] = 0 /\ fd[r] = Absent
        /\ UNCHANGED <<op, pos>> /\ pc'[r] # "ok"
        /\ target # Absent => UNCHANGED target
    BY <1>0 DEF OpenTrunc, Handler, Uploads, Goto, TypeParts
  <1>2. \A s \in Reqs : s # r => /\ pc'[s] = pc[s] /\ fd'[s] = fd[s]
                                 /\ pos'[s] = pos[s]
    BY <1>0, Frame DEF Acts, Upload
  <1>3. CASE UNCHANGED <<inodes, target, fd>>
    BY <1>0, <1>1, <1>2, <1>3, MixAside, Zenon
  <1>4. ASSUME fd'[r] = target', target' # Absent,
               inodes'[target'].data = <<>>,
               \A w \in Writers : fd[w] = target'
        PROVE  Mixing'
    <2>1. /\ Uploads' = Uploads /\ Writers \subseteq Uploads
          /\ Writers' = Writers \cup {r} /\ r \notin Writers
      BY <1>1, <1>2, <1>4 DEF Uploads, Writers
    <2>2. \A w \in Writers' : fd'[w] = target'
      BY <1>2, <1>4, <2>1 DEF Uploads
    <2>3. ASSUME NEW w \in Uploads', pc'[w] = "ok"
          PROVE  w \in Writers' /\ pos'[w] = Len(op'[w].body)
      BY <1>1, <1>2, <2>1, <2>3 DEF Mixing, Uploads
    <2>4. r \in Writers' /\ pos'[r] <= Len(inodes'[target'].data)
      BY <1>1, <1>4, <2>1
    <2> QED
      BY <1>4, <2>2, <2>3, <2>4 DEF Mixing
  <1>5. /\ Len(inodes) \in Nat /\ target \in 0 .. Len(inodes)
    BY <1>0 DEF TypeParts
  <1>6. CASE /\ target # Absent /\ fd'[r] = target /\ UNCHANGED target
             /\ inodes'[target].data = <<>>
    BY <1>4, <1>6 DEF Mixing
  <1>7. CASE /\ target' = Len(inodes) + 1 /\ fd'[r] = Len(inodes) + 1
             /\ inodes'[Len(inodes) + 1].data = <<>>
    <2>1. target = Absent /\ target' # Absent
      BY <1>1, <1>5, <1>7 DEF Absent
    <2>2. Writers = {}
      BY <2>1 DEF Mixing, Writers
    <2> QED
      BY <1>4, <1>7, <2>1, <2>2
  <1> QED
    BY <1>0, <1>3, <1>6, <1>7, OpenTruncDoes

(* An upload's write explains its position by itself.  Behind a hole that  *)
(* it leaves is the one that the content has reached.                      *)
LEMMA MixCopy ==
    ASSUME TypeOK, HandlerInv, Mixing, NEW r \in Reqs, CopySome(r)
    PROVE  Mixing'
  <1>0. TypeParts /\ Handler(r)
    BY Typed DEF HandlerInv
  <1>1. /\ pc[r] = "writing" /\ r \in Uploads /\ fd[r] # Absent
        /\ pos[r] < Len(op[r].body)
        /\ UNCHANGED <<op, target, fd>>
    BY <1>0 DEF CopySome, Handler, Uploads, Opened
  <1>2. \A s \in Reqs : s # r => /\ pc'[s] = pc[s] /\ fd'[s] = fd[s]
                                 /\ pos'[s] = pos[s]
    BY <1>0, Frame DEF Acts, Upload
  <1>3. CASE UNCHANGED <<inodes, pos>> /\ pc'[r] = "failed"
    BY <1>0, <1>1, <1>2, <1>3, MixAside, Zenon
  <1>4. CASE /\ UNCHANGED pc /\ pos'[r] = pos[r] + 1
             /\ inodes'[fd[r]].data =
                   WriteAt(inodes[fd[r]].data, pos[r] + 1,
                           op[r].body[pos[r] + 1])
    <2> DEFINE d == inodes[target].data
               e == inodes'[target].data
               t == op[r].body[pos[r] + 1]
    <2>1. /\ Uploads' = Uploads /\ Writers \subseteq Uploads
          /\ Writers' = Writers /\ r \in Writers /\ fd[r] = target
      BY <1>1 DEF Uploads, Writers, Mixing
    <2>2. /\ pos[r] \in Nat /\ Len(op[r].body) \in Nat /\ d \in Content
          /\ t \in Tokens /\ t # Hole
          /\ \A w \in Uploads : pos[w] \in Nat
      <3>1. /\ op[r].body \in Seq(Tokens) /\ pos \in [Reqs -> Nat]
            /\ target \in 1 .. Len(inodes) /\ inodes \in Seq(Inode)
        BY <1>0, <1>1, <2>1, OpFacts DEF Uploads, TypeParts, Absent
      <3>2. t \in Tokens
        BY <1>1, <3>1
      <3> QED
        <4>1. t # Hole
          BY <3>2, FileAssumption
        <4>2. inodes[target] \in Inode
          BY <3>1
        <4>3. d \in Content
          BY <4>2 DEF Inode
        <4> QED
          BY <3>1, <3>2, <4>1, <4>3 DEF Uploads
    <2>3. e = WriteAt(d, pos[r] + 1, t) /\ e = inodes'[target'].data
      BY <1>1, <1>4, <2>1
    <2>4. PICK v \in Writers : pos[v] <= Len(d)
      BY <2>1 DEF Mixing
    <2> HIDE DEF d, e, t
    <2>5. \A w \in Writers : w # r => pos'[w] = pos[w]
      BY <1>2, <2>1 DEF Uploads
    <2>6. ASSUME NEW i \in DOMAIN e
          PROVE  IF e[i] = Hole
                 THEN \E w \in Writers' : pos'[w] < i
                 ELSE \E w \in Uploads' : /\ i <= Len(op'[w].body)
                                          /\ e[i] = op'[w].body[i]
      <3>0. /\ i \in Nat
            /\ i = pos[r] + 1 => e[i] = t
            /\ i # pos[r] + 1 /\ i <= Len(d) => i \in DOMAIN d /\ e[i] = d[i]
            /\ i # pos[r] + 1 /\ i > Len(d) =>
                  e[i] = Hole /\ Len(d) < i /\ i <= pos[r]
        <4>1. i \in Nat
          BY <2>2, <2>3, <2>6, WriteLength
        <4> QED
          BY <2>2, <2>3, <2>6, <4>1, WriteExplains
      <3>1. CASE i = pos[r] + 1
        <4>1. i <= Len(op'[r].body) /\ e[i] = op'[r].body[i] /\ e[i] # Hole
          BY <1>1, <2>2, <3>0, <3>1 DEF t
        <4> QED
          BY <1>1, <2>1, <4>1
      <3>2. CASE i # pos[r] + 1 /\ i <= Len(d)
        <4>1. Explained(d, i) /\ e[i] = d[i]
          BY <2>1, <3>0, <3>2 DEF Mixing, d
        <4>2. CASE e[i] = Hole
          <5>1. PICK w \in Writers : pos[w] < i
            BY <4>1, <4>2 DEF Explained
          <5>2. pos'[w] < i
            BY <1>4, <2>1, <2>2, <2>5, <3>0, <3>2, <5>1
          <5> QED
            BY <2>1, <4>2, <5>1, <5>2
        <4>3. CASE e[i] # Hole
          BY <1>1, <2>1, <4>1, <4>3 DEF Explained
        <4> QED
          BY <4>2, <4>3
      <3>3. CASE i # pos[r] + 1 /\ i > Len(d)
        <4>1. pos[v] < i /\ v # r
          <5>1. Len(d) \in Nat /\ pos[v] \in Nat
            BY <2>1, <2>2 DEF Content
          <5> QED
            BY <2>2, <2>4, <3>0, <3>3, <5>1
        <4> QED
          BY <2>1, <2>4, <2>5, <3>0, <3>3, <4>1
      <3> QED
        <4>1. Len(d) \in Nat
          BY <2>2 DEF Content
        <4> QED
          BY <3>0, <3>1, <3>2, <3>3, <4>1
    <2>7. pos'[r] <= Len(e)
      BY <1>4, <2>2, <2>3, WriteLength
    <2>8. \A w \in Writers' : fd'[w] = target'
      BY <1>1, <2>1 DEF Mixing
    <2>9. ASSUME NEW w \in Uploads', pc'[w] = "ok"
          PROVE  w \in Writers' /\ pos'[w] = Len(op'[w].body)
      BY <1>1, <1>4, <2>1, <2>5, <2>9 DEF Mixing
    <2> QED
      BY <2>1, <2>3, <2>6, <2>7, <2>8, <2>9 DEF Mixing, Explained
  <1> QED
    BY <1>0, <1>3, <1>4, CopySomeDoes

(* Every step of a handler keeps this; edits would need one.               *)
LEMMA MixStep ==
    ASSUME TypeOK, HandlerInv, MixInv, NEW r \in Reqs, Acts(r)
    PROVE  MixInv'
  <1>u. UNCHANGED <<op, crashes>>
    BY Frame
  <1> SUFFICES ASSUME Mixing, \A s \in Reqs : op[s].kind # "edit"
               PROVE  Mixing'
    BY <1>u DEF MixInv
  <1>0. TypeParts /\ Handler(r) /\ op[r].kind # "edit"
    BY Typed DEF HandlerInv
  <1>1. \A s \in Reqs : s # r => /\ pc'[s] = pc[s] /\ fd'[s] = fd[s]
                                 /\ pos'[s] = pos[s]
    BY Frame
  <1>2. CASE OpenRead(r) \/ ReadSome(r) \/ ReadEnd(r)
    <2>1. op[r].kind # "upload" /\ UNCHANGED <<inodes, target>>
      BY <1>0, <1>2 DEF OpenRead, ReadSome, ReadEnd, Handler
    <2> QED
      BY <1>0, <1>1, <1>u, <2>1, MixAside, Zenon
  <1>3. CASE OpenTrunc(r)
    BY <1>3, MixOpen
  <1>4. CASE CopySome(r)
    BY <1>4, MixCopy
  <1>5. CASE CopyEnd(r)
    <2>1. /\ UNCHANGED <<inodes, target, fd, pos>>
          /\ r \in Writers /\ pos[r] = Len(op[r].body)
      BY <1>0, <1>5 DEF CopyEnd, Handler, Opened, Writers, Uploads
    <2> QED
      BY <1>0, <1>1, <1>u, <2>1, MixAside, Zenon
  <1>6. ~(\/ EditStat(r) \/ CreateTemp(r) \/ WriteTemp(r) \/ SyncTemp(r)
          \/ ChmodTemp(r) \/ Rename(r) \/ RemoveTemp(r))
    BY <1>0 DEF EditStat, CreateTemp, WriteTemp, SyncTemp, ChmodTemp, Rename,
       RemoveTemp, Handler, Temporary
  <1> QED
    BY <1>2, <1>3, <1>4, <1>5, <1>6 DEF Acts, Edit, Upload

LEMMA MixInvariant == Spec => []MixInv
  <1>1. Init => MixInv
    <2> SUFFICES ASSUME Init
                 PROVE  Mixing
      BY DEF MixInv
    <2>1. \A r \in Reqs : fd[r] = Absent /\ pc[r] = "start"
      BY DEF Init
    <2> QED
      BY <2>1 DEF Mixing, Writers, Uploads
  <1>2. FileInv /\ MixInv /\ [Next]_vars => MixInv'
    <2> SUFFICES ASSUME FileInv, MixInv, [Next]_vars
                 PROVE  MixInv'
      OBVIOUS
    <2>0. TypeOK /\ HandlerInv /\ TypeParts
      BY Typed DEF FileInv
    <2>1. CASE Crash
      <3>1. crashes' = crashes + 1 /\ crashes \in Nat
        BY <2>0, <2>1, Constants DEF Crash, TypeParts
      <3> QED
        BY <3>1 DEF MixInv
    <2>2. ASSUME NEW r \in Reqs, Acts(r)
          PROVE  MixInv'
      BY <2>0, <2>2, MixStep
    <2>3. CASE UNCHANGED vars
      BY <2>3 DEF vars, MixInv, Mixing, Explained, Writers, Uploads
    <2> QED
      BY <2>1, <2>2, <2>3 DEF Next, Acts
  <1> QED
    BY <1>1, <1>2, Invariant, PTL DEF Spec

(* Uploads of one path at the same time that all succeed leave a file in   *)
(* which every position is one of theirs, or a hole where one of them had  *)
(* nothing, and which is as long as one of them (files.go:24-44).          *)
THEOREM MixedUploadsHolds == Spec => []MixedUploads
  <1>1. FileInv /\ MixInv => MixedUploads
    <2> DEFINE d == inodes[target].data
               At(i) ==
                  IF d[i] = Hole
                  THEN \E r \in Uploads : Len(op[r].body) < i
                  ELSE \E r \in Uploads :
                          i <= Len(op[r].body) /\ d[i] = op[r].body[i]
    <2> SUFFICES ASSUME FileInv, MixInv, Uploads # {}, crashes = 0,
                        \A r \in Reqs : op[r].kind # "edit",
                        \A r \in Uploads : pc[r] = "ok"
                 PROVE  /\ \A i \in DOMAIN d : At(i)
                        /\ \E r \in Uploads : Len(d) >= Len(op[r].body)
      BY DEF MixedUploads
    <2>1. /\ Mixing /\ Writers = Uploads
          /\ \A w \in Uploads : pos[w] = Len(op[w].body)
      BY DEF MixInv, Mixing, Writers
    <2>2. Len(d) \in Nat
      <3>1. target \in 1 .. Len(inodes) /\ inodes \in Seq(Inode)
        BY <2>1, Typed DEF FileInv, TypeParts, Mixing, Writers, Absent
      <3>2. inodes[target] \in Inode
        BY <3>1
      <3> QED
        BY <3>2 DEF Inode, Content
    <2>3. \A w \in Uploads : Len(op[w].body) \in Nat
      BY OpFacts DEF FileInv, Uploads
    <2>4. \E r \in Uploads : Len(d) >= Len(op[r].body)
      BY <2>1, <2>2, <2>3 DEF Mixing
    <2> QED
      BY <2>1, <2>4 DEF Mixing, Explained
  <1> QED
    BY <1>1, Invariant, MixInvariant, PTL
=============================================================================

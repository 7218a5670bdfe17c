----------------------------- MODULE FileOps -----------------------------
(***************************************************************************)
(* The worker's file operations on one path that several requests use at   *)
(* the same time: Edit and atomicWrite (internal/server/edit.go), Upload   *)
(* and Download (internal/server/files.go).  No lock orders them: what one *)
(* sees of another depends on inodes.  An upload truncates and rewrites    *)
(* the inode in place, an edit builds a new inode under a temporary name   *)
(* and renames it over the path, and whoever has the old inode open keeps  *)
(* it.                                                                     *)
(*                                                                         *)
(* The path is given resolved (ResolveFenced runs first in each            *)
(* operation).  A content is a sequence of tokens, copied one token per    *)
(* step as io.Copy and os.ReadFile copy one buffer per system call.        *)
(***************************************************************************)
EXTENDS EditText

CONSTANTS
    Reqs,         \* requests
    Mixes,        \* sets of operations that meet, see OpTypes
    Tokens,       \* what contents are made of
    Initial,      \* the content of the file to begin with
    MaxFaults,    \* bound on failing system calls and failing bodies
    MaxCrashes

Hole == "hole"            \* zero bytes of a sparse region
Absent == 0               \* a directory entry that is not there

OpTypes ==
    [kind: {"edit"}, old: Tokens \cup {""}, new: Tokens, all: BOOLEAN]
      \cup [kind: {"upload"}, body: Seq(Tokens)]
      \cup [kind: {"download"}]

ASSUME FileAssumption ==
    /\ Hole \notin Tokens
    /\ Initial \in Seq(Tokens)
    /\ \A mix \in Mixes : mix \subseteq OpTypes
    /\ MaxFaults \in Nat /\ MaxCrashes \in Nat

Content == Seq(Tokens \cup {Hole})

Modes == {"original", "upload", "private"}   \* private: CreateTemp's 0600

VARIABLES
    op,        \* what each request asks for
    inodes,    \* every inode created so far: data, mode, synced to disk
    target,    \* the inode the path names, or Absent
    temp,      \* the inode each request's temporary name is for, or Absent
    pc,        \* where each request's handler is
    fd,        \* the inode each handler has opened at the path
    pos,       \* its offset
    buf,       \* what it has read, or for an edit is going to write
    perm,      \* the mode an edit took from Stat
    versions,  \* the contents the path was given by the initial state and
               \* by edits
    faults, crashes

vars == <<op, inodes, target, temp, pc, fd, pos, buf, perm, versions,
          faults, crashes>>

States == {"start", "stat", "reading", "writing", "accepted", "temp",
           "written", "synced", "ready", "cleanup",
           "ok", "failed", "dead"}

Done == {"ok", "failed", "dead"}

TypeOK ==
    /\ op \in UNION {[Reqs -> mix] : mix \in Mixes}
    /\ inodes \in Seq([data: Content, mode: Modes, synced: BOOLEAN])
    /\ target \in 0 .. Len(inodes)
    /\ temp \in [Reqs -> 0 .. Len(inodes)]
    /\ pc \in [Reqs -> States]
    /\ fd \in [Reqs -> 0 .. Len(inodes)]
    /\ pos \in [Reqs -> Nat]
    /\ buf \in [Reqs -> Content]
    /\ perm \in [Reqs -> Modes]
    /\ versions \subseteq Content
    /\ faults \in 0 .. MaxFaults
    /\ crashes \in 0 .. MaxCrashes

Init ==
    /\ \E mix \in Mixes : op \in [Reqs -> mix]
    /\ inodes = <<[data |-> Initial, mode |-> "original", synced |-> TRUE]>>
    /\ target \in {Absent, 1}
    /\ temp = [r \in Reqs |-> Absent]
    /\ pc = [r \in Reqs |-> "start"]
    /\ fd = [r \in Reqs |-> Absent]
    /\ pos = [r \in Reqs |-> 0]
    /\ buf = [r \in Reqs |-> <<>>]
    /\ perm = [r \in Reqs |-> "private"]
    /\ versions = IF target = Absent THEN {} ELSE {Initial}
    /\ faults = 0
    /\ crashes = 0

---------------------------------------------------------------------------

(* write(2) at offset p; what lies between the end of d and p is a hole.   *)
WriteAt(d, p, t) ==
    [i \in 1 .. (IF p > Len(d) THEN p ELSE Len(d)) |->
        IF i = p THEN t ELSE IF i <= Len(d) THEN d[i] ELSE Hole]

Goto(r, s) == pc' = [pc EXCEPT ![r] = s]

Fault == faults < MaxFaults /\ faults' = faults + 1

---------------------------------------------------------------------------
(* Reading: Download's io.Copy and Edit's os.ReadFile.                     *)

(* Edit looks at its arguments and stats the path before it opens it.      *)
EditStat(r) ==
    /\ pc[r] = "start" /\ op[r].kind = "edit"
    /\ IF op[r].old = "" \/ target = Absent
       THEN Goto(r, "failed") /\ UNCHANGED perm
       ELSE Goto(r, "stat") /\ perm' = [perm EXCEPT ![r] = inodes[target].mode]
    /\ UNCHANGED <<op, inodes, target, temp, fd, pos, buf, versions, faults,
                   crashes>>

OpenRead(r) ==
    /\ \/ pc[r] = "start" /\ op[r].kind = "download"
       \/ pc[r] = "stat"
    /\ \/ /\ target # Absent
          /\ fd' = [fd EXCEPT ![r] = target]
          /\ Goto(r, "reading")
          /\ UNCHANGED faults
       \/ target = Absent /\ Goto(r, "failed") /\ UNCHANGED <<fd, faults>>
       \/ target # Absent /\ Fault /\ Goto(r, "failed") /\ UNCHANGED fd
    /\ UNCHANGED <<op, inodes, target, temp, pos, buf, perm, versions,
                   crashes>>

ReadSome(r) ==
    /\ pc[r] = "reading"
    /\ pos[r] < Len(inodes[fd[r]].data)
    /\ \/ /\ buf' = [buf EXCEPT ![r] = Append(@, inodes[fd[r]].data[pos[r] + 1])]
          /\ pos' = [pos EXCEPT ![r] = @ + 1]
          /\ UNCHANGED <<pc, faults>>
       \/ Fault /\ Goto(r, "failed") /\ UNCHANGED <<buf, pos>>
    /\ UNCHANGED <<op, inodes, target, temp, fd, perm, versions, crashes>>

(* Variant: an ambiguous match is not refused.                             *)
ReadEndAnyMatch(r) ==
    /\ pc[r] = "reading"
    /\ pos[r] >= Len(inodes[fd[r]].data)
    /\ \/ op[r].kind = "download" /\ Goto(r, "ok") /\ UNCHANGED buf
       \/ /\ op[r].kind = "edit" /\ Count(buf[r], op[r].old) = 0
          /\ Goto(r, "failed") /\ UNCHANGED buf
       \/ /\ op[r].kind = "edit" /\ Count(buf[r], op[r].old) # 0
          /\ buf' = [buf EXCEPT ![r] = Substitute(op[r], @)]
          /\ Goto(r, "accepted")
    /\ UNCHANGED <<op, inodes, target, temp, fd, pos, perm, versions, faults,
                   crashes>>

(* End of file: a download is complete; an edit counts the matches in what *)
(* it has read, and refuses or computes the new content.                   *)
ReadEnd(r) ==
    /\ pc[r] = "reading"
    /\ pos[r] >= Len(inodes[fd[r]].data)
    /\ \/ op[r].kind = "download" /\ Goto(r, "ok") /\ UNCHANGED buf
       \/ /\ op[r].kind = "edit" /\ ~Accepts(op[r], buf[r])
          /\ Goto(r, "failed") /\ UNCHANGED buf
       \/ /\ op[r].kind = "edit" /\ Accepts(op[r], buf[r])
          /\ buf' = [buf EXCEPT ![r] = Substitute(op[r], @)]
          /\ Goto(r, "accepted")
    /\ UNCHANGED <<op, inodes, target, temp, fd, pos, perm, versions, faults,
                   crashes>>

---------------------------------------------------------------------------
(* atomicWrite.  Any failure after CreateTemp goes through the deferred    *)
(* os.Remove of the temporary name.                                        *)

NewInode(r, d, m) ==
    inodes' = Append(inodes, [data |-> d, mode |-> m, synced |-> FALSE])

(* Variant: the file itself is truncated and rewritten.                    *)
CreateTempInPlace(r) ==
    /\ pc[r] = "accepted"
    /\ inodes' = [inodes EXCEPT ![target].data = <<>>]
    /\ temp' = [temp EXCEPT ![r] = target]
    /\ Goto(r, "temp")
    /\ UNCHANGED <<op, target, fd, pos, buf, perm, versions, faults, crashes>>

CreateTemp(r) ==
    /\ pc[r] = "accepted"
    /\ \/ /\ NewInode(r, <<>>, "private")
          /\ temp' = [temp EXCEPT ![r] = Len(inodes) + 1]
          /\ Goto(r, "temp")
          /\ UNCHANGED faults
       \/ Fault /\ Goto(r, "failed") /\ UNCHANGED <<inodes, temp>>
    /\ UNCHANGED <<op, target, fd, pos, buf, perm, versions, crashes>>

(* Variant: no tmp.Sync before the rename.                                 *)
WriteTempNoSync(r) ==
    /\ pc[r] = "temp"
    /\ inodes' = [inodes EXCEPT ![temp[r]].data = buf[r]]
    /\ Goto(r, "synced")
    /\ UNCHANGED <<op, target, temp, fd, pos, buf, perm, versions, faults,
                   crashes>>

(* tmp.Write of the whole content, or of a prefix when it fails.           *)
WriteTemp(r) ==
    /\ pc[r] = "temp"
    /\ \/ /\ inodes' = [inodes EXCEPT ![temp[r]].data = buf[r]]
          /\ Goto(r, "written")
          /\ UNCHANGED faults
       \/ /\ Fault
          /\ \E n \in 0 .. Len(buf[r]) - 1 :
                inodes' = [inodes EXCEPT ![temp[r]].data = SubSeq(buf[r], 1, n)]
          /\ Goto(r, "cleanup")
    /\ UNCHANGED <<op, target, temp, fd, pos, buf, perm, versions, crashes>>

SyncTemp(r) ==
    /\ pc[r] = "written"
    /\ \/ /\ inodes' = [inodes EXCEPT ![temp[r]].synced = TRUE]
          /\ Goto(r, "synced")
          /\ UNCHANGED faults
       \/ Fault /\ Goto(r, "cleanup") /\ UNCHANGED inodes
    /\ UNCHANGED <<op, target, temp, fd, pos, buf, perm, versions, crashes>>

(* Variant: a failing chmod returns past the deferred remove.              *)
ChmodTempLeaks(r) ==
    /\ pc[r] = "synced"
    /\ \/ /\ inodes' = [inodes EXCEPT ![temp[r]].mode = perm[r]]
          /\ Goto(r, "ready")
          /\ UNCHANGED faults
       \/ Fault /\ Goto(r, "failed") /\ UNCHANGED inodes
    /\ UNCHANGED <<op, target, temp, fd, pos, buf, perm, versions, crashes>>

ChmodTemp(r) ==
    /\ pc[r] = "synced"
    /\ \/ /\ inodes' = [inodes EXCEPT ![temp[r]].mode = perm[r]]
          /\ Goto(r, "ready")
          /\ UNCHANGED faults
       \/ Fault /\ Goto(r, "cleanup") /\ UNCHANGED inodes
    /\ UNCHANGED <<op, target, temp, fd, pos, buf, perm, versions, crashes>>

Rename(r) ==
    /\ pc[r] = "ready"
    /\ \/ /\ target' = temp[r]
          /\ temp' = [temp EXCEPT ![r] = Absent]
          /\ versions' = versions \cup {buf[r]}
          /\ Goto(r, "ok")
          /\ UNCHANGED faults
       \/ Fault /\ Goto(r, "cleanup") /\ UNCHANGED <<target, temp, versions>>
    /\ UNCHANGED <<op, inodes, fd, pos, buf, perm, crashes>>

RemoveTemp(r) ==
    /\ pc[r] = "cleanup"
    /\ temp' = [temp EXCEPT ![r] = Absent]
    /\ Goto(r, "failed")
    /\ UNCHANGED <<op, inodes, target, fd, pos, buf, perm, versions, faults,
                   crashes>>

---------------------------------------------------------------------------
(* Upload: O_CREATE|O_TRUNC, then io.Copy from the request body.           *)

(* Variant: opened without O_TRUNC.                                        *)
OpenNoTrunc(r) ==
    /\ pc[r] = "start" /\ op[r].kind = "upload" /\ target # Absent
    /\ fd' = [fd EXCEPT ![r] = target]
    /\ Goto(r, "writing")
    /\ UNCHANGED <<op, inodes, target, temp, pos, buf, perm, versions,
                   faults, crashes>>

OpenTrunc(r) ==
    /\ pc[r] = "start" /\ op[r].kind = "upload"
    /\ \/ /\ target # Absent
          /\ inodes' = [inodes EXCEPT ![target].data = <<>>,
                                      ![target].synced = FALSE]
          /\ fd' = [fd EXCEPT ![r] = target]
          /\ Goto(r, "writing")
          /\ UNCHANGED <<target, faults>>
       \/ /\ target = Absent
          /\ NewInode(r, <<>>, "upload")
          /\ target' = Len(inodes) + 1
          /\ fd' = [fd EXCEPT ![r] = Len(inodes) + 1]
          /\ Goto(r, "writing")
          /\ UNCHANGED faults
       \/ Fault /\ Goto(r, "failed") /\ UNCHANGED <<inodes, target, fd>>
    /\ UNCHANGED <<op, temp, pos, buf, perm, versions, crashes>>

(* Variant: opened with O_APPEND.                                          *)
CopyAppending(r) ==
    /\ pc[r] = "writing"
    /\ pos[r] < Len(op[r].body)
    /\ inodes' = [inodes EXCEPT ![fd[r]].data =
                      Append(@, op[r].body[pos[r] + 1])]
    /\ pos' = [pos EXCEPT ![r] = @ + 1]
    /\ UNCHANGED <<op, target, temp, pc, fd, buf, perm, versions, faults,
                   crashes>>

(* The next part of the body, unless the body ends early (the client is    *)
(* gone, or MaxBytesReader cuts it) or the disk is full.                   *)
CopySome(r) ==
    /\ pc[r] = "writing"
    /\ pos[r] < Len(op[r].body)
    /\ \/ /\ inodes' = [inodes EXCEPT ![fd[r]].data =
                            WriteAt(@, pos[r] + 1, op[r].body[pos[r] + 1])]
          /\ pos' = [pos EXCEPT ![r] = @ + 1]
          /\ UNCHANGED <<pc, faults>>
       \/ Fault /\ Goto(r, "failed") /\ UNCHANGED <<inodes, pos>>
    /\ UNCHANGED <<op, target, temp, fd, buf, perm, versions, crashes>>

CopyEnd(r) ==
    /\ pc[r] = "writing"
    /\ pos[r] = Len(op[r].body)
    /\ Goto(r, "ok")
    /\ UNCHANGED <<op, inodes, target, temp, fd, pos, buf, perm, versions,
                   faults, crashes>>

---------------------------------------------------------------------------

(* The process dies, or the machine loses power: then any data that was    *)
(* not synced may be gone.  Temporary names stay.  Requests that have not  *)
(* started are served by the restarted worker.                             *)
Crash ==
    /\ crashes < MaxCrashes
    /\ crashes' = crashes + 1
    /\ \E gone \in SUBSET {i \in DOMAIN inodes : ~inodes[i].synced} :
          inodes' = [i \in DOMAIN inodes |->
                        IF i \in gone THEN [inodes[i] EXCEPT !.data = <<>>]
                                      ELSE inodes[i]]
    /\ pc' = [r \in Reqs |-> IF pc[r] \in Done \cup {"start"}
                             THEN pc[r] ELSE "dead"]
    /\ UNCHANGED <<op, target, temp, fd, pos, buf, perm, versions, faults>>

Edit(r) ==
    \/ EditStat(r) \/ OpenRead(r) \/ ReadSome(r) \/ ReadEnd(r)
    \/ CreateTemp(r) \/ WriteTemp(r) \/ SyncTemp(r) \/ ChmodTemp(r)
    \/ Rename(r) \/ RemoveTemp(r)

Upload(r) == OpenTrunc(r) \/ CopySome(r) \/ CopyEnd(r)

Next == Crash \/ \E r \in Reqs : Edit(r) \/ Upload(r)

Spec == Init /\ [][Next]_vars

---------------------------------------------------------------------------
(* Properties.                                                             *)

Uploads == {r \in Reqs : op[r].kind = "upload"}

(* edit.go:20-23, "a reader never sees a half-written file": what a        *)
(* download that succeeded got is in full one of the contents edits        *)
(* committed, however its reads fall between the steps of the edits.       *)
ReaderSeesWhole ==
    Uploads = {} =>
        \A r \in Reqs : (op[r].kind = "download" /\ pc[r] = "ok") =>
            buf[r] \in versions

(* What the path names is always one committed content in full, through    *)
(* failing system calls and after a crash or power loss at any point       *)
(* (atomicWrite syncs before it renames), and never under the private mode *)
(* of a temporary file, also when an upload creates it meanwhile           *)
(* (edit.go:97-107).                                                       *)
TargetWhole ==
    target # Absent =>
        /\ Uploads = {} => inodes[target].data \in versions
        /\ inodes[target].mode # "private"

(* A handler that came to its end left no temporary file behind, whichever *)
(* system call failed (edit.go:87-91).  One that the crash of its worker   *)
(* ended may have, and nothing removes that file later.                    *)
TempRemoved ==
    \A r \in Reqs : pc[r] \in {"ok", "failed"} => temp[r] = Absent

(* An upload that reports success has written its body and nothing else    *)
(* into the file it opened, as long as no other upload and no crash came   *)
(* between; edits of the path never mix into it (files.go:24-30).  An edit *)
(* may have taken the path away from that file, and what the upload was    *)
(* told is written is gone then: the code does not prevent that.           *)
UploadLands ==
    crashes = 0 =>
        \A r \in Reqs : (Uploads = {r} /\ pc[r] = "ok") =>
            inodes[fd[r]].data = op[r].body

(* Uploads of one path at the same time may all succeed and mix.  Then     *)
(* every position of the file holds what one of them has there, or a hole  *)
(* where one of them has no more to write, and the file is at least as     *)
(* long as one of them (files.go:24-30).                                   *)
MixedUploads ==
    (/\ Uploads # {} /\ crashes = 0
     /\ \A r \in Reqs : op[r].kind # "edit"
     /\ \A r \in Uploads : pc[r] = "ok") =>
        LET d == inodes[target].data IN
        /\ \A i \in DOMAIN d :
              IF d[i] = Hole
              THEN \E r \in Uploads : Len(op[r].body) < i
              ELSE \E r \in Uploads :
                      i <= Len(op[r].body) /\ d[i] = op[r].body[i]
        /\ \E r \in Uploads : Len(d) >= Len(op[r].body)

(* docs/commands.md:56 says write is atomic: a reader gets the content     *)
(* from before or from after it, nothing in between.                       *)
WriteIsAtomic ==
    \A r \in Reqs : (op[r].kind = "download" /\ pc[r] = "ok") =>
        buf[r] \in {Initial} \cup {op[u].body : u \in Uploads}

(* With edits and downloads only, the inodes, temporary files, partial     *)
(* reads, failures and crashes amount to the abstract register.            *)
Register == INSTANCE EditRegister
    WITH Editors <- Reqs,
         Contents <- {{}, {Initial}},
         content <- IF target = Absent THEN {} ELSE {inodes[target].data},
         snapshot <- [r \in Reqs |-> IF fd[r] = Absent THEN {}
                                     ELSE {inodes[fd[r]].data}],
         finished <- {r \in Reqs : pc[r] \in Done}

(* As long as nobody uploads, an edit is one atomic replacement of the     *)
(* whole content by its substitution in one whole earlier content, or      *)
(* nothing (edit.go:12-23).                                                *)
ImplementsRegister ==
    /\ Uploads = {} => Register!RegisterInit
    /\ [][Uploads = {} => Register!RegisterNext]_(Register!registerVars)
===========================================================================

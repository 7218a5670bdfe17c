------------------------------- MODULE Fence -------------------------------
(***************************************************************************)
(* The path fence of the file verbs (internal/server/fence.go,             *)
(* ResolveFenced) and the operation that opens the path it returns         *)
(* (files.go, edit.go), on a Unix tree that commands and other requests    *)
(* change at the same time: every look at the tree is a step of its own.   *)
(*                                                                         *)
(* A path is the sequence of its names, Up stands for "..".  The system's  *)
(* path walk and filepath.EvalSymlinks are the environment; a call of      *)
(* either is one step.                                                     *)
(***************************************************************************)
EXTENDS Integers, Sequences, SequencesExt

CONSTANTS
    Names,        \* names of directory entries
    Places,       \* the paths that may hold something: elsewhere nothing can
                  \* be created
    Trees,        \* what the tree may be when the request arrives
    Requests,     \* the paths clients send, see RawPath
    Fences,       \* --fence: absolute paths, or NoFence
    NoFence,
    Edits,        \* changes others may make: a place and its new entry
    MaxHops,      \* maxSymlinkHops
    KernelHops,   \* links the system follows in one path (40 on Linux)
    EvalHops,     \* links EvalSymlinks follows in one path (255)
    Temp,         \* the name os.CreateTemp makes up
    MaxChanges    \* bound on changes

Up == ".."
Path == Seq(Names)
Text == Seq(Names \cup {Up})
RawPath == [abs: BOOLEAN, to: Text]

\* what links say: ".." only in front
LinkText ==
    {p \in Text :
        \A i \in 2 .. Len(p) : p[i] = Up => p[i - 1] = Up}

Entry == [kind: {"absent", "file", "dir"}]
           \cup [kind: {"link"}, abs: BOOLEAN, to: LinkText]

Absent == [kind |-> "absent"]
File == [kind |-> "file"]
Dir == [kind |-> "dir"]

(* The root is a directory and what has entries is one.                    *)
IsTree(t) ==
    /\ t[<<>>] = Dir
    /\ \A p \in Places \ {<<>>} : t[p] # Absent => t[Front(p)] = Dir

ASSUME FenceAssumption ==
    /\ Up \notin Names
    /\ Places \subseteq Path /\ <<>> \in Places
    /\ \A p \in Places \ {<<>>} : Front(p) \in Places
    /\ Trees \subseteq [Places -> Entry] /\ \A t \in Trees : IsTree(t)
    /\ Requests \subseteq RawPath
    /\ Fences \subseteq Path \cup {NoFence}
    /\ Edits \subseteq (Places \ {<<>>}) \X Entry
    /\ MaxHops \in Nat /\ MaxChanges \in Nat
    /\ KernelHops \in Nat /\ EvalHops \in Nat /\ KernelHops <= EvalHops
    /\ Temp \in Names

VARIABLES
    tree,       \* the file system
    fence,      \* Handler.Fence
    request,    \* the path the client sent
    pc,         \* where ResolveFenced or the operation is
    clean, hops, suffix, real,    \* its variables
    limit,      \* rfence, the fence with its links resolved
    refusal,    \* why it returned an error
    goal,       \* where the client's path, cleaned, led when it arrived
    skewed,     \* a relative link was read through another link
    blind,      \* of the system and EvalSymlinks, one ran out of links where
                \* the other did not
    disturbed,  \* others changed the tree between the look at the leaf and
                \* the check
    changed,    \* the places others changed since the check
    changes,    \* how many changes there have been
    touched     \* what the operation has read or written

vars == <<tree, fence, request, pc, clean, hops, suffix, real, limit, refusal,
          goal, skewed, blind, disturbed, changed, changes, touched>>

resolved == <<clean, hops, suffix, real, limit, skewed, blind>>
given == <<fence, request, goal>>
others == <<disturbed, changed, changes>>

Opening == {"accepted", "stated", "read", "temp", "moded", "cleanup"}

States ==
    {"new", "leaf", "link", "eval", "climb", "check", "done", "failed",
     "refused"} \cup Opening

Refusals == {"none", "relative", "hops", "readlink", "fence", "outside"}

TypeOK ==
    /\ tree \in [Places -> Entry] /\ IsTree(tree)
    /\ fence \in Fences /\ request \in Requests
    /\ pc \in States
    /\ clean \in Path /\ suffix \in Path /\ real \in Path /\ limit \in Path
    /\ hops \in 0 .. MaxHops + 1
    /\ refusal \in Refusals
    /\ goal \in [st: {"found", "missing", "loop", "error"}, at: Path]
    /\ skewed \in BOOLEAN /\ blind \in BOOLEAN
    /\ disturbed \in BOOLEAN /\ changed \subseteq Places
    /\ changes \in 0 .. MaxChanges
    /\ touched \subseteq Places

---------------------------------------------------------------------------
(* Paths.                                                                  *)

At(t, p) == IF p \in Places THEN t[p] ELSE Absent

Parent(p) == IF p = <<>> THEN p ELSE Front(p)

(* filepath.Clean of an absolute path, by the text of the path alone.      *)
CleanOne(c) ==
    LET n == Head(c.todo) IN
    [at |-> IF n = Up THEN Parent(c.at) ELSE Append(c.at, n),
     todo |-> Tail(c.todo)]

Clean(p) ==
    LET cleaned[c \in [at: Path, todo: Text]] ==
          IF c.todo = <<>> THEN c.at ELSE cleaned[CleanOne(c)]
    IN  cleaned[[at |-> <<>>, todo |-> p]]

Result(st, at) == [st |-> st, at |-> at]

(* The path walk, following as many links as it is allowed to: the place   *)
(* p leads to; or the place where a file of that name could be created; or *)
(* that it ran out of links; or another error.                             *)
Walks == [at: Path, todo: Text, left: Nat]

Ahead(c) == Append(c.at, Head(c.todo))

Stops(t, c) ==
    \/ c.todo = <<>>
    \/ At(t, c.at) # Dir
    \/ /\ Head(c.todo) # Up
       /\ \/ At(t, Ahead(c)) = Absent
          \/ At(t, Ahead(c)).kind = "link" /\ c.left = 0

Outcome(t, c) ==
    IF c.todo = <<>> THEN Result("found", c.at)
    ELSE IF /\ At(t, c.at) = Dir /\ Head(c.todo) # Up
            /\ At(t, Ahead(c)).kind = "link"
         THEN Result("loop", c.at)
    ELSE IF /\ At(t, c.at) = Dir /\ Head(c.todo) # Up /\ Tail(c.todo) = <<>>
            /\ Ahead(c) \in Places /\ At(t, Ahead(c)) = Absent
         THEN Result("missing", Ahead(c))
         ELSE Result("error", c.at)

Onward(t, c) ==
    LET e == At(t, Ahead(c)) IN
    IF Head(c.todo) = Up
    THEN [at |-> Parent(c.at), todo |-> Tail(c.todo), left |-> c.left]
    ELSE IF e.kind # "link"
    THEN [at |-> Ahead(c), todo |-> Tail(c.todo), left |-> c.left]
    ELSE [at |-> IF e.abs THEN <<>> ELSE c.at, todo |-> e.to \o Tail(c.todo),
          left |-> c.left - 1]

Walk(t, p, links) ==
    LET walk[c \in Walks] ==
          IF Stops(t, c) THEN Outcome(t, c) ELSE walk[Onward(t, c)]
    IN  walk[[at |-> <<>>, todo |-> p, left |-> links]]

\* what open(2), lstat(2), ... and filepath.EvalSymlinks make of a path
Kernel(t, p) == Walk(t, p, KernelHops)
Eval(t, p) == Walk(t, p, EvalHops)

Leads(result) == result.st \in {"found", "missing"}

(* filepath.EvalSymlinks succeeds.                                         *)
Evaluates(t, p) == Eval(t, p).st = "found"

(* Lstat: the entry itself, its parents' links followed; Absent for an     *)
(* error, of which too many links in the parents is one.                   *)
Lstat(t, p) ==
    LET dir == Kernel(t, Parent(p)) IN
    IF p = <<>> THEN Dir
    ELSE IF dir.st = "found" THEN At(t, Append(dir.at, Last(p))) ELSE Absent

(* The comparison of fence.go: the fence, or what begins with it and a     *)
(* separator, which for the fence "/" would have to begin with "//".       *)
Inside(p, root) == p = root \/ (root # <<>> /\ IsStrictPrefix(root, p))

---------------------------------------------------------------------------

Init ==
    /\ tree \in Trees
    /\ fence \in Fences
    /\ request \in Requests
    /\ pc = "new"
    /\ clean = <<>> /\ suffix = <<>> /\ real = <<>> /\ limit = <<>>
    /\ hops = 0
    /\ refusal = "none"
    /\ goal = Kernel(tree, Clean(request.to))
    /\ skewed = FALSE /\ blind = FALSE
    /\ disturbed = FALSE /\ changed = {} /\ changes = 0
    /\ touched = {}

Goto(s) == pc' = s /\ UNCHANGED refusal

Refuse(why) == pc' = "refused" /\ refusal' = why

(* filepath.IsAbs and filepath.Clean.                                      *)
Begin ==
    /\ pc = "new"
    /\ \/ request.abs /\ clean' = Clean(request.to) /\ Goto("leaf")
       \/ ~request.abs /\ Refuse("relative") /\ UNCHANGED clean
    /\ UNCHANGED <<tree, given, hops, suffix, real, limit, skewed, blind,
                   others, touched>>

(* The parents have more links than the system follows, but not more than  *)
(* EvalSymlinks does.                                                      *)
BlindTo(p) ==
    Kernel(tree, Parent(p)).st = "loop" /\ Evaluates(tree, Parent(p))

(* Variants: the leaf's links are not followed first; one hop too many.    *)
LookPastLeaf ==
    /\ pc = "leaf"
    /\ Goto("eval")
    /\ blind' = BlindTo(clean)
    /\ UNCHANGED <<tree, given, clean, hops, suffix, real, limit, skewed,
                   others, touched>>

LookOnceMore ==
    /\ pc = "leaf"
    /\ LET isLink == Lstat(tree, clean).kind = "link" IN
       \/ hops > MaxHops + 1 /\ Refuse("hops")
       \/ hops <= MaxHops + 1 /\ isLink /\ Goto("link")
       \/ hops <= MaxHops + 1 /\ ~isLink /\ Goto("eval")
    /\ blind' = BlindTo(clean)
    /\ UNCHANGED <<tree, given, clean, hops, suffix, real, limit, skewed,
                   others, touched>>

(* One turn of the loop: the hop limit, then Lstat.  Its errors end the    *)
(* loop too, that the parents have too many links being one.               *)
LookAtLeaf ==
    /\ pc = "leaf"
    /\ LET isLink == Lstat(tree, clean).kind = "link" IN
       \/ hops > MaxHops /\ Refuse("hops")
       \/ hops <= MaxHops /\ isLink /\ Goto("link")
       \/ hops <= MaxHops /\ ~isLink /\ Goto("eval")
    /\ blind' = BlindTo(clean)
    /\ UNCHANGED <<tree, given, clean, hops, suffix, real, limit, skewed,
                   others, touched>>

(* The parents in the path's text are not the real ones.                   *)
Skews == Kernel(tree, Parent(clean)).at # Parent(clean)

(* Variant: the hops are not counted.                                      *)
FollowUncounted ==
    /\ pc = "link"
    /\ LET e == Lstat(tree, clean) IN
       \/ /\ e.kind = "link"
          /\ clean' = Clean(IF e.abs THEN e.to ELSE Parent(clean) \o e.to)
          /\ skewed' = (skewed \/ (~e.abs /\ Skews))
          /\ Goto("leaf")
       \/ e.kind # "link" /\ Refuse("readlink") /\ UNCHANGED <<clean, skewed>>
    /\ UNCHANGED <<tree, given, hops, suffix, real, limit, blind,
                   others, touched>>

(* Readlink, and the link put in the place of its name: a relative one     *)
(* under the parent that the path's text names.                            *)
FollowLeaf ==
    /\ pc = "link"
    /\ LET e == Lstat(tree, clean) IN
       \/ /\ e.kind = "link"
          /\ clean' = Clean(IF e.abs THEN e.to ELSE Parent(clean) \o e.to)
          /\ skewed' = (skewed \/ (~e.abs /\ Skews))
          /\ hops' = hops + 1
          /\ Goto("leaf")
       \/ /\ e.kind # "link"
          /\ Refuse("readlink")
          /\ UNCHANGED <<clean, skewed, hops>>
    /\ UNCHANGED <<tree, given, suffix, real, limit, blind, others, touched>>

(* EvalSymlinks of the whole path; if it fails the walk up starts at it.   *)
Evaluate ==
    /\ pc = "eval"
    /\ \/ /\ Evaluates(tree, clean)
          /\ real' = Eval(tree, clean).at
          /\ blind' = FALSE
          /\ Goto("check")
          /\ UNCHANGED <<clean, suffix>>
       \/ /\ ~Evaluates(tree, clean)
          /\ suffix' = <<Last(clean)>>
          /\ clean' = Front(clean)
          /\ Goto("climb")
          /\ UNCHANGED <<real, blind>>
    /\ UNCHANGED <<tree, given, hops, limit, skewed, others, touched>>

(* EvalSymlinks runs out of links at the first name below the ancestor     *)
(* that evaluates, and the system, starting there, does not.               *)
GivenUp ==
    /\ Len(suffix) > 1
    /\ Eval(tree, Append(clean, suffix[1])).st = "loop"
    /\ Kernel(tree, Append(Eval(tree, clean).at, suffix[1])).st = "found"

(* One turn of the walk up: EvalSymlinks of the next parent.  It ends, for *)
(* the root evaluates.                                                     *)
Climb ==
    /\ pc = "climb"
    /\ \/ /\ Evaluates(tree, clean)
          /\ real' = Eval(tree, clean).at \o suffix
          /\ blind' = IF Len(suffix) = 1 THEN blind ELSE GivenUp
          /\ Goto("check")
          /\ UNCHANGED <<clean, suffix>>
       \/ /\ ~Evaluates(tree, clean)
          /\ suffix' = <<Last(clean)>> \o suffix
          /\ clean' = Front(clean)
          /\ Goto("climb")
          /\ UNCHANGED <<real, blind>>
    /\ UNCHANGED <<tree, given, hops, limit, skewed, others, touched>>

(* Variant: the fence is compared as it was configured.                    *)
CheckUnresolvedFence ==
    /\ pc = "check"
    /\ \/ fence = NoFence /\ Goto("accepted") /\ UNCHANGED limit
       \/ /\ fence # NoFence
          /\ limit' = fence
          /\ IF Inside(real, limit')
             THEN Goto("accepted") ELSE Refuse("outside")
    /\ UNCHANGED <<tree, given, clean, hops, suffix, real, skewed, blind,
                   others, touched>>

(* The fence is resolved too, on every request, and compared.              *)
Check ==
    /\ pc = "check"
    /\ \/ fence = NoFence /\ Goto("accepted") /\ UNCHANGED limit
       \/ fence # NoFence /\ ~Evaluates(tree, fence)
            /\ Refuse("fence") /\ UNCHANGED limit
       \/ /\ fence # NoFence /\ Evaluates(tree, fence)
          /\ limit' = Eval(tree, fence).at
          /\ IF Inside(real, limit')
             THEN Goto("accepted") ELSE Refuse("outside")
    /\ UNCHANGED <<tree, given, clean, hops, suffix, real, skewed, blind,
                   others, touched>>

---------------------------------------------------------------------------
(* The operation opens what ResolveFenced returned, by name.               *)

Fail == Goto("failed") /\ UNCHANGED <<tree, touched>>

(* Upload: O_CREATE|O_WRONLY|O_TRUNC.                                      *)
Upload ==
    /\ pc = "accepted"
    /\ LET to == Kernel(tree, real) IN
       \/ /\ \/ to.st = "missing"
             \/ to.st = "found" /\ At(tree, to.at) = File
          /\ tree' = [tree EXCEPT ![to.at] = File]
          /\ touched' = {to.at}
          /\ Goto("done")
       \/ /\ ~Leads(to) \/ (to.st = "found" /\ At(tree, to.at) = Dir)
          /\ Fail
    /\ UNCHANGED <<given, resolved, others>>

(* Download and Ls read a file or a directory that is there.               *)
Read ==
    /\ pc = "accepted"
    /\ LET to == Kernel(tree, real) IN
       \/ /\ to.st = "found"
          /\ touched' = {to.at}
          /\ Goto("done") /\ UNCHANGED tree
       \/ to.st # "found" /\ Fail
    /\ UNCHANGED <<given, resolved, others>>

(* Edit: Stat, for the mode of what is no directory, ...                   *)
EditStat ==
    /\ pc = "accepted"
    /\ LET to == Kernel(tree, real) IN
       \/ /\ to.st = "found" /\ At(tree, to.at) = File
          /\ touched' = {to.at}
          /\ Goto("stated") /\ UNCHANGED tree
       \/ ~(to.st = "found" /\ At(tree, to.at) = File) /\ Fail
    /\ UNCHANGED <<given, resolved, others>>

(* ... ReadFile and what ends an edit without a match, ...                 *)
EditRead ==
    /\ pc = "stated"
    /\ LET to == Kernel(tree, real) IN
       \/ /\ to.st = "found" /\ At(tree, to.at) = File
          /\ touched' = touched \cup {to.at}
          /\ pc' \in {"read", "failed"} /\ UNCHANGED <<tree, refusal>>
       \/ ~(to.st = "found" /\ At(tree, to.at) = File) /\ Fail
    /\ UNCHANGED <<given, resolved, others>>

(* ... and atomicWrite: CreateTemp in the directory of the path returned,  *)
(* under a name that was not there, ...                                    *)
InDir(n) == Append(Kernel(tree, Parent(real)).at, n)

TempOf(p) == Append(Parent(p), Temp)

DirOpens ==
    LET dir == Kernel(tree, Parent(real)) IN
    dir.st = "found" /\ At(tree, dir.at) = Dir

Creatable(p) == p \in Places /\ tree[p] = Absent

EditTemp ==
    /\ pc = "read"
    /\ \/ /\ DirOpens /\ Creatable(InDir(Temp))
          /\ tree' = [tree EXCEPT ![InDir(Temp)] = File]
          /\ touched' = touched \cup {InDir(Temp)}
          /\ Goto("temp")
       \/ ~(DirOpens /\ Creatable(InDir(Temp))) /\ Fail
    /\ UNCHANGED <<given, resolved, others>>

(* ... the writes to the open file, which may fail, and Chmod by its name, *)
(* which follows a link that others have put there, ...                    *)
EditChmod ==
    /\ pc = "temp"
    /\ LET to == Kernel(tree, TempOf(real)) IN
       \/ /\ to.st = "found"
          /\ touched' = touched \cup {to.at}
          /\ Goto("moded") /\ UNCHANGED tree
       \/ Goto("cleanup") /\ UNCHANGED <<tree, touched>>
    /\ UNCHANGED <<given, resolved, others>>

Moved(p) == p \in Places /\ tree[p] \notin {Absent, Dir}

(* ... Rename over the name, whatever that names by now, if it is no       *)
(* directory, ...                                                          *)
EditRename ==
    /\ pc = "moded"
    /\ LET from == InDir(Temp)
           to == InDir(Last(real))
           works == /\ DirOpens /\ Moved(from)
                    /\ to \in Places /\ tree[to] # Dir
       IN  \/ /\ works
              /\ tree' = [tree EXCEPT ![from] = Absent, ![to] = tree[from]]
              /\ touched' = touched \cup {from, to}
              /\ Goto("done")
           \/ ~works /\ Goto("cleanup") /\ UNCHANGED <<tree, touched>>
    /\ UNCHANGED <<given, resolved, others>>

(* ... and after a failure Remove of the temporary file, by its name.      *)
EditRemove ==
    /\ pc = "cleanup"
    /\ \/ /\ DirOpens /\ Moved(InDir(Temp))
          /\ tree' = [tree EXCEPT ![InDir(Temp)] = Absent]
          /\ touched' = touched \cup {InDir(Temp)}
          /\ Goto("failed")
       \/ ~(DirOpens /\ Moved(InDir(Temp))) /\ Fail
    /\ UNCHANGED <<given, resolved, others>>

---------------------------------------------------------------------------

(* A command or another request puts something else at a place, and what   *)
(* was below it is gone.  Nobody knows the name of a temporary file before *)
(* it is there.                                                            *)
Change ==
    /\ pc \notin {"new", "done", "failed", "refused"}
    /\ changes < MaxChanges
    /\ \E e \in Edits :
          LET p == e[1] IN
          /\ Last(p) = Temp => pc \in {"temp", "moded", "cleanup"}
          /\ tree[Front(p)] = Dir /\ tree[p] # e[2]
          /\ tree' = [q \in Places |->
                        IF q = p THEN e[2]
                        ELSE IF IsPrefix(p, q) THEN Absent ELSE tree[q]]
          /\ changed' = IF pc \in Opening THEN changed \cup {p} ELSE changed
    /\ disturbed' = (disturbed \/ pc \in {"eval", "climb", "check"})
    /\ changes' = changes + 1
    /\ UNCHANGED <<given, pc, refusal, resolved, touched>>

Resolve ==
    \/ Begin \/ LookAtLeaf \/ FollowLeaf \/ Evaluate \/ Climb \/ Check

Operate ==
    \/ Upload
    \/ Read
    \/ EditStat \/ EditRead
    \/ EditTemp \/ EditChmod \/ EditRename \/ EditRemove

Next == Resolve \/ Operate \/ Change

Spec == Init /\ [][Next]_vars

(* The handler's goroutine goes on.                                        *)
FairSpec == Spec /\ WF_vars(Resolve \/ Operate)

---------------------------------------------------------------------------
(* Properties.                                                             *)

Ended == {"done", "failed", "refused"}

Prefixed(p) == {q \in Places : IsPrefix(q, p)}

\* the entries on the path that was returned, and of its temporary file
Own == Prefixed(real) \cup Prefixed(TempOf(real))

(* Everything an operation reads or writes is inside the fence, also when  *)
(* the path leads through links, to nothing yet or both, whatever changed  *)
(* before the last look at the leaf, and although the path is opened by    *)
(* its name later (fence.go:29-80), up to six times by one edit.  From     *)
(* that look to the check the tree has to stay, and after it the entries   *)
(* on the path that was returned and, once it is there, the edit's         *)
(* temporary file; others may change everything else meanwhile.  Three     *)
(* more exceptions, of which the first needs nobody who changes anything:  *)
(* - Lstat follows fewer links than EvalSymlinks (fence.go:32 and 49, 68). *)
(*   If it runs out of them in the path's parents, the leaf passes for no  *)
(*   link; if it does not and EvalSymlinks does, the name that is kept     *)
(*   below an ancestor may be a link the system can follow.  Either way    *)
(*   the operation may follow a link that leads out (blind).               *)
(* - A path whose parent does not evaluate keeps the names below the first *)
(*   ancestor that does, links among them, and others may complete such a  *)
(*   link.                                                                 *)
(* - If the fence is a file and is edited, its temporary file is beside it.*)
LandsInside ==
    (fence # NoFence /\ ~disturbed /\ ~blind /\ changed \cap Own = {}) =>
        \/ \A p \in touched : \/ IsPrefix(limit, p)
                              \/ (p = TempOf(real) /\ real = limit)
        \/ changed # {} /\ Len(suffix) > 1

(* The fence is transparent (fence.go:17-19, 76-83).  If nobody changes    *)
(* the tree meanwhile, an operation touches what the client's path,        *)
(* cleaned, leads to, and for an edit a temporary file beside it; one that *)
(* leads nowhere touches nothing; and a path that leads into the fence is  *)
(* not refused as outside, however links take it there and also when the   *)
(* fence is a link itself.  Three exceptions: a relative link that was     *)
(* read through another link, which fence.go:40 joins to the parent in the *)
(* path's text and not to the real one; a fence that is "/" or a link to   *)
(* it, which refuses all but "/" itself; and a path with more links than   *)
(* the system follows, of which it says that and which may nevertheless be *)
(* resolved, some links at a time.                                         *)
Transparent ==
    (changes = 0 /\ ~skewed /\ goal.st # "loop") =>
        /\ touched # {} =>
              /\ Leads(goal) /\ goal.at \in touched
              /\ touched \subseteq {goal.at, TempOf(goal.at)}
        /\ refusal = "outside" =>
              LET root == Eval(tree, fence).at IN
              root = <<>> \/ ~Leads(goal) \/ ~IsPrefix(root, goal.at)

(* Every request ends, on trees with cycles of links too (fence.go:12-13). *)
RequestEnds == pc = "leaf" ~> pc \in Ended
============================================================================

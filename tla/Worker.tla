------------------------------ MODULE Worker ------------------------------
(***************************************************************************)
(* The worker's HTTP handlers (internal/server/server.go) and the commands *)
(* they run (internal/server/exec.go): authentication, method, body and    *)
(* argument checks, the child process with its deadline and its temporary  *)
(* script, the audit record and the answer, for requests served at the     *)
(* same time by goroutines that share the audit log.                       *)
(*                                                                         *)
(* A file operation is one step with an outcome here (FileOps has its      *)
(* steps) and an audit record one append (AuditLog has its steps).  The    *)
(* child process, the processes it leaves behind and os/exec are the       *)
(* environment: exec.go starts the command, its context kills only the     *)
(* process it started, and cmd.Run returns once that process is gone AND   *)
(* nobody holds its output pipes.                                          *)
(***************************************************************************)
EXTENDS Integers, Sequences, FiniteSets

CONSTANTS
    Reqs,         \* requests
    Shapes,       \* what a request can look like, see ShapeTypes
    Auths,        \* how `serve` may be started, see AuthTypes
    Codes,        \* what commands exit with
    MaxFaults,    \* bound on failing temporary files
    MaxCrashes

Commands == {"exec", "shell"}
FileRoutes == {"ls", "upload", "download", "edit"}
JSONRoutes == {"exec", "shell", "ls", "edit"}

ShapeTypes ==
    [route: {"info", "other"} \cup Commands \cup FileRoutes,
     token: BOOLEAN,                  \* it carries the worker's token
     post: BOOLEAN,
     body: {"good", "bad", "big"},
        \* Of a JSON body only the first value counts, for Decode reads no
        \* further: it decodes, it does not (it may break off), it is still
        \* not complete at the cap.  An upload's body ends within the cap
        \* or exceeds it.
     valid: BOOLEAN,                  \* ValidateTimeoutSec and ValidateEnv
     args: {"small", "large", "blank", "unsupported"}]
        \* argv or script: fits in an argument, needs a script file, is
        \* empty, names a shell the worker does not have

AuthTypes ==
    [noAuth: BOOLEAN,                          \* --no-auth
     flag: BOOLEAN,                            \* --token
     file: {"token", "blank", "unreadable"}]   \* the token file

ASSUME WorkerAssumption ==
    /\ Shapes \subseteq ShapeTypes
    /\ \A q \in Shapes : q.body = "bad" => q.route \in JSONRoutes
    /\ Auths \subseteq AuthTypes
    /\ Codes \subseteq Nat
    /\ MaxFaults \in Nat /\ MaxCrashes \in Nat

VARIABLES
    auth,       \* how the worker was started, and is again
    shape,      \* the request
    pc,         \* where its handler is
    result,     \* the operation's outcome as the audit log names it
    code,       \* the HTTP status chosen, 0 for none yet
    log,        \* the audit log: a sequence of [req, op, outcome]
    child,      \* the process exec.go started
    status,     \* its exit status once it has exited
    pipeHeld,   \* another process holds its output pipe
    timer,      \* the deadline of its context
    script,     \* its temporary script file exists
    faults, crashes

vars == <<auth, shape, pc, result, code, log, child, status, pipeHeld, timer,
          script, faults, crashes>>

PCs == {"new", "routed", "decoded", "ready", "starting", "running",
        "draining", "waited", "ran", "refusing", "replying", "answered", "dead"}

Done == {"answered", "dead"}

Outcomes == {"none", "success", "error", "denied"}

TypeOK ==
    /\ auth \in Auths
    /\ shape \in [Reqs -> Shapes]
    /\ pc \in [Reqs -> PCs]
    /\ result \in [Reqs -> Outcomes]
    /\ code \in [Reqs -> {0, 200, 400, 401, 404, 405, 413}]
    /\ log \in Seq([req: Reqs, op: {"decode"} \cup Commands \cup FileRoutes,
                    outcome: Outcomes \ {"none"}])
    /\ child \in [Reqs -> {"none", "running", "exited", "killed"}]
    /\ status \in [Reqs -> {0} \cup Codes]
    /\ pipeHeld \in [Reqs -> BOOLEAN]
    /\ timer \in [Reqs -> {"off", "armed", "fired"}]
    /\ script \in [Reqs -> BOOLEAN]
    /\ faults \in 0 .. MaxFaults
    /\ crashes \in 0 .. MaxCrashes

Init ==
    /\ auth \in Auths
    /\ shape \in [Reqs -> Shapes]
    /\ pc = [r \in Reqs |-> "new"]
    /\ result = [r \in Reqs |-> "none"]
    /\ code = [r \in Reqs |-> 0]
    /\ log = <<>>
    /\ child = [r \in Reqs |-> "none"]
    /\ status = [r \in Reqs |-> 0]
    /\ pipeHeld = [r \in Reqs |-> FALSE]
    /\ timer = [r \in Reqs |-> "off"]
    /\ script = [r \in Reqs |-> FALSE]
    /\ faults = 0
    /\ crashes = 0

process == <<child, status, pipeHeld, timer, script>>

Goto(r, s) == pc' = [pc EXCEPT ![r] = s]

Finish(r, c) == Goto(r, "answered") /\ code' = [code EXCEPT ![r] = c]

Audit(r, o, outcome) ==
    log' = Append(log, [req |-> r, op |-> o, outcome |-> outcome])

---------------------------------------------------------------------------
(* Before the operation.                                                   *)

Refused == "refused"

(* Variant: a blank token file gives the token of that length, none.       *)
ResolveAuthBlank(a) ==
    IF a.noAuth \/ (~a.flag /\ a.file = "blank") THEN "none"
    ELSE IF a.flag \/ a.file = "token" THEN "token"
    ELSE Refused

(* ResolveAuth and LoadTokenFile: the token requests have to carry, or     *)
(* `serve` does not start.                                                 *)
ResolveAuth(a) ==
    IF a.noAuth THEN "none"
    ELSE IF a.flag \/ a.file = "token" THEN "token"
    ELSE Refused

NeedToken == ResolveAuth(auth) = "token"

(* withToken, the mux, handleInfo and requirePOST.                         *)
Route(r) ==
    /\ pc[r] = "new" /\ ResolveAuth(auth) # Refused
    /\ LET q == shape[r] IN
       \/ NeedToken /\ ~q.token /\ Finish(r, 401)
       \/ /\ NeedToken => q.token
          /\ \/ q.route = "info" /\ Finish(r, 200)
             \/ q.route = "other" /\ Finish(r, 404)
             \/ q.route \notin {"info", "other"} /\ ~q.post /\ Finish(r, 405)
             \/ /\ q.route \notin {"info", "other"} /\ q.post
                /\ Goto(r, "routed") /\ UNCHANGED code
    /\ UNCHANGED <<auth, shape, result, log, process, faults, crashes>>

(* Variant: the handler goes on after decodeBody has refused.              *)
DecodeNoReturn(r) ==
    /\ pc[r] = "routed"
    /\ IF shape[r].route \in JSONRoutes /\ shape[r].body # "good"
       THEN Audit(r, "decode", "denied")
       ELSE UNCHANGED log
    /\ Goto(r, "decoded")
    /\ UNCHANGED <<auth, shape, result, code, process, faults, crashes>>

(* decodeBody, which records what it refuses before it answers.            *)
Decode(r) ==
    /\ pc[r] = "routed"
    /\ LET q == shape[r] IN
       \/ /\ q.route \in JSONRoutes /\ q.body # "good"
          /\ Audit(r, "decode", "denied")
          /\ code' = [code EXCEPT ![r] = IF q.body = "big" THEN 413 ELSE 400]
          /\ Goto(r, "refusing")
       \/ /\ q.route \notin JSONRoutes \/ q.body = "good"
          /\ Goto(r, "decoded")
          /\ UNCHANGED <<log, code>>
    /\ UNCHANGED <<auth, shape, result, process, faults, crashes>>

Refuse(r) ==
    /\ pc[r] = "refusing"
    /\ Goto(r, "answered")
    /\ UNCHANGED <<auth, shape, result, code, log, process, faults, crashes>>

(* handleExec and handleShell check the timeout and the environment.       *)
Validate(r) ==
    /\ pc[r] = "decoded"
    /\ LET q == shape[r] IN
       \/ q.route \in Commands /\ ~q.valid /\ Finish(r, 400)
       \/ /\ q.route \in Commands => q.valid
          /\ Goto(r, "ready") /\ UNCHANGED code
    /\ UNCHANGED <<auth, shape, result, log, process, faults, crashes>>

---------------------------------------------------------------------------
(* The operation.                                                          *)

Returns(r, outcome, c) ==
    /\ result' = [result EXCEPT ![r] = outcome]
    /\ code' = [code EXCEPT ![r] = c]
    /\ Goto(r, "ran")

(* Ls, Upload, Download, Edit: success, or an error recorded as denied.    *)
(* A download that fails after its first bytes has sent status 200.  An    *)
(* upload over the cap is denied only after it has truncated its target    *)
(* and copied the bytes up to the cap, unless the fence or the file system *)
(* refused it before.                                                      *)
FileOperation(r) ==
    /\ pc[r] = "ready" /\ shape[r].route \in FileRoutes
    /\ LET tooBig == shape[r].route = "upload" /\ shape[r].body = "big" IN
       \/ ~tooBig /\ Returns(r, "success", 200)
       \/ Returns(r, "denied", 400)
       \/ tooBig /\ Returns(r, "denied", 413)
       \/ shape[r].route = "download" /\ Returns(r, "denied", 200)
    /\ UNCHANGED <<auth, shape, log, process, faults, crashes>>

(* RunExec and RunShell up to captureRun: empty arguments and unknown      *)
(* shells fail with exit code -1, a long script goes to a temporary file.  *)
Prepare(r) ==
    /\ pc[r] = "ready" /\ shape[r].route \in Commands
    /\ LET needsFile == shape[r].route = "shell" /\ shape[r].args = "large" IN
       \/ /\ shape[r].args \in {"blank", "unsupported"}
          /\ Returns(r, "error", 200)
          /\ UNCHANGED <<timer, script, faults>>
       \/ /\ needsFile /\ faults < MaxFaults
          /\ faults' = faults + 1
          /\ Returns(r, "error", 200)
          /\ UNCHANGED <<timer, script>>
       \/ /\ shape[r].args \in {"small", "large"}
          /\ timer' = [timer EXCEPT ![r] = "armed"]
          /\ script' = [script EXCEPT ![r] = needsFile]
          /\ Goto(r, "starting")
          /\ UNCHANGED <<result, code, faults>>
    /\ UNCHANGED <<auth, shape, log, child, status, pipeHeld, crashes>>

(* Variants: the script is removed as soon as the shell has started; the   *)
(* command does not get the context with the deadline.                     *)
StartDropsScript(r) ==
    /\ pc[r] = "starting"
    /\ child' = [child EXCEPT ![r] = "running"]
    /\ script' = [script EXCEPT ![r] = FALSE]
    /\ Goto(r, "running")
    /\ UNCHANGED <<auth, shape, result, code, log, status, pipeHeld, timer,
                   faults, crashes>>

StartWithoutContext(r) ==
    /\ pc[r] = "starting"
    /\ child' = [child EXCEPT ![r] = "running"]
    /\ timer' = [timer EXCEPT ![r] = "off"]
    /\ Goto(r, "running")
    /\ UNCHANGED <<auth, shape, result, code, log, status, pipeHeld, script,
                   faults, crashes>>

(* cmd.Start: the process runs, or the binary is missing, or the deadline  *)
(* has passed already.                                                     *)
Start(r) ==
    /\ pc[r] = "starting"
    /\ \/ /\ timer[r] = "armed"
          /\ child' = [child EXCEPT ![r] = "running"]
          /\ Goto(r, "running")
          /\ UNCHANGED result
       \/ /\ result' = [result EXCEPT ![r] = "error"]
          /\ Goto(r, "waited")
          /\ UNCHANGED child
    /\ UNCHANGED <<auth, shape, code, log, status, pipeHeld, timer, script,
                   faults, crashes>>

(* Variant: the handler gives up at the deadline without waiting.          *)
ReapAtDeadline(r) ==
    /\ pc[r] = "running"
    /\ child[r] # "running" \/ timer[r] = "fired"
    /\ result' = [result EXCEPT ![r] = "error"]
    /\ Goto(r, "draining")
    /\ UNCHANGED <<auth, shape, code, log, process, faults, crashes>>

(* cmd.Wait has the exit status.  Killed is an error; a command that       *)
(* exited with 0 just when its context was cancelled is reported as        *)
(* either.                                                                 *)
Reap(r) ==
    /\ pc[r] = "running"
    /\ \/ /\ child[r] = "exited" /\ status[r] = 0
          /\ result' = [result EXCEPT ![r] = "success"]
       \/ /\ child[r] = "exited" /\ (status[r] # 0 \/ timer[r] = "fired")
          /\ result' = [result EXCEPT ![r] = "error"]
       \/ /\ child[r] = "killed"
          /\ result' = [result EXCEPT ![r] = "error"]
    /\ Goto(r, "draining")
    /\ UNCHANGED <<auth, shape, code, log, process, faults, crashes>>

(* It then waits for the end of the output, however long that takes.       *)
Drain(r) ==
    /\ pc[r] = "draining"
    /\ ~pipeHeld[r]
    /\ Goto(r, "waited")
    /\ UNCHANGED <<auth, shape, result, code, log, process, faults, crashes>>

(* The temporary script goes and the context is cancelled.                 *)
Cleanup(r) ==
    /\ pc[r] = "waited"
    /\ script' = [script EXCEPT ![r] = FALSE]
    /\ timer' = [timer EXCEPT ![r] = "off"]
    /\ code' = [code EXCEPT ![r] = 200]
    /\ Goto(r, "ran")
    /\ UNCHANGED <<auth, shape, result, log, child, status, pipeHeld, faults,
                   crashes>>

(* Variant: the command is recorded before it has run.                     *)
AuditBeforeRun(r) ==
    /\ pc[r] \in {"starting", "ran"}
    /\ Audit(r, shape[r].route, result[r])
    /\ Goto(r, "replying")
    /\ UNCHANGED <<auth, shape, result, code, process, faults, crashes>>

(* auditExec, or the Log call of the other handlers.                       *)
AuditResult(r) ==
    /\ pc[r] = "ran"
    /\ Audit(r, shape[r].route, result[r])
    /\ Goto(r, "replying")
    /\ UNCHANGED <<auth, shape, result, code, process, faults, crashes>>

Reply(r) ==
    /\ pc[r] = "replying"
    /\ Goto(r, "answered")
    /\ UNCHANGED <<auth, shape, result, code, log, process, faults, crashes>>

---------------------------------------------------------------------------
(* The environment: processes, clocks, and the death of the worker.        *)

ChildExits(r) ==
    /\ child[r] = "running"
    /\ child' = [child EXCEPT ![r] = "exited"]
    /\ \E s \in Codes : status' = [status EXCEPT ![r] = s]
    /\ UNCHANGED <<auth, shape, pc, result, code, log, pipeHeld, timer, script,
                   faults, crashes>>

(* A background process inherits the pipe, and at some time lets it go.    *)
PipeInherited(r) ==
    /\ child[r] = "running" /\ ~pipeHeld[r]
    /\ pipeHeld' = [pipeHeld EXCEPT ![r] = TRUE]
    /\ UNCHANGED <<auth, shape, pc, result, code, log, child, status, timer,
                   script, faults, crashes>>

PipeReleased(r) ==
    /\ pipeHeld[r]
    /\ pipeHeld' = [pipeHeld EXCEPT ![r] = FALSE]
    /\ UNCHANGED <<auth, shape, pc, result, code, log, child, status, timer,
                   script, faults, crashes>>

DeadlineFires(r) ==
    /\ timer[r] = "armed"
    /\ timer' = [timer EXCEPT ![r] = "fired"]
    /\ UNCHANGED <<auth, shape, pc, result, code, log, child, status, pipeHeld,
                   script, faults, crashes>>

Kill(r) ==
    /\ timer[r] = "fired" /\ child[r] = "running"
    /\ child' = [child EXCEPT ![r] = "killed"]
    /\ UNCHANGED <<auth, shape, pc, result, code, log, status, pipeHeld, timer,
                   script, faults, crashes>>

(* The process dies: no handler goes on, no deadline fires, but what it    *)
(* started runs on.  Requests that come later are served after a restart.  *)
Crash ==
    /\ crashes < MaxCrashes
    /\ crashes' = crashes + 1
    /\ pc' = [r \in Reqs |-> IF pc[r] \in Done \cup {"new"}
                             THEN pc[r] ELSE "dead"]
    /\ timer' = [r \in Reqs |-> "off"]
    /\ UNCHANGED <<auth, shape, result, code, log, child, status,
                   pipeHeld, script, faults>>

Handle(r) ==
    \/ Route(r) \/ Decode(r) \/ Refuse(r) \/ Validate(r)
    \/ FileOperation(r) \/ Prepare(r) \/ Start(r) \/ Reap(r) \/ Drain(r)
    \/ Cleanup(r) \/ AuditResult(r) \/ Reply(r)

Environment(r) ==
    \/ ChildExits(r) \/ PipeInherited(r) \/ PipeReleased(r)
    \/ DeadlineFires(r) \/ Kill(r)

Next == Crash \/ \E r \in Reqs : Handle(r) \/ Environment(r)

Spec == Init /\ [][Next]_vars

(* A goroutine that can run runs, a deadline passes, a kill reaches its    *)
(* process.  No command has to exit by itself, no background process has   *)
(* to close a pipe, and no client has to send its body: the steps up to    *)
(* Decode are not fair (the server sets no ReadTimeout).                   *)
Fairness ==
    \A r \in Reqs :
        /\ WF_vars(Validate(r) \/ FileOperation(r) \/ Prepare(r))
        /\ WF_vars(Start(r) \/ Reap(r) \/ Drain(r) \/ Cleanup(r))
        /\ WF_vars(Refuse(r) \/ AuditResult(r) \/ Reply(r))
        /\ WF_vars(DeadlineFires(r))
        /\ WF_vars(Kill(r))

FairSpec == Spec /\ Fairness

---------------------------------------------------------------------------
(* Properties.                                                             *)

EntriesOf(r) == {i \in DOMAIN log : log[i].req = r}

(* The operation of a request was attempted: it got past every check.      *)
Attempted(r) == result[r] # "none" \/ child[r] # "none"

(* Whatever the interleaving, a request is in the audit log at most once,  *)
(* and an operation that was attempted and answered is there under its     *)
(* name with the outcome the client was told: status 200 and success or a  *)
(* failed command, or a refusal and denied (server.go:142-254).  Only a    *)
(* download can be denied with status 200.                                 *)
AnswerMatchesRecord ==
    \A r \in Reqs :
        /\ Cardinality(EntriesOf(r)) <= 1
        /\ (Attempted(r) /\ pc[r] = "answered") =>
              \E i \in EntriesOf(r) :
                  /\ log[i].op = shape[r].route
                  /\ log[i].outcome = result[r]
                  /\ result[r] \in {"success", "error"} => code[r] = 200
                  /\ (result[r] = "denied" /\ shape[r].route # "download")
                        => code[r] \in {400, 413}

(* Nothing is attempted for a request without the token, however the       *)
(* worker came by it and also if it got none, unless authentication was    *)
(* switched off in so many words; nor by another method than POST, with a  *)
(* JSON body whose first value does not decode or is not complete at the   *)
(* cap, or, for a command, with a timeout or environment that does not     *)
(* validate.  What follows the first value is not looked at.  An upload    *)
(* over the cap IS attempted, its target is overwritten with the bytes up  *)
(* to the cap, but it is always denied (server.go:69-214, auth.go:29-56,   *)
(* files.go:24-29).                                                        *)
OnlyAcceptedRuns ==
    \A r \in Reqs : Attempted(r) =>
        /\ auth.noAuth \/ shape[r].token
        /\ shape[r].post
        /\ shape[r].route \in JSONRoutes => shape[r].body = "good"
        /\ shape[r].route \in Commands => shape[r].valid
        /\ shape[r].route = "upload" /\ shape[r].body = "big" =>
              result[r] = "denied"

(* The script file is there as long as the shell that reads it runs, also  *)
(* when the deadline passes or the worker dies, and is gone before the     *)
(* answer (exec.go:129-132).                                               *)
ScriptLifetime ==
    \A r \in Reqs :
        /\ (child[r] = "running" /\ shape[r].route = "shell"
              /\ shape[r].args = "large") => script[r]
        /\ pc[r] \in {"ran", "replying", "answered"} => ~script[r]

(* With its deadline a command that was decoded ends in an answer, unless  *)
(* the worker dies or a process the command left behind holds the output   *)
(* pipe at some moment, however short: that is the one thing the timeout   *)
(* does not bound (exec.go:64-82).                                         *)
DeadlineBounds ==
    \A r \in Reqs :
        pc[r] = "decoded" ~> (pc[r] \in Done \/ pipeHeld[r])

(* docs/security.md:44: every request, including denied ones, is logged;   *)
(* so a refusal that was sent is in the log.                               *)
DenialIsLogged ==
    \A r \in Reqs :
        (pc[r] = "answered" /\ code[r] # 200) => EntriesOf(r) # {}
===========================================================================

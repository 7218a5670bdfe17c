------------------------------- MODULE Verbs -------------------------------
(***************************************************************************)
(* What the verbs of the command line (internal/cli/cli.go) tell their     *)
(* caller of a request: the exit code of `sparkyctrl exec`, shell, ls,     *)
(* read, write, push, pull, edit and info, as a function of what the       *)
(* worker of module Worker sent back (internal/client/client.go).          *)
(***************************************************************************)
EXTENDS Worker

CONSTANT
    MaxBreaks   \* bound on connections that break

ASSUME VerbAssumption == MaxBreaks \in Nat

VARIABLE
    broken      \* the requests whose connection broke before the client had
                \* read the answer

verbVars == <<vars, broken>>

(* A connection breaks at any time: with the death of the worker, but also *)
(* while it lives, before, during or after the operation.  The worker goes *)
(* on all the same, for no operation looks at the request's context.       *)
Break(r) ==
    /\ r \notin broken /\ Cardinality(broken) < MaxBreaks
    /\ broken' = broken \cup {r}
    /\ UNCHANGED vars

VerbInit == Init /\ broken = {}

VerbNext == (Next /\ UNCHANGED broken) \/ \E r \in Reqs : Break(r)

VerbSpec == VerbInit /\ [][VerbNext]_verbVars

FairVerbSpec == VerbSpec /\ Fairness

(* The verb has what it waits for: an answer, or a broken connection, for  *)
(* the client has no timeout.                                              *)
Over(r) == pc[r] = "answered" \/ r \in broken

(* ExecResponse.ExitCode: what the process exited with, or -1 if it was    *)
(* killed, never started, or exited with 0 after its deadline.             *)
ResponseCode(r) ==
    IF child[r] = "exited" /\ status[r] # 0 THEN status[r]
    ELSE IF result[r] = "success" THEN 0
    ELSE -1

(* emitExec, and os.Exit, which keeps eight bits.                          *)
EmitExec(n) == IF n < 0 THEN 1 ELSE n % 256

(* runExec .. runInfo: 1 for every error of the client, that is for every  *)
(* status but 200, for a connection that broke and for an answer that      *)
(* broke off; the worker's own account of a command; 0 for the rest.       *)
ExitCode(r) ==
    IF r \in broken \/ code[r] # 200 THEN 1
    ELSE IF shape[r].route \in Commands THEN EmitExec(ResponseCode(r))
    ELSE 0

---------------------------------------------------------------------------
(* Properties.                                                             *)

(* A verb's exit code tells what became of the request, as long as its     *)
(* connection holds: 0 only if the operation was done, not 0 only if it    *)
(* was not, and a command is over when it is told.  That holds however     *)
(* deadline, kill and exit of the command fall together, with two          *)
(* exceptions: a download that breaks off in the worker after status 200   *)
(* was sent, and an exit code of Windows that is a multiple of 256.  Of a  *)
(* broken connection a verb makes an exit code other than 0, which tells   *)
(* nothing: the operation may have been done, may be running or may yet    *)
(* start (exec.go:43-55, cli.go:215-235, client.go:35-157).                *)
ExitCodeTells ==
    \A r \in Reqs : Over(r) =>
        /\ ExitCode(r) = 0 =>
              \/ result[r] = "success"
              \/ shape[r].route = "info"
              \/ shape[r].route = "download" /\ result[r] = "denied"
              \/ status[r] # 0 /\ status[r] % 256 = 0
        /\ ExitCode(r) # 0 => result[r] # "success" \/ r \in broken
        /\ child[r] = "running" => ExitCode(r) # 0 /\ r \in broken
===========================================================================

---------------------------- MODULE WorkerProofs ----------------------------
(***************************************************************************)
(* Proofs about Worker and Verbs for every set of requests, every way to   *)
(* start the worker, and any exit codes, faults and crashes.               *)
(***************************************************************************)
EXTENDS Verbs, FiniteSetTheorems, TLAPS

---------------------------------------------------------------------------
(* The inductive invariant: where a handler is tells what was checked,     *)
(* what was started, and what is on record.                                *)

Started == {"starting", "running", "draining", "waited"}

Admitted == {"ready", "ran", "replying"} \cup Started

CheckInv ==
    \A r \in Reqs :
        /\ pc[r] \in {"routed", "decoded", "refusing"} \cup Admitted =>
              /\ shape[r].post
              /\ auth.noAuth \/ shape[r].token
              /\ shape[r].route \in Commands \cup FileRoutes
        /\ pc[r] \in {"decoded"} \cup Admitted =>
              shape[r].body = "good"
                 \/ shape[r].route \in {"upload", "download"}
        /\ pc[r] \in Admitted /\ shape[r].route \in Commands => shape[r].valid
        /\ pc[r] \in Started => shape[r].route \in Commands

RunInv ==
    \A r \in Reqs :
        /\ pc[r] \in {"new", "routed", "decoded", "ready", "starting",
                      "refusing"} => child[r] = "none"
        /\ pc[r] \in {"new", "routed", "decoded", "ready", "starting",
                      "running", "refusing"} => result[r] = "none"
        /\ child[r] = "running" => pc[r] \in {"running", "dead"}
        /\ pc[r] \in {"draining", "waited"} =>
              result[r] \in {"success", "error"}
        /\ pc[r] \in {"ran", "replying"} =>
              /\ result[r] # "none"
              /\ result[r] \in {"success", "error"} => code[r] = 200
              /\ result[r] = "denied" /\ shape[r].route # "download" =>
                    code[r] \in {400, 413}

NeedsScript(r) == shape[r].route = "shell" /\ shape[r].args = "large"

ScriptInv ==
    \A r \in Reqs :
        /\ pc[r] \in Started /\ NeedsScript(r) => script[r]
        /\ pc[r] \in PCs \ (Started \cup {"dead"}) => ~script[r]
        /\ child[r] = "running" /\ NeedsScript(r) => script[r]

Unrecorded == {"new", "routed", "decoded", "ready", "ran"} \cup Started

(* The record of r says what its answer says.                              *)
Recorded(r) ==
    \E i \in EntriesOf(r) :
        /\ log[i].op = shape[r].route
        /\ log[i].outcome = result[r]

RecordInv ==
    \A r \in Reqs :
        /\ \A i, j \in EntriesOf(r) : i = j
        /\ pc[r] \in Unrecorded => EntriesOf(r) = {}
        /\ pc[r] = "replying" => Recorded(r)

(* What the answer of an attempted operation promises.                     *)
AnswerInv ==
    \A r \in Reqs : Attempted(r) /\ pc[r] = "answered" =>
        /\ Recorded(r)
        /\ result[r] \in {"success", "error"} => code[r] = 200
        /\ result[r] = "denied" /\ shape[r].route # "download" =>
              code[r] \in {400, 413}

(* What an exit code is computed from.                                     *)
VerbInv ==
    \A r \in Reqs :
        /\ child[r] = "running" => result[r] = "none"
        /\ result[r] = "success" /\ shape[r].route \in Commands =>
              status[r] = 0
        /\ result[r] = "error" => shape[r].route \in Commands
        /\ pc[r] = "refusing" => code[r] # 200
        /\ pc[r] = "answered" /\ code[r] = 200 /\ result[r] = "none" =>
              shape[r].route = "info"

RequestInv ==
    /\ TypeOK /\ CheckInv /\ RunInv /\ ScriptInv /\ RecordInv /\ AnswerInv
    /\ OnlyAcceptedRuns /\ VerbInv

---------------------------------------------------------------------------
(* Each part is preserved by every step.                                   *)

(* What is assumed of the constants.                                        *)
LEMMA Constants ==
    /\ Codes \subseteq Nat /\ MaxFaults \in Nat /\ MaxCrashes \in Nat
    /\ Shapes \subseteq ShapeTypes
    /\ \A q \in Shapes : q.body = "bad" => q.route \in JSONRoutes
  BY WorkerAssumption

Entries == [req: Reqs, op: {"decode"} \cup Commands \cup FileRoutes,
            outcome: Outcomes \ {"none"}]

LogOK == log \in Seq(Entries)

StateOK ==
    /\ auth \in Auths
    /\ shape \in [Reqs -> Shapes]
    /\ pc \in [Reqs -> PCs]
    /\ result \in [Reqs -> Outcomes]
    /\ code \in [Reqs -> {0, 200, 400, 401, 404, 405, 413}]
    /\ child \in [Reqs -> {"none", "running", "exited", "killed"}]
    /\ status \in [Reqs -> {0} \cup Codes]
    /\ pipeHeld \in [Reqs -> BOOLEAN]
    /\ timer \in [Reqs -> {"off", "armed", "fired"}]
    /\ script \in [Reqs -> BOOLEAN]
    /\ faults \in 0 .. MaxFaults
    /\ crashes \in 0 .. MaxCrashes

(* Type correctness: of the log, and of everything else.                   *)
LEMMA TypeParts == TypeOK <=> StateOK /\ LogOK
  BY DEF TypeOK, StateOK, LogOK, Entries

(* A record is appended, nothing else happens to the log.                  *)
LEMMA Appended ==
    ASSUME LogOK, NEW r \in Reqs, NEW u \in Outcomes \ {"none"},
           NEW o \in {"decode"} \cup Commands \cup FileRoutes, Audit(r, o, u)
    PROVE  LogOK'
  <1>1. [req |-> r, op |-> o, outcome |-> u] \in Entries
    BY DEF Entries
  <1> QED
    BY <1>1 DEF LogOK, Audit

(* Prepare in two cases, with a value for whether there is a script.       *)
LEMMA PrepareCases ==
    ASSUME NEW r \in Reqs, Prepare(r)
    PROVE  /\ pc[r] = "ready" /\ shape[r].route \in Commands
           /\ UNCHANGED <<auth, shape, log, child, status, pipeHeld, crashes>>
           /\ \/ /\ Returns(r, "error", 200)
                 /\ UNCHANGED <<timer, script>>
                 /\ \/ UNCHANGED faults
                    \/ faults < MaxFaults /\ faults' = faults + 1
              \/ /\ timer' = [timer EXCEPT ![r] = "armed"]
                 /\ \E b \in BOOLEAN :
                       /\ NeedsScript(r) <=> b
                       /\ script' = [script EXCEPT ![r] = b]
                 /\ Goto(r, "starting")
                 /\ UNCHANGED <<result, code, faults>>
  <1>1. NeedsScript(r) \in BOOLEAN
    BY DEF NeedsScript
  <1> QED
    BY <1>1, Zenon DEF Prepare, NeedsScript

(* Decode either goes on or records a refusal.                             *)
LEMMA DecodeLog ==
    ASSUME NEW r \in Reqs, Decode(r)
    PROVE  /\ pc[r] = "routed" /\ UNCHANGED <<shape, result, child>>
           /\ UNCHANGED code \/ \E c : code' = [code EXCEPT ![r] = c]
           /\ \/ Goto(r, "decoded") /\ UNCHANGED log
              \/ Goto(r, "refusing") /\ Audit(r, "decode", "denied")
  BY Zenon DEF Decode, process

(* A file operation has an outcome and a status.                           *)
LEMMA FileOperationCases ==
    ASSUME NEW r \in Reqs, FileOperation(r)
    PROVE  /\ pc' = [pc EXCEPT ![r] = "ran"]
           /\ \E o \in {"success", "denied"} :
                 result' = [result EXCEPT ![r] = o]
           /\ \E c \in {200, 400, 413} : code' = [code EXCEPT ![r] = c]
           /\ UNCHANGED <<auth, shape, log, process, faults, crashes>>
  BY DEF FileOperation, Returns, Goto

(* The script stays a truth value.                                         *)
LEMMA PrepareScript ==
    ASSUME script \in [Reqs -> BOOLEAN], NEW r \in Reqs, Prepare(r)
    PROVE  script' \in [Reqs -> BOOLEAN]
  <1>1. \A b \in BOOLEAN : [script EXCEPT ![r] = b] \in [Reqs -> BOOLEAN]
    OBVIOUS
  <1> QED
    BY <1>1, PrepareCases, Zenon

(* Types.                                                                  *)
LEMMA StateStep ==
    ASSUME StateOK, [Next]_vars
    PROVE  StateOK'
  <1> USE Constants DEF StateOK, process, Goto, Finish, Audit, Returns, PCs,
          Outcomes
  <1>1. ASSUME NEW r \in Reqs, Route(r) PROVE StateOK'
    BY <1>1 DEF Route
  <1>2. ASSUME NEW r \in Reqs, Decode(r) PROVE StateOK'
    BY <1>2 DEF Decode
  <1>3. ASSUME NEW r \in Reqs, Refuse(r) PROVE StateOK'
    BY <1>3 DEF Refuse
  <1>4. ASSUME NEW r \in Reqs, Validate(r) PROVE StateOK'
    BY <1>4 DEF Validate
  <1>5. ASSUME NEW r \in Reqs, FileOperation(r) PROVE StateOK'
    <2>1. /\ pc' = [pc EXCEPT ![r] = "ran"]
          /\ \E o \in {"success", "denied"} :
                result' = [result EXCEPT ![r] = o]
          /\ \E c \in {200, 400, 413} : code' = [code EXCEPT ![r] = c]
          /\ UNCHANGED <<auth, shape, log, process, faults, crashes>>
      BY <1>5, FileOperationCases
    <2> QED
      BY <2>1
  <1>6. ASSUME NEW r \in Reqs, Prepare(r) PROVE StateOK'
    BY <1>6, PrepareCases
  <1>7. ASSUME NEW r \in Reqs, Start(r) PROVE StateOK'
    BY <1>7 DEF Start
  <1>8. ASSUME NEW r \in Reqs, Reap(r) PROVE StateOK'
    BY <1>8 DEF Reap
  <1>9. ASSUME NEW r \in Reqs, Drain(r) PROVE StateOK'
    BY <1>9 DEF Drain
  <1>10. ASSUME NEW r \in Reqs, Cleanup(r) PROVE StateOK'
    BY <1>10 DEF Cleanup
  <1>11. ASSUME NEW r \in Reqs, AuditResult(r) PROVE StateOK'
    BY <1>11 DEF AuditResult
  <1>12. ASSUME NEW r \in Reqs, Reply(r) PROVE StateOK'
    BY <1>12 DEF Reply
  <1>13. ASSUME NEW r \in Reqs, ChildExits(r) PROVE StateOK'
    BY <1>13 DEF ChildExits
  <1>14. ASSUME NEW r \in Reqs, PipeInherited(r) PROVE StateOK'
    BY <1>14 DEF PipeInherited
  <1>15. ASSUME NEW r \in Reqs, PipeReleased(r) PROVE StateOK'
    BY <1>15 DEF PipeReleased
  <1>16. ASSUME NEW r \in Reqs, DeadlineFires(r) PROVE StateOK'
    BY <1>16 DEF DeadlineFires
  <1>17. ASSUME NEW r \in Reqs, Kill(r) PROVE StateOK'
    BY <1>17 DEF Kill
  <1>18. ASSUME Crash PROVE StateOK'
    BY <1>18 DEF Crash
  <1>19. ASSUME UNCHANGED vars PROVE StateOK'
    BY <1>19 DEF vars
  <1> QED
    BY <1>1, <1>2, <1>3, <1>4, <1>5, <1>6, <1>7, <1>8, <1>9, <1>10, <1>11,
       <1>12, <1>13, <1>14, <1>15, <1>16, <1>17, <1>18, <1>19
    DEF Next, Handle, Environment

(* The log.                                                                *)
LEMMA LogStep ==
    ASSUME StateOK, LogOK, CheckInv, RunInv, [Next]_vars
    PROVE  LogOK'
  <1> USE DEF process, Returns, Goto, Finish, LogOK
  <1>1. ASSUME NEW r \in Reqs, Route(r) PROVE LogOK'
    BY <1>1 DEF Route
  <1>2. ASSUME NEW r \in Reqs, Decode(r) PROVE LogOK'
    <2>1. UNCHANGED log \/ Audit(r, "decode", "denied")
      BY <1>2, DecodeLog
    <2> QED
      BY <2>1, Appended DEF LogOK, Outcomes
  <1>3. ASSUME NEW r \in Reqs, Refuse(r) PROVE LogOK'
    BY <1>3 DEF Refuse
  <1>4. ASSUME NEW r \in Reqs, Validate(r) PROVE LogOK'
    BY <1>4 DEF Validate
  <1>5. ASSUME NEW r \in Reqs, FileOperation(r) PROVE LogOK'
    BY <1>5 DEF FileOperation
  <1>6. ASSUME NEW r \in Reqs, Prepare(r) PROVE LogOK'
    BY <1>6 DEF Prepare
  <1>7. ASSUME NEW r \in Reqs, Start(r) PROVE LogOK'
    BY <1>7 DEF Start
  <1>8. ASSUME NEW r \in Reqs, Reap(r) PROVE LogOK'
    BY <1>8 DEF Reap
  <1>9. ASSUME NEW r \in Reqs, Drain(r) PROVE LogOK'
    BY <1>9 DEF Drain
  <1>10. ASSUME NEW r \in Reqs, Cleanup(r) PROVE LogOK'
    BY <1>10 DEF Cleanup
  <1>11. ASSUME NEW r \in Reqs, AuditResult(r) PROVE LogOK'
    <2>1. /\ shape[r].route \in Commands \cup FileRoutes
          /\ result[r] \in Outcomes \ {"none"}
      BY <1>11 DEF AuditResult, StateOK, CheckInv, RunInv, Admitted
    <2>2. Audit(r, shape[r].route, result[r])
      BY <1>11, Zenon DEF AuditResult
    <2> QED
      BY <2>1, <2>2, Appended
  <1>12. ASSUME NEW r \in Reqs, Reply(r) PROVE LogOK'
    BY <1>12 DEF Reply
  <1>13. ASSUME NEW r \in Reqs, ChildExits(r) PROVE LogOK'
    BY <1>13 DEF ChildExits
  <1>14. ASSUME NEW r \in Reqs, PipeInherited(r) PROVE LogOK'
    BY <1>14 DEF PipeInherited
  <1>15. ASSUME NEW r \in Reqs, PipeReleased(r) PROVE LogOK'
    BY <1>15 DEF PipeReleased
  <1>16. ASSUME NEW r \in Reqs, DeadlineFires(r) PROVE LogOK'
    BY <1>16 DEF DeadlineFires
  <1>17. ASSUME NEW r \in Reqs, Kill(r) PROVE LogOK'
    BY <1>17 DEF Kill
  <1>18. ASSUME Crash PROVE LogOK'
    BY <1>18 DEF Crash
  <1>19. ASSUME UNCHANGED vars PROVE LogOK'
    BY <1>19 DEF vars, LogOK
  <1> QED
    BY <1>1, <1>2, <1>3, <1>4, <1>5, <1>6, <1>7, <1>8, <1>9, <1>10, <1>11,
       <1>12, <1>13, <1>14, <1>15, <1>16, <1>17, <1>18, <1>19
    DEF Next, Handle, Environment

(* What was checked.                                                       *)
LEMMA CheckStep ==
    ASSUME StateOK, CheckInv, [Next]_vars
    PROVE  CheckInv'
  <1> USE Constants DEF StateOK, CheckInv, process, Goto, Finish, Audit,
          Returns, PCs, ShapeTypes, Started, Admitted, NeedToken,
          ResolveAuth, Refused, JSONRoutes, Commands, FileRoutes, Done
  <1>1. ASSUME NEW r \in Reqs, Route(r) PROVE CheckInv'
    BY <1>1 DEF Route
  <1>2. ASSUME NEW r \in Reqs, Decode(r) PROVE CheckInv'
    BY <1>2 DEF Decode
  <1>3. ASSUME NEW r \in Reqs, Refuse(r) PROVE CheckInv'
    BY <1>3 DEF Refuse
  <1>4. ASSUME NEW r \in Reqs, Validate(r) PROVE CheckInv'
    BY <1>4 DEF Validate
  <1>5. ASSUME NEW r \in Reqs, FileOperation(r) PROVE CheckInv'
    BY <1>5 DEF FileOperation
  <1>6. ASSUME NEW r \in Reqs, Prepare(r) PROVE CheckInv'
    BY <1>6 DEF Prepare
  <1>7. ASSUME NEW r \in Reqs, Start(r) PROVE CheckInv'
    BY <1>7 DEF Start
  <1>8. ASSUME NEW r \in Reqs, Reap(r) PROVE CheckInv'
    BY <1>8 DEF Reap
  <1>9. ASSUME NEW r \in Reqs, Drain(r) PROVE CheckInv'
    BY <1>9 DEF Drain
  <1>10. ASSUME NEW r \in Reqs, Cleanup(r) PROVE CheckInv'
    BY <1>10 DEF Cleanup
  <1>11. ASSUME NEW r \in Reqs, AuditResult(r) PROVE CheckInv'
    BY <1>11 DEF AuditResult
  <1>12. ASSUME NEW r \in Reqs, Reply(r) PROVE CheckInv'
    BY <1>12 DEF Reply
  <1>13. ASSUME NEW r \in Reqs, ChildExits(r) PROVE CheckInv'
    BY <1>13 DEF ChildExits
  <1>14. ASSUME NEW r \in Reqs, PipeInherited(r) PROVE CheckInv'
    BY <1>14 DEF PipeInherited
  <1>15. ASSUME NEW r \in Reqs, PipeReleased(r) PROVE CheckInv'
    BY <1>15 DEF PipeReleased
  <1>16. ASSUME NEW r \in Reqs, DeadlineFires(r) PROVE CheckInv'
    BY <1>16 DEF DeadlineFires
  <1>17. ASSUME NEW r \in Reqs, Kill(r) PROVE CheckInv'
    BY <1>17 DEF Kill
  <1>18. ASSUME Crash PROVE CheckInv'
    BY <1>18 DEF Crash
  <1>19. ASSUME UNCHANGED vars PROVE CheckInv'
    BY <1>19 DEF vars
  <1> QED
    BY <1>1, <1>2, <1>3, <1>4, <1>5, <1>6, <1>7, <1>8, <1>9, <1>10, <1>11,
       <1>12, <1>13, <1>14, <1>15, <1>16, <1>17, <1>18, <1>19
    DEF Next, Handle, Environment

(* What was started.                                                       *)
LEMMA RunStep ==
    ASSUME StateOK, CheckInv, RunInv, [Next]_vars
    PROVE  RunInv'
  <1> USE DEF StateOK, RunInv, process, Goto, Finish, Audit, Returns, PCs,
          Done, FileRoutes
  <1>1. ASSUME NEW r \in Reqs, Route(r) PROVE RunInv'
    BY <1>1 DEF Route
  <1>2. ASSUME NEW r \in Reqs, Decode(r) PROVE RunInv'
    BY <1>2 DEF Decode
  <1>3. ASSUME NEW r \in Reqs, Refuse(r) PROVE RunInv'
    BY <1>3 DEF Refuse
  <1>4. ASSUME NEW r \in Reqs, Validate(r) PROVE RunInv'
    BY <1>4 DEF Validate
  <1>5. ASSUME NEW r \in Reqs, FileOperation(r) PROVE RunInv'
    BY <1>5 DEF FileOperation
  <1>6. ASSUME NEW r \in Reqs, Prepare(r) PROVE RunInv'
    BY <1>6 DEF Prepare
  <1>7. ASSUME NEW r \in Reqs, Start(r) PROVE RunInv'
    BY <1>7 DEF Start
  <1>8. ASSUME NEW r \in Reqs, Reap(r) PROVE RunInv'
    BY <1>8 DEF Reap
  <1>9. ASSUME NEW r \in Reqs, Drain(r) PROVE RunInv'
    BY <1>9 DEF Drain
  <1>10. ASSUME NEW r \in Reqs, Cleanup(r) PROVE RunInv'
    BY <1>10 DEF Cleanup
  <1>11. ASSUME NEW r \in Reqs, AuditResult(r) PROVE RunInv'
    BY <1>11 DEF AuditResult
  <1>12. ASSUME NEW r \in Reqs, Reply(r) PROVE RunInv'
    BY <1>12 DEF Reply
  <1>13. ASSUME NEW r \in Reqs, ChildExits(r) PROVE RunInv'
    BY <1>13 DEF ChildExits
  <1>14. ASSUME NEW r \in Reqs, PipeInherited(r) PROVE RunInv'
    BY <1>14 DEF PipeInherited
  <1>15. ASSUME NEW r \in Reqs, PipeReleased(r) PROVE RunInv'
    BY <1>15 DEF PipeReleased
  <1>16. ASSUME NEW r \in Reqs, DeadlineFires(r) PROVE RunInv'
    BY <1>16 DEF DeadlineFires
  <1>17. ASSUME NEW r \in Reqs, Kill(r) PROVE RunInv'
    BY <1>17 DEF Kill
  <1>18. ASSUME Crash PROVE RunInv'
    BY <1>18 DEF Crash
  <1>19. ASSUME UNCHANGED vars PROVE RunInv'
    BY <1>19 DEF vars
  <1> QED
    BY <1>1, <1>2, <1>3, <1>4, <1>5, <1>6, <1>7, <1>8, <1>9, <1>10, <1>11,
       <1>12, <1>13, <1>14, <1>15, <1>16, <1>17, <1>18, <1>19
    DEF Next, Handle, Environment

(* The script file.                                                        *)
LEMMA ScriptStep ==
    ASSUME StateOK, RunInv, ScriptInv, [Next]_vars
    PROVE  ScriptInv'
  <1> USE DEF StateOK, RunInv, ScriptInv, NeedsScript, process, Goto, Finish,
          Audit, Returns, PCs, Done, Started, Commands
  <1>1. ASSUME NEW r \in Reqs, Route(r) PROVE ScriptInv'
    BY <1>1 DEF Route
  <1>2. ASSUME NEW r \in Reqs, Decode(r) PROVE ScriptInv'
    BY <1>2 DEF Decode
  <1>3. ASSUME NEW r \in Reqs, Refuse(r) PROVE ScriptInv'
    BY <1>3 DEF Refuse
  <1>4. ASSUME NEW r \in Reqs, Validate(r) PROVE ScriptInv'
    BY <1>4 DEF Validate
  <1>5. ASSUME NEW r \in Reqs, FileOperation(r) PROVE ScriptInv'
    BY <1>5 DEF FileOperation
  <1>6. ASSUME NEW r \in Reqs, Prepare(r) PROVE ScriptInv'
    BY <1>6, PrepareCases
  <1>7. ASSUME NEW r \in Reqs, Start(r) PROVE ScriptInv'
    BY <1>7 DEF Start
  <1>8. ASSUME NEW r \in Reqs, Reap(r) PROVE ScriptInv'
    BY <1>8 DEF Reap
  <1>9. ASSUME NEW r \in Reqs, Drain(r) PROVE ScriptInv'
    BY <1>9 DEF Drain
  <1>10. ASSUME NEW r \in Reqs, Cleanup(r) PROVE ScriptInv'
    BY <1>10 DEF Cleanup
  <1>11. ASSUME NEW r \in Reqs, AuditResult(r) PROVE ScriptInv'
    BY <1>11 DEF AuditResult
  <1>12. ASSUME NEW r \in Reqs, Reply(r) PROVE ScriptInv'
    BY <1>12 DEF Reply
  <1>13. ASSUME NEW r \in Reqs, ChildExits(r) PROVE ScriptInv'
    BY <1>13 DEF ChildExits
  <1>14. ASSUME NEW r \in Reqs, PipeInherited(r) PROVE ScriptInv'
    BY <1>14 DEF PipeInherited
  <1>15. ASSUME NEW r \in Reqs, PipeReleased(r) PROVE ScriptInv'
    BY <1>15 DEF PipeReleased
  <1>16. ASSUME NEW r \in Reqs, DeadlineFires(r) PROVE ScriptInv'
    BY <1>16 DEF DeadlineFires
  <1>17. ASSUME NEW r \in Reqs, Kill(r) PROVE ScriptInv'
    BY <1>17 DEF Kill
  <1>18. ASSUME Crash PROVE ScriptInv'
    BY <1>18 DEF Crash
  <1>19. ASSUME UNCHANGED vars PROVE ScriptInv'
    BY <1>19 DEF vars
  <1> QED
    BY <1>1, <1>2, <1>3, <1>4, <1>5, <1>6, <1>7, <1>8, <1>9, <1>10, <1>11,
       <1>12, <1>13, <1>14, <1>15, <1>16, <1>17, <1>18, <1>19
    DEF Next, Handle, Environment

(* What was attempted was admitted.                                        *)
LEMMA AcceptedStep ==
    ASSUME StateOK, CheckInv, RunInv, OnlyAcceptedRuns, [Next]_vars
    PROVE  OnlyAcceptedRuns'
  <1> USE Constants DEF StateOK, CheckInv, RunInv, OnlyAcceptedRuns,
          Attempted, Admitted, Started, ShapeTypes, process, Goto, Finish,
          Audit, Returns, Commands, FileRoutes, JSONRoutes
  <1>1. ASSUME NEW r \in Reqs, Route(r) PROVE OnlyAcceptedRuns'
    BY <1>1 DEF Route
  <1>2. ASSUME NEW r \in Reqs, Decode(r) PROVE OnlyAcceptedRuns'
    BY <1>2 DEF Decode
  <1>3. ASSUME NEW r \in Reqs, Refuse(r) PROVE OnlyAcceptedRuns'
    BY <1>3 DEF Refuse
  <1>4. ASSUME NEW r \in Reqs, Validate(r) PROVE OnlyAcceptedRuns'
    BY <1>4 DEF Validate
  <1>5. ASSUME NEW r \in Reqs, FileOperation(r) PROVE OnlyAcceptedRuns'
    BY <1>5 DEF FileOperation
  <1>6. ASSUME NEW r \in Reqs, Prepare(r) PROVE OnlyAcceptedRuns'
    BY <1>6 DEF Prepare
  <1>7. ASSUME NEW r \in Reqs, Start(r) PROVE OnlyAcceptedRuns'
    BY <1>7 DEF Start
  <1>8. ASSUME NEW r \in Reqs, Reap(r) PROVE OnlyAcceptedRuns'
    BY <1>8 DEF Reap
  <1>9. ASSUME NEW r \in Reqs, Drain(r) PROVE OnlyAcceptedRuns'
    BY <1>9 DEF Drain
  <1>10. ASSUME NEW r \in Reqs, Cleanup(r) PROVE OnlyAcceptedRuns'
    BY <1>10 DEF Cleanup
  <1>11. ASSUME NEW r \in Reqs, AuditResult(r) PROVE OnlyAcceptedRuns'
    BY <1>11 DEF AuditResult
  <1>12. ASSUME NEW r \in Reqs, Reply(r) PROVE OnlyAcceptedRuns'
    BY <1>12 DEF Reply
  <1>13. ASSUME NEW r \in Reqs, ChildExits(r) PROVE OnlyAcceptedRuns'
    BY <1>13 DEF ChildExits
  <1>14. ASSUME NEW r \in Reqs, PipeInherited(r) PROVE OnlyAcceptedRuns'
    BY <1>14 DEF PipeInherited
  <1>15. ASSUME NEW r \in Reqs, PipeReleased(r) PROVE OnlyAcceptedRuns'
    BY <1>15 DEF PipeReleased
  <1>16. ASSUME NEW r \in Reqs, DeadlineFires(r) PROVE OnlyAcceptedRuns'
    BY <1>16 DEF DeadlineFires
  <1>17. ASSUME NEW r \in Reqs, Kill(r) PROVE OnlyAcceptedRuns'
    BY <1>17 DEF Kill
  <1>18. ASSUME Crash PROVE OnlyAcceptedRuns'
    BY <1>18 DEF Crash
  <1>19. ASSUME UNCHANGED vars PROVE OnlyAcceptedRuns'
    BY <1>19 DEF vars
  <1> QED
    BY <1>1, <1>2, <1>3, <1>4, <1>5, <1>6, <1>7, <1>8, <1>9, <1>10, <1>11,
       <1>12, <1>13, <1>14, <1>15, <1>16, <1>17, <1>18, <1>19
    DEF Next, Handle, Environment

(* What a record adds, and leaves alone.                                    *)
LEMMA EntriesAppended ==
    ASSUME LogOK, NEW r \in Reqs, NEW o, NEW u, Audit(r, o, u),
           UNCHANGED <<shape, result>>
    PROVE  /\ EntriesOf(r)' = EntriesOf(r) \cup {Len(log) + 1}
           /\ o = shape[r].route /\ u = result[r] => Recorded(r)'
           /\ \A q \in Reqs : q # r =>
                 EntriesOf(q)' = EntriesOf(q) /\ (Recorded(q) => Recorded(q)')
  <1>1. /\ DOMAIN log = 1 .. Len(log) /\ Len(log) \in Nat
        /\ DOMAIN log' = 1 .. (Len(log) + 1)
        /\ log'[Len(log) + 1] = [req |-> r, op |-> o, outcome |-> u]
        /\ \A i \in DOMAIN log : log'[i] = log[i]
    BY DEF LogOK, Audit
  <1>2. /\ log'[Len(log) + 1].req = r
        /\ log'[Len(log) + 1].op = o /\ log'[Len(log) + 1].outcome = u
    BY <1>1
  <1>3. EntriesOf(r)' = EntriesOf(r) \cup {Len(log) + 1}
    BY <1>1, <1>2 DEF EntriesOf
  <1>4. ASSUME NEW q \in Reqs, q # r PROVE EntriesOf(q)' = EntriesOf(q)
    BY <1>1, <1>2, <1>4 DEF EntriesOf
  <1>5. ASSUME NEW q \in Reqs, q # r, Recorded(q) PROVE Recorded(q)'
    BY <1>1, <1>4, <1>5 DEF Recorded, EntriesOf
  <1>6. o = shape[r].route /\ u = result[r] => Recorded(r)'
    BY <1>2, <1>3 DEF Recorded
  <1> QED
    BY <1>3, <1>4, <1>5, <1>6

(* Without a record the entries of a request stay.                         *)
LEMMA EntriesKept ==
    ASSUME UNCHANGED log, NEW r \in Reqs
    PROVE  /\ EntriesOf(r)' = EntriesOf(r)
           /\ UNCHANGED shape /\ result'[r] = result[r] =>
                 Recorded(r)' = Recorded(r)
  BY DEF EntriesOf, Recorded

(* One record at most, made after the operation.                           *)
LEMMA RecordStep ==
    ASSUME StateOK, LogOK, CheckInv, RunInv, RecordInv, [Next]_vars
    PROVE  RecordInv'
  <1> USE DEF StateOK, RecordInv, Unrecorded, Started, process, Goto, Finish,
          Returns, Done, PCs
  <1>1. ASSUME NEW r \in Reqs, Route(r) PROVE RecordInv'
    BY <1>1, EntriesKept DEF Route
  <1>2. ASSUME NEW r \in Reqs, Decode(r) PROVE RecordInv'
    <2>1. /\ pc[r] = "routed" /\ UNCHANGED <<shape, result, child>>
          /\ UNCHANGED code \/ \E c : code' = [code EXCEPT ![r] = c]
          /\ \/ Goto(r, "decoded") /\ UNCHANGED log
             \/ Goto(r, "refusing") /\ Audit(r, "decode", "denied")
      BY <1>2, DecodeLog, Zenon
    <2>2. CASE Goto(r, "decoded") /\ UNCHANGED log
      BY <2>1, <2>2, EntriesKept
    <2>3. CASE Goto(r, "refusing") /\ Audit(r, "decode", "denied")
      <3>1. /\ EntriesOf(r)' = EntriesOf(r) \cup {Len(log) + 1}
            /\ \A q \in Reqs : q # r =>
                  EntriesOf(q)' = EntriesOf(q) /\ (Recorded(q) => Recorded(q)')
        BY <2>1, <2>3, EntriesAppended
      <3> QED
        BY <2>1, <2>3, <3>1
    <2> QED
      BY <2>1, <2>2, <2>3
  <1>3. ASSUME NEW r \in Reqs, Refuse(r) PROVE RecordInv'
    BY <1>3, EntriesKept DEF Refuse
  <1>4. ASSUME NEW r \in Reqs, Validate(r) PROVE RecordInv'
    BY <1>4, EntriesKept DEF Validate
  <1>5. ASSUME NEW r \in Reqs, FileOperation(r) PROVE RecordInv'
    BY <1>5, EntriesKept DEF FileOperation
  <1>6. ASSUME NEW r \in Reqs, Prepare(r) PROVE RecordInv'
    BY <1>6, EntriesKept DEF Prepare
  <1>7. ASSUME NEW r \in Reqs, Start(r) PROVE RecordInv'
    BY <1>7, EntriesKept DEF Start
  <1>8. ASSUME NEW r \in Reqs, Reap(r) PROVE RecordInv'
    BY <1>8, EntriesKept DEF Reap
  <1>9. ASSUME NEW r \in Reqs, Drain(r) PROVE RecordInv'
    BY <1>9, EntriesKept DEF Drain
  <1>10. ASSUME NEW r \in Reqs, Cleanup(r) PROVE RecordInv'
    BY <1>10, EntriesKept DEF Cleanup
  <1>11. ASSUME NEW r \in Reqs, AuditResult(r) PROVE RecordInv'
    <2>1. /\ pc[r] = "ran" /\ Goto(r, "replying")
          /\ Audit(r, shape[r].route, result[r])
          /\ UNCHANGED <<shape, result, code, child>>
      BY <1>11, Zenon DEF AuditResult, process
    <2>2. /\ EntriesOf(r)' = EntriesOf(r) \cup {Len(log) + 1}
          /\ Recorded(r)'
          /\ \A q \in Reqs : q # r =>
                EntriesOf(q)' = EntriesOf(q) /\ (Recorded(q) => Recorded(q)')
      BY <2>1, EntriesAppended
    <2> QED
      BY <2>1, <2>2
  <1>12. ASSUME NEW r \in Reqs, Reply(r) PROVE RecordInv'
    BY <1>12, EntriesKept DEF Reply
  <1>13. ASSUME NEW r \in Reqs, ChildExits(r) PROVE RecordInv'
    BY <1>13, EntriesKept DEF ChildExits
  <1>14. ASSUME NEW r \in Reqs, PipeInherited(r) PROVE RecordInv'
    BY <1>14, EntriesKept DEF PipeInherited
  <1>15. ASSUME NEW r \in Reqs, PipeReleased(r) PROVE RecordInv'
    BY <1>15, EntriesKept DEF PipeReleased
  <1>16. ASSUME NEW r \in Reqs, DeadlineFires(r) PROVE RecordInv'
    BY <1>16, EntriesKept DEF DeadlineFires
  <1>17. ASSUME NEW r \in Reqs, Kill(r) PROVE RecordInv'
    BY <1>17, EntriesKept DEF Kill
  <1>18. ASSUME Crash PROVE RecordInv'
    BY <1>18, EntriesKept DEF Crash
  <1>19. ASSUME UNCHANGED vars PROVE RecordInv'
    BY <1>19, EntriesKept DEF vars
  <1> QED
    BY <1>1, <1>2, <1>3, <1>4, <1>5, <1>6, <1>7, <1>8, <1>9, <1>10, <1>11,
       <1>12, <1>13, <1>14, <1>15, <1>16, <1>17, <1>18, <1>19
    DEF Next, Handle, Environment

(* The answer agrees with it.                                              *)
LEMMA AnswerStep ==
    ASSUME StateOK, LogOK, CheckInv, RunInv, RecordInv, AnswerInv, [Next]_vars
    PROVE  AnswerInv'
  <1> USE DEF StateOK, RunInv, RecordInv, AnswerInv, Attempted, process,
          Goto, Finish, Returns, Done, PCs
  <1>1. ASSUME NEW r \in Reqs, Route(r) PROVE AnswerInv'
    BY <1>1, EntriesKept DEF Route
  <1>2. ASSUME NEW r \in Reqs, Decode(r) PROVE AnswerInv'
    <2>1. /\ pc[r] = "routed" /\ UNCHANGED <<shape, result, child>>
          /\ UNCHANGED code \/ \E c : code' = [code EXCEPT ![r] = c]
          /\ \/ Goto(r, "decoded") /\ UNCHANGED log
             \/ Goto(r, "refusing") /\ Audit(r, "decode", "denied")
      BY <1>2, DecodeLog, Zenon
    <2>2. CASE Goto(r, "decoded") /\ UNCHANGED log
      BY <2>1, <2>2, EntriesKept
    <2>3. CASE Goto(r, "refusing") /\ Audit(r, "decode", "denied")
      <3>1. /\ EntriesOf(r)' = EntriesOf(r) \cup {Len(log) + 1}
            /\ \A q \in Reqs : q # r =>
                  EntriesOf(q)' = EntriesOf(q) /\ (Recorded(q) => Recorded(q)')
        BY <2>1, <2>3, EntriesAppended
      <3> QED
        BY <2>1, <2>3, <3>1
    <2> QED
      BY <2>1, <2>2, <2>3
  <1>3. ASSUME NEW r \in Reqs, Refuse(r) PROVE AnswerInv'
    BY <1>3, EntriesKept DEF Refuse
  <1>4. ASSUME NEW r \in Reqs, Validate(r) PROVE AnswerInv'
    BY <1>4, EntriesKept DEF Validate
  <1>5. ASSUME NEW r \in Reqs, FileOperation(r) PROVE AnswerInv'
    BY <1>5, EntriesKept DEF FileOperation
  <1>6. ASSUME NEW r \in Reqs, Prepare(r) PROVE AnswerInv'
    BY <1>6, EntriesKept DEF Prepare
  <1>7. ASSUME NEW r \in Reqs, Start(r) PROVE AnswerInv'
    BY <1>7, EntriesKept DEF Start
  <1>8. ASSUME NEW r \in Reqs, Reap(r) PROVE AnswerInv'
    BY <1>8, EntriesKept DEF Reap
  <1>9. ASSUME NEW r \in Reqs, Drain(r) PROVE AnswerInv'
    BY <1>9, EntriesKept DEF Drain
  <1>10. ASSUME NEW r \in Reqs, Cleanup(r) PROVE AnswerInv'
    BY <1>10, EntriesKept DEF Cleanup
  <1>11. ASSUME NEW r \in Reqs, AuditResult(r) PROVE AnswerInv'
    <2>1. /\ pc[r] = "ran" /\ Goto(r, "replying")
          /\ Audit(r, shape[r].route, result[r])
          /\ UNCHANGED <<shape, result, code, child>>
      BY <1>11, Zenon DEF AuditResult, process
    <2>2. /\ EntriesOf(r)' = EntriesOf(r) \cup {Len(log) + 1}
          /\ Recorded(r)'
          /\ \A q \in Reqs : q # r =>
                EntriesOf(q)' = EntriesOf(q) /\ (Recorded(q) => Recorded(q)')
      BY <2>1, EntriesAppended
    <2> QED
      BY <2>1, <2>2
  <1>12. ASSUME NEW r \in Reqs, Reply(r) PROVE AnswerInv'
    BY <1>12, EntriesKept DEF Reply
  <1>13. ASSUME NEW r \in Reqs, ChildExits(r) PROVE AnswerInv'
    BY <1>13, EntriesKept DEF ChildExits
  <1>14. ASSUME NEW r \in Reqs, PipeInherited(r) PROVE AnswerInv'
    BY <1>14, EntriesKept DEF PipeInherited
  <1>15. ASSUME NEW r \in Reqs, PipeReleased(r) PROVE AnswerInv'
    BY <1>15, EntriesKept DEF PipeReleased
  <1>16. ASSUME NEW r \in Reqs, DeadlineFires(r) PROVE AnswerInv'
    BY <1>16, EntriesKept DEF DeadlineFires
  <1>17. ASSUME NEW r \in Reqs, Kill(r) PROVE AnswerInv'
    BY <1>17, EntriesKept DEF Kill
  <1>18. ASSUME Crash PROVE AnswerInv'
    BY <1>18, EntriesKept DEF Crash
  <1>19. ASSUME UNCHANGED vars PROVE AnswerInv'
    BY <1>19, EntriesKept DEF vars
  <1> QED
    BY <1>1, <1>2, <1>3, <1>4, <1>5, <1>6, <1>7, <1>8, <1>9, <1>10, <1>11,
       <1>12, <1>13, <1>14, <1>15, <1>16, <1>17, <1>18, <1>19
    DEF Next, Handle, Environment

(* What the verbs are told.                                                *)
LEMMA VerbStep ==
    ASSUME StateOK, CheckInv, RunInv, VerbInv, [Next]_vars
    PROVE  VerbInv'
  <1> USE DEF StateOK, CheckInv, RunInv, VerbInv, Started, Admitted, process,
          Goto, Finish, Audit, Returns, PCs, Done, Commands, FileRoutes
  <1>1. ASSUME NEW r \in Reqs, Route(r) PROVE VerbInv'
    BY <1>1 DEF Route
  <1>2. ASSUME NEW r \in Reqs, Decode(r) PROVE VerbInv'
    BY <1>2 DEF Decode
  <1>3. ASSUME NEW r \in Reqs, Refuse(r) PROVE VerbInv'
    BY <1>3 DEF Refuse
  <1>4. ASSUME NEW r \in Reqs, Validate(r) PROVE VerbInv'
    BY <1>4 DEF Validate
  <1>5. ASSUME NEW r \in Reqs, FileOperation(r) PROVE VerbInv'
    BY <1>5 DEF FileOperation
  <1>6. ASSUME NEW r \in Reqs, Prepare(r) PROVE VerbInv'
    BY <1>6 DEF Prepare
  <1>7. ASSUME NEW r \in Reqs, Start(r) PROVE VerbInv'
    BY <1>7 DEF Start
  <1>8. ASSUME NEW r \in Reqs, Reap(r) PROVE VerbInv'
    BY <1>8 DEF Reap
  <1>9. ASSUME NEW r \in Reqs, Drain(r) PROVE VerbInv'
    BY <1>9 DEF Drain
  <1>10. ASSUME NEW r \in Reqs, Cleanup(r) PROVE VerbInv'
    BY <1>10 DEF Cleanup
  <1>11. ASSUME NEW r \in Reqs, AuditResult(r) PROVE VerbInv'
    BY <1>11 DEF AuditResult
  <1>12. ASSUME NEW r \in Reqs, Reply(r) PROVE VerbInv'
    BY <1>12 DEF Reply
  <1>13. ASSUME NEW r \in Reqs, ChildExits(r) PROVE VerbInv'
    BY <1>13 DEF ChildExits
  <1>14. ASSUME NEW r \in Reqs, PipeInherited(r) PROVE VerbInv'
    BY <1>14 DEF PipeInherited
  <1>15. ASSUME NEW r \in Reqs, PipeReleased(r) PROVE VerbInv'
    BY <1>15 DEF PipeReleased
  <1>16. ASSUME NEW r \in Reqs, DeadlineFires(r) PROVE VerbInv'
    BY <1>16 DEF DeadlineFires
  <1>17. ASSUME NEW r \in Reqs, Kill(r) PROVE VerbInv'
    BY <1>17 DEF Kill
  <1>18. ASSUME Crash PROVE VerbInv'
    BY <1>18 DEF Crash
  <1>19. ASSUME UNCHANGED vars PROVE VerbInv'
    BY <1>19 DEF vars
  <1> QED
    BY <1>1, <1>2, <1>3, <1>4, <1>5, <1>6, <1>7, <1>8, <1>9, <1>10, <1>11,
       <1>12, <1>13, <1>14, <1>15, <1>16, <1>17, <1>18, <1>19
    DEF Next, Handle, Environment

(* All parts hold initially, ...                                           *)
LEMMA InitInv == Init => RequestInv
  <1> SUFFICES ASSUME Init PROVE RequestInv
    OBVIOUS
  <1>1. StateOK /\ LogOK
    BY Constants DEF Init, StateOK, LogOK, PCs, Outcomes
  <1>2. \A r \in Reqs : EntriesOf(r) = {}
    BY DEF Init, EntriesOf
  <1>3. \A r \in Reqs : /\ pc[r] = "new" /\ result[r] = "none"
                        /\ child[r] = "none" /\ ~script[r]
    BY DEF Init
  <1>4. CheckInv /\ RunInv
    BY <1>3 DEF CheckInv, RunInv, Admitted, Started
  <1>5. ScriptInv
    BY <1>3 DEF ScriptInv, Started
  <1>6. RecordInv
    BY <1>2, <1>3 DEF RecordInv
  <1>7. AnswerInv /\ OnlyAcceptedRuns
    BY <1>3 DEF AnswerInv, OnlyAcceptedRuns, Attempted
  <1>8. VerbInv
    BY <1>3 DEF VerbInv
  <1> QED
    BY <1>1, <1>4, <1>5, <1>6, <1>7, <1>8, TypeParts DEF RequestInv

(* ... and always.                                                         *)
LEMMA Invariant == Spec => []RequestInv
  <1>1. RequestInv /\ [Next]_vars => RequestInv'
    <2> SUFFICES ASSUME RequestInv, [Next]_vars PROVE RequestInv'
      OBVIOUS
    <2>1. /\ StateOK /\ LogOK /\ CheckInv /\ RunInv /\ ScriptInv
          /\ RecordInv /\ AnswerInv /\ OnlyAcceptedRuns /\ VerbInv
      BY TypeParts DEF RequestInv
    <2>2. StateOK' /\ LogOK' /\ CheckInv' /\ RunInv' /\ ScriptInv'
      BY <2>1, StateStep, LogStep, CheckStep, RunStep, ScriptStep
    <2>3. RecordInv' /\ AnswerInv' /\ OnlyAcceptedRuns' /\ VerbInv'
      BY <2>1, RecordStep, AnswerStep, AcceptedStep, VerbStep
    <2>4. TypeOK'
      BY <2>2 DEF TypeOK, StateOK, LogOK, Entries
    <2> QED
      BY <2>2, <2>3, <2>4 DEF RequestInv
  <1> QED
    BY <1>1, InitInv, PTL DEF Spec

---------------------------------------------------------------------------
(* The worker's state keeps its types; in particular every record has an   *)
(* outcome (server.go:142-254).                                            *)
THEOREM TypeCorrect == Spec => []TypeOK
  <1>1. RequestInv => TypeOK
    BY DEF RequestInv
  <1> QED
    BY <1>1, Invariant, PTL

(* Nothing is attempted that token, method, body or arguments forbid, but  *)
(* for the upload over the cap, which is always denied (server.go:69-214,  *)
(* auth.go:29-56).                                                         *)
THEOREM OnlyAcceptedRunsHolds == Spec => []OnlyAcceptedRuns
  <1>1. RequestInv => OnlyAcceptedRuns
    BY DEF RequestInv
  <1> QED
    BY <1>1, Invariant, PTL

(* The script file outlives the shell that reads it and not the answer     *)
(* (exec.go:129-132).                                                      *)
THEOREM ScriptLifetimeHolds == Spec => []ScriptLifetime
  <1>1. RequestInv => ScriptLifetime
    <2>1. \A s \in {"ran", "replying", "answered"} :
             s \in PCs \ (Started \cup {"dead"})
      BY DEF PCs, Started
    <2> QED
      BY <2>1, Zenon DEF RequestInv, ScriptInv, NeedsScript, ScriptLifetime
  <1> QED
    BY <1>1, Invariant, PTL

(* A request is recorded at most once, and what was attempted and answered *)
(* is on record with the outcome the client was told (server.go:142-254).  *)
THEOREM AnswerMatchesRecordHolds == Spec => []AnswerMatchesRecord
  <1>1. RequestInv => AnswerMatchesRecord
    <2> SUFFICES ASSUME RequestInv PROVE AnswerMatchesRecord
      OBVIOUS
    <2>1. ASSUME NEW r \in Reqs PROVE Cardinality(EntriesOf(r)) <= 1
      <3>1. CASE EntriesOf(r) = {}
        BY <3>1, FS_EmptySet
      <3>2. CASE EntriesOf(r) # {}
        <4>1. PICK i : i \in EntriesOf(r)
          BY <3>2
        <4>2. \A j \in EntriesOf(r) : i = j
          BY <4>1, Zenon DEF RequestInv, RecordInv
        <4>3. EntriesOf(r) = {i}
          BY <4>1, <4>2
        <4>4. Cardinality({i}) = 1
          BY FS_Singleton
        <4> QED
          BY <4>3, <4>4
      <3> QED
        BY <3>1, <3>2
    <2> QED
      BY <2>1, Zenon DEF RequestInv, AnswerInv, Recorded, AnswerMatchesRecord
  <1> QED
    BY <1>1, Invariant, PTL

(* A connection that breaks changes nothing in the worker.                 *)
LEMMA WorkerUnderVerbs == VerbSpec => Spec
  <1>1. VerbInit => Init
    BY DEF VerbInit
  <1>2. [VerbNext]_verbVars => [Next]_vars
    BY DEF VerbNext, verbVars, Break
  <1> QED
    BY <1>1, <1>2, PTL DEF VerbSpec, Spec

(* The exit code of a verb tells what became of its request unless its     *)
(* connection broke, with the exceptions the property names, whichever     *)
(* connections break and when (exec.go:43-55, cli.go:215-235,              *)
(* client.go:35-157).                                                      *)
THEOREM ExitCodeTellsHolds == VerbSpec => []ExitCodeTells
  <1>1. RequestInv => ExitCodeTells
    <2> SUFFICES ASSUME RequestInv, NEW r \in Reqs, Over(r)
                 PROVE  /\ ExitCode(r) = 0 =>
                             \/ result[r] = "success"
                             \/ shape[r].route = "info"
                             \/ shape[r].route = "download"
                                  /\ result[r] = "denied"
                             \/ status[r] # 0 /\ status[r] % 256 = 0
                        /\ ExitCode(r) # 0 =>
                             result[r] # "success" \/ r \in broken
                        /\ child[r] = "running" =>
                             ExitCode(r) # 0 /\ r \in broken
      BY DEF ExitCodeTells
    <2>1. /\ StateOK /\ RunInv /\ AnswerInv /\ VerbInv
          /\ Codes \subseteq Nat
      BY TypeParts, Constants DEF RequestInv
    <2>2. pc[r] = "answered" => child[r] # "running"
      BY <2>1 DEF RunInv
    <2>3. CASE r \in broken
      BY <2>3 DEF ExitCode
    <2>4. CASE r \notin broken /\ code[r] = 200
                 /\ shape[r].route \in Commands
      <3>1. pc[r] = "answered"
        BY <2>4 DEF Over
      <3> QED
        BY <2>1, <2>2, <2>4, <3>1
           DEF StateOK, VerbInv, ExitCode, EmitExec, ResponseCode
    <2>5. CASE r \notin broken /\ code[r] = 200
                 /\ shape[r].route \notin Commands
      <3>1. pc[r] = "answered"
        BY <2>5 DEF Over
      <3> QED
        BY <2>1, <2>2, <2>5, <3>1
           DEF StateOK, VerbInv, AnswerInv, Attempted, ExitCode, Outcomes
    <2>6. CASE r \notin broken /\ code[r] # 200
      <3>1. pc[r] = "answered"
        BY <2>6 DEF Over
      <3> QED
        BY <2>1, <2>2, <2>6, <3>1
           DEF AnswerInv, Attempted, ExitCode
    <2> QED
      BY <2>3, <2>4, <2>5, <2>6
  <1> QED
    BY <1>1, Invariant, WorkerUnderVerbs, PTL
=============================================================================

# SparkyCtrl in TLA+

SparkyCtrl is one Go binary. `sparkyctrl serve` is a *worker*: an HTTP server on
every controlled host that runs commands and reads, writes and edits files.
The same binary is the client (`exec`, `shell`, `read`, `write`, `edit`, ...), an
MCP server for agents (`sparkyctrl mcp`), a verifier of the worker's audit log
(`sparkyctrl verify`) and its own updater (`sparkyctrl upgrade`). This directory
holds specifications of its parts, the TLC configurations that check them, and
proofs that TLAPS checks.

`PROJECT.json` lists components, runs, mutants, findings, hazards and theorems,
and maps every definition to the source lines it stands for.

## Inventory

| Component | State | Operations | Interacts with |
|---|---|---|---|
| audit log (`server/audit.go`) | the log file, the key file, `Auditor.key`, `prevHash`, the mutex | load, create, persist the key; open and resume; `Log`; `Verify` | called by every handler before it answers; read by `verify` |
| request handling (`server/server.go`, `protocol/validate.go`) | one goroutine per request | token, route, method, body, validation, answer | audit log, execution, file operations |
| command execution (`server/exec.go`) | child process, pipes, context deadline, temporary script | `RunExec`, `RunShell` | the operating system |
| file operations (`server/files.go`, `server/edit.go`) | the file system | upload, download, edit (`atomicWrite`), ls | each other, through inodes |
| path fence (`server/fence.go`) | its local variables, while the tree changes | `ResolveFenced`, look by look | runs first in every file operation |
| worker configuration (`server/auth.go`, `cli.go` `runServe`) | the token, the audit key | `ResolveAuth`, `LoadTokenFile`, key handling | read once at start |
| self-update (`upgrade/`) | binary, its backup, the download, the worker | resolve, fetch, verify, check, place, restart | release server, systemd, `supervisor.sh` |
| MCP bridge (`mcp/mcp.go`), client (`client/`) | the loop's one outstanding request | read a frame, handle, dispatch, answer | agent, workers |
| verbs (`cli/cli.go`), address book and tokens (`client/hosts.go`) | none | one request each, an exit code | workers |
| Unraid supervisor (`deploy/unraid/`) | fail counter, staged binary | stage, run, count, give up; `update.sh`'s push and kill | self-update |
| shell builders, installers, release scripts | none | strings; sequential shell | external tools |

What is hard about them, and what makes each correct:

* **Audit log.** Handlers log concurrently; the process dies between any two
  steps, and a restarted one resumes from whatever bytes the file ends in; writes
  can be short and their errors are ignored. Correct: an untouched log verifies;
  a record missing or changed shows; whoever is answered is in the log.
* **File operations.** No lock orders requests on one path. An edit renames a
  new inode over the path, an upload truncates the old one in place, a reader
  keeps the inode it opened. Correct: edits are atomic to readers and to crashes.
* **Fence.** It looks at the tree a dozen times and returns a name that is opened
  later, while commands and other requests move links about; the path may end in
  a link to nothing, in a circle, or not exist yet. Correct: what is opened is
  inside; what is inside is not refused; every request ends.
* **Requests and commands.** Deadline, kill, exit of the child and processes
  that inherited its pipes are in a race. Correct: nothing is run that a check
  refused, answer, record and exit code agree, nothing is left running or on disk.
* **Self-update.** A sequence of a dozen steps, each of which can fail or be the
  last one before a kill, on four platforms with different ways to replace and
  restart, and a supervisor that stages, runs and counts meanwhile. Correct: only
  signed images run, the host keeps a binary that runs, the new one is in the end
  the one that runs, the supervisor gives up for a reason.
* **Bridge.** One loop, no timeout, connections that break after the effect.
  Correct: answers in order, effects at most once, answers that are true.

## Modules

| Module | Models |
|---|---|
| `AuditChain` | lines of the log, hashes and MACs, `lastRecordHash`, `Verify`, the exit code of `verify` |
| `AuditLog` | `runServe`'s key handling, `NewAuditor`, handlers around `Log`, crashes, restarts, short writes |
| `AuditSink` | abstract: a journal; a request is recorded once, then answered |
| `AuditTamper` | `AuditLog` with somebody without the key editing the file |
| `EditText` | the substitution an edit makes, and when it is refused |
| `EditRegister` | abstract: one register, editors that take a snapshot and swap |
| `FileOps` | `Edit`, `atomicWrite`, `Upload`, `Download` on one path, system call by system call |
| `Fence` | `ResolveFenced`, look by look, and the operation that opens what it returned |
| `Worker` | handlers of `server.go`, `ResolveAuth`, `RunExec`/`RunShell`/`captureRun`, the child and its heirs |
| `Verbs` | the exit codes of the command line's verbs |
| `Upgrade` | `upgrade.Run` with `DownloadAndVerify`, `CheckVersion`, `Place` and `Restart` of each platform; systemd, `supervisor.sh`, `update.sh`, reboots |
| `Bridge` | `mcp.run`, `handle`, `dispatch`, `client.do`; the address book and the token of a call |
| `AuditLogProofs`, `AuditLossProofs`, `AuditTamperProofs`, `FileOpsProofs`, `UpgradeProofs`, `WorkerProofs`, `BridgeProofs`, `FenceProofs` | theorems |
| `MC...` | constants and symmetry for TLC |

`AuditTamper` composes with `AuditLog`, and `Verbs` with `Worker`, by EXTENDS;
`AuditLog` is shown to implement `AuditSink`, and `FileOps` to implement
`EditRegister`, by INSTANCE with a refinement mapping. `Worker` and `Bridge` take
what another module details as one step: in `Worker` an audit record is one append
(`AuditLog` has its steps) and a file operation has an outcome (`FileOps` and
`Fence` have its steps); in `Bridge` a worker runs an operation in one step.

A definition called "Variant" in its comment is not part of a specification: it
is a plausible wrong version of the definition after it, and `PROJECT.json`
("mutants") names the property it breaks. Every property of a passing run has one.

### Correspondence

* `AuditLog`: an action per step between which another goroutine or a crash can
  come. `Lock`, `Chain`, `Write` are `Log` cut at `mu.Lock`, before `f.Write` and
  at the deferred unlock. `GenerateKey` and `PersistKey` are `os.WriteFile`, which
  creates the file before it fills it. `serial` stands for SHA-256: a line's `id`
  is its hash, unique by construction, and a line's `prev` and `key` are what it
  was chained to and signed with. A short write leaves the line without its
  newline ("body"), part of it ("part") or nothing ("none"); `AppendBytes` glues
  the next line to a torn tail.
* `AuditTamper`: an edited line is a record whose MAC fits no key, no JSON any more
  (`EditRecord`), or a record without `hmac` or `prev_hash`, which `Verify` takes for
  one of a version without the chain (`StripRecord`).
* `FileOps`: one action per system call. An inode holds data, a mode and whether
  it reached the disk. A content is a sequence of tokens, one per buffer copied.
* `Fence`: one action per look at the tree: the `Lstat` of the leaf (`LookAtLeaf`),
  its `Readlink` (`FollowLeaf`), `EvalSymlinks` of the path (`Evaluate`) and of its
  ancestors (`Climb`), of the fence (`Check`), then what the operation does by name:
  one `open`, or an edit's `Stat`, `ReadFile`, `CreateTemp`, `Chmod`, `Rename` and
  `Remove`, each a step (`EditStat` to `EditRemove`), of which `touched` keeps what it
  read or wrote, the temporary file included. `Walk` goes a name or a link at a time
  (`Onward`, until it `Stops`) and may follow so many links: the system 40 (`Kernel`,
  which is behind `Lstat` and every `open`), `filepath.EvalSymlinks` 255 (`Eval`).
  `Clean` is `filepath.Clean`, by the text alone. Outside `Places` nothing can be
  created. `Change` is anybody else, between any two of them.
* `Worker`: `Start` is `cmd.Start` within `captureRun`, `Reap` its wait for the
  process, `Drain` its wait for the pipes, `Kill` the context's. `DeadlineFires`,
  `ChildExits`, `PipeInherited`, `PipeReleased` belong to the environment. How the
  worker was started (`auth`) is chosen at the beginning and kept by restarts.
* `Verbs` (`VerbSpec`) adds to `Worker` the requests whose connection broke before
  the client had the answer (`broken`). `Break` can come at any step, and the worker
  goes on, for no operation looks at the request's context. `ExitCode` is a function of
  what the worker answered, or 1 if the connection broke.
* `Upgrade`: `files` has five roles: the binary at its path, its backup (`.bak`,
  `.old`), Unraid's flash copy and its backup, and `<asset>.download`. A file is
  an image, named by the version it reports, and an execute bit. `copyFile` is two
  steps, truncate and fill. `Stage`, `Launch`, `Count` are one turn of
  `supervisor.sh`'s loop; `Age` is the passing of `SC_HEALTHY_SECS`. `young`
  observes what `fails` should count; no code reads it. `Pkill` is lines 13 and 14 of
  `update.sh`: it ends the worker ("pushed"), or fails, which `|| true` hides
  ("unbounced").
* `Bridge`: a frame keeps what the loop branches on. `Lost` is an error of
  `http.Client.Do` before ("no connection") or after the worker's step ("no answer");
  the code answers -32000 for both, the two names are the model's. A `name = "value"` file is
  the sequence of its lines, and `Value` takes the last one of a name.

### Abstractions and assumptions

* Cryptography is ideal: no HMAC or signature without its key, no collision.
* The worker has an audit log (`--audit`) and its key; a log that a version without
  chain began is what `LegacyCounts` stands for. One worker at a time uses a log.
* A key file is empty or whole: a partial one is another key.
* In `AuditTamper` there is one change, and no line is added to the log. That a value
  may be spelled in another way in JSON, or a blank line be put in, without `Verify`
  noticing, is not modelled: the record says the same.
* In `FileOps` paths are resolved: `ResolveFenced` ran, and the path names one file.
* In `Fence` one call of `EvalSymlinks` is one step, links say ".." only in front,
  and names have no trailing "."; the platform is Unix. Nobody knows the name of a
  temporary file before it is there, and nobody puts a directory in its place.
* In `Worker` a body of JSON is judged by its first value, as the decoder does: what
  follows that, beyond the cap or not JSON at all, is not looked at.
* The image that `update.sh` pushes is genuine (`PushBody`): the script verifies nothing.
* Removing a file succeeds. A rename is atomic and, once the data were synced,
  durable; data that were not synced may be lost with the power (`FileOps`).
* In `Upgrade` a reboot keeps what was written; a power loss that drops unsynced
  data is not modelled (`copyFile` and `fetch` do not sync). One command at a
  time. A download that an earlier command left may have been made executable by
  its operator, which is also how the model gets past the execute bit on Unix
  (see the findings).
* `Worker` has no clock: a deadline fires at any time after the start.

### Exceptions the properties name

Some promises hold with an exception only. The properties say so, and TLC finds
each exception if it is left out:

* `LandsInside`: after the last look at the leaf and until the check nobody may
  change the tree, and after the check nobody the entries on the path that was
  returned, or an edit's temporary file; that is what checking a name and then opening
  it leaves. A path whose parent does not evaluate keeps links among the names
  below its first ancestor that does, which others may complete. If the fence is a file
  and is edited, its temporary file is beside it. And one exception needs nobody who
  changes anything (`blind`): the system follows 40 links and `EvalSymlinks` 255. If a
  path's parents have a number in between, `Lstat` fails, the leaf passes for no link
  (fence.go:32-35), and `EvalSymlinks` of the parent succeeds; what is returned is
  short, the operation walks it, and follows a link at its end, out of the fence too.
  The same can happen at the name below an ancestor that evaluates, if that name is a
  link that is one too many for `EvalSymlinks` of the whole path.
* `Transparent`: a relative link that is read through another link is joined to the
  parent in the path's text (fence.go:40), so it leads elsewhere than for the
  kernel; a fence "/", or a link to it, refuses everything but "/" (fence.go:83); and a
  path with more links than the system follows may be resolved, a few at a time.
* `TamperLocated`: an edit that takes the chain fields out of a record, which needs no
  key, is not located: `Verify` says "legacy" (-1) without an error, and looks at no
  line after it (audit.go:203-208). The log never verifies as whole, and that is all.
  Of a log that begins with legacy records the same is said from the first line on.
* `OnlyAcceptedRuns`: an upload over the cap is attempted: it overwrites its target with
  the bytes up to the cap, and is denied then.
* `ExitCodeTells`: a download that breaks off in the worker after status 200
  exits 0; so does a command of a Windows worker whose exit code is a multiple
  of 256, for the caller's system keeps eight bits. A connection that broke gives 1,
  which tells nothing: the operation may have been done, run on, or start later.
* `Relaunched`: "missed" — the worker was down and `killall` came between the staging
  of the old binary and its start; "unbounced" — the `pkill` of `update.sh` failed, the
  script says that the supervisor will relaunch, and the old worker runs on until
  something else ends it; and a supervisor that ended, since it counted
  enough short runs or could not stage once.
* `UploadLands` is about the file the upload opened, which an edit's rename may have
  taken the path away from; `TempRemoved` about requests that were answered: the
  temporary file of a worker that died stays. `DeadlineBounds`: any moment at which a
  process the command left held the output pipe excuses it.
* `AnswersAreTrue`: an agent that is told of a broken connection knows nothing.
* `Recoverable`: one fault or kill, not two, and no push: on Unraid the backup may
  fail and be ignored, and `update.sh` makes none.
* `GivesUpAfterRow`: deliberate restarts count as short runs, and a torn copy, which
  cannot be started, counts as one too.

## Runs

| Run | Module, cfg | Bounds | Shows |
|---|---|---|---|
| `audit_log` | `MCAuditLog`, `AuditLog.cfg` | 3 requests, 2 keys, 2 faults, 2 crashes | types, the inductive invariant `WorkerInv`, `ChainIntact`, `BoundedLoss`, `GapVisible`, `StableVerdict`; `AuditLog` implements `AuditSink` while no write fails; what ran is answered |
| `audit_tamper` | `MCAuditTamper`, `AuditTamper.cfg` | 4 requests, 2 keys, 0 or 2 legacy lines, 1 change, 1 fault, 1 crash | a removal, a swap or an edit that keeps the chain fields is reported at its line, or at an earlier one that a failed write or a lost key had broken, and exactly there if there was neither; with chain fields taken out a log never verifies as whole; a cut under a running worker shows; until a change, `WorkerInv` and `ChainIntact` also on a log that began without a chain |
| `file_ops` | `MCFileOps`, `FileOps.cfg` | 3 requests, from 6 edits and downloads or from 6 operations with uploads; 3 tokens, 1 fault, 1 crash | edits are atomic and implement `EditRegister`; what a successful upload leaves, mixes, no temporary file or private mode is left |
| `fence` | `MCFence`, `Fence.cfg` | trees of 12 places with 6 entries chosen from files, directories, nothing and 9 links; 8 requests, 5 fences, 1 of 7 changes, `MaxHops` 2, `KernelHops` 2, `EvalHops` 3 | what an operation or a step of an edit touches is inside, nothing inside is refused, every request ends |
| `worker` | `MCWorker`, `Worker.cfg` | 2 requests of 14 shapes, 3 ways to start the worker, exit codes 0 and 256, 1 fault, 1 crash, 1 broken connection | nothing refused runs, answer = record = exit code, the script lives as long as its shell, a deadline bounds a command |
| `upgrade` | `MCUpgrade`, `Upgrade.cfg` | 4 platforms, 7 releases, 4 command lines, 2 upgrades or pushes, 2 faults, 2 crashes, `MaxFails` 2 | only signed images, the release's version, a binary that runs, recoverability, the supervisor brings up the new binary and gives up only after a row of short runs |
| `bridge` | `MCBridge`, `Bridge.cfg` | 3 of 13 frames, 3 hosts, 2 workers, 2 faults | order, once, truth of answers; calls return if workers answer |

Why the bounds are enough: a failure of the log concerns two adjacent records, so
two writers and a record before or after them, with a restart anywhere (3 requests,
2 crashes), give every shape of tail, and two faults give a torn line that a second
failure follows. An edit has a reader, an edit that overlaps it and a third that
commits in between; contents of three tokens match an old string never, once and
twice. The fence's trees have a place above, at and below the leaf, inside and
outside, with links of each direction and circles; two hops reach the limit, and with
two links for the system and three for `EvalSymlinks` there are paths that both, one
and none of them follow. One
change is one race. A change to the log is followed by at most a torn line and a
restart, and has up to three records on either side. Requests of the worker meet only in the log, so two suffice.
The upgrade keeps files between attempts, so a second attempt meets everything a
first can leave; a limit of two short runs is a row and a row that was broken. The
bridge handles one frame at a time, so three frames show what one leaves to the
next. `CHECK_DEADLOCK FALSE` everywhere: requests, attempts and frames are
finite and the system may stop when they are done. Symmetry, over requests and keys,
is used only where no liveness property is checked. (`file_ops` checks its
refinement with it: that property is a step property, and both specifications are
symmetric in requests.)

### Disagreements of code and documentation

Five runs are expected to fail; each states a sentence of a doc or comment, and
TLC shows the code doing otherwise.

| Run | Sentence | Code |
|---|---|---|
| `audit_exit` | verify exits 1 for a tampered log | exits 3: `Verify` returns an error for every broken chain and `runVerify` exits 3 for any error; 2 if the chain fields were taken out |
| `file_write` | `write` is atomic | `Upload` truncates and copies in place |
| `worker_logged` | every request, also a denied one, is logged | 401, 405 and failed validation are not |
| `upgrade_good` | `Run` performs the upgrade end to end | on Unix the download is never made executable before it is run for its version |
| `bridge_tokens` | the MCP server reads the tokens file | it uses `SPARKYCTRL_TOKEN` only |

The models have more, which no run states: a log cut at a record's end while
no worker runs verifies (`AuditTamper!CutShort`; docs/security.md:55 counts
truncation among what verify finds); a record whose chain fields were taken out is
reported as legacy, without its line (`AuditTamper!StripRecord`; audit.go:179-181 has
it that tampering is located); a dangling link behind more links than the system
follows is written through, out of the fence (`Fence!BlindTo`; fence.go:22-27 says that
is fixed); `update.sh` reports that the supervisor will relaunch after a `pkill` that
failed (`Upgrade!Pkill`; update.sh:13-14); a download that fails in its body stays
(`Upgrade!FetchBody`; download.go:18 says any failure removes it); a ping behind a
call to a silent worker is not answered (`Bridge!Call`, client.go:25 sets no timeout;
mcp.go:151 wants pings answered promptly).

### Fairness

* `AuditLog!FairSpec`: a goroutine that can run does (weak fairness of each
  handler's own steps); `Lock` is strongly fair since Go's mutex hands itself to a
  waiter that has waited a millisecond (starvation mode). No crash, no operator and
  no request is fair.
* `Worker!FairSpec`: handlers run, a deadline passes, a kill reaches its process.
  Steps that wait for the client's body are not fair, commands need not exit, and
  nobody need close a pipe.
* `Verbs!FairVerbSpec`: the same; no connection has to break.
* `Fence!FairSpec`: the handler goes on; nobody need change the tree.
* `Upgrade!FairSpec`: a command that runs goes on (its HTTP client has a timeout,
  `cli.go:581`), supervisors restart. Nobody need start the command.
* `Bridge!FairSpec`: the loop goes on while it has input. `AnsweringSpec`, which the
  run uses, adds that workers answer. The code does not guarantee that, since the
  client has no timeout: `CallsReturn` says only that nothing else holds up a call.

## Proofs

Eight modules of theorems, about every value of the constants, from the named
assumptions of the modules only (`ChainAssumption`, `AuditLogAssumption`,
`FileAssumption`, `UpgradeAssumption`, `WorkerAssumption`, `VerbAssumption`,
`BridgeAssumption`, `FenceAssumption`: mostly what the constants are; besides, that a release with a valid signature is not forged,
and that only JSON bodies can fail to decode). In each, an inductive invariant is
preserved by every action, one step per action, and the properties follow from it.
Each of them was checked as an invariant by TLC on the run's instance first.

* `AuditLogProofs`: `TypeCorrect`, `LogInvariant`, `ChainIntactHolds`,
  `WorkerInvariant`, `SinkImplemented`. For any number of requests, keys, legacy
  lines, crashes and faults.

  `ChainIntact` is not inductive: a file that verifies says nothing of what the
  worker is about to append. `LogInv` adds what does. `HolderInv`: only the mutex's
  holder is between reading `prevHash` and unlocking. `KeyInv`: a started worker
  signs with the key that a reader of the key file will use. `TailInv`: `prevHash`
  is the hash of the last line, except while one line, chained to that last line,
  waits to be written. `FileInv`: after the legacy lines the file is whole lines,
  each of which continues the one before it. A write turns `TailInv`'s waiting line
  into `FileInv`'s next one; a start makes `TailInv` true from the file alone, which
  is why a crash may forget `prevHash`; a lost or short write breaks both, so they
  are conditional on `faults = 0`.

  The refinement needs one thing more, that a handler which has not written yet has
  no entry and one which has written has one (`EntryInv`). With it, `Write` is
  `AuditSink`'s `Record`, `Answer` is its `Reply`, and all else, crashes and
  restarts included, leaves the journal alone.

* `AuditLossProofs`: `StableVerdictHolds`, `IdInvariant`, `GapVisibleHolds`,
  `BoundedLossHolds`, about a log whose writes fail.

  `StableVerdict` is the shape of an append: it changes no line but the last, and
  that one only if it is torn, which junk replaces; so the first bad line stays the
  first and stays bad. `GapVisible` needs who built which hash when: hashes grow
  along the file and are nobody else's (`LineInv`, `FileIds`), a record in the file
  is one its handler has written (`OriginInv`), and the records one process has
  built, written or not, form a chain (`LifeInv`). If one of them is missing and a
  later one is there, the first later one that is there names a hash which is not on
  the line before it. `BoundedLoss` is not inductive, for a torn line costs nothing
  until the next record is glued to it: `LossInv` adds that `Debt`, 2 for a whole
  record without its newline, 1 for a part.

* `AuditTamperProofs`: `TamperInvariant`, `TamperLocatedHolds`,
  `LiveCutDetectedHolds`, `UntouchedIntactHolds`. For changes at any line of logs of
  any length, at any moment, whatever fails and restarts before and after.

  Until the change `LinkInv` holds, faults or not: a record names the line before it
  or a hash that is not in the file, and only the first names none. Hence an edited
  record that keeps its chain fields fits no key, a record whose predecessor was removed
  or moved names a line that is not before it any more, and nothing before the change
  got worse; from then on `StableVerdict`'s argument keeps the report (`LocatedInv`). A
  record without chain fields stops `Verify` at its line at the latest
  (`StrippedVerdict`): an append never makes it a chained one again, and if no write
  failed before there is nothing earlier to stop at. After a cut
  (`CutInv`) either some line is bad already, or the process that was running has
  written nothing since and the hash it will write next is not in the file
  (`Adrift`).

* `FileOpsProofs`: `TypeCorrect`, `TempRemovedHolds`, `TargetWholeHolds`,
  `ReaderSeesWholeHolds`, `UploadLandsHolds`, `MixedUploadsHolds`,
  `RegisterImplemented`. For any
  requests, operations that meet, contents and initial content, faults and crashes.

  `TargetWhole` speaks of the path and `ReaderSeesWhole` of finished downloads; what
  carries them is who may write which inode. `TempInv`: an inode under a temporary
  name is nobody else's, neither the path's nor open elsewhere, so a handler that
  fills its temporary file disturbs no reader, and `Rename` publishes an inode that
  nobody writes any more. `DataInv`, without uploads: the path and every descriptor
  lead to a committed content that is on disk, which is why a power loss takes
  nothing from them; a reader has a prefix of it, an edit its substitution.
  `ModeInv` does the same for modes, uploads included, and `UploadInv` for the body
  of the only upload. `MixInv`, without edits and crashes: all uploads write the file
  that the path names, each position of it is explained by one of them (its token, or
  a hole past the end of its part), and the content reaches as far as the position of
  one of them, the last that truncated or wrote. With them `OpenRead` is the register's `Snap`, `Rename` its
  `Swap`, and whatever ends a request otherwise, a crash included, its `Leave`.

* `UpgradeProofs`: `TypeCorrect`, `OnlySignedHolds`, `InstalledIsReleaseHolds`,
  `CurrentRunsHolds`, `GivesUpAfterRowHolds`, `RecoverableHolds`. For any releases, command lines,
  attempts, pushes, faults and crashes, any leftover download, any `SC_MAX_FAILS`.

  What is missing from the properties is what the command knows at each step: after
  the fetch the download is the release's image, from "signed" on it is not forged,
  from "backup" on it runs and reports the release's version, and from "chmod" on
  the copied binary does (`CommandInv`). `RowInv` relates the supervisor's counter
  to the row of young workers: it never exceeds the row, and stays below it while a
  worker that has ended young is in the row and not counted yet; after a torn
  staging nothing is said. `RecoveryInv` says which copy is whole when: while nothing
  has failed the binary, except while it is replaced, and then its backup; after one
  failure either of them, except while the command rewrites them, which it ends by a
  second failure or with a whole release in place.

* `WorkerProofs`: `TypeCorrect`, `OnlyAcceptedRunsHolds`, `ScriptLifetimeHolds`,
  `AnswerMatchesRecordHolds`, and `ExitCodeTellsHolds` about `Verbs`. For any number
  of requests at once, any ways to start the worker, any exit codes.

  The properties speak of what was run or answered; `CheckInv` says at each state of
  a handler which checks are behind it, `RunInv` and `ScriptInv` how far its child
  and its script are, `RecordInv` that it has no record until `AuditResult` or
  `Decode` writes one and one after, with the outcome that the answer will carry.
  `VerbInv` adds what an exit code is computed from. `ExitCodeTellsHolds` is about
  `VerbSpec`, in which any number of connections break at any step: a broken one leaves
  the worker's state alone (`WorkerUnderVerbs`), so `Worker`'s invariant holds there.

* `BridgeProofs`: `TypeCorrect`, `AnsweredInOrderHolds`, `RunsOnceHolds`,
  `AnswersAreTrueHolds`. For any frames, address book, tokens, any number of frames
  and lost connections.

  Answers and effects belong to frames with smaller numbers than the one in hand, so
  what is appended keeps the order and comes once: `OrderInv`, with `Answered` as
  the number of the last frame that is done with, and `EffectInv`, which allows the
  frame in hand one effect and only while its request is "executed". `TruthInv` is
  `AnswersAreTrue` restated over the sequences. That a host which resolves leads to
  a worker is `ResolvedIsWorker`: a nonempty set of line numbers has a greatest.

* `FenceProofs`: `TypeCorrect`, `LandsInsideHolds`, `TransparentHolds`. For any
  names, places, trees with any links, requests, fences and changes, any limits of
  hops and links of which the system's is not the greater one.

  `Walk` and `Clean` are recursive functions over data, so half of the module is
  about them. Both are tail recursions in which every chain of calls ends, since a
  step uses up a name or a link. `TailRecursion` shows from that alone, by least
  numbers, that a function with the equation exists, so its value can be unfolded
  (`WalkUnfolds`, `CleanUnfolds`). What they compute is then proved by least
  counterexamples (`WalkEnds`, `TextEnds`): where a walk ends something stands
  (`WalkSound`); what stands under a name is found under it (`FoundByName`); a longer
  path walks on from where the shorter one ended (`WalkSplits`); a walk that succeeds
  also does with more links to spend (`WalkMore`), so that `EvalSymlinks` finds what the
  system finds (`KernelEval`); and in a directory a link's text
  leads where the cleaned path does (`WalkCleaned`).

  `LandsInside` follows from `LeafIsNoLink`: once the look at the leaf found no link,
  what is returned is a path whose walk meets no link at all (`NoLinks`), because all
  above the leaf has been resolved, as long as `EvalSymlinks` of the parent saw what
  `Lstat` saw (not `blind`). Changes elsewhere leave such a path alone (`Steady`), the
  temporary file is none either, and so each step of an operation touches what was
  compared with the fence, or a file beside it (`Opened`, `TempInside`). A path of
  which more than the last name is kept leads nowhere, so nothing is touched:
  `Nowhere`, from `KeptLeadsNowhere` and `ErrorKept`, unless `EvalSymlinks` had run out
  of links (`GivenUp`) or others changed the tree.

  `Transparent` follows from `LeadsToGoal`: at every state of the resolution the path
  in hand leads where the client's did (`ReplacedLeads` for a link that is followed,
  `ParentOfMissing` for a name that is not there yet), and is not blind if that is
  somewhere (`LeadsNotBlind`); `Nowhere` again for a path that leads nowhere.

Model-checked only:

* liveness (`RanIsAnswered`, `DeadlineBounds`, `Relaunched`, `CallsReturn`,
  `RequestEnds`), which TLAPS does not reason about here.

## Not modelled

* The bytes of JSON and of minisign files and Ed25519's arithmetic: pure functions,
  checked by their tests; what depends on their outcome is modelled.
* HTTP's own timeouts, texts of diagnostics, what `ls` lists, `info` beyond its
  routing, flag parsing, the output of verbs and their failures on local files.
* Installers and release scripts, which run once by hand; the shell command
  builders, which quote strings and have no state.
* Two workers on one audit file, and two upgrades at once: the code takes no lock
  and promises nothing of either. Both are listed as hazards without a property.
* Clients that stop in the middle of a body are `FileOps`' failing copies; which
  bytes of a broken stream reach the worker is not distinguished further.

`PROJECT.json` gives the reasons by component.

## Plan

In this order, the most important behaviour first; all but the last exist.

1. Audit log, its abstract journal, tampering, its proofs and its refinement's.
2. File operations and the abstract register; requests, execution, verbs.
3. Self-update with supervisor and `update.sh`; bridge with its address book; fence.
4. Proofs about the rest of the log, file operations and their refinement,
   self-update, requests, bridge.
5. Proofs about the path walk and `Fence`.
6. A clock for deadlines, to bound by how much a kill may come late.

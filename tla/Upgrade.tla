------------------------------ MODULE Upgrade ------------------------------
(***************************************************************************)
(* `sparkyctrl upgrade` (internal/upgrade): resolve a release, download it *)
(* beside the running binary, check its signatures and checksum, run it    *)
(* once for its version, put it in place and restart the worker, on each   *)
(* platform of platform.go.  Any system call or request may fail, the      *)
(* command may be killed between any two steps and started again, and the  *)
(* machine may be rebooted; what keeps the worker alive meanwhile (systemd, *)
(* deploy/unraid/supervisor.sh) goes on by itself.  On Unraid the operator *)
(* may also run deploy/unraid/update.sh; one command runs at a time.       *)
(*                                                                         *)
(* Signatures are ideal: none verifies for an image the release key holder *)
(* did not sign.  An image is named by the version it reports.             *)
(***************************************************************************)
EXTENDS Integers, FiniteSets

CONSTANTS
    Platforms,    \* the hosts it runs on, see PlatformTypes
    Leftovers,    \* downloads an earlier command may have left: NoFile or
                  \* Partial ones, which someone may have made executable
    Releases,     \* what the release server may offer, see ReleaseTypes
    Options,      \* the command lines, see OptionTypes
    MaxAttempts,  \* bound on how often a command is started
    MaxPushes,    \* bound on how often update.sh is among them
    MaxFaults,    \* bound on failing calls
    MaxCrashes,   \* bound on kills, worker deaths and reboots
    MaxFails      \* SC_MAX_FAILS of supervisor.sh

Versions == {"old", "new"}
Forged == "forged"            \* not signed by the release key
Partial == "partial"          \* truncated, or still being written
Absent == "absent"

PlatformTypes == {"systemd", "unraid", "windows", "manual"}

\* current: the path of the running binary; flash: the copy on Unraid's USB
\* flash that it is staged from; download: <asset>.download beside current
Roles == {"current", "backup", "flash", "flashBackup", "download"}

File == [image: Versions \cup {Forged, Partial, Absent}, exec: BOOLEAN]

NoFile == [image |-> Absent, exec |-> FALSE]

ReleaseTypes ==
    [tag: Versions,
     image: Versions \cup {Forged},
     assetSig: BOOLEAN,  \* there is a .minisig that verifies for the image
     sumsSig: BOOLEAN,   \* there is one that verifies for SHA256SUMS
     sums: BOOLEAN]      \* and SHA256SUMS lists the image's hash

OptionTypes ==
    [requested: BOOLEAN, check: BOOLEAN, restart: BOOLEAN]

ASSUME UpgradeAssumption ==
    /\ Platforms \subseteq PlatformTypes
    /\ Leftovers \subseteq {f \in File : f = NoFile \/ f.image = Partial}
    /\ Releases \subseteq ReleaseTypes
    /\ Options \subseteq OptionTypes
    /\ \A rel \in Releases : rel.assetSig => rel.image # Forged
    /\ MaxAttempts \in Nat /\ MaxPushes \in Nat
    /\ MaxFaults \in Nat /\ MaxCrashes \in Nat
    /\ MaxFails \in Nat \ {0}
    /\ Releases # {} /\ Options # {}

VARIABLES
    platform,
    files,      \* the files of the host, by role: see Roles
    worker,     \* the image the worker runs, or Absent
    pc,         \* where the command is, "idle" when it does not run
    release, option,    \* of the last attempt, any before the first
    outcome,    \* how the last attempt ended
    ran,        \* the images the command has executed
    supervisor, \* where supervisor.sh is, "none" on other platforms
    fails,      \* its count of rapid failures
    aged,       \* the worker has run for SC_HEALTHY_SECS
    young,      \* how many workers were ended in a row before they had,
                \* MaxFails at most
    torn,       \* a binary that does not run was staged
    attempts, pushes, faults, crashes

vars == <<platform, files, worker, pc, release, option, outcome, ran,
          supervisor, fails, aged, young, torn, attempts, pushes,
          faults, crashes>>

supervision == <<supervisor, fails, aged, young, torn>>

bounds == <<attempts, pushes, faults, crashes>>

States == {"idle", "fetch", "fetching", "fetched", "signed", "verified",
           "backup", "backingUp", "place", "placing", "chmod", "restart",
           "pushing", "pkill"}

Outcomes == {"none", "latest", "checked", "failed", "installed", "restarted",
             "bounced", "missed", "pushed", "unbounced", "interrupted"}

SupervisorStates ==
    {"none", "staging", "staged", "watching", "gaveUp", "unstaged"}

TypeOK ==
    /\ platform \in Platforms
    /\ files \in [Roles -> File]
    /\ worker \in Versions \cup {Forged, Absent}
    /\ pc \in States
    /\ release \in Releases
    /\ option \in Options
    /\ outcome \in Outcomes
    /\ ran \subseteq Versions \cup {Forged}
    /\ supervisor \in SupervisorStates
    /\ (supervisor = "none") = (platform # "unraid")
    /\ fails \in 0 .. MaxFails
    /\ aged \in BOOLEAN /\ (aged => supervisor = "watching")
    /\ young \in 0 .. MaxFails /\ torn \in BOOLEAN
    /\ attempts \in 0 .. MaxAttempts
    /\ pushes \in 0 .. MaxPushes
    /\ faults \in 0 .. MaxFaults
    /\ crashes \in 0 .. MaxCrashes

Init ==
    /\ platform \in Platforms
    /\ \E left \in Leftovers :
          files = [n \in Roles |->
                    IF n = "download" THEN left
                    ELSE IF n = "current" \/ (n = "flash" /\ platform = "unraid")
                    THEN [image |-> "old", exec |-> TRUE] ELSE NoFile]
    /\ worker = "old"
    /\ pc = "idle"
    /\ release = CHOOSE rel \in Releases : TRUE
    /\ option = CHOOSE opt \in Options : TRUE
    /\ outcome = "none"
    /\ ran = {}
    /\ supervisor = IF platform = "unraid" THEN "watching" ELSE "none"
    /\ fails = 0 /\ aged = FALSE /\ young = 0 /\ torn = FALSE
    /\ attempts = 0 /\ pushes = 0 /\ faults = 0 /\ crashes = 0

---------------------------------------------------------------------------

Executable(f) ==
    /\ f.image \in Versions \cup {Forged}
    /\ f.exec \/ platform = "windows"

(* The file n opened for writing and truncated; only a file that is        *)
(* created takes the mode that was asked for.                              *)
Truncated(n, mode) ==
    [image |-> Partial,
     exec |-> IF files[n] = NoFile THEN mode ELSE files[n].exec]

(* install -m 0755 of f.                                                   *)
Installed(f) == [f EXCEPT !.exec = TRUE]

Goto(s) == pc' = s /\ UNCHANGED outcome

(* A step that goes on to s, and one that fails with an error instead.     *)
Step(s) == Goto(s) /\ UNCHANGED faults

Fault == faults < MaxFaults /\ faults' = faults + 1

End(o) == pc' = "idle" /\ outcome' = o

(* DownloadAndVerify, and later the deferred os.Remove, take the download  *)
(* away when a step fails.                                                 *)
Discard ==
    /\ End("failed")
    /\ files' = [files EXCEPT !["download"] = NoFile]

---------------------------------------------------------------------------
(* Resolve, download, verify.                                              *)

(* Another attempt: the release is looked up, whatever it is by now.       *)
Resolve ==
    /\ pc = "idle" /\ attempts + pushes < MaxAttempts
    /\ Executable(files["current"])
    /\ attempts' = attempts + 1
    /\ release' \in Releases /\ option' \in Options
    /\ \/ Fault /\ End("failed")
       \/ /\ UNCHANGED faults
          /\ IF ~option'.requested /\ release'.tag = files["current"].image
             THEN End("latest")
             ELSE IF option'.check THEN End("checked")
             ELSE pc' = "fetch" /\ outcome' = "none"
    /\ UNCHANGED <<platform, files, worker, ran, supervision, pushes, crashes>>

(* fetch: os.Create after the response has begun.                          *)
Fetch ==
    /\ pc = "fetch"
    /\ \/ /\ files' = [files EXCEPT !["download"] = Truncated("download", FALSE)]
          /\ Step("fetching")
       \/ Fault /\ End("failed") /\ UNCHANGED files
    /\ UNCHANGED <<platform, worker, release, option, ran, supervision,
                   attempts, pushes, crashes>>

(* The body; DownloadAndVerify returns an error of fetch as it is.         *)
FetchBody ==
    /\ pc = "fetching"
    /\ \/ /\ files' = [files EXCEPT !["download"].image = release.image]
          /\ Step("fetched")
       \/ Fault /\ End("failed") /\ UNCHANGED files
    /\ UNCHANGED <<platform, worker, release, option, ran, supervision,
                   attempts, pushes, crashes>>

(* Variant: a missing signature falls back to the checksum.                *)
VerifyAssetOptional ==
    /\ pc = "fetched"
    /\ Step("signed") /\ UNCHANGED files
    /\ UNCHANGED <<platform, worker, release, option, ran, supervision,
                   attempts, pushes, crashes>>

(* The asset's signature is fetched and verified over the file, ...        *)
VerifyAsset ==
    /\ pc = "fetched"
    /\ \/ release.assetSig /\ Step("signed") /\ UNCHANGED files
       \/ ~release.assetSig /\ Discard /\ UNCHANGED faults
       \/ Fault /\ Discard
    /\ UNCHANGED <<platform, worker, release, option, ran, supervision,
                   attempts, pushes, crashes>>

(* ... then the signature of SHA256SUMS, then the hash it lists.           *)
VerifySums ==
    /\ pc = "signed"
    /\ \/ /\ release.sumsSig /\ release.sums
          /\ Step("verified") /\ UNCHANGED files
       \/ ~(release.sumsSig /\ release.sums) /\ Discard /\ UNCHANGED faults
       \/ Fault /\ Discard
    /\ UNCHANGED <<platform, worker, release, option, ran, supervision,
                   attempts, pushes, crashes>>

(* Variant: it is enough that the new binary runs.                         *)
CheckVersionRunsOnly ==
    /\ pc = "verified"
    /\ \/ /\ Executable(files["download"])
          /\ ran' = ran \cup {files["download"].image}
          /\ Step("backup") /\ UNCHANGED files
       \/ /\ ~Executable(files["download"])
          /\ Discard /\ UNCHANGED <<ran, faults>>
    /\ UNCHANGED <<platform, worker, release, option, supervision,
                   attempts, pushes, crashes>>

(* The new binary is run, if it can be, and must report the release's      *)
(* version.                                                                *)
CheckVersion ==
    /\ pc = "verified"
    /\ LET new == files["download"] IN
       \/ /\ Executable(new) /\ ran' = ran \cup {new.image}
          /\ \/ new.image = release.tag /\ Step("backup") /\ UNCHANGED files
             \/ new.image # release.tag /\ Discard /\ UNCHANGED faults
       \/ ~Executable(new) /\ Discard /\ UNCHANGED <<ran, faults>>
    /\ UNCHANGED <<platform, worker, release, option, supervision,
                   attempts, pushes, crashes>>

---------------------------------------------------------------------------
(* Place, by platform.                                                     *)

Copied == IF platform = "unraid" THEN "flash" ELSE "current"
Backup == IF platform = "unraid" THEN "flashBackup" ELSE "backup"

(* Variant: there is no backup.                                            *)
BackUpSkipped ==
    /\ pc = "backup"
    /\ Step("place") /\ UNCHANGED files
    /\ UNCHANGED <<platform, worker, release, option, ran, supervision,
                   attempts, pushes, crashes>>

(* copyFile to the backup begins; Windows renames instead.                 *)
BackUp ==
    /\ pc = "backup"
    /\ \/ /\ platform # "windows"
          /\ files' = [files EXCEPT ![Backup] = Truncated(Backup, TRUE)]
          /\ Step("backingUp")
       \/ /\ platform = "windows"
          /\ files' = [files EXCEPT !["backup"] = files["current"],
                                    !["current"] = NoFile]
          /\ Step("place")
       \/ Fault /\ platform = "unraid" /\ Goto("place") /\ UNCHANGED files
       \/ Fault /\ platform # "unraid" /\ Discard
    /\ UNCHANGED <<platform, worker, release, option, ran, supervision,
                   attempts, pushes, crashes>>

(* It ends, or fails: that is ignored on Unraid.                           *)
BackUpBody ==
    /\ pc = "backingUp"
    /\ \/ /\ files' = [files EXCEPT ![Backup].image = files[Copied].image]
          /\ Step("place")
       \/ Fault /\ platform = "unraid" /\ Goto("place") /\ UNCHANGED files
       \/ Fault /\ platform # "unraid" /\ Discard
    /\ UNCHANGED <<platform, worker, release, option, ran, supervision,
                   attempts, pushes, crashes>>

(* Variant: the current binary is rewritten in place everywhere.           *)
PlaceInPlace ==
    /\ pc = "place"
    /\ files' = [files EXCEPT !["current"] = Truncated("current", TRUE)]
    /\ Step("placing")
    /\ UNCHANGED <<platform, worker, release, option, ran, supervision,
                   attempts, pushes, crashes>>

(* The download is renamed over the current binary; on Unraid the copy to  *)
(* the flash begins.                                                       *)
Place ==
    /\ pc = "place"
    /\ \/ /\ platform # "unraid"
          /\ files' = [files EXCEPT !["current"] = files["download"],
                                    !["download"] = NoFile]
          /\ Step(IF platform = "windows" THEN "restart" ELSE "chmod")
       \/ /\ platform = "unraid"
          /\ files' = [files EXCEPT !["flash"] = Truncated("flash", TRUE)]
          /\ Step("placing")
       \/ Fault /\ Discard
    /\ UNCHANGED <<platform, worker, release, option, ran, supervision,
                   attempts, pushes, crashes>>

PlaceBody ==
    /\ pc = "placing"
    /\ \/ /\ files' = [files EXCEPT !["flash"].image = files["download"].image]
          /\ Step("restart")
       \/ Fault /\ Discard
    /\ UNCHANGED <<platform, worker, release, option, ran, supervision,
                   attempts, pushes, crashes>>

Chmod ==
    /\ pc = "chmod"
    /\ \/ /\ files' = [files EXCEPT !["current"].exec = TRUE]
          /\ Step("restart")
       \/ Fault /\ Discard
    /\ UNCHANGED <<platform, worker, release, option, ran, supervision,
                   attempts, pushes, crashes>>

---------------------------------------------------------------------------

(* Variant: whatever file is there counts as a running worker.             *)
StartedAnything(f) == f.image

Started(f) == IF Executable(f) THEN f.image ELSE Absent

(* The worker ends; it was young unless it had run for five minutes.       *)
WorkerEnds ==
    /\ worker' = Absent
    /\ young' = IF platform # "unraid" \/ worker = Absent THEN young
                ELSE IF aged THEN 0
                ELSE IF young < MaxFails THEN young + 1 ELSE young
    /\ UNCHANGED <<supervisor, fails, aged, torn>>

(* systemctl restart, the scheduled task, or `killall sparkyctrl`, which   *)
(* ends the upgrade command too, before its deferred os.Remove, and may    *)
(* find no worker: the supervisor may be about to start one.  Each of them *)
(* may fail, killall too, and then the worker runs on.                     *)
Restart ==
    /\ pc = "restart"
    /\ \/ /\ ~option.restart \/ platform = "manual"
          /\ End("installed")
          /\ files' = [files EXCEPT !["download"] = NoFile]
          /\ UNCHANGED <<worker, supervision, faults>>
       \/ /\ option.restart /\ platform \in {"systemd", "windows"}
          /\ \/ /\ worker' = Started(files["current"])
                /\ End("restarted")
                /\ files' = [files EXCEPT !["download"] = NoFile]
                /\ UNCHANGED faults
             \/ Fault /\ Discard /\ UNCHANGED worker
          /\ UNCHANGED supervision
       \/ /\ option.restart /\ platform = "unraid"
          /\ \/ /\ WorkerEnds
                /\ End(IF supervisor = "staged" THEN "missed" ELSE "bounced")
                /\ UNCHANGED <<files, faults>>
             \/ Fault /\ Discard /\ UNCHANGED <<worker, supervision>>
    /\ UNCHANGED <<platform, release, option, ran, attempts, pushes, crashes>>

---------------------------------------------------------------------------
(* update.sh: it pushes a new binary over the flash copy, through the      *)
(* worker, and has the worker killed.                                      *)

Push ==
    /\ pc = "idle" /\ pushes < MaxPushes /\ attempts + pushes < MaxAttempts
    /\ platform = "unraid" /\ worker # Absent
    /\ pushes' = pushes + 1
    /\ files' = [files EXCEPT !["flash"] = Truncated("flash", TRUE)]
    /\ pc' = "pushing" /\ outcome' = "none"
    /\ UNCHANGED <<platform, worker, release, option, ran, supervision,
                   attempts, faults, crashes>>

(* What is pushed is a genuine image: update.sh verifies nothing, that is  *)
(* left to who calls it.                                                   *)
PushBody ==
    /\ pc = "pushing"
    /\ \/ /\ files' = [files EXCEPT !["flash"].image = "new"]
          /\ Step("pkill")
       \/ Fault /\ End("failed") /\ UNCHANGED files
    /\ UNCHANGED <<platform, worker, release, option, ran, supervision,
                   attempts, pushes, crashes>>

(* `pkill -f 'sparkyctrl serve'`, run by the worker, ends it, unless it    *)
(* has died already; or the connection, the token or pkill fails and it    *)
(* runs on.  The script ignores that and reports the same ("unbounced").   *)
Pkill ==
    /\ pc = "pkill"
    /\ \/ WorkerEnds /\ End("pushed") /\ UNCHANGED faults
       \/ /\ worker # Absent /\ Fault
          /\ End("unbounced") /\ UNCHANGED <<worker, supervision>>
    /\ UNCHANGED <<platform, files, release, option, ran, attempts, pushes,
                   crashes>>

---------------------------------------------------------------------------

(* The command is killed: nothing deferred runs.                           *)
Interrupt ==
    /\ pc # "idle" /\ crashes < MaxCrashes
    /\ crashes' = crashes + 1
    /\ End("interrupted")
    /\ UNCHANGED <<platform, files, worker, release, option, ran, supervision,
                   attempts, pushes, faults>>

(* A push that goes through the worker fails with it.                      *)
WorkerDies ==
    /\ worker # Absent /\ crashes < MaxCrashes
    /\ crashes' = crashes + 1
    /\ WorkerEnds
    /\ IF pc = "pushing" THEN End("failed") ELSE UNCHANGED <<pc, outcome>>
    /\ UNCHANGED <<platform, files, release, option, ran, attempts, pushes,
                   faults>>

(* systemd starts the binary at its path again.                            *)
SystemdStarts ==
    /\ worker = Absent /\ platform = "systemd"
    /\ worker' = Started(files["current"])
    /\ UNCHANGED <<platform, files, pc, release, option, outcome, ran,
                   supervision, bounds>>

(* Variant: the supervisor starts what it staged at boot.                  *)
StageOnce ==
    /\ supervisor = "staging"
    /\ files' = IF files["current"] = NoFile
                THEN [files EXCEPT !["current"] = Installed(files["flash"])]
                ELSE files
    /\ supervisor' = "staged"
    /\ UNCHANGED <<platform, worker, pc, release, option, outcome, ran, fails,
                   aged, young, torn, bounds>>

(* supervisor.sh, one turn of its loop: it installs the binary from the    *)
(* flash and ends if it cannot, ...                                        *)
Stage ==
    /\ supervisor = "staging"
    /\ \/ /\ files' = [files EXCEPT !["current"] = Installed(files["flash"])]
          /\ supervisor' = "staged"
          /\ UNCHANGED faults
       \/ Fault /\ supervisor' = "unstaged" /\ UNCHANGED files
    /\ UNCHANGED <<platform, worker, pc, release, option, outcome, ran, fails,
                   aged, young, torn, attempts, pushes, crashes>>

(* ... runs it, ...                                                        *)
Launch ==
    /\ supervisor = "staged"
    /\ worker' = Started(files["current"])
    /\ torn' = (torn \/ ~Executable(files["current"]))
    /\ supervisor' = "watching"
    /\ aged' = FALSE
    /\ UNCHANGED <<platform, files, pc, release, option, outcome, ran, fails,
                   young, bounds>>

(* ... for five minutes or less, ...                                       *)
Age ==
    /\ supervisor = "watching" /\ worker # Absent
    /\ aged' = TRUE
    /\ UNCHANGED <<platform, files, worker, pc, release, option, outcome, ran,
                   supervisor, fails, young, torn, bounds>>

(* Variant: a run that was long enough takes nothing off the count.        *)
CountAll ==
    /\ supervisor = "watching" /\ worker = Absent
    /\ fails' = IF aged THEN fails ELSE fails + 1
    /\ supervisor' = IF fails' >= MaxFails THEN "gaveUp" ELSE "staging"
    /\ aged' = FALSE
    /\ UNCHANGED <<platform, files, worker, pc, release, option, outcome, ran,
                   young, torn, bounds>>

(* ... and counts, when it has ended, how often in a row it was less.      *)
Count ==
    /\ supervisor = "watching" /\ worker = Absent
    /\ fails' = IF aged THEN 0 ELSE fails + 1
    /\ supervisor' = IF fails' >= MaxFails THEN "gaveUp" ELSE "staging"
    /\ aged' = FALSE
    /\ UNCHANGED <<platform, files, worker, pc, release, option, outcome, ran,
                   young, torn, bounds>>

Supervise == SystemdStarts \/ Stage \/ Launch \/ Count

(* A reboot: the command and the worker are gone, and on Unraid all files  *)
(* that are not on the flash, and boot.sh starts a new supervisor.         *)
Reboot ==
    /\ crashes < MaxCrashes
    /\ crashes' = crashes + 1
    /\ worker' = Absent
    /\ pc' = "idle"
    /\ outcome' = IF pc = "idle" THEN outcome ELSE "interrupted"
    /\ \/ /\ platform = "unraid"
          /\ files' = [n \in Roles |-> IF n \in {"flash", "flashBackup"}
                                       THEN files[n] ELSE NoFile]
          /\ supervisor' = "staging"
          /\ fails' = 0 /\ aged' = FALSE /\ young' = 0 /\ torn' = FALSE
       \/ platform # "unraid" /\ UNCHANGED <<files, supervision>>
    /\ UNCHANGED <<platform, release, option, ran, attempts, pushes, faults>>

Command ==
    \/ Resolve \/ Fetch \/ FetchBody \/ VerifyAsset \/ VerifySums
    \/ CheckVersion \/ BackUp \/ BackUpBody \/ Place \/ PlaceBody \/ Chmod
    \/ Restart

Update == Push \/ PushBody \/ Pkill

Next ==
    \/ Command \/ Update \/ Interrupt \/ WorkerDies \/ Supervise \/ Age
    \/ Reboot

Spec == Init /\ [][Next]_vars

(* A command that was started goes on (its HTTP client has a timeout), and *)
(* supervisors restart.  Nobody has to start the command.                  *)
Fairness ==
    /\ WF_vars(Supervise)
    /\ WF_vars(Fetch \/ FetchBody \/ VerifyAsset \/ VerifySums \/ CheckVersion)
    /\ WF_vars(BackUp \/ BackUpBody \/ Place \/ PlaceBody \/ Chmod \/ Restart)

FairSpec == Spec /\ Fairness

---------------------------------------------------------------------------
(* Properties.                                                             *)

SupervisorEnded == supervisor \in {"gaveUp", "unstaged"}

(* Nothing the release key did not sign is ever run, put in place, backed  *)
(* up or started as the worker, over any sequence of broken attempts that  *)
(* leave their downloads behind (download.go:39-84, upgrade.go:57-71).     *)
OnlySigned ==
    Forged \notin ran \cup {worker}
                  \cup {files[n].image : n \in Roles \ {"download"}}

(* After a success the path the worker is started from holds the version   *)
(* of the release, also when the release server mixed up its assets, and   *)
(* still does after worker deaths and reboots (runner.go:22-33).           *)
InstalledIsRelease ==
    outcome \in {"installed", "restarted", "bounced", "missed"} =>
        files[Copied].image = release.tag

(* Where the new binary is renamed over the old one the path always names  *)
(* a binary that runs, whatever fails and whenever it is killed            *)
(* (platform.go:39-47, 95-103).                                            *)
CurrentRuns ==
    platform \in {"systemd", "manual"} => Executable(files["current"])

(* One failure or kill, at any point, leaves a whole binary at the path or *)
(* in its backup on every platform once the command has ended, and on      *)
(* Unraid on the flash, where it survives a reboot.  Two may not: a backup *)
(* that fails there is ignored (platform.go:39-103); and a push makes no   *)
(* backup at all, so none is admitted.                                      *)
Recoverable ==
    (pc = "idle" /\ pushes = 0 /\ faults + crashes <= 1) =>
        \E n \in {Copied, Backup} : files[n].image \in Versions

(* On Unraid an upgrade that restarted the worker, or a push whose pkill   *)
(* reached it, ends with the supervisor running the new binary, through    *)
(* worker deaths and reboots, unless a command is started again or the     *)
(* supervisor has ended (platform.go:69-72, supervisor.sh:21-29,           *)
(* update.sh:12-13).  Two cases are excepted.  "missed": the worker        *)
(* happened to be down and killall came between the staging of the old     *)
(* binary and its start.  "unbounced": the pkill of update.sh failed; the  *)
(* script says the supervisor will relaunch (update.sh:14) and the old     *)
(* worker runs on, for ever if nothing ends it.  But once it has ended,    *)
(* for whatever reason, the binary that was pushed comes up.               *)
Relaunched ==
    /\ outcome = "bounced" ~>
          (worker = release.tag \/ outcome # "bounced" \/ SupervisorEnded)
    /\ outcome = "pushed" ~>
          (worker = "new" \/ outcome # "pushed" \/ SupervisorEnded)
    /\ (outcome = "unbounced" /\ worker = Absent) ~>
          (worker = "new" \/ outcome # "unbounced" \/ SupervisorEnded)

(* The supervisor gives up only when as many workers as it allows were     *)
(* ended in a row within five minutes of their start, deliberate restarts  *)
(* included, or a binary that was being rewritten was staged; a worker     *)
(* that ran longer clears the account, whatever came before                *)
(* (supervisor.sh:31-40, README.md:16-17 beside it).                       *)
GivesUpAfterRow ==
    supervisor = "gaveUp" => torn \/ young >= MaxFails

(* upgrade.go:32, and TestRunUpgradesAndRestarts with its stubbed runner:  *)
(* a good release is installed end to end when nothing fails.              *)
GoodReleaseInstalls ==
    (/\ faults = 0 /\ crashes = 0
     /\ release.image = release.tag
     /\ release.assetSig /\ release.sumsSig /\ release.sums)
        => outcome # "failed"
============================================================================

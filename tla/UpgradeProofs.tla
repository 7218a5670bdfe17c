--------------------------- MODULE UpgradeProofs ---------------------------
(***************************************************************************)
(* Proofs about Upgrade for every set of releases and options, any         *)
(* leftover download, and any bounds on attempts, faults, crashes and      *)
(* failing workers.                                                        *)
(***************************************************************************)
EXTENDS Upgrade, TLAPS

---------------------------------------------------------------------------
(* Type correctness, in the five parts that different steps disturb.       *)

Images == Versions \cup {Forged, Partial, Absent}

FilesOK == files \in [Roles -> File]

CommandOK ==
    /\ platform \in Platforms /\ pc \in States
    /\ release \in Releases /\ option \in Options
    /\ outcome \in Outcomes /\ ran \subseteq Versions \cup {Forged}

SupervisionOK ==
    /\ worker \in Versions \cup {Forged, Absent}
    /\ supervisor \in SupervisorStates
    /\ (supervisor = "none") = (platform # "unraid")
    /\ aged \in BOOLEAN /\ (aged => supervisor = "watching")
    /\ torn \in BOOLEAN

BoundsOK ==
    /\ attempts \in 0 .. MaxAttempts /\ pushes \in 0 .. MaxPushes
    /\ faults \in 0 .. MaxFaults /\ crashes \in 0 .. MaxCrashes

(* Until the supervisor gives up its count is below the limit.             *)
FewFails == supervisor # "gaveUp" => fails < MaxFails

CountsOK == fails \in 0 .. MaxFails /\ young \in 0 .. MaxFails /\ FewFails

(* The parts together are the type invariant, with the limit on the count. *)
LEMMA TypeParts ==
    TypeOK /\ FewFails <=>
        FilesOK /\ CommandOK /\ SupervisionOK /\ BoundsOK /\ CountsOK
  BY DEF TypeOK, FilesOK, CommandOK, SupervisionOK, BoundsOK, CountsOK

(* The bounds are numbers.                                                 *)
LEMMA Bounds ==
    /\ MaxAttempts \in Nat /\ MaxPushes \in Nat
    /\ MaxFaults \in Nat /\ MaxCrashes \in Nat
    /\ MaxFails \in Nat /\ MaxFails # 0
  BY UpgradeAssumption, Zenon

(* A release's image is a known one.                                       *)
LEMMA ReleaseImages == \A rel \in Releases : rel.image \in Images
  BY UpgradeAssumption DEF ReleaseTypes, Images

LEMMA NoFileType == NoFile \in File
  BY DEF NoFile, File

(* What is started from a file is an image or nothing.                     *)
LEMMA StartedType ==
    ASSUME NEW f \in File
    PROVE  Started(f) \in Versions \cup {Forged, Absent}
  BY DEF Started, Executable

LEMMA TruncatedType ==
    ASSUME FilesOK, NEW n \in Roles, NEW b \in BOOLEAN
    PROVE  Truncated(n, b) \in File
  BY DEF FilesOK, Truncated, File, Partial

(* The ways files change: one is put in place, filled or made executable.  *)
LEMMA Written ==
    ASSUME FilesOK, NEW n \in Roles
    PROVE  /\ \A f \in File :
                 [files EXCEPT ![n] = f] \in [Roles -> File]
           /\ \A i \in Images :
                 [files EXCEPT ![n].image = i] \in [Roles -> File]
           /\ [files EXCEPT ![n].exec = TRUE] \in [Roles -> File]
  BY DEF FilesOK, File, Images

LEMMA ImageType ==
    ASSUME FilesOK, NEW n \in Roles
    PROVE  files[n].image \in Images
  BY DEF FilesOK, File, Images

LEMMA RoleNames ==
    /\ {"current", "backup", "flash", "flashBackup", "download"} = Roles
    /\ Copied \in Roles /\ Backup \in Roles
  BY DEF Roles, Copied, Backup

LEMMA InitType == Init => TypeOK /\ FewFails
  <1> SUFFICES ASSUME Init PROVE TypeOK /\ FewFails
    OBVIOUS
  <1>1. PICK left \in Leftovers :
           files = [n \in Roles |->
                     IF n = "download" THEN left
                     ELSE IF n = "current"
                             \/ (n = "flash" /\ platform = "unraid")
                     THEN [image |-> "old", exec |-> TRUE] ELSE NoFile]
    BY DEF Init
  <1>2. /\ left \in File /\ NoFile \in File
        /\ [image |-> "old", exec |-> TRUE] \in File
    BY UpgradeAssumption, NoFileType DEF File, Versions
  <1>3. FilesOK
    BY <1>1, <1>2 DEF FilesOK
  <1>4. CommandOK
    BY UpgradeAssumption DEF Init, CommandOK, States, Outcomes
  <1>5. SupervisionOK
    BY DEF Init, SupervisionOK, SupervisorStates, Versions
  <1>6. BoundsOK /\ CountsOK
    <2>1. /\ \A n \in Nat : 0 \in 0 .. n
          /\ 0 < MaxFails
      BY Bounds
    <2> QED
      BY <2>1, Bounds, Zenon DEF Init, BoundsOK, CountsOK, FewFails
  <1> QED
    BY <1>3, <1>4, <1>5, <1>6, TypeParts

(* Every step keeps the types of the files, ...                            *)
LEMMA FilesStep ==
    ASSUME FilesOK, CommandOK, [Next]_vars
    PROVE  FilesOK'
  <1> USE DEF FilesOK, supervision, bounds, Goto, Step, Fault, End, Discard
  <1>0. [files EXCEPT !["download"] = NoFile] \in [Roles -> File]
    BY Written, RoleNames, NoFileType
  <1>1. ASSUME Resolve PROVE FilesOK'
    BY <1>1, <1>0, NoFileType DEF Resolve
  <1>2. ASSUME Fetch PROVE FilesOK'
    <2>1. [files EXCEPT !["download"] = Truncated("download", FALSE)]
            \in [Roles -> File]
      BY Written, RoleNames, TruncatedType, NoFileType
    <2> QED
      BY <1>2, <1>0, <2>1, Zenon DEF Fetch
  <1>3. ASSUME FetchBody PROVE FilesOK'
    <2>1. release.image \in Images
      BY ReleaseImages DEF CommandOK
    <2>2. [files EXCEPT !["download"].image = release.image]
            \in [Roles -> File]
      BY Written, RoleNames, TruncatedType, NoFileType, <2>1
    <2> QED
      BY <1>3, <1>0, <2>1, <2>2, Zenon DEF FetchBody
  <1>4. ASSUME VerifyAsset PROVE FilesOK'
    BY <1>4, <1>0, NoFileType DEF VerifyAsset
  <1>5. ASSUME VerifySums PROVE FilesOK'
    BY <1>5, <1>0, NoFileType DEF VerifySums
  <1>6. ASSUME CheckVersion PROVE FilesOK'
    BY <1>6, <1>0, NoFileType DEF CheckVersion
  <1>7. ASSUME BackUp PROVE FilesOK'
    <2>1. [files EXCEPT ![Backup] = Truncated(Backup, TRUE)]
            \in [Roles -> File]
      BY Written, RoleNames, TruncatedType, NoFileType
    <2>2. [files EXCEPT !["backup"] = files["current"], !["current"] = NoFile]
            \in [Roles -> File]
      BY NoFileType, RoleNames
    <2> QED
      BY <1>7, <1>0, <2>1, <2>2, Zenon DEF BackUp
  <1>8. ASSUME BackUpBody PROVE FilesOK'
    <2>1. files[Copied].image \in Images
      BY ImageType, RoleNames
    <2>2. [files EXCEPT ![Backup].image = files[Copied].image]
            \in [Roles -> File]
      BY Written, RoleNames, TruncatedType, NoFileType, <2>1
    <2> QED
      BY <1>8, <1>0, <2>1, <2>2, Zenon DEF BackUpBody
  <1>9. ASSUME Place PROVE FilesOK'
    <2>1. [files EXCEPT !["flash"] = Truncated("flash", TRUE)]
            \in [Roles -> File]
      BY Written, RoleNames, TruncatedType, NoFileType
    <2>2. [files EXCEPT !["current"] = files["download"],
                       !["download"] = NoFile]
            \in [Roles -> File]
      BY NoFileType, RoleNames
    <2> QED
      BY <1>9, <1>0, <2>1, <2>2, Zenon DEF Place
  <1>10. ASSUME PlaceBody PROVE FilesOK'
    <2>1. files["download"].image \in Images
      BY ImageType, RoleNames
    <2>2. [files EXCEPT !["flash"].image = files["download"].image]
            \in [Roles -> File]
      BY Written, RoleNames, TruncatedType, NoFileType, <2>1
    <2> QED
      BY <1>10, <1>0, <2>1, <2>2, Zenon DEF PlaceBody
  <1>11. ASSUME Chmod PROVE FilesOK'
    <2>1. [files EXCEPT !["current"].exec = TRUE] \in [Roles -> File]
      BY Written, RoleNames, TruncatedType, NoFileType
    <2> QED
      BY <1>11, <1>0, <2>1, Zenon DEF Chmod
  <1>12. ASSUME Restart PROVE FilesOK'
    BY <1>12, <1>0, NoFileType DEF Restart
  <1>13. ASSUME Push PROVE FilesOK'
    <2>1. [files EXCEPT !["flash"] = Truncated("flash", TRUE)]
            \in [Roles -> File]
      BY Written, RoleNames, TruncatedType, NoFileType
    <2> QED
      BY <1>13, <1>0, <2>1, Zenon DEF Push
  <1>14. ASSUME PushBody PROVE FilesOK'
    <2>1. "new" \in Images
      BY DEF Images, Versions
    <2>2. [files EXCEPT !["flash"].image = "new"] \in [Roles -> File]
      BY Written, RoleNames, TruncatedType, NoFileType, <2>1
    <2> QED
      BY <1>14, <1>0, <2>1, <2>2, Zenon DEF PushBody
  <1>15. ASSUME Pkill PROVE FilesOK'
    BY <1>15, <1>0, NoFileType DEF Pkill
  <1>16. ASSUME Interrupt PROVE FilesOK'
    BY <1>16, <1>0, NoFileType DEF Interrupt
  <1>17. ASSUME WorkerDies PROVE FilesOK'
    BY <1>17, <1>0, NoFileType DEF WorkerDies
  <1>18. ASSUME SystemdStarts PROVE FilesOK'
    BY <1>18, <1>0, NoFileType DEF SystemdStarts
  <1>19. ASSUME Stage PROVE FilesOK'
    <2>1. Installed(files["flash"]) \in File
      BY RoleNames DEF File, Installed
    <2>2. [files EXCEPT !["current"] = Installed(files["flash"])]
            \in [Roles -> File]
      BY Written, RoleNames, TruncatedType, NoFileType, <2>1
    <2> QED
      BY <1>19, <1>0, <2>1, <2>2, Zenon DEF Stage
  <1>20. ASSUME Launch PROVE FilesOK'
    BY <1>20, <1>0, NoFileType DEF Launch
  <1>21. ASSUME Count PROVE FilesOK'
    BY <1>21, <1>0, NoFileType DEF Count
  <1>22. ASSUME Age PROVE FilesOK'
    BY <1>22, <1>0, NoFileType DEF Age
  <1>23. ASSUME Reboot PROVE FilesOK'
    BY <1>23, <1>0, NoFileType DEF Reboot
  <1>24. ASSUME UNCHANGED vars PROVE FilesOK'
    BY <1>24 DEF vars
  <1> QED
    BY <1>1, <1>2, <1>3, <1>4, <1>5, <1>6, <1>7, <1>8, <1>9, <1>10, <1>11,
       <1>12, <1>13, <1>14, <1>15, <1>16, <1>17, <1>18, <1>19, <1>20, <1>21,
       <1>22, <1>23, <1>24
    DEF Next, Command, Update, Supervise

(* ... of the command, ...                                                 *)
LEMMA CommandStep ==
    ASSUME CommandOK, [Next]_vars
    PROVE  CommandOK'
  <1> USE DEF CommandOK, supervision, bounds, Goto, Step, Fault, End,
          Discard, States, Outcomes
  <1>1. ASSUME Resolve PROVE CommandOK'
    BY <1>1 DEF Resolve
  <1>2. ASSUME Fetch PROVE CommandOK'
    BY <1>2 DEF Fetch
  <1>3. ASSUME FetchBody PROVE CommandOK'
    BY <1>3 DEF FetchBody
  <1>4. ASSUME VerifyAsset PROVE CommandOK'
    BY <1>4 DEF VerifyAsset
  <1>5. ASSUME VerifySums PROVE CommandOK'
    BY <1>5 DEF VerifySums
  <1>6. ASSUME CheckVersion PROVE CommandOK'
    <2>1. Executable(files["download"]) =>
             files["download"].image \in Versions \cup {Forged}
      BY DEF Executable
    <2>2. /\ platform' = platform /\ release' = release /\ option' = option
          /\ pc' \in {"idle", "backup"} /\ outcome' \in {outcome, "failed"}
          /\ \/ ran' = ran
             \/ ran' = ran \cup {files["download"].image}
                  /\ Executable(files["download"])
      BY <1>6, Zenon DEF CheckVersion
    <2> QED
      BY <2>1, <2>2
  <1>7. ASSUME BackUp PROVE CommandOK'
    BY <1>7 DEF BackUp
  <1>8. ASSUME BackUpBody PROVE CommandOK'
    BY <1>8 DEF BackUpBody
  <1>9. ASSUME Place PROVE CommandOK'
    BY <1>9 DEF Place
  <1>10. ASSUME PlaceBody PROVE CommandOK'
    BY <1>10 DEF PlaceBody
  <1>11. ASSUME Chmod PROVE CommandOK'
    BY <1>11 DEF Chmod
  <1>12. ASSUME Restart PROVE CommandOK'
    BY <1>12 DEF Restart
  <1>13. ASSUME Push PROVE CommandOK'
    BY <1>13 DEF Push
  <1>14. ASSUME PushBody PROVE CommandOK'
    BY <1>14 DEF PushBody
  <1>15. ASSUME Pkill PROVE CommandOK'
    BY <1>15 DEF Pkill
  <1>16. ASSUME Interrupt PROVE CommandOK'
    BY <1>16 DEF Interrupt
  <1>17. ASSUME WorkerDies PROVE CommandOK'
    BY <1>17 DEF WorkerDies
  <1>18. ASSUME SystemdStarts PROVE CommandOK'
    BY <1>18 DEF SystemdStarts
  <1>19. ASSUME Stage PROVE CommandOK'
    BY <1>19 DEF Stage
  <1>20. ASSUME Launch PROVE CommandOK'
    BY <1>20 DEF Launch
  <1>21. ASSUME Count PROVE CommandOK'
    BY <1>21 DEF Count
  <1>22. ASSUME Age PROVE CommandOK'
    BY <1>22 DEF Age
  <1>23. ASSUME Reboot PROVE CommandOK'
    BY <1>23 DEF Reboot
  <1>24. ASSUME UNCHANGED vars PROVE CommandOK'
    BY <1>24 DEF vars
  <1> QED
    BY <1>1, <1>2, <1>3, <1>4, <1>5, <1>6, <1>7, <1>8, <1>9, <1>10, <1>11,
       <1>12, <1>13, <1>14, <1>15, <1>16, <1>17, <1>18, <1>19, <1>20, <1>21,
       <1>22, <1>23, <1>24
    DEF Next, Command, Update, Supervise

(* ... of the bounds, ...                                                  *)
LEMMA BoundsStep ==
    ASSUME BoundsOK, [Next]_vars
    PROVE  BoundsOK'
  <1> USE Bounds DEF BoundsOK, supervision, bounds, Goto, Step, Fault, End,
          Discard, WorkerEnds
  <1>1. ASSUME Resolve PROVE BoundsOK'
    BY <1>1 DEF Resolve
  <1>2. ASSUME Fetch PROVE BoundsOK'
    <2>1. /\ UNCHANGED <<attempts, pushes, crashes>>
          /\ UNCHANGED faults \/ Fault
      BY <1>2, Zenon DEF Fetch
    <2> QED
      BY <2>1
  <1>3. ASSUME FetchBody PROVE BoundsOK'
    BY <1>3 DEF FetchBody
  <1>4. ASSUME VerifyAsset PROVE BoundsOK'
    BY <1>4 DEF VerifyAsset
  <1>5. ASSUME VerifySums PROVE BoundsOK'
    BY <1>5 DEF VerifySums
  <1>6. ASSUME CheckVersion PROVE BoundsOK'
    BY <1>6 DEF CheckVersion
  <1>7. ASSUME BackUp PROVE BoundsOK'
    <2>1. /\ UNCHANGED <<attempts, pushes, crashes>>
          /\ UNCHANGED faults \/ Fault
      BY <1>7, Zenon DEF BackUp
    <2> QED
      BY <2>1
  <1>8. ASSUME BackUpBody PROVE BoundsOK'
    BY <1>8 DEF BackUpBody
  <1>9. ASSUME Place PROVE BoundsOK'
    <2>1. /\ UNCHANGED <<attempts, pushes, crashes>>
          /\ UNCHANGED faults \/ Fault
      BY <1>9, Zenon DEF Place
    <2> QED
      BY <2>1
  <1>10. ASSUME PlaceBody PROVE BoundsOK'
    BY <1>10 DEF PlaceBody
  <1>11. ASSUME Chmod PROVE BoundsOK'
    BY <1>11 DEF Chmod
  <1>12. ASSUME Restart PROVE BoundsOK'
    BY <1>12 DEF Restart
  <1>13. ASSUME Push PROVE BoundsOK'
    BY <1>13 DEF Push
  <1>14. ASSUME PushBody PROVE BoundsOK'
    BY <1>14 DEF PushBody
  <1>15. ASSUME Pkill PROVE BoundsOK'
    BY <1>15 DEF Pkill
  <1>16. ASSUME Interrupt PROVE BoundsOK'
    BY <1>16 DEF Interrupt
  <1>17. ASSUME WorkerDies PROVE BoundsOK'
    BY <1>17 DEF WorkerDies
  <1>18. ASSUME SystemdStarts PROVE BoundsOK'
    BY <1>18 DEF SystemdStarts
  <1>19. ASSUME Stage PROVE BoundsOK'
    BY <1>19 DEF Stage
  <1>20. ASSUME Launch PROVE BoundsOK'
    BY <1>20 DEF Launch
  <1>21. ASSUME Count PROVE BoundsOK'
    BY <1>21 DEF Count
  <1>22. ASSUME Age PROVE BoundsOK'
    BY <1>22 DEF Age
  <1>23. ASSUME Reboot PROVE BoundsOK'
    BY <1>23 DEF Reboot
  <1>24. ASSUME UNCHANGED vars PROVE BoundsOK'
    BY <1>24 DEF vars
  <1> QED
    BY <1>1, <1>2, <1>3, <1>4, <1>5, <1>6, <1>7, <1>8, <1>9, <1>10, <1>11,
       <1>12, <1>13, <1>14, <1>15, <1>16, <1>17, <1>18, <1>19, <1>20, <1>21,
       <1>22, <1>23, <1>24
    DEF Next, Command, Update, Supervise

(* ... of the supervisor's count and the row it counts, ...                *)
LEMMA CountsStep ==
    ASSUME CountsOK, [Next]_vars
    PROVE  CountsOK'
  <1> USE Bounds DEF CountsOK, FewFails, supervision, bounds, WorkerEnds
  <1>1. ASSUME Resolve PROVE CountsOK'
    BY <1>1 DEF Resolve
  <1>2. ASSUME Fetch PROVE CountsOK'
    BY <1>2 DEF Fetch
  <1>3. ASSUME FetchBody PROVE CountsOK'
    BY <1>3 DEF FetchBody
  <1>4. ASSUME VerifyAsset PROVE CountsOK'
    BY <1>4 DEF VerifyAsset
  <1>5. ASSUME VerifySums PROVE CountsOK'
    BY <1>5 DEF VerifySums
  <1>6. ASSUME CheckVersion PROVE CountsOK'
    BY <1>6 DEF CheckVersion
  <1>7. ASSUME BackUp PROVE CountsOK'
    BY <1>7 DEF BackUp
  <1>8. ASSUME BackUpBody PROVE CountsOK'
    BY <1>8 DEF BackUpBody
  <1>9. ASSUME Place PROVE CountsOK'
    BY <1>9 DEF Place
  <1>10. ASSUME PlaceBody PROVE CountsOK'
    BY <1>10 DEF PlaceBody
  <1>11. ASSUME Chmod PROVE CountsOK'
    BY <1>11 DEF Chmod
  <1>12. ASSUME Restart PROVE CountsOK'
    BY <1>12 DEF Restart
  <1>13. ASSUME Push PROVE CountsOK'
    BY <1>13 DEF Push
  <1>14. ASSUME PushBody PROVE CountsOK'
    BY <1>14 DEF PushBody
  <1>15. ASSUME Pkill PROVE CountsOK'
    BY <1>15 DEF Pkill
  <1>16. ASSUME Interrupt PROVE CountsOK'
    BY <1>16 DEF Interrupt
  <1>17. ASSUME WorkerDies PROVE CountsOK'
    BY <1>17 DEF WorkerDies
  <1>18. ASSUME SystemdStarts PROVE CountsOK'
    BY <1>18 DEF SystemdStarts
  <1>19. ASSUME Stage PROVE CountsOK'
    BY <1>19 DEF Stage
  <1>20. ASSUME Launch PROVE CountsOK'
    BY <1>20 DEF Launch
  <1>21. ASSUME Count PROVE CountsOK'
    BY <1>21 DEF Count
  <1>22. ASSUME Age PROVE CountsOK'
    BY <1>22 DEF Age
  <1>23. ASSUME Reboot PROVE CountsOK'
    BY <1>23 DEF Reboot
  <1>24. ASSUME UNCHANGED vars PROVE CountsOK'
    BY <1>24 DEF vars
  <1> QED
    BY <1>1, <1>2, <1>3, <1>4, <1>5, <1>6, <1>7, <1>8, <1>9, <1>10, <1>11,
       <1>12, <1>13, <1>14, <1>15, <1>16, <1>17, <1>18, <1>19, <1>20, <1>21,
       <1>22, <1>23, <1>24
    DEF Next, Command, Update, Supervise

(* ... and of the worker and its supervisor.                               *)
LEMMA SupervisionStep ==
    ASSUME FilesOK, SupervisionOK, [Next]_vars
    PROVE  SupervisionOK'
  <1> USE DEF SupervisionOK, FilesOK, supervision, bounds, SupervisorStates,
          WorkerEnds
  <1>1. ASSUME Resolve PROVE SupervisionOK'
    BY <1>1, StartedType, RoleNames DEF Resolve
  <1>2. ASSUME Fetch PROVE SupervisionOK'
    BY <1>2, StartedType, RoleNames DEF Fetch
  <1>3. ASSUME FetchBody PROVE SupervisionOK'
    BY <1>3, StartedType, RoleNames DEF FetchBody
  <1>4. ASSUME VerifyAsset PROVE SupervisionOK'
    BY <1>4, StartedType, RoleNames DEF VerifyAsset
  <1>5. ASSUME VerifySums PROVE SupervisionOK'
    BY <1>5, StartedType, RoleNames DEF VerifySums
  <1>6. ASSUME CheckVersion PROVE SupervisionOK'
    BY <1>6, StartedType, RoleNames DEF CheckVersion
  <1>7. ASSUME BackUp PROVE SupervisionOK'
    BY <1>7, StartedType, RoleNames DEF BackUp
  <1>8. ASSUME BackUpBody PROVE SupervisionOK'
    BY <1>8, StartedType, RoleNames DEF BackUpBody
  <1>9. ASSUME Place PROVE SupervisionOK'
    BY <1>9, StartedType, RoleNames DEF Place
  <1>10. ASSUME PlaceBody PROVE SupervisionOK'
    BY <1>10, StartedType, RoleNames DEF PlaceBody
  <1>11. ASSUME Chmod PROVE SupervisionOK'
    BY <1>11, StartedType, RoleNames DEF Chmod
  <1>12. ASSUME Restart PROVE SupervisionOK'
    BY <1>12, StartedType, RoleNames DEF Restart
  <1>13. ASSUME Push PROVE SupervisionOK'
    BY <1>13, StartedType, RoleNames DEF Push
  <1>14. ASSUME PushBody PROVE SupervisionOK'
    BY <1>14, StartedType, RoleNames DEF PushBody
  <1>15. ASSUME Pkill PROVE SupervisionOK'
    BY <1>15, StartedType, RoleNames DEF Pkill
  <1>16. ASSUME Interrupt PROVE SupervisionOK'
    BY <1>16, StartedType, RoleNames DEF Interrupt
  <1>17. ASSUME WorkerDies PROVE SupervisionOK'
    BY <1>17, StartedType, RoleNames DEF WorkerDies
  <1>18. ASSUME SystemdStarts PROVE SupervisionOK'
    BY <1>18, StartedType, RoleNames DEF SystemdStarts
  <1>19. ASSUME Stage PROVE SupervisionOK'
    BY <1>19, StartedType, RoleNames DEF Stage
  <1>20. ASSUME Launch PROVE SupervisionOK'
    BY <1>20, StartedType, RoleNames DEF Launch
  <1>21. ASSUME Count PROVE SupervisionOK'
    BY <1>21, StartedType, RoleNames DEF Count
  <1>22. ASSUME Age PROVE SupervisionOK'
    BY <1>22, StartedType, RoleNames DEF Age
  <1>23. ASSUME Reboot PROVE SupervisionOK'
    BY <1>23, StartedType, RoleNames DEF Reboot
  <1>24. ASSUME UNCHANGED vars PROVE SupervisionOK'
    BY <1>24 DEF vars
  <1> QED
    BY <1>1, <1>2, <1>3, <1>4, <1>5, <1>6, <1>7, <1>8, <1>9, <1>10, <1>11,
       <1>12, <1>13, <1>14, <1>15, <1>16, <1>17, <1>18, <1>19, <1>20, <1>21,
       <1>22, <1>23, <1>24
    DEF Next, Command, Update, Supervise

(* So it keeps all of them.                                                *)
LEMMA TypeStep ==
    ASSUME TypeOK, FewFails, [Next]_vars
    PROVE  TypeOK' /\ FewFails'
  <1>1. FilesOK /\ CommandOK /\ SupervisionOK /\ BoundsOK /\ CountsOK
    BY TypeParts DEF CountsOK
  <1>2. FilesOK' /\ CommandOK' /\ SupervisionOK' /\ BoundsOK' /\ CountsOK'
    BY <1>1, FilesStep, CommandStep, BoundsStep, CountsStep, SupervisionStep
  <1> QED
    BY <1>2 DEF TypeOK, FilesOK, CommandOK, SupervisionOK, BoundsOK, CountsOK

(* The state of the upgrade always has the types TypeOK gives it.          *)
THEOREM TypeCorrect == Spec => []TypeOK
  <1>1. TypeOK /\ FewFails /\ [Next]_vars => TypeOK' /\ FewFails'
    BY TypeStep
  <1> QED
    BY <1>1, InitType, PTL DEF Spec

---------------------------------------------------------------------------
(* What is verified stays what is used: the inductive invariant.           *)

(* A command between its steps: what it has fetched, signed, checked and   *)
(* placed so far, on the way to what InstalledIsRelease says of its end.   *)
CommandInv ==
    /\ pc # "idle" => outcome = "none"
    /\ pc = "fetched" => files["download"].image = release.image
    /\ pc \in {"signed", "verified", "backup", "backingUp", "place",
              "placing"} =>
            files["download"].image # Forged
    /\ pc \in {"backup", "backingUp", "place", "placing"} =>
            /\ files["download"].image = release.tag
            /\ Executable(files["download"])
    /\ pc = "placing" => platform = "unraid"
    /\ pc \in {"chmod", "restart"} => files[Copied].image = release.tag

UpgradeInv == OnlySigned /\ CurrentRuns /\ InstalledIsRelease /\ CommandInv

(* The supervisor's count of rapid failures never exceeds the number of    *)
(* workers that really were ended in a row before their five minutes.      *)
RowInv ==
    /\ platform = "unraid" /\ worker # Absent => supervisor = "watching"
    /\ \/ torn
       \/ /\ supervisor \in {"staging", "staged"} => fails <= young
          /\ supervisor = "watching" /\ worker # Absent => fails <= young
          /\ supervisor = "watching" /\ worker = Absent /\ ~aged =>
                 fails < young
          /\ supervisor = "gaveUp" => young = MaxFails

(* No release is tagged Forged, and no signature verifies for it.          *)
LEMMA ReleaseFacts ==
    \A rel \in Releases :
        /\ rel.tag \in Versions /\ rel.tag # Forged
        /\ rel.assetSig => rel.image # Forged
  <1>1. \A rel \in Releases : rel.tag \in Versions
    BY UpgradeAssumption DEF ReleaseTypes
  <1>2. Forged \notin Versions
    BY DEF Forged, Versions
  <1>3. \A rel \in Releases : rel.assetSig => rel.image # Forged
    BY UpgradeAssumption, Zenon
  <1> QED
    BY <1>1, <1>2, <1>3, Zenon

(* Every step keeps the count within the row it counts.                    *)
LEMMA RowStep ==
    ASSUME FilesOK, SupervisionOK, CountsOK, RowInv, [Next]_vars
    PROVE  RowInv'
  <1> USE Bounds DEF FilesOK, SupervisionOK, CountsOK, FewFails, RowInv,
          supervision, bounds, SupervisorStates, WorkerEnds
  <1>1. ASSUME Resolve PROVE RowInv'
    BY <1>1, RoleNames DEF Resolve
  <1>2. ASSUME Fetch PROVE RowInv'
    BY <1>2, RoleNames DEF Fetch
  <1>3. ASSUME FetchBody PROVE RowInv'
    BY <1>3, RoleNames DEF FetchBody
  <1>4. ASSUME VerifyAsset PROVE RowInv'
    BY <1>4, RoleNames DEF VerifyAsset
  <1>5. ASSUME VerifySums PROVE RowInv'
    BY <1>5, RoleNames DEF VerifySums
  <1>6. ASSUME CheckVersion PROVE RowInv'
    BY <1>6, RoleNames DEF CheckVersion
  <1>7. ASSUME BackUp PROVE RowInv'
    BY <1>7, RoleNames DEF BackUp
  <1>8. ASSUME BackUpBody PROVE RowInv'
    BY <1>8, RoleNames DEF BackUpBody
  <1>9. ASSUME Place PROVE RowInv'
    BY <1>9, RoleNames DEF Place
  <1>10. ASSUME PlaceBody PROVE RowInv'
    BY <1>10, RoleNames DEF PlaceBody
  <1>11. ASSUME Chmod PROVE RowInv'
    BY <1>11, RoleNames DEF Chmod
  <1>12. ASSUME Restart PROVE RowInv'
    BY <1>12, RoleNames DEF Restart
  <1>13. ASSUME Push PROVE RowInv'
    BY <1>13, RoleNames DEF Push
  <1>14. ASSUME PushBody PROVE RowInv'
    BY <1>14, RoleNames DEF PushBody
  <1>15. ASSUME Pkill PROVE RowInv'
    BY <1>15, RoleNames DEF Pkill
  <1>16. ASSUME Interrupt PROVE RowInv'
    BY <1>16, RoleNames DEF Interrupt
  <1>17. ASSUME WorkerDies PROVE RowInv'
    BY <1>17, RoleNames DEF WorkerDies
  <1>18. ASSUME SystemdStarts PROVE RowInv'
    BY <1>18, RoleNames DEF SystemdStarts
  <1>19. ASSUME Stage PROVE RowInv'
    BY <1>19, RoleNames DEF Stage
  <1>20. ASSUME Launch PROVE RowInv'
    <2>1. Started(files["current"]) = Absent => ~Executable(files["current"])
      BY DEF Started, Executable, Versions, Forged, Absent
    <2>2. /\ worker' = Started(files["current"])
          /\ torn \/ ~Executable(files["current"]) <=> torn'
          /\ supervisor = "staged" /\ supervisor' = "watching"
          /\ UNCHANGED <<fails, young>>
      BY <1>20, Zenon DEF Launch
    <2> QED
      BY <2>1, <2>2
  <1>21. ASSUME Count PROVE RowInv'
    BY <1>21, RoleNames DEF Count
  <1>22. ASSUME Age PROVE RowInv'
    BY <1>22, RoleNames DEF Age
  <1>23. ASSUME Reboot PROVE RowInv'
    BY <1>23, RoleNames DEF Reboot
  <1>24. ASSUME UNCHANGED vars PROVE RowInv'
    BY <1>24 DEF vars
  <1> QED
    BY <1>1, <1>2, <1>3, <1>4, <1>5, <1>6, <1>7, <1>8, <1>9, <1>10, <1>11,
       <1>12, <1>13, <1>14, <1>15, <1>16, <1>17, <1>18, <1>19, <1>20, <1>21,
       <1>22, <1>23, <1>24
    DEF Next, Command, Update, Supervise

(* OnlySigned, in the three places it speaks of.                           *)
SignedFiles(fs) == \A n \in Roles \ {"download"} : fs[n].image # Forged

LEMMA SignedParts ==
    OnlySigned <=> Forged \notin ran /\ worker # Forged /\ SignedFiles(files)
  BY DEF OnlySigned, SignedFiles

(* What is started from a signed file is signed.                           *)
LEMMA StartedSigned ==
    ASSUME NEW f, f.image # Forged
    PROVE  Started(f) # Forged
  BY DEF Started, Absent, Forged

(* A truncated file is nobody's binary.                                    *)
LEMMA TruncatedSigned ==
    ASSUME NEW n, NEW b
    PROVE  Truncated(n, b).image # Forged
  <1>1. Truncated(n, b).image = Partial
    BY Zenon DEF Truncated
  <1> QED
    BY <1>1 DEF Partial, Forged

LEMMA NotForged ==
    /\ NoFile.image # Forged /\ "new" # Forged
    /\ \A f \in File : Installed(f).image = f.image
  BY DEF NoFile, Absent, Forged, Installed, File

(* The ways files change, again: the download may hold anything.           *)
LEMMA SignedWritten ==
    ASSUME FilesOK, SignedFiles(files), NEW n \in Roles
    PROVE  /\ \A f \in File : f.image # Forged \/ n = "download" =>
                 SignedFiles([files EXCEPT ![n] = f])
           /\ \A i \in Images : i # Forged \/ n = "download" =>
                 SignedFiles([files EXCEPT ![n].image = i])
           /\ SignedFiles([files EXCEPT ![n].exec = TRUE])
  BY DEF FilesOK, SignedFiles, File

(* The two renames.                                                        *)
LEMMA SignedMoved ==
    ASSUME FilesOK, SignedFiles(files)
    PROVE  /\ SignedFiles([files EXCEPT !["backup"] = files["current"],
                                        !["current"] = NoFile])
           /\ files["download"].image # Forged =>
                 SignedFiles([files EXCEPT !["current"] = files["download"],
                                           !["download"] = NoFile])
  BY NotForged, RoleNames DEF FilesOK, SignedFiles

(* Every step keeps the files signed, ...                                  *)
LEMMA SignedFilesStep ==
    ASSUME FilesOK, CommandOK, CommandInv, SignedFiles(files), [Next]_vars
    PROVE  SignedFiles(files')
  <1> USE DEF supervision, bounds, Goto, Step, Fault, End, Discard
  <1>0. SignedFiles([files EXCEPT !["download"] = NoFile])
    BY SignedWritten, RoleNames, NoFileType
  <1>1. ASSUME Resolve PROVE SignedFiles(files')
    BY <1>1, <1>0 DEF Resolve
  <1>2. ASSUME Fetch PROVE SignedFiles(files')
    <2>1. Truncated("download", FALSE) \in File
      BY TruncatedType, RoleNames
    <2>2. SignedFiles(
            [files EXCEPT !["download"] = Truncated("download", FALSE)])
      BY <2>1, SignedWritten, RoleNames, TruncatedSigned
    <2> QED
      BY <1>2, <1>0, <2>1, <2>2, Zenon DEF Fetch
  <1>3. ASSUME FetchBody PROVE SignedFiles(files')
    <2>1. release.image \in Images
      BY ReleaseImages DEF CommandOK
    <2>2. SignedFiles([files EXCEPT !["download"].image = release.image])
      BY <2>1, SignedWritten, RoleNames
    <2> QED
      BY <1>3, <1>0, <2>1, <2>2, Zenon DEF FetchBody
  <1>4. ASSUME VerifyAsset PROVE SignedFiles(files')
    BY <1>4, <1>0 DEF VerifyAsset
  <1>5. ASSUME VerifySums PROVE SignedFiles(files')
    BY <1>5, <1>0 DEF VerifySums
  <1>6. ASSUME CheckVersion PROVE SignedFiles(files')
    BY <1>6, <1>0 DEF CheckVersion
  <1>7. ASSUME BackUp PROVE SignedFiles(files')
    <2>1. Truncated(Backup, TRUE) \in File
      BY TruncatedType, RoleNames
    <2>2. SignedFiles([files EXCEPT ![Backup] = Truncated(Backup, TRUE)])
      BY <2>1, SignedWritten, RoleNames, TruncatedSigned
    <2>3. SignedFiles([files EXCEPT !["backup"] = files["current"],
                                   !["current"] = NoFile])
      BY <2>1, <2>2, SignedMoved
    <2> QED
      BY <1>7, <1>0, <2>1, <2>2, <2>3, Zenon DEF BackUp
  <1>8. ASSUME BackUpBody PROVE SignedFiles(files')
    <2>1. files[Copied].image \in Images
      BY ImageType, RoleNames
    <2>2. files[Copied].image # Forged
      BY <2>1, RoleNames DEF SignedFiles, Copied
    <2>3. SignedFiles([files EXCEPT ![Backup].image = files[Copied].image])
      BY <2>1, <2>2, SignedWritten, RoleNames
    <2> QED
      BY <1>8, <1>0, <2>1, <2>2, <2>3, Zenon DEF BackUpBody
  <1>9. ASSUME Place PROVE SignedFiles(files')
    <2>1. Truncated("flash", TRUE) \in File
      BY TruncatedType, RoleNames
    <2>2. SignedFiles([files EXCEPT !["flash"] = Truncated("flash", TRUE)])
      BY <2>1, SignedWritten, RoleNames, TruncatedSigned
    <2>3. files["download"].image # Forged
      BY <2>1, <2>2, <1>9, Zenon DEF CommandInv, Place
    <2>4. SignedFiles([files EXCEPT !["current"] = files["download"],
                                   !["download"] = NoFile])
      BY <2>1, <2>2, <2>3, SignedMoved
    <2> QED
      BY <1>9, <1>0, <2>1, <2>2, <2>3, <2>4, Zenon DEF Place
  <1>10. ASSUME PlaceBody PROVE SignedFiles(files')
    <2>1. files["download"].image \in Images
      BY ImageType, RoleNames
    <2>2. files["download"].image # Forged
      BY <2>1, <1>10, Zenon DEF CommandInv, PlaceBody
    <2>3. SignedFiles(
            [files EXCEPT !["flash"].image = files["download"].image])
      BY <2>1, <2>2, SignedWritten, RoleNames
    <2> QED
      BY <1>10, <1>0, <2>1, <2>2, <2>3, Zenon DEF PlaceBody
  <1>11. ASSUME Chmod PROVE SignedFiles(files')
    <2>1. SignedFiles([files EXCEPT !["current"].exec = TRUE])
      BY SignedWritten, RoleNames
    <2> QED
      BY <1>11, <1>0, <2>1, Zenon DEF Chmod
  <1>12. ASSUME Restart PROVE SignedFiles(files')
    BY <1>12, <1>0 DEF Restart
  <1>13. ASSUME Push PROVE SignedFiles(files')
    <2>1. Truncated("flash", TRUE) \in File
      BY TruncatedType, RoleNames
    <2>2. SignedFiles([files EXCEPT !["flash"] = Truncated("flash", TRUE)])
      BY <2>1, SignedWritten, RoleNames, TruncatedSigned
    <2> QED
      BY <1>13, <1>0, <2>1, <2>2, Zenon DEF Push
  <1>14. ASSUME PushBody PROVE SignedFiles(files')
    <2>1. "new" \in Images
      BY DEF Images, Versions
    <2>2. SignedFiles([files EXCEPT !["flash"].image = "new"])
      BY <2>1, SignedWritten, RoleNames, NotForged
    <2> QED
      BY <1>14, <1>0, <2>1, <2>2, Zenon DEF PushBody
  <1>15. ASSUME Pkill PROVE SignedFiles(files')
    BY <1>15, <1>0 DEF Pkill
  <1>16. ASSUME Interrupt PROVE SignedFiles(files')
    BY <1>16, <1>0 DEF Interrupt
  <1>17. ASSUME WorkerDies PROVE SignedFiles(files')
    BY <1>17, <1>0 DEF WorkerDies
  <1>18. ASSUME SystemdStarts PROVE SignedFiles(files')
    BY <1>18, <1>0 DEF SystemdStarts
  <1>19. ASSUME Stage PROVE SignedFiles(files')
    <2>1. Installed(files["flash"]) \in File
      BY RoleNames DEF FilesOK, File, Installed
    <2>2. Installed(files["flash"]).image # Forged
      BY <2>1, RoleNames, NotForged DEF FilesOK, SignedFiles
    <2>3. SignedFiles([files EXCEPT !["current"] = Installed(files["flash"])])
      BY <2>1, <2>2, SignedWritten, RoleNames
    <2> QED
      BY <1>19, <1>0, <2>1, <2>2, <2>3, Zenon DEF Stage
  <1>20. ASSUME Launch PROVE SignedFiles(files')
    BY <1>20, <1>0 DEF Launch
  <1>21. ASSUME Count PROVE SignedFiles(files')
    BY <1>21, <1>0 DEF Count
  <1>22. ASSUME Age PROVE SignedFiles(files')
    BY <1>22, <1>0 DEF Age
  <1>23. ASSUME Reboot PROVE SignedFiles(files')
    <2>1. SignedFiles([n \in Roles |-> IF n \in {"flash", "flashBackup"}
                                      THEN files[n] ELSE NoFile])
      BY NotForged DEF SignedFiles, Roles
    <2> QED
      BY <1>23, <2>1, Zenon DEF Reboot, supervision
  <1>24. ASSUME UNCHANGED vars PROVE SignedFiles(files')
    BY <1>24 DEF vars
  <1> QED
    BY <1>1, <1>2, <1>3, <1>4, <1>5, <1>6, <1>7, <1>8, <1>9, <1>10, <1>11,
       <1>12, <1>13, <1>14, <1>15, <1>16, <1>17, <1>18, <1>19, <1>20, <1>21,
       <1>22, <1>23, <1>24
    DEF Next, Command, Update, Supervise

(* ... and so the worker, ...                                              *)
LEMMA SignedWorkerStep ==
    ASSUME FilesOK, SignedFiles(files), worker # Forged, [Next]_vars
    PROVE  (worker # Forged)'
  <1> USE DEF supervision, bounds, WorkerEnds
  <1>0. Absent # Forged /\ Started(files["current"]) # Forged
    BY StartedSigned, RoleNames DEF SignedFiles, Absent, Forged
  <1>1. ASSUME Resolve PROVE (worker # Forged)'
    BY <1>1, <1>0 DEF Resolve
  <1>2. ASSUME Fetch PROVE (worker # Forged)'
    BY <1>2, <1>0 DEF Fetch
  <1>3. ASSUME FetchBody PROVE (worker # Forged)'
    BY <1>3, <1>0 DEF FetchBody
  <1>4. ASSUME VerifyAsset PROVE (worker # Forged)'
    BY <1>4, <1>0 DEF VerifyAsset
  <1>5. ASSUME VerifySums PROVE (worker # Forged)'
    BY <1>5, <1>0 DEF VerifySums
  <1>6. ASSUME CheckVersion PROVE (worker # Forged)'
    BY <1>6, <1>0 DEF CheckVersion
  <1>7. ASSUME BackUp PROVE (worker # Forged)'
    BY <1>7, <1>0 DEF BackUp
  <1>8. ASSUME BackUpBody PROVE (worker # Forged)'
    BY <1>8, <1>0 DEF BackUpBody
  <1>9. ASSUME Place PROVE (worker # Forged)'
    BY <1>9, <1>0 DEF Place
  <1>10. ASSUME PlaceBody PROVE (worker # Forged)'
    BY <1>10, <1>0 DEF PlaceBody
  <1>11. ASSUME Chmod PROVE (worker # Forged)'
    BY <1>11, <1>0 DEF Chmod
  <1>12. ASSUME Restart PROVE (worker # Forged)'
    <2>1. worker' \in {worker, Absent, Started(files["current"])}
      BY <1>12, Zenon DEF Restart
    <2> QED
      BY <2>1, <1>0
  <1>13. ASSUME Push PROVE (worker # Forged)'
    BY <1>13, <1>0 DEF Push
  <1>14. ASSUME PushBody PROVE (worker # Forged)'
    BY <1>14, <1>0 DEF PushBody
  <1>15. ASSUME Pkill PROVE (worker # Forged)'
    BY <1>15, <1>0 DEF Pkill
  <1>16. ASSUME Interrupt PROVE (worker # Forged)'
    BY <1>16, <1>0 DEF Interrupt
  <1>17. ASSUME WorkerDies PROVE (worker # Forged)'
    BY <1>17, <1>0 DEF WorkerDies
  <1>18. ASSUME SystemdStarts PROVE (worker # Forged)'
    <2>1. worker' \in {worker, Absent, Started(files["current"])}
      BY <1>18, Zenon DEF SystemdStarts
    <2> QED
      BY <2>1, <1>0
  <1>19. ASSUME Stage PROVE (worker # Forged)'
    BY <1>19, <1>0 DEF Stage
  <1>20. ASSUME Launch PROVE (worker # Forged)'
    <2>1. worker' \in {worker, Absent, Started(files["current"])}
      BY <1>20, Zenon DEF Launch
    <2> QED
      BY <2>1, <1>0
  <1>21. ASSUME Count PROVE (worker # Forged)'
    BY <1>21, <1>0 DEF Count
  <1>22. ASSUME Age PROVE (worker # Forged)'
    BY <1>22, <1>0 DEF Age
  <1>23. ASSUME Reboot PROVE (worker # Forged)'
    BY <1>23, <1>0 DEF Reboot
  <1>24. ASSUME UNCHANGED vars PROVE (worker # Forged)'
    BY <1>24 DEF vars
  <1> QED
    BY <1>1, <1>2, <1>3, <1>4, <1>5, <1>6, <1>7, <1>8, <1>9, <1>10, <1>11,
       <1>12, <1>13, <1>14, <1>15, <1>16, <1>17, <1>18, <1>19, <1>20, <1>21,
       <1>22, <1>23, <1>24
    DEF Next, Command, Update, Supervise

(* ... and what the command has run.                                       *)
LEMMA SignedRanStep ==
    ASSUME CommandInv, Forged \notin ran, [Next]_vars
    PROVE  (Forged \notin ran)'
  <1> USE DEF supervision, bounds
  <1>1. ASSUME Resolve PROVE (Forged \notin ran)'
    BY <1>1 DEF Resolve
  <1>2. ASSUME Fetch PROVE (Forged \notin ran)'
    BY <1>2 DEF Fetch
  <1>3. ASSUME FetchBody PROVE (Forged \notin ran)'
    BY <1>3 DEF FetchBody
  <1>4. ASSUME VerifyAsset PROVE (Forged \notin ran)'
    BY <1>4 DEF VerifyAsset
  <1>5. ASSUME VerifySums PROVE (Forged \notin ran)'
    BY <1>5 DEF VerifySums
  <1>6. ASSUME CheckVersion PROVE (Forged \notin ran)'
    <2>1. files["download"].image # Forged
      BY <1>6 DEF CommandInv, CheckVersion
    <2>2. ran' = ran \/ ran' = ran \cup {files["download"].image}
      BY <1>6, Zenon DEF CheckVersion
    <2> QED
      BY <2>1, <2>2
  <1>7. ASSUME BackUp PROVE (Forged \notin ran)'
    BY <1>7 DEF BackUp
  <1>8. ASSUME BackUpBody PROVE (Forged \notin ran)'
    BY <1>8 DEF BackUpBody
  <1>9. ASSUME Place PROVE (Forged \notin ran)'
    BY <1>9 DEF Place
  <1>10. ASSUME PlaceBody PROVE (Forged \notin ran)'
    BY <1>10 DEF PlaceBody
  <1>11. ASSUME Chmod PROVE (Forged \notin ran)'
    BY <1>11 DEF Chmod
  <1>12. ASSUME Restart PROVE (Forged \notin ran)'
    BY <1>12 DEF Restart
  <1>13. ASSUME Push PROVE (Forged \notin ran)'
    BY <1>13 DEF Push
  <1>14. ASSUME PushBody PROVE (Forged \notin ran)'
    BY <1>14 DEF PushBody
  <1>15. ASSUME Pkill PROVE (Forged \notin ran)'
    BY <1>15 DEF Pkill
  <1>16. ASSUME Interrupt PROVE (Forged \notin ran)'
    BY <1>16 DEF Interrupt
  <1>17. ASSUME WorkerDies PROVE (Forged \notin ran)'
    BY <1>17 DEF WorkerDies
  <1>18. ASSUME SystemdStarts PROVE (Forged \notin ran)'
    BY <1>18 DEF SystemdStarts
  <1>19. ASSUME Stage PROVE (Forged \notin ran)'
    BY <1>19 DEF Stage
  <1>20. ASSUME Launch PROVE (Forged \notin ran)'
    BY <1>20 DEF Launch
  <1>21. ASSUME Count PROVE (Forged \notin ran)'
    BY <1>21 DEF Count
  <1>22. ASSUME Age PROVE (Forged \notin ran)'
    BY <1>22 DEF Age
  <1>23. ASSUME Reboot PROVE (Forged \notin ran)'
    BY <1>23 DEF Reboot
  <1>24. ASSUME UNCHANGED vars PROVE (Forged \notin ran)'
    BY <1>24 DEF vars
  <1> QED
    BY <1>1, <1>2, <1>3, <1>4, <1>5, <1>6, <1>7, <1>8, <1>9, <1>10, <1>11,
       <1>12, <1>13, <1>14, <1>15, <1>16, <1>17, <1>18, <1>19, <1>20, <1>21,
       <1>22, <1>23, <1>24
    DEF Next, Command, Update, Supervise

(* Every step keeps a binary that runs at the path.                        *)
LEMMA CurrentStep ==
    ASSUME FilesOK, CommandOK, SupervisionOK, UpgradeInv, [Next]_vars
    PROVE  CurrentRuns'
  <1> USE DEF FilesOK, CommandOK, SupervisionOK, UpgradeInv, CommandInv,
          supervision, bounds, Goto, Step, Fault, End, Discard, CurrentRuns,
          Executable
  <1>1. ASSUME Resolve PROVE CurrentRuns'
    BY <1>1, RoleNames, ReleaseFacts DEF Resolve
  <1>2. ASSUME Fetch PROVE CurrentRuns'
    BY <1>2, RoleNames, ReleaseFacts DEF Fetch
  <1>3. ASSUME FetchBody PROVE CurrentRuns'
    BY <1>3, RoleNames, ReleaseFacts DEF FetchBody
  <1>4. ASSUME VerifyAsset PROVE CurrentRuns'
    BY <1>4, RoleNames, ReleaseFacts DEF VerifyAsset
  <1>5. ASSUME VerifySums PROVE CurrentRuns'
    BY <1>5, RoleNames, ReleaseFacts DEF VerifySums
  <1>6. ASSUME CheckVersion PROVE CurrentRuns'
    BY <1>6, RoleNames, ReleaseFacts DEF CheckVersion
  <1>7. ASSUME BackUp PROVE CurrentRuns'
    <2>1. platform' = platform
      BY <1>7, Zenon DEF BackUp
    <2>2. CASE platform \notin {"systemd", "manual"}
      BY <2>1, <2>2 DEF CurrentRuns
    <2>3. CASE platform \in {"systemd", "manual"}
      <3>1. /\ [files EXCEPT ![Backup] = Truncated(Backup, TRUE)]["current"]
                  = files["current"]
            /\ [files EXCEPT !["download"] = NoFile]["current"]
                  = files["current"]
        BY <2>3, RoleNames DEF FilesOK, Backup
      <3>2. platform # "windows" /\ platform # "unraid"
        BY <2>3
      <3>3. files'["current"] = files["current"]
        BY <1>7, <3>1, <3>2, Zenon DEF BackUp, Goto, Step, Fault, End, Discard
      <3> QED
        BY <2>1, <3>3 DEF CurrentRuns, Executable, UpgradeInv
    <2> QED
      BY <2>2, <2>3
  <1>8. ASSUME BackUpBody PROVE CurrentRuns'
    <2>1. platform' = platform
      BY <1>8, Zenon DEF BackUpBody
    <2>2. CASE platform \notin {"systemd", "manual"}
      BY <2>1, <2>2 DEF CurrentRuns
    <2>3. CASE platform \in {"systemd", "manual"}
      <3>1. /\ [files EXCEPT ![Backup].image = files[Copied].image]["current"]
                  = files["current"]
            /\ [files EXCEPT !["download"] = NoFile]["current"]
                  = files["current"]
        BY <2>3, RoleNames DEF FilesOK, Backup
      <3>2. platform # "windows" /\ platform # "unraid"
        BY <2>3
      <3>3. files'["current"] = files["current"]
        BY <1>8, <3>1, <3>2, Zenon DEF BackUpBody, Goto, Step, Fault, End,
           Discard
      <3> QED
        BY <2>1, <3>3 DEF CurrentRuns, Executable, UpgradeInv
    <2> QED
      BY <2>2, <2>3
  <1>9. ASSUME Place PROVE CurrentRuns'
    BY <1>9, RoleNames, ReleaseFacts DEF Place
  <1>10. ASSUME PlaceBody PROVE CurrentRuns'
    BY <1>10, RoleNames, ReleaseFacts DEF PlaceBody
  <1>11. ASSUME Chmod PROVE CurrentRuns'
    <2>1. platform' = platform
      BY <1>11, Zenon DEF Chmod
    <2>2. files'["current"].image = files["current"].image
      <3>1. /\ [files EXCEPT !["current"].exec = TRUE]["current"].image
                  = files["current"].image
            /\ [files EXCEPT !["download"] = NoFile]["current"].image
                  = files["current"].image
        BY RoleNames DEF FilesOK, File
      <3> QED
        BY <1>11, <3>1, Zenon DEF Chmod, Goto, Step, Fault, End, Discard
    <2>3. files'["current"].exec \/ files'["current"] = files["current"]
      <3>1. /\ [files EXCEPT !["current"].exec = TRUE]["current"].exec
            /\ [files EXCEPT !["download"] = NoFile]["current"]
                  = files["current"]
        BY RoleNames DEF FilesOK, File
      <3> QED
        BY <1>11, <3>1, Zenon DEF Chmod, Goto, Step, Fault, End, Discard
    <2> QED
      BY <2>1, <2>2, <2>3 DEF CurrentRuns, Executable, UpgradeInv
  <1>12. ASSUME Restart PROVE CurrentRuns'
    BY <1>12, RoleNames, ReleaseFacts DEF Restart
  <1>13. ASSUME Push PROVE CurrentRuns'
    BY <1>13, RoleNames, ReleaseFacts DEF Push
  <1>14. ASSUME PushBody PROVE CurrentRuns'
    BY <1>14, RoleNames, ReleaseFacts DEF PushBody
  <1>15. ASSUME Pkill PROVE CurrentRuns'
    BY <1>15, RoleNames, ReleaseFacts DEF Pkill
  <1>16. ASSUME Interrupt PROVE CurrentRuns'
    BY <1>16, RoleNames, ReleaseFacts DEF Interrupt
  <1>17. ASSUME WorkerDies PROVE CurrentRuns'
    BY <1>17, RoleNames, ReleaseFacts DEF WorkerDies
  <1>18. ASSUME SystemdStarts PROVE CurrentRuns'
    BY <1>18, RoleNames, ReleaseFacts DEF SystemdStarts
  <1>19. ASSUME Stage PROVE CurrentRuns'
    BY <1>19, RoleNames, ReleaseFacts DEF Stage
  <1>20. ASSUME Launch PROVE CurrentRuns'
    BY <1>20, RoleNames, ReleaseFacts DEF Launch
  <1>21. ASSUME Count PROVE CurrentRuns'
    BY <1>21, RoleNames, ReleaseFacts DEF Count
  <1>22. ASSUME Age PROVE CurrentRuns'
    BY <1>22, RoleNames, ReleaseFacts DEF Age
  <1>23. ASSUME Reboot PROVE CurrentRuns'
    BY <1>23, RoleNames, ReleaseFacts DEF Reboot
  <1>24. ASSUME UNCHANGED vars PROVE CurrentRuns'
    BY <1>24 DEF vars
  <1> QED
    BY <1>1, <1>2, <1>3, <1>4, <1>5, <1>6, <1>7, <1>8, <1>9, <1>10, <1>11,
       <1>12, <1>13, <1>14, <1>15, <1>16, <1>17, <1>18, <1>19, <1>20, <1>21,
       <1>22, <1>23, <1>24
    DEF Next, Command, Update, Supervise

(* Every step keeps the release of a success in place.                     *)
LEMMA InstalledStep ==
    ASSUME FilesOK, CommandOK, SupervisionOK, UpgradeInv, [Next]_vars
    PROVE  InstalledIsRelease'
  <1> USE DEF FilesOK, CommandOK, SupervisionOK, UpgradeInv, CommandInv,
          supervision, bounds, Goto, Step, Fault, End, Discard,
          InstalledIsRelease, Copied
  <1>1. ASSUME Resolve PROVE InstalledIsRelease'
    BY <1>1, RoleNames, ReleaseFacts DEF Resolve
  <1>2. ASSUME Fetch PROVE InstalledIsRelease'
    BY <1>2, RoleNames, ReleaseFacts DEF Fetch
  <1>3. ASSUME FetchBody PROVE InstalledIsRelease'
    BY <1>3, RoleNames, ReleaseFacts DEF FetchBody
  <1>4. ASSUME VerifyAsset PROVE InstalledIsRelease'
    BY <1>4, RoleNames, ReleaseFacts DEF VerifyAsset
  <1>5. ASSUME VerifySums PROVE InstalledIsRelease'
    BY <1>5, RoleNames, ReleaseFacts DEF VerifySums
  <1>6. ASSUME CheckVersion PROVE InstalledIsRelease'
    BY <1>6, RoleNames, ReleaseFacts DEF CheckVersion
  <1>7. ASSUME BackUp PROVE InstalledIsRelease'
    BY <1>7, RoleNames, ReleaseFacts DEF BackUp
  <1>8. ASSUME BackUpBody PROVE InstalledIsRelease'
    BY <1>8, RoleNames, ReleaseFacts DEF BackUpBody
  <1>9. ASSUME Place PROVE InstalledIsRelease'
    BY <1>9, RoleNames, ReleaseFacts DEF Place
  <1>10. ASSUME PlaceBody PROVE InstalledIsRelease'
    BY <1>10, RoleNames, ReleaseFacts DEF PlaceBody
  <1>11. ASSUME Chmod PROVE InstalledIsRelease'
    BY <1>11, RoleNames, ReleaseFacts DEF Chmod
  <1>12. ASSUME Restart PROVE InstalledIsRelease'
    BY <1>12, RoleNames, ReleaseFacts DEF Restart
  <1>13. ASSUME Push PROVE InstalledIsRelease'
    BY <1>13, RoleNames, ReleaseFacts DEF Push
  <1>14. ASSUME PushBody PROVE InstalledIsRelease'
    BY <1>14, RoleNames, ReleaseFacts DEF PushBody
  <1>15. ASSUME Pkill PROVE InstalledIsRelease'
    BY <1>15, RoleNames, ReleaseFacts DEF Pkill
  <1>16. ASSUME Interrupt PROVE InstalledIsRelease'
    BY <1>16, RoleNames, ReleaseFacts DEF Interrupt
  <1>17. ASSUME WorkerDies PROVE InstalledIsRelease'
    BY <1>17, RoleNames, ReleaseFacts DEF WorkerDies
  <1>18. ASSUME SystemdStarts PROVE InstalledIsRelease'
    BY <1>18, RoleNames, ReleaseFacts DEF SystemdStarts
  <1>19. ASSUME Stage PROVE InstalledIsRelease'
    BY <1>19, RoleNames, ReleaseFacts DEF Stage
  <1>20. ASSUME Launch PROVE InstalledIsRelease'
    BY <1>20, RoleNames, ReleaseFacts DEF Launch
  <1>21. ASSUME Count PROVE InstalledIsRelease'
    BY <1>21, RoleNames, ReleaseFacts DEF Count
  <1>22. ASSUME Age PROVE InstalledIsRelease'
    BY <1>22, RoleNames, ReleaseFacts DEF Age
  <1>23. ASSUME Reboot PROVE InstalledIsRelease'
    BY <1>23, RoleNames, ReleaseFacts DEF Reboot
  <1>24. ASSUME UNCHANGED vars PROVE InstalledIsRelease'
    BY <1>24 DEF vars
  <1> QED
    BY <1>1, <1>2, <1>3, <1>4, <1>5, <1>6, <1>7, <1>8, <1>9, <1>10, <1>11,
       <1>12, <1>13, <1>14, <1>15, <1>16, <1>17, <1>18, <1>19, <1>20, <1>21,
       <1>22, <1>23, <1>24
    DEF Next, Command, Update, Supervise

(* Every step of the command keeps what the earlier ones verified.         *)
LEMMA CommandInvStep ==
    ASSUME FilesOK, CommandOK, SupervisionOK, UpgradeInv, [Next]_vars
    PROVE  CommandInv'
  <1> USE DEF FilesOK, CommandOK, SupervisionOK, UpgradeInv, CommandInv,
          supervision, bounds, Goto, Step, Fault, End, Discard, Copied,
          Backup, Executable
  <1>1. ASSUME Resolve PROVE CommandInv'
    BY <1>1, RoleNames, ReleaseFacts DEF Resolve
  <1>2. ASSUME Fetch PROVE CommandInv'
    BY <1>2, RoleNames, ReleaseFacts DEF Fetch
  <1>3. ASSUME FetchBody PROVE CommandInv'
    <2>1. /\ pc = "fetching" /\ UNCHANGED <<platform, release>>
          /\ \/ pc' = "fetched" /\ outcome' = outcome
                  /\ files' =
                       [files EXCEPT !["download"].image = release.image]
             \/ pc' = "idle"
      BY <1>3, Zenon DEF FetchBody, Goto, Step, Fault, End, Discard
    <2>2. [files EXCEPT !["download"].image = release.image]["download"].image
            = release.image
      BY RoleNames DEF FilesOK, File
    <2> QED
      BY <2>1, <2>2 DEF CommandInv, UpgradeInv
  <1>4. ASSUME VerifyAsset PROVE CommandInv'
    BY <1>4, RoleNames, ReleaseFacts DEF VerifyAsset
  <1>5. ASSUME VerifySums PROVE CommandInv'
    BY <1>5, RoleNames, ReleaseFacts DEF VerifySums
  <1>6. ASSUME CheckVersion PROVE CommandInv'
    BY <1>6, RoleNames, ReleaseFacts DEF CheckVersion
  <1>7. ASSUME BackUp PROVE CommandInv'
    BY <1>7, RoleNames, ReleaseFacts DEF BackUp
  <1>8. ASSUME BackUpBody PROVE CommandInv'
    BY <1>8, RoleNames, ReleaseFacts DEF BackUpBody
  <1>9. ASSUME Place PROVE CommandInv'
    BY <1>9, RoleNames, ReleaseFacts DEF Place
  <1>10. ASSUME PlaceBody PROVE CommandInv'
    <2>1. /\ pc = "placing" /\ UNCHANGED <<platform, release>>
          /\ \/ pc' = "restart" /\ outcome' = outcome
                  /\ files' =
                       [files EXCEPT !["flash"].image = files["download"].image]
             \/ pc' = "idle"
      BY <1>10, Zenon DEF PlaceBody, Goto, Step, Fault, End, Discard
    <2>2. [files EXCEPT !["flash"].image = files["download"].image]["flash"].image
            = files["download"].image
      BY RoleNames DEF FilesOK, File
    <2> QED
      BY <2>1, <2>2 DEF CommandInv, UpgradeInv, Copied
  <1>11. ASSUME Chmod PROVE CommandInv'
    <2>1. /\ pc = "chmod" /\ UNCHANGED <<platform, release>>
          /\ \/ pc' = "restart" /\ outcome' = outcome
                  /\ files' =
                       [files EXCEPT !["current"].exec = TRUE]
             \/ pc' = "idle"
      BY <1>11, Zenon DEF Chmod, Goto, Step, Fault, End, Discard
    <2>2. /\ [files EXCEPT !["current"].exec = TRUE][Copied].image
                = files[Copied].image
      BY RoleNames DEF FilesOK, File
    <2> QED
      BY <2>1, <2>2 DEF CommandInv, UpgradeInv, Copied
  <1>12. ASSUME Restart PROVE CommandInv'
    BY <1>12, RoleNames, ReleaseFacts DEF Restart
  <1>13. ASSUME Push PROVE CommandInv'
    BY <1>13, RoleNames, ReleaseFacts DEF Push
  <1>14. ASSUME PushBody PROVE CommandInv'
    BY <1>14, RoleNames, ReleaseFacts DEF PushBody
  <1>15. ASSUME Pkill PROVE CommandInv'
    BY <1>15, RoleNames, ReleaseFacts DEF Pkill
  <1>16. ASSUME Interrupt PROVE CommandInv'
    BY <1>16, RoleNames, ReleaseFacts DEF Interrupt
  <1>17. ASSUME WorkerDies PROVE CommandInv'
    BY <1>17, RoleNames, ReleaseFacts DEF WorkerDies
  <1>18. ASSUME SystemdStarts PROVE CommandInv'
    BY <1>18, RoleNames, ReleaseFacts DEF SystemdStarts
  <1>19. ASSUME Stage PROVE CommandInv'
    BY <1>19, RoleNames, ReleaseFacts DEF Stage
  <1>20. ASSUME Launch PROVE CommandInv'
    BY <1>20, RoleNames, ReleaseFacts DEF Launch
  <1>21. ASSUME Count PROVE CommandInv'
    BY <1>21, RoleNames, ReleaseFacts DEF Count
  <1>22. ASSUME Age PROVE CommandInv'
    BY <1>22, RoleNames, ReleaseFacts DEF Age
  <1>23. ASSUME Reboot PROVE CommandInv'
    BY <1>23, RoleNames, ReleaseFacts DEF Reboot
  <1>24. ASSUME UNCHANGED vars PROVE CommandInv'
    BY <1>24 DEF vars
  <1> QED
    BY <1>1, <1>2, <1>3, <1>4, <1>5, <1>6, <1>7, <1>8, <1>9, <1>10, <1>11,
       <1>12, <1>13, <1>14, <1>15, <1>16, <1>17, <1>18, <1>19, <1>20, <1>21,
       <1>22, <1>23, <1>24
    DEF Next, Command, Update, Supervise

(* The three places of OnlySigned together.                                *)
LEMMA SignedStep ==
    ASSUME FilesOK, CommandOK, UpgradeInv, [Next]_vars
    PROVE  OnlySigned'
  <1>1. Forged \notin ran /\ worker # Forged /\ SignedFiles(files)
    BY SignedParts DEF UpgradeInv
  <1>2. (Forged \notin ran)' /\ (worker # Forged)' /\ SignedFiles(files')
    BY <1>1, SignedRanStep, SignedWorkerStep, SignedFilesStep DEF UpgradeInv
  <1> QED
    BY <1>2 DEF OnlySigned, SignedFiles

(* The invariants hold initially.                                          *)
LEMMA InitInv == Init => UpgradeInv /\ RowInv
  <1> SUFFICES ASSUME Init PROVE UpgradeInv /\ RowInv
    OBVIOUS
  <1>1. /\ files["current"] = [image |-> "old", exec |-> TRUE]
        /\ \A n \in Roles \ {"download"} :
              files[n] \in {NoFile, [image |-> "old", exec |-> TRUE]}
    BY RoleNames, Zenon DEF Init
  <1>2. "old" # Forged /\ NoFile.image # Forged /\ "old" \in Versions
    BY NotForged DEF Forged, Versions
  <1>3. /\ worker = "old" /\ pc = "idle" /\ outcome = "none" /\ ran = {}
        /\ platform = "unraid" => supervisor = "watching"
        /\ platform # "unraid" => supervisor = "none"
        /\ fails = 0 /\ young = 0
    BY Zenon DEF Init
  <1>4. OnlySigned
    BY <1>1, <1>2, <1>3, SignedParts DEF SignedFiles
  <1>5. CurrentRuns
    BY <1>1, <1>2 DEF CurrentRuns, Executable
  <1>6. InstalledIsRelease /\ CommandInv
    BY <1>3 DEF InstalledIsRelease, CommandInv
  <1>7. RowInv
    BY <1>3 DEF RowInv, Absent
  <1> QED
    BY <1>4, <1>5, <1>6, <1>7 DEF UpgradeInv

(* They hold always, with the types.                                       *)
UpgradeFacts == TypeOK /\ FewFails /\ UpgradeInv /\ RowInv

LEMMA Invariants == Spec => []UpgradeFacts
  <1>1. Init => UpgradeFacts
    BY InitType, InitInv DEF UpgradeFacts
  <1>2. UpgradeFacts /\ [Next]_vars => UpgradeFacts'
    <2> SUFFICES ASSUME TypeOK, FewFails, UpgradeInv, RowInv, [Next]_vars
                 PROVE  UpgradeFacts'
      BY DEF UpgradeFacts
    <2>1. FilesOK /\ CommandOK /\ SupervisionOK /\ BoundsOK /\ CountsOK
      BY TypeParts DEF CountsOK
    <2>2. TypeOK' /\ FewFails'
      BY TypeStep
    <2>3. OnlySigned' /\ CurrentRuns' /\ InstalledIsRelease' /\ CommandInv'
      BY <2>1, SignedStep, CurrentStep, InstalledStep, CommandInvStep
    <2>4. RowInv'
      BY <2>1, RowStep
    <2> QED
      BY <2>2, <2>3, <2>4 DEF UpgradeFacts, UpgradeInv
  <1> QED
    BY <1>1, <1>2, PTL DEF Spec

(* Only what the release key signed is run, placed, backed up or started   *)
(* (download.go:39-84, upgrade.go:57-71).                                  *)
THEOREM OnlySignedHolds == Spec => []OnlySigned
  <1>1. UpgradeFacts => OnlySigned
    BY DEF UpgradeFacts, UpgradeInv
  <1> QED
    BY <1>1, Invariants, PTL

(* After a success the binary at the path is the release that was asked    *)
(* for (runner.go:22-33).                                                  *)
THEOREM InstalledIsReleaseHolds == Spec => []InstalledIsRelease
  <1>1. UpgradeFacts => InstalledIsRelease
    BY DEF UpgradeFacts, UpgradeInv
  <1> QED
    BY <1>1, Invariants, PTL

(* Where the binary is renamed into place the path always names one that   *)
(* runs (platform.go:39-47).                                               *)
THEOREM CurrentRunsHolds == Spec => []CurrentRuns
  <1>1. UpgradeFacts => CurrentRuns
    BY DEF UpgradeFacts, UpgradeInv
  <1> QED
    BY <1>1, Invariants, PTL

(* The supervisor gives up only after MaxFails workers ended young in a    *)
(* row, or when it started a torn binary (supervisor.sh:31-40).            *)
THEOREM GivesUpAfterRowHolds == Spec => []GivesUpAfterRow
  <1>1. MaxFails >= MaxFails
    BY Bounds
  <1>2. UpgradeFacts => GivesUpAfterRow
    BY <1>1 DEF UpgradeFacts, RowInv, GivesUpAfterRow
  <1> QED
    BY <1>2, Invariants, PTL

---------------------------------------------------------------------------
(* A way back: what one failure leaves.                                    *)

Whole(n) == files[n].image \in Versions

Failures == faults + crashes

Rewriting == {"backingUp", "place", "placing"}

(* While nothing has failed the binary is whole but while it is replaced,  *)
(* and then its backup is.  After one failure one of them is whole but     *)
(* while the command rewrites them again: to end that it needs another     *)
(* failure, or puts a whole release in place.                              *)
RecoveryInv ==
    pushes = 0 =>
        /\ Failures = 0 =>
              /\ \/ Whole(Copied) \/ pc = "placing"
                 \/ pc = "place" /\ platform = "windows"
              /\ pc \in {"place", "placing"} => Whole(Backup)
        /\ Failures <= 1 => pc \in Rewriting \/ Whole(Copied) \/ Whole(Backup)

(* The images of the binary and of its backup stay.                        *)
ImagesKept ==
    /\ UNCHANGED <<platform, pushes>>
    /\ files'[Copied].image = files[Copied].image
    /\ files'[Backup].image = files[Backup].image

(* How far the command gets on its own, or where a failure leaves it.      *)
Passed ==
    \/ pc' = pc /\ Failures' >= Failures
    \/ pc \notin Rewriting /\ pc' \notin Rewriting /\ Failures' >= Failures
    \/ pc' \notin Rewriting /\ Failures' > Failures

LEMMA FailuresCounted ==
    ASSUME BoundsOK
    PROVE  /\ faults \in Nat /\ crashes \in Nat /\ pushes \in Nat
           /\ Failures \in Nat
  BY Bounds DEF BoundsOK, Failures

LEMMA Sums == \A a, b \in Nat : a + b \in Nat
  OBVIOUS

LEMMA Untouched ==
    ASSUME BoundsOK, BoundsOK', RecoveryInv, ImagesKept, Passed
    PROVE  RecoveryInv'
  <1>1. Failures \in Nat /\ Failures' \in Nat
    <2>1. Failures \in Nat
      BY FailuresCounted
    <2>2. faults' \in Nat /\ crashes' \in Nat
      BY Bounds DEF BoundsOK
    <2> QED
      BY <2>1, <2>2, Sums DEF Failures
  <1>2. Copied' = Copied /\ Backup' = Backup
    BY DEF ImagesKept, Copied, Backup
  <1>3. (Whole(Copied))' = Whole(Copied) /\ (Whole(Backup))' = Whole(Backup)
    BY <1>2 DEF ImagesKept, Whole
  <1> QED
    BY <1>1, <1>2, <1>3 DEF RecoveryInv, ImagesKept, Passed, Rewriting

LEMMA FailuresMove ==
    ASSUME BoundsOK
    PROVE  /\ UNCHANGED <<faults, crashes>> => Failures' = Failures
           /\ Fault /\ UNCHANGED crashes => Failures' = Failures + 1
           /\ UNCHANGED faults /\ crashes' = crashes + 1 =>
                 Failures' = Failures + 1
           /\ Failures \in Nat
  BY FailuresCounted DEF Failures, Fault

LEMMA FailuresGrow ==
    ASSUME BoundsOK, UNCHANGED faults \/ Fault, UNCHANGED crashes
    PROVE  Failures' >= Failures
  BY FailuresMove

(* What is done to the download, or on Unraid to the running binary, and   *)
(* what changes a mode, keeps the images.                                  *)
LEMMA ImagesStay ==
    ASSUME FilesOK, UNCHANGED <<platform, pushes>>,
           \/ files' = files
           \/ \E f \in File : files' = [files EXCEPT !["download"] = f]
           \/ \E i : files' = [files EXCEPT !["download"].image = i]
           \/ files' = [files EXCEPT !["current"].exec = TRUE]
           \/ /\ platform = "unraid"
              /\ \E f : files' = [files EXCEPT !["current"] = f]
    PROVE  ImagesKept
  BY RoleNames DEF FilesOK, File, Copied, Backup, ImagesKept

(* A step of the command that comes before it rewrites anything, or after. *)
LEMMA Onward ==
    ASSUME BoundsOK, ImagesKept, pc \notin Rewriting, pc' \notin Rewriting,
           UNCHANGED faults \/ Fault, UNCHANGED crashes
    PROVE  ImagesKept /\ Passed
  BY FailuresGrow DEF Passed

(* Every step but those that rewrite the binary or its backup is harmless. *)
LEMMA HarmlessSteps ==
    ASSUME FilesOK, CommandOK, SupervisionOK, BoundsOK, [Next]_vars
    PROVE  \/ ImagesKept /\ Passed
           \/ BackUp \/ BackUpBody \/ Place \/ PlaceBody \/ Push \/ PushBody
  <1> USE DEF Goto, Step, End
  <1> DEFINE Harmless == ImagesKept /\ Passed
  <1>1. ASSUME Resolve PROVE Harmless
    <2>1. /\ UNCHANGED <<platform, pushes, files, crashes>>
          /\ UNCHANGED faults \/ Fault
          /\ pc = "idle" /\ pc' \in {"idle", "fetch"}
      BY <1>1 DEF Resolve
    <2>2. ImagesKept
      BY <2>1, ImagesStay
    <2> QED
      BY <2>1, <2>2, Onward DEF Rewriting
  <1>2. ASSUME Fetch PROVE Harmless
    <2>1. Truncated("download", FALSE) \in File
      BY TruncatedType, RoleNames
    <2>2. /\ UNCHANGED <<platform, pushes, crashes>>
          /\ UNCHANGED faults \/ Fault
          /\ pc = "fetch" /\ pc' \in {"idle", "fetching"}
          /\ \/ files' = files
             \/ files' = [files EXCEPT !["download"] =
                                          Truncated("download", FALSE)]
      BY <1>2, Zenon DEF Fetch
    <2>3. ImagesKept
      BY <2>1, <2>2, ImagesStay
    <2> QED
      BY <2>2, <2>3, Onward DEF Rewriting
  <1>3. ASSUME FetchBody PROVE Harmless
    <2>1. /\ UNCHANGED <<platform, pushes, crashes>>
          /\ UNCHANGED faults \/ Fault
          /\ pc = "fetching" /\ pc' \in {"idle", "fetched"}
          /\ \/ files' = files
             \/ files' = [files EXCEPT !["download"].image = release.image]
      BY <1>3, Zenon DEF FetchBody
    <2>2. ImagesKept
      BY <2>1, ImagesStay
    <2> QED
      BY <2>1, <2>2, Onward DEF Rewriting
  <1>4. ASSUME VerifyAsset \/ VerifySums \/ CheckVersion
        PROVE  Harmless
    <2>1. /\ UNCHANGED <<platform, pushes, crashes>>
          /\ UNCHANGED faults \/ Fault
          /\ pc \in {"fetched", "signed", "verified"}
          /\ pc' \in {"idle", "signed", "verified", "backup"}
          /\ \/ files' = files
             \/ files' = [files EXCEPT !["download"] = NoFile]
      BY <1>4, Zenon DEF VerifyAsset, VerifySums, CheckVersion, Discard
    <2>2. ImagesKept
      BY <2>1, ImagesStay, NoFileType
    <2> QED
      BY <2>1, <2>2, Onward DEF Rewriting
  <1>5. ASSUME Chmod \/ Restart PROVE Harmless
    <2>1. /\ UNCHANGED <<platform, pushes, crashes>>
          /\ UNCHANGED faults \/ Fault
          /\ pc \in {"chmod", "restart"} /\ pc' \in {"idle", "restart"}
          /\ \/ files' = files
             \/ files' = [files EXCEPT !["download"] = NoFile]
             \/ files' = [files EXCEPT !["current"].exec = TRUE]
      BY <1>5, Zenon DEF Chmod, Restart, Discard
    <2>2. ImagesKept
      BY <2>1, ImagesStay, NoFileType
    <2> QED
      BY <2>1, <2>2, Onward DEF Rewriting
  <1>6. ASSUME Pkill PROVE Harmless
    <2>1. /\ UNCHANGED <<platform, pushes, files, crashes>>
          /\ UNCHANGED faults \/ Fault
          /\ pc = "pkill" /\ pc' = "idle"
      BY <1>6, Zenon DEF Pkill
    <2>2. ImagesKept
      BY <2>1, ImagesStay
    <2> QED
      BY <2>1, <2>2, Onward DEF Rewriting
  <1>7. ASSUME Interrupt \/ Reboot PROVE Harmless
    <2>1. /\ UNCHANGED <<platform, pushes, faults>>
          /\ crashes' = crashes + 1 /\ pc' = "idle"
      BY <1>7 DEF Interrupt, Reboot
    <2>2. files'[Copied] = files[Copied] /\ files'[Backup] = files[Backup]
      BY <1>7, RoleNames DEF Interrupt, Reboot, Copied, Backup, FilesOK
    <2>3. Failures' > Failures
      BY <2>1, FailuresMove
    <2>4. ImagesKept
      BY <2>1, <2>2 DEF ImagesKept
    <2> QED
      BY <2>1, <2>3, <2>4 DEF Passed, Rewriting
  <1>8. ASSUME WorkerDies PROVE Harmless
    <2>1. /\ UNCHANGED <<platform, pushes, files, faults>>
          /\ crashes' = crashes + 1
          /\ pc' = pc \/ (pc = "pushing" /\ pc' = "idle")
      BY <1>8, Zenon DEF WorkerDies
    <2>2. ImagesKept
      BY <2>1, ImagesStay
    <2>3. Failures' >= Failures
      BY <2>1, FailuresMove
    <2> QED
      BY <2>1, <2>2, <2>3 DEF Passed, Rewriting
  <1>9. ASSUME Supervise \/ Age \/ UNCHANGED vars PROVE Harmless
    <2>1. /\ UNCHANGED <<platform, pushes, pc, crashes>>
          /\ UNCHANGED faults \/ Fault
          /\ \/ files' = files
             \/ /\ supervisor = "staging"
                /\ files' = [files EXCEPT !["current"] =
                                             Installed(files["flash"])]
      BY <1>9, Zenon DEF Supervise, SystemdStarts, Stage, Launch, Count, Age,
         vars, bounds
    <2>2. supervisor = "staging" => platform = "unraid"
      BY DEF SupervisionOK
    <2>3. ImagesKept
      BY <2>1, <2>2, ImagesStay
    <2>4. Failures' >= Failures
      BY <2>1, FailuresGrow
    <2> QED
      BY <2>1, <2>3, <2>4 DEF Passed
  <1> QED
    BY <1>1, <1>2, <1>3, <1>4, <1>5, <1>6, <1>7, <1>8, <1>9
    DEF Next, Command, Update

(* The steps that rewrite one of them have the other, or write a release.  *)
LEMMA RecoveryStep ==
    ASSUME FilesOK, CommandOK, SupervisionOK, BoundsOK, BoundsOK',
           OnlySigned, CommandInv, RecoveryInv, [Next]_vars
    PROVE  RecoveryInv'
  <1>0. /\ Failures \in Nat /\ pushes \in Nat
        /\ \A n \in Roles : files[n] \in File
        /\ Copied \in Roles /\ Backup \in Roles /\ Copied # Backup
        /\ Copied # "download" /\ Backup # "download"
    BY FailuresCounted, RoleNames DEF FilesOK, Copied, Backup
  <1>1. CASE ImagesKept /\ Passed
    BY <1>1, Untouched
  <1>2. ASSUME \/ files' = files
               \/ files' = [files EXCEPT !["download"] = NoFile],
               UNCHANGED <<platform, pushes, crashes>>, Fault, pc' = "idle"
        PROVE  RecoveryInv'
    <2>1. ImagesKept
      BY <1>2, NoFileType, ImagesStay
    <2>2. Failures' > Failures
      BY <1>0, <1>2, FailuresMove
    <2>3. Passed
      BY <1>2, <2>2 DEF Passed, Rewriting
    <2> QED
      BY <2>1, <2>3, Untouched
  <1>3. ASSUME BackUp PROVE RecoveryInv'
    <2>0. /\ pc = "backup" /\ UNCHANGED <<platform, pushes, crashes>>
          /\ Copied' = Copied /\ Backup' = Backup
      BY <1>3 DEF BackUp, Copied, Backup
    <2>1. CASE /\ platform # "windows" /\ pc' = "backingUp"
               /\ files' = [files EXCEPT ![Backup] = Truncated(Backup, TRUE)]
               /\ UNCHANGED faults
      <3>1. files'[Copied] = files[Copied] /\ Failures' = Failures
        BY <1>0, <2>0, <2>1, FailuresMove DEF FilesOK
      <3> QED
        BY <2>0, <2>1, <3>1 DEF RecoveryInv, Whole, Rewriting
    <2>2. CASE /\ platform = "windows" /\ pc' = "place"
               /\ files' = [files EXCEPT !["backup"] = files["current"],
                                         !["current"] = NoFile]
               /\ UNCHANGED faults
      <3>1. Copied = "current" /\ Backup = "backup"
        BY <2>2 DEF Copied, Backup
      <3>2. files'["backup"] = files["current"] /\ Failures' = Failures
        BY <2>0, <2>2, RoleNames, FailuresMove DEF FilesOK
      <3> QED
        BY <2>0, <2>2, <3>1, <3>2 DEF RecoveryInv, Whole, Rewriting
    <2>3. CASE Fault /\ pc' = "place" /\ UNCHANGED files
      <3>1. Failures' = Failures + 1
        BY <2>0, <2>3, FailuresMove
      <3> QED
        BY <1>0, <2>3, <3>1 DEF RecoveryInv, Rewriting
    <2>4. CASE Fault /\ Discard
      BY <1>2, <2>0, <2>4 DEF Discard, End
    <2> QED
      BY <1>3, <2>1, <2>2, <2>3, <2>4, Zenon DEF BackUp, Goto, Step
  <1>4. ASSUME BackUpBody PROVE RecoveryInv'
    <2>0. /\ pc = "backingUp" /\ UNCHANGED <<platform, pushes, crashes>>
          /\ Copied' = Copied /\ Backup' = Backup
      BY <1>4 DEF BackUpBody, Copied, Backup
    <2>1. CASE /\ pc' = "place" /\ UNCHANGED faults
               /\ files' = [files EXCEPT ![Backup].image = files[Copied].image]
      <3>1. /\ files'[Copied] = files[Copied] /\ Failures' = Failures
            /\ files'[Backup].image = files[Copied].image
        BY <1>0, <2>0, <2>1, FailuresMove DEF FilesOK, File
      <3> QED
        BY <2>0, <2>1, <3>1 DEF RecoveryInv, Whole, Rewriting
    <2>2. CASE Fault /\ pc' = "place" /\ UNCHANGED files
      <3>1. Failures' = Failures + 1
        BY <2>0, <2>2, FailuresMove
      <3> QED
        BY <1>0, <2>2, <3>1 DEF RecoveryInv, Rewriting
    <2>3. CASE Fault /\ Discard
      BY <1>2, <2>0, <2>3 DEF Discard, End
    <2> QED
      BY <1>4, <2>1, <2>2, <2>3, Zenon DEF BackUpBody, Goto, Step
  <1>5. pc \in {"place", "placing"} => files["download"].image \in Versions
    <2>1. pc \in {"place", "placing"} => files["download"].image = release.tag
      BY DEF CommandInv
    <2> QED
      BY <2>1, ReleaseFacts DEF CommandOK
  <1>6. ASSUME Place PROVE RecoveryInv'
    <2>0. /\ pc = "place" /\ UNCHANGED <<platform, pushes, crashes>>
          /\ Copied' = Copied /\ Backup' = Backup
      BY <1>6 DEF Place, Copied, Backup
    <2>1. CASE /\ platform # "unraid" /\ pc' \in {"restart", "chmod"}
               /\ files' = [files EXCEPT !["current"] = files["download"],
                                         !["download"] = NoFile]
      <3>1. Copied = "current" /\ files'["current"] = files["download"]
        BY <2>1, RoleNames DEF Copied, FilesOK
      <3> QED
        BY <1>5, <2>0, <2>1, <3>1 DEF RecoveryInv, Whole, Rewriting
    <2>2. CASE /\ platform = "unraid" /\ pc' = "placing"
               /\ files' = [files EXCEPT !["flash"] = Truncated("flash", TRUE)]
               /\ UNCHANGED faults
      <3>1. files'[Backup] = files[Backup] /\ Failures' = Failures
        BY <1>0, <2>0, <2>2, RoleNames, FailuresMove DEF FilesOK, Backup
      <3> QED
        BY <2>0, <2>2, <3>1 DEF RecoveryInv, Whole, Rewriting
    <2>3. CASE Fault /\ Discard
      BY <1>2, <2>0, <2>3 DEF Discard, End
    <2> QED
      BY <1>6, <2>1, <2>2, <2>3, Zenon DEF Place, Goto, Step
  <1>7. ASSUME PlaceBody PROVE RecoveryInv'
    <2>0. /\ pc = "placing" /\ UNCHANGED <<platform, pushes, crashes>>
          /\ Copied' = Copied /\ Backup' = Backup
      BY <1>7 DEF PlaceBody, Copied, Backup
    <2>1. CASE /\ pc' = "restart"
               /\ files' = [files EXCEPT !["flash"].image =
                                            files["download"].image]
      <3>1. Copied = "flash"
        BY <2>0 DEF CommandInv, Copied
      <3>2. files'["flash"].image = files["download"].image
        BY <2>1, RoleNames DEF FilesOK, File
      <3> QED
        BY <1>5, <2>0, <2>1, <3>1, <3>2 DEF RecoveryInv, Whole, Rewriting
    <2>2. CASE Fault /\ Discard
      BY <1>2, <2>0, <2>2 DEF Discard, End
    <2> QED
      BY <1>7, <2>1, <2>2, Zenon DEF PlaceBody, Goto, Step
  <1>8. ASSUME Push PROVE RecoveryInv'
    <2>1. pushes' = pushes + 1
      BY <1>8 DEF Push
    <2> QED
      BY <1>0, <2>1 DEF RecoveryInv
  <1>9. ASSUME PushBody PROVE RecoveryInv'
    <2>1. /\ pc = "pushing" /\ UNCHANGED <<platform, pushes, crashes>>
          /\ \/ /\ files' = [files EXCEPT !["flash"].image = "new"]
                /\ pc' = "pkill" /\ UNCHANGED faults
             \/ Fault /\ UNCHANGED files /\ pc' = "idle"
      BY <1>9, Zenon DEF PushBody, Goto, Step, End
    <2>2. CASE Fault /\ UNCHANGED files /\ pc' = "idle"
      BY <1>2, <2>1, <2>2
    <2>3. CASE /\ files' = [files EXCEPT !["flash"].image = "new"]
               /\ pc' = "pkill" /\ UNCHANGED faults
      <3>1. /\ files'[Copied].image \in {files[Copied].image, "new"}
            /\ files'[Backup].image \in {files[Backup].image, "new"}
        BY <1>0, <2>3, RoleNames DEF FilesOK, File
      <3>2. "new" \in Versions /\ Failures' = Failures
        BY <2>1, <2>3, FailuresMove DEF Versions
      <3>3. Copied' = Copied /\ Backup' = Backup
        BY <2>1 DEF Copied, Backup
      <3> QED
        BY <2>1, <2>3, <3>1, <3>2, <3>3 DEF RecoveryInv, Whole, Rewriting
    <2> QED
      BY <2>1, <2>2, <2>3
  <1> QED
    BY <1>1, <1>3, <1>4, <1>6, <1>7, <1>8, <1>9, HarmlessSteps

LEMMA RecoveryInvariant == Spec => []RecoveryInv
  <1>1. Init => RecoveryInv
    <2> SUFFICES ASSUME Init PROVE RecoveryInv
      OBVIOUS
    <2>0. /\ files["current"] = [image |-> "old", exec |-> TRUE]
          /\ platform = "unraid" =>
                files["flash"] = [image |-> "old", exec |-> TRUE]
      BY RoleNames DEF Init
    <2>1. files[Copied].image = "old"
      BY <2>0 DEF Copied
    <2>2. "old" \in Versions /\ pc = "idle"
      BY DEF Init, Versions
    <2> QED
      BY <2>1, <2>2 DEF RecoveryInv, Whole
  <1>2. UpgradeFacts /\ RecoveryInv /\ [Next]_vars => RecoveryInv'
    <2> SUFFICES ASSUME UpgradeFacts, RecoveryInv, [Next]_vars
                 PROVE  RecoveryInv'
      OBVIOUS
    <2>1. FilesOK /\ CommandOK /\ SupervisionOK /\ BoundsOK
      BY TypeParts DEF UpgradeFacts
    <2>2. BoundsOK'
      BY <2>1, BoundsStep
    <2>3. OnlySigned /\ CommandInv
      BY DEF UpgradeFacts, UpgradeInv
    <2> QED
      BY <2>1, <2>2, <2>3, RecoveryStep
  <1> QED
    BY <1>1, <1>2, Invariants, PTL DEF Spec

(* One failure, kill or reboot at any point of any sequence of upgrades    *)
(* leaves a whole signed binary at the path or in its backup once the      *)
(* command has ended, on every platform (platform.go:39-103).              *)
THEOREM RecoverableHolds == Spec => []Recoverable
  <1>1. RecoveryInv => Recoverable
    <2> SUFFICES ASSUME RecoveryInv, pc = "idle", pushes = 0,
                        faults + crashes <= 1
                 PROVE  \E n \in {Copied, Backup} : files[n].image \in Versions
      BY DEF Recoverable
    <2>1. Whole(Copied) \/ Whole(Backup)
      BY DEF RecoveryInv, Failures, Rewriting
    <2> QED
      BY <2>1 DEF Whole
  <1> QED
    BY <1>1, RecoveryInvariant, PTL
============================================================================

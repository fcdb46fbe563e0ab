----------------------------- MODULE ManualInstall -----------------------------
(***************************************************************************)
(* installLocalApp of scripts/manual-latest-build/install-app.ts: a built  *)
(* App replaces the installed one by two renames, with a backup beside it  *)
(* until the new App is verified and started, and a rollback otherwise.    *)
(*                                                                         *)
(* Every command and every file operation is one step, which may fail, and *)
(* the installer may die between any two.  The App's own processes and its *)
(* user act at any time.  There is no lock: installers run one after the   *)
(* other or at once.  Signatures and version identities are a verdict: a   *)
(* whole App built from the sources of the candidate passes, a damaged one *)
(* does not, and any check may fail.                                       *)
(***************************************************************************)

CONSTANTS
    Installers,    \* runs of the installer; i builds the candidate named i
    First,         \* the App installed before the first of them, or Nothing
    Nothing,       \* no App at a path
    Damaged,       \* a bundle that is no longer, or not yet, a whole App
    Provenance,    \* App -> the sources it was built from, and its identity
    Launches       \* whether --launch was asked for: the answers there are

ASSUME AppsDiffer == Nothing # Damaged /\ {Nothing, Damaged} \cap Installers = {}
ASSUME FirstIsNotACandidate == First \notin Installers \cup {Damaged}
ASSUME LaunchesAssumption == Launches \subseteq BOOLEAN

VARIABLES
    installed,     \* what the install path holds
    staged,        \* installer -> what its staging directory holds
    backup,        \* installer -> what its backup directory holds
    running,       \* the Apps with a process started from the install path
    run,           \* installer -> its progress and, until it ends, its receipt
    overlapped     \* history: installers that swapped Apps while another did

installVars == <<installed, staged, backup, running, run, overlapped>>

Fresh == [pc |-> "idle", existing |-> Nothing, wasRunning |-> FALSE,
          moved |-> FALSE, candidate |-> FALSE, baseline |-> FALSE,
          backupApp |-> FALSE, relaunched |-> FALSE]

InstallInit ==
    /\ installed = First
    /\ staged = [i \in Installers |-> Nothing]
    /\ backup = [i \in Installers |-> Nothing]
    /\ running = {}
    /\ run = [i \in Installers |-> Fresh]
    /\ overlapped = {}

Over == {"idle", "refused", "completed", "failed", "dead"}
Active(i) == run[i].pc \notin Over

(* From the look at the installed App to the end of the finally block.     *)
InSwap(i) == Active(i) /\ run[i].pc \notin {"copy", "check", "inspect"}

To(i, pc) == run' = [run EXCEPT ![i].pc = pc]
\* What an installer knew ends with it.
Leaves(i, pc) == run' = [run EXCEPT ![i] = [Fresh EXCEPT !.pc = pc]]
Catch(i) == To(i, "remove")
KeepFiles == UNCHANGED <<installed, staged, backup>>
-----------------------------------------------------------------------------
(* Before the try block: build, copy and check the candidate.              *)
BeginInstall(i) ==
    /\ run[i].pc = "idle"
    /\ To(i, "copy")
    /\ UNCHANGED running /\ KeepFiles

Ditto(i) ==
    /\ run[i].pc = "copy"
    /\ \E copy \in {i, Damaged} : staged' = [staged EXCEPT ![i] = copy]
    /\ To(i, "check")
    /\ UNCHANGED <<installed, backup, running>>

(* A failed check leaves the staging directory behind.                     *)
CheckStagedApp(i) ==
    /\ run[i].pc = "check"
    /\ \/ staged[i] = i /\ To(i, "inspect")
       \/ Leaves(i, "refused")
    /\ UNCHANGED running /\ KeepFiles

InspectExisting(i) ==
    /\ run[i].pc = "inspect"
    /\ \/ run' = [run EXCEPT ![i].existing = installed,
                             ![i].pc = IF installed = Nothing THEN "prepare" ELSE "stop"]
       \/ installed # Nothing /\ Catch(i)
    /\ UNCHANGED running /\ KeepFiles

(* stopInstalledApp: the quit request, then a wait of 20 seconds whose     *)
(* timeout leaves was_running false although the App was running.          *)
StopExisting(i) ==
    /\ run[i].pc = "stop"
    /\ To(i, IF running = {} THEN "prepare" ELSE "stopping") \/ Catch(i)
    /\ UNCHANGED running /\ KeepFiles

AwaitStop(i) ==
    /\ run[i].pc = "stopping"
    /\ \/ running = {} /\ run' = [run EXCEPT ![i].pc = "prepare", ![i].wasRunning = TRUE]
       \/ running # {} /\ Catch(i)
    /\ UNCHANGED running /\ KeepFiles

PrepareBackup(i) ==
    /\ run[i].pc = "prepare"
    /\ To(i, IF run[i].existing = Nothing THEN "replace" ELSE "backup") \/ Catch(i)
    /\ UNCHANGED running /\ KeepFiles

BackupExisting(i) ==
    /\ run[i].pc = "backup"
    /\ \/ /\ installed # Nothing
          /\ backup' = [backup EXCEPT ![i] = installed]
          /\ installed' = Nothing
          /\ run' = [run EXCEPT ![i].pc = "replace", ![i].moved = TRUE]
       \/ Catch(i) /\ UNCHANGED <<installed, backup>>
    /\ UNCHANGED <<staged, running>>

(* A rename onto an App that is there fails.                               *)
ReplaceApp(i) ==
    /\ run[i].pc = "replace"
    /\ \/ /\ installed = Nothing
          /\ installed' = staged[i]
          /\ staged' = [staged EXCEPT ![i] = Nothing]
          /\ run' = [run EXCEPT ![i].pc = "verify", ![i].candidate = TRUE]
       \/ Catch(i) /\ UNCHANGED <<installed, staged>>
    /\ UNCHANGED <<backup, running>>

(* verifyApp and assertManualAppVersionIdentity: the local build id is a    *)
(* digest of the sources, so another build of them passes as well.         *)
Verifies(i) ==
    /\ installed \notin {Nothing, Damaged}
    /\ Provenance[installed] = Provenance[i]

VerifyInstalled(i) ==
    /\ run[i].pc = "verify"
    /\ \/ /\ Verifies(i)
          /\ \E launch \in Launches : To(i, IF launch THEN "launch" ELSE "succeeded")
       \/ Catch(i)
    /\ UNCHANGED running /\ KeepFiles

(* open, then a wait of 30 seconds for a process started from the path.    *)
LaunchInstalled(i) ==
    /\ run[i].pc = "launch"
    /\ running' \in {running, running \cup ({installed} \ {Nothing})}
    /\ (running' # {} /\ To(i, "verify_launched")) \/ Catch(i)
    /\ KeepFiles

VerifyLaunched(i) ==
    /\ run[i].pc = "verify_launched"
    /\ (Verifies(i) /\ To(i, "succeeded")) \/ Catch(i)
    /\ UNCHANGED running /\ KeepFiles
-----------------------------------------------------------------------------
(* The catch block.  rmSync of the candidate may stop half way; it removes *)
(* whatever App is at the path.                                            *)
RemoveCandidate(i) ==
    /\ run[i].pc = "remove"
    /\ \/ /\ run[i].candidate
          /\ installed' = Nothing
          /\ run' = [run EXCEPT ![i].pc = "restore", ![i].candidate = FALSE]
       \/ /\ run[i].candidate /\ installed # Nothing
          /\ installed' \in {installed, Damaged}
          /\ To(i, "restore")
       \/ ~run[i].candidate /\ To(i, "restore") /\ UNCHANGED installed
    /\ UNCHANGED <<staged, backup, running>>

\* Bug for mutation: a backup that could not be restored counts as restored.
RestoreBlindly(i) ==
    /\ run[i].pc = "restore"
    /\ IF run[i].moved /\ installed = Nothing /\ backup[i] # Nothing
       THEN /\ \/ installed' = backup[i] /\ backup' = [backup EXCEPT ![i] = Nothing]
               \/ UNCHANGED <<installed, backup>>
            /\ run' = [run EXCEPT ![i].pc = "relaunch", ![i].moved = FALSE]
       ELSE To(i, "relaunch") /\ UNCHANGED <<installed, backup>>
    /\ UNCHANGED <<staged, running>>

RestoreExisting(i) ==
    /\ run[i].pc = "restore"
    /\ \/ /\ run[i].moved /\ installed = Nothing /\ backup[i] # Nothing
          /\ installed' = backup[i]
          /\ backup' = [backup EXCEPT ![i] = Nothing]
          /\ run' = [run EXCEPT ![i].pc = "relaunch", ![i].moved = FALSE]
       \/ To(i, "relaunch") /\ UNCHANGED <<installed, backup>>
    /\ UNCHANGED <<staged, running>>

Baseline(i) == run[i].existing # Nothing /\ ~run[i].moved /\ installed # Nothing

(* The receipt.  Any process started from the path counts as a relaunch,   *)
(* a candidate that was launched and never stopped included.               *)
Report(i) ==
    /\ run[i].pc = "relaunch"
    /\ \E opened \in BOOLEAN :
          /\ opened => run[i].wasRunning /\ Baseline(i)
          /\ running' = IF opened THEN running \cup {installed} ELSE running
          /\ run' = [run EXCEPT ![i].pc = "clean", ![i].baseline = Baseline(i),
                        ![i].backupApp = backup[i] # Nothing,
                        ![i].relaunched = opened]
    /\ KeepFiles

\* Bug for mutation: the finally block always removes the backup.
CleanAll(i) ==
    /\ run[i].pc \in {"succeeded", "clean"}
    /\ staged' = [staged EXCEPT ![i] = Nothing]
    /\ backup' = [backup EXCEPT ![i] = Nothing]
    /\ Leaves(i, IF run[i].pc = "succeeded" THEN "completed" ELSE "failed")
    /\ UNCHANGED <<installed, running>>

(* The finally block. *)
Clean(i) ==
    /\ run[i].pc \in {"succeeded", "clean"}
    /\ staged' = [staged EXCEPT ![i] = Nothing]
    /\ backup' = IF run[i].pc = "succeeded" \/ ~run[i].moved
                 THEN [backup EXCEPT ![i] = Nothing] ELSE backup
    /\ Leaves(i, IF run[i].pc = "succeeded" THEN "completed" ELSE "failed")
    /\ UNCHANGED <<installed, running>>
-----------------------------------------------------------------------------
InstallerDies(i) ==
    /\ Active(i)
    /\ Leaves(i, "dead")
    /\ UNCHANGED running /\ KeepFiles

(* The App quits, at last or by itself, or its user opens it. *)
AppActs ==
    /\ \/ \E app \in running : running' = running \ {app}
       \/ installed # Nothing /\ running' = running \cup {installed}
    /\ UNCHANGED run /\ KeepFiles

TryBlock(i) ==
    \/ InspectExisting(i) \/ StopExisting(i) \/ AwaitStop(i) \/ PrepareBackup(i)
    \/ BackupExisting(i) \/ ReplaceApp(i) \/ VerifyInstalled(i)
    \/ LaunchInstalled(i) \/ VerifyLaunched(i)

Rollback(i) == RemoveCandidate(i) \/ RestoreExisting(i) \/ Report(i)

InstallStep(i) ==
    BeginInstall(i) \/ Ditto(i) \/ CheckStagedApp(i) \/ TryBlock(i) \/ Rollback(i) \/ Clean(i)

InstallActs ==
    \/ \E i \in Installers : InstallStep(i) \/ InstallerDies(i)
    \/ AppActs

(* The history of overlapping swaps, which no action reads. *)
NotesOverlap ==
    overlapped' = overlapped \cup
        {i \in Installers : InSwap(i)' /\ \E k \in Installers \ {i} : InSwap(k)'}

InstallNext == InstallActs /\ NotesOverlap

InstallSpec == InstallInit /\ [][InstallNext]_installVars
-----------------------------------------------------------------------------
(* The App found at first is on disk, at its path or in a backup, until an *)
(* installer has completed with its successor: through failures, failed    *)
(* rollbacks and deaths of the installer at any step, and the runs that    *)
(* come after them (rollback, :364-385 and finally, :425-430).  Only the   *)
(* rollback of an installer that swapped while another did may lose it:    *)
(* it removes the App at the path, whoever put it there (:367-374).        *)
FirstAppSurvives ==
    \/ installed = First
    \/ \E i \in Installers : backup[i] = First
    \/ \E i \in Installers : run[i].pc = "completed"
    \/ \E i \in overlapped :
          run[i].pc \in {"restore", "relaunch", "clean", "failed", "dead"}

(* What the failure receipt says when the installer ends (:386-423): the   *)
(* App it found is at the install path, or in the backup it names, which   *)
(* is still there; there is no third case.                                 *)
ReceiptTells(i) ==
    /\ run[i].baseline => installed = run[i].existing
    /\ run[i].backupApp => backup'[i] = run[i].existing
    /\ run[i].existing # Nothing => run[i].baseline \/ run[i].backupApp

(* The receipt of every installer but those whose swap overlapped another. *)
FailureReceiptIsTrue ==
    [][\A i \in Installers \ overlapped :
         run[i].pc = "clean" /\ run'[i].pc = "failed" => ReceiptTells(i)]_installVars
=============================================================================

--------------------------- MODULE AssetReplacement ---------------------------
(***************************************************************************)
(* scripts/replace-same-tag-release-assets.ts: an operator, or the job of  *)
(* replace-same-tag-assets.yml, replaces primary files of a public release *)
(* under their own names.  --stage uploads each new file under a staged    *)
(* name; --promote then deletes the old file and renames the staged one.   *)
(* The jobs hold another concurrency group than the release jobs and an    *)
(* operator holds none, so all of them may edit the release at once.       *)
(* The patch of the release notes that may follow is not modelled.         *)
(***************************************************************************)
EXTENDS ReleaseAssets, Sequences

CONSTANTS
    Items,         \* base names of the files to replace
    Version,       \* replacer -> the version it replaces them with
    Commands,      \* replacer -> the commands it runs, in order
    Operators,     \* replacers who go on after a failed command
    FaultyTools    \* replacers whose commands may be cut short

Replacers == DOMAIN Commands

ASSUME ReplacedItems == Items # {} /\ \A b \in Items : PublicName(b) \in DOMAIN Seed
ASSUME KnownCommands == \A r \in Replacers : Commands[r] \in Seq({"stage", "promote"})

VARIABLE tool      \* replacer -> its progress

replaceVars == <<assets, issued, late, tool>>

(* The plan names the current file by id; all plans are made at the start. *)
Current(b) == Asset(Numbering[PublicName(b)], PublicName(b), Seed[PublicName(b)])
NextBytes(r, b) == {<<b, Version[r]>>}
StageName(r, b) == StagedName(b, NextBytes(r, b))

Public(b) == At(PublicName(b))
IsCurrent(b) == Public(b) = Current(b)
IsNext(r, b) == Public(b) # NoAsset /\ Public(b).digest = NextBytes(r, b)
IsStaged(r, b) == Present(StageName(r, b))

ReplaceInit == tool = [r \in Replacers |-> [pc |-> "idle", call |-> NoAsset, run |-> 0, todo |-> {}]]

Move(r, pc) == tool' = [tool EXCEPT ![r].pc = pc]
ItemDone(r, b, pc) == tool' = [tool EXCEPT ![r].pc = pc, ![r].todo = @ \ {b}]
Submit(r, q, pc) == tool' = [tool EXCEPT ![r].call = q, ![r].pc = pc]
At_(r, pc) == tool[r].pc = pc /\ tool[r].call = NoAsset
Only == UNCHANGED <<assets, issued, late>>
-----------------------------------------------------------------------------
(* inspect: every item is current, next, or safe under its staged name.    *)
Known(r, b) == Public(b) = NoAsset \/ IsCurrent(b) \/ IsNext(r, b)

Intact(r) ==
    \A b \in Items : Known(r, b) /\ (Public(b) = NoAsset => IsStaged(r, b))
Stageable(r) == Intact(r) /\ \A b \in Items : Public(b) # NoAsset

(* promote starts only when every item is staged, or already replaced.     *)
Complete(r, b) == IsNext(r, b) /\ ~IsStaged(r, b)
Ready(r, b) == (Public(b) = NoAsset \/ IsCurrent(b)) /\ IsStaged(r, b)
FullyStaged(r) == \A b \in Items : Complete(r, b) \/ Ready(r, b)

Begin(r) ==
    /\ tool[r].pc \in {"idle", "done"} \/ (tool[r].pc = "failed" /\ r \in Operators)
    /\ tool[r].run < Len(Commands[r])
    /\ tool' = [tool EXCEPT ![r].run = @ + 1, ![r].todo = Items,
                            ![r].pc = Commands[r][tool[r].run + 1]]
    /\ Only

Item(r) == CHOOSE b \in tool[r].todo : TRUE

StageItem(r) ==
    /\ At_(r, "stage")
    /\ IF tool[r].todo = {} THEN Move(r, IF Intact(r) THEN "done" ELSE "failed")
       ELSE IF ~Stageable(r) THEN Move(r, "failed")
       ELSE LET b == Item(r) IN
            IF IsStaged(r, b) \/ IsNext(r, b) THEN ItemDone(r, b, "stage")
            ELSE Submit(r, Upload(StageName(r, b), NextBytes(r, b)), "staged")
    /\ Only

StageReadback(r) ==
    /\ At_(r, "staged")
    /\ IF IsStaged(r, Item(r)) THEN ItemDone(r, Item(r), "stage") ELSE Move(r, "failed")
    /\ Only

CheckStaged(r) ==
    /\ At_(r, "promote")
    /\ Move(r, IF Intact(r) /\ FullyStaged(r) THEN "items" ELSE "failed")
    /\ Only

\* Bug for mutation: promote looks for no staged candidate, at first or later.
PromoteUnseen(r) ==
    /\ \/ At_(r, "promote") /\ Move(r, "items")
       \/ /\ At_(r, "items")
          /\ IF tool[r].todo = {} THEN Move(r, "done")
             ELSE IF IsCurrent(Item(r)) THEN Submit(r, Delete(Current(Item(r))), "cleared")
             ELSE Move(r, "failed")
    /\ Only

PromoteItem(r) ==
    /\ At_(r, "items")
    /\ IF ~Intact(r) THEN Move(r, "failed")
       ELSE IF tool[r].todo = {} THEN Move(r, "done")
       ELSE LET b == Item(r) IN
            CASE Complete(r, b) -> ItemDone(r, b, "items")
              [] ~Complete(r, b) /\ ~IsStaged(r, b) -> Move(r, "failed")
              [] IsStaged(r, b) /\ IsCurrent(b) -> Submit(r, Delete(Current(b)), "cleared")
              [] IsStaged(r, b) /\ ~IsCurrent(b) ->
                    Submit(r, Rename(At(StageName(r, b)), PublicName(b)), "renamed")
    /\ Only

DeleteReadback(r) ==
    /\ At_(r, "cleared")
    /\ LET b == Item(r) IN
       IF Public(b) = NoAsset /\ IsStaged(r, b)
       THEN Submit(r, Rename(At(StageName(r, b)), PublicName(b)), "renamed")
       ELSE Move(r, "failed")
    /\ Only

RenameReadback(r) ==
    /\ At_(r, "renamed")
    /\ IF Complete(r, Item(r)) THEN ItemDone(r, Item(r), "items") ELSE Move(r, "failed")
    /\ Only
-----------------------------------------------------------------------------
(* Here an error of gh ends the command, whatever the readback shows.      *)
ReplaceCall(r) ==
    /\ tool[r].call # NoAsset
    /\ late' = late
    /\ \/ /\ Land(tool[r].call)
          /\ tool' = [tool EXCEPT ![r].call = NoAsset]
       \/ /\ Refuse(tool[r].call)
          /\ tool' = [tool EXCEPT ![r].call = NoAsset, ![r].pc = "failed"]

(* The command dies or gives up; an open request may be done, or come late. *)
CutShort(r) ==
    /\ r \in FaultyTools
    /\ tool[r].pc \notin {"idle", "done", "failed"}
    /\ tool' = [tool EXCEPT ![r].pc = "failed", ![r].call = NoAsset]
    /\ \/ UNCHANGED <<assets, issued, late>>
       \/ tool[r].call # NoAsset /\ Land(tool[r].call) /\ late' = late
       \/ /\ tool[r].call # NoAsset
          /\ late' = late \cup {tool[r].call}
          /\ UNCHANGED <<assets, issued>>

ReplaceStep(r) ==
    \/ Begin(r) \/ StageItem(r) \/ StageReadback(r) \/ CheckStaged(r)
    \/ PromoteItem(r) \/ DeleteReadback(r) \/ RenameReadback(r) \/ ReplaceCall(r)
=============================================================================

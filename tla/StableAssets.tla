----------------------------- MODULE StableAssets -----------------------------
(***************************************************************************)
(* One public Stable release edited in place by everyone who may: platform *)
(* appends and installer repairs, one at a time; replacers, whenever they  *)
(* like; and requests that arrive after their caller is gone.              *)
(***************************************************************************)
EXTENDS DesktopAppend, AssetReplacement

stableVars == <<assets, issued, late, job, tool>>

StableInit == AppendInit /\ ReplaceInit

JobActs(j) == (JobStep(j) \/ Die(j)) /\ UNCHANGED tool
ReplacerActs(r) == (ReplaceStep(r) \/ CutShort(r)) /\ UNCHANGED job
Arrives == LateArrives /\ UNCHANGED <<job, tool>>

StableNext ==
    \/ \E j \in GroupJobs : JobActs(j)
    \/ \E r \in Replacers : ReplacerActs(r)
    \/ Arrives

(* A runner goes on with a job it has; nothing obliges a person to.        *)
StableFairness == \A j \in GroupJobs : WF_stableVars(JobStep(j) /\ UNCHANGED tool)

StableSpec == StableInit /\ [][StableNext]_stableVars /\ StableFairness
-----------------------------------------------------------------------------
(* What the names and the bytes stand for.                                 *)
AppendedFiles == UNION {FilesOf[p] : p \in DOMAIN FilesOf}
Bases ==
    {"manifest", "installer"} \cup {n[1] : n \in DOMAIN Seed} \cup Items \cup RepairJobs
        \cup AppendedFiles
Facts ==
    (UNION {Seed[n] : n \in DOMAIN Seed}) \cup (UNION {Repaired[j] : j \in RepairJobs})
        \cup {Entry(j) : j \in AppendJobs}
        \cup {<<f, Build[j]>> : f \in AppendedFiles, j \in AppendJobs}
        \cup {<<j, "receipt">> : j \in RepairJobs}
        \cup {<<b, Version[r]>> : b \in Items, r \in Replacers}
Digests == SUBSET Facts
AssetSet == [id : Nat, name : Bases \X Digests, digest : Digests]
RequestSet ==
    [op : {"upload", "delete", "rename"}, id : Nat, name : Bases \X Digests, digest : Digests]

ASSUME NoAssetIsApart == NoAsset \notin AssetSet \cup RequestSet

(* The manifest, the installer, the platforms' files, the replaced files   *)
(* and the receipts have names of their own.                               *)
ASSUME NamesApart ==
    /\ {"manifest", "installer"} \cap (Items \cup AppendedFiles \cup RepairJobs) = {}
    /\ Items \cap AppendedFiles = {}
    /\ RepairJobs \cap (Items \cup AppendedFiles) = {}
    /\ \A j \in AppendJobs : Platform[j] \in DOMAIN FilesOf

(* The release was published with finitely many files, none of them        *)
(* staged, and with the files of each platform its manifest lists.         *)
ASSUME SeedPublished ==
    /\ IsFiniteSet(DOMAIN Seed)
    /\ \A n \in DOMAIN Seed : n = PublicName(n[1])
    /\ Manifest \in DOMAIN Seed =>
         \A e \in Seed[Manifest] :
            /\ e[1] \in DOMAIN FilesOf
            /\ \A f \in FilesOf[e[1]] :
                 PublicName(f) \in DOMAIN Seed /\ Seed[PublicName(f)] = {<<f, e[2]>>}
-----------------------------------------------------------------------------
(* The public name of a replaced file (promote, :184-202) shows its old or *)
(* a new version, and is free only while a new version waits, staged:      *)
(* whoever dies, is late or promotes a rival plan at the same time.        *)
ReplacedFileIsBacked ==
    \A b \in Items :
        \/ IsCurrent(b)
        \/ \E r \in Replacers : IsNext(r, b)
        \/ Public(b) = NoAsset /\ \E r \in Replacers : IsStaged(r, b)

(* A platform the public manifest lists (append, :858-895) stays listed in *)
(* it, or in the staged one while the manifest is replaced by two calls,   *)
(* through every crash, recovery by another platform's job and late call.  *)
Promised == Listed \cup UNION {a.digest : a \in Stages}
PlatformsStay == [][Listed \subseteq Promised']_stableVars

(* The public manifest, and a completed job, speak of files that are on    *)
(* the release with the bytes of the build they name (:835-866, :899-917). *)
BuildIsUp(platform, build) ==
    \A f \in FilesOf[platform] :
        <<PublicName(f), {<<f, build>>}>> \in Inventory
ManifestIsTrue ==
    /\ \A e \in Promised : BuildIsUp(e[1], e[2])
    /\ \A j \in AppendJobs : job[j].pc = "complete" => Entry(j) \in Promised

(* A receipt of the installer repair (:690-741) is published only over the *)
(* installer it speaks of.  The one exception is the receipt of a dead     *)
(* repair, carried out after another was admitted to replace its bytes.    *)
Superseded(j) ==
    \E k \in RepairJobs :
        job[k].canonical # NoAsset /\ job[k].canonical.digest = Repaired[j]
ReceiptIsTrue ==
    [][\A j \in RepairJobs :
         ~Present(Receipt(j)) /\ Present(Receipt(j))'
            => \/ At(Installer) # NoAsset /\ At(Installer).digest = Repaired[j]
               \/ job[j].pc = "dead" /\ Superseded(j)]_stableVars

(* Whatever crashed before, at whatever call, the next undisturbed job of  *)
(* a platform completes (staged recovery, :788-821), as long as no request *)
(* is left in flight and no replacer interferes.                           *)
Undisturbed == late = {} /\ \A r \in Replacers : tool[r].pc = "idle"
AppendConverges ==
    []Undisturbed =>
        \A j \in AppendJobs \ FaultyJobs : (job[j].pc = "inspect") ~> (job[j].pc = "complete")
=============================================================================

----------------------------- MODULE WebUICleanup -----------------------------
(***************************************************************************)
(* The manual clean-up of the WebUI package on GHCR                        *)
(* (scripts/cleanup-webui-ghcr-versions.ts), beside the carriers and       *)
(* promotions of WebUIPromotion.  It lists the package versions once,      *)
(* decides which to keep by their tags, and deletes the others one by one. *)
(*                                                                         *)
(* A package version is a manifest: the index of a run's image, the        *)
(* manifests of its platforms (one stands for both; the carrier pushes     *)
(* them under candidate tags of their own), or its publication record.     *)
(* Nightly images are not made by these runs and are left out.             *)
(***************************************************************************)
EXTENDS WebUIPromotion, FiniteSets, Naturals

CONSTANTS
    RetainStable,     \* retention_policy.retain_stable_versions
    RollbackTags      \* version tags protected by --rollback-tag

VARIABLES
    cleanup,          \* its progress, what it keeps and what it has still to delete
    deleted           \* the package versions it deleted

cleanupVars == <<cleanup, deleted>>

Kinds == {"index", "platform", "record"}

(* The versions a run has pushed: image before version tag, record last.   *)
Pushed ==
    {<<k, r>> \in Kinds \X {q \in Promotions : RecordOf[q] = q /\ promo[q].pc # "idle"} :
        k = "record" => r \in records} \ deleted

CleanupInit ==
    /\ WebUIInit
    /\ cleanup = [pc |-> "idle", kept |-> {}, candidates |-> {}]
    /\ deleted = {}
-----------------------------------------------------------------------------
(* The tags of a version that the clean-up knows how to read: an index may *)
(* have moving and version tags; candidate tags match none of its patterns.*)
TagsOf(v) == IF v[1] = "index" THEN {t \in TagNames : tags[t] = v[2]} ELSE {}

(* A record is tagged receipt-<version>-<run>-<attempt>, and what follows  *)
(* receipt- is taken for a version as a whole.                             *)
ReceiptVersion(r) == <<VersionOf[r], r>>

Protected == {v \in Pushed : TagsOf(v) \cap (MovingTags \cup RollbackTags) # {}}
Versioned == {v \in Pushed : TagsOf(v) \ MovingTags # {}}

(* The most recently updated RetainStable versions with a version tag; how *)
(* GHCR dates them is left open.                                           *)
Recent ==
    LET rest == Versioned \ Protected
    IN {keep \in SUBSET rest :
          \/ Cardinality(keep) = RetainStable
          \/ Cardinality(keep) < RetainStable /\ keep = rest}

(* durablePublicationVersionIds: records paired with a kept image by their *)
(* version, and that image.                                                *)
Durable(kept) ==
    {v \in Pushed : v[1] = "record" /\ \E i \in kept : ReceiptVersion(v[2]) \in TagsOf(i)}

ListVersions ==
    /\ cleanup.pc = "idle"
    /\ \E recent \in Recent :
         LET kept == Protected \cup recent
         IN cleanup' = [pc |-> "delete", kept |-> kept,
                        candidates |-> Pushed \ (kept \cup Durable(kept))]
    /\ UNCHANGED <<webuiVars, deleted>>

(* Deleting a manifest takes its tags with it.                             *)
DeleteVersion ==
    /\ cleanup.pc = "delete"
    /\ \E v \in cleanup.candidates :
         /\ deleted' = deleted \cup {v}
         /\ cleanup' = [cleanup EXCEPT !.candidates = @ \ {v}]
         /\ tags' = [t \in TagNames |-> IF t \in TagsOf(v) THEN NoImage ELSE tags[t]]
         /\ records' = IF v[1] = "record" THEN records \ {v[2]} ELSE records
    /\ UNCHANGED <<promo, adrift>>

(* All are deleted, or a failed call ends the clean-up.                    *)
EndCleanup ==
    /\ cleanup.pc = "delete"
    /\ cleanup' = [cleanup EXCEPT !.pc = "ended", !.candidates = {}]
    /\ UNCHANGED <<webuiVars, deleted>>

(* What a run finds when a version it needs is gone: its write is refused, *)
(* and the readback of the platforms fails.                                *)
Needs(r) ==
    CASE promo[r].pc = "version"  -> <<"index", r>>
      [] promo[r].pc = "tag"      -> <<"index", Target(r)>>
      [] promo[r].pc = "children" -> <<"platform", Target(r)>>
      [] OTHER                    -> <<"none", r>>

Refused(r) ==
    /\ Needs(r) \in deleted
    /\ \/ promo[r].pc = "version" /\ Turn(r, "version_read")
       \/ promo[r].pc = "tag" /\ Turn(r, "observe")
       \/ promo[r].pc = "children" /\ Turn(r, "failed")
    /\ OnlyReads

RunActs ==
    /\ \E r \in Promotions :
         IF Needs(r) \in deleted THEN Refused(r) ELSE PromotionStep(r)
    /\ UNCHANGED cleanupVars

CleanupNext == ListVersions \/ DeleteVersion \/ EndCleanup \/ RunActs

CleanupSpec == CleanupInit /\ [][CleanupNext]_<<webuiVars, cleanupVars>>
-----------------------------------------------------------------------------
(* An image that the clean-up keeps also keeps its platforms and its       *)
(* publication record: it "retains a durable publication unit across       *)
(* separate package versions".                                             *)
PublicationUnitIsKept ==
    \A v \in cleanup.kept :
        deleted \cap {<<"platform", v[2]>>, <<"record", v[2]>>} = {}
=============================================================================

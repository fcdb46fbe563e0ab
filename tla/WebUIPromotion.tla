---------------------------- MODULE WebUIPromotion ----------------------------
(***************************************************************************)
(* The Docker WebUI channel: a carrier run publishes an image under its    *)
(* version tag (_release-webui-carrier.yml), and a promotion moves stable  *)
(* and latest, or latest alone, to it (release-webui-stable.yml and        *)
(* scripts/webui-stable-promotion.ts).  Carriers have one concurrency      *)
(* group and promotions another; admission is in neither.                  *)
(*                                                                         *)
(* An image is named by the run that built it.  Records and receipts are   *)
(* valid for the run they name.  The two reads of the moving tags that a   *)
(* promotion makes inside its group are one step: only a request whose     *)
(* caller is gone could come between them.                                 *)
(***************************************************************************)
CONSTANTS
    Promotions,       \* runs that promote one WebUI image each
    RecordOf,         \* the run whose publication record they promote
    VersionOf,        \* the version tag of a run's image
    Previews,         \* runs with authority independent_preview
    FaultyPromotions, \* runs that may lose a call or die
    NoImage           \* an absent tag

ASSUME RecordsAssumption ==
    /\ RecordOf \in [Promotions -> Promotions]
    /\ \A r \in Promotions : RecordOf[RecordOf[r]] = RecordOf[r]
ASSUME NoImageAssumption == NoImage \notin Promotions
ASSUME VersionsAssumption == \A r \in Promotions : VersionOf[r] \notin {"stable", "latest"}

VARIABLES
    tags,      \* tag -> the image GHCR shows for it
    promo,     \* run -> its progress
    records,   \* runs with a durable publication record
    adrift     \* tag writes whose caller is gone: [tag, image, landed]

webuiVars == <<tags, promo, records, adrift>>

MovingTags == {"stable", "latest"}
TagNames == MovingTags \cup {VersionOf[r] : r \in Promotions}

(* The image a run promotes, and the tags it moves. *)
Target(r) == RecordOf[r]
TargetVersion(r) == VersionOf[RecordOf[r]]
PromotionTags(r) == IF r \in Previews THEN {"latest"} ELSE MovingTags

NotAsked == [pc |-> "idle", stable |-> NoImage, latest |-> NoImage, todo |-> {}]

WebUIInit ==
    /\ tags = [t \in TagNames |-> NoImage]
    /\ promo = [r \in Promotions |-> NotAsked]
    /\ records = {}
    /\ adrift = {}

Turn(r, pc) == promo' = [promo EXCEPT ![r].pc = pc]
OnlyReads == UNCHANGED <<tags, records, adrift>>
Adrift(names, image) ==
    adrift' = adrift \cup {[tag |-> t, image |-> image, landed |-> FALSE] : t \in names}

(* Any call of a faulty run may fail, and the run may be cancelled or die. *)
Breaks(r) == r \in FaultyPromotions /\ Turn(r, "failed")
-----------------------------------------------------------------------------
(* The carrier, one at a time in opl-webui-independent-publication-global. *)
Publishing(r) == promo[r].pc \in {"version", "version_read", "record"}
Promoting(r) == promo[r].pc \in {"tag", "observe", "pointers", "children"}
Finished(r) == promo[r].pc \in {"succeeded", "failed"}

StartCarrier(r) ==
    /\ promo[r].pc = "idle" /\ RecordOf[r] = r
    /\ \A q \in Promotions : ~Publishing(q)
    /\ Turn(r, "version")
    /\ OnlyReads

(* The version tag is created or replaced; an unknown outcome is read back.*)
WriteVersion(r) ==
    /\ promo[r].pc = "version"
    /\ Turn(r, "version_read")
    /\ \/ tags' = [tags EXCEPT ![VersionOf[r]] = r] /\ UNCHANGED adrift
       \/ r \in FaultyPromotions /\ UNCHANGED <<tags, adrift>>
       \/ /\ r \in FaultyPromotions
          /\ Adrift({VersionOf[r]}, r) /\ UNCHANGED tags
    /\ UNCHANGED records

ReadVersion(r) ==
    /\ promo[r].pc = "version_read"
    /\ \/ Turn(r, IF tags[VersionOf[r]] = r THEN "record" ELSE "failed")
       \/ Breaks(r)
    /\ OnlyReads

(* The record is pushed under a tag of the run and attempt, and read back; *)
(* a run that breaks here may leave it behind.                             *)
PublishRecord(r) ==
    /\ promo[r].pc = "record"
    /\ \/ Turn(r, "published") /\ records' = records \cup {r}
       \/ Breaks(r) /\ records' \in {records, records \cup {r}}
    /\ UNCHANGED <<tags, adrift>>

(* Operation promote: an earlier run's record is promoted. *)
StartRecorded(r) ==
    /\ promo[r].pc = "idle" /\ RecordOf[r] # r
    /\ RecordOf[r] \in records
    /\ Turn(r, "published")
    /\ OnlyReads
-----------------------------------------------------------------------------
(* The admission job: version, stable and latest, read one after another.  *)
AdmitVersion(r) ==
    /\ promo[r].pc = "published"
    /\ \/ Turn(r, IF tags[TargetVersion(r)] = Target(r) THEN "stable" ELSE "failed")
       \/ Breaks(r)
    /\ OnlyReads

AdmitStable(r) ==
    /\ promo[r].pc = "stable"
    /\ \/ promo' = [promo EXCEPT ![r].pc = "latest", ![r].stable = tags["stable"]]
       \/ Breaks(r)
    /\ OnlyReads

\* Bug for mutation: only tags that agree are admitted.
AdmitAligned(r) ==
    /\ promo[r].pc = "latest"
    /\ \/ IF tags["latest"] = promo[r].stable
          THEN promo' = [promo EXCEPT ![r].pc = "admitted", ![r].latest = tags["latest"]]
          ELSE Turn(r, "failed")
       \/ Breaks(r)
    /\ OnlyReads

(* Whether the two tags agree is recorded (aliases_aligned), not required. *)
AdmitLatest(r) ==
    /\ promo[r].pc = "latest"
    /\ \/ promo' = [promo EXCEPT ![r].pc = "admitted", ![r].latest = tags["latest"]]
       \/ Breaks(r)
    /\ OnlyReads
-----------------------------------------------------------------------------
(* The promotion job, one at a time in opl-webui-stable-promotion-global.  *)

(* What the run must leave: latest at its target, and stable there too, or *)
(* for a preview as it was admitted.                                       *)
Outcome(r) ==
    /\ tags["latest"] = Target(r)
    /\ tags["stable"] = IF r \in Previews THEN promo[r].stable ELSE Target(r)

\* Bug for mutation: only the Latest tag is compared.
LatestAsAdmitted(r) == tags["latest"] = promo[r].latest

AsAdmitted(r) == tags["stable"] = promo[r].stable /\ tags["latest"] = promo[r].latest

(* decideWebuiStablePromotion: idempotent, write_once or conflict.         *)
Decide(r) ==
    /\ promo[r].pc = "admitted"
    /\ \A q \in Promotions : ~Promoting(q)
    /\ \/ Outcome(r) /\ Turn(r, "observe")
       \/ /\ ~Outcome(r) /\ AsAdmitted(r)
          /\ promo' = [promo EXCEPT ![r].pc = "tag", ![r].todo = PromotionTags(r)]
       \/ ~Outcome(r) /\ ~AsAdmitted(r) /\ Turn(r, "failed")
       \/ Breaks(r)
    /\ OnlyReads

(* One oras tag command moves the tags, each by a request of its own.      *)
WriteTag(r) ==
    /\ promo[r].pc = "tag"
    /\ \E t \in promo[r].todo :
         /\ tags' = [tags EXCEPT ![t] = Target(r)]
         /\ promo' = [promo EXCEPT ![r].todo = @ \ {t},
                        ![r].pc = IF promo[r].todo = {t} THEN "observe" ELSE "tag"]
    /\ UNCHANGED <<records, adrift>>

(* It fails, or its job dies: what it had not moved may still be moved.    *)
LoseTags(r) ==
    /\ r \in FaultyPromotions /\ promo[r].pc = "tag"
    /\ \E w \in SUBSET promo[r].todo : Adrift(w, Target(r))
    /\ Turn(r, "observe") \/ Turn(r, "failed")
    /\ UNCHANGED <<tags, records>>

(* The last of up to three anonymous readbacks decides.                    *)
Observe(r) ==
    /\ promo[r].pc = "observe"
    /\ Turn(r, IF Outcome(r) THEN "children" ELSE "failed") \/ Breaks(r)
    /\ OnlyReads

(* The public OCI graph: the version index, then the moving tags.          *)
ReadGraph(r) ==
    /\ promo[r].pc = "children"
    /\ Turn(r, IF tags[TargetVersion(r)] = Target(r) THEN "pointers" ELSE "failed") \/ Breaks(r)
    /\ OnlyReads

ReadPointers(r) ==
    /\ promo[r].pc = "pointers"
    /\ Turn(r, IF Outcome(r) THEN "succeeded" ELSE "failed") \/ Breaks(r)
    /\ OnlyReads

AdriftLands ==
    \E w \in adrift :
        /\ ~w.landed
        /\ adrift' = (adrift \ {w}) \cup {[w EXCEPT !.landed = TRUE]}
        /\ tags' = [tags EXCEPT ![w.tag] = w.image] \/ UNCHANGED tags
        /\ UNCHANGED <<promo, records>>
-----------------------------------------------------------------------------
PromotionStep(r) ==
    \/ StartCarrier(r) \/ WriteVersion(r) \/ ReadVersion(r) \/ PublishRecord(r)
    \/ StartRecorded(r)
    \/ AdmitVersion(r) \/ AdmitStable(r) \/ AdmitLatest(r)
    \/ Decide(r) \/ WriteTag(r) \/ LoseTags(r) \/ Observe(r) \/ ReadGraph(r) \/ ReadPointers(r)

WebUINext == AdriftLands \/ \E r \in Promotions : PromotionStep(r)
WebUISpec == WebUIInit /\ [][WebUINext]_webuiVars
-----------------------------------------------------------------------------
(* Stable and Latest only move from the images the moving run was admitted *)
(* against (decideWebuiStablePromotion), whatever was written by half      *)
(* before, unless a write outlived its caller.                             *)
TagsMoveAsAdmitted ==
    [][\A t \in MovingTags : tags'[t] # tags[t] =>
         \/ adrift # {}
         \/ \E r \in Promotions : /\ promo[r].pc = "tag" /\ t \in PromotionTags(r)
                                  /\ tags[t] = promo[r][t] /\ tags'[t] = Target(r)]_webuiVars

(* A run no other run and no astray write disturbs promotes what was       *)
(* published, even if a run before it moved one tag of the two and died.   *)
Alone(r) ==
    /\ \A q \in Promotions \ {r} : promo[q].pc = "idle" \/ Finished(q)
    /\ \A w \in adrift : w.landed

PromotionConverges ==
    \A r \in Promotions \ FaultyPromotions :
        promo[r].pc = "published" /\ Alone(r) /\ tags[TargetVersion(r)] = Target(r)
            ~> promo[r].pc = "succeeded" \/ ~Alone(r)
=============================================================================

------------------------- MODULE WebUIPromotionProofs -------------------------
(***************************************************************************)
(* The moving WebUI tags move as admitted, for any number of carriers,     *)
(* promotions and previews.                                                *)
(***************************************************************************)
EXTENDS WebUIPromotion, TLAPS

Images == Promotions \cup {NoImage}

Stages ==
    {"idle", "version", "version_read", "record", "published", "stable", "latest",
     "admitted", "tag", "observe", "children", "pointers", "succeeded", "failed"}

PromotionRecords ==
    [pc : Stages, stable : Images, latest : Images, todo : SUBSET MovingTags]

TagWrites == [tag : TagNames, image : Promotions, landed : BOOLEAN]

(* The types of the tags, of the runs and of the writes that outlived them.*)
PromotionTyped ==
    /\ tags \in [TagNames -> Images]
    /\ promo \in [Promotions -> PromotionRecords]
    /\ adrift \subseteq TagWrites

(* The promotion group has one holder. *)
OnePromotes == \A q, r \in Promotions : Promoting(q) /\ Promoting(r) => q = r

(* The tags a run has still to move show what it was admitted against.     *)
StillAsAdmitted(r) ==
    /\ promo[r].todo \subseteq PromotionTags(r)
    /\ "stable" \in promo[r].todo => tags["stable"] = promo[r].stable
    /\ "latest" \in promo[r].todo => tags["latest"] = promo[r].latest

AdmissionHolds ==
    adrift = {} => \A r \in Promotions : promo[r].pc = "tag" => StillAsAdmitted(r)

IInv == PromotionTyped /\ OnePromotes /\ AdmissionHolds

(* One step of the system, as the property describes it. *)
Moves ==
    \A t \in MovingTags : tags'[t] # tags[t] =>
       \/ adrift # {}
       \/ \E r \in Promotions : /\ promo[r].pc = "tag" /\ t \in PromotionTags(r)
                                /\ tags[t] = promo[r][t] /\ tags'[t] = Target(r)
-----------------------------------------------------------------------------
(* Before the first run. *)
LEMMA IInvInit == WebUIInit => IInv
  BY DEF WebUIInit, IInv, PromotionTyped, Images, PromotionRecords, Stages, NotAsked,
     OnePromotes, Promoting, AdmissionHolds

(* The image a run promotes is one that was built. *)
LEMMA AdriftTyped ==
    ASSUME IInv, NEW r \in Promotions, NEW names \in SUBSET TagNames,
           NEW image \in Promotions, Adrift(names, image)
    PROVE  adrift \subseteq adrift' /\ adrift' \subseteq TagWrites
<1>1. \A t \in names : [tag |-> t, image |-> image, landed |-> FALSE] \in TagWrites
  BY DEF TagWrites
<1> QED
  BY <1>1 DEF IInv, PromotionTyped, Adrift

(* What a step of run r leaves: no run enters the tagging or the group.    *)
Quiet(r) ==
    /\ tags' = tags
    /\ promo' \in [Promotions -> PromotionRecords]
    /\ \A q \in Promotions \ {r} : promo'[q] = promo[q]
    /\ promo'[r].pc # "tag"
    /\ Promoting(r)' => Promoting(r)
    /\ adrift \subseteq adrift' /\ adrift' \subseteq TagWrites

LEMMA QuietKeepsIInv ==
    ASSUME IInv, NEW r \in Promotions, Quiet(r)
    PROVE  IInv' /\ Moves
<1>1. PromotionTyped'
  BY DEF IInv, PromotionTyped, Quiet
<1>2. \A q \in Promotions : Promoting(q)' => Promoting(q)
  BY DEF Quiet, Promoting
<1>3. OnePromotes'
  BY <1>2 DEF IInv, OnePromotes
<1>4. \A q \in Promotions : promo'[q].pc = "tag" => promo'[q] = promo[q]
  BY DEF Quiet
<1>5. adrift' = {} => adrift = {}
  BY DEF Quiet
<1>6. AdmissionHolds'
  BY <1>4, <1>5 DEF IInv, AdmissionHolds, StillAsAdmitted, PromotionTags, Quiet
<1>7. Moves
  BY DEF Moves, Quiet
<1> QED
  BY <1>1, <1>3, <1>6, <1>7 DEF IInv

(* Steps of the carrier and of the admission, and the reads of a promotion.*)
LEMMA ReadsAreQuiet ==
    ASSUME IInv, NEW r \in Promotions,
           \/ StartCarrier(r) \/ ReadVersion(r) \/ PublishRecord(r) \/ StartRecorded(r)
           \/ AdmitVersion(r) \/ AdmitStable(r) \/ AdmitLatest(r)
           \/ Observe(r) \/ ReadGraph(r) \/ ReadPointers(r) \/ LoseTags(r)
    PROVE  Quiet(r)
<1> USE DEF IInv, PromotionTyped, PromotionRecords, Stages, Quiet, Promoting, Turn,
        OnlyReads, Breaks
<1>1. tags["stable"] \in Images /\ tags["latest"] \in Images
  BY DEF TagNames, MovingTags
<1>2. CASE StartCarrier(r)
  BY <1>2 DEF StartCarrier
<1>3. CASE ReadVersion(r)
  BY <1>3 DEF ReadVersion
<1>4. CASE PublishRecord(r)
  BY <1>4 DEF PublishRecord
<1>5. CASE StartRecorded(r)
  BY <1>5 DEF StartRecorded
<1>6. CASE AdmitVersion(r)
  BY <1>6 DEF AdmitVersion
<1>7. CASE AdmitStable(r)
  BY <1>7, <1>1 DEF AdmitStable
<1>8. CASE AdmitLatest(r)
  BY <1>8, <1>1 DEF AdmitLatest
<1>9. CASE Observe(r)
  BY <1>9 DEF Observe
<1>10. CASE ReadGraph(r)
  BY <1>10 DEF ReadGraph
<1>11. CASE ReadPointers(r)
  BY <1>11 DEF ReadPointers
<1>12. CASE LoseTags(r)
  <2>1. PICK w \in SUBSET promo[r].todo : Adrift(w, Target(r))
    BY <1>12 DEF LoseTags
  <2>2. w \in SUBSET TagNames /\ Target(r) \in Promotions
    BY RecordsAssumption DEF TagNames, Target
  <2>3. adrift \subseteq adrift' /\ adrift' \subseteq TagWrites
    BY <2>1, <2>2, AdriftTyped
  <2> QED
    BY <1>12, <2>3 DEF LoseTags
<1> QED
  BY <1>2, <1>3, <1>4, <1>5, <1>6, <1>7, <1>8, <1>9, <1>10, <1>11, <1>12

(* A run's record stays one when its tags left to move and its stage change.*)
LEMMA UpdateTyped ==
    ASSUME NEW p \in [Promotions -> PromotionRecords], NEW r \in Promotions,
           NEW left \in SUBSET MovingTags, NEW next \in {"tag", "observe"}
    PROVE  [p EXCEPT ![r].todo = left, ![r].pc = next]
             \in [Promotions -> PromotionRecords]
  BY DEF PromotionRecords, Stages

(* A step that writes moves one tag; Decide enters the group when it is    *)
(* free, with both tags as admitted.                                       *)
LEMMA DecideKeepsIInv ==
    ASSUME IInv, NEW r \in Promotions, Decide(r)
    PROVE  IInv' /\ Moves
<1> USE DEF IInv, PromotionTyped, PromotionRecords, Stages, Turn, OnlyReads, Breaks
<1>1. \A q \in Promotions : ~Promoting(q)
  BY DEF Decide
<1>2. \A q \in Promotions \ {r} : promo'[q] = promo[q]
  BY DEF Decide
<1>3. PromotionTyped'
  BY DEF Decide, PromotionTags, MovingTags
<1>4. OnePromotes'
  BY <1>1, <1>2 DEF OnePromotes, Promoting
<1>5. \A q \in Promotions : promo'[q].pc = "tag" => q = r
  BY <1>1, <1>2 DEF Promoting
<1>6. promo'[r].pc = "tag" => /\ promo'[r].todo = PromotionTags(r)
                              /\ tags["stable"] = promo'[r].stable
                              /\ tags["latest"] = promo'[r].latest
  BY DEF Decide, AsAdmitted
<1>7. tags' = tags /\ adrift' = adrift
  BY DEF Decide
<1>8. AdmissionHolds'
  BY <1>5, <1>6, <1>7 DEF AdmissionHolds, StillAsAdmitted, PromotionTags
<1> QED
  BY <1>3, <1>4, <1>7, <1>8 DEF Moves

LEMMA WriteTagKeepsIInv ==
    ASSUME IInv, NEW r \in Promotions, WriteTag(r)
    PROVE  IInv' /\ Moves
<1> USE DEF IInv, PromotionTyped, PromotionRecords, Stages
<1>1. PICK t \in promo[r].todo :
        /\ tags' = [tags EXCEPT ![t] = Target(r)]
        /\ promo' = [promo EXCEPT ![r].todo = @ \ {t},
                       ![r].pc = IF promo[r].todo = {t} THEN "observe" ELSE "tag"]
  BY Zenon DEF WriteTag
<1>2. promo[r].pc = "tag" /\ adrift' = adrift /\ t \in MovingTags /\ t \in TagNames
  BY <1>1 DEF WriteTag, TagNames
<1>3. Target(r) \in Promotions
  BY RecordsAssumption DEF Target
<1>4. \A q \in Promotions \ {r} : promo'[q] = promo[q] /\ promo[q].pc # "tag"
  BY <1>1, <1>2 DEF OnePromotes, Promoting
<1>5. PromotionTyped'
  <2> DEFINE left == promo[r].todo \ {t}
             next == IF promo[r].todo = {t} THEN "observe" ELSE "tag"
  <2>1. tags' \in [TagNames -> Images]
    BY <1>1, <1>2, <1>3 DEF Images
  <2>2. left \in SUBSET MovingTags /\ next \in {"tag", "observe"}
    OBVIOUS
  <2>3. promo' = [promo EXCEPT ![r].todo = left, ![r].pc = next]
    BY <1>1
  <2> HIDE DEF left, next
  <2>4. promo' \in [Promotions -> PromotionRecords]
    BY <2>2, <2>3, UpdateTyped
  <2> QED
    BY <1>2, <2>1, <2>4
<1>6. OnePromotes'
  BY <1>1, <1>2, <1>4 DEF OnePromotes, Promoting
<1>7. AdmissionHolds'
  <2> SUFFICES ASSUME adrift' = {}, NEW q \in Promotions, promo'[q].pc = "tag"
               PROVE  StillAsAdmitted(q)'
    BY DEF AdmissionHolds
  <2>1. q = r
    BY <1>4
  <2>2. StillAsAdmitted(r)
    BY <1>2 DEF AdmissionHolds
  <2>3. /\ promo'[r].todo = promo[r].todo \ {t}
        /\ promo'[r].stable = promo[r].stable /\ promo'[r].latest = promo[r].latest
    BY <1>1
  <2>4. \A u \in TagNames \ {t} : tags'[u] = tags[u]
    BY <1>1
  <2>5. "stable" \in TagNames /\ "latest" \in TagNames
    BY DEF TagNames, MovingTags
  <2> QED
    BY <2>1, <2>2, <2>3, <2>4, <2>5 DEF StillAsAdmitted, PromotionTags
<1>8. Moves
  <2> SUFFICES ASSUME NEW u \in MovingTags, tags'[u] # tags[u], adrift = {}
               PROVE  /\ u \in PromotionTags(r) /\ tags[u] = promo[r][u]
                      /\ tags'[u] = Target(r)
    BY <1>2 DEF Moves
  <2>1. u = t /\ tags'[u] = Target(r)
    BY <1>1, <1>2 DEF TagNames
  <2>2. StillAsAdmitted(r)
    BY <1>2 DEF AdmissionHolds
  <2>3. CASE u = "stable"
    BY <2>1, <2>2, <2>3 DEF StillAsAdmitted
  <2>4. CASE u = "latest"
    BY <2>1, <2>2, <2>4 DEF StillAsAdmitted
  <2> QED
    BY <2>3, <2>4 DEF MovingTags
<1> QED
  BY <1>5, <1>6, <1>7, <1>8

(* A version tag is none of the two.                                       *)
LEMMA WriteVersionKeepsIInv ==
    ASSUME IInv, NEW r \in Promotions, WriteVersion(r)
    PROVE  IInv' /\ Moves
<1> USE DEF IInv, PromotionTyped, PromotionRecords, Stages, Turn
<1>1. \A q \in Promotions \ {r} : promo'[q] = promo[q]
  BY DEF WriteVersion
<1>2. promo'[r].pc = "version_read"
  BY DEF WriteVersion
<1>3. VersionOf[r] \notin MovingTags /\ VersionOf[r] \in TagNames
  BY VersionsAssumption DEF MovingTags, TagNames
<1>4. \A t \in MovingTags : tags'[t] = tags[t]
  BY <1>3 DEF WriteVersion, TagNames
<1>5. PromotionTyped'
  <2>1. adrift' \subseteq TagWrites
    BY <1>3, AdriftTyped DEF WriteVersion, Adrift, TagWrites
  <2> QED
    BY <1>3, <2>1 DEF WriteVersion, Images
<1>6. OnePromotes'
  BY <1>1, <1>2 DEF OnePromotes, Promoting
<1>7. adrift' = {} => adrift = {}
  BY DEF WriteVersion, Adrift
<1>8. AdmissionHolds'
  BY <1>1, <1>2, <1>4, <1>7 DEF AdmissionHolds, StillAsAdmitted, PromotionTags, MovingTags
<1> QED
  BY <1>4, <1>5, <1>6, <1>8 DEF Moves

(* A write that outlived its caller: from then on nothing is promised.     *)
LEMMA AdriftKeepsIInv ==
    ASSUME IInv, AdriftLands
    PROVE  IInv' /\ Moves
<1> USE DEF IInv, PromotionTyped
<1>1. PICK w \in adrift :
        /\ adrift' = (adrift \ {w}) \cup {[w EXCEPT !.landed = TRUE]}
        /\ tags' = [tags EXCEPT ![w.tag] = w.image] \/ UNCHANGED tags
        /\ UNCHANGED <<promo, records>>
  BY DEF AdriftLands
<1>2. adrift # {} /\ adrift' # {}
  BY <1>1
<1>3. w \in TagWrites /\ [w EXCEPT !.landed = TRUE] \in TagWrites
  BY DEF TagWrites
<1>4. adrift' \subseteq TagWrites
  BY <1>1, <1>3
<1>5. tags' \in [TagNames -> Images]
  BY <1>1, <1>3 DEF TagWrites, Images
<1> QED
  BY <1>1, <1>2, <1>4, <1>5 DEF OnePromotes, Promoting, AdmissionHolds, Moves

LEMMA NextIInv ==
    ASSUME IInv, [WebUINext]_webuiVars
    PROVE  IInv' /\ Moves
<1>1. CASE UNCHANGED webuiVars
  BY <1>1 DEF webuiVars, IInv, PromotionTyped, OnePromotes, Promoting, AdmissionHolds,
     StillAsAdmitted, PromotionTags, Moves
<1>2. CASE AdriftLands
  BY <1>2, AdriftKeepsIInv
<1>3. ASSUME NEW r \in Promotions, PromotionStep(r) PROVE IInv' /\ Moves
  <2>1. CASE WriteVersion(r)
    BY <2>1, WriteVersionKeepsIInv
  <2>2. CASE Decide(r)
    BY <2>2, DecideKeepsIInv
  <2>3. CASE WriteTag(r)
    BY <2>3, WriteTagKeepsIInv
  <2>4. CASE ~(WriteVersion(r) \/ Decide(r) \/ WriteTag(r))
    <3>1. Quiet(r)
      BY <1>3, <2>4, ReadsAreQuiet DEF PromotionStep
    <3> QED
      BY <3>1, QuietKeepsIInv
  <2> QED
    BY <2>1, <2>2, <2>3, <2>4
<1> QED
  BY <1>1, <1>2, <1>3 DEF WebUINext

(* Stable and Latest only move from what the moving run was admitted       *)
(* against (decideWebuiStablePromotion), whatever number of carriers,      *)
(* promotions and previews run, fail and die, as long as no write outlived *)
(* its caller.                                                             *)
THEOREM TagsMoveOnlyAsAdmitted == WebUISpec => TagsMoveAsAdmitted
<1>1. IInv /\ [WebUINext]_webuiVars => IInv' /\ Moves
  BY NextIInv
<1> QED
  BY <1>1, IInvInit, PTL DEF WebUISpec, TagsMoveAsAdmitted, Moves
=============================================================================

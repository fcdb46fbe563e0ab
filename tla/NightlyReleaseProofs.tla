------------------------- MODULE NightlyReleaseProofs -------------------------
(***************************************************************************)
(* Latest moves as admitted, for any number of activations and with the    *)
(* Nightly publications around them, as long as the concurrency group      *)
(* keeps the activations apart.  And the tag of the Nightly release, for   *)
(* any number of publications, requests given up and activations: it stays *)
(* with a public release, and goes with a publication that failed plainly. *)
(***************************************************************************)
EXTENDS NightlyRelease, FiniteSetTheorems, TLAPS

Tags == {FirstLatest} \cup {TagOf[a] : a \in Activations}

ActivationRecords ==
    [pc : {"idle", "admitted", "idempotent", "patch", "drift", "readback",
           "stopped", "complete", "unknown"},
     expected : Tags]

(* The types of the pointer and of its activations. *)
PointerTyped ==
    /\ latest \in Tags
    /\ act \in [Activations -> ActivationRecords]
    /\ stray \in [Activations -> {"none", "open", "landed"}]

(* The group has one holder. *)
OneHolds == \A a, b \in Activations : Holding(a) /\ Holding(b) => a = b

Orderly == \A a \in Activations : stray[a] = "none"

(* What an activation compared still holds when it patches: without a      *)
(* stray PATCH only the holder of the group moves Latest.                  *)
ComparisonHolds ==
    Orderly => \A a \in Activations : act[a].pc = "patch" => act[a].expected = latest

IInv == PointerTyped /\ OneHolds /\ ComparisonHolds

(* One step of the system, as the property describes it. *)
Moves ==
    latest' # latest =>
       \/ \E a \in Activations : stray[a] # "none"
       \/ \E a \in Activations : /\ act[a].pc = "patch" /\ act[a].expected = latest
                                 /\ latest' = TagOf[a]
-----------------------------------------------------------------------------
(* Before the first activation. *)
LEMMA IInvInit == NightInit => IInv
  BY DEF NightInit, LatestInit, IInv, PointerTyped, ActivationRecords, Tags, OneHolds, Holding,
     ComparisonHolds, Orderly

(* One step of one activation keeps the types, with or without the group.  *)
LEMMA ActivationTyped ==
    ASSUME PointerTyped, NEW a \in Activations, ActivationStep(a)
    PROVE  PointerTyped'
<1> USE DEF PointerTyped, ActivationRecords, Tags, Step
<1>1. CASE AdmitActivation(a)
  BY <1>1 DEF AdmitActivation
<1>2. CASE CompareLatest(a)
  BY <1>2 DEF CompareLatest
<1>3. CASE PatchLatest(a)
  BY <1>3 DEF PatchLatest
<1>4. CASE ReadLatest(a)
  BY <1>4 DEF ReadLatest
<1>5. CASE StrayLands(a)
  BY <1>5 DEF StrayLands
<1> QED
  BY <1>1, <1>2, <1>3, <1>4, <1>5 DEF ActivationStep

(* One step of one activation. *)
LEMMA ActivationKeepsIInv ==
    ASSUME HoldsGroup, IInv, NEW a \in Activations, ActivationStep(a)
    PROVE  IInv' /\ Moves
<1> USE DEF IInv, PointerTyped, ActivationRecords, Tags, Step
<1>1. CASE AdmitActivation(a)
  <2>1. PointerTyped'
    BY ActivationTyped
  <2>2. OneHolds' /\ ComparisonHolds' /\ Moves
    BY <1>1 DEF AdmitActivation, OneHolds, Holding, ComparisonHolds, Orderly, Moves
  <2> QED
    BY <2>1, <2>2
<1>2. CASE CompareLatest(a)
  <2>1. PointerTyped'
    BY ActivationTyped
  <2>2. \A b \in Activations : ~Holding(b)
    BY <1>2 DEF CompareLatest
  <2>3. OneHolds' /\ ComparisonHolds' /\ Moves
    BY <1>2, <2>2 DEF CompareLatest, OneHolds, Holding, ComparisonHolds, Orderly, Moves
  <2> QED
    BY <2>1, <2>3
<1>3. CASE PatchLatest(a)
  <2>1. PointerTyped'
    BY ActivationTyped
  <2>2. \A b \in Activations : b # a => ~Holding(b)
    BY <1>3 DEF PatchLatest, OneHolds, Holding
  <2>3. act'[a].pc # "patch" /\ \A b \in Activations : b # a => act'[b] = act[b]
    BY <1>3 DEF PatchLatest
  <2>4. OneHolds'
    BY <2>2, <2>3 DEF OneHolds, Holding
  <2>5. \A b \in Activations : act'[b].pc # "patch"
    BY <2>2, <2>3 DEF Holding
  <2>6. ComparisonHolds' /\ Moves
    BY <1>3, <2>5 DEF PatchLatest, ComparisonHolds, Orderly, Moves
  <2> QED
    BY <2>1, <2>4, <2>6
<1>4. CASE ReadLatest(a)
  <2>1. PointerTyped'
    BY ActivationTyped
  <2>2. OneHolds' /\ ComparisonHolds' /\ Moves
    BY <1>4 DEF ReadLatest, OneHolds, Holding, ComparisonHolds, Orderly, Moves
  <2> QED
    BY <2>1, <2>2
<1>5. CASE StrayLands(a)
  <2>1. PointerTyped'
    BY ActivationTyped
  <2>2. stray[a] # "none" /\ stray'[a] # "none"
    BY <1>5 DEF StrayLands
  <2>3. OneHolds' /\ ComparisonHolds' /\ Moves
    BY <1>5, <2>2 DEF StrayLands, OneHolds, Holding, ComparisonHolds, Orderly, Moves
  <2> QED
    BY <2>1, <2>3
<1> QED
  BY <1>1, <1>2, <1>3, <1>4, <1>5 DEF ActivationStep

(* One step of the system: a Nightly publication leaves Latest alone.      *)
LEMMA NextIInv ==
    ASSUME HoldsGroup, IInv, [NightNext]_nightVars
    PROVE  IInv' /\ Moves
<1>1. CASE UNCHANGED latestVars
  BY <1>1 DEF latestVars, IInv, PointerTyped, OneHolds, Holding, ComparisonHolds, Orderly, Moves
<1>2. CASE \E a \in Activations : ActivationStep(a)
  BY <1>2, ActivationKeepsIInv
<1> QED
  BY <1>1, <1>2 DEF NightNext, nightVars, latestVars

(* No update of Latest is lost (activateLatestCas, :40-83): whatever the   *)
(* number of activations and of Nightly publications, Latest only moves    *)
(* from the tag the moving activation was admitted against, if the group   *)
(* holds and no PATCH is astray.                                           *)
THEOREM MovesAsAdmitted ==
    ASSUME HoldsGroup PROVE NightSpec => LatestMovesAsAdmitted
<1>1. IInv /\ [NightNext]_nightVars => IInv' /\ Moves
  BY NextIInv
<1> QED
  BY <1>1, IInvInit, PTL DEF NightSpec, LatestMovesAsAdmitted, Moves
-----------------------------------------------------------------------------
NightPlaces ==
    {"idle", "tag", "tag_read", "draft", "draft_read", "assets", "asset_read",
     "publish_read", "compare", "undo", "delete", "delete_read", "unreserve",
     "tag_check", "untag", "untag_read", "published", "failed", "dead"}
NightRecords ==
    [pc : NightPlaces, id : Nat, before : Tags, todo : SUBSET NightlyFiles,
     reserved : BOOLEAN, owned : BOOLEAN, created : BOOLEAN,
     absent : BOOLEAN, missed : BOOLEAN, errors : BOOLEAN]
Releases == [id : Nat, by : Publishers, public : BOOLEAN, files : SUBSET NightlyFiles]
NightRequests ==
    {q \in [op : {"tag", "untag", "draft", "upload", "publish", "delete"}, p : Publishers,
            id : Nat, file : NightlyFiles \cup {""}] :
        q.op = "upload" => q.file \in NightlyFiles}
Created == {q \in Publishers : night[q].created}

NightTyped ==
    /\ nightTag \in {"absent", "app"}
    /\ drafts \subseteq Releases
    /\ night \in [Publishers -> NightRecords]
    /\ astray \subseteq [q : NightRequests, landed : BOOLEAN]
    /\ IsFiniteSet(astray) /\ IsFiniteSet(Created)

(* One publication at a time.                                              *)
Awake(p) == night[p].pc \notin NightOver
OneAwake == \A p, q \in Publishers : Awake(p) /\ Awake(q) => p = q

(* What an invocation has asked for by the place it has come to.           *)
Ladder(p) ==
    /\ night[p].created => night[p].owned
    /\ night[p].owned => night[p].reserved
    /\ night[p].pc = "idle" => ~night[p].reserved
    /\ night[p].pc = "tag" => ~night[p].owned
    /\ night[p].pc = "tag_read" => night[p].reserved /\ ~night[p].owned
    /\ night[p].pc = "draft" => night[p].owned
    /\ night[p].pc \in {"tag_check", "untag", "untag_read"} => night[p].reserved
    /\ night[p].pc \in {"untag", "untag_read"} => night[p].absent
    /\ night[p].absent => night[p].pc \in {"tag_check", "untag", "untag_read", "failed", "dead"}

UntaggersAreDone ==
    \A m \in astray :
        m.q.op = "untag" => night[m.q.p].pc \in {"untag_read", "failed", "dead"}

(* At most one request was given up.                                       *)
OneAstray == \A m, n \in astray : m.q = n.q

(* The tag is only about to go when no release, or a late draft, is there. *)
TagIsFree(p) ==
    night[p].pc \in {"tag_check", "untag"} /\ night[p].absent =>
        Publics = {} /\ (drafts = {} \/ \E m \in astray : m.q.op = "draft")

(* While a request to delete the tag is astray nobody begins a release.    *)
LateUntagIsHarmless ==
    \A m \in astray :
        m.q.op = "untag" /\ ~m.landed =>
            /\ drafts = {} /\ nightTag = "app"
            /\ \A p \in Publishers : night[p].pc \in NightOver \cup {"untag_read"}

TagSafe ==
    /\ Publics # {} => nightTag = "app"
    /\ \A p \in Publishers : TagIsFree(p)
    /\ LateUntagIsHarmless

(* With no request given up, what is there was seen to be there.           *)
Traced(p) ==
    /\ night[p].pc = "tag" => drafts = {}
    /\ Awake(p) /\ night[p].reserved /\ ~night[p].created => drafts = {}
    /\ night[p].pc \in {"tag_check", "untag", "untag_read"} /\ night[p].absent => drafts = {}
    /\ night[p].pc = "tag_check" /\ ~night[p].missed /\ ~night[p].absent => drafts # {}
    /\ night[p].pc = "untag" => nightTag = "app"
Traces ==
    /\ \A r \in drafts : night[r.by].created
    /\ \A p \in Publishers : Traced(p)

NightInv ==
    /\ PointerTyped /\ NightTyped /\ OneAwake /\ UntaggersAreDone
    /\ \A p \in Publishers : Ladder(p)
    /\ OneAstray => TagSafe
    /\ astray = {} => Traces
-----------------------------------------------------------------------------
(* Before the first publication.                                           *)
LEMMA NightStart == NightInit => NightInv
  <1> SUFFICES ASSUME NightInit PROVE NightInv
    OBVIOUS
  <1>1. PointerTyped
    BY IInvInit DEF IInv
  <1>2. /\ nightTag = "absent" /\ drafts = {} /\ astray = {}
        /\ night = [p \in Publishers |-> Asleep]
    BY DEF NightInit
  <1>3. Asleep \in NightRecords
    BY DEF Asleep, NightRecords, NightPlaces, Tags
  <1>4. \A p \in Publishers : night[p] = Asleep
    BY <1>2
  <1>5. Created = {}
    BY <1>4 DEF Created, Asleep
  <1>6. NightTyped
    BY <1>2, <1>3, <1>5, FS_EmptySet DEF NightTyped
  <1>7. OneAwake /\ UntaggersAreDone
    BY <1>2, <1>4 DEF OneAwake, Awake, UntaggersAreDone, Asleep, NightOver
  <1>8. \A p \in Publishers : Ladder(p) /\ TagIsFree(p) /\ Traced(p)
    BY <1>4 DEF Ladder, TagIsFree, Traced, Awake, Asleep, NightOver
  <1>9. TagSafe /\ Traces
    BY <1>2, <1>8 DEF TagSafe, Traces, Publics, LateUntagIsHarmless
  <1> QED
    BY <1>1, <1>6, <1>7, <1>8, <1>9 DEF NightInv

(* What a request does when it is carried out.                             *)
LEMMA CarriedOut ==
  ASSUME NightTyped, NEW q \in NightRequests, CarryOut(q)
  PROVE  /\ nightTag' \in {"absent", "app"} /\ drafts' \subseteq Releases
         /\ q.op # "draft" /\ drafts = {} => drafts' = {}
         /\ q.op \in {"tag", "untag"} => drafts' = drafts
         /\ q.op # "publish" /\ Publics = {} => Publics' = {}
         /\ q.op # "untag" /\ (Publics # {} => nightTag = "app")
              => (Publics' # {} => nightTag' = "app")
         /\ q.op # "untag" /\ nightTag = "app" => nightTag' = "app"
         /\ \A r \in drafts' : \/ \E s \in drafts : s.by = r.by
                               \/ q.op = "draft" /\ r.by = q.p
  <1>1. q.op \in {"tag", "untag", "draft", "upload", "publish", "delete"}
        /\ q.p \in Publishers /\ q.id \in Nat
    BY DEF NightRequests
  <1>2. drafts \subseteq Releases /\ nightTag \in {"absent", "app"}
    BY DEF NightTyped
  <1>3. CASE q.op = "tag"
    BY <1>2, <1>3 DEF CarryOut, Publics
  <1>4. CASE q.op = "untag"
    BY <1>2, <1>4 DEF CarryOut, Publics
  <1>5. CASE q.op = "draft"
    <2> DEFINE new == [id |-> q.id, by |-> q.p, public |-> FALSE, files |-> {}]
    <2>1. drafts' = drafts \cup {new} /\ nightTag' = nightTag
      BY <1>5 DEF CarryOut
    <2>2. new \in Releases /\ new.by = q.p /\ ~new.public
      BY <1>1 DEF Releases
    <2> HIDE DEF new
    <2> QED
      BY <1>2, <1>5, <2>1, <2>2 DEF Publics
  <1>6. CASE q.op = "upload"
    <2> DEFINE with(r) == IF r.id = q.id THEN [r EXCEPT !.files = @ \cup {q.file}] ELSE r
    <2>1. drafts' = {with(r) : r \in drafts} /\ nightTag' = nightTag
      BY <1>6 DEF CarryOut
    <2>2. q.file \in NightlyFiles
      BY <1>6 DEF NightRequests
    <2>3. \A r \in Releases : /\ with(r) \in Releases
                              /\ with(r).by = r.by /\ with(r).public = r.public
      BY <2>2 DEF Releases
    <2> HIDE DEF with
    <2> QED
      BY <1>2, <1>6, <2>1, <2>3 DEF Publics
  <1>7. CASE q.op = "publish"
    <2> DEFINE shown(r) == IF r.id = q.id THEN [r EXCEPT !.public = TRUE] ELSE r
    <2>1. drafts' = {shown(r) : r \in drafts}
          /\ nightTag' = IF ById(q.id) = {} THEN nightTag ELSE "app"
      BY <1>7 DEF CarryOut
    <2>2. \A r \in Releases : /\ shown(r) \in Releases /\ shown(r).by = r.by
                              /\ r.id # q.id => shown(r) = r
      BY DEF Releases
    <2>3. CASE ById(q.id) = {}
      <3>1. \A r \in drafts : r.id # q.id
        BY <2>3 DEF ById
      <3> HIDE DEF shown
      <3>2. drafts' = drafts
        BY <1>2, <2>1, <2>2, <3>1
      <3> QED
        BY <1>2, <1>7, <2>1, <2>3, <3>2 DEF Publics
    <2>4. CASE ById(q.id) # {}
      <3> HIDE DEF shown
      <3> QED
        BY <1>2, <1>7, <2>1, <2>2, <2>4
    <2> QED
      BY <2>3, <2>4
  <1>8. CASE q.op = "delete"
    BY <1>2, <1>8 DEF CarryOut, Publics, ById
  <1> QED
    BY <1>1, <1>3, <1>4, <1>5, <1>6, <1>7, <1>8

(* A request that is made is carried out, given up, or neither.            *)
LEMMA Requested ==
  ASSUME NightTyped, NEW p \in Publishers, NEW q \in NightRequests, Mutate(p, q)
  PROVE  /\ nightTag' \in {"absent", "app"} /\ drafts' \subseteq Releases
         /\ astray' \subseteq [q : NightRequests, landed : BOOLEAN] /\ IsFiniteSet(astray')
         /\ astray \subseteq astray'
         /\ astray' \subseteq astray \cup {[q |-> q, landed |-> FALSE]}
         /\ CarryOut(q) \/ UNCHANGED <<nightTag, drafts>>
  <1>1. CASE CarryOut(q) /\ UNCHANGED astray
    BY <1>1, CarriedOut DEF NightTyped
  <1>2. CASE UNCHANGED <<nightTag, drafts, astray>>
    BY <1>2 DEF NightTyped
  <1>3. CASE /\ astray' = astray \cup {[q |-> q, landed |-> FALSE]}
             /\ UNCHANGED <<nightTag, drafts>>
    <2>1. IsFiniteSet(astray')
      BY <1>3, FS_AddElement DEF NightTyped
    <2>2. [q |-> q, landed |-> FALSE] \in [q : NightRequests, landed : BOOLEAN]
      OBVIOUS
    <2> QED
      BY <1>3, <2>1, <2>2 DEF NightTyped
  <1> QED
    BY <1>1, <1>2, <1>3 DEF Mutate

(* One invocation writes its own record.                                   *)
Turn(p, new) ==
    /\ new \in NightRecords
    /\ night' = [night EXCEPT ![p] = new]

(* Such a step keeps the records typed and the others' as they are.        *)
LEMMA Turned ==
  ASSUME NightTyped, NEW p \in Publishers, NEW new, Turn(p, new)
  PROVE  /\ night' \in [Publishers -> NightRecords] /\ night'[p] = new
         /\ \A q \in Publishers : q # p => night'[q] = night[q]
         /\ IsFiniteSet(Created')
  <1>1. /\ night' \in [Publishers -> NightRecords] /\ night'[p] = new
        /\ \A q \in Publishers : q # p => night'[q] = night[q]
    BY DEF NightTyped, Turn
  <1>2. Created' \subseteq Created \cup {p}
    BY <1>1 DEF Created
  <1>3. IsFiniteSet(Created \cup {p})
    BY FS_AddElement DEF NightTyped
  <1> QED
    BY <1>1, <1>2, <1>3, FS_Subset

(* The next release id is a number.                                        *)
LEMMA IdsTyped == NightTyped => NewId \in Nat
  BY FS_CardinalityType DEF NightTyped, NewId, Created

(* What an invocation looks up by the tag is one of the releases.          *)
LEMMA TagLookup == ByTag \subseteq drafts /\ Publics \subseteq drafts
  BY DEF ByTag, Publics

(* The file at hand is one of the Nightly files.                           *)
LEMMA FileAtHand ==
  ASSUME NightTyped, NEW p \in Publishers, night[p].todo # {}
  PROVE  (CHOOSE f \in night[p].todo : TRUE) \in NightlyFiles
  BY DEF NightTyped, NightRecords

(* The steps that only read, up to the first failure.                      *)
ReadsForward(p) ==
    \/ StartNight(p) \/ TagReadback(p) \/ DraftReadback(p) \/ AssetReadback(p)
    \/ PublishReadback(p) \/ CompareNight(p)
(* The steps of the clean-up that only read, and the death.                *)
ReadsBack(p) ==
    \/ FindDraft(p) \/ DeletedReadback(p) \/ ConfirmAbsent(p) \/ JudgeTag(p)
    \/ UntagReadback(p) \/ NightDies(p)
Writes(p) ==
    \/ CreateTag(p) \/ CreateDraft(p) \/ UploadNight(p) \/ PublishNight(p)
    \/ DeleteDraft(p) \/ DeleteTag(p)

(* Every action of an invocation is one of these.                          *)
LEMMA NightActs ==
  ASSUME NEW p, NightAct(p)
  PROVE  ReadsForward(p) \/ ReadsBack(p) \/ Writes(p)
  BY DEF NightAct, ReadsForward, ReadsBack, Writes

(* What a read on the way forward writes down.                             *)
LEMMA ForwardTurns ==
  ASSUME PointerTyped, NightTyped, NEW p \in Publishers, ReadsForward(p)
  PROVE  \E new : Turn(p, new) /\ NoWrite
  <1>1. night \in [Publishers -> NightRecords] /\ latest \in Tags /\ drafts \subseteq Releases
    BY DEF NightTyped, PointerTyped
  <1>2. night[p] \in NightRecords
    BY <1>1
  <1>3. ASSUME NEW pc \in NightPlaces, Goes(p, pc)
        PROVE  \E new : Turn(p, new)
    <2>1. Turn(p, [night[p] EXCEPT !.pc = pc])
      BY <1>1, <1>2, <1>3 DEF Goes, Turn, NightRecords
    <2> QED
      BY <2>1
  <1>4. \A r \in drafts : r.id \in Nat /\ r.files \subseteq NightlyFiles
    BY <1>1 DEF Releases
  <1>5. CASE StartNight(p)
    <2>1. CASE night' = [night EXCEPT ![p].before = latest,
                         ![p].pc = IF nightTag = "absent" THEN "tag" ELSE "failed"]
      <3>1. Turn(p, [night[p] EXCEPT !.before = latest,
                       !.pc = IF nightTag = "absent" THEN "tag" ELSE "failed"])
        BY <1>1, <1>2, <2>1 DEF Turn, NightRecords, NightPlaces
      <3> QED
        BY <1>5, <3>1 DEF StartNight
    <2>2. CASE \E r \in ByTag :
                night' = [night EXCEPT ![p].before = latest, ![p].id = r.id,
                            ![p].todo = NightlyFiles \ r.files,
                            ![p].pc = IF ~r.public THEN "assets"
                                      ELSE IF r.files = NightlyFiles THEN "compare" ELSE "failed"]
      <3>1. PICK r \in drafts :
                night' = [night EXCEPT ![p].before = latest, ![p].id = r.id,
                            ![p].todo = NightlyFiles \ r.files,
                            ![p].pc = IF ~r.public THEN "assets"
                                      ELSE IF r.files = NightlyFiles THEN "compare" ELSE "failed"]
        BY <2>2, TagLookup
      <3>2. Turn(p, [night[p] EXCEPT !.before = latest, !.id = r.id,
                       !.todo = NightlyFiles \ r.files,
                       !.pc = IF ~r.public THEN "assets"
                              ELSE IF r.files = NightlyFiles THEN "compare" ELSE "failed"])
        BY <1>1, <1>2, <1>4, <3>1 DEF Turn, NightRecords, NightPlaces
      <3> QED
        BY <1>5, <3>2 DEF StartNight
    <2>3. CASE Goes(p, "failed")
      BY <1>3, <1>5, <2>3 DEF StartNight, NightPlaces
    <2> QED
      BY <1>5, <2>1, <2>2, <2>3 DEF StartNight, Blind
  <1>6. CASE TagReadback(p)
    <2>1. CASE night' = [night EXCEPT ![p].pc = "draft", ![p].owned = TRUE]
      <3>1. Turn(p, [night[p] EXCEPT !.pc = "draft", !.owned = TRUE])
        BY <1>1, <1>2, <2>1 DEF Turn, NightRecords, NightPlaces
      <3> QED
        BY <1>6, <3>1 DEF TagReadback
    <2> QED
      BY <1>3, <1>6, <2>1 DEF TagReadback, Blind, NightPlaces
  <1>7. CASE DraftReadback(p)
    <2>1. CASE \E r \in ByTag : night' = [night EXCEPT ![p].id = r.id, ![p].pc = "assets",
                                            ![p].todo = NightlyFiles \ r.files]
      <3>1. PICK r \in drafts : night' = [night EXCEPT ![p].id = r.id, ![p].pc = "assets",
                                            ![p].todo = NightlyFiles \ r.files]
        BY <2>1, TagLookup
      <3>2. Turn(p, [night[p] EXCEPT !.id = r.id, !.pc = "assets",
                       !.todo = NightlyFiles \ r.files])
        BY <1>1, <1>2, <1>4, <3>1 DEF Turn, NightRecords, NightPlaces
      <3> QED
        BY <1>7, <3>2 DEF DraftReadback
    <2> QED
      BY <1>3, <1>7, <2>1 DEF DraftReadback, Blind, NightPlaces
  <1>8. CASE AssetReadback(p)
    <2>1. CASE night' = [night EXCEPT ![p].pc = "assets",
                                      ![p].todo = NightlyFiles \ Files(night[p].id)]
      <3>1. Turn(p, [night[p] EXCEPT !.pc = "assets",
                       !.todo = NightlyFiles \ Files(night[p].id)])
        BY <1>1, <1>2, <2>1 DEF Turn, NightRecords, NightPlaces
      <3> QED
        BY <1>8, <3>1 DEF AssetReadback
    <2> QED
      BY <1>3, <1>8, <2>1 DEF AssetReadback, Blind, NightPlaces
  <1>9. CASE PublishReadback(p)
    BY <1>3, <1>9 DEF PublishReadback, Blind, NightPlaces
  <1>10. CASE CompareNight(p)
    BY <1>3, <1>10 DEF CompareNight, Blind, NightPlaces
  <1> QED
    BY <1>5, <1>6, <1>7, <1>8, <1>9, <1>10 DEF ReadsForward

(* What a read of the clean-up writes down.                                *)
LEMMA BackTurns ==
  ASSUME NightTyped, NEW p \in Publishers, ReadsBack(p)
  PROVE  \E new : Turn(p, new) /\ NoWrite
  <1>1. night \in [Publishers -> NightRecords] /\ drafts \subseteq Releases
    BY DEF NightTyped
  <1>2. night[p] \in NightRecords
    BY <1>1
  <1>3. ASSUME NEW pc \in NightPlaces, Goes(p, pc) \/ Complain(p, pc)
        PROVE  \E new : Turn(p, new)
    <2>1. CASE Goes(p, pc)
      <3>1. Turn(p, [night[p] EXCEPT !.pc = pc])
        BY <1>1, <1>2, <2>1 DEF Goes, Turn, NightRecords
      <3> QED
        BY <3>1
    <2>2. CASE Complain(p, pc)
      <3>1. Turn(p, [night[p] EXCEPT !.pc = pc, !.errors = TRUE])
        BY <1>1, <1>2, <2>2 DEF Complain, Turn, NightRecords
      <3> QED
        BY <3>1
    <2> QED
      BY <1>3, <2>1, <2>2
  <1>4. CASE FindDraft(p)
    <2>1. CASE \E r \in SafeDraft(p) : night' = [night EXCEPT ![p].pc = "delete", ![p].id = r.id]
      <3>1. PICK r \in drafts : night' = [night EXCEPT ![p].pc = "delete", ![p].id = r.id]
        BY <2>1, TagLookup DEF SafeDraft, ById
      <3>2. r.id \in Nat
        BY <1>1 DEF Releases
      <3>3. Turn(p, [night[p] EXCEPT !.pc = "delete", !.id = r.id])
        BY <1>1, <1>2, <3>1, <3>2 DEF Turn, NightRecords, NightPlaces
      <3> QED
        BY <1>4, <3>3 DEF FindDraft
    <2>2. CASE night' = [night EXCEPT ![p].pc = "unreserve", ![p].missed = TRUE]
      <3>1. Turn(p, [night[p] EXCEPT !.pc = "unreserve", !.missed = TRUE])
        BY <1>1, <1>2, <2>2 DEF Turn, NightRecords, NightPlaces
      <3> QED
        BY <1>4, <3>1 DEF FindDraft
    <2> QED
      BY <1>3, <1>4, <2>1, <2>2 DEF FindDraft, NightPlaces
  <1>5. CASE ConfirmAbsent(p)
    <2>1. CASE night' = [night EXCEPT ![p].pc = "tag_check", ![p].absent = (drafts = {})]
      <3>1. (drafts = {}) \in BOOLEAN
        OBVIOUS
      <3>2. Turn(p, [night[p] EXCEPT !.pc = "tag_check", !.absent = (drafts = {})])
        BY <1>1, <1>2, <2>1, <3>1 DEF Turn, NightRecords, NightPlaces
      <3> QED
        BY <1>5, <3>2 DEF ConfirmAbsent
    <2>2. CASE night' = [night EXCEPT ![p].pc = "tag_check", ![p].missed = TRUE]
      <3>1. Turn(p, [night[p] EXCEPT !.pc = "tag_check", !.missed = TRUE])
        BY <1>1, <1>2, <2>2 DEF Turn, NightRecords, NightPlaces
      <3> QED
        BY <1>5, <3>1 DEF ConfirmAbsent
    <2> QED
      BY <1>3, <1>5, <2>1, <2>2 DEF ConfirmAbsent, NightPlaces
  <1>6. CASE DeletedReadback(p)
    BY <1>3, <1>6 DEF DeletedReadback, NightPlaces
  <1>7. CASE JudgeTag(p)
    BY <1>3, <1>7 DEF JudgeTag, NightPlaces
  <1>8. CASE UntagReadback(p)
    BY <1>3, <1>8 DEF UntagReadback, NightPlaces
  <1>9. CASE NightDies(p)
    BY <1>3, <1>9 DEF NightDies, NightPlaces
  <1> QED
    BY <1>4, <1>5, <1>6, <1>7, <1>8, <1>9 DEF ReadsBack

(* What a write asks for, and what it writes down.                         *)
LEMMA WriteTurns ==
  ASSUME NightTyped, NEW p \in Publishers, Writes(p)
  PROVE  \E new : \E q \in NightRequests :
            /\ Turn(p, new) /\ Mutate(p, q) /\ q.p = p
            /\ q.op = "draft" => new.created
            /\ q.op = "untag" <=> night[p].pc = "untag"
  <1>1. night \in [Publishers -> NightRecords]
    BY DEF NightTyped
  <1>2. night[p] \in NightRecords
    BY <1>1
  <1>3. ASSUME NEW pc \in NightPlaces, Goes(p, pc)
        PROVE  Turn(p, [night[p] EXCEPT !.pc = pc])
    BY <1>1, <1>2, <1>3 DEF Goes, Turn, NightRecords
  <1>4. ASSUME NEW op \in {"tag", "untag", "draft", "publish", "delete"}, NEW i \in Nat
        PROVE  /\ Ask(p, op, i, "") \in NightRequests
               /\ Ask(p, op, i, "").p = p /\ Ask(p, op, i, "").op = op
    BY DEF Ask, NightRequests
  <1>5. night[p].id \in Nat
    BY <1>2 DEF NightRecords
  <1>6. CASE CreateTag(p)
    <2>1. Turn(p, [night[p] EXCEPT !.pc = "tag_read", !.reserved = TRUE])
      BY <1>1, <1>2, <1>6 DEF CreateTag, Turn, NightRecords, NightPlaces
    <2> QED
      BY <1>4, <1>6, <2>1 DEF CreateTag
  <1>7. CASE CreateDraft(p)
    <2> DEFINE new == [night[p] EXCEPT !.pc = "draft_read", !.created = TRUE]
    <2>1. Turn(p, new) /\ new.created
      BY <1>1, <1>2, <1>7 DEF CreateDraft, Turn, NightRecords, NightPlaces
    <2>2. NewId + 1 \in Nat
      BY IdsTyped
    <2> HIDE DEF new
    <2> QED
      BY <1>4, <1>7, <2>1, <2>2 DEF CreateDraft
  <1>8. CASE UploadNight(p)
    <2> DEFINE f == CHOOSE f \in night[p].todo : TRUE
    <2>1. f \in NightlyFiles
      BY <1>8, FileAtHand DEF UploadNight
    <2>2. Mutate(p, Ask(p, "upload", night[p].id, f)) /\ Goes(p, "asset_read")
      BY <1>8 DEF UploadNight
    <2> HIDE DEF f
    <2>3. Ask(p, "upload", night[p].id, f) \in NightRequests
      BY <1>5, <2>1 DEF Ask, NightRequests
    <2>4. Turn(p, [night[p] EXCEPT !.pc = "asset_read"])
      BY <1>3, <2>2 DEF NightPlaces
    <2> QED
      BY <1>8, <2>2, <2>3, <2>4 DEF Ask, UploadNight
  <1>9. CASE PublishNight(p)
    <2>1. Turn(p, [night[p] EXCEPT !.pc = "publish_read"])
      BY <1>3, <1>9 DEF PublishNight, NightPlaces
    <2> QED
      BY <1>4, <1>5, <1>9, <2>1 DEF PublishNight
  <1>10. CASE DeleteDraft(p)
    <2>1. Turn(p, [night[p] EXCEPT !.pc = "delete_read"])
      BY <1>3, <1>10 DEF DeleteDraft, NightPlaces
    <2> QED
      BY <1>4, <1>5, <1>10, <2>1 DEF DeleteDraft
  <1>11. CASE DeleteTag(p)
    <2>1. Turn(p, [night[p] EXCEPT !.pc = "untag_read"])
      BY <1>3, <1>11 DEF DeleteTag, NightPlaces
    <2> QED
      BY <1>4, <1>11, <2>1 DEF DeleteTag
  <1> QED
    BY <1>6, <1>7, <1>8, <1>9, <1>10, <1>11 DEF Writes

(* A step of an invocation keeps the types, and the others where they are. *)
LEMMA ActTyped ==
  ASSUME PointerTyped, NightTyped, NEW p \in Publishers, NightAct(p), UNCHANGED latestVars
  PROVE  /\ PointerTyped' /\ NightTyped' /\ night'[p] \in NightRecords
         /\ \A q \in Publishers : q # p => night'[q] = night[q]
  <1>1. PointerTyped'
    BY DEF PointerTyped, latestVars
  <1>2. CASE \E new : Turn(p, new) /\ NoWrite
    <2>1. PICK new : Turn(p, new) /\ NoWrite
      BY <1>2
    <2> QED
      BY <1>1, <2>1, Turned DEF Turn, NightTyped, NoWrite
  <1>3. CASE Writes(p)
    <2>1. PICK new : \E q \in NightRequests : Turn(p, new) /\ Mutate(p, q)
      BY <1>3, WriteTurns
    <2>2. PICK q \in NightRequests : Mutate(p, q)
      BY <2>1
    <2> QED
      BY <1>1, <2>1, <2>2, Turned, Requested DEF Turn, NightTyped
  <1> QED
    BY <1>2, <1>3, NightActs, ForwardTurns, BackTurns
-----------------------------------------------------------------------------
(* An invocation that acts is the one that is awake, or starts alone.      *)
LEMMA Alone ==
  ASSUME NightInv, NEW p \in Publishers, NightAct(p)
  PROVE  \A q \in Publishers : q # p => ~Awake(q)
  <1>1. CASE StartNight(p)
    BY <1>1 DEF StartNight, Awake
  <1>2. CASE ~StartNight(p)
    <2>1. Awake(p)
      BY <1>2 DEF NightAct, CreateTag, TagReadback, CreateDraft, DraftReadback, UploadNight,
         AssetReadback, PublishNight, PublishReadback, CompareNight, FindDraft, DeleteDraft,
         DeletedReadback, ConfirmAbsent, JudgeTag, DeleteTag, UntagReadback, NightDies,
         Awake, NightOver
    <2>2. OneAwake
      BY DEF NightInv
    <2> QED
      BY <2>1, <2>2 DEF OneAwake, Awake
  <1> QED
    BY <1>1, <1>2

(* The course of an invocation, around its reservation.                    *)
Course(p) ==
    /\ night[p].pc \in {"untag_read", "failed", "dead"}
         => night'[p].pc \in {"untag_read", "failed", "dead"}
    /\ night[p].pc \notin {"published", "failed", "dead"}
    /\ night'[p].pc = "tag" => night[p].pc = "idle" /\ drafts = {}
    /\ night[p].pc = "idle" /\ drafts = {} /\ nightTag = "app" => night'[p].pc = "failed"
    /\ night'[p].pc = "tag_check" => night[p].pc = "unreserve"
    /\ night'[p].pc = "untag" => night[p].pc = "tag_check"
    /\ night'[p].pc = "untag_read" => night[p].pc = "untag"
    /\ night'[p].reserved /\ ~night[p].reserved => night[p].pc = "tag"
    /\ night[p].created => night'[p].created

(* Where an invocation comes to, and what it has asked for by then.        *)
LEMMA LadderKept ==
  ASSUME NightInv, NEW p \in Publishers, NightAct(p)
  PROVE  Ladder(p)' /\ Course(p)
  <1>1. night \in [Publishers -> NightRecords] /\ night[p] \in NightRecords /\ Ladder(p)
    BY DEF NightInv, NightTyped
  <1> USE <1>1 DEF Ladder, Course, NightRecords
  <1>2. \A pc : Goes(p, pc) =>
          /\ night'[p].pc = pc /\ night'[p].reserved = night[p].reserved
          /\ night'[p].owned = night[p].owned /\ night'[p].created = night[p].created
          /\ night'[p].absent = night[p].absent
    BY DEF Goes
  <1>3. CASE StartNight(p)
    <2>1. CASE /\ drafts = {}
               /\ night' = [night EXCEPT ![p].before = latest,
                              ![p].pc = IF nightTag = "absent" THEN "tag" ELSE "failed"]
      <3>1. night'[p].pc = (IF nightTag = "absent" THEN "tag" ELSE "failed")
            /\ night'[p].reserved = night[p].reserved /\ night'[p].owned = night[p].owned
            /\ night'[p].created = night[p].created /\ night'[p].absent = night[p].absent
        BY <2>1
      <3>2. night[p].pc = "idle" /\ drafts = {}
        BY <1>3, <2>1 DEF StartNight
      <3> QED
        BY <3>1, <3>2
    <2>2. CASE \E r \in ByTag :
                night' = [night EXCEPT ![p].before = latest, ![p].id = r.id,
                            ![p].todo = NightlyFiles \ r.files,
                            ![p].pc = IF ~r.public THEN "assets"
                                      ELSE IF r.files = NightlyFiles THEN "compare" ELSE "failed"]
      <3>1. PICK r : night' = [night EXCEPT ![p].before = latest, ![p].id = r.id,
                            ![p].todo = NightlyFiles \ r.files,
                            ![p].pc = IF ~r.public THEN "assets"
                                      ELSE IF r.files = NightlyFiles THEN "compare" ELSE "failed"]
        BY <2>2
      <3> QED
        BY <1>3, <2>2, <3>1, TagLookup DEF StartNight
    <2>3. CASE Goes(p, "failed")
      BY <1>3, <2>3 DEF StartNight, Goes
    <2> QED
      BY <1>3, <2>1, <2>2, <2>3 DEF StartNight, Blind
  <1>4. CASE CreateTag(p)
    BY <1>4 DEF CreateTag
  <1>5. CASE TagReadback(p)
    BY <1>5 DEF TagReadback, Blind, Goes
  <1>6. CASE CreateDraft(p)
    BY <1>6 DEF CreateDraft
  <1>7. CASE DraftReadback(p)
    <2>1. CASE \E r \in ByTag : night' = [night EXCEPT ![p].id = r.id, ![p].pc = "assets",
                                            ![p].todo = NightlyFiles \ r.files]
      <3>1. PICK r : night' = [night EXCEPT ![p].id = r.id, ![p].pc = "assets",
                                            ![p].todo = NightlyFiles \ r.files]
        BY <2>1
      <3> QED
        BY <1>7, <3>1 DEF DraftReadback
    <2>2. CASE Goes(p, "undo")
      BY <1>7, <2>2 DEF DraftReadback, Goes
    <2> QED
      BY <1>7, <2>1, <2>2 DEF DraftReadback, Blind
  <1>8. CASE UploadNight(p) \/ PublishNight(p) \/ DeleteDraft(p)
    <2>1. \/ Goes(p, "asset_read") /\ night[p].pc = "assets"
          \/ Goes(p, "publish_read") /\ night[p].pc = "assets"
          \/ Goes(p, "delete_read") /\ night[p].pc = "delete"
      BY <1>8 DEF UploadNight, PublishNight, DeleteDraft
    <2> QED
      BY <1>2, <2>1
  <1>9. CASE AssetReadback(p)
    BY <1>9 DEF AssetReadback, Blind, Goes
  <1>10. CASE PublishReadback(p) \/ CompareNight(p)
    BY <1>10 DEF PublishReadback, CompareNight, Blind, Goes
  <1>11. CASE FindDraft(p)
    BY <1>11 DEF FindDraft, Goes
  <1>12. CASE DeletedReadback(p)
    BY <1>12 DEF DeletedReadback, Goes, Complain
  <1>13. CASE ConfirmAbsent(p)
    BY <1>13 DEF ConfirmAbsent, Goes
  <1>14. CASE JudgeTag(p)
    BY <1>14 DEF JudgeTag, Goes, Complain
  <1>15. CASE DeleteTag(p)
    BY <1>15 DEF DeleteTag, Goes
  <1>16. CASE UntagReadback(p)
    BY <1>16 DEF UntagReadback, Goes, Complain
  <1>17. CASE NightDies(p)
    BY <1>17 DEF NightDies, Goes, NightOver
  <1> QED
    BY <1>3, <1>4, <1>5, <1>6, <1>7, <1>8, <1>9, <1>10, <1>11, <1>12, <1>13, <1>14, <1>15,
       <1>16, <1>17 DEF NightAct

(* One is awake at most, and who asked to delete the tag has nothing to    *)
(* ask any more.                                                           *)
LEMMA ActOrdered ==
  ASSUME NightInv, NEW p \in Publishers, NightAct(p), UNCHANGED latestVars
  PROVE  /\ OneAwake' /\ UntaggersAreDone'
         /\ \A q \in Publishers : Ladder(q)'
  <1>1. \A q \in Publishers : q # p => night'[q] = night[q] /\ ~Awake(q)
    BY ActTyped, Alone DEF NightInv
  <1>2. OneAwake'
    BY <1>1 DEF OneAwake, Awake
  <1>3. \A q \in Publishers : Ladder(q)'
    BY <1>1, LadderKept DEF NightInv, Ladder, Course
  <1>4. ASSUME NEW m \in astray', m.q.op = "untag"
        PROVE  night'[m.q.p].pc \in {"untag_read", "failed", "dead"}
    <2>1. CASE m \in astray
      <3>1. m.q.p \in Publishers /\ night[m.q.p].pc \in {"untag_read", "failed", "dead"}
        BY <1>4, <2>1 DEF NightInv, NightTyped, NightRequests, UntaggersAreDone
      <3> QED
        BY <1>1, <3>1, LadderKept DEF Course
    <2>2. CASE m \notin astray
      <3>1. ~NoWrite
        BY <2>2 DEF NoWrite
      <3>2. Writes(p)
        BY <3>1, NightActs, ForwardTurns, BackTurns DEF NightInv
      <3>3. PICK new : \E q \in NightRequests :
                /\ Turn(p, new) /\ Mutate(p, q) /\ q.p = p
                /\ q.op = "untag" <=> night[p].pc = "untag"
        BY <3>2, WriteTurns DEF NightInv
      <3>4. PICK q \in NightRequests :
                Mutate(p, q) /\ q.p = p /\ (q.op = "untag" <=> night[p].pc = "untag")
        BY <3>3
      <3>5. m = [q |-> q, landed |-> FALSE]
        BY <2>2, <3>4, Requested DEF NightInv
      <3>6. night[p].pc = "untag" /\ m.q.p = p
        BY <1>4, <3>4, <3>5
      <3>7. DeleteTag(p)
        BY <3>2, <3>6 DEF Writes, CreateTag, CreateDraft, UploadNight, PublishNight, DeleteDraft
      <3> QED
        BY <3>6, <3>7 DEF DeleteTag, Goes, NightInv, NightTyped, NightRecords
    <2> QED
      BY <2>1, <2>2
  <1> QED
    BY <1>2, <1>3, <1>4 DEF UntaggersAreDone

(* What an act leaves of the releases, the tag and the requests astray.    *)
LEMMA ActWrites ==
  ASSUME NightInv, NEW p \in Publishers, NightAct(p)
  PROVE  \/ NoWrite
         \/ \E q \in NightRequests :
              /\ Writes(p) /\ Mutate(p, q) /\ q.p = p
              /\ q.op = "draft" => night'[p].created
              /\ q.op = "untag" <=> night[p].pc = "untag"
  <1>1. CASE Writes(p)
    <2>1. PICK new : \E q \in NightRequests :
              /\ Turn(p, new) /\ Mutate(p, q) /\ q.p = p
              /\ q.op = "draft" => new.created
              /\ q.op = "untag" <=> night[p].pc = "untag"
      BY <1>1, WriteTurns DEF NightInv
    <2>2. night'[p] = new
      BY <2>1, Turned DEF NightInv
    <2> QED
      BY <1>1, <2>1, <2>2
  <1> QED
    BY <1>1, NightActs, ForwardTurns, BackTurns DEF NightInv

(* An invocation that goes to delete the tag saw no release, or knew of    *)
(* none before.                                                            *)
LEMMA TowardsTheTag ==
  ASSUME NightInv, NEW p \in Publishers, NightAct(p),
         night'[p].pc \in {"tag_check", "untag"}
  PROVE  /\ NoWrite
         /\ night'[p].pc = "tag_check" /\ night'[p].absent => drafts = {}
         /\ night'[p].pc = "tag_check" /\ ~night'[p].absent /\ ~night'[p].missed => drafts # {}
         /\ night'[p].pc = "untag" =>
              night[p].pc = "tag_check" /\ night[p].absent /\ nightTag = "app"
  <1>1. night \in [Publishers -> NightRecords] /\ night[p] \in NightRecords
        /\ Ladder(p) /\ Ladder(p)' /\ Course(p)
    BY LadderKept DEF NightInv, NightTyped
  <1>2. CASE night'[p].pc = "tag_check"
    <2>1. night[p].pc = "unreserve" /\ ~night[p].absent
      BY <1>1, <1>2 DEF Ladder, Course
    <2>2. ConfirmAbsent(p) \/ NightDies(p)
      BY <2>1 DEF NightAct, StartNight, CreateTag, TagReadback, CreateDraft, DraftReadback,
         UploadNight, AssetReadback, PublishNight, PublishReadback, CompareNight, FindDraft,
         DeleteDraft, DeletedReadback, JudgeTag, DeleteTag, UntagReadback
    <2>3. ~NightDies(p)
      BY <1>1, <1>2 DEF NightDies, Goes, NightRecords
    <2>4. CASE night' = [night EXCEPT ![p].pc = "tag_check", ![p].absent = (drafts = {})]
      <3>1. night'[p].absent = (drafts = {})
        BY <1>1, <2>4 DEF NightRecords
      <3> QED
        BY <1>2, <2>2, <2>3, <3>1 DEF ConfirmAbsent
    <2>5. CASE night' = [night EXCEPT ![p].pc = "tag_check", ![p].missed = TRUE]
      <3>1. night'[p].absent = night[p].absent /\ night'[p].missed = TRUE
        BY <1>1, <2>5 DEF NightRecords
      <3> QED
        BY <1>2, <2>1, <2>2, <2>3, <3>1 DEF ConfirmAbsent
    <2>6. ~Goes(p, "failed")
      BY <1>1, <1>2 DEF Goes, NightRecords
    <2> QED
      BY <2>2, <2>3, <2>4, <2>5, <2>6 DEF ConfirmAbsent
  <1>3. CASE night'[p].pc = "untag"
    <2>1. night[p].pc = "tag_check"
      BY <1>1, <1>3 DEF Course
    <2>2. JudgeTag(p) \/ NightDies(p)
      BY <2>1 DEF NightAct, StartNight, CreateTag, TagReadback, CreateDraft, DraftReadback,
         UploadNight, AssetReadback, PublishNight, PublishReadback, CompareNight, FindDraft,
         DeleteDraft, DeletedReadback, ConfirmAbsent, DeleteTag, UntagReadback
    <2>3. ~NightDies(p)
      BY <1>1, <1>3 DEF NightDies, Goes, NightRecords
    <2>4. night[p].absent /\ nightTag = "app" /\ NoWrite
      BY <1>1, <1>3, <2>2, <2>3 DEF JudgeTag, Goes, Complain, NightRecords
    <2> QED
      BY <1>3, <2>1, <2>4
  <1> QED
    BY <1>2, <1>3

(* An act keeps the tag safe, as long as one request at most was given up. *)
LEMMA ActSafe ==
  ASSUME NightInv, NEW p \in Publishers, NightAct(p), UNCHANGED latestVars, OneAstray'
  PROVE  TagSafe'
  <1>1. \A q \in Publishers : q # p => night'[q] = night[q] /\ ~Awake(q)
    BY ActTyped, Alone DEF NightInv
  <1>2. Ladder(p) /\ Course(p) /\ Ladder(p)'
    BY LadderKept DEF NightInv
  <1>3. ASSUME NEW q \in Publishers, TagIsFree(p)' PROVE TagIsFree(q)'
    BY <1>1, <1>3 DEF TagIsFree, Awake, NightOver
  <1>4. CASE NoWrite
    <2>1. UNCHANGED <<nightTag, drafts, astray>> /\ OneAstray /\ TagSafe
      BY <1>4 DEF NoWrite, OneAstray, NightInv
    <2>2. (Publics # {} => nightTag = "app")'
      BY <2>1 DEF TagSafe, Publics
    <2>3. TagIsFree(p)'
      BY <2>1, TowardsTheTag DEF TagSafe, TagIsFree, Publics
    <2>4. ASSUME NEW m \in astray, m.q.op = "untag", ~m.landed
          PROVE  /\ drafts = {} /\ nightTag = "app"
                 /\ night'[p].pc \in NightOver \cup {"untag_read"}
                 /\ \A q \in Publishers : night[q].pc \in NightOver \cup {"untag_read"}
      <3>1. /\ drafts = {} /\ nightTag = "app"
            /\ \A q \in Publishers : night[q].pc \in NightOver \cup {"untag_read"}
        BY <2>1, <2>4 DEF TagSafe, LateUntagIsHarmless
      <3>2. night'[p].pc \in NightOver \cup {"untag_read"}
        BY <1>2, <3>1 DEF Course, NightOver
      <3> QED
        BY <3>1, <3>2
    <2>5. LateUntagIsHarmless'
      BY <1>1, <2>1, <2>4 DEF LateUntagIsHarmless
    <2> QED
      BY <1>3, <2>2, <2>3, <2>5 DEF TagSafe
  <1>5. ASSUME NEW q \in NightRequests, Writes(p), Mutate(p, q), q.p = p,
               q.op = "draft" => night'[p].created,
               q.op = "untag" <=> night[p].pc = "untag"
        PROVE  TagSafe'
    <2>1. /\ astray \subseteq astray' /\ astray' \subseteq astray \cup {[q |-> q, landed |-> FALSE]}
          /\ CarryOut(q) \/ UNCHANGED <<nightTag, drafts>>
      BY <1>5, Requested DEF NightInv
    <2>2. OneAstray /\ TagSafe
      BY <2>1 DEF OneAstray, NightInv
    <2>3. (Publics # {} => nightTag = "app")'
      <3>1. CASE UNCHANGED <<nightTag, drafts>>
        BY <2>2, <3>1 DEF TagSafe, Publics
      <3>2. CASE CarryOut(q) /\ q.op # "untag"
        BY <1>5, <2>2, <3>2, CarriedOut DEF TagSafe, NightInv
      <3>3. CASE CarryOut(q) /\ q.op = "untag"
        <4>1. Publics = {}
          BY <1>2, <1>5, <2>2, <3>3 DEF Ladder, TagSafe, TagIsFree
        <4> QED
          BY <1>5, <3>3, <4>1, CarriedOut DEF NightInv
      <3> QED
        BY <2>1, <3>1, <3>2, <3>3
    <2>4. ~(night'[p].pc \in {"tag_check", "untag"})
      BY <1>2, <1>5 DEF Course, Writes, CreateTag, CreateDraft, UploadNight, PublishNight,
         DeleteDraft, DeleteTag
    <2>5. TagIsFree(p)'
      BY <2>4 DEF TagIsFree
    <2>6. ASSUME NEW m \in astray', m.q.op = "untag", ~m.landed
          PROVE  /\ drafts' = {} /\ nightTag' = "app"
                 /\ \A s \in Publishers : night'[s].pc \in NightOver \cup {"untag_read"}
      <3>1. CASE m \in astray
        <4>1. night[p].pc \in NightOver \cup {"untag_read"}
          BY <2>2, <2>6, <3>1 DEF TagSafe, LateUntagIsHarmless
        <4> QED
          BY <1>5, <4>1 DEF Writes, CreateTag, CreateDraft, UploadNight, PublishNight,
             DeleteDraft, DeleteTag, NightOver
      <3>2. CASE m \notin astray
        <4>1. m = [q |-> q, landed |-> FALSE] /\ q.op = "untag" /\ night[p].pc = "untag"
          BY <1>5, <2>1, <2>6, <3>2
        <4>2. astray = {}
          <5>1. SUFFICES ASSUME NEW n \in astray PROVE FALSE
            OBVIOUS
          <5>2. n.q = q
            BY <2>1, <4>1 DEF OneAstray
          <5> QED
            BY <1>5, <4>1, <5>2 DEF NightInv, UntaggersAreDone
        <4>3. drafts = {} /\ nightTag = "app"
          BY <1>2, <4>1, <4>2 DEF NightInv, Traces, Traced, Ladder
        <4>4. UNCHANGED <<nightTag, drafts>>
          BY <1>5, <3>2 DEF Mutate
        <4>5. night'[p].pc \in NightOver \cup {"untag_read"}
          <5>1. DeleteTag(p)
            BY <1>5, <4>1 DEF Writes, CreateTag, CreateDraft, UploadNight, PublishNight,
               DeleteDraft
          <5> QED
            BY <5>1 DEF DeleteTag, Goes, NightInv, NightTyped, NightRecords
        <4> QED
          BY <1>1, <4>3, <4>4, <4>5 DEF Awake
      <3> QED
        BY <3>1, <3>2
    <2> QED
      BY <1>3, <2>3, <2>5, <2>6 DEF TagSafe, LateUntagIsHarmless
  <1> QED
    BY <1>4, <1>5, ActWrites

(* With no request given up, an act leaves traces of what it did.          *)
LEMMA ActTraced ==
  ASSUME NightInv, NEW p \in Publishers, NightAct(p), UNCHANGED latestVars, astray' = {}
  PROVE  Traces'
  <1>1. \A q \in Publishers : q # p => night'[q] = night[q] /\ ~Awake(q)
    BY ActTyped, Alone DEF NightInv
  <1>2. Ladder(p) /\ Course(p) /\ Ladder(p)'
    BY LadderKept DEF NightInv
  <1>3. astray = {} /\ drafts \subseteq Releases
    BY ActWrites, Requested DEF NightInv, NightTyped, NoWrite
  <1>4. Traces
    BY <1>3 DEF NightInv
  <1>5. \A q \in Publishers : night[q].created => night'[q].created
    BY <1>1, <1>2 DEF Course
  <1>6. (\A r \in drafts : night[r.by].created)'
    <2>1. CASE drafts' = drafts
      BY <1>3, <1>4, <1>5, <2>1 DEF Traces, Releases
    <2>2. ASSUME NEW q \in NightRequests, CarryOut(q), q.p = p,
                 q.op = "draft" => night'[p].created
          PROVE  (\A r \in drafts : night[r.by].created)'
      BY <1>3, <1>4, <1>5, <2>2, CarriedOut DEF Traces, Releases, NightInv
    <2> QED
      BY <2>1, <2>2, ActWrites, Requested DEF NoWrite, NightInv
  <1>7. drafts = {} => drafts' = {} \/ night'[p].created
    <2>1. ASSUME NEW q \in NightRequests, CarryOut(q), q.op = "draft" => night'[p].created,
                 drafts = {}
          PROVE  drafts' = {} \/ night'[p].created
      BY <2>1, CarriedOut DEF NightInv
    <2> QED
      BY <2>1, ActWrites, Requested DEF NoWrite, NightInv
  <1>8. Traced(p)'
    <2>1. night'[p].pc = "tag" => drafts' = {}
      <3>1. night'[p].pc = "tag" => drafts = {} /\ ~night'[p].created
        BY <1>2 DEF Course, Ladder
      <3> QED
        BY <1>7, <3>1
    <2>2. ASSUME night'[p].reserved, ~night'[p].created PROVE drafts' = {}
      <3>1. ~night[p].created
        BY <1>2, <2>2 DEF Course
      <3>2. CASE night[p].reserved
        <4>1. Awake(p)
          BY <1>2, <3>2 DEF Course, Ladder, Awake, NightOver
        <4> QED
          BY <1>4, <1>7, <2>2, <3>1, <3>2, <4>1 DEF Traces, Traced
      <3>3. CASE ~night[p].reserved
        <4>1. night[p].pc = "tag"
          BY <1>2, <2>2, <3>3 DEF Course
        <4> QED
          BY <1>4, <1>7, <2>2, <4>1 DEF Traces, Traced
      <3> QED
        BY <3>2, <3>3
    <2>3. CASE night'[p].pc \in {"tag_check", "untag"}
      BY <1>4, <2>2, <2>3, TowardsTheTag DEF Traced, Traces, NoWrite
    <2>4. CASE night'[p].pc = "untag_read"
      <3>1. night[p].pc = "untag" /\ night[p].absent
        BY <1>2, <2>4 DEF Course, Ladder
      <3>2. drafts = {}
        BY <1>4, <3>1 DEF Traces, Traced
      <3>3. ASSUME NEW q \in NightRequests, CarryOut(q), q.op = "untag" PROVE drafts' = drafts
        BY <3>3, CarriedOut DEF NightInv
      <3>4. drafts' = drafts
        BY <3>1, <3>3, ActWrites, Requested DEF NoWrite, NightInv
      <3> QED
        BY <2>2, <2>4, <3>2, <3>4 DEF Traced
    <2>5. CASE night'[p].pc \notin {"tag_check", "untag", "untag_read"}
      BY <2>1, <2>2, <2>5 DEF Traced
    <2> QED
      BY <2>3, <2>4, <2>5
  <1>9. ASSUME NEW q \in Publishers, q # p PROVE Traced(q)'
    BY <1>1, <1>9 DEF Traced, Awake, NightOver
  <1> QED
    BY <1>6, <1>8, <1>9 DEF Traces

(* A request that was given up is carried out, or is dropped.              *)
LEMMA LandedKeeps ==
  ASSUME NightInv, AstrayLands, UNCHANGED latestVars
  PROVE  NightInv'
  <1>1. PICK m \in astray :
            /\ ~m.landed /\ astray' = (astray \ {m}) \cup {[m EXCEPT !.landed = TRUE]}
            /\ CarryOut(m.q) \/ UNCHANGED <<nightTag, drafts>>
            /\ UNCHANGED night
    BY DEF AstrayLands
  <1> DEFINE done == [m EXCEPT !.landed = TRUE]
  <1>2. /\ m.q \in NightRequests /\ done \in [q : NightRequests, landed : BOOLEAN]
        /\ done.q = m.q /\ done.landed = TRUE
    BY DEF NightInv, NightTyped
  <1>3. done \in astray' /\ astray' \subseteq astray \cup {done} /\ m \notin astray'
    BY <1>1, <1>2
  <1>4. IsFiniteSet(astray')
    BY <1>1, FS_RemoveElement, FS_AddElement DEF NightInv, NightTyped
  <1> HIDE DEF done
  <1>5. PointerTyped' /\ NightTyped' /\ OneAwake' /\ UntaggersAreDone'
        /\ \A p \in Publishers : Ladder(p)'
    <2>1. PointerTyped' /\ OneAwake' /\ \A p \in Publishers : Ladder(p)'
      BY <1>1 DEF NightInv, PointerTyped, latestVars, OneAwake, Awake, Ladder
    <2>2. UntaggersAreDone'
      BY <1>1, <1>2, <1>3 DEF NightInv, UntaggersAreDone
    <2>3. Created' = Created
      BY <1>1 DEF Created
    <2>4. nightTag' \in {"absent", "app"} /\ drafts' \subseteq Releases
      BY <1>1, <1>2, CarriedOut DEF NightInv, NightTyped
    <2>5. astray' \subseteq [q : NightRequests, landed : BOOLEAN]
      BY <1>2, <1>3 DEF NightInv, NightTyped
    <2>6. NightTyped'
      BY <1>1, <1>4, <2>3, <2>4, <2>5 DEF NightInv, NightTyped
    <2> QED
      BY <2>1, <2>2, <2>6
  <1>6. ASSUME OneAstray' PROVE TagSafe'
    <2>1. \A n \in astray : n.q = m.q
      BY <1>1, <1>2, <1>3, <1>6 DEF OneAstray
    <2>2. OneAstray /\ TagSafe
      BY <2>1 DEF OneAstray, NightInv
    <2>3. CASE UNCHANGED <<nightTag, drafts>>
      <3>1. (Publics # {} => nightTag = "app")'
        BY <2>2, <2>3 DEF TagSafe, Publics
      <3>2. ASSUME NEW p \in Publishers PROVE TagIsFree(p)'
        BY <1>1, <1>2, <1>3, <2>1, <2>2, <2>3 DEF TagSafe, TagIsFree, Publics
      <3>3. LateUntagIsHarmless'
        BY <1>1, <1>2, <1>3, <2>2, <2>3 DEF TagSafe, LateUntagIsHarmless
      <3> QED
        BY <3>1, <3>2, <3>3 DEF TagSafe
    <2>4. CASE CarryOut(m.q)
      <3>1. (Publics # {} => nightTag = "app")'
        <4>1. CASE m.q.op # "untag"
          BY <1>2, <2>2, <2>4, <4>1, CarriedOut DEF TagSafe, NightInv
        <4>2. CASE m.q.op = "untag"
          <5>1. drafts = {}
            BY <1>1, <2>2, <4>2 DEF TagSafe, LateUntagIsHarmless
          <5>2. drafts' = {}
            BY <1>2, <2>4, <4>2, <5>1, CarriedOut DEF NightInv
          <5> QED
            BY <5>2 DEF Publics
        <4> QED
          BY <4>1, <4>2
      <3>2. ASSUME NEW p \in Publishers, night[p].pc \in {"tag_check", "untag"}, night[p].absent
            PROVE  Publics' = {} /\ (drafts' = {} \/ \E n \in astray' : n.q.op = "draft")
        <4>1. Publics = {} /\ (drafts = {} \/ \E n \in astray : n.q.op = "draft")
          BY <2>2, <3>2 DEF TagSafe, TagIsFree
        <4>2. CASE m.q.op = "draft"
          BY <1>2, <1>3, <2>4, <4>1, <4>2, CarriedOut DEF NightInv
        <4>3. CASE m.q.op # "draft"
          <5>1. drafts = {}
            BY <2>1, <4>1, <4>3
          <5>2. drafts' = {}
            BY <1>2, <2>4, <4>3, <5>1, CarriedOut DEF NightInv
          <5> QED
            BY <5>2 DEF Publics
        <4> QED
          BY <4>2, <4>3
      <3>3. \A p \in Publishers : TagIsFree(p)'
        BY <1>1, <3>2 DEF TagIsFree
      <3>4. ASSUME NEW n \in astray', n.q.op = "untag", ~n.landed PROVE FALSE
        <4>1. n \in astray /\ n # m
          BY <1>2, <1>3, <3>4
        <4>2. n.q = m.q /\ n.landed = FALSE /\ m.landed = FALSE
          BY <1>1, <2>1, <3>4, <4>1 DEF NightInv, NightTyped
        <4> QED
          BY <4>1, <4>2 DEF NightInv, NightTyped
      <3>5. LateUntagIsHarmless'
        BY <3>4 DEF LateUntagIsHarmless
      <3> QED
        BY <3>1, <3>3, <3>5 DEF TagSafe
    <2> QED
      BY <1>1, <2>3, <2>4
  <1> QED
    BY <1>3, <1>5, <1>6 DEF NightInv

(* Every step of the specification keeps the invariant.                    *)
LEMMA NightKeeps == NightInv /\ [NightNext]_nightVars => NightInv'
  <1> SUFFICES ASSUME NightInv, [NightNext]_nightVars PROVE NightInv'
    OBVIOUS
  <1>1. ASSUME NEW p \in Publishers, NightAct(p), UNCHANGED latestVars PROVE NightInv'
    BY <1>1, ActTyped, ActOrdered, ActSafe, ActTraced DEF NightInv
  <1>2. CASE AstrayLands /\ UNCHANGED latestVars
    BY <1>2, LandedKeeps
  <1>3. CASE UNCHANGED <<nightTag, drafts, night, astray>> /\ PointerTyped'
    <2>1. NightTyped' /\ OneAwake' /\ UntaggersAreDone' /\ \A p \in Publishers : Ladder(p)'
      BY <1>3 DEF NightInv, NightTyped, OneAwake, Awake, UntaggersAreDone, Ladder, Created
    <2>2. OneAstray' => TagSafe'
      BY <1>3 DEF NightInv, OneAstray, TagSafe, TagIsFree, LateUntagIsHarmless, Publics
    <2>3. astray' = {} => Traces'
      BY <1>3 DEF NightInv, Traces, Traced, Awake
    <2> QED
      BY <1>3, <2>1, <2>2, <2>3 DEF NightInv
  <1>4. CASE (\E a \in Activations : ActivationStep(a)) /\ UNCHANGED <<nightTag, drafts, night, astray>>
    BY <1>3, <1>4, ActivationTyped DEF NightInv
  <1>5. CASE UNCHANGED nightVars
    BY <1>3, <1>5 DEF nightVars, NightInv, PointerTyped
  <1> QED
    BY <1>1, <1>2, <1>4, <1>5 DEF NightNext

(* However the publications interleave with their late requests, the       *)
(* invariant above and with it the types hold.                             *)
THEOREM NightAlways == NightSpec => []NightInv
  BY NightStart, NightKeeps, PTL DEF NightSpec

(* A public Nightly release always has its tag: no clean-up takes it from  *)
(* under it (:637-667), whoever dies or cannot read, as long as no more    *)
(* than one request was carried out after its caller gave up.              *)
THEOREM TagStaysWithPublic == NightSpec => []PublicKeepsItsTag
  <1>1. ASSUME NightInv, Cardinality(astray) <= 1 PROVE OneAstray
    <2>1. IsFiniteSet(astray) /\ Cardinality(astray) \in Nat
      BY <1>1, FS_CardinalityType DEF NightInv, NightTyped
    <2>2. CASE Cardinality(astray) = 0
      BY <2>1, <2>2, FS_EmptySet DEF OneAstray
    <2>3. CASE Cardinality(astray) = 1
      BY <2>1, <2>3, FS_Singleton DEF OneAstray
    <2> QED
      BY <1>1, <2>1, <2>2, <2>3
  <1>2. NightInv => PublicKeepsItsTag
    BY <1>1 DEF NightInv, TagSafe, PublicKeepsItsTag
  <1> QED
    BY <1>2, NightAlways, PTL

(* An invocation that fails, as every publication that fails does, changes *)
(* nothing in the step that ends it; and it ends without a complaint at    *)
(* one of four places.                                                     *)
LEMMA FailsAtFour ==
  ASSUME NightInv, NEW p \in Publishers, NightAct(p),
         night'[p].pc = "failed", ~night'[p].errors
  PROVE  /\ NoWrite /\ night'[p].reserved = night[p].reserved
         /\ \/ night[p].pc = "idle"
            \/ night[p].pc = "unreserve" /\ ~night[p].reserved
            \/ night[p].pc = "tag_check" /\ ~OwnsTag(p) /\ night'[p].missed = night[p].missed
            \/ night[p].pc = "untag_read" /\ nightTag = "absent"
  <1>1. night \in [Publishers -> NightRecords] /\ night[p] \in NightRecords
    BY DEF NightInv, NightTyped
  <1>2. \A pc : Goes(p, pc) =>
          /\ night'[p].pc = pc /\ night'[p].reserved = night[p].reserved
          /\ night'[p].missed = night[p].missed
    BY <1>1 DEF Goes, NightRecords
  <1>3. \A pc : ~Complain(p, pc)
    BY <1>1 DEF Complain, NightRecords
  <1>4. CASE StartNight(p)
    <2>1. night[p].pc = "idle" /\ NoWrite
      BY <1>4 DEF StartNight
    <2>2. \A r : night' = [night EXCEPT ![p].before = latest, ![p].id = r.id,
                            ![p].todo = NightlyFiles \ r.files,
                            ![p].pc = IF ~r.public THEN "assets"
                                      ELSE IF r.files = NightlyFiles THEN "compare" ELSE "failed"]
                 => night'[p].reserved = night[p].reserved
      BY <1>1 DEF NightRecords
    <2>3. night' = [night EXCEPT ![p].before = latest,
                      ![p].pc = IF nightTag = "absent" THEN "tag" ELSE "failed"]
          => night'[p].reserved = night[p].reserved
      BY <1>1 DEF NightRecords
    <2>4. night'[p].reserved = night[p].reserved
      BY <1>2, <1>4, <2>2, <2>3 DEF StartNight, Blind
    <2> QED
      BY <2>1, <2>4
  <1>5. CASE ConfirmAbsent(p)
    <2>1. night[p].pc = "unreserve" /\ NoWrite /\ ~night[p].reserved /\ Goes(p, "failed")
      BY <1>1, <1>5 DEF ConfirmAbsent, NightRecords
    <2> QED
      BY <1>2, <2>1
  <1>6. CASE JudgeTag(p)
    <2>1. night[p].pc = "tag_check" /\ NoWrite
      BY <1>6 DEF JudgeTag
    <2>2. ~Goes(p, "untag")
      BY <1>2
    <2>3. ~OwnsTag(p) /\ Goes(p, "failed")
      BY <1>3, <1>6, <2>2 DEF JudgeTag
    <2> QED
      BY <1>2, <2>1, <2>3
  <1>7. CASE UntagReadback(p)
    <2>1. night[p].pc = "untag_read" /\ NoWrite /\ nightTag = "absent" /\ Goes(p, "failed")
      BY <1>3, <1>7 DEF UntagReadback
    <2> QED
      BY <1>2, <2>1
  <1>8. CASE ReadsForward(p) /\ ~StartNight(p)
    <2>1. \A r : night' = [night EXCEPT ![p].id = r.id, ![p].pc = "assets",
                                       ![p].todo = NightlyFiles \ r.files]
                 => night'[p].pc = "assets"
      BY <1>1 DEF NightRecords
    <2>2. CASE DraftReadback(p)
      <3>1. ~Goes(p, "undo")
        BY <1>2
      <3>2. \E r \in ByTag : night' = [night EXCEPT ![p].id = r.id, ![p].pc = "assets",
                                            ![p].todo = NightlyFiles \ r.files]
        BY <2>2, <3>1, Zenon DEF DraftReadback, Blind
      <3> QED
        BY <2>1, <3>2, Zenon
    <2>3. CASE TagReadback(p)
      BY <1>1, <1>2, <2>3 DEF TagReadback, Blind, NightRecords
    <2>4. CASE AssetReadback(p)
      BY <1>1, <1>2, <2>4 DEF AssetReadback, Blind, NightRecords
    <2>5. CASE PublishReadback(p) \/ CompareNight(p)
      BY <1>2, <2>5 DEF PublishReadback, CompareNight, Blind
    <2> QED
      BY <1>8, <2>2, <2>3, <2>4, <2>5 DEF ReadsForward
  <1>9. CASE FindDraft(p) \/ DeletedReadback(p) \/ NightDies(p)
    BY <1>1, <1>2, <1>9 DEF FindDraft, DeletedReadback, NightDies, Complain, NightRecords
  <1>10. CASE Writes(p)
    <2>1. CASE CreateTag(p) \/ CreateDraft(p)
      <3>1. night' = [night EXCEPT ![p].pc = "tag_read", ![p].reserved = TRUE]
            => night'[p].pc = "tag_read"
        BY <1>1 DEF NightRecords
      <3>2. night' = [night EXCEPT ![p].pc = "draft_read", ![p].created = TRUE]
            => night'[p].pc = "draft_read"
        BY <1>1 DEF NightRecords
      <3> QED
        BY <2>1, <3>1, <3>2 DEF CreateTag, CreateDraft
    <2>2. CASE UploadNight(p) \/ PublishNight(p) \/ DeleteDraft(p) \/ DeleteTag(p)
      BY <1>2, <2>2 DEF UploadNight, PublishNight, DeleteDraft, DeleteTag
    <2> QED
      BY <1>10, <2>1, <2>2 DEF Writes
  <1> QED
    BY <1>4, <1>5, <1>6, <1>7, <1>8, <1>9, <1>10, NightActs DEF ReadsForward, ReadsBack

(* What is left behind by an invocation that so ends, with no request      *)
(* given up: with no draft seen and the tag not its own, nothing.          *)
LEMMA LeftClean ==
  ASSUME NightInv, NEW p \in Publishers, NightAct(p), astray = {},
         night'[p].pc = "failed", ~night'[p].errors, ~night'[p].missed
  PROVE  /\ ~\E r \in drafts' : r.by = p
         /\ night'[p].reserved => nightTag' = "absent"
  <1>1. Ladder(p) /\ Traces /\ nightTag \in {"absent", "app"}
        /\ night[p] \in NightRecords
    BY DEF NightInv, NightTyped
  <1>2. drafts' = drafts /\ nightTag' = nightTag /\ night'[p].reserved = night[p].reserved
    BY FailsAtFour DEF NoWrite
  <1>3. CASE ~night[p].reserved
    BY <1>1, <1>2, <1>3 DEF Ladder, Traces
  <1>4. CASE night[p].pc = "idle"
    BY <1>1, <1>3, <1>4 DEF Ladder
  <1>5. CASE night[p].pc = "tag_check" /\ ~OwnsTag(p) /\ night'[p].missed = night[p].missed
    <2>1. night[p].reserved /\ ~night[p].owned /\ ~night[p].created /\ Awake(p)
      BY <1>1, <1>5 DEF Ladder, OwnsTag, Awake, NightOver, NightRecords
    <2>2. drafts = {}
      BY <1>1, <2>1 DEF Traces, Traced
    <2>3. night[p].absent
      BY <1>1, <1>5, <2>2 DEF Traces, Traced, NightRecords
    <2>4. nightTag = "absent"
      BY <1>1, <1>5, <2>3 DEF OwnsTag
    <2> QED
      BY <1>2, <2>2, <2>4
  <1>6. CASE night[p].pc = "untag_read" /\ nightTag = "absent"
    <2>1. drafts = {}
      BY <1>1, <1>6 DEF Ladder, Traces, Traced
    <2> QED
      BY <1>2, <1>6, <2>1
  <1> QED
    BY <1>3, <1>4, <1>5, <1>6, FailsAtFour

(* An invocation that fails and reports no clean-up error has left neither *)
(* the tag nor a release it made (:594-676), if its clean-up could read    *)
(* GitHub and no request was carried out after its caller gave up.         *)
THEOREM PlainFailuresAreClean == NightSpec => PlainFailureIsClean
  <1> DEFINE Clean ==
        \A p \in Publishers :
          /\ night[p].pc # "failed" /\ night'[p].pc = "failed"
          /\ ~night'[p].errors /\ ~night'[p].missed /\ astray = {}
          => /\ ~\E r \in drafts' : r.by = p
             /\ night'[p].reserved => nightTag' = "absent"
  <1>1. NightInv /\ [NightNext]_nightVars => [Clean]_nightVars
    <2> SUFFICES ASSUME NightInv, NightNext, NEW p \in Publishers,
                        night[p].pc # "failed", night'[p].pc = "failed",
                        ~night'[p].errors, ~night'[p].missed, astray = {}
                 PROVE  /\ ~\E r \in drafts' : r.by = p
                        /\ night'[p].reserved => nightTag' = "absent"
      OBVIOUS
    <2>1. PICK s \in Publishers : NightAct(s) /\ UNCHANGED latestVars
      BY DEF NightNext, AstrayLands
    <2>2. s = p
      BY <2>1, ActTyped DEF NightInv
    <2> QED
      BY <2>1, <2>2, LeftClean
  <1> QED
    BY <1>1, NightAlways, PTL DEF NightSpec, PlainFailureIsClean
=============================================================================

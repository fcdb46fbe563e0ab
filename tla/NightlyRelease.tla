---------------------------- MODULE NightlyRelease ----------------------------
(***************************************************************************)
(* publishNightlyRelease of scripts/nightly-release-publisher.ts: reserve  *)
(* the tag, create the draft, upload, publish, and, when anything fails,   *)
(* take back what this invocation made.  Publications of a tag run one at  *)
(* a time (group opl-standard-nightly); activations of Latest are in       *)
(* another group and go on meanwhile.                                      *)
(*                                                                         *)
(* A mutation and the reads that follow it are two steps.  Up to three     *)
(* reads are one: they all fail, or one shows what GitHub has.             *)
(***************************************************************************)
EXTENDS LatestPointer, Integers, FiniteSets

CONSTANTS
    Publishers,    \* invocations for one Nightly tag
    NightlyFiles,  \* the qualified assets
    FaultyNights,  \* invocations that may meet errors or die
    MaxAstray      \* bound: requests that may outlive their caller's patience

ASSUME MaxAstrayAssumption == MaxAstray \in Nat

VARIABLES
    nightTag,      \* refs/tags/<tag>: absent, or app (the frozen App SHA)
    drafts,        \* the releases of the tag: [id, by, public, files]
    night,         \* publisher -> its progress
    astray         \* mutations whose caller gave up: [q, landed]

nightVars == <<latest, act, stray, nightTag, drafts, night, astray>>

Asleep == [pc |-> "idle", id |-> 0, before |-> FirstLatest, todo |-> {},
           reserved |-> FALSE, owned |-> FALSE, created |-> FALSE,
           absent |-> FALSE, missed |-> FALSE, errors |-> FALSE]

NightInit ==
    /\ LatestInit
    /\ nightTag = "absent"
    /\ drafts = {}
    /\ night = [p \in Publishers |-> Asleep]
    /\ astray = {}

NightOver == {"idle", "published", "failed", "dead"}
Goes(p, pc) == night' = [night EXCEPT ![p].pc = pc]
NoWrite == UNCHANGED <<nightTag, drafts, astray>>

(* inspectRelease by tag: the public release, else the only draft; several *)
(* drafts make the read fail.  By id it is that release or nothing.        *)
Publics == {r \in drafts : r.public}
ByTag == IF Publics # {} THEN Publics ELSE drafts
Readable == Cardinality(ByTag) <= 1
ById(i) == {r \in drafts : r.id = i}
-----------------------------------------------------------------------------
(* GitHub: q = [op, p, id, file].                                          *)
Ask(p, op, i, f) == [op |-> op, p |-> p, id |-> i, file |-> f]
NewId == Cardinality({q \in Publishers : night[q].created})

CarryOut(q) ==
    CASE q.op = "tag" -> nightTag' = "app" /\ UNCHANGED drafts
      [] q.op = "untag" -> nightTag' = "absent" /\ UNCHANGED drafts
      [] q.op = "draft" ->
            /\ drafts' = drafts \cup {[id |-> q.id, by |-> q.p, public |-> FALSE, files |-> {}]}
            /\ UNCHANGED nightTag
      [] q.op = "upload" ->
            /\ drafts' = {IF r.id = q.id THEN [r EXCEPT !.files = @ \cup {q.file}] ELSE r : r \in drafts}
            /\ UNCHANGED nightTag
      [] q.op = "publish" ->
            /\ drafts' = {IF r.id = q.id THEN [r EXCEPT !.public = TRUE] ELSE r : r \in drafts}
            /\ nightTag' = IF ById(q.id) = {} THEN nightTag ELSE "app"
      [] q.op = "delete" -> drafts' = drafts \ ById(q.id) /\ UNCHANGED nightTag

(* Carried out; or an error, and it was, it was not, or it will be.        *)
Mutate(p, q) ==
    \/ CarryOut(q) /\ UNCHANGED astray
    \/ p \in FaultyNights /\ UNCHANGED <<nightTag, drafts, astray>>
    \/ /\ p \in FaultyNights /\ Cardinality(astray) < MaxAstray
       /\ astray' = astray \cup {[q |-> q, landed |-> FALSE]}
       /\ UNCHANGED <<nightTag, drafts>>

AstrayLands ==
    \E m \in astray :
        /\ ~m.landed
        /\ astray' = (astray \ {m}) \cup {[m EXCEPT !.landed = TRUE]}
        /\ CarryOut(m.q) \/ UNCHANGED <<nightTag, drafts>>
        /\ UNCHANGED night
-----------------------------------------------------------------------------
(* A read that cannot be made, three times over, ends the publication.     *)
Blind(p, pc) == p \in FaultyNights /\ Goes(p, pc)

Files(i) == UNION {r.files : r \in ById(i)}

StartNight(p) ==
    /\ night[p].pc = "idle"
    /\ \A q \in Publishers : night[q].pc \in NightOver
    /\ \/ /\ Readable /\ drafts = {}
          /\ night' = [night EXCEPT ![p].before = latest,
                         ![p].pc = IF nightTag = "absent" THEN "tag" ELSE "failed"]
       \/ /\ Readable
          /\ \E r \in ByTag :
                night' = [night EXCEPT ![p].before = latest, ![p].id = r.id,
                            ![p].todo = NightlyFiles \ r.files,
                            ![p].pc = IF ~r.public THEN "assets"
                                      ELSE IF r.files = NightlyFiles THEN "compare" ELSE "failed"]
       \/ ~Readable /\ Goes(p, "failed")
       \/ Blind(p, "failed")
    /\ NoWrite

(* tagReservationAttempted and creationAttempted are set before the call.  *)
CreateTag(p) ==
    /\ night[p].pc = "tag"
    /\ Mutate(p, Ask(p, "tag", 0, ""))
    /\ night' = [night EXCEPT ![p].pc = "tag_read", ![p].reserved = TRUE]

TagReadback(p) ==
    /\ night[p].pc = "tag_read"
    /\ \/ nightTag = "app" /\ night' = [night EXCEPT ![p].pc = "draft", ![p].owned = TRUE]
       \/ nightTag # "app" /\ Goes(p, "undo")
       \/ Blind(p, "undo")
    /\ NoWrite

CreateDraft(p) ==
    /\ night[p].pc = "draft"
    /\ Mutate(p, Ask(p, "draft", NewId + 1, ""))
    /\ night' = [night EXCEPT ![p].pc = "draft_read", ![p].created = TRUE]

DraftReadback(p) ==
    /\ night[p].pc = "draft_read"
    /\ \/ /\ Readable
          /\ \E r \in ByTag : night' = [night EXCEPT ![p].id = r.id, ![p].pc = "assets",
                                            ![p].todo = NightlyFiles \ r.files]
       \/ (drafts = {} \/ ~Readable) /\ Goes(p, "undo")
       \/ Blind(p, "undo")
    /\ NoWrite

UploadNight(p) ==
    /\ night[p].pc = "assets" /\ night[p].todo # {}
    /\ LET f == CHOOSE f \in night[p].todo : TRUE IN
       /\ Mutate(p, Ask(p, "upload", night[p].id, f))
       /\ Goes(p, "asset_read")

AssetReadback(p) ==
    /\ night[p].pc = "asset_read"
    /\ LET f == CHOOSE f \in night[p].todo : TRUE IN
       \/ f \in Files(night[p].id)
          /\ night' = [night EXCEPT ![p].pc = "assets", ![p].todo = NightlyFiles \ Files(night[p].id)]
       \/ f \notin Files(night[p].id) /\ Goes(p, "undo")
       \/ Blind(p, "undo")
    /\ NoWrite

PublishNight(p) ==
    /\ night[p].pc = "assets" /\ night[p].todo = {}
    /\ Mutate(p, Ask(p, "publish", night[p].id, ""))
    /\ Goes(p, "publish_read")

PublishReadback(p) ==
    /\ night[p].pc = "publish_read"
    /\ \/ \E r \in ById(night[p].id) : r.public /\ Goes(p, "compare")
       \/ (\A r \in ById(night[p].id) : ~r.public) /\ Goes(p, "undo")
       \/ Blind(p, "undo")
    /\ NoWrite

(* Latest must be what it was before the first step.                       *)
CompareNight(p) ==
    /\ night[p].pc = "compare"
    /\ \/ latest = night[p].before /\ Goes(p, "published")
       \/ latest # night[p].before /\ Goes(p, "undo")
       \/ Blind(p, "undo")
    /\ NoWrite
-----------------------------------------------------------------------------
(* The catch block.  A draft this invocation asked for is deleted if it is *)
(* found and is still a draft; what cannot be read is left, silently.      *)
SafeDraft(p) ==
    {r \in IF night[p].id # 0 THEN ById(night[p].id) ELSE IF Readable THEN ByTag ELSE {} : ~r.public}

FindDraft(p) ==
    /\ night[p].pc = "undo"
    /\ \/ /\ night[p].created
          /\ \E r \in SafeDraft(p) : night' = [night EXCEPT ![p].pc = "delete", ![p].id = r.id]
       \/ (night[p].created => SafeDraft(p) = {}) /\ Goes(p, "unreserve")
       \/ /\ night[p].created /\ p \in FaultyNights
          /\ night' = [night EXCEPT ![p].pc = "unreserve", ![p].missed = TRUE]
    /\ NoWrite

DeleteDraft(p) ==
    /\ night[p].pc = "delete"
    /\ Mutate(p, Ask(p, "delete", night[p].id, ""))
    /\ Goes(p, "delete_read")

Complain(p, pc) == night' = [night EXCEPT ![p].pc = pc, ![p].errors = TRUE]

DeletedReadback(p) ==
    /\ night[p].pc = "delete_read"
    /\ \/ ById(night[p].id) = {} /\ Goes(p, "unreserve")
       \/ ById(night[p].id) # {} /\ Complain(p, "unreserve")
       \/ p \in FaultyNights /\ Complain(p, "unreserve")
    /\ NoWrite

(* confirmAbsentThreeTimes: a read that fails counts as a release.         *)
ConfirmAbsent(p) ==
    /\ night[p].pc = "unreserve"
    /\ \/ ~night[p].reserved /\ Goes(p, "failed")
       \/ /\ night[p].reserved
          /\ \/ night' = [night EXCEPT ![p].pc = "tag_check", ![p].absent = (drafts = {})]
             \/ /\ p \in FaultyNights
                /\ night' = [night EXCEPT ![p].pc = "tag_check", ![p].missed = TRUE]
    /\ NoWrite

\* Bug for mutation: only a tag that was read back is taken back.
OwnsReadTag(p) == night[p].owned

(* The tag is this invocation's when it was read back, or when it is there *)
(* and no release is.                                                      *)
OwnsTag(p) == night[p].owned \/ (night[p].absent /\ nightTag = "app")

\* Bug for mutation: the tag is taken back whether or not it has a release.
JudgeBlindly(p) ==
    /\ night[p].pc = "tag_check"
    /\ Goes(p, IF OwnsTag(p) /\ nightTag = "app" THEN "untag" ELSE "failed")
    /\ NoWrite

JudgeTag(p) ==
    /\ night[p].pc = "tag_check"
    /\ \/ /\ IF ~OwnsTag(p) THEN Goes(p, "failed")
             ELSE IF night[p].absent /\ nightTag = "app" THEN Goes(p, "untag")
             ELSE Complain(p, "failed")
       \/ p \in FaultyNights /\ Complain(p, "failed")
    /\ NoWrite

DeleteTag(p) ==
    /\ night[p].pc = "untag"
    /\ Mutate(p, Ask(p, "untag", 0, ""))
    /\ Goes(p, "untag_read")

UntagReadback(p) ==
    /\ night[p].pc = "untag_read"
    /\ \/ nightTag = "absent" /\ Goes(p, "failed")
       \/ nightTag # "absent" /\ Complain(p, "failed")
       \/ p \in FaultyNights /\ Complain(p, "failed")
    /\ NoWrite

NightDies(p) ==
    /\ p \in FaultyNights
    /\ night[p].pc \notin NightOver
    /\ Goes(p, "dead")
    /\ NoWrite

NightAct(p) ==
    \/ StartNight(p) \/ CreateTag(p) \/ TagReadback(p) \/ CreateDraft(p) \/ DraftReadback(p)
    \/ UploadNight(p) \/ AssetReadback(p) \/ PublishNight(p) \/ PublishReadback(p)
    \/ CompareNight(p) \/ FindDraft(p) \/ DeleteDraft(p) \/ DeletedReadback(p)
    \/ ConfirmAbsent(p) \/ JudgeTag(p) \/ DeleteTag(p) \/ UntagReadback(p) \/ NightDies(p)

NightNext ==
    \/ (AstrayLands \/ \E p \in Publishers : NightAct(p)) /\ UNCHANGED latestVars
    \/ (\E a \in Activations : ActivationStep(a)) /\ UNCHANGED <<nightTag, drafts, night, astray>>

NightSpec == NightInit /\ [][NightNext]_nightVars
-----------------------------------------------------------------------------
(* A public Nightly release always has its tag: whatever was interrupted,  *)
(* no clean-up takes the tag from under it (:637-667), as long as no more  *)
(* than one request was carried out after its caller gave up.              *)
PublicKeepsItsTag == Cardinality(astray) <= 1 /\ Publics # {} => nightTag = "app"

(* An invocation that fails and reports no clean-up error has left neither *)
(* the tag nor a release it made (:594-676), if its clean-up could read    *)
(* GitHub and no request was carried out after its caller gave up.         *)
PlainFailureIsClean ==
    [][\A p \in Publishers :
         /\ night[p].pc # "failed" /\ night'[p].pc = "failed"
         /\ ~night'[p].errors /\ ~night'[p].missed /\ astray = {}
         => /\ ~\E r \in drafts' : r.by = p
            /\ night'[p].reserved => nightTag' = "absent"]_nightVars
=============================================================================

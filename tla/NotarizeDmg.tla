------------------------------ MODULE NotarizeDmg ------------------------------
(***************************************************************************)
(* One notarisation of a DMG: scripts/notarize-macos-dmg.ts, and the step  *)
(* of full-first-install-release.yml that seals a recovery checkpoint when *)
(* it failed. Apple decides about a submission in its own time; the tool   *)
(* may be killed between any two steps, and what the next operation knows  *)
(* is the receipt it wrote and the candidate it kept.                      *)
(***************************************************************************)
EXTENDS Naturals

CONSTANT MaxSigning   \* codesign attempts: 4, or 2 for a large DMG

ASSUME MaxSigningAssumption == MaxSigning \in Nat \ {0}

VARIABLES
    dmg,        \* the DMG at its path: unsigned, or stapled
    candidate,  \* the copy that is signed, submitted and stapled
    kept,       \* the file at --submitted-candidate-output
    apple,      \* Apple's side: no submission, open, accepted, rejected
    notary,     \* the tool: its stage and what it learned
    receipt,    \* the receipt on disk
    checkpoint  \* the sealed checkpoint

notaryVars == <<dmg, candidate, kept, apple, notary, receipt, checkpoint>>

\* sha256() writes plain hexadecimal digits; the seal writes sha256:<digits>.
PlainDigest(bytes) == <<"hex", bytes>>
SealedDigest(bytes) == <<"sha256:hex", bytes>>
NoDigest == <<"none", "none">>

Unwritten == [written |-> FALSE, passed |-> FALSE, id |-> FALSE, digest |-> NoDigest,
              retained |-> FALSE, advice |-> "none"]

NotaryInit ==
    /\ dmg = "unsigned" /\ candidate = "none"
    /\ kept \in {"none", "earlier"}
    /\ apple = "none"
    /\ notary = [stage |-> "sign", tries |-> 0, id |-> FALSE, digest |-> NoDigest]
    /\ receipt = Unwritten
    /\ checkpoint = "none"
-----------------------------------------------------------------------------
(* persist() writes what the tool knows at this point.                     *)
Persist(id, digest) ==
    receipt' = [receipt EXCEPT !.written = TRUE, !.id = id, !.digest = digest]

NotaryGoes(stage) == notary' = [notary EXCEPT !.stage = stage]

(* The catch: what a failure advises.                                      *)
Rejected(status) == status = "rejected"

\* Bug for mutation: only a missing id tells that Apple has no submission.
NeverUnknown(stage) == FALSE

OutcomeUnknown(stage) == stage = "submit"

Advice(id, status, stage) ==
    IF id THEN IF Rejected(status) THEN "new_operation" ELSE "reconcile_submission"
    ELSE IF OutcomeUnknown(stage) THEN "reconcile_history" ELSE "new_operation"

(* A failure with an id keeps the candidate if it is still there, writes   *)
(* its advice and drops the copy. A file in the way stops it before the    *)
(* receipt.                                                                *)
Retains == notary.id /\ candidate # "none"

Fails(stage, status, file) ==
    /\ candidate' = "none"
    /\ notary' = [notary EXCEPT !.stage = "failed"]
    /\ IF Retains /\ kept # "none"
       THEN UNCHANGED <<kept, receipt>>
       ELSE /\ kept' = IF Retains THEN file ELSE kept
            /\ receipt' = [receipt EXCEPT !.written = TRUE, !.id = notary.id,
                             !.digest = notary.digest, !.retained = Retains,
                             !.advice = Advice(notary.id, status, stage)]

\* PreflightFails, the embedded App and the timestamp probe change no file.
PreflightFails ==
    /\ notary.stage = "sign" /\ notary.tries = 0
    /\ Fails("sign", "none", candidate)
    /\ UNCHANGED <<dmg, apple, checkpoint>>

(* Each attempt signs a fresh copy; only a timeout is tried again.         *)
Sign ==
    /\ notary.stage = "sign" /\ notary.tries < MaxSigning
    /\ \/ /\ candidate' = "signed"
          /\ notary' = [notary EXCEPT !.stage = "submit", !.tries = @ + 1,
                        !.digest = PlainDigest("signed")]
          /\ Persist(FALSE, PlainDigest("signed"))
          /\ UNCHANGED kept
       \/ /\ notary.tries + 1 < MaxSigning /\ candidate' = "unsigned"
          /\ notary' = [notary EXCEPT !.tries = @ + 1]
          /\ Persist(FALSE, NoDigest)
          /\ UNCHANGED kept
       \/ Fails("sign", "none", candidate)
    /\ UNCHANGED <<dmg, apple, checkpoint>>

(* notarytool submit: an id, no submission at all, or one whose id was     *)
(* never read.                                                             *)
SubmitDmg ==
    /\ notary.stage = "submit"
    /\ \/ /\ apple' = "open"
          /\ notary' = [notary EXCEPT !.stage = "wait", !.id = TRUE]
          /\ Persist(TRUE, notary.digest)
          /\ UNCHANGED <<candidate, kept>>
       \/ apple' \in {"none", "open"} /\ Fails("submit", "none", candidate)
    /\ UNCHANGED <<dmg, checkpoint>>

AppleDecides ==
    /\ apple = "open" /\ apple' \in {"accepted", "rejected"}
    /\ UNCHANGED <<dmg, candidate, kept, notary, receipt, checkpoint>>

(* wait, then info every fifteen seconds until a final answer or the end   *)
(* of the observation window; an answer may be unreadable.                 *)
ReadAnswer ==
    /\ notary.stage = "wait"
    /\ CASE apple = "accepted" -> NotaryGoes("staple") /\ UNCHANGED <<candidate, kept, receipt>>
         [] apple = "rejected" -> Fails("wait", "rejected", candidate)
         [] apple = "open"     -> FALSE
    /\ UNCHANGED <<dmg, apple, checkpoint>>

WindowEnds ==
    /\ notary.stage = "wait"
    /\ Fails("wait", "unknown", candidate)
    /\ UNCHANGED <<dmg, apple, checkpoint>>

(* stapler writes into the candidate; the checks after it may still fail.  *)
Staple ==
    /\ notary.stage = "staple"
    /\ \/ candidate' = "stapled" /\ NotaryGoes("publish") /\ UNCHANGED <<kept, receipt>>
       \/ \E file \in {"signed", "stapled"} : Fails("staple", "accepted", file)
    /\ UNCHANGED <<dmg, apple, checkpoint>>

\* The DMG at its path is replaced before the receipt says that it passed.
Publish ==
    /\ notary.stage = "publish"
    /\ \/ /\ dmg' = candidate /\ candidate' = "none" /\ NotaryGoes("record")
          /\ UNCHANGED <<kept, receipt>>
       \/ Fails("publish", "accepted", candidate) /\ UNCHANGED dmg
    /\ UNCHANGED <<apple, checkpoint>>

RecordPassed ==
    /\ notary.stage = "record"
    /\ \/ /\ NotaryGoes("passed")
          /\ receipt' = [receipt EXCEPT !.passed = TRUE]
          /\ UNCHANGED <<candidate, kept>>
       \/ Fails("record", "accepted", candidate)
    /\ UNCHANGED <<dmg, apple, checkpoint>>

\* The receipt stays as it was last written, and the copy where it was.
Killed ==
    /\ notary.stage \notin {"passed", "failed", "killed"}
    /\ NotaryGoes("killed")
    /\ UNCHANGED <<dmg, candidate, kept, apple, receipt, checkpoint>>

(* The seal step: a checkpoint is recoverable if the receipt has an id and *)
(* the digest of the file that was kept.                                   *)
Bound == receipt.id /\ receipt.digest = SealedDigest(kept)

Seal ==
    /\ notary.stage \in {"failed", "killed"} /\ checkpoint = "none"
    /\ checkpoint' = IF kept # "none" /\ Bound THEN "recoverable" ELSE "diagnostic_only"
    /\ UNCHANGED <<dmg, candidate, kept, apple, notary, receipt>>

NotaryNext ==
    \/ PreflightFails \/ Sign \/ SubmitDmg \/ AppleDecides \/ ReadAnswer \/ WindowEnds
    \/ Staple \/ Publish \/ RecordPassed \/ Killed \/ Seal

NotarySpec == NotaryInit /\ [][NotaryNext]_notaryVars
-----------------------------------------------------------------------------
(* A receipt that advises a new operation was written when Apple held no   *)
(* submission of the candidate, or had refused it: nothing is submitted    *)
(* twice on the word of a receipt.                                         *)
AdviceIsSafe == receipt.advice = "new_operation" => apple \in {"none", "rejected"}

(* A checkpoint that holds exactly the submitted bytes and their           *)
(* submission id is one the same submission may be finished from.          *)
CheckpointIsRecoverable ==
    checkpoint # "none" /\ receipt.id /\ receipt.retained /\ kept = "signed"
      => checkpoint = "recoverable"
=============================================================================

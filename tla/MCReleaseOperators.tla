-------------------------- MODULE MCReleaseOperators --------------------------
(***************************************************************************)
(* The tools that operators and schedules run around a Stable release: the *)
(* dispatches, the Nightly release, the Latest pointer, the in-place edits *)
(* of a public release, the manual installer, the Docker WebUI tags, the   *)
(* Homebrew tap and the notarisation. Their states are disjoint, so each   *)
(* scene lets one group act and the others rest.                           *)
(***************************************************************************)
EXTENDS StableAssets, StableDispatch, NightlyRelease, ManualInstall, WebUIPromotion,
        HomebrewTap, NotarizeDmg

Cast == [append   |-> {"w1", "w2", "l1"},
         rival    |-> {"w1", "w3"},
         repair   |-> {"r1", "r2", "l1"},
         replace  |-> {"run", "op"},
         install  |-> {"i1", "i2"},
         shared   |-> {"w2", "run"},
         latest   |-> {"a1", "a2"},
         night    |-> {"p1", "p2", "a1"},
         dispatch |-> {"s1", "s2", "h1"},
         beside   |-> {"s1", "h1", "f1"},
         rebuild  |-> {"d1", "d2", "q1"},
         preview  |-> {"d1", "q1", "n1"},
         tap      |-> {"c1", "c2", "u1"},
         casks    |-> {"c1", "n8", "n9"},
         notary   |-> {}]

VARIABLE scene

mcVars == <<scene, stableVars, dispatchVars, nightVars, installVars, webuiVars,
            tapVars, notaryVars>>

MCSeed == [n \in {PublicName("dmg"), PublicName("zip"), PublicName("installer")} |-> {<<n[1], "old">>}]
MCPlatform == [j \in AppendJobs |-> IF j = "l1" THEN "linux" ELSE "windows"]
MCBuild == [j \in AppendJobs |-> IF j = "w3" THEN "b" ELSE "a"]
MCFilesOf == [p \in {"linux", "windows"} |-> IF p = "linux" THEN {"deb"} ELSE {"exe", "yml"}]
MCRepaired == [j \in RepairJobs |-> {<<"installer", j>>}]
MCVersion == [r \in {"run", "op"} |-> IF r = "run" THEN "n1" ELSE "n2"]
MCCommands == [r \in {"run", "op"} |->
                 IF r = "run" THEN <<"stage", "promote">> ELSE <<"stage", "promote", "promote">>]
MCProvenance == [app \in Installers \cup {First} |-> IF app = First THEN "before" ELSE "now"]
MCTagOf == [a \in Activations |-> IF a = "a1" THEN "v1" ELSE "v2"]
MCCarrierOf == [d \in Dispatches |->
                  IF d = "f1" THEN "source" ELSE IF d = "s2" THEN "cohort2" ELSE "cohort1"]

MCRecordOf == [r \in Promotions |-> IF r = "q1" THEN "d1" ELSE r]
MCVersionOf == [r \in Promotions |-> IF r = "n1" THEN "preview" ELSE "v1"]

MCCaskOf == [f \in TapFollowers |-> IF f = "u1" THEN "full"
                                   ELSE IF f \in {"n8", "n9"} THEN "nightly" ELSE "standard"]
MCSourceOf == [f \in TapFollowers |-> f]
MCReleaseOf == [f \in TapFollowers |-> 1]
MCReceiptBytes == [f \in TapFollowers |-> IF f = "n9" THEN 2 ELSE 1]

MCInit ==
    /\ scene \in DOMAIN Cast
    /\ StableInit /\ DispatchInit /\ NightInit /\ InstallInit /\ WebUIInit
    /\ TapInit /\ NotaryInit
    /\ scene # "notary" => kept = "none"

EditsRest == UNCHANGED stableVars
NightRests == UNCHANGED nightVars
WebUIRests == UNCHANGED webuiVars
NewsRest == UNCHANGED <<tapVars, notaryVars, installVars>>
DesksRest == UNCHANGED dispatchVars
OthersRest == EditsRest /\ NightRests /\ WebUIRests

AppendActs(j) ==
    /\ j \in Cast[scene] /\ UNCHANGED scene
    /\ JobStep(j) /\ UNCHANGED tool
    /\ DesksRest /\ NightRests /\ WebUIRests /\ NewsRest

EditsAct ==
    /\ scene \in {"append", "rival", "repair", "replace", "shared"} /\ UNCHANGED scene
    /\ \/ \E j \in GroupJobs \cap Cast[scene] : JobActs(j)
       \/ \E r \in Replacers \cap Cast[scene] : ReplacerActs(r)
       \/ Arrives
    /\ DesksRest /\ NightRests /\ WebUIRests /\ NewsRest

DispatchActs ==
    /\ scene \in {"dispatch", "beside"} /\ UNCHANGED scene
    /\ \E d \in Dispatches \cap Cast[scene] : DispatchStep(d)
    /\ OthersRest /\ NewsRest

NightActs ==
    /\ scene \in {"latest", "night"} /\ UNCHANGED scene
    /\ \/ /\ AstrayLands \/ \E p \in Publishers \cap Cast[scene] : NightAct(p)
          /\ UNCHANGED latestVars
       \/ /\ \E a \in Activations \cap Cast[scene] : ActivationStep(a)
          /\ UNCHANGED <<nightTag, drafts, night, astray>>
    /\ EditsRest /\ WebUIRests /\ DesksRest /\ NewsRest

PromotionActs(r) ==
    /\ r \in Cast[scene] /\ UNCHANGED scene
    /\ PromotionStep(r)
    /\ EditsRest /\ NightRests /\ DesksRest /\ NewsRest

WebUIActs ==
    \/ \E r \in Promotions : PromotionActs(r)
    \/ /\ scene \in {"rebuild", "preview"} /\ UNCHANGED scene
       /\ AdriftLands
       /\ EditsRest /\ NightRests /\ DesksRest /\ NewsRest

TapActs ==
    /\ scene \in {"tap", "casks"} /\ UNCHANGED scene
    /\ \/ \E f \in TapFollowers \cap Cast[scene] : FollowerStep(f) \/ FlightLands(f)
       \/ \E v \in Versions : ReplaceRelease(v)
    /\ OthersRest /\ DesksRest /\ UNCHANGED <<notaryVars, installVars>>

NotaryActs ==
    /\ scene = "notary" /\ UNCHANGED scene
    /\ NotaryNext
    /\ OthersRest /\ DesksRest /\ UNCHANGED <<tapVars, installVars>>

MacActs ==
    /\ scene = "install" /\ UNCHANGED scene
    /\ InstallNext
    /\ OthersRest /\ DesksRest /\ UNCHANGED <<tapVars, notaryVars>>

MCNext ==
    EditsAct \/ DispatchActs \/ NightActs \/ WebUIActs \/ TapActs \/ NotaryActs \/ MacActs

MCSpec ==
    /\ MCInit /\ [][MCNext]_mcVars
    /\ \A j \in GroupJobs : WF_mcVars(AppendActs(j))
    /\ \A r \in Promotions \ FaultyPromotions : WF_mcVars(PromotionActs(r))
=============================================================================

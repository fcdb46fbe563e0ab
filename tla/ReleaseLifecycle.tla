-------------------------- MODULE ReleaseLifecycle --------------------------
(***************************************************************************)
(* What the App repository promises about one Stable Release tag,          *)
(* whatever happens to the jobs that publish it: the tag becomes public    *)
(* once, at that moment with exactly the files of one build; the files of  *)
(* that build never change afterwards; other files may only be appended;   *)
(* and the notes advertise the Full package only when its files are there. *)
(***************************************************************************)
CONSTANTS
    Bundles,      \* sets of files, one for every frozen Standard build
    FullPlans     \* sets of files, one for every Full build

VARIABLES
    contents,     \* the Standard files of the public release, {} before
    extras,       \* the files appended after publication
    announced     \* the notes show the Full section

vars == <<contents, extras, announced>>

Init == contents = {} /\ extras = {} /\ announced = FALSE

Publish ==
    /\ contents = {}
    /\ contents' \in Bundles
    /\ UNCHANGED <<extras, announced>>

Append ==
    /\ contents # {}
    /\ \E a \in extras' : a \notin extras /\ extras' = extras \cup {a}
    /\ UNCHANGED <<contents, announced>>

Announce ==
    /\ ~announced
    /\ \E p \in FullPlans : p \subseteq extras
    /\ announced' = TRUE
    /\ UNCHANGED <<contents, extras>>

Next == Publish \/ Append \/ Announce

Spec == Init /\ [][Next]_vars
=============================================================================

------------------------- MODULE MCPublicationScenes -------------------------
(* Two casts of jobs of one tag: Standard jobs with two builds, and Full    *)
(* jobs after one Standard job. The jobs outside the cast have ended before *)
(* any of them starts; followers and note edits come in both.               *)
EXTENDS MCReleasePublication

Casts == {{"s1", "s2", "s3"}, {"s1", "f1", "f2"}}
Ended == [Idle EXCEPT !.pc = "done", !.verdict = "crashed"]

MCInit ==
    \E cast \in Casts :
        /\ releases = [i \in StandardJobs |-> Absent]
        /\ tagRef \in IF cast \subseteq StandardJobs THEN TagRefs ELSE {"absent"}
        /\ late = {}
        /\ job = [j \in Jobs |-> IF j \in cast THEN Idle ELSE Ended]
        /\ sent = [j \in Jobs |-> [s \in Subjects |-> 0]]

MCSpec == MCInit /\ [][Next]_vars
=============================================================================

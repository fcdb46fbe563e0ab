------------------------ MODULE MCReleasePublication ------------------------
(* Small instances: Standard runs s1 and s2, Full runs f1 and f2.           *)
EXTENDS ReleasePublication

File(name, digest) == [name |-> name, digest |-> digest]
Build(digest) == {File("dmg", digest), File("zip", digest)}
FullBuild == {File("full_dmg", "f"), File("manifest", "f")}
Follower == {File("deb", "l")}
AllNames == {"dmg", "zip"}

TwoBuilds == [j \in Jobs |-> IF j \in FullJobs THEN FullBuild
                             ELSE Build(IF j = "s2" THEN "b" ELSE "a")]
OneBuild == [j \in Jobs |-> IF j \in StandardJobs THEN Build("a") ELSE FullBuild]
SealedA == [j \in FullJobs |-> Build("a")]
=============================================================================

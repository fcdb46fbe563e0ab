---------------------------- MODULE ReleaseAssets ----------------------------
(***************************************************************************)
(* The assets of one published, mutable GitHub Release, as the two tools   *)
(* that edit it in place see them: append-stable-desktop-assets.ts and     *)
(* replace-same-tag-release-assets.ts.                                     *)
(*                                                                         *)
(* A name is a pair <<base, stage>>: the public name has stage = {}, the   *)
(* staged name carries the digest of the bytes it holds.  A digest is the  *)
(* set of what the bytes stand for: one <<thing, version>> for a product   *)
(* file, one entry per listed platform for the Desktop manifest.  Sizes go *)
(* with digests.  Release identity and tag target never change here.       *)
(***************************************************************************)
EXTENDS Integers, FiniteSets

CONSTANTS
    Seed,      \* name -> digest of the files published with the release
    NoAsset    \* no asset

VARIABLES
    assets,    \* the assets of the release: [id, name, digest]
    issued,    \* asset ids given so far; GitHub never gives one twice
    late       \* requests of dead callers that GitHub may still carry out

assetVars == <<assets, issued, late>>

Asset(i, n, d) == [id |-> i, name |-> n, digest |-> d]
PublicName(base) == <<base, {}>>
StagedName(base, digest) == <<base, digest>>

(* GitHub keeps asset names of a release unique. *)
Found(name) == {a \in assets : a.name = name}
Present(name) == Found(name) # {}
At(name) == IF Present(name) THEN CHOOSE a \in Found(name) : TRUE ELSE NoAsset

Inventory == {<<a.name, a.digest>> : a \in assets}

Numbering ==
    CHOOSE f \in [DOMAIN Seed -> 1 .. Cardinality(DOMAIN Seed)] :
        \A m, n \in DOMAIN Seed : f[m] = f[n] => m = n

AssetsInit ==
    /\ assets = {Asset(Numbering[n], n, Seed[n]) : n \in DOMAIN Seed}
    /\ issued = Cardinality(DOMAIN Seed)
    /\ late = {}
-----------------------------------------------------------------------------
(* The three mutations the tools use. *)
Upload(n, d) == [op |-> "upload", id |-> 0, name |-> n, digest |-> d]
Delete(a) == [op |-> "delete", id |-> a.id, name |-> a.name, digest |-> a.digest]
Rename(a, n) == [op |-> "rename", id |-> a.id, name |-> n, digest |-> a.digest]

(* An upload without --clobber and a rename are refused on a taken name,   *)
(* a request for an id that is gone is refused too.                        *)
Admissible(q) ==
    CASE q.op = "upload" -> ~Present(q.name)
      [] q.op = "delete" -> \E a \in assets : a.id = q.id
      [] q.op = "rename" ->
            /\ \E a \in assets : a.id = q.id
            /\ \A a \in Found(q.name) : a.id = q.id

Others(q) == {a \in assets : a.id # q.id}

Land(q) ==
    /\ Admissible(q)
    /\ assets' =
         CASE q.op = "upload" -> assets \cup {Asset(issued + 1, q.name, q.digest)}
           [] q.op = "delete" -> Others(q)
           [] q.op = "rename" -> Others(q) \cup {Asset(q.id, q.name, q.digest)}
    /\ issued' = IF q.op = "upload" THEN issued + 1 ELSE issued

Refuse(q) == ~Admissible(q) /\ UNCHANGED <<assets, issued>>

(* A request whose caller is gone arrives, is refused, or never arrives. *)
LateArrives ==
    \E q \in late :
        /\ late' = late \ {q}
        /\ Land(q) \/ UNCHANGED <<assets, issued>>
=============================================================================

-------------------------- MODULE StableAssetsProofs --------------------------
(***************************************************************************)
(* StableAssets: what the edits in place of a public release never lose,   *)
(* for any number of jobs, replacers and late requests.                    *)
(*                                                                         *)
(* Every step leaves the assets alone, adds one request to the pending     *)
(* ones, or carries one of them out.  The invariant therefore says what a  *)
(* pending request may be and what the release must hold while it is       *)
(* pending; it is kept by each kind of step, and then each action of the   *)
(* jobs and of the replacers is shown to be such a step.                   *)
(***************************************************************************)
EXTENDS StableAssets, FiniteSetTheorems, TLAPS

(* The requests that GitHub may yet carry out.                             *)
Pending ==
    (late \cup {job[j].call : j \in GroupJobs} \cup {tool[r].call : r \in Replacers})
        \ {NoAsset}

AssetsTyped ==
    /\ issued \in Nat /\ Cardinality(DOMAIN Seed) <= issued
    /\ assets \subseteq AssetSet /\ IsFiniteSet(assets)
    /\ \A a \in assets : 1 <= a.id /\ a.id <= issued
    /\ \A a, c \in assets : a.id = c.id \/ a.name = c.name => a = c

(* The builds that a manifest of this digest speaks of are up.             *)
Backed(digest) ==
    \A e \in digest : e[1] \in DOMAIN FilesOf /\ BuildIsUp(e[1], e[2])

UploadFine(q) ==
    \/ q.name[1] \in AppendedFiles \cup {"installer"} \cup RepairJobs
    \/ q.digest # {} /\ q.name = StagedName("manifest", q.digest) /\ Backed(q.digest)
    \/ \E r \in Replacers, b \in Items :
          q.name = StageName(r, b) /\ q.digest = NextBytes(r, b)

(* A request names its asset by id: if that asset is there, it still has   *)
(* the bytes, and the public or a staged form of the name.                 *)
KnowsAsset(q) ==
    /\ 1 <= q.id /\ q.id <= issued
    /\ \A a \in assets : a.id = q.id => a.name[1] = q.name[1] /\ a.digest = q.digest

DeleteFine(q) ==
    \/ q.name[1] \in {"manifest", "installer"} /\ \A b \in Items : q.id # Current(b).id
    \/ \E b \in Items : q.id = Current(b).id /\ q.name = PublicName(b)

RenameFine(q) ==
    /\ \A b \in Items : q.id # Current(b).id
    /\ \/ q.name = Manifest
       \/ \E r \in Replacers, b \in Items :
             q.name = PublicName(b) /\ q.digest = NextBytes(r, b)

Fine(q) ==
    /\ q \in RequestSet
    /\ q.op = "upload" => UploadFine(q)
    /\ q.op = "delete" => KnowsAsset(q) /\ DeleteFine(q)
    /\ q.op = "rename" => KnowsAsset(q) /\ RenameFine(q)

RequestsFine == \A q \in Pending : Fine(q)

Doomed(i) == \E q \in Pending : q.op = "delete" /\ q.id = i

(* The new bytes of a file are up, under the public or their staged name.  *)
Saves(a, b) ==
    /\ a.id # Current(b).id
    /\ \E r \in Replacers :
          a.digest = NextBytes(r, b) /\ a.name \in {PublicName(b), StageName(r, b)}
Saved(b) == \E a \in assets : Saves(a, b)
Stays(b) == \E a \in assets : a.id = Current(b).id

ItemBacked(b) ==
    /\ \A a \in assets : a.id = Current(b).id => a = Current(b)
    /\ (Stays(b) /\ ~Doomed(Current(b).id)) \/ Saved(b)
    /\ \A a \in assets : a.name = PublicName(b) => a.id = Current(b).id \/ Saves(a, b)
    /\ \A a \in assets : \A r \in Replacers :
          a.name = StageName(r, b) => a.digest = NextBytes(r, b)
ItemsBacked == \A b \in Items : ItemBacked(b)

ManifestsTrue == \A a \in assets : a.name[1] = "manifest" => Backed(a.digest)

(* A public manifest is only about to go when a staged one says more, and  *)
(* a staged one only when the public one says as much; never both.         *)
Publics(as) == {a \in as : a.name = Manifest}
PromisesKept ==
    /\ \A c \in Publics(assets) : Doomed(c.id) =>
          /\ \E z \in Stages : c.digest \subseteq z.digest /\ c.digest # z.digest
          /\ \A z \in Stages : ~Doomed(z.id)
    /\ \A z \in Stages : Doomed(z.id) =>
          \E c \in Publics(assets) : z.digest \subseteq c.digest

ReleaseInv ==
    AssetsTyped /\ RequestsFine /\ ItemsBacked /\ ManifestsTrue /\ PromisesKept
-----------------------------------------------------------------------------
(* No asset is neither an asset nor a request.                             *)
LEMMA NothingApart == NoAsset \notin AssetSet /\ NoAsset \notin RequestSet
  BY NoAssetIsApart

(* The release as published is numbered without repetition.                *)
LEMMA SeedNumbered ==
  /\ Cardinality(DOMAIN Seed) \in Nat
  /\ \A n \in DOMAIN Seed : Numbering[n] \in 1 .. Cardinality(DOMAIN Seed)
  /\ \A m, n \in DOMAIN Seed : Numbering[m] = Numbering[n] => m = n
  <1> DEFINE C == Cardinality(DOMAIN Seed)
             P(f) == \A m, n \in DOMAIN Seed : f[m] = f[n] => m = n
  <1>1. IsFiniteSet(DOMAIN Seed)
    BY SeedPublished
  <1>2. C \in Nat /\ ExistsBijection(1 .. C, DOMAIN Seed)
    BY <1>1, FS_CardinalityType
  <1>3. PICK g \in [1 .. C -> DOMAIN Seed] :
            \A n \in DOMAIN Seed : \E i \in 1 .. C : g[i] = n
    BY <1>2 DEF ExistsBijection, Bijection, Injection, Surjection
  <1> DEFINE f == [n \in DOMAIN Seed |-> CHOOSE i \in 1 .. C : g[i] = n]
  <1>4. \A n \in DOMAIN Seed : f[n] \in 1 .. C /\ g[f[n]] = n
    BY <1>3
  <1>5. f \in [DOMAIN Seed -> 1 .. C] /\ P(f)
    <2>1. f \in [DOMAIN Seed -> 1 .. C]
      BY <1>4
    <2>2. P(f)
      BY <1>4
    <2> QED
      BY <2>1, <2>2
  <1>6. Numbering = CHOOSE h \in [DOMAIN Seed -> 1 .. C] : P(h)
    BY DEF Numbering
  <1>7. Numbering \in [DOMAIN Seed -> 1 .. C] /\ P(Numbering)
    <2> HIDE DEF f, P
    <2> QED
      BY <1>5, <1>6
  <1> QED
    BY <1>2, <1>7

(* The names and the bytes that the tools use are names and bytes.         *)
LEMMA NamesTyped ==
  /\ \A x \in Bases : PublicName(x) \in Bases \X Digests
  /\ \A x \in Bases, d \in Digests : StagedName(x, d) \in Bases \X Digests
  /\ {"manifest", "installer"} \cup Items \cup RepairJobs \cup AppendedFiles \subseteq Bases
  /\ \A n \in DOMAIN Seed : n \in Bases \X Digests /\ n[1] \in Bases /\ Seed[n] \in Digests
  /\ \A r \in Replacers, b \in Items : NextBytes(r, b) \in Digests
  /\ \A j \in RepairJobs : Repaired[j] \in Digests /\ {<<j, "receipt">>} \in Digests
  /\ \A j \in AppendJobs : Entry(j) \in Facts
  /\ \A j \in AppendJobs : Payload(j) \subseteq (Bases \X Digests) \X Digests
  <1>1. {} \in Digests /\ \A x \in Bases : PublicName(x) \in Bases \X Digests
    BY DEF Digests, PublicName
  <1>2. \A x \in Bases, d \in Digests : StagedName(x, d) \in Bases \X Digests
    BY DEF StagedName
  <1>3. {"manifest", "installer"} \cup Items \cup RepairJobs \cup AppendedFiles \subseteq Bases
    BY DEF Bases
  <1>4. ASSUME NEW n \in DOMAIN Seed
        PROVE  n \in Bases \X Digests /\ n[1] \in Bases /\ Seed[n] \in Digests
    <2>1. n[1] \in Bases
      BY DEF Bases
    <2>2. n \in Bases \X Digests
      BY <1>1, <2>1, SeedPublished
    <2>3. Seed[n] \in Digests
      BY DEF Digests, Facts
    <2> QED
      BY <2>1, <2>2, <2>3
  <1>5. \A r \in Replacers, b \in Items : NextBytes(r, b) \in Digests
    BY DEF NextBytes, Digests, Facts
  <1>6. \A j \in RepairJobs : Repaired[j] \in Digests /\ {<<j, "receipt">>} \in Digests
    BY DEF Digests, Facts
  <1>7. \A j \in AppendJobs : Entry(j) \in Facts
    BY DEF Facts
  <1>8. ASSUME NEW j \in AppendJobs, NEW f \in FilesOf[Platform[j]]
        PROVE  <<PublicName(f), {<<f, Build[j]>>}>> \in (Bases \X Digests) \X Digests
    <2>1. f \in AppendedFiles
      BY NamesApart DEF AppendedFiles
    <2>2. <<f, Build[j]>> \in Facts
      BY <2>1 DEF Facts
    <2> QED
      BY <1>1, <1>3, <2>1, <2>2 DEF Digests
  <1>9. \A j \in AppendJobs : Payload(j) \subseteq (Bases \X Digests) \X Digests
    BY <1>8 DEF Payload
  <1> QED
    BY <1>1, <1>2, <1>3, <1>4, <1>5, <1>6, <1>7, <1>9

(* What a look at a name finds.                                            *)
LEMMA Looks ==
  ASSUME AssetsTyped, NEW n
  PROVE  \/ At(n) = NoAsset /\ ~Present(n) /\ \A a \in assets : a.name # n
         \/ At(n) # NoAsset /\ Present(n) /\ At(n) \in assets /\ At(n).name = n
            /\ \A a \in assets : a.name = n => a = At(n)
  <1>1. CASE Found(n) = {}
    BY <1>1 DEF At, Present, Found
  <1>2. CASE Found(n) # {}
    <2>1. At(n) \in Found(n)
      BY <1>2 DEF At, Present
    <2>2. At(n) \in assets /\ At(n).name = n
      BY <2>1 DEF Found
    <2> QED
      BY <1>2, <2>2, NothingApart DEF AssetsTyped, Present
  <1> QED
    BY <1>1, <1>2

(* The shapes of names.                                                    *)
LEMMA Shapes ==
  /\ Manifest[1] = "manifest" /\ Manifest[2] = {}
  /\ Installer[1] = "installer" /\ Installer[2] = {}
  /\ \A x : PublicName(x)[1] = x /\ PublicName(x)[2] = {}
  /\ \A x, d : StagedName(x, d)[1] = x /\ StagedName(x, d)[2] = d
  /\ \A r, b : StageName(r, b)[1] = b /\ StageName(r, b)[2] = NextBytes(r, b)
  /\ \A r, b : NextBytes(r, b) # {}
  /\ \A j : Receipt(j) = PublicName(j)
  BY DEF Manifest, Installer, PublicName, StagedName, StageName, NextBytes, Receipt

(* The files that are replaced have their number from the publication.     *)
LEMMA CurrentTyped ==
  ASSUME NEW b \in Items
  PROVE  /\ Current(b) \in AssetSet /\ Current(b).name = PublicName(b)
         /\ Current(b).id \in 1 .. Cardinality(DOMAIN Seed)
         /\ \A c \in Items : Current(b).id = Current(c).id => b = c
  <1>1. PublicName(b) \in DOMAIN Seed /\ \A c \in Items : PublicName(c) \in DOMAIN Seed
    BY ReplacedItems
  <1>2. Numbering[PublicName(b)] \in 1 .. Cardinality(DOMAIN Seed)
    BY <1>1, SeedNumbered
  <1>3. Current(b) \in AssetSet
    BY <1>1, <1>2, SeedNumbered, NamesTyped DEF Current, Asset, AssetSet
  <1>4. ASSUME NEW c \in Items, Current(b).id = Current(c).id PROVE b = c
    <2>1. PublicName(b) = PublicName(c)
      BY <1>1, <1>4, SeedNumbered DEF Current, Asset
    <2> QED
      BY <2>1, Shapes
  <1> QED
    BY <1>2, <1>3, <1>4 DEF Current, Asset
-----------------------------------------------------------------------------
(* How a carried-out request changes the release.                          *)
Uploads(q) ==
    /\ q.op = "upload" /\ ~Present(q.name)
    /\ assets' = assets \cup {Asset(issued + 1, q.name, q.digest)} /\ issued' = issued + 1
Deletes(q) ==
    /\ q.op = "delete" /\ assets' = Others(q) /\ issued' = issued
Renames(q) ==
    /\ q.op = "rename" /\ \A c \in assets : c.name = q.name => c.id = q.id
    /\ \E a \in assets : a.id = q.id
    /\ assets' = Others(q) \cup {Asset(q.id, q.name, q.digest)} /\ issued' = issued

(* A landed request is one of the three.                                   *)
LEMMA LandForms ==
  ASSUME NEW q \in RequestSet, Land(q)
  PROVE  Uploads(q) \/ Deletes(q) \/ Renames(q)
  <1>1. q.op \in {"upload", "delete", "rename"}
    BY DEF RequestSet
  <1>2. CASE q.op = "upload"
    BY <1>2 DEF Land, Admissible, Uploads
  <1>3. CASE q.op = "delete"
    BY <1>3 DEF Land, Admissible, Deletes
  <1>4. CASE q.op = "rename"
    BY <1>4 DEF Land, Admissible, Renames, Found
  <1> QED
    BY <1>1, <1>2, <1>3, <1>4

(* What lands was pending, and nothing new is asked for meanwhile.         *)
Landing(q) == q \in Pending /\ Land(q) /\ Pending' \subseteq Pending

(* A pending request that is carried out is a known one.                   *)
LEMMA LandingForms ==
  ASSUME ReleaseInv, NEW q, Landing(q)
  PROVE  Fine(q) /\ q \in RequestSet /\ (Uploads(q) \/ Deletes(q) \/ Renames(q))
  BY LandForms DEF ReleaseInv, RequestsFine, Fine, Landing

(* Ids and names stay unique, and the assets stay finitely many.           *)
LEMMA LandingTyped ==
  ASSUME ReleaseInv, NEW q, Landing(q)
  PROVE  AssetsTyped'
  <1>1. Fine(q) /\ q \in RequestSet /\ (Uploads(q) \/ Deletes(q) \/ Renames(q))
    BY LandingForms
  <1>2. q.id \in Nat /\ q.name \in Bases \X Digests /\ q.digest \in Digests
    BY <1>1 DEF RequestSet
  <1>3. AssetsTyped /\ \A a \in assets : a \in AssetSet /\ a.id \in Nat
    BY DEF ReleaseInv, AssetsTyped, AssetSet
  <1>4. Others(q) \subseteq assets /\ IsFiniteSet(Others(q))
    BY <1>3, FS_Subset DEF AssetsTyped, Others
  <1>5. CASE Uploads(q)
    <2> DEFINE new == Asset(issued + 1, q.name, q.digest)
    <2>1. new \in AssetSet /\ new.id = issued + 1 /\ new.name = q.name
      BY <1>2, <1>3 DEF AssetsTyped, AssetSet, Asset
    <2>2. \A a \in assets : a.id # new.id /\ a.name # new.name
      BY <1>3, <1>5, <2>1 DEF AssetsTyped, Uploads, Present, Found
    <2>3. assets' = assets \cup {new} /\ issued' = issued + 1
      BY <1>5 DEF Uploads
    <2>4. IsFiniteSet(assets')
      BY <1>3, <2>3, FS_AddElement DEF AssetsTyped
    <2> HIDE DEF new
    <2> QED
      BY <1>3, <2>1, <2>2, <2>3, <2>4, SeedNumbered DEF AssetsTyped
  <1>6. CASE Deletes(q)
    BY <1>3, <1>4, <1>6 DEF AssetsTyped, Deletes
  <1>7. CASE Renames(q)
    <2> DEFINE new == Asset(q.id, q.name, q.digest)
    <2>1. new \in AssetSet /\ new.id = q.id /\ new.name = q.name
      BY <1>2 DEF AssetSet, Asset
    <2>2. 1 <= new.id /\ new.id <= issued
      BY <1>3, <1>7, <2>1 DEF AssetsTyped, Renames
    <2>3. \A a \in Others(q) : a.id # new.id /\ a.name # new.name
      BY <1>7, <2>1 DEF Renames, Others
    <2>4. assets' = Others(q) \cup {new} /\ issued' = issued
      BY <1>7 DEF Renames
    <2>5. IsFiniteSet(assets')
      BY <1>4, <2>4, FS_AddElement
    <2> HIDE DEF new
    <2> QED
      BY <1>3, <1>4, <2>1, <2>2, <2>3, <2>4, <2>5 DEF AssetsTyped
  <1> QED
    BY <1>1, <1>5, <1>6, <1>7

(* What is there afterwards was there, or has just come: an asset keeps    *)
(* its id, its base name and its bytes for life.                           *)
LEMMA LandingKeeps ==
  ASSUME ReleaseInv, NEW q, Landing(q), NEW a \in assets'
  PROVE  \/ a \in assets
         \/ Uploads(q) /\ a.id = issued + 1 /\ a.name = q.name /\ a.digest = q.digest
         \/ Renames(q) /\ a.id = q.id /\ a.name = q.name /\ a.digest = q.digest
            /\ \E c \in assets : c.id = q.id /\ c.name[1] = q.name[1] /\ c.digest = q.digest
  <1>1. Fine(q) /\ q \in RequestSet /\ (Uploads(q) \/ Deletes(q) \/ Renames(q))
    BY LandingForms
  <1>2. CASE Uploads(q)
    BY <1>2 DEF Uploads, Asset
  <1>3. CASE Deletes(q)
    BY <1>3 DEF Deletes, Others
  <1>4. CASE Renames(q)
    <2>1. KnowsAsset(q)
      BY <1>1, <1>4 DEF Fine, Renames
    <2>2. PICK c \in assets : c.id = q.id
      BY <1>4 DEF Renames
    <2>3. c.name[1] = q.name[1] /\ c.digest = q.digest
      BY <2>1, <2>2 DEF KnowsAsset
    <2>4. a \in assets \/ a = Asset(q.id, q.name, q.digest)
      BY <1>4 DEF Renames, Others
    <2> QED
      BY <1>4, <2>2, <2>3, <2>4 DEF Asset
  <1> QED
    BY <1>1, <1>2, <1>3, <1>4

(* Only the asset the request names goes or gets another name.             *)
LEMMA LandingSpares ==
  ASSUME ReleaseInv, NEW q, Landing(q), NEW a \in assets, a \notin assets'
  PROVE  (Deletes(q) \/ Renames(q)) /\ a.id = q.id /\ KnowsAsset(q)
         /\ a.name[1] = q.name[1] /\ a.digest = q.digest
  <1>1. Fine(q) /\ q \in RequestSet /\ (Uploads(q) \/ Deletes(q) \/ Renames(q))
    BY LandingForms
  <1>2. Deletes(q) \/ Renames(q)
    BY <1>1 DEF Uploads
  <1>3. a.id = q.id
    BY <1>2 DEF Deletes, Renames, Others
  <1>4. KnowsAsset(q)
    BY <1>1, <1>2 DEF Fine, Deletes, Renames
  <1> QED
    BY <1>2, <1>3, <1>4 DEF KnowsAsset

(* No request removes a file of an appended platform or a receipt.         *)
LEMMA FilesStay ==
  ASSUME ReleaseInv, NEW q, Landing(q), NEW a \in assets,
         a.name[1] \in AppendedFiles \cup RepairJobs
  PROVE  a \in assets'
  <1>1. SUFFICES ASSUME a \notin assets' PROVE FALSE
    OBVIOUS
  <1>2. (Deletes(q) \/ Renames(q)) /\ a.name[1] = q.name[1] /\ Fine(q)
    BY <1>1, LandingSpares, LandingForms
  <1>3. q.name[1] \in {"manifest", "installer"} \cup Items
    BY <1>2, Shapes DEF Fine, Deletes, Renames, DeleteFine, RenameFine
  <1> QED
    BY <1>2, <1>3, NamesApart

(* So what is up stays up.                                                 *)
LEMMA BackedStays ==
  ASSUME ReleaseInv, NEW q, Landing(q), NEW d, Backed(d)
  PROVE  Backed(d)'
  <1>1. SUFFICES ASSUME NEW e \in d, NEW f \in FilesOf[e[1]]
                 PROVE  e[1] \in DOMAIN FilesOf
                        /\ <<PublicName(f), {<<f, e[2]>>}>> \in Inventory'
    BY DEF Backed, BuildIsUp
  <1>2. e[1] \in DOMAIN FilesOf /\ <<PublicName(f), {<<f, e[2]>>}>> \in Inventory
    BY DEF Backed, BuildIsUp
  <1>3. PICK a \in assets : a.name = PublicName(f) /\ a.digest = {<<f, e[2]>>}
    BY <1>2 DEF Inventory
  <1>4. a.name[1] \in AppendedFiles
    BY <1>2, <1>3, Shapes DEF AppendedFiles
  <1>5. a \in assets'
    BY <1>4, FilesStay
  <1> QED
    BY <1>2, <1>3, <1>5 DEF Inventory

(* A manifest stays true, and a new one is.                                *)
LEMMA LandingManifests ==
  ASSUME ReleaseInv, NEW q, Landing(q)
  PROVE  ManifestsTrue'
  <1>1. SUFFICES ASSUME NEW a \in assets', a.name[1] = "manifest" PROVE Backed(a.digest)'
    BY DEF ManifestsTrue
  <1>2. Backed(a.digest)
    <2>1. CASE a \in assets
      BY <1>1, <2>1 DEF ReleaseInv, ManifestsTrue
    <2>2. CASE Uploads(q) /\ a.name = q.name /\ a.digest = q.digest
      <3>1. UploadFine(q)
        BY <2>2, LandingForms DEF Fine, Uploads
      <3> QED
        BY <1>1, <2>2, <3>1, NamesApart, Shapes DEF UploadFine
    <2>3. CASE \E c \in assets : c.name[1] = q.name[1] /\ c.digest = q.digest
                                 /\ a.name = q.name /\ a.digest = q.digest
      BY <1>1, <2>3 DEF ReleaseInv, ManifestsTrue
    <2> QED
      BY <2>1, <2>2, <2>3, LandingKeeps
  <1> QED
    BY <1>2, BackedStays

(* What is asked for stays what it was.                                    *)
LEMMA LandingRequests ==
  ASSUME ReleaseInv, NEW q, Landing(q)
  PROVE  RequestsFine'
  <1>1. SUFFICES ASSUME NEW p \in Pending' PROVE Fine(p)'
    BY DEF RequestsFine
  <1>2. p \in Pending /\ Fine(p)
    BY DEF Landing, ReleaseInv, RequestsFine
  <1>3. UploadFine(p) => UploadFine(p)'
    BY BackedStays DEF UploadFine
  <1>4. ASSUME KnowsAsset(p) PROVE KnowsAsset(p)'
    <2>1. p.id \in Nat /\ issued \in Nat /\ 1 <= p.id /\ p.id <= issued
      BY <1>2, <1>4 DEF Fine, RequestSet, KnowsAsset, ReleaseInv, AssetsTyped
    <2>2. p.id <= issued'
      BY <2>1, LandingForms DEF Uploads, Deletes, Renames
    <2>3. ASSUME NEW a \in assets', a.id = p.id
          PROVE  a.name[1] = p.name[1] /\ a.digest = p.digest
      BY <1>4, <2>1, <2>3, LandingKeeps DEF KnowsAsset
    <2> QED
      BY <2>1, <2>2, <2>3 DEF KnowsAsset
  <1>5. DeleteFine(p) => DeleteFine(p)'
    BY DEF DeleteFine
  <1>6. RenameFine(p) => RenameFine(p)'
    BY DEF RenameFine
  <1> QED
    BY <1>2, <1>3, <1>4, <1>5, <1>6 DEF Fine

(* The new bytes of a file, once up, stay.                                 *)
LEMMA SavedStays ==
  ASSUME ReleaseInv, NEW q, Landing(q), NEW b \in Items, Saved(b)
  PROVE  Saved(b)'
  <1>1. PICK a \in assets : Saves(a, b)
    BY DEF Saved
  <1>2. CASE a \in assets'
    BY <1>1, <1>2 DEF Saved, Saves
  <1>3. CASE a \notin assets'
    <2>1. (Deletes(q) \/ Renames(q)) /\ a.id = q.id /\ a.name[1] = q.name[1]
          /\ a.digest = q.digest /\ Fine(q)
      BY <1>3, LandingSpares, LandingForms
    <2>2. q.name[1] = b /\ b \notin {"manifest", "installer"} /\ a.id # Current(b).id
      BY <1>1, <2>1, Shapes, NamesApart DEF Saves
    <2>3. ~Deletes(q)
      BY <2>1, <2>2, Shapes DEF Fine, Deletes, DeleteFine
    <2>4. Renames(q) /\ q.name = PublicName(b)
      BY <2>1, <2>2, <2>3, Shapes DEF Fine, Renames, RenameFine
    <2>5. Asset(q.id, q.name, q.digest) \in assets'
      BY <2>4 DEF Renames
    <2>6. Saves(Asset(q.id, q.name, q.digest), b)
      BY <1>1, <2>1, <2>4 DEF Saves, Asset
    <2> QED
      BY <2>5, <2>6 DEF Saved, Saves
  <1> QED
    BY <1>2, <1>3

(* A request that is carried out leaves every replaced file backed: its    *)
(* old bytes stay, or new ones are saved.                                  *)
LEMMA LandingItems ==
  ASSUME ReleaseInv, NEW q, Landing(q)
  PROVE  ItemsBacked'
  <1>1. SUFFICES ASSUME NEW b \in Items PROVE ItemBacked(b)'
    BY DEF ItemsBacked
  <1> DEFINE i == Current(b).id
  <1>2. ItemBacked(b) /\ Fine(q)
    BY LandingForms DEF ReleaseInv, ItemsBacked
  <1>3. i \in Nat /\ issued \in Nat /\ i <= issued
    BY CurrentTyped, SeedNumbered DEF ReleaseInv, AssetsTyped
  <1>4. b \in Items /\ b \notin {"manifest", "installer"} \cup AppendedFiles \cup RepairJobs
    BY NamesApart
  <1>5. ASSUME NEW a \in assets', a.id = i PROVE a = Current(b)
    <2>1. CASE a \in assets
      BY <1>2, <1>5, <2>1 DEF ItemBacked
    <2>2. CASE Uploads(q) /\ a.id = issued + 1
      BY <1>3, <1>5, <2>2
    <2>3. CASE Renames(q) /\ a.id = q.id
      BY <1>2, <1>5, <2>3 DEF Fine, Renames, RenameFine
    <2> QED
      BY <2>1, <2>2, <2>3, LandingKeeps
  <1>6. ((Stays(b) /\ ~Doomed(i)) \/ Saved(b))'
    <2>1. CASE Saved(b)
      BY <2>1, SavedStays
    <2>2. CASE Stays(b) /\ ~Doomed(i)
      <3>1. PICK a \in assets : a.id = i
        BY <2>2 DEF Stays
      <3>2. q.op = "delete" => q.id # i
        BY <2>2 DEF Doomed, Landing
      <3>3. a \in assets'
        BY <1>2, <3>1, <3>2, LandingSpares DEF Fine, Deletes, Renames, RenameFine
      <3>4. ~Doomed(i)'
        BY <2>2 DEF Doomed, Landing
      <3> QED
        BY <3>1, <3>3, <3>4 DEF Stays
    <2> QED
      BY <1>2, <2>1, <2>2 DEF ItemBacked
  <1>7. ASSUME NEW a \in assets', a.name = PublicName(b) PROVE a.id = i \/ Saves(a, b)
    <2>1. CASE a \in assets
      BY <1>2, <1>7, <2>1 DEF ItemBacked
    <2>2. CASE Uploads(q) /\ a.name = q.name
      <3>1. UploadFine(q) /\ q.name[1] = b /\ q.name[2] = {}
        <4>1. q.name = PublicName(b)
          BY <1>7, <2>2
        <4>2. q.name[1] = b /\ q.name[2] = {}
          BY <4>1, Shapes
        <4>3. UploadFine(q)
          BY <1>2, <2>2 DEF Fine, Uploads
        <4> QED
          BY <4>2, <4>3
      <3> QED
        BY <1>4, <3>1, Shapes DEF UploadFine
    <2>3. CASE Renames(q) /\ a.id = q.id /\ a.name = q.name /\ a.digest = q.digest
      <3>1. RenameFine(q) /\ q.name[1] = b
        <4>1. RenameFine(q)
          BY <1>2, <2>3 DEF Fine, Renames
        <4>2. q.name[1] = b
          <5>1. q.name = PublicName(b)
            BY <1>7, <2>3
          <5> QED
            BY <5>1, Shapes
        <4> QED
          BY <4>1, <4>2
      <3>2. PICK r \in Replacers : q.digest = NextBytes(r, b)
        BY <1>4, <3>1, Shapes DEF RenameFine
      <3> QED
        BY <1>7, <2>3, <3>2 DEF Saves
    <2> QED
      BY <2>1, <2>2, <2>3, LandingKeeps
  <1>8. ASSUME NEW a \in assets', NEW r \in Replacers, a.name = StageName(r, b)
        PROVE  a.digest = NextBytes(r, b)
    <2>1. CASE a \in assets
      BY <1>2, <1>8, <2>1 DEF ItemBacked
    <2>2. CASE Uploads(q) /\ a.name = q.name /\ a.digest = q.digest
      <3>1. UploadFine(q) /\ q.name[1] = b /\ q.name[2] = NextBytes(r, b)
        <4>1. UploadFine(q)
          BY <1>2, <2>2 DEF Fine, Uploads
        <4>2. q.name[1] = b /\ q.name[2] = NextBytes(r, b)
          <5>1. q.name = StageName(r, b)
            BY <1>8, <2>2
          <5> QED
            BY <5>1, Shapes
        <4> QED
          BY <4>1, <4>2
      <3> QED
        BY <1>4, <2>2, <3>1, Shapes DEF UploadFine
    <2>3. CASE Renames(q) /\ a.name = q.name
      <3>1. RenameFine(q)
        BY <1>2, <2>3 DEF Fine, Renames
      <3>2. q.name[2] = {}
        BY <3>1, Shapes DEF RenameFine
      <3>3. q.name[2] # {}
        <4>1. q.name = StageName(r, b)
          BY <1>8, <2>3
        <4> QED
          BY <4>1, Shapes
      <3> QED
        BY <3>2, <3>3
    <2> QED
      BY <2>1, <2>2, <2>3, LandingKeeps
  <1> QED
    BY <1>5, <1>6, <1>7, <1>8 DEF ItemBacked, Saves

(* A request about a manifest that was carried out was allowed to be.      *)
LEMMA ManifestGoes ==
  ASSUME ReleaseInv, NEW q, Landing(q),
         NEW a \in assets, a.name[1] = "manifest", a \notin assets'
  PROVE  \/ Deletes(q) /\ q.id = a.id /\ Doomed(a.id)
         \/ Renames(q) /\ q.id = a.id /\ q.name = Manifest
            /\ Asset(a.id, Manifest, a.digest) \in assets'
  <1>1. (Deletes(q) \/ Renames(q)) /\ a.id = q.id /\ q.name[1] = "manifest"
        /\ a.digest = q.digest /\ Fine(q)
    BY LandingSpares, LandingForms
  <1>2. CASE Deletes(q)
    BY <1>1, <1>2 DEF Deletes, Doomed, Landing
  <1>3. CASE Renames(q)
    <2>1. q.name = Manifest
      BY <1>1, <1>3, NamesApart, Shapes DEF Fine, Renames, RenameFine
    <2> QED
      BY <1>1, <1>3, <2>1 DEF Renames
  <1> QED
    BY <1>1, <1>2, <1>3

(* A manifest that may be deleted is one that was there before.            *)
LEMMA DoomedIsOld ==
  ASSUME ReleaseInv, NEW q, Landing(q), NEW a \in assets', a.name[1] = "manifest",
         Doomed(a.id)'
  PROVE  Doomed(a.id)
         /\ \/ a \in assets
            \/ /\ Renames(q) /\ a.id = q.id /\ a.name = Manifest /\ q.name = Manifest
               /\ \E c \in assets : c.id = a.id /\ c.name[1] = "manifest"
                                    /\ c.digest = a.digest
  <1>1. Doomed(a.id)
    BY DEF Doomed, Landing
  <1>2. a.id <= issued /\ a.id \in Nat /\ issued \in Nat
    BY <1>1 DEF Doomed, ReleaseInv, RequestsFine, Fine, KnowsAsset, RequestSet, AssetsTyped
  <1>3. CASE Uploads(q) /\ a.id = issued + 1
    BY <1>2, <1>3
  <1>4. CASE Renames(q) /\ a.id = q.id /\ a.name = q.name /\ a.digest = q.digest
             /\ \E c \in assets : c.id = q.id /\ c.name[1] = q.name[1] /\ c.digest = q.digest
    <2>1. RenameFine(q)
      BY <1>4, LandingForms DEF Fine, Renames
    <2>2. q.name = Manifest
      BY <1>4, <2>1, NamesApart, Shapes DEF RenameFine
    <2> QED
      BY <1>1, <1>4, <2>2, Shapes
  <1> QED
    BY <1>1, <1>3, <1>4, LandingKeeps

(* Of a public and a staged manifest, never both are about to go.          *)
LEMMA LandingPromises ==
  ASSUME ReleaseInv, NEW q, Landing(q)
  PROVE  PromisesKept'
  <1>1. AssetsTyped /\ PromisesKept /\ AssetsTyped'
    BY LandingTyped DEF ReleaseInv
  <1>2. ASSUME NEW c \in Publics(assets)', Doomed(c.id)' PROVE c \in Publics(assets)
    <2>1. c \in assets' /\ c.name = Manifest /\ c.name[1] = "manifest"
      BY <1>2, Shapes DEF Publics
    <2>2. SUFFICES ASSUME c \notin assets PROVE FALSE
      BY <2>1 DEF Publics
    <2>3. PICK d \in assets :
              Renames(q) /\ c.id = q.id /\ q.name = Manifest
              /\ d.id = c.id /\ d.name[1] = "manifest" /\ d.digest = c.digest /\ Doomed(c.id)
      BY <1>2, <2>1, <2>2, DoomedIsOld
    <2>4. c \in AssetSet /\ d \in AssetSet
      BY <1>1, <2>1, <2>3 DEF AssetsTyped
    <2>5. d.name # Manifest
      BY <2>1, <2>2, <2>3, <2>4 DEF AssetSet
    <2>6. d \in Stages
      BY <2>3, <2>4, <2>5 DEF Stages, AssetSet, Manifest, PublicName
    <2>7. PICK p \in Publics(assets) : TRUE
      BY <1>1, <2>3, <2>6 DEF PromisesKept
    <2>8. p \in assets /\ p.name = Manifest /\ p.id = q.id
      BY <2>3, <2>7 DEF Publics, Renames
    <2> QED
      BY <1>1, <2>3, <2>5, <2>8 DEF AssetsTyped
  <1>3. ASSUME NEW z \in Stages', Doomed(z.id)' PROVE z \in Stages /\ Doomed(z.id)
    <2>1. z \in assets' /\ z.name[1] = "manifest" /\ z.name # Manifest
      BY Shapes DEF Stages
    <2> QED
      BY <1>3, <2>1, DoomedIsOld DEF Stages
  <1>4. ASSUME NEW c \in Publics(assets)', Doomed(c.id)'
        PROVE  /\ \E z \in Stages' : c.digest \subseteq z.digest /\ c.digest # z.digest
               /\ \A z \in Stages' : ~Doomed(z.id)'
    <2>1. c \in Publics(assets) /\ Doomed(c.id)
      BY <1>2, <1>4 DEF Doomed, Landing
    <2>2. PICK z \in Stages : c.digest \subseteq z.digest /\ c.digest # z.digest
      BY <1>1, <2>1 DEF PromisesKept
    <2>3. \A y \in Stages : ~Doomed(y.id)
      BY <1>1, <2>1 DEF PromisesKept
    <2>4. z \in assets'
      <3>1. SUFFICES ASSUME z \notin assets' PROVE FALSE
        OBVIOUS
      <3>2. Renames(q) /\ q.id = z.id /\ q.name = Manifest
        BY <2>2, <2>3, <3>1, ManifestGoes DEF Stages
      <3>3. c.id = z.id /\ c.name = Manifest /\ c \in assets
        BY <2>1, <3>2 DEF Renames, Publics
      <3> QED
        BY <1>1, <2>2, <3>3, Shapes DEF AssetsTyped, Stages
    <2>5. z \in Stages'
      BY <2>2, <2>4 DEF Stages
    <2> QED
      BY <1>3, <2>2, <2>3, <2>5
  <1>5. ASSUME NEW z \in Stages', Doomed(z.id)'
        PROVE  \E c \in Publics(assets)' : z.digest \subseteq c.digest
    <2>1. z \in Stages /\ Doomed(z.id)
      BY <1>3, <1>5
    <2>2. PICK c \in Publics(assets) : z.digest \subseteq c.digest
      BY <1>1, <2>1 DEF PromisesKept
    <2>3. ~Doomed(c.id) /\ c \in assets /\ c.name = Manifest /\ c \in AssetSet
      BY <1>1, <2>1, <2>2 DEF PromisesKept, Publics, AssetsTyped
    <2>4. c \in assets'
      <3>1. SUFFICES ASSUME c \notin assets' PROVE FALSE
        OBVIOUS
      <3>2. Asset(c.id, Manifest, c.digest) \in assets'
        BY <2>3, <3>1, ManifestGoes, Shapes
      <3>3. Asset(c.id, Manifest, c.digest) = c
        BY <2>3 DEF Asset, AssetSet
      <3> QED
        BY <3>1, <3>2, <3>3
    <2> QED
      BY <2>2, <2>3, <2>4 DEF Publics
  <1> QED
    BY <1>4, <1>5 DEF PromisesKept

(* A request that is carried out keeps the invariant.                      *)
LEMMA LandingInv ==
  ASSUME ReleaseInv, NEW q, Landing(q)
  PROVE  ReleaseInv'
  BY LandingTyped, LandingRequests, LandingItems, LandingManifests, LandingPromises
     DEF ReleaseInv

(* What the manifests promise together.                                    *)
PromisedIsUnion ==
    \A e : e \in Promised <=>
              \E a \in assets : a.name[1] = "manifest" /\ e \in a.digest

(* With one asset per name, what is promised is what any manifest lists.   *)
LEMMA PromisedIs == AssetsTyped => PromisedIsUnion
  <1> SUFFICES ASSUME AssetsTyped PROVE PromisedIsUnion
    OBVIOUS
  <1>1. ASSUME NEW a \in assets, a.name[1] = "manifest" PROVE a.name = Manifest \/ a \in Stages
    BY <1>1 DEF AssetsTyped, AssetSet, Stages, Manifest, PublicName
  <1>2. Listed = {} \/ \E a \in assets : a.name = Manifest /\ Listed = a.digest
    BY Looks DEF Listed, Canonical
  <1>3. \A a \in assets : a.name = Manifest => Listed = a.digest
    BY Looks DEF Listed, Canonical
  <1>4. \A a \in Stages : a \in assets /\ a.name[1] = "manifest"
    BY DEF Stages
  <1>5. ASSUME NEW e, e \in Promised
        PROVE  \E a \in assets : a.name[1] = "manifest" /\ e \in a.digest
    BY <1>2, <1>4, <1>5, Shapes DEF Promised
  <1>6. ASSUME NEW e, NEW a \in assets, a.name[1] = "manifest", e \in a.digest
        PROVE  e \in Promised
    BY <1>1, <1>3, <1>6 DEF Promised
  <1> QED
    BY <1>5, <1>6 DEF PromisedIsUnion

(* No request takes back what a manifest, public or staged, promises.      *)
LEMMA LandingPromised ==
  ASSUME ReleaseInv, NEW q, Landing(q)
  PROVE  Promised \subseteq Promised'
  <1>1. AssetsTyped /\ PromisesKept /\ AssetsTyped'
    BY LandingTyped DEF ReleaseInv
  <1>2. SUFFICES ASSUME NEW e, e \in Promised PROVE e \in Promised'
    OBVIOUS
  <1>3. PICK a \in assets : a.name[1] = "manifest" /\ e \in a.digest
    BY <1>1, <1>2, PromisedIs DEF PromisedIsUnion
  <1>4. \E c \in assets' : c.name[1] = "manifest" /\ e \in c.digest
    <2>1. CASE a \in assets'
      BY <1>3, <2>1
    <2>2. CASE Renames(q) /\ Asset(a.id, Manifest, a.digest) \in assets'
      BY <1>3, <2>2, Shapes DEF Asset
    <2>3. CASE Deletes(q) /\ q.id = a.id /\ Doomed(a.id)
      <3>1. \A c \in assets : c.id # a.id => c \in assets'
        BY <2>3 DEF Deletes, Others
      <3>2. a \in Publics(assets) \/ a \in Stages
        BY <1>1, <1>3 DEF AssetsTyped, AssetSet, Stages, Publics, Manifest, PublicName
      <3>3. PICK c \in assets :
                c.name[1] = "manifest" /\ c.name # a.name /\ a.digest \subseteq c.digest
        <4>1. CASE a \in Publics(assets)
          <5>1. PICK z \in Stages : a.digest \subseteq z.digest
            BY <1>1, <2>3, <4>1 DEF PromisesKept
          <5> QED
            BY <4>1, <5>1, Shapes DEF Publics, Stages
        <4>2. CASE a \in Stages
          <5>1. PICK c \in Publics(assets) : a.digest \subseteq c.digest
            BY <1>1, <2>3, <4>2 DEF PromisesKept
          <5> QED
            BY <4>2, <5>1, Shapes DEF Publics, Stages
        <4> QED
          BY <3>2, <4>1, <4>2
      <3>4. c \in assets'
        BY <1>1, <3>1, <3>3 DEF AssetsTyped
      <3> QED
        BY <1>3, <3>3, <3>4
    <2> QED
      BY <1>3, <2>1, <2>2, <2>3, ManifestGoes
  <1>5. AssetsTyped' => PromisedIsUnion'
    BY PromisedIs, PTL
  <1> QED
    BY <1>1, <1>4, <1>5 DEF PromisedIsUnion
-----------------------------------------------------------------------------
(* A step that only asks: what a request must find on the release.         *)
SafeDelete(i) ==
    /\ \A b \in Items : i = Current(b).id => Saved(b)
    /\ \A c \in Publics(assets) : c.id = i =>
          /\ \E z \in Stages : c.digest \subseteq z.digest /\ c.digest # z.digest
          /\ \A z \in Stages : ~Doomed(z.id)
    /\ \A z \in Stages : z.id = i =>
          \E c \in Publics(assets) : z.digest \subseteq c.digest /\ ~Doomed(c.id)
Safe(q) == Fine(q) /\ (q.op = "delete" => SafeDelete(q.id))

Asking(Q) ==
    /\ UNCHANGED <<assets, issued>>
    /\ Pending' \subseteq Pending \cup Q
    /\ \A q \in Q : Safe(q)
    /\ \A p, q \in Q : p = q

(* A new request that is safe keeps the invariant of the release.          *)
LEMMA AskingInv ==
  ASSUME ReleaseInv, NEW Q, Asking(Q)
  PROVE  ReleaseInv' /\ Promised' = Promised
  <1> USE DEF Asking
  <1>1. AssetsTyped' /\ ManifestsTrue' /\ Promised' = Promised
    BY DEF ReleaseInv, AssetsTyped, ManifestsTrue, Backed, BuildIsUp, Inventory,
           Promised, Listed, Canonical, Stages, At, Present, Found
  <1>2. RequestsFine'
    <2>1. \A q \in Pending' : Fine(q)
      BY DEF ReleaseInv, RequestsFine, Safe
    <2>2. \A q : Fine(q) => Fine(q)'
      BY DEF Fine, UploadFine, KnowsAsset, DeleteFine, RenameFine, Backed, BuildIsUp, Inventory
    <2> QED
      BY <2>1, <2>2 DEF RequestsFine
  <1>3. \A i : Doomed(i)' => Doomed(i) \/ \E q \in Q : q.op = "delete" /\ q.id = i
    BY DEF Doomed
  <1>4. ItemsBacked'
    <2>1. SUFFICES ASSUME NEW b \in Items PROVE ItemBacked(b)'
      BY DEF ItemsBacked
    <2>2. ItemBacked(b)
      BY DEF ReleaseInv, ItemsBacked
    <2>3. Doomed(Current(b).id)' => Doomed(Current(b).id) \/ Saved(b)
      BY <1>3 DEF Safe, SafeDelete
    <2>4. (Saved(b) => Saved(b)') /\ (Stays(b) => Stays(b)')
      BY DEF Saved, Saves, Stays
    <2>5. ((Stays(b) /\ ~Doomed(Current(b).id)) \/ Saved(b))'
      BY <2>2, <2>3, <2>4 DEF ItemBacked
    <2> QED
      BY <2>2, <2>5 DEF ItemBacked, Saves
  <1>5. PromisesKept'
    <2>1. PromisesKept /\ AssetsTyped
      BY DEF ReleaseInv
    <2>2. Stages' = Stages /\ Publics(assets)' = Publics(assets)
      BY DEF Stages, Publics
    <2>3. \A c \in Publics(assets), z \in Stages :
              /\ c \in assets /\ z \in assets /\ c.name # z.name /\ c.id # z.id
              /\ \A d \in Publics(assets) : c = d
      BY <2>1, Shapes DEF AssetsTyped, Publics, Stages
    <2>4. ASSUME NEW c \in Publics(assets), Doomed(c.id)'
          PROVE  /\ \E z \in Stages : c.digest \subseteq z.digest /\ c.digest # z.digest
                 /\ \A z \in Stages : ~Doomed(z.id)'
      <3>1. CASE Doomed(c.id)
        <4>1. /\ \E z \in Stages : c.digest \subseteq z.digest /\ c.digest # z.digest
              /\ \A z \in Stages : ~Doomed(z.id)
          BY <2>1, <3>1 DEF PromisesKept
        <4>2. \A z \in Stages : \A q \in Q : ~(q.op = "delete" /\ q.id = z.id)
          BY <2>3, <3>1 DEF Safe, SafeDelete
        <4> QED
          BY <1>3, <4>1, <4>2
      <3>2. CASE \E q \in Q : q.op = "delete" /\ q.id = c.id
        <4>1. PICK q \in Q : q.op = "delete" /\ q.id = c.id
          BY <3>2
        <4>2. SafeDelete(q.id)
          BY <4>1 DEF Safe
        <4>3. /\ \E z \in Stages : c.digest \subseteq z.digest /\ c.digest # z.digest
              /\ \A z \in Stages : ~Doomed(z.id)
          BY <4>1, <4>2 DEF SafeDelete
        <4>4. \A z \in Stages : \A p \in Q : ~(p.op = "delete" /\ p.id = z.id)
          BY <2>3, <4>1
        <4> QED
          BY <1>3, <4>3, <4>4
      <3> QED
        BY <1>3, <2>4, <3>1, <3>2
    <2>5. ASSUME NEW z \in Stages, Doomed(z.id)'
          PROVE  \E c \in Publics(assets) : z.digest \subseteq c.digest
      <3>1. CASE Doomed(z.id)
        BY <2>1, <3>1 DEF PromisesKept
      <3>2. CASE \E q \in Q : q.op = "delete" /\ q.id = z.id
        BY <3>2 DEF Safe, SafeDelete
      <3> QED
        BY <1>3, <2>5, <3>1, <3>2
    <2> QED
      BY <2>2, <2>4, <2>5 DEF PromisesKept
  <1> QED
    BY <1>1, <1>2, <1>4, <1>5 DEF ReleaseInv

(* The ids of manifests and of the installer are not those of a plan.      *)
LEMMA OtherIds ==
  ASSUME ReleaseInv, NEW a \in assets, NEW b \in Items, a.name # PublicName(b)
  PROVE  a.id # Current(b).id
  BY CurrentTyped DEF ReleaseInv, ItemsBacked, ItemBacked

(* A manifest or an installer is no file of a replacement plan.            *)
LEMMA ManifestIds ==
  ASSUME ReleaseInv, NEW a \in assets, a.name[1] \in {"manifest", "installer"}
  PROVE  \A b \in Items : a.id # Current(b).id
  BY OtherIds, Shapes, NamesApart

(* Requests about an asset that is there know it.                          *)
LEMMA AboutAsset ==
  ASSUME ReleaseInv, NEW a \in assets, NEW n \in Bases \X Digests
  PROVE  /\ Delete(a) \in RequestSet /\ Delete(a).op = "delete" /\ Delete(a).id = a.id
         /\ Delete(a).name = a.name /\ Delete(a).digest = a.digest /\ KnowsAsset(Delete(a))
         /\ Rename(a, n) \in RequestSet /\ Rename(a, n).op = "rename"
         /\ Rename(a, n).id = a.id /\ Rename(a, n).name = n /\ Rename(a, n).digest = a.digest
         /\ n[1] = a.name[1] => KnowsAsset(Rename(a, n))
  <1>1. a \in AssetSet /\ 1 <= a.id /\ a.id <= issued
        /\ \A c \in assets : c.id = a.id => c = a
    BY DEF ReleaseInv, AssetsTyped
  <1>2. Delete(a) \in RequestSet /\ Rename(a, n) \in RequestSet
    BY <1>1 DEF AssetSet, RequestSet, Delete, Rename
  <1> QED
    BY <1>1, <1>2 DEF KnowsAsset, Delete, Rename

(* Deleting a manifest or an installer is a known request.                 *)
LEMMA DeleteManifest ==
  ASSUME ReleaseInv, NEW a \in assets, a.name[1] \in {"manifest", "installer"}
  PROVE  Fine(Delete(a))
  <1>1. a.name \in Bases \X Digests
    BY DEF ReleaseInv, AssetsTyped, AssetSet
  <1> QED
    BY <1>1, AboutAsset, ManifestIds DEF Fine, DeleteFine

(* So is promoting a staged manifest.                                      *)
LEMMA RenameManifest ==
  ASSUME ReleaseInv, NEW a \in assets, a.name[1] = "manifest"
  PROVE  Safe(Rename(a, Manifest))
  <1>1. Manifest \in Bases \X Digests /\ Manifest[1] = a.name[1]
    BY NamesTyped, Shapes DEF Manifest
  <1> QED
    BY <1>1, AboutAsset, ManifestIds DEF Safe, Fine, RenameFine

(* The public manifest may go when the only staged one says more; the only *)
(* staged one may go when the public one says the same.                    *)
LEMMA ManifestsFound ==
  ASSUME ReleaseInv
  PROVE  /\ Canonical = NoAsset => Publics(assets) = {}
         /\ Canonical # NoAsset => /\ Canonical \in assets /\ Canonical.name = Manifest
                                   /\ Publics(assets) = {Canonical}
                                   /\ Listed = Canonical.digest
         /\ \A z \in Stages : z \in assets /\ z.name[1] = "manifest" /\ z.name # Manifest
         /\ IsFiniteSet(Stages)
  <1>1. AssetsTyped
    BY DEF ReleaseInv
  <1>2. IsFiniteSet(Stages)
    BY <1>1, FS_Subset DEF AssetsTyped, Stages
  <1>3. Canonical = NoAsset => Publics(assets) = {}
    BY <1>1, Looks DEF Publics, Canonical
  <1>4. Canonical # NoAsset => /\ Canonical \in assets /\ Canonical.name = Manifest
                               /\ Publics(assets) = {Canonical}
    BY <1>1, Looks DEF Publics, Canonical
  <1>5. \A z \in Stages : z \in assets /\ z.name[1] = "manifest" /\ z.name # Manifest
    BY Shapes DEF Stages
  <1> QED
    BY <1>2, <1>3, <1>4, <1>5 DEF Listed

(* The public manifest may go when the one staged says more (:806).        *)
LEMMA DeleteCanonical ==
  ASSUME ReleaseInv, Canonical # NoAsset, NEW z, Stages = {z},
         Listed \subseteq z.digest, Listed # z.digest
  PROVE  Safe(Delete(Canonical))
  <1>1. Canonical \in assets /\ Canonical.name = Manifest /\ Canonical.name[1] = "manifest"
        /\ Publics(assets) = {Canonical} /\ Listed = Canonical.digest
        /\ z \in assets /\ z.name # Manifest
    BY ManifestsFound, Shapes
  <1>2. Fine(Delete(Canonical)) /\ Delete(Canonical).id = Canonical.id
    BY <1>1, DeleteManifest DEF Delete
  <1>3. \A b \in Items : Canonical.id # Current(b).id
    BY <1>1, ManifestIds
  <1>4. z.id # Canonical.id
    BY <1>1 DEF ReleaseInv, AssetsTyped
  <1>5. ~Doomed(z.id)
    <2>1. Doomed(z.id) => z.digest \subseteq Listed
      BY <1>1 DEF ReleaseInv, PromisesKept
    <2> QED
      BY <2>1
  <1>6. SafeDelete(Canonical.id)
    BY <1>1, <1>3, <1>4, <1>5 DEF SafeDelete
  <1> QED
    BY <1>2, <1>6 DEF Safe

(* A staged manifest may go when the public one says the same (:799).      *)
LEMMA DeleteStage ==
  ASSUME ReleaseInv, Canonical # NoAsset, NEW z, Stages = {z}, Listed = z.digest
  PROVE  Safe(Delete(z))
  <1>1. Canonical \in assets /\ Canonical.name = Manifest
        /\ Publics(assets) = {Canonical} /\ Listed = Canonical.digest
        /\ z \in assets /\ z.name[1] = "manifest" /\ z.name # Manifest
    BY ManifestsFound
  <1>2. Fine(Delete(z)) /\ Delete(z).id = z.id
    BY <1>1, DeleteManifest DEF Delete
  <1>3. \A b \in Items : z.id # Current(b).id
    BY <1>1, ManifestIds
  <1>4. z.id # Canonical.id
    BY <1>1 DEF ReleaseInv, AssetsTyped
  <1>5. ~Doomed(Canonical.id)
    BY <1>1 DEF ReleaseInv, PromisesKept
  <1>6. SafeDelete(z.id)
    BY <1>1, <1>3, <1>4, <1>5 DEF SafeDelete
  <1> QED
    BY <1>2, <1>6 DEF Safe

(* The requests of a replacer.                                             *)
LEMMA StagedFound ==
  ASSUME ReleaseInv, NEW r \in Replacers, NEW b \in Items, IsStaged(r, b)
  PROVE  /\ At(StageName(r, b)) \in assets /\ At(StageName(r, b)).name = StageName(r, b)
         /\ At(StageName(r, b)).digest = NextBytes(r, b)
         /\ \A c \in Items : At(StageName(r, b)).id # Current(c).id
         /\ Saved(b)
  <1> DEFINE a == At(StageName(r, b))
  <1>1. AssetsTyped
    BY DEF ReleaseInv
  <1>2. a \in assets /\ a.name = StageName(r, b)
    BY <1>1, Looks DEF IsStaged
  <1>3. a.digest = NextBytes(r, b)
    BY <1>2 DEF ReleaseInv, ItemsBacked, ItemBacked
  <1>4. \A c \in Items : a.name # PublicName(c)
    BY <1>2, Shapes
  <1>5. \A c \in Items : a.id # Current(c).id
    BY <1>2, <1>4, OtherIds
  <1>6. Saved(b)
    BY <1>2, <1>3, <1>5 DEF Saved, Saves
  <1> QED
    BY <1>2, <1>3, <1>5, <1>6

(* A new version is uploaded under the name of its own bytes.              *)
LEMMA StageUpload ==
  ASSUME NEW r \in Replacers, NEW b \in Items
  PROVE  Safe(Upload(StageName(r, b), NextBytes(r, b)))
  <1>1. StageName(r, b) \in Bases \X Digests /\ NextBytes(r, b) \in Digests
    BY NamesTyped DEF StageName
  <1> QED
    BY <1>1 DEF Safe, Fine, UploadFine, Upload, RequestSet

(* A staged version is renamed to the public name of its file.             *)
LEMMA StageRename ==
  ASSUME ReleaseInv, NEW r \in Replacers, NEW b \in Items, IsStaged(r, b)
  PROVE  Safe(Rename(At(StageName(r, b)), PublicName(b)))
  <1> DEFINE a == At(StageName(r, b))
  <1>1. a \in assets /\ a.name = StageName(r, b) /\ a.digest = NextBytes(r, b)
        /\ \A c \in Items : a.id # Current(c).id
    BY StagedFound
  <1>2. PublicName(b) \in Bases \X Digests /\ PublicName(b)[1] = a.name[1]
    BY <1>1, NamesTyped, Shapes
  <1> HIDE DEF a
  <1>3. Safe(Rename(a, PublicName(b)))
    BY <1>1, <1>2, AboutAsset DEF Safe, Fine, RenameFine
  <1> QED
    BY <1>3 DEF a

(* The old file may be deleted once a new version is staged.               *)
LEMMA CurrentDelete ==
  ASSUME ReleaseInv, NEW r \in Replacers, NEW b \in Items, IsStaged(r, b), IsCurrent(b)
  PROVE  Safe(Delete(Current(b)))
  <1> DEFINE a == Current(b)
  <1>1. a \in AssetSet /\ a.name = PublicName(b) /\ \A c \in Items : a.id = Current(c).id => c = b
    BY CurrentTyped
  <1>2. a \in assets
    BY <1>1, NothingApart, Looks DEF IsCurrent, Public, ReleaseInv
  <1>3. Saved(b)
    BY StagedFound
  <1>4. \A x \in assets : x.id = a.id => x.name[1] = b /\ b # "manifest"
    BY <1>1, <1>2, Shapes, NamesApart DEF ReleaseInv, AssetsTyped
  <1>5. SafeDelete(a.id)
    BY <1>1, <1>3, <1>4, Shapes DEF SafeDelete, Publics, Stages
  <1>6. a.name \in Bases \X Digests
    BY <1>1, NamesTyped
  <1>7. Fine(Delete(a)) /\ Delete(a).id = a.id
    BY <1>1, <1>2, <1>6, AboutAsset DEF Fine, DeleteFine
  <1> QED
    BY <1>5, <1>7 DEF Safe
-----------------------------------------------------------------------------
(* What the jobs and the replacers remember.                               *)
Places ==
    {"idle", "admitted", "inspect", "recover", "recovered", "upload", "staged", "promote",
     "final", "repair", "deleted", "uploaded", "receipted", "complete", "failed", "dead"}
Files == (Bases \X Digests) \X Digests
JobSet ==
    [pc : Places, call : RequestSet \cup {NoAsset}, expected : SUBSET Files,
     plan : SUBSET Files, canonical : AssetSet \cup {NoAsset}, stage : AssetSet \cup {NoAsset}]
ToolPlaces ==
    {"idle", "stage", "staged", "promote", "items", "cleared", "renamed", "done", "failed"}
ToolSet ==
    [pc : ToolPlaces, call : RequestSet \cup {NoAsset}, run : Nat, todo : SUBSET Items]

EditorsTyped ==
    /\ job \in [GroupJobs -> JobSet]
    /\ tool \in [Replacers -> ToolSet]
    /\ late \subseteq RequestSet

JobKnows(j) ==
    /\ j \in AppendJobs =>
         /\ job[j].plan \subseteq Payload(j)
         /\ job[j].pc = "upload" => Payload(j) \subseteq job[j].expected \cup job[j].plan
         /\ job[j].pc = "staged" => Entry(j) \notin StagedSet(j)
         /\ job[j].stage # NoAsset => job[j].stage.name[1] = "manifest"
         /\ job[j].pc = "complete" => Entry(j) \in Promised
    /\ j \in RepairJobs =>
         /\ job[j].pc \in {"admitted", "repair"} => job[j].canonical # NoAsset
         /\ job[j].pc = "deleted" => \A e \in job[j].expected : e[1] # Installer
         /\ job[j].pc = "uploaded" => <<Installer, Repaired[j]>> \in job[j].expected

ToolKnows(r) == tool[r].pc \in {"staged", "cleared", "renamed"} => tool[r].todo # {}

EditsInv ==
    /\ ReleaseInv /\ EditorsTyped
    /\ \A j \in GroupJobs : JobKnows(j)
    /\ \A r \in Replacers : ToolKnows(r)

(* What every step keeps.                                                  *)
Kept == EditsInv' /\ Promised \subseteq Promised'
-----------------------------------------------------------------------------
(* Nothing is learnt: the job or command goes on, or ends; its request is  *)
(* forgotten, or is late because its sender is dead.                       *)
Forgets ==
    /\ EditorsTyped'
    /\ \A j \in GroupJobs :
         /\ \/ job'[j].pc = job[j].pc /\ job'[j].call \in {job[j].call, NoAsset}
            \/ job'[j].pc = "dead" /\ job'[j].call = NoAsset
         /\ job'[j].plan = job[j].plan /\ job'[j].expected = job[j].expected
         /\ job'[j].canonical = job[j].canonical /\ job'[j].stage = job[j].stage
    /\ \A r \in Replacers :
         /\ tool'[r].pc \in {tool[r].pc, "failed"} /\ tool'[r].todo = tool[r].todo
         /\ tool'[r].call \in {tool[r].call, NoAsset}
    /\ \A q \in late' :
         \/ q \in late
         \/ \E j \in GroupJobs : q = job[j].call /\ job'[j].pc = "dead"
         \/ \E r \in Replacers : q = tool[r].call

(* The end of a request, or of its sender.                                 *)
Ending ==
    /\ Forgets /\ Pending' \subseteq Pending
    /\ (\E q : Landing(q)) \/ UNCHANGED <<assets, issued>>

(* What a job or a command knows it still knows when it only forgets.      *)
LEMMA ForgetsKnows ==
  ASSUME EditsInv, Forgets, Promised \subseteq Promised'
  PROVE  (\A j \in GroupJobs : JobKnows(j)') /\ (\A r \in Replacers : ToolKnows(r)')
  <1>1. ASSUME NEW j \in GroupJobs PROVE JobKnows(j)'
    BY DEF EditsInv, Forgets, JobKnows, StagedSet
  <1>2. ASSUME NEW r \in Replacers PROVE ToolKnows(r)'
    BY DEF EditsInv, Forgets, ToolKnows
  <1> QED
    BY <1>1, <1>2

(* A request that is carried out keeps everything.                         *)
LEMMA LandedKept ==
  ASSUME EditsInv, NEW q, Landing(q), Forgets
  PROVE  Kept
  <1>1. ReleaseInv' /\ Promised \subseteq Promised'
    BY LandingInv, LandingPromised DEF EditsInv
  <1>2. (\A j \in GroupJobs : JobKnows(j)') /\ (\A r \in Replacers : ToolKnows(r)')
    BY <1>1, ForgetsKnows
  <1> QED
    BY <1>1, <1>2 DEF Kept, EditsInv, Forgets

(* So does a step that does nothing, or drops a request.                   *)
LEMMA QuietKept ==
  ASSUME EditsInv, UNCHANGED <<assets, issued>>, Pending' \subseteq Pending, Forgets
  PROVE  Kept
  <1>1. Asking({})
    BY DEF Asking
  <1>2. ReleaseInv' /\ Promised' = Promised
    BY <1>1, AskingInv DEF EditsInv
  <1>3. (\A j \in GroupJobs : JobKnows(j)') /\ (\A r \in Replacers : ToolKnows(r)')
    BY <1>2, ForgetsKnows
  <1> QED
    BY <1>2, <1>3 DEF Kept, EditsInv, Forgets

(* Either way of ending keeps everything.                                  *)
LEMMA EndingKept ==
  ASSUME EditsInv, Ending
  PROVE  Kept
  BY LandedKept, QuietKept DEF Ending

(* A new request is safe; that of an append or of a replacer is no matter  *)
(* of a repair.                                                            *)
Apart(q) == q.op = "rename" \/ q.name[1] \notin {"installer"} \cup RepairJobs
NewCall(before, call) == call # before /\ call # NoAsset => Safe(call)
Elsewhere(before, call) == call # before /\ call # NoAsset => Apart(call)

JobReads(j) ==
    /\ Reading /\ UNCHANGED tool
    /\ job' \in [GroupJobs -> JobSet]
    /\ \A i \in GroupJobs : i # j => job'[i] = job[i]
    /\ NewCall(job[j].call, job'[j].call)
    /\ j \in AppendJobs => Elsewhere(job[j].call, job'[j].call)
    /\ JobKnows(j)'

(* So does a job that reads and asks for at most one safe thing.           *)
LEMMA JobReadsKept ==
  ASSUME EditsInv, NEW j \in GroupJobs, JobReads(j)
  PROVE  Kept
  <1> DEFINE Q == {q \in {job'[j].call} : q # NoAsset /\ q # job[j].call}
  <1>1. Pending' \subseteq Pending \cup Q
    BY DEF JobReads, Pending, Reading
  <1>2. Asking(Q)
    BY <1>1 DEF Asking, JobReads, Reading, NewCall
  <1> HIDE DEF Q
  <1>4. ReleaseInv' /\ Promised' = Promised
    BY <1>2, AskingInv DEF EditsInv
  <1>6. EditorsTyped'
    BY DEF EditsInv, EditorsTyped, JobReads, Reading
  <1>7. ASSUME NEW i \in GroupJobs PROVE JobKnows(i)'
    BY <1>4 DEF EditsInv, JobReads, JobKnows, StagedSet
  <1>8. ASSUME NEW r \in Replacers PROVE ToolKnows(r)'
    BY DEF EditsInv, JobReads, ToolKnows
  <1> QED
    BY <1>4, <1>6, <1>7, <1>8 DEF Kept, EditsInv

ToolReads(r) ==
    /\ Only /\ UNCHANGED job
    /\ tool' \in [Replacers -> ToolSet]
    /\ \A s \in Replacers : s # r => tool'[s] = tool[s]
    /\ NewCall(tool[r].call, tool'[r].call)
    /\ Elsewhere(tool[r].call, tool'[r].call)
    /\ ToolKnows(r)'

(* So does a command that reads and asks for at most one safe thing.       *)
LEMMA ToolReadsKept ==
  ASSUME EditsInv, NEW r \in Replacers, ToolReads(r)
  PROVE  Kept
  <1> DEFINE Q == {q \in {tool'[r].call} : q # NoAsset /\ q # tool[r].call}
  <1>1. Pending' \subseteq Pending \cup Q
    BY DEF ToolReads, Pending, Only
  <1>2. Asking(Q)
    BY <1>1 DEF Asking, ToolReads, Only, NewCall
  <1> HIDE DEF Q
  <1>4. ReleaseInv' /\ Promised' = Promised
    BY <1>2, AskingInv DEF EditsInv
  <1>6. EditorsTyped'
    BY DEF EditsInv, EditorsTyped, ToolReads, Only
  <1>7. ASSUME NEW i \in GroupJobs PROVE JobKnows(i)'
    BY <1>4 DEF EditsInv, ToolReads, JobKnows, StagedSet
  <1>8. ASSUME NEW s \in Replacers PROVE ToolKnows(s)'
    BY DEF EditsInv, ToolReads, ToolKnows
  <1> QED
    BY <1>4, <1>6, <1>7, <1>8 DEF Kept, EditsInv
-----------------------------------------------------------------------------
(* The steps of a job.                                                     *)
(* A job's record is all that a step of the job writes.                    *)
LEMMA Rewritten ==
  ASSUME NEW j \in GroupJobs, job \in [GroupJobs -> JobSet], NEW new \in JobSet,
         job' = [job EXCEPT ![j] = new]
  PROVE  /\ job' \in [GroupJobs -> JobSet] /\ job'[j] = new
         /\ \A i \in GroupJobs : i # j => job'[i] = job[i]
  OBVIOUS

Ordinary ==
    Places \ {"upload", "staged", "complete", "admitted", "repair", "deleted", "uploaded"}

(* A job that moves on without learning anything.                          *)
LEMMA Becoming ==
  ASSUME EditsInv, NEW j \in GroupJobs, NEW pc \in Ordinary,
         Become(j, pc), Reading, UNCHANGED tool
  PROVE  JobReads(j)
  <1>1. pc \in Places /\ pc \notin {"upload", "staged", "complete", "admitted", "repair",
                                   "deleted", "uploaded"}
    BY DEF Ordinary
  <1>2. job \in [GroupJobs -> JobSet] /\ JobKnows(j)
    BY DEF EditsInv, EditorsTyped
  <1>3. job' \in [GroupJobs -> JobSet] /\ \A i \in GroupJobs : i # j => job'[i] = job[i]
    BY <1>1, <1>2 DEF Become, JobSet
  <1>4. job'[j] = [job[j] EXCEPT !.pc = pc]
    BY <1>2 DEF Become
  <1>5. /\ job'[j].pc = pc /\ job'[j].call = job[j].call /\ job'[j].plan = job[j].plan
        /\ job'[j].stage = job[j].stage
    BY <1>2, <1>4 DEF JobSet
  <1>6. JobKnows(j)'
    BY <1>1, <1>2, <1>5 DEF JobKnows
  <1> QED
    BY <1>3, <1>5, <1>6 DEF JobReads, NewCall, Elsewhere

(* A job that sends a safe request and goes on with its readback.          *)
LEMMA Sending ==
  ASSUME EditsInv, NEW j \in GroupJobs, NEW pc \in Ordinary,
         NEW q, Safe(q), Apart(q),
         Send(j, q, pc), Reading, UNCHANGED tool
  PROVE  JobReads(j)
  <1>1. pc \in Places /\ pc \notin {"upload", "staged", "complete", "admitted", "repair",
                                   "deleted", "uploaded"}
        /\ q \in RequestSet
    BY DEF Ordinary, Safe, Fine
  <1>2. job \in [GroupJobs -> JobSet] /\ JobKnows(j)
    BY DEF EditsInv, EditorsTyped
  <1> DEFINE new == [job[j] EXCEPT !.call = q, !.pc = pc]
  <1>7. new \in JobSet
    BY <1>1, <1>2 DEF JobSet
  <1>8. job' = [job EXCEPT ![j] = new]
    BY <1>2 DEF Send
  <1> HIDE DEF new
  <1>3. /\ job' \in [GroupJobs -> JobSet] /\ job'[j] = new
        /\ \A i \in GroupJobs : i # j => job'[i] = job[i]
    BY <1>2, <1>7, <1>8
  <1>4. job'[j] = [job[j] EXCEPT !.call = q, !.pc = pc]
    BY <1>3 DEF new
  <1>5. /\ job'[j].pc = pc /\ job'[j].call = q /\ job'[j].plan = job[j].plan
        /\ job'[j].stage = job[j].stage
    BY <1>2, <1>4 DEF JobSet
  <1>6. JobKnows(j)'
    BY <1>1, <1>2, <1>5 DEF JobKnows
  <1> QED
    BY <1>3, <1>5, <1>6 DEF JobReads, NewCall, Elsewhere

(* The plan of an append: it refuses a conflict, or knows what is missing. *)
LEMMA PlanReads ==
  ASSUME EditsInv, NEW j \in AppendJobs, PlanAppend(j), Reading, UNCHANGED tool
  PROVE  JobReads(j)
  <1>1. j \in GroupJobs /\ j \notin RepairJobs
    BY DisjointJobs DEF GroupJobs
  <1>2. CASE FailJob(j)
    <2>1. "failed" \in Ordinary
      BY DEF Ordinary, Places
    <2> QED
      BY <1>1, <1>2, <2>1, Becoming DEF FailJob
  <1>3. CASE /\ ~PlanConflict(j)
             /\ job' = [job EXCEPT ![j].pc = "upload", ![j].expected = Inventory,
                                   ![j].plan = Missing(j), ![j].stage = NoAsset]
    <2>1. AssetsTyped /\ job \in [GroupJobs -> JobSet] /\ JobKnows(j)
      BY <1>1 DEF EditsInv, EditorsTyped, ReleaseInv
    <2>2. Inventory \in SUBSET Files
      BY <2>1 DEF Inventory, AssetsTyped, AssetSet, Files
    <2>3. Missing(j) \subseteq Payload(j) /\ Missing(j) \in SUBSET Files
      BY NamesTyped DEF Missing, Files
    <2> DEFINE new == [job[j] EXCEPT !.pc = "upload", !.expected = Inventory,
                                     !.plan = Missing(j), !.stage = NoAsset]
    <2>4. /\ new \in JobSet /\ new.pc = "upload" /\ new.call = job[j].call
          /\ new.plan = Missing(j) /\ new.stage = NoAsset /\ new.expected = Inventory
      BY <1>1, <2>1, <2>2, <2>3 DEF JobSet, Places
    <2>5. job' = [job EXCEPT ![j] = new]
      BY <1>3
    <2> HIDE DEF new
    <2>6. /\ job' \in [GroupJobs -> JobSet] /\ job'[j] = new
          /\ \A i \in GroupJobs : i # j => job'[i] = job[i]
      BY <1>1, <2>1, <2>4, <2>5, Rewritten
    <2>7. ASSUME NEW f \in Payload(j), f \notin Missing(j) PROVE f \in Inventory
      <3>1. Present(f[1]) /\ At(f[1]).digest = f[2]
        BY <1>3, <2>7 DEF Missing, PlanConflict
      <3>2. At(f[1]) \in assets /\ At(f[1]).name = f[1]
        BY <2>1, <3>1, Looks
      <3>3. f = <<f[1], f[2]>>
        BY DEF Payload
      <3> QED
        BY <3>1, <3>2, <3>3 DEF Inventory
    <2>8. JobKnows(j)'
      BY <1>1, <2>1, <2>3, <2>4, <2>6, <2>7 DEF JobKnows
    <2> QED
      BY <2>4, <2>6, <2>8 DEF JobReads, NewCall, Elsewhere
  <1> QED
    BY <1>2, <1>3 DEF PlanAppend

(* The group becomes a job's.                                              *)
LEMMA StartReads ==
  ASSUME EditsInv, NEW j \in GroupJobs, Start(j), UNCHANGED tool
  PROVE  JobReads(j)
  <1>1. CASE j \in RepairJobs
    <2>1. job \in [GroupJobs -> JobSet] /\ JobKnows(j) /\ job[j].canonical # NoAsset
      BY <1>1 DEF EditsInv, EditorsTyped, JobKnows, Start
    <2> DEFINE new == [job[j] EXCEPT !.pc = "repair"]
    <2>2. /\ new \in JobSet /\ new.pc = "repair" /\ new.call = job[j].call
          /\ new.canonical = job[j].canonical
      BY <2>1 DEF JobSet, Places
    <2>3. job' = [job EXCEPT ![j] = new]
      BY <1>1 DEF Start, Become
    <2> HIDE DEF new
    <2>4. /\ job' \in [GroupJobs -> JobSet] /\ job'[j] = new
          /\ \A i \in GroupJobs : i # j => job'[i] = job[i]
      BY <2>1, <2>2, <2>3, Rewritten
    <2>5. JobKnows(j)'
      BY <1>1, <2>1, <2>2, <2>4, DisjointJobs DEF JobKnows
    <2> QED
      BY <2>2, <2>4, <2>5 DEF JobReads, NewCall, Elsewhere, Start
  <1>2. CASE j \notin RepairJobs
    <2>1. "inspect" \in Ordinary
      BY DEF Ordinary, Places
    <2> QED
      BY <1>2, <2>1, Becoming DEF Start
  <1> QED
    BY <1>1, <1>2

(* A staged manifest is deleted, promoted, or the public one makes room.   *)
LEMMA RecoverReads ==
  ASSUME EditsInv, NEW j \in AppendJobs, NEW z, Stages = {z}, Recover(j, z),
         Reading, UNCHANGED tool
  PROVE  JobReads(j)
  <1>1. j \in GroupJobs /\ j \notin RepairJobs /\ ReleaseInv
    BY DisjointJobs DEF GroupJobs, EditsInv
  <1>2. z \in assets /\ z.name[1] = "manifest" /\ z.name # Manifest
    BY <1>1, ManifestsFound
  <1>3. {"failed", "recovered", "recover"} \subseteq Ordinary
    BY DEF Ordinary, Places
  <1>4. CASE FailJob(j)
    BY <1>1, <1>3, <1>4, Becoming DEF FailJob
  <1>5. CASE Canonical # NoAsset /\ Listed = z.digest /\ Send(j, Delete(z), "recovered")
    <2>1. Safe(Delete(z))
      BY <1>1, <1>5, DeleteStage
    <2>2. Apart(Delete(z))
      BY <1>2, NamesApart DEF Delete, Apart
    <2> QED
      BY <1>1, <1>3, <1>5, <2>1, <2>2, Sending
  <1>6. ASSUME NEW q, Safe(q), Apart(q), NEW pc \in {"recover", "recovered"},
               job' = [job EXCEPT ![j].call = q, ![j].pc = pc, ![j].stage = z]
        PROVE  JobReads(j)
    <2>1. q \in RequestSet /\ z \in AssetSet
      BY <1>1, <1>2, <1>6 DEF Safe, Fine, ReleaseInv, AssetsTyped
    <2>2. job \in [GroupJobs -> JobSet] /\ JobKnows(j)
      BY <1>1 DEF EditsInv, EditorsTyped
    <2> DEFINE new == [job[j] EXCEPT !.call = q, !.pc = pc, !.stage = z]
    <2>3. /\ new \in JobSet /\ new.pc = pc /\ new.call = q
          /\ new.plan = job[j].plan /\ new.stage = z
      BY <1>1, <1>6, <2>1, <2>2 DEF JobSet, Places
    <2>4. job' = [job EXCEPT ![j] = new]
      BY <1>6
    <2> HIDE DEF new
    <2>5. /\ job' \in [GroupJobs -> JobSet] /\ job'[j] = new
          /\ \A i \in GroupJobs : i # j => job'[i] = job[i]
      BY <1>1, <2>2, <2>3, <2>4, Rewritten
    <2>6. JobKnows(j)'
      BY <1>1, <1>2, <1>6, <2>2, <2>3, <2>5 DEF JobKnows
    <2> QED
      BY <1>6, <2>3, <2>5, <2>6 DEF JobReads, NewCall, Elsewhere
  <1>7. CASE /\ Canonical # NoAsset /\ Listed # z.digest /\ Listed \subseteq z.digest
             /\ job' = [job EXCEPT ![j].call = Delete(Canonical),
                                   ![j].pc = "recover", ![j].stage = z]
    <2>1. Safe(Delete(Canonical))
      BY <1>1, <1>7, DeleteCanonical
    <2>2. Delete(Canonical).name[1] = "manifest"
      BY <1>1, <1>7, ManifestsFound, Shapes DEF Delete
    <2>3. Apart(Delete(Canonical))
      BY <2>2, NamesApart DEF Apart
    <2> QED
      BY <1>6, <1>7, <2>1, <2>3
  <1>8. CASE job' = [job EXCEPT ![j].call = Rename(z, Manifest),
                                ![j].pc = "recovered", ![j].stage = z]
    <2>1. Safe(Rename(z, Manifest))
      BY <1>1, <1>2, RenameManifest
    <2>2. Apart(Rename(z, Manifest))
      BY DEF Rename, Apart
    <2> QED
      BY <1>6, <1>8, <2>1, <2>2
  <1> QED
    BY <1>4, <1>5, <1>7, <1>8 DEF Recover, Successor

(* The first look of an append: a plan, a recovery or a failure.           *)
LEMMA InspectReads ==
  ASSUME EditsInv, NEW j \in AppendJobs, Inspect(j), UNCHANGED tool
  PROVE  JobReads(j)
  <1>1. j \in GroupJobs /\ Reading /\ ReleaseInv
    BY DEF GroupJobs, Inspect, EditsInv
  <1>2. CASE PlanAppend(j)
    BY <1>1, <1>2, PlanReads
  <1>3. CASE FailJob(j)
    <2>1. "failed" \in Ordinary
      BY DEF Ordinary, Places
    <2> QED
      BY <1>1, <1>3, <2>1, Becoming DEF FailJob
  <1>4. CASE Cardinality(Stages) = 1 /\ \E staged \in Stages : Recover(j, staged)
    <2>1. PICK z \in Stages : Recover(j, z)
      BY <1>4
    <2>2. Stages = {z}
      BY <1>1, <1>4, ManifestsFound, FS_Singleton
    <2> QED
      BY <1>1, <2>1, <2>2, RecoverReads
  <1> QED
    BY <1>2, <1>3, <1>4 DEF Inspect

(* With the public manifest gone, the staged one is promoted.              *)
LEMMA PromoteReads ==
  ASSUME EditsInv, NEW j \in AppendJobs, NEW from, NEW to \in {"recovered", "final"},
         PromoteStage(j, from, to), UNCHANGED tool
  PROVE  JobReads(j)
  <1>1. j \in GroupJobs /\ j \notin RepairJobs /\ ReleaseInv /\ Reading
    BY DisjointJobs DEF GroupJobs, EditsInv, PromoteStage
  <1>2. {"failed", "recovered", "final"} \subseteq Ordinary
    BY DEF Ordinary, Places
  <1>3. CASE FailJob(j)
    BY <1>1, <1>2, <1>3, Becoming DEF FailJob
  <1>4. CASE job[j].stage \in assets /\ Send(j, Rename(job[j].stage, Manifest), to)
    <2>1. job[j].stage # NoAsset
      BY <1>1, <1>4, NothingApart DEF ReleaseInv, AssetsTyped
    <2>2. job[j].stage.name[1] = "manifest"
      BY <1>1, <2>1 DEF EditsInv, JobKnows
    <2>3. Safe(Rename(job[j].stage, Manifest))
      BY <1>1, <1>4, <2>2, RenameManifest
    <2>4. Apart(Rename(job[j].stage, Manifest))
      BY DEF Rename, Apart
    <2> QED
      BY <1>1, <1>2, <1>4, <2>3, <2>4, Sending
  <1>5. \/ FailJob(j)
        \/ job[j].stage \in assets /\ Send(j, Rename(job[j].stage, Manifest), to)
    BY DEF PromoteStage
  <1> QED
    BY <1>3, <1>4, <1>5

(* After the recovery of a staged manifest the append plans anew.          *)
LEMMA RecoveredReads ==
  ASSUME EditsInv, NEW j \in AppendJobs, Recovered(j), UNCHANGED tool
  PROVE  JobReads(j)
  <1>1. j \in GroupJobs /\ Reading /\ "failed" \in Ordinary
    BY DEF GroupJobs, Recovered, Ordinary, Places
  <1>2. PlanAppend(j) \/ FailJob(j)
    BY Zenon DEF Recovered
  <1> QED
    BY <1>1, <1>2, PlanReads, Becoming DEF FailJob

(* One of the planned files is uploaded, or found to be there.             *)
LEMMA UploadReads ==
  ASSUME EditsInv, NEW j \in AppendJobs, UploadFile(j), UNCHANGED tool
  PROVE  JobReads(j)
  <1>1. j \in GroupJobs /\ j \notin RepairJobs /\ Reading /\ job[j].pc = "upload"
        /\ job[j].call = NoAsset
    BY DisjointJobs DEF GroupJobs, UploadFile, Reads
  <1>2. CASE FailJob(j)
    <2>1. "failed" \in Ordinary
      BY DEF Ordinary, Places
    <2> QED
      BY <1>1, <1>2, <2>1, Becoming DEF FailJob
  <1>3. CASE \E f \in job[j].plan :
               job' = [job EXCEPT ![j].call = Upload(f[1], f[2]),
                                  ![j].plan = @ \ {f},
                                  ![j].expected = @ \cup {f}]
    <2>1. PICK f \in job[j].plan :
               job' = [job EXCEPT ![j].call = Upload(f[1], f[2]),
                                  ![j].plan = @ \ {f},
                                  ![j].expected = @ \cup {f}]
      BY <1>3
    <2>2. job \in [GroupJobs -> JobSet] /\ JobKnows(j)
      BY <1>1 DEF EditsInv, EditorsTyped
    <2>3. f \in Payload(j) /\ f \in Files
      BY <1>1, <2>2, NamesTyped DEF JobKnows, Files
    <2> DEFINE q == Upload(f[1], f[2])
    <2>4. q.op = "upload" /\ q.name = f[1] /\ q.name[1] \in AppendedFiles /\ q \in RequestSet
      <3>1. PICK g \in FilesOf[Platform[j]] : f[1] = PublicName(g)
        BY <2>3 DEF Payload
      <3>2. g \in AppendedFiles
        BY NamesApart DEF AppendedFiles
      <3>3. f[1][1] = g
        BY <3>1, Shapes
      <3> QED
        BY <2>3, <3>2, <3>3 DEF Upload, RequestSet, Files
    <2>5. Safe(q)
      BY <2>4 DEF Safe, Fine, UploadFine
    <2>6. Apart(q)
      BY <2>4, NamesApart DEF Apart
    <2> HIDE DEF q
    <2> DEFINE new == [job[j] EXCEPT !.call = q, !.plan = @ \ {f}, !.expected = @ \cup {f}]
    <2>7. /\ new \in JobSet /\ new.pc = "upload" /\ new.call = q
          /\ new.plan = job[j].plan \ {f} /\ new.stage = job[j].stage
          /\ new.expected = job[j].expected \cup {f}
      <3>1. job[j] \in JobSet /\ job[j].pc = "upload"
        BY <1>1, <2>2
      <3>2. job[j].plan \ {f} \in SUBSET Files /\ job[j].expected \cup {f} \in SUBSET Files
        BY <2>3, <3>1 DEF JobSet
      <3>3. q \in RequestSet
        BY <2>4
      <3> QED
        BY <3>1, <3>2, <3>3 DEF JobSet
    <2>8. job' = [job EXCEPT ![j] = new]
      BY <2>1 DEF q
    <2> HIDE DEF new
    <2>9. /\ job' \in [GroupJobs -> JobSet] /\ job'[j] = new
          /\ \A i \in GroupJobs : i # j => job'[i] = job[i]
      BY <1>1, <2>2, <2>7, <2>8, Rewritten
    <2>10. JobKnows(j)'
      BY <1>1, <2>2, <2>7, <2>9 DEF JobKnows
    <2> QED
      BY <1>1, <2>5, <2>6, <2>7, <2>9, <2>10 DEF JobReads, NewCall, Elsewhere
  <1> QED
    BY <1>2, <1>3 DEF UploadFile

(* With all files up, the next manifest is staged.                         *)
LEMMA StageReads ==
  ASSUME EditsInv, NEW j \in AppendJobs, StageManifest(j), UNCHANGED tool
  PROVE  JobReads(j)
  <1>1. j \in GroupJobs /\ j \notin RepairJobs /\ Reading /\ job[j].pc = "upload"
        /\ job[j].plan = {} /\ ReleaseInv
    BY DisjointJobs DEF GroupJobs, StageManifest, Reads, EditsInv
  <1>2. {"failed", "final"} \subseteq Ordinary
    BY DEF Ordinary, Places
  <1>3. CASE FailJob(j)
    BY <1>1, <1>2, <1>3, Becoming DEF FailJob
  <1>4. CASE Become(j, "final")
    BY <1>1, <1>2, <1>4, Becoming
  <1> DEFINE merged == Merge(Listed, j)
             q == Upload(StagedName("manifest", merged), merged)
  <1>5. CASE /\ Unchanged(j) /\ Entry(j) \notin Listed
             /\ job' = [job EXCEPT ![j].call = q, ![j].canonical = Canonical,
                                   ![j].pc = "staged"]
    <2>1. job \in [GroupJobs -> JobSet] /\ JobKnows(j) /\ AssetsTyped /\ ManifestsTrue
      BY <1>1 DEF EditsInv, EditorsTyped, ReleaseInv
    <2>2. Canonical \in AssetSet \cup {NoAsset} /\ Listed \in Digests /\ Backed(Listed)
      <3>1. CASE Canonical = NoAsset
        BY <3>1 DEF Listed, Digests, Backed
      <3>2. CASE Canonical # NoAsset
        <4>1. Canonical \in assets /\ Listed = Canonical.digest /\ Canonical.name[1] = "manifest"
          BY <1>1, <3>2, ManifestsFound, Shapes
        <4> QED
          BY <2>1, <4>1 DEF AssetsTyped, AssetSet, ManifestsTrue
      <3> QED
        BY <3>1, <3>2
    <2>3. Payload(j) \subseteq Inventory
      BY <1>1, <1>5, <2>1 DEF JobKnows, Unchanged
    <2>4. Backed({Entry(j)})
      BY <2>3, NamesApart DEF Backed, BuildIsUp, Entry, Payload
    <2>5. Backed(merged) /\ merged \in Digests /\ merged # {}
      BY <2>2, <2>4, NamesTyped DEF Merge, Backed, Digests
    <2> HIDE DEF merged
    <2>6. q.op = "upload" /\ q.name = StagedName("manifest", merged) /\ q.digest = merged
          /\ q \in RequestSet
      BY <2>5, NamesTyped DEF Upload, RequestSet
    <2> HIDE DEF q
    <2>7. Safe(q)
      BY <2>5, <2>6 DEF Safe, Fine, UploadFine
    <2>8. Apart(q)
      BY <2>6, NamesApart, Shapes DEF Apart
    <2> DEFINE new == [job[j] EXCEPT !.call = q, !.canonical = Canonical, !.pc = "staged"]
    <2>9. /\ new \in JobSet /\ new.pc = "staged" /\ new.call = q
          /\ new.plan = job[j].plan /\ new.stage = job[j].stage
          /\ new.canonical = Canonical
      BY <1>1, <2>1, <2>2, <2>6 DEF JobSet, Places
    <2>10. job' = [job EXCEPT ![j] = new]
      BY <1>5
    <2> HIDE DEF new
    <2>11. /\ job' \in [GroupJobs -> JobSet] /\ job'[j] = new
           /\ \A i \in GroupJobs : i # j => job'[i] = job[i]
      BY <1>1, <2>1, <2>9, <2>10, Rewritten
    <2>12. StagedSet(j)' = Listed
      BY <2>9, <2>11 DEF StagedSet, Listed
    <2>13. JobKnows(j)'
      BY <1>1, <1>5, <2>1, <2>9, <2>11, <2>12 DEF JobKnows
    <2> QED
      BY <1>1, <2>7, <2>8, <2>9, <2>11, <2>13 DEF JobReads, NewCall, Elsewhere
  <1> QED
    BY <1>3, <1>4, <1>5 DEF StageManifest

(* The public manifest makes room for the staged one, once both were seen. *)
LEMMA ReplaceReads ==
  ASSUME EditsInv, NEW j \in AppendJobs, ReplaceManifest(j), UNCHANGED tool
  PROVE  JobReads(j)
  <1>1. j \in GroupJobs /\ j \notin RepairJobs /\ Reading /\ job[j].pc = "staged"
        /\ ReleaseInv /\ job \in [GroupJobs -> JobSet] /\ JobKnows(j)
    BY DisjointJobs DEF GroupJobs, ReplaceManifest, Reads, EditsInv, EditorsTyped
  <1>2. CASE FailJob(j)
    <2>1. "failed" \in Ordinary
      BY DEF Ordinary, Places
    <2> QED
      BY <1>1, <1>2, <2>1, Becoming DEF FailJob
  <1>3. CASE /\ CanReplace(j)
             /\ LET stage == CHOOSE a \in Stages : TRUE IN
                IF Canonical = NoAsset
                THEN job' = [job EXCEPT ![j].call = Rename(stage, Manifest),
                                        ![j].stage = stage, ![j].pc = "final"]
                ELSE job' = [job EXCEPT ![j].call = Delete(Canonical),
                                        ![j].stage = stage, ![j].pc = "promote"]
    <2>1. PICK z : Stages = {z}
      BY <1>1, <1>3, ManifestsFound, FS_Singleton DEF CanReplace
    <2>2. (CHOOSE a \in Stages : TRUE) = z
      BY <2>1
    <2>3. z \in assets /\ z.name[1] = "manifest" /\ z \in AssetSet
      BY <1>1, <2>1, ManifestsFound DEF ReleaseInv, AssetsTyped
    <2>4. z.digest = Merge(StagedSet(j), j) /\ Canonical = job[j].canonical
      BY <1>3, <2>1 DEF CanReplace
    <2>5. Listed = StagedSet(j) /\ Entry(j) \notin Listed
      BY <1>1, <2>4 DEF Listed, StagedSet, JobKnows
    <2>6. Listed \subseteq z.digest /\ Listed # z.digest
      BY <2>4, <2>5 DEF Merge
    <2>7. ASSUME NEW q, Safe(q), Apart(q), NEW pc \in {"final", "promote"},
                 job' = [job EXCEPT ![j].call = q, ![j].stage = z, ![j].pc = pc]
          PROVE  JobReads(j)
      <3> DEFINE new == [job[j] EXCEPT !.call = q, !.stage = z, !.pc = pc]
      <3>1. q \in RequestSet
        BY <2>7 DEF Safe, Fine
      <3>2. /\ new \in JobSet /\ new.pc = pc /\ new.call = q
            /\ new.plan = job[j].plan /\ new.stage = z
        BY <1>1, <2>3, <2>7, <3>1 DEF JobSet, Places
      <3>3. job' = [job EXCEPT ![j] = new]
        BY <2>7
      <3> HIDE DEF new
      <3>4. /\ job' \in [GroupJobs -> JobSet] /\ job'[j] = new
            /\ \A i \in GroupJobs : i # j => job'[i] = job[i]
        BY <1>1, <3>2, <3>3, Rewritten
      <3>5. JobKnows(j)'
        BY <1>1, <2>3, <2>7, <3>2, <3>4 DEF JobKnows
      <3> QED
        BY <1>1, <2>7, <3>2, <3>4, <3>5 DEF JobReads, NewCall, Elsewhere
    <2>8. CASE Canonical = NoAsset
      <3>1. Safe(Rename(z, Manifest)) /\ Apart(Rename(z, Manifest))
        BY <1>1, <2>3, RenameManifest DEF Rename, Apart
      <3>2. job' = [job EXCEPT ![j].call = Rename(z, Manifest), ![j].stage = z, ![j].pc = "final"]
        BY <1>3, <2>2, <2>8
      <3> QED
        BY <2>7, <3>1, <3>2
    <2>9. CASE Canonical # NoAsset
      <3>1. Safe(Delete(Canonical))
        BY <1>1, <2>1, <2>6, <2>9, DeleteCanonical
      <3>2. Delete(Canonical).name[1] = "manifest"
        BY <1>1, <2>9, ManifestsFound, Shapes DEF Delete
      <3>3. Apart(Delete(Canonical))
        BY <3>2, NamesApart DEF Apart
      <3>4. job' = [job EXCEPT ![j].call = Delete(Canonical), ![j].stage = z, ![j].pc = "promote"]
        BY <1>3, <2>2, <2>9
      <3> QED
        BY <2>7, <3>1, <3>3, <3>4
    <2> QED
      BY <2>8, <2>9
  <1> QED
    BY <1>2, <1>3 DEF ReplaceManifest

(* A completed append found its entry in the manifest.                     *)
LEMMA FinishReads ==
  ASSUME EditsInv, NEW j \in AppendJobs, FinishAppend(j), UNCHANGED tool
  PROVE  JobReads(j)
  <1>1. j \in GroupJobs /\ j \notin RepairJobs /\ Reading
        /\ job \in [GroupJobs -> JobSet] /\ JobKnows(j)
    BY DisjointJobs DEF GroupJobs, FinishAppend, EditsInv, EditorsTyped
  <1>2. CASE FailJob(j)
    <2>1. "failed" \in Ordinary
      BY DEF Ordinary, Places
    <2> QED
      BY <1>1, <1>2, <2>1, Becoming DEF FailJob
  <1>3. CASE AppendComplete(j) /\ Become(j, "complete")
    <2> DEFINE new == [job[j] EXCEPT !.pc = "complete"]
    <2>1. /\ new \in JobSet /\ new.pc = "complete" /\ new.call = job[j].call
          /\ new.plan = job[j].plan /\ new.stage = job[j].stage
      BY <1>1 DEF JobSet, Places
    <2>2. job' = [job EXCEPT ![j] = new]
      BY <1>3 DEF Become
    <2> HIDE DEF new
    <2>3. /\ job' \in [GroupJobs -> JobSet] /\ job'[j] = new
          /\ \A i \in GroupJobs : i # j => job'[i] = job[i]
      BY <1>1, <2>1, <2>2, Rewritten
    <2>4. Entry(j) \in Promised
      BY <1>3 DEF AppendComplete, Promised
    <2>5. Promised' = Promised
      BY <1>1 DEF Reading, Promised, Listed, Canonical, Stages, At, Present, Found
    <2>6. JobKnows(j)'
      BY <1>1, <2>1, <2>3, <2>4, <2>5 DEF JobKnows
    <2> QED
      BY <1>1, <2>1, <2>3, <2>6 DEF JobReads, NewCall, Elsewhere
  <1> QED
    BY <1>2, <1>3 DEF FinishAppend

(* The repair binds the installer it saw, deletes it, and uploads.         *)
LEMMA AdmitReads ==
  ASSUME EditsInv, NEW j \in RepairJobs, Admit(j), UNCHANGED tool
  PROVE  JobReads(j)
  <1>1. j \in GroupJobs /\ j \notin AppendJobs /\ Reading /\ AssetsTyped
        /\ job \in [GroupJobs -> JobSet] /\ JobKnows(j)
    BY DisjointJobs DEF GroupJobs, Admit, EditsInv, EditorsTyped, ReleaseInv
  <1>2. CASE FailJob(j)
    <2>1. "failed" \in Ordinary
      BY DEF Ordinary, Places
    <2> QED
      BY <1>1, <1>2, <2>1, Becoming DEF FailJob
  <1>3. CASE /\ Present(Installer)
             /\ job' = [job EXCEPT ![j].pc = "admitted", ![j].canonical = At(Installer)]
    <2>1. At(Installer) # NoAsset /\ At(Installer) \in AssetSet
      BY <1>1, <1>3, Looks DEF AssetsTyped
    <2> DEFINE new == [job[j] EXCEPT !.pc = "admitted", !.canonical = At(Installer)]
    <2>2. /\ new \in JobSet /\ new.pc = "admitted" /\ new.call = job[j].call
          /\ new.canonical = At(Installer)
      BY <1>1, <2>1 DEF JobSet, Places
    <2>3. job' = [job EXCEPT ![j] = new]
      BY <1>3
    <2> HIDE DEF new
    <2>4. /\ job' \in [GroupJobs -> JobSet] /\ job'[j] = new
          /\ \A i \in GroupJobs : i # j => job'[i] = job[i]
      BY <1>1, <2>2, <2>3, Rewritten
    <2>5. JobKnows(j)'
      BY <1>1, <2>1, <2>2, <2>4 DEF JobKnows
    <2> QED
      BY <1>1, <2>2, <2>4, <2>5 DEF JobReads, NewCall, Elsewhere
  <1> QED
    BY <1>2, <1>3 DEF Admit

(* The repair looks at the installer it is to replace.                     *)
LEMMA RepairReads ==
  ASSUME EditsInv, NEW j \in RepairJobs, RepairInspect(j), UNCHANGED tool
  PROVE  JobReads(j)
  <1>1. j \in GroupJobs /\ j \notin AppendJobs /\ Reading /\ ReleaseInv /\ AssetsTyped
        /\ job \in [GroupJobs -> JobSet] /\ JobKnows(j) /\ job[j].pc = "repair"
    BY DisjointJobs DEF GroupJobs, RepairInspect, Reads, EditsInv, EditorsTyped, ReleaseInv
  <1>2. CASE FailJob(j)
    <2>1. "failed" \in Ordinary
      BY DEF Ordinary, Places
    <2> QED
      BY <1>1, <1>2, <2>1, Becoming DEF FailJob
  <1> DEFINE a == At(Installer)
             left == Inventory \ {<<Installer, a.digest>>}
             q == Delete(a)
  <1>3. CASE /\ a = job[j].canonical /\ a.digest # Repaired[j]
             /\ job' = [job EXCEPT ![j].call = q, ![j].pc = "deleted", ![j].expected = left]
    <2>1. a # NoAsset
      BY <1>1, <1>3 DEF JobKnows
    <2>2. a \in assets /\ a.name = Installer /\ a.name[1] = "installer"
      BY <1>1, <2>1, Looks, Shapes
    <2>3. left \in SUBSET Files
      BY <1>1 DEF Inventory, AssetsTyped, AssetSet, Files
    <2>6. ASSUME NEW e \in left PROVE e[1] # Installer
      <3>1. PICK c \in assets : e = <<c.name, c.digest>>
        BY DEF Inventory
      <3>2. c = a => e = <<Installer, a.digest>>
        BY <2>2, <3>1
      <3>3. c.name = Installer => c = a
        BY <1>1, <2>2 DEF AssetsTyped
      <3> QED
        BY <3>1, <3>2, <3>3
    <2> HIDE DEF a, left
    <2>4. Fine(q) /\ q.id = a.id /\ q.op = "delete" /\ q.digest = a.digest /\ q \in RequestSet
      BY <1>1, <2>2, DeleteManifest DEF Delete, Fine
    <2>5. SafeDelete(a.id)
      <3>1. \A b \in Items : a.id # Current(b).id
        BY <1>1, <2>2, ManifestIds
      <3>2. \A c \in assets : c.id = a.id => c.name[1] # "manifest"
        BY <1>1, <2>2 DEF AssetsTyped
      <3> QED
        BY <3>1, <3>2, Shapes DEF SafeDelete, Publics, Stages
    <2> HIDE DEF q
    <2> DEFINE new == [job[j] EXCEPT !.call = q, !.pc = "deleted", !.expected = left]
    <2>7. new \in JobSet /\ new.pc = "deleted" /\ new.call = q /\ new.expected = left
      BY <1>1, <2>3, <2>4 DEF JobSet, Places
    <2>8. job' = [job EXCEPT ![j] = new]
      BY <1>3
    <2> HIDE DEF new
    <2>9. /\ job' \in [GroupJobs -> JobSet] /\ job'[j] = new
          /\ \A i \in GroupJobs : i # j => job'[i] = job[i]
      BY <1>1, <2>7, <2>8, Rewritten
    <2>10. JobKnows(j)'
      BY <1>1, <2>6, <2>7, <2>9 DEF JobKnows
    <2> QED
      BY <1>1, <2>4, <2>5, <2>7, <2>9, <2>10 DEF JobReads, NewCall, Elsewhere, Safe
  <1> QED
    BY <1>2, <1>3 DEF RepairInspect

(* The repair uploads the installer, and then its receipt.                 *)
LEMMA RepairUploadReads ==
  ASSUME EditsInv, NEW j \in RepairJobs, NEW from, NEW name, NEW digest, NEW to,
         \/ from = "deleted" /\ name = Installer /\ digest = Repaired[j] /\ to = "uploaded"
         \/ from = "uploaded" /\ name = Receipt(j) /\ digest = {<<j, "receipt">>}
            /\ to = "receipted",
         RepairUpload(j, from, name, digest, to), UNCHANGED tool
  PROVE  JobReads(j)
  <1>1. j \in GroupJobs /\ j \notin AppendJobs /\ Reading
        /\ job \in [GroupJobs -> JobSet] /\ JobKnows(j) /\ job[j].pc = from
    BY DisjointJobs DEF GroupJobs, RepairUpload, Reads, EditsInv, EditorsTyped
  <1>2. CASE FailJob(j)
    <2>1. "failed" \in Ordinary
      BY DEF Ordinary, Places
    <2> QED
      BY <1>1, <1>2, <2>1, Becoming DEF FailJob
  <1> DEFINE q == Upload(name, digest)
  <1>3. CASE /\ Unchanged(j)
             /\ job' = [job EXCEPT ![j].call = q, ![j].pc = to,
                                   ![j].expected = @ \cup {<<name, digest>>}]
    <2>1. <<name, digest>> \in Files /\ name[1] \in {"installer"} \cup RepairJobs
      <3>1. Installer \in Bases \X Digests /\ Receipt(j) \in Bases \X Digests
        BY NamesTyped DEF Installer, Receipt
      <3>2. digest \in Digests
        BY NamesTyped
      <3>3. name[1] \in {"installer"} \cup RepairJobs
        BY Shapes
      <3> QED
        BY <3>1, <3>2, <3>3 DEF Files
    <2>2. q.op = "upload" /\ q.name = name /\ q.digest = digest /\ q \in RequestSet
      BY <2>1 DEF Upload, RequestSet, Files
    <2> HIDE DEF q
    <2>3. Safe(q)
      BY <2>1, <2>2 DEF Safe, Fine, UploadFine
    <2> DEFINE new == [job[j] EXCEPT !.call = q, !.pc = to,
                                     !.expected = @ \cup {<<name, digest>>}]
    <2>5. /\ new \in JobSet /\ new.pc = to /\ new.call = q
          /\ new.expected = job[j].expected \cup {<<name, digest>>}
      BY <1>1, <2>1, <2>2 DEF JobSet, Places
    <2>6. job' = [job EXCEPT ![j] = new]
      BY <1>3
    <2> HIDE DEF new
    <2>7. /\ job' \in [GroupJobs -> JobSet] /\ job'[j] = new
          /\ \A i \in GroupJobs : i # j => job'[i] = job[i]
      BY <1>1, <2>5, <2>6, Rewritten
    <2>8. JobKnows(j)'
      BY <1>1, <2>5, <2>7 DEF JobKnows
    <2> QED
      BY <1>1, <2>3, <2>5, <2>7, <2>8 DEF JobReads, NewCall, Elsewhere
  <1> QED
    BY <1>2, <1>3 DEF RepairUpload

(* The repair ends with the readback of its receipt.                       *)
LEMMA FinishRepairReads ==
  ASSUME EditsInv, NEW j \in RepairJobs, FinishRepair(j), UNCHANGED tool
  PROVE  JobReads(j)
  <1>1. j \in GroupJobs /\ j \notin AppendJobs /\ Reading
        /\ job \in [GroupJobs -> JobSet]
    BY DisjointJobs DEF GroupJobs, FinishRepair, EditsInv, EditorsTyped
  <1>2. PICK pc \in {"complete", "failed"} : Become(j, pc)
    BY DEF FinishRepair, FailJob
  <1> DEFINE new == [job[j] EXCEPT !.pc = pc]
  <1>3. new \in JobSet /\ new.pc = pc /\ new.call = job[j].call
    BY <1>1, <1>2 DEF JobSet, Places
  <1>4. job' = [job EXCEPT ![j] = new]
    BY <1>2 DEF Become
  <1> HIDE DEF new
  <1>5. /\ job' \in [GroupJobs -> JobSet] /\ job'[j] = new
        /\ \A i \in GroupJobs : i # j => job'[i] = job[i]
    BY <1>1, <1>3, <1>4, Rewritten
  <1>6. JobKnows(j)'
    BY <1>1, <1>2, <1>3, <1>5 DEF JobKnows
  <1> QED
    BY <1>1, <1>3, <1>5, <1>6 DEF JobReads, NewCall, Elsewhere

(* The pending request of a job lands, is refused or is lost.              *)
LEMMA CallEnds ==
  ASSUME EditsInv, NEW j \in GroupJobs, Call(j), UNCHANGED tool
  PROVE  Ending
  <1> DEFINE q == job[j].call
             new == [job[j] EXCEPT !.call = NoAsset]
  <1>1. job \in [GroupJobs -> JobSet] /\ EditorsTyped
    BY DEF EditsInv, EditorsTyped
  <1>2. /\ new \in JobSet /\ new.pc = job[j].pc /\ new.call = NoAsset
        /\ new.plan = job[j].plan /\ new.expected = job[j].expected
        /\ new.canonical = job[j].canonical /\ new.stage = job[j].stage
    BY <1>1 DEF JobSet
  <1>3. job' = [job EXCEPT ![j] = new]
    BY DEF Call
  <1> HIDE DEF new
  <1>4. /\ job' \in [GroupJobs -> JobSet] /\ job'[j] = new
        /\ \A i \in GroupJobs : i # j => job'[i] = job[i]
    BY <1>1, <1>2, <1>3, Rewritten
  <1>5. q \in Pending /\ late' = late
    BY DEF Call, Pending
  <1>6. Pending' \subseteq Pending
    BY <1>2, <1>4, <1>5 DEF Pending
  <1>7. Forgets
    BY <1>1, <1>2, <1>4, <1>5 DEF Forgets, EditorsTyped
  <1>8. CASE Land(q)
    BY <1>5, <1>6, <1>7, <1>8 DEF Ending, Landing
  <1>9. CASE UNCHANGED <<assets, issued>>
    BY <1>6, <1>7, <1>9 DEF Ending
  <1> QED
    BY <1>8, <1>9 DEF Call, Refuse

(* A job dies; its request is lost, done or on its way.                    *)
LEMMA DieEnds ==
  ASSUME EditsInv, NEW j \in GroupJobs, Die(j), UNCHANGED tool
  PROVE  Ending
  <1> DEFINE new == [job[j] EXCEPT !.pc = "dead", !.call = NoAsset]
  <1>1. job \in [GroupJobs -> JobSet] /\ EditorsTyped
    BY DEF EditsInv, EditorsTyped
  <1>2. /\ new \in JobSet /\ new.pc = "dead" /\ new.call = NoAsset
        /\ new.plan = job[j].plan /\ new.expected = job[j].expected
        /\ new.canonical = job[j].canonical /\ new.stage = job[j].stage
    BY <1>1 DEF JobSet, Places
  <1>3. job' = [job EXCEPT ![j] = new]
    BY DEF Die
  <1> HIDE DEF new
  <1>4. /\ job' \in [GroupJobs -> JobSet] /\ job'[j] = new
        /\ \A i \in GroupJobs : i # j => job'[i] = job[i]
    BY <1>1, <1>2, <1>3, Rewritten
  <1>5. late' \subseteq late \cup ({job[j].call} \ {NoAsset})
    BY DEF Die
  <1>6. Pending' \subseteq Pending
    BY <1>2, <1>4, <1>5 DEF Pending
  <1>7. late' \subseteq RequestSet
    BY <1>1, <1>5 DEF EditorsTyped, JobSet
  <1>8. Forgets
    BY <1>1, <1>2, <1>4, <1>5, <1>7 DEF Forgets, EditorsTyped
  <1> QED
    BY <1>6, <1>8 DEF Ending, Die

(* Every action of a job keeps everything.                                 *)
LEMMA JobActsKept ==
  ASSUME EditsInv, NEW j \in GroupJobs, JobActs(j)
  PROVE  Kept
  <1>1. CASE JobReads(j)
    BY <1>1, JobReadsKept
  <1>2. CASE j \in AppendJobs /\ AppendStep(j) /\ UNCHANGED tool
    <2>1. CASE PromoteStage(j, "recover", "recovered")
      BY <1>1, <1>2, <2>1, PromoteReads
    <2>2. CASE PromoteStage(j, "promote", "final")
      BY <1>1, <1>2, <2>2, PromoteReads
    <2> QED
      BY <1>1, <1>2, <2>1, <2>2, StartReads, InspectReads, RecoveredReads, UploadReads,
         StageReads, ReplaceReads, FinishReads DEF AppendStep
  <1>3. CASE j \in RepairJobs /\ RepairStep(j) /\ UNCHANGED tool
    <2>1. CASE RepairUpload(j, "deleted", Installer, Repaired[j], "uploaded")
      BY <1>1, <1>3, <2>1, RepairUploadReads
    <2>2. CASE RepairUpload(j, "uploaded", Receipt(j), {<<j, "receipt">>}, "receipted")
      BY <1>1, <1>3, <2>2, RepairUploadReads
    <2> QED
      BY <1>1, <1>3, <2>1, <2>2, StartReads, AdmitReads, RepairReads, FinishRepairReads
         DEF RepairStep
  <1> QED
    BY <1>2, <1>3, CallEnds, DieEnds, EndingKept DEF JobActs, JobStep
-----------------------------------------------------------------------------
(* The steps of a replacer.                                                *)
LEMMA ToolRewritten ==
  ASSUME NEW r \in Replacers, tool \in [Replacers -> ToolSet], NEW new \in ToolSet,
         tool' = [tool EXCEPT ![r] = new]
  PROVE  /\ tool' \in [Replacers -> ToolSet] /\ tool'[r] = new
         /\ \A s \in Replacers : s # r => tool'[s] = tool[s]
  OBVIOUS

(* A command goes on to another place, with a part of its items.           *)
LEMMA Moving ==
  ASSUME EditsInv, NEW r \in Replacers, Only, UNCHANGED job,
         NEW pc \in ToolPlaces, NEW todo \in SUBSET Items,
         todo = {} => pc \notin {"staged", "cleared", "renamed"},
         tool' = [tool EXCEPT ![r] = [tool[r] EXCEPT !.pc = pc, !.todo = todo]]
  PROVE  ToolReads(r)
  <1> DEFINE new == [tool[r] EXCEPT !.pc = pc, !.todo = todo]
  <1>1. tool \in [Replacers -> ToolSet]
    BY DEF EditsInv, EditorsTyped
  <1>2. new \in ToolSet /\ new.pc = pc /\ new.todo = todo /\ new.call = tool[r].call
    BY <1>1 DEF ToolSet
  <1> HIDE DEF new
  <1>3. /\ tool' \in [Replacers -> ToolSet] /\ tool'[r] = new
        /\ \A s \in Replacers : s # r => tool'[s] = tool[s]
    BY <1>1, <1>2, ToolRewritten DEF new
  <1> QED
    BY <1>2, <1>3 DEF ToolReads, ToolKnows, NewCall, Elsewhere

(* A command sends a safe request and goes on with its readback.           *)
LEMMA Submitting ==
  ASSUME EditsInv, NEW r \in Replacers, Only, UNCHANGED job, NEW q, Safe(q), Apart(q),
         NEW pc \in {"staged", "cleared", "renamed"}, tool[r].todo # {}, Submit(r, q, pc)
  PROVE  ToolReads(r)
  <1> DEFINE new == [tool[r] EXCEPT !.call = q, !.pc = pc]
  <1>1. tool \in [Replacers -> ToolSet] /\ q \in RequestSet
    BY DEF EditsInv, EditorsTyped, Safe, Fine
  <1>2. new \in ToolSet /\ new.pc = pc /\ new.todo = tool[r].todo /\ new.call = q
    BY <1>1 DEF ToolSet, ToolPlaces
  <1>3. tool' = [tool EXCEPT ![r] = new]
    BY DEF Submit
  <1> HIDE DEF new
  <1>4. /\ tool' \in [Replacers -> ToolSet] /\ tool'[r] = new
        /\ \A s \in Replacers : s # r => tool'[s] = tool[s]
    BY <1>1, <1>2, <1>3, ToolRewritten
  <1> QED
    BY <1>2, <1>4 DEF ToolReads, ToolKnows, NewCall, Elsewhere

(* The ways a replacer goes on without a request.                          *)
LEMMA Going ==
  ASSUME EditsInv, NEW r \in Replacers, Only, UNCHANGED job,
         \/ Move(r, "failed") \/ Move(r, "done") \/ Move(r, "items")
         \/ \E b : ItemDone(r, b, "stage") \/ ItemDone(r, b, "items")
  PROVE  ToolReads(r)
  <1>1. tool \in [Replacers -> ToolSet] /\ tool[r].todo \in SUBSET Items
    BY DEF EditsInv, EditorsTyped, ToolSet
  <1>2. {"failed", "done", "items", "stage"} \subseteq
            ToolPlaces \ {"staged", "cleared", "renamed"}
    BY DEF ToolPlaces
  <1>3. ASSUME NEW pc, Move(r, pc)
        PROVE  tool' = [tool EXCEPT ![r] = [tool[r] EXCEPT !.pc = pc, !.todo = tool[r].todo]]
    <2>1. [tool[r] EXCEPT !.pc = pc, !.todo = tool[r].todo] = [tool[r] EXCEPT !.pc = pc]
      BY <1>1 DEF ToolSet
    <2>2. tool' = [tool EXCEPT ![r] = [tool[r] EXCEPT !.pc = pc]]
      BY <1>3 DEF Move
    <2> QED
      BY <2>1, <2>2
  <1>4. CASE Move(r, "failed") \/ Move(r, "done") \/ Move(r, "items")
    BY <1>1, <1>2, <1>3, <1>4, Moving
  <1>5. CASE \E b : ItemDone(r, b, "stage") \/ ItemDone(r, b, "items")
    <2>1. PICK b : ItemDone(r, b, "stage") \/ ItemDone(r, b, "items")
      BY <1>5
    <2>2. \A pc : ItemDone(r, b, pc) =>
            tool' = [tool EXCEPT ![r] = [tool[r] EXCEPT !.pc = pc, !.todo = tool[r].todo \ {b}]]
      BY <1>1 DEF ItemDone, ToolSet
    <2>3. tool[r].todo \ {b} \in SUBSET Items
      BY <1>1
    <2>4. CASE ItemDone(r, b, "stage")
      BY <1>2, <2>2, <2>3, <2>4, Moving
    <2>5. CASE ItemDone(r, b, "items")
      BY <1>2, <2>2, <2>3, <2>5, Moving
    <2> QED
      BY <2>1, <2>4, <2>5
  <1> QED
    BY <1>4, <1>5

(* A command starts with all of its items.                                 *)
LEMMA BeginReads ==
  ASSUME EditsInv, NEW r \in Replacers, Begin(r), UNCHANGED job
  PROVE  ToolReads(r)
  <1> DEFINE pc == Commands[r][tool[r].run + 1]
             new == [tool[r] EXCEPT !.run = tool[r].run + 1, !.todo = Items, !.pc = pc]
  <1>1. tool \in [Replacers -> ToolSet] /\ tool[r].run \in Nat
    BY DEF EditsInv, EditorsTyped, ToolSet
  <1>2. pc \in {"stage", "promote"}
    <2>1. Commands[r] \in Seq({"stage", "promote"})
      BY KnownCommands
    <2>2. tool[r].run + 1 \in 1 .. Len(Commands[r])
      BY <1>1, <2>1 DEF Begin
    <2> QED
      BY <2>1, <2>2
  <1> HIDE DEF pc
  <1>3. new \in ToolSet /\ new.pc = pc /\ new.call = tool[r].call
    <2>1. tool[r] \in ToolSet /\ tool[r].run + 1 \in Nat /\ pc \in ToolPlaces
      BY <1>1, <1>2 DEF ToolPlaces
    <2> QED
      BY <2>1 DEF ToolSet
  <1>4. tool' = [tool EXCEPT ![r] = new]
    <2>1. tool[r] = [pc |-> tool[r].pc, call |-> tool[r].call, run |-> tool[r].run,
                     todo |-> tool[r].todo]
      BY <1>1 DEF ToolSet
    <2> QED
      BY <1>1, <2>1 DEF Begin, pc, ToolSet
  <1> HIDE DEF new
  <1>5. /\ tool' \in [Replacers -> ToolSet] /\ tool'[r] = new
        /\ \A s \in Replacers : s # r => tool'[s] = tool[s]
    BY <1>1, <1>3, <1>4, ToolRewritten
  <1> QED
    BY <1>2, <1>3, <1>5 DEF ToolReads, ToolKnows, NewCall, Elsewhere, Begin

(* The requests of a replacer are no matter of a repair.                   *)
LEMMA ItemRequests ==
  ASSUME EditsInv, NEW r \in Replacers, NEW b \in Items
  PROVE  /\ LET q == Upload(StageName(r, b), NextBytes(r, b))
            IN  Safe(q) /\ Apart(q)
         /\ IsStaged(r, b) =>
              LET q == Rename(At(StageName(r, b)), PublicName(b))
              IN  Safe(q) /\ Apart(q)
         /\ IsStaged(r, b) /\ IsCurrent(b) =>
              LET q == Delete(Current(b))
              IN  Safe(q) /\ Apart(q)
  <1>1. ReleaseInv /\ b \notin {"installer"} \cup RepairJobs
    BY NamesApart DEF EditsInv
  <1>2. Apart(Upload(StageName(r, b), NextBytes(r, b)))
    BY <1>1, Shapes DEF Upload, Apart
  <1>3. Apart(Rename(At(StageName(r, b)), PublicName(b)))
    BY DEF Rename, Apart
  <1>4. Apart(Delete(Current(b)))
    BY <1>1, Shapes, CurrentTyped DEF Delete, Apart
  <1> QED
    BY <1>1, <1>2, <1>3, <1>4, StageUpload, StageRename, CurrentDelete

(* The item at hand is one of the plan.                                    *)
LEMMA ItemChosen ==
  ASSUME EditsInv, NEW r \in Replacers, tool[r].todo # {}
  PROVE  Item(r) \in Items
  BY DEF EditsInv, EditorsTyped, ToolSet, Item

(* --stage: the item is skipped or uploaded, or the command ends.          *)
LEMMA StageItemReads ==
  ASSUME EditsInv, NEW r \in Replacers, StageItem(r), UNCHANGED job
  PROVE  ToolReads(r)
  <1>1. Only
    BY DEF StageItem
  <1>2. CASE Move(r, "failed") \/ Move(r, "done") \/ ItemDone(r, Item(r), "stage")
    BY <1>1, <1>2, Going
  <1>3. CASE /\ tool[r].todo # {}
             /\ Submit(r, Upload(StageName(r, Item(r)), NextBytes(r, Item(r))), "staged")
    BY <1>1, <1>3, ItemChosen, ItemRequests, Submitting
  <1> QED
    BY <1>2, <1>3 DEF StageItem

(* --promote: the item is skipped, cleared or renamed, or the command      *)
(* ends.                                                                   *)
LEMMA PromoteItemReads ==
  ASSUME EditsInv, NEW r \in Replacers, PromoteItem(r), UNCHANGED job
  PROVE  ToolReads(r)
  <1>1. Only
    BY DEF PromoteItem
  <1>2. CASE Move(r, "failed") \/ Move(r, "done") \/ ItemDone(r, Item(r), "items")
    BY <1>1, <1>2, Going
  <1>3. CASE /\ tool[r].todo # {} /\ IsStaged(r, Item(r)) /\ IsCurrent(Item(r))
             /\ Submit(r, Delete(Current(Item(r))), "cleared")
    BY <1>1, <1>3, ItemChosen, ItemRequests, Submitting
  <1>4. CASE /\ tool[r].todo # {} /\ IsStaged(r, Item(r))
             /\ Submit(r, Rename(At(StageName(r, Item(r))), PublicName(Item(r))), "renamed")
    BY <1>1, <1>4, ItemChosen, ItemRequests, Submitting
  <1>5. CASE Move(r, "failed") \/ Move(r, "done")
    BY <1>2, <1>5
  <1>6. CASE tool[r].todo # {} /\ Intact(r) /\ Complete(r, Item(r))
    <2>1. ~IsStaged(r, Item(r))
      BY <1>6 DEF Complete
    <2> QED
      BY <1>2, <1>6, <2>1 DEF PromoteItem
  <1>7. CASE tool[r].todo # {} /\ Intact(r) /\ ~Complete(r, Item(r)) /\ ~IsStaged(r, Item(r))
    BY <1>2, <1>7 DEF PromoteItem
  <1>8. CASE tool[r].todo # {} /\ Intact(r) /\ IsStaged(r, Item(r)) /\ IsCurrent(Item(r))
    <2>1. ~Complete(r, Item(r))
      BY <1>8 DEF Complete
    <2> QED
      BY <1>3, <1>8, <2>1 DEF PromoteItem
  <1>9. CASE tool[r].todo # {} /\ Intact(r) /\ IsStaged(r, Item(r)) /\ ~IsCurrent(Item(r))
    <2>1. ~Complete(r, Item(r))
      BY <1>9 DEF Complete
    <2> QED
      BY <1>4, <1>9, <2>1 DEF PromoteItem
  <1>10. CASE tool[r].todo = {} \/ ~Intact(r)
    BY <1>2, <1>10 DEF PromoteItem
  <1> QED
    BY <1>6, <1>7, <1>8, <1>9, <1>10

(* The readbacks of a command.                                             *)
LEMMA ReadbackReads ==
  ASSUME EditsInv, NEW r \in Replacers, UNCHANGED job,
         StageReadback(r) \/ CheckStaged(r) \/ DeleteReadback(r) \/ RenameReadback(r)
  PROVE  ToolReads(r)
  <1>1. CASE StageReadback(r)
    BY <1>1, Going DEF StageReadback
  <1>2. CASE CheckStaged(r)
    BY <1>2, Going DEF CheckStaged
  <1>3. CASE RenameReadback(r)
    BY <1>3, Going DEF RenameReadback
  <1>4. CASE DeleteReadback(r)
    <2>1. Only /\ tool[r].pc = "cleared"
      BY <1>4 DEF DeleteReadback, At_
    <2>2. tool[r].todo # {}
      BY <2>1 DEF EditsInv, ToolKnows
    <2>3. CASE Move(r, "failed")
      BY <2>1, <2>3, Going
    <2>4. CASE /\ IsStaged(r, Item(r))
               /\ Submit(r, Rename(At(StageName(r, Item(r))), PublicName(Item(r))), "renamed")
      BY <2>1, <2>2, <2>4, ItemChosen, ItemRequests, Submitting
    <2> QED
      BY <1>4, <2>3, <2>4 DEF DeleteReadback
  <1> QED
    BY <1>1, <1>2, <1>3, <1>4

(* The command's request lands or is refused; or the command ends with it. *)
LEMMA ToolCallEnds ==
  ASSUME EditsInv, NEW r \in Replacers, ReplaceCall(r) \/ CutShort(r), UNCHANGED job
  PROVE  Ending
  <1> DEFINE q == tool[r].call
  <1>1. tool \in [Replacers -> ToolSet] /\ EditorsTyped
    BY DEF EditsInv, EditorsTyped
  <1>2. PICK pc \in {tool[r].pc, "failed"} :
            tool' = [tool EXCEPT ![r] = [tool[r] EXCEPT !.call = NoAsset, !.pc = pc]]
    <2>1. CASE tool' = [tool EXCEPT ![r].call = NoAsset]
      <3>1. tool' = [tool EXCEPT ![r] = [tool[r] EXCEPT !.call = NoAsset, !.pc = tool[r].pc]]
        BY <1>1, <2>1 DEF ToolSet
      <3> QED
        BY <3>1
    <2>2. CASE tool' = [tool EXCEPT ![r].call = NoAsset, ![r].pc = "failed"]
      BY <2>2
    <2>3. CASE tool' = [tool EXCEPT ![r].pc = "failed", ![r].call = NoAsset]
      <3>1. tool' = [tool EXCEPT ![r] = [tool[r] EXCEPT !.call = NoAsset, !.pc = "failed"]]
        BY <1>1, <2>3 DEF ToolSet
      <3> QED
        BY <3>1
    <2> QED
      BY <2>1, <2>2, <2>3 DEF ReplaceCall, CutShort
  <1> DEFINE new == [tool[r] EXCEPT !.call = NoAsset, !.pc = pc]
  <1>3. new \in ToolSet /\ new.pc = pc /\ new.todo = tool[r].todo /\ new.call = NoAsset
    BY <1>1, <1>2 DEF ToolSet, ToolPlaces
  <1> HIDE DEF new
  <1>4. /\ tool' \in [Replacers -> ToolSet] /\ tool'[r] = new
        /\ \A s \in Replacers : s # r => tool'[s] = tool[s]
    BY <1>1, <1>2, <1>3, ToolRewritten DEF new
  <1>5. late' \subseteq late \cup ({q} \ {NoAsset})
    BY DEF ReplaceCall, CutShort
  <1>6. Pending' \subseteq Pending
    BY <1>3, <1>4, <1>5 DEF Pending
  <1>7. late' \subseteq RequestSet
    BY <1>1, <1>5 DEF EditorsTyped, ToolSet
  <1>8. Forgets
    BY <1>1, <1>2, <1>3, <1>4, <1>5, <1>7 DEF Forgets, EditorsTyped
  <1>9. CASE q # NoAsset /\ Land(q)
    <2>1. q \in Pending
      BY <1>9 DEF Pending
    <2> QED
      BY <1>6, <1>8, <1>9, <2>1 DEF Ending, Landing
  <1>10. CASE UNCHANGED <<assets, issued>>
    BY <1>6, <1>8, <1>10 DEF Ending
  <1> QED
    BY <1>9, <1>10 DEF ReplaceCall, CutShort, Refuse

(* Every action of a replacer keeps everything.                            *)
LEMMA ReplacerActsKept ==
  ASSUME EditsInv, NEW r \in Replacers, ReplacerActs(r)
  PROVE  Kept
  <1>1. CASE ToolReads(r)
    BY <1>1, ToolReadsKept
  <1>2. CASE ReplaceStep(r) /\ UNCHANGED job
    BY <1>1, <1>2, BeginReads, StageItemReads, PromoteItemReads, ReadbackReads, ToolCallEnds,
       EndingKept DEF ReplaceStep
  <1> QED
    BY <1>2, ToolCallEnds, EndingKept DEF ReplacerActs

(* A late request is one of those the invariant knows.                     *)
LEMMA ArrivesEnds ==
  ASSUME EditsInv, Arrives
  PROVE  Ending
  <1>1. PICK q \in late : late' = late \ {q} /\ (Land(q) \/ UNCHANGED <<assets, issued>>)
    BY DEF Arrives, LateArrives
  <1>2. UNCHANGED <<job, tool>> /\ EditorsTyped
    BY DEF Arrives, EditsInv
  <1>3. q \in Pending
    BY <1>2, NothingApart DEF Pending, EditorsTyped
  <1>4. Pending' \subseteq Pending
    BY <1>1, <1>2 DEF Pending
  <1>5. Forgets
    BY <1>1, <1>2 DEF Forgets, EditorsTyped
  <1>6. CASE Land(q)
    BY <1>3, <1>4, <1>5, <1>6 DEF Ending, Landing
  <1>7. CASE UNCHANGED <<assets, issued>>
    BY <1>4, <1>5, <1>7 DEF Ending
  <1> QED
    BY <1>1, <1>6, <1>7
-----------------------------------------------------------------------------
(* The release as published, and everyone idle.                            *)
LEMMA SeedAssets ==
  ASSUME StableInit
  PROVE  /\ AssetsTyped
         /\ \A a \in assets : a.name = PublicName(a.name[1])
         /\ \A n \in DOMAIN Seed : Asset(Numbering[n], n, Seed[n]) \in assets
         /\ \A a \in assets : a.name \in DOMAIN Seed /\ a.digest = Seed[a.name]
                              /\ a.id = Numbering[a.name]
         /\ late = {}
  <1>1. /\ assets = {Asset(Numbering[n], n, Seed[n]) : n \in DOMAIN Seed}
        /\ issued = Cardinality(DOMAIN Seed) /\ late = {}
    BY DEF StableInit, AppendInit, AssetsInit
  <1>2. \A a \in assets : a.name \in DOMAIN Seed /\ a.digest = Seed[a.name]
                          /\ a.id = Numbering[a.name]
    BY <1>1 DEF Asset
  <1>3. \A n \in DOMAIN Seed :
           Asset(Numbering[n], n, Seed[n]) \in AssetSet /\ n = PublicName(n[1])
    BY SeedNumbered, NamesTyped, SeedPublished DEF Asset, AssetSet
  <1>4. assets \subseteq AssetSet
    BY <1>1, <1>3
  <1>5. IsFiniteSet(assets)
    <2> DEFINE f == [n \in DOMAIN Seed |-> Asset(Numbering[n], n, Seed[n])]
    <2>1. f \in Surjection(DOMAIN Seed, assets)
      BY <1>1 DEF Surjection
    <2> HIDE DEF f
    <2> QED
      BY <2>1, SeedPublished, FS_Surjection
  <1>6. \A a, c \in assets : a.id = c.id \/ a.name = c.name => a = c
    <2>1. SUFFICES ASSUME NEW a \in assets, NEW c \in assets, a.id = c.id \/ a.name = c.name
                   PROVE  a = c
      OBVIOUS
    <2>2. a.name = c.name
      BY <1>2, <2>1, SeedNumbered
    <2>3. a.id = c.id /\ a.digest = c.digest
      BY <1>2, <2>2
    <2> QED
      BY <1>4, <2>2, <2>3 DEF AssetSet
  <1>7. \A a \in assets : 1 <= a.id /\ a.id <= issued
    BY <1>1, <1>2, SeedNumbered
  <1>8. issued \in Nat /\ Cardinality(DOMAIN Seed) <= issued
    BY <1>1, SeedNumbered
  <1> QED
    BY <1>1, <1>2, <1>3, <1>4, <1>5, <1>6, <1>7, <1>8 DEF AssetsTyped

(* Everyone is idle.                                                       *)
LEMMA EditorsStart ==
  ASSUME StableInit
  PROVE  /\ EditorsTyped /\ Pending = {}
         /\ \A j \in GroupJobs : JobKnows(j)
         /\ \A r \in Replacers : ToolKnows(r)
  <1>1. /\ job = [j \in GroupJobs |-> Idle] /\ late = {}
        /\ tool = [r \in Replacers |-> [pc |-> "idle", call |-> NoAsset, run |-> 0, todo |-> {}]]
    BY DEF StableInit, AppendInit, AssetsInit, ReplaceInit
  <1>2. Idle \in JobSet
    BY DEF Idle, JobSet, Places
  <1>3. [pc |-> "idle", call |-> NoAsset, run |-> 0, todo |-> {}] \in ToolSet
    BY DEF ToolSet, ToolPlaces
  <1>4. EditorsTyped
    BY <1>1, <1>2, <1>3 DEF EditorsTyped
  <1>5. Pending = {}
    BY <1>1 DEF Pending, Idle
  <1>6. \A j \in GroupJobs : JobKnows(j)
    BY <1>1 DEF JobKnows, Idle, GroupJobs
  <1>7. \A r \in Replacers : ToolKnows(r)
    BY <1>1 DEF ToolKnows
  <1> QED
    BY <1>4, <1>5, <1>6, <1>7

(* A release as published satisfies the invariant.                         *)
LEMMA EditsStart ==
  ASSUME StableInit
  PROVE  EditsInv
  <1>1. Pending = {}
    BY EditorsStart
  <1>2. RequestsFine /\ PromisesKept
    BY <1>1 DEF RequestsFine, PromisesKept, Doomed
  <1>3. ASSUME NEW b \in Items PROVE ItemBacked(b)
    <2>1. PublicName(b) \in DOMAIN Seed
      BY ReplacedItems
    <2>2. Current(b) \in assets /\ Current(b).name = PublicName(b)
      BY <2>1, SeedAssets, CurrentTyped DEF Current
    <2>3. \A a \in assets : a.id = Current(b).id \/ a.name = PublicName(b) => a = Current(b)
      BY <2>2, SeedAssets DEF AssetsTyped
    <2>4. \A a \in assets : \A r \in Replacers : a.name # StageName(r, b)
      <3>1. \A a \in assets : a.name[2] = {}
        BY SeedAssets, Shapes
      <3>2. \A r \in Replacers : StageName(r, b)[2] # {}
        BY Shapes
      <3> QED
        BY <3>1, <3>2
    <2>5. Stays(b) /\ ~Doomed(Current(b).id)
      BY <1>1, <2>2 DEF Stays, Doomed
    <2> QED
      BY <2>3, <2>4, <2>5 DEF ItemBacked
  <1>4. ASSUME NEW a \in assets, a.name[1] = "manifest" PROVE Backed(a.digest)
    <2>1. a.name = Manifest
      BY <1>4, SeedAssets DEF Manifest
    <2>2. Manifest \in DOMAIN Seed /\ a.digest = Seed[Manifest]
      BY <2>1, SeedAssets
    <2>3. ASSUME NEW e \in a.digest PROVE e[1] \in DOMAIN FilesOf /\ BuildIsUp(e[1], e[2])
      <3>1. e[1] \in DOMAIN FilesOf
        BY <2>2, SeedPublished
      <3>2. ASSUME NEW f \in FilesOf[e[1]]
            PROVE  <<PublicName(f), {<<f, e[2]>>}>> \in Inventory
        <4>1. PublicName(f) \in DOMAIN Seed /\ Seed[PublicName(f)] = {<<f, e[2]>>}
          BY <2>2, SeedPublished
        <4>2. Asset(Numbering[PublicName(f)], PublicName(f), {<<f, e[2]>>}) \in assets
          BY <4>1, SeedAssets
        <4> QED
          BY <4>2 DEF Inventory, Asset
      <3> QED
        BY <3>1, <3>2 DEF BuildIsUp
    <2> QED
      BY <2>3 DEF Backed
  <1> QED
    BY <1>2, <1>3, <1>4, SeedAssets, EditorsStart
       DEF EditsInv, ReleaseInv, ItemsBacked, ManifestsTrue

(* Every step keeps what is promised.                                      *)
LEMMA StepKept ==
  ASSUME EditsInv, [StableNext]_stableVars
  PROVE  Kept
  <1>1. CASE \E j \in GroupJobs : JobActs(j)
    BY <1>1, JobActsKept
  <1>2. CASE \E r \in Replacers : ReplacerActs(r)
    BY <1>2, ReplacerActsKept
  <1>3. CASE Arrives
    BY <1>3, ArrivesEnds, EndingKept
  <1>4. CASE UNCHANGED stableVars
    <2>1. UNCHANGED <<assets, issued, late, job, tool>>
      BY <1>4 DEF stableVars
    <2>2. Pending' \subseteq Pending /\ EditorsTyped'
      BY <2>1 DEF Pending, EditsInv, EditorsTyped
    <2>3. Forgets
      BY <2>1, <2>2 DEF Forgets
    <2> QED
      BY <2>1, <2>2, <2>3, QuietKept
  <1> QED
    BY <1>1, <1>2, <1>3, <1>4 DEF StableNext
-----------------------------------------------------------------------------
(* What everyone may do to a published release keeps the invariant above,  *)
(* and with it the types of the release and of its editors.                *)
THEOREM EditsAlways == StableSpec => []EditsInv
  <1>1. StableInit => EditsInv
    BY EditsStart
  <1>2. EditsInv /\ [StableNext]_stableVars => EditsInv'
    BY StepKept DEF Kept
  <1> QED
    BY <1>1, <1>2, PTL DEF StableSpec

(* The public name of a replaced file shows its old or a new version, and  *)
(* is free only while a new version waits, staged                          *)
(* (replace-same-tag-release-assets.ts promote).                           *)
THEOREM ReplacedFileAlwaysBacked == StableSpec => []ReplacedFileIsBacked
  <1>1. ASSUME EditsInv PROVE ReplacedFileIsBacked
    <2>1. SUFFICES ASSUME NEW b \in Items
                   PROVE  \/ IsCurrent(b)
                          \/ \E r \in Replacers : IsNext(r, b)
                          \/ Public(b) = NoAsset /\ \E r \in Replacers : IsStaged(r, b)
      BY DEF ReplacedFileIsBacked
    <2>2. AssetsTyped /\ ItemBacked(b)
      BY <1>1 DEF EditsInv, ReleaseInv, ItemsBacked
    <2>3. CASE Public(b) = NoAsset
      <3>1. \A a \in assets : a.name # PublicName(b)
        BY <2>2, <2>3, Looks DEF Public
      <3>2. ~Stays(b)
        BY <2>2, <3>1, CurrentTyped DEF Stays, ItemBacked
      <3>3. PICK a \in assets : Saves(a, b)
        BY <2>2, <3>2 DEF ItemBacked, Saved
      <3>4. PICK r \in Replacers : a.name = StageName(r, b)
        BY <3>1, <3>3 DEF Saves
      <3> QED
        BY <2>3, <3>4 DEF IsStaged, Present, Found
    <2>4. CASE Public(b) # NoAsset
      <3>1. Public(b) \in assets /\ Public(b).name = PublicName(b)
        BY <2>2, <2>4, Looks DEF Public
      <3>2. CASE Public(b).id = Current(b).id
        BY <2>2, <3>1, <3>2 DEF ItemBacked, IsCurrent
      <3>3. CASE Saves(Public(b), b)
        BY <2>4, <3>3 DEF Saves, IsNext
      <3> QED
        BY <2>2, <3>1, <3>2, <3>3 DEF ItemBacked
    <2> QED
      BY <2>3, <2>4
  <1> QED
    BY <1>1, EditsAlways, PTL

(* The manifests, public and staged, and a completed job speak of files    *)
(* that are on the release with the bytes of the build they name           *)
(* (append-stable-desktop-assets.ts appendDesktopPlatform).                *)
THEOREM ManifestAlwaysTrue == StableSpec => []ManifestIsTrue
  <1>1. ASSUME EditsInv PROVE ManifestIsTrue
    <2>1. AssetsTyped /\ ManifestsTrue
      BY <1>1 DEF EditsInv, ReleaseInv
    <2>2. ASSUME NEW e \in Promised PROVE BuildIsUp(e[1], e[2])
      BY <2>1, PromisedIs DEF PromisedIsUnion, ManifestsTrue, Backed
    <2>3. ASSUME NEW j \in AppendJobs, job[j].pc = "complete" PROVE Entry(j) \in Promised
      BY <1>1, <2>3 DEF EditsInv, JobKnows, GroupJobs
    <2> QED
      BY <2>2, <2>3 DEF ManifestIsTrue
  <1> QED
    BY <1>1, EditsAlways, PTL

(* A platform the public manifest lists stays listed in it, or in the      *)
(* staged one while the manifest is replaced by two calls.                 *)
THEOREM PlatformsAlwaysStay == StableSpec => PlatformsStay
  <1>1. ASSUME EditsInv, [StableNext]_stableVars
        PROVE  [Listed \subseteq Promised']_stableVars
    <2>1. Listed \subseteq Promised
      BY DEF Promised
    <2>2. Promised \subseteq Promised'
      BY <1>1, StepKept DEF Kept
    <2> QED
      BY <2>1, <2>2
  <1> QED
    BY <1>1, EditsAlways, PTL DEF StableSpec, PlatformsStay
-----------------------------------------------------------------------------
(* The repairs. One job of the group is underway at a time. From the time  *)
(* a repair has sent the installer until it ends, no request deletes what  *)
(* is then called so: the installer the repair reads back is the one the   *)
(* receipt is published over, unless the repair is dead by then.           *)
Underway(j) == job[j].pc \notin Queued \cup Ended
OneAtATime == \A i, j \in GroupJobs : Underway(i) /\ Underway(j) => i = j

InstallerSafe ==
    \A q \in Pending : q.op = "delete" => \A a \in assets : a.id = q.id => a.name # Installer

Over(j) == \E a \in assets : a.name = Installer /\ a.digest = Repaired[j]
ReceiptOf(q, j) == q # NoAsset /\ q.op = "upload" /\ q.name = Receipt(j)

(* A repair, and the receipt of it that is on its way.                     *)
RepairKnows(j) ==
    /\ job[j].pc = "idle" => job[j].canonical = NoAsset
    /\ job[j].pc \in {"uploaded", "receipted"} => InstallerSafe
    /\ ReceiptOf(job[j].call, j) => job[j].pc = "receipted" /\ Over(j)
LateReceipts(j) ==
    \A q \in late :
        ReceiptOf(q, j) => job[j].pc = "dead" /\ ((Over(j) /\ InstallerSafe) \/ Superseded(j))
OwnReceipt(j) ==
    /\ \A i \in GroupJobs : ReceiptOf(job[i].call, j) => i = j
    /\ \A r \in Replacers : ~ReceiptOf(tool[r].call, j)

RepairsInv ==
    /\ EditsInv /\ OneAtATime
    /\ \A j \in RepairJobs : RepairKnows(j) /\ LateReceipts(j) /\ OwnReceipt(j)

ReceiptsStep ==
    \A j \in RepairJobs :
        ~Present(Receipt(j)) /\ Present(Receipt(j))'
            => \/ At(Installer) # NoAsset /\ At(Installer).digest = Repaired[j]
               \/ job[j].pc = "dead" /\ Superseded(j)
-----------------------------------------------------------------------------
(* A request that is carried out makes no new installer unsafe, and leaves *)
(* a safe one where it is.                                                 *)
LEMMA SafeStays ==
  ASSUME EditsInv, Ending, InstallerSafe
  PROVE  InstallerSafe' /\ \A j \in RepairJobs : Over(j) => Over(j)'
  <1>1. CASE UNCHANGED <<assets, issued>>
    BY <1>1 DEF Ending, InstallerSafe, Over
  <1>2. CASE \E q : Landing(q)
    <2>1. PICK q : Landing(q)
      BY <1>2
    <2>2. ReleaseInv
      BY DEF EditsInv
    <2>3. Fine(q) /\ q \in Pending /\ Pending' \subseteq Pending
      BY <2>1, <2>2, LandingForms DEF Landing
    <2>4. Renames(q) => q.name # Installer /\ q.name[1] # "installer"
      <3>1. SUFFICES ASSUME RenameFine(q) PROVE q.name # Installer /\ q.name[1] # "installer"
        BY <2>3 DEF Renames, Fine
      <3> QED
        BY <3>1, Shapes, NamesApart DEF RenameFine
    <2>5. ASSUME NEW p \in Pending', p.op = "delete", NEW a \in assets', a.id = p.id
          PROVE  a.name # Installer
      <3>1. p \in Pending /\ KnowsAsset(p) /\ p.id \in Nat /\ issued \in Nat
        BY <2>2, <2>3, <2>5 DEF ReleaseInv, RequestsFine, Fine, RequestSet, AssetsTyped
      <3>2. a.id # issued + 1
        BY <2>5, <3>1 DEF KnowsAsset
      <3>3. a \in assets => a.name # Installer
        BY <2>5, <3>1 DEF InstallerSafe
      <3> QED
        BY <2>1, <2>2, <2>4, <3>2, <3>3, LandingKeeps
    <2>6. ASSUME NEW j \in RepairJobs, Over(j) PROVE Over(j)'
      <3>1. PICK a \in assets : a.name = Installer /\ a.digest = Repaired[j]
        BY <2>6 DEF Over
      <3>2. SUFFICES ASSUME a \notin assets' PROVE FALSE
        BY <3>1 DEF Over
      <3>3. (Deletes(q) \/ Renames(q)) /\ a.id = q.id /\ q.name[1] = "installer"
        BY <2>1, <2>2, <3>1, <3>2, LandingSpares, Shapes
      <3>4. ~Deletes(q)
        BY <2>3, <3>1, <3>3 DEF Deletes, InstallerSafe
      <3> QED
        BY <2>4, <3>3, <3>4
    <2> QED
      BY <2>5, <2>6 DEF InstallerSafe
  <1> QED
    BY <1>1, <1>2 DEF Ending

(* A receipt that appears was asked for by the repair it is named after.   *)
LEMMA ReceiptAppears ==
  ASSUME RepairsInv, Ending
  PROVE  ReceiptsStep
  <1>1. SUFFICES ASSUME NEW j \in RepairJobs, ~Present(Receipt(j)), Present(Receipt(j))'
                 PROVE  \/ At(Installer) # NoAsset /\ At(Installer).digest = Repaired[j]
                        \/ job[j].pc = "dead" /\ Superseded(j)
    BY DEF ReceiptsStep
  <1>2. ReleaseInv /\ AssetsTyped
    BY DEF RepairsInv, EditsInv, ReleaseInv
  <1>3. PICK q : Landing(q)
    BY <1>1 DEF Ending, Present, Found
  <1>4. Uploads(q) /\ q.name = Receipt(j)
    <2>1. PICK a \in assets' : a.name = Receipt(j) /\ a \notin assets
      BY <1>1 DEF Present, Found
    <2>2. ~(Renames(q) /\ a.name = q.name)
      <3>1. SUFFICES ASSUME Renames(q), q.name = Receipt(j) PROVE FALSE
        BY <2>1
      <3>2. RenameFine(q) /\ q.name[1] = j
        BY <1>2, <1>3, <3>1, LandingForms, Shapes DEF Fine, Renames
      <3> QED
        BY <3>2, Shapes, NamesApart DEF RenameFine
    <2> QED
      BY <1>2, <1>3, <2>1, <2>2, LandingKeeps
  <1>5. ReceiptOf(q, j) /\ q \in Pending
    BY <1>3, <1>4 DEF ReceiptOf, Uploads, Landing, Pending
  <1>6. Over(j) \/ (job[j].pc = "dead" /\ Superseded(j))
    <2>1. RepairKnows(j) /\ LateReceipts(j) /\ OwnReceipt(j)
      BY DEF RepairsInv
    <2>2. CASE q \in late
      BY <1>5, <2>1, <2>2 DEF LateReceipts
    <2>3. CASE \E i \in GroupJobs : q = job[i].call
      BY <1>5, <2>1, <2>3 DEF OwnReceipt, RepairKnows
    <2>4. CASE \E r \in Replacers : q = tool[r].call
      BY <1>5, <2>1, <2>4 DEF OwnReceipt
    <2> QED
      BY <1>5, <2>2, <2>3, <2>4 DEF Pending
  <1> QED
    BY <1>2, <1>6, Looks DEF Over

(* A call, a death or an arrival keeps what is known of the repairs.       *)
LEMMA EndingRepairs ==
  ASSUME RepairsInv, Ending
  PROVE  RepairsInv' /\ ReceiptsStep
  <1>1. EditsInv' /\ EditsInv /\ Forgets
    BY EndingKept DEF RepairsInv, Kept, Ending
  <1>2. OneAtATime'
    BY <1>1 DEF RepairsInv, OneAtATime, Underway, Forgets, Ended
  <1>3. RepairJobs \subseteq GroupJobs
    BY DEF GroupJobs
  <1>4. ASSUME NEW j \in RepairJobs, Superseded(j) PROVE Superseded(j)'
    BY <1>1, <1>3, <1>4 DEF Superseded, Forgets
  <1>5. ASSUME NEW j \in RepairJobs PROVE RepairKnows(j)' /\ LateReceipts(j)' /\ OwnReceipt(j)'
    <2>1. RepairKnows(j) /\ LateReceipts(j) /\ OwnReceipt(j) /\ j \in GroupJobs
      BY <1>3 DEF RepairsInv
    <2>2. /\ \/ job'[j].pc = job[j].pc /\ job'[j].call \in {job[j].call, NoAsset}
             \/ job'[j].pc = "dead" /\ job'[j].call = NoAsset
          /\ job'[j].canonical = job[j].canonical
      BY <1>1, <2>1 DEF Forgets
    <2>3. InstallerSafe => InstallerSafe' /\ (Over(j) => Over(j)')
      BY <1>1, SafeStays
    <2>4. RepairKnows(j)'
      BY <2>1, <2>2, <2>3 DEF RepairKnows, ReceiptOf, Receipt
    <2>5. OwnReceipt(j)'
      BY <1>1, <2>1 DEF OwnReceipt, ReceiptOf, Receipt, Forgets
    <2>6. ASSUME NEW q \in late', ReceiptOf(q, j)
          PROVE  job'[j].pc = "dead" /\ ((Over(j) /\ InstallerSafe)' \/ Superseded(j)')
      <3>1. CASE q \in late
        BY <1>4, <2>1, <2>2, <2>3, <2>6, <3>1 DEF LateReceipts
      <3>2. CASE \E i \in GroupJobs : q = job[i].call /\ job'[i].pc = "dead"
        <4>1. q = job[j].call /\ job'[j].pc = "dead"
          BY <2>1, <2>6, <3>2 DEF OwnReceipt
        <4>2. Over(j) /\ InstallerSafe
          BY <2>1, <2>6, <4>1 DEF RepairKnows
        <4> QED
          BY <2>3, <4>1, <4>2
      <3>3. CASE \E r \in Replacers : q = tool[r].call
        BY <2>1, <2>6, <3>3 DEF OwnReceipt
      <3> QED
        BY <1>1, <3>1, <3>2, <3>3 DEF Forgets
    <2>7. LateReceipts(j)'
      BY <2>6 DEF LateReceipts, ReceiptOf, Receipt
    <2> QED
      BY <2>4, <2>5, <2>7
  <1> QED
    BY <1>1, <1>2, <1>5, ReceiptAppears DEF RepairsInv
-----------------------------------------------------------------------------
(* What a read may ask for without a danger to any repair.                 *)
LEMMA ApartIsSafe ==
  ASSUME ReleaseInv, NEW q \in RequestSet, Safe(q), Apart(q)
  PROVE  /\ q.op = "delete" => \A a \in assets : a.id = q.id => a.name # Installer
         /\ \A j \in RepairJobs : ~ReceiptOf(q, j)
  BY Shapes DEF Safe, Fine, KnowsAsset, Apart, ReceiptOf

(* A job of the group, alone underway, that reads and asks for something:  *)
(* what it has to establish for the repairs.                               *)
ReadsAlone(j) ==
    /\ JobReads(j)
    /\ job[j].pc \notin Ended
    /\ Underway(j)' => Underway(j) \/ GroupFree
    /\ \/ InstallerSafe => InstallerSafe'
       \/ Underway(j)' /\ \A i \in RepairJobs : Over(i) => Superseded(i)'
    /\ \A i \in RepairJobs : ReceiptOf(job'[j].call, i) => i = j
    /\ j \in RepairJobs =>
         /\ RepairKnows(j)'
         /\ job'[j].canonical = job[j].canonical \/ job[j].pc = "idle"

(* Such a read keeps what is known of the repairs.                         *)
LEMMA AloneRepairs ==
  ASSUME RepairsInv, NEW j \in GroupJobs, ReadsAlone(j)
  PROVE  RepairsInv' /\ ReceiptsStep
  <1>1. EditsInv' /\ JobReads(j)
    BY JobReadsKept DEF RepairsInv, Kept, ReadsAlone
  <1>2. /\ UNCHANGED <<assets, issued, late, tool>>
        /\ \A i \in GroupJobs : i # j => job'[i] = job[i]
    BY <1>1 DEF JobReads, Reading
  <1>3. ReceiptsStep
    BY <1>2 DEF ReceiptsStep, Present, Found
  <1>4. OneAtATime'
    BY <1>2 DEF RepairsInv, OneAtATime, Underway, ReadsAlone, GroupFree
  <1>5. ASSUME NEW i \in RepairJobs, Superseded(i) PROVE Superseded(i)'
    <2>1. PICK k \in RepairJobs :
              job[k].canonical # NoAsset /\ job[k].canonical.digest = Repaired[i]
      BY <1>5 DEF Superseded
    <2>2. k \in GroupJobs /\ RepairKnows(k)
      BY DEF RepairsInv, GroupJobs
    <2>3. job'[k].canonical = job[k].canonical
      BY <1>2, <2>1, <2>2 DEF RepairKnows, ReadsAlone
    <2> QED
      BY <2>1, <2>3 DEF Superseded
  <1>6. ASSUME NEW i \in RepairJobs PROVE RepairKnows(i)' /\ LateReceipts(i)' /\ OwnReceipt(i)'
    <2>1. RepairKnows(i) /\ LateReceipts(i) /\ OwnReceipt(i) /\ i \in GroupJobs
      BY DEF RepairsInv, GroupJobs
    <2>2. Over(i)' <=> Over(i)
      BY <1>2 DEF Over
    <2>3. OwnReceipt(i)'
      <3>1. \A k \in GroupJobs : ReceiptOf(job'[k].call, i) => k = i
        BY <1>2, <2>1 DEF OwnReceipt, ReadsAlone
      <3> QED
        BY <1>2, <2>1, <3>1 DEF OwnReceipt, ReceiptOf, Receipt
    <2>4. RepairKnows(i)'
      <3>1. CASE i = j
        BY <3>1 DEF ReadsAlone
      <3>2. CASE i # j
        <4>1. job'[i] = job[i]
          BY <1>2, <2>1, <3>2
        <4>2. ASSUME job[i].pc \in {"uploaded", "receipted"} PROVE InstallerSafe'
          <5>1. Underway(i) /\ Underway(i)' /\ InstallerSafe
            BY <2>1, <4>1, <4>2 DEF Underway, Queued, Ended, RepairKnows
          <5>2. ~Underway(j)'
            BY <1>4, <2>1, <3>2, <5>1 DEF OneAtATime
          <5> QED
            BY <5>1, <5>2 DEF ReadsAlone
        <4> QED
          BY <2>1, <2>2, <4>1, <4>2 DEF RepairKnows, ReceiptOf, Receipt
      <3> QED
        BY <3>1, <3>2
    <2>5. ASSUME NEW q \in late, ReceiptOf(q, i)
          PROVE  job'[i].pc = "dead" /\ ((Over(i) /\ InstallerSafe)' \/ Superseded(i)')
      <3>1. job[i].pc = "dead" /\ ((Over(i) /\ InstallerSafe) \/ Superseded(i))
        BY <2>1, <2>5 DEF LateReceipts
      <3>2. i # j
        BY <3>1 DEF ReadsAlone, Ended
      <3>3. job'[i].pc = "dead"
        BY <1>2, <2>1, <3>1, <3>2
      <3>4. CASE Superseded(i)
        BY <1>5, <3>3, <3>4
      <3>5. CASE Over(i) /\ InstallerSafe
        BY <2>2, <3>3, <3>5 DEF ReadsAlone
      <3> QED
        BY <3>1, <3>4, <3>5
    <2>6. LateReceipts(i)'
      BY <1>2, <2>5 DEF LateReceipts, ReceiptOf, Receipt
    <2> QED
      BY <2>3, <2>4, <2>6
  <1> QED
    BY <1>1, <1>3, <1>4, <1>6 DEF RepairsInv

(* New requests apart from the repairs leave a safe installer safe.        *)
LEMMA AskedSafe ==
  ASSUME InstallerSafe, UNCHANGED assets, NEW q,
         Pending' \subseteq Pending \cup ({q} \ {NoAsset}),
         q # NoAsset /\ q \notin Pending /\ q.op = "delete"
            => \A a \in assets : a.id = q.id => a.name # Installer
  PROVE  InstallerSafe'
  BY DEF InstallerSafe

(* A read adds at most the request it leaves behind.                       *)
LEMMA ReadPending ==
  ASSUME NEW j \in GroupJobs, JobReads(j)
  PROVE  Pending' \subseteq Pending \cup ({job'[j].call} \ {NoAsset})
  BY DEF JobReads, Pending, Reading

(* An append asks for nothing that a repair is about.                      *)
LEMMA AppendAlone ==
  ASSUME RepairsInv, NEW j \in AppendJobs, AppendStep(j), JobReads(j)
  PROVE  ReadsAlone(j)
  <1>1. j \in GroupJobs /\ j \notin RepairJobs /\ ReleaseInv
    BY DisjointJobs DEF GroupJobs, RepairsInv, EditsInv
  <1>2. Underway(j) \/ (GroupFree /\ job[j].pc = "idle")
    BY <1>1 DEF AppendStep, Start, Inspect, Recovered, PromoteStage, UploadFile, StageManifest,
           ReplaceManifest, FinishAppend, Reads, Underway, Queued, Ended
  <1>3. job[j].pc \notin Ended
    BY <1>2 DEF Underway, Ended
  <1> DEFINE q == job'[j].call
  <1>4. ASSUME q # NoAsset, q # job[j].call
        PROVE  /\ q.op = "delete" => \A a \in assets : a.id = q.id => a.name # Installer
               /\ \A i \in RepairJobs : ~ReceiptOf(q, i)
    <2>1. Safe(q) /\ Apart(q) /\ q \in RequestSet
      BY <1>4 DEF JobReads, NewCall, Elsewhere, Safe, Fine
    <2> QED
      BY <1>1, <2>1, ApartIsSafe
  <1>5. InstallerSafe => InstallerSafe'
    <2>1. UNCHANGED assets
      BY DEF JobReads, Reading
    <2>2. q = job[j].call /\ q # NoAsset => q \in Pending
      BY <1>1 DEF Pending
    <2> HIDE DEF q
    <2> QED
      BY <1>1, <1>4, <2>1, <2>2, ReadPending, AskedSafe DEF q
  <1>6. ASSUME NEW i \in RepairJobs PROVE ~ReceiptOf(q, i)
    <2>1. q = job[j].call => ~ReceiptOf(q, i)
      BY <1>1 DEF RepairsInv, OwnReceipt
    <2>2. q = NoAsset => ~ReceiptOf(q, i)
      BY DEF ReceiptOf
    <2> QED
      BY <1>4, <2>1, <2>2
  <1> QED
    BY <1>1, <1>2, <1>3, <1>5, <1>6 DEF ReadsAlone

(* A repair that moves on without a request.                               *)
LEMMA GoesOn ==
  ASSUME RepairsInv, NEW j \in RepairJobs, JobReads(j), job[j].pc \notin Ended,
         NEW pc, Become(j, pc), pc \notin {"idle", "uploaded", "receipted"},
         job[j].pc # "receipted" \/ job[j].call = NoAsset,
         pc \notin Ended => GroupFree
  PROVE  ReadsAlone(j)
  <1>1. j \in GroupJobs /\ job \in [GroupJobs -> JobSet] /\ RepairKnows(j)
    BY DEF GroupJobs, RepairsInv, EditsInv, EditorsTyped
  <1>2. job'[j] = [job[j] EXCEPT !.pc = pc]
    BY <1>1 DEF Become
  <1>3. job'[j].pc = pc /\ job'[j].call = job[j].call /\ job'[j].canonical = job[j].canonical
    BY <1>1, <1>2 DEF JobSet
  <1>4. \A i \in RepairJobs : ~ReceiptOf(job'[j].call, i)
    BY <1>1, <1>3 DEF RepairsInv, OwnReceipt, RepairKnows, ReceiptOf
  <1>5. InstallerSafe => InstallerSafe'
    <2>1. Pending' \subseteq Pending /\ UNCHANGED assets
      BY <1>1, <1>3, ReadPending DEF JobReads, Reading, Pending
    <2> QED
      BY <2>1 DEF InstallerSafe
  <1>6. RepairKnows(j)'
    BY <1>3, <1>4 DEF RepairKnows, ReceiptOf, Receipt
  <1> QED
    BY <1>3, <1>4, <1>5, <1>6 DEF ReadsAlone, Underway

(* The repair takes the group.                                             *)
LEMMA StartAlone ==
  ASSUME RepairsInv, NEW j \in RepairJobs, Start(j), UNCHANGED tool
  PROVE  ReadsAlone(j)
  <1>1. JobReads(j)
    BY StartReads DEF GroupJobs, RepairsInv
  <1> QED
    BY <1>1, GoesOn DEF Start, Ended

(* It is admitted: what it will replace is written down only once.         *)
LEMMA AdmitAlone ==
  ASSUME RepairsInv, NEW j \in RepairJobs, Admit(j), UNCHANGED tool
  PROVE  ReadsAlone(j)
  <1>1. JobReads(j) /\ job[j].pc = "idle" /\ job[j].call = NoAsset
    BY AdmitReads DEF RepairsInv, Admit, Reads
  <1>2. CASE FailJob(j)
    BY <1>1, <1>2, GoesOn DEF FailJob, Ended
  <1>3. CASE job' = [job EXCEPT ![j].pc = "admitted", ![j].canonical = At(Installer)]
    <2>1. j \in GroupJobs /\ job \in [GroupJobs -> JobSet]
      BY DEF GroupJobs, RepairsInv, EditsInv, EditorsTyped
    <2>2. job'[j] = [job[j] EXCEPT !.pc = "admitted", !.canonical = At(Installer)]
      BY <1>3, <2>1
    <2>3. job'[j].pc = "admitted" /\ job'[j].call = NoAsset
      BY <1>1, <2>1, <2>2 DEF JobSet
    <2>4. InstallerSafe => InstallerSafe'
      <3>1. Pending' \subseteq Pending /\ UNCHANGED assets
        BY <1>1, <2>1, <2>3, ReadPending DEF JobReads, Reading
      <3> QED
        BY <3>1 DEF InstallerSafe
    <2> QED
      BY <1>1, <2>3, <2>4 DEF ReadsAlone, RepairKnows, ReceiptOf, Underway, Queued, Ended
  <1> QED
    BY <1>2, <1>3 DEF Admit

(* It asks for the deletion of the installer it was admitted against.      *)
LEMMA RepairAlone ==
  ASSUME RepairsInv, NEW j \in RepairJobs, RepairInspect(j), UNCHANGED tool
  PROVE  ReadsAlone(j)
  <1>1. JobReads(j) /\ job[j].pc = "repair" /\ job[j].call = NoAsset
    BY RepairReads DEF RepairsInv, RepairInspect, Reads
  <1>2. CASE FailJob(j)
    BY <1>1, <1>2, GoesOn DEF FailJob, Ended
  <1> DEFINE q == Delete(At(Installer))
             left == Inventory \ {<<Installer, At(Installer).digest>>}
  <1>3. CASE /\ At(Installer) = job[j].canonical
             /\ job' = [job EXCEPT ![j].call = q, ![j].pc = "deleted", ![j].expected = left]
    <2>1. j \in GroupJobs /\ job \in [GroupJobs -> JobSet] /\ JobKnows(j) /\ AssetsTyped
      BY DEF GroupJobs, RepairsInv, EditsInv, EditorsTyped, ReleaseInv
    <2>2. q.op = "delete"
      BY DEF Delete
    <2> HIDE DEF q, left
    <2>3. job'[j] = [job[j] EXCEPT !.call = q, !.pc = "deleted", !.expected = left]
      BY <1>3, <2>1
    <2>4. job'[j].pc = "deleted" /\ job'[j].call = q /\ job'[j].canonical = job[j].canonical
      BY <2>1, <2>3 DEF JobSet
    <2>5. ASSUME NEW i \in RepairJobs, Over(i) PROVE Superseded(i)'
      <3>1. At(Installer) # NoAsset /\ At(Installer).digest = Repaired[i]
        BY <2>1, <2>5, Looks DEF Over
      <3> QED
        BY <1>3, <2>4, <3>1 DEF Superseded
    <2> QED
      BY <1>1, <2>2, <2>4, <2>5 DEF ReadsAlone, RepairKnows, ReceiptOf, Underway, Queued, Ended
  <1> QED
    BY <1>2, <1>3 DEF RepairInspect

(* It uploads the installer when none is there, and the receipt when its   *)
(* own installer is.                                                       *)
LEMMA RepairUploadAlone ==
  ASSUME RepairsInv, NEW j \in RepairJobs, NEW from, NEW name, NEW digest, NEW to,
         \/ from = "deleted" /\ name = Installer /\ digest = Repaired[j] /\ to = "uploaded"
         \/ from = "uploaded" /\ name = Receipt(j) /\ digest = {<<j, "receipt">>}
            /\ to = "receipted",
         RepairUpload(j, from, name, digest, to), UNCHANGED tool
  PROVE  ReadsAlone(j)
  <1>1. JobReads(j) /\ job[j].pc = from /\ job[j].call = NoAsset
    BY RepairUploadReads DEF RepairsInv, RepairUpload, Reads
  <1>2. CASE FailJob(j)
    BY <1>1, <1>2, GoesOn DEF FailJob, Ended
  <1> DEFINE q == Upload(name, digest)
             more == job[j].expected \cup {<<name, digest>>}
  <1>3. CASE /\ Unchanged(j)
             /\ job' = [job EXCEPT ![j].call = q, ![j].pc = to, ![j].expected = more]
    <2>1. /\ j \in GroupJobs /\ j \notin AppendJobs /\ job \in [GroupJobs -> JobSet]
          /\ JobKnows(j) /\ RepairKnows(j)
      BY DisjointJobs DEF GroupJobs, RepairsInv, EditsInv, EditorsTyped
    <2>2. q.op = "upload" /\ q.name = name
      BY DEF Upload
    <2> HIDE DEF q, more
    <2>3. job'[j] = [job[j] EXCEPT !.call = q, !.pc = to, !.expected = more]
      BY <1>3, <2>1
    <2>4. job'[j].pc = to /\ job'[j].call = q /\ job'[j].canonical = job[j].canonical
      BY <2>1, <2>3 DEF JobSet
    <2>5. UNCHANGED assets
      BY <1>1 DEF JobReads, Reading
    <2>6. InstallerSafe
      <3>1. CASE from = "uploaded"
        BY <1>1, <2>1, <3>1 DEF RepairKnows
      <3>2. CASE from = "deleted"
        <4>1. \A e \in Inventory : e[1] # Installer
          BY <1>1, <1>3, <2>1, <3>2 DEF JobKnows, Unchanged
        <4>2. ASSUME NEW a \in assets PROVE a.name # Installer
          <5>1. <<a.name, a.digest>> \in Inventory
            BY DEF Inventory
          <5>2. <<a.name, a.digest>>[1] = a.name
            OBVIOUS
          <5> QED
            BY <4>1, <5>1, <5>2
        <4> QED
          BY <4>2 DEF InstallerSafe
      <3> QED
        BY <3>1, <3>2
    <2>7. InstallerSafe'
      BY <1>1, <2>1, <2>2, <2>4, <2>5, <2>6, ReadPending, AskedSafe
    <2>8. ASSUME NEW i \in RepairJobs, ReceiptOf(q, i)
          PROVE  i = j /\ to = "receipted" /\ Over(j)
      <3>1. name = Receipt(i) /\ name[1] = i
        BY <2>2, <2>8, Shapes DEF ReceiptOf
      <3>2. name # Installer
        BY <3>1, NamesApart, Shapes
      <3>3. i = j /\ from = "uploaded" /\ to = "receipted"
        BY <3>1, <3>2, Shapes
      <3>4. <<Installer, Repaired[j]>> \in Inventory
        BY <1>1, <1>3, <2>1, <3>3 DEF JobKnows, Unchanged
      <3> QED
        BY <3>3, <3>4 DEF Inventory, Over
    <2>9. RepairKnows(j)'
      <3>1. ReceiptOf(job'[j].call, j) => to = "receipted" /\ Over(j)'
        BY <2>4, <2>5, <2>8 DEF ReceiptOf, Receipt, Over
      <3>2. to # "idle"
        OBVIOUS
      <3> QED
        BY <2>4, <2>7, <3>1, <3>2 DEF RepairKnows, ReceiptOf, Receipt
    <2>10. Underway(j) /\ job[j].pc \notin Ended
      BY <1>1 DEF Underway, Queued, Ended
    <2> QED
      BY <1>1, <2>4, <2>7, <2>8, <2>9, <2>10 DEF ReadsAlone
  <1> QED
    BY <1>2, <1>3 DEF RepairUpload

(* It ends with the readback of its receipt.                               *)
LEMMA FinishRepairAlone ==
  ASSUME RepairsInv, NEW j \in RepairJobs, FinishRepair(j), UNCHANGED tool
  PROVE  ReadsAlone(j)
  <1>1. JobReads(j) /\ job[j].pc = "receipted" /\ job[j].call = NoAsset
    BY FinishRepairReads DEF RepairsInv, FinishRepair, Reads
  <1>2. Become(j, "complete") \/ Become(j, "failed")
    BY DEF FinishRepair, FailJob
  <1> QED
    BY <1>1, <1>2, GoesOn DEF Ended

(* Every action of a job keeps what is known of the repairs.               *)
LEMMA JobActsRepairs ==
  ASSUME RepairsInv, NEW j \in GroupJobs, JobActs(j)
  PROVE  RepairsInv' /\ ReceiptsStep
  <1>1. EditsInv
    BY DEF RepairsInv
  <1>2. CASE ReadsAlone(j)
    BY <1>2, AloneRepairs
  <1>3. CASE j \in AppendJobs /\ AppendStep(j) /\ UNCHANGED tool
    <2>1. PromoteStage(j, "recover", "recovered") => JobReads(j)
      BY <1>1, <1>3, PromoteReads
    <2>2. PromoteStage(j, "promote", "final") => JobReads(j)
      BY <1>1, <1>3, PromoteReads
    <2>3. JobReads(j)
      BY <1>1, <1>3, <2>1, <2>2, StartReads, InspectReads, RecoveredReads, UploadReads,
         StageReads, ReplaceReads, FinishReads DEF AppendStep
    <2> QED
      BY <1>2, <1>3, <2>3, AppendAlone
  <1>4. CASE j \in RepairJobs /\ RepairStep(j) /\ UNCHANGED tool
    <2>1. CASE RepairUpload(j, "deleted", Installer, Repaired[j], "uploaded")
      BY <1>2, <1>4, <2>1, RepairUploadAlone
    <2>2. CASE RepairUpload(j, "uploaded", Receipt(j), {<<j, "receipt">>}, "receipted")
      BY <1>2, <1>4, <2>2, RepairUploadAlone
    <2> QED
      BY <1>2, <1>4, <2>1, <2>2, StartAlone, AdmitAlone, RepairAlone, FinishRepairAlone
         DEF RepairStep
  <1>5. CASE (Call(j) \/ Die(j)) /\ UNCHANGED tool
    BY <1>1, <1>5, CallEnds, DieEnds, EndingRepairs
  <1> QED
    BY <1>3, <1>4, <1>5 DEF JobActs, JobStep

(* A replacer asks for nothing that a repair is about.                     *)
LEMMA ToolReadsRepairs ==
  ASSUME RepairsInv, NEW r \in Replacers, ToolReads(r)
  PROVE  RepairsInv' /\ ReceiptsStep
  <1>1. EditsInv' /\ ReleaseInv
    BY ToolReadsKept DEF RepairsInv, EditsInv, Kept
  <1>2. /\ UNCHANGED <<assets, issued, late, job>>
        /\ \A s \in Replacers : s # r => tool'[s] = tool[s]
    BY DEF ToolReads, Only
  <1>3. ReceiptsStep
    BY <1>2 DEF ReceiptsStep, Present, Found
  <1>4. OneAtATime'
    BY <1>2 DEF RepairsInv, OneAtATime, Underway
  <1> DEFINE q == tool'[r].call
  <1>5. ASSUME q # NoAsset, q # tool[r].call
        PROVE  /\ q.op = "delete" => \A a \in assets : a.id = q.id => a.name # Installer
               /\ \A i \in RepairJobs : ~ReceiptOf(q, i)
    <2>1. Safe(q) /\ Apart(q) /\ q \in RequestSet
      BY <1>5 DEF ToolReads, NewCall, Elsewhere, Safe, Fine
    <2> QED
      BY <1>1, <2>1, ApartIsSafe
  <1>6. InstallerSafe => InstallerSafe'
    <2>1. q = tool[r].call /\ q # NoAsset => q \in Pending
      BY DEF Pending
    <2>2. Pending' \subseteq Pending \cup ({q} \ {NoAsset})
      BY <1>2 DEF Pending
    <2> HIDE DEF q
    <2> QED
      BY <1>2, <1>5, <2>1, <2>2, AskedSafe
  <1>7. ASSUME NEW i \in RepairJobs PROVE RepairKnows(i)' /\ LateReceipts(i)' /\ OwnReceipt(i)'
    <2>1. RepairKnows(i) /\ LateReceipts(i) /\ OwnReceipt(i)
      BY DEF RepairsInv
    <2>2. ~ReceiptOf(q, i)
      BY <1>5, <2>1 DEF OwnReceipt, ReceiptOf
    <2> HIDE DEF q
    <2>3. \A s \in Replacers : ~ReceiptOf(tool'[s].call, i)
      BY <1>2, <2>1, <2>2 DEF OwnReceipt, q
    <2>4. OwnReceipt(i)'
      BY <1>2, <2>1, <2>3 DEF OwnReceipt, ReceiptOf, Receipt
    <2>5. RepairKnows(i)' /\ LateReceipts(i)'
      BY <1>2, <1>6, <2>1 DEF RepairKnows, LateReceipts, ReceiptOf, Receipt, Over, Superseded
    <2> QED
      BY <2>4, <2>5
  <1> QED
    BY <1>1, <1>3, <1>4, <1>7 DEF RepairsInv

(* Every action of a replacer keeps what is known of the repairs.          *)
LEMMA ReplacerActsRepairs ==
  ASSUME RepairsInv, NEW r \in Replacers, ReplacerActs(r)
  PROVE  RepairsInv' /\ ReceiptsStep
  <1>1. EditsInv
    BY DEF RepairsInv
  <1>2. CASE (ReplaceCall(r) \/ CutShort(r)) /\ UNCHANGED job
    BY <1>1, <1>2, ToolCallEnds, EndingRepairs
  <1>3. CASE ReplaceStep(r) /\ ~ReplaceCall(r) /\ UNCHANGED job
    BY <1>1, <1>3, BeginReads, StageItemReads, PromoteItemReads, ReadbackReads,
       ToolReadsRepairs DEF ReplaceStep
  <1> QED
    BY <1>2, <1>3 DEF ReplacerActs, ReplaceStep

(* Every step keeps what is known of the repairs.                          *)
LEMMA StepRepairs ==
  ASSUME RepairsInv, [StableNext]_stableVars
  PROVE  RepairsInv' /\ ReceiptsStep
  <1>1. EditsInv
    BY DEF RepairsInv
  <1>2. CASE \E j \in GroupJobs : JobActs(j)
    BY <1>2, JobActsRepairs
  <1>3. CASE \E r \in Replacers : ReplacerActs(r)
    BY <1>3, ReplacerActsRepairs
  <1>4. CASE Arrives
    BY <1>1, <1>4, ArrivesEnds, EndingRepairs
  <1>5. CASE UNCHANGED stableVars
    <2>1. UNCHANGED <<assets, issued, late, job, tool>>
      BY <1>5 DEF stableVars
    <2>2. Pending' \subseteq Pending /\ EditorsTyped'
      BY <1>1, <2>1 DEF Pending, EditsInv, EditorsTyped
    <2>3. Ending
      BY <2>1, <2>2 DEF Ending, Forgets
    <2> QED
      BY <2>3, EndingRepairs
  <1> QED
    BY <1>2, <1>3, <1>4, <1>5 DEF StableNext

(* At the start nobody has asked for anything.                             *)
LEMMA RepairsStart ==
  ASSUME StableInit
  PROVE  RepairsInv
  <1>1. EditsInv /\ late = {}
    BY EditsStart, EditorsStart, SeedAssets
  <1>2. \A j \in GroupJobs : job[j] = Idle
    BY DEF StableInit, AppendInit
  <1>3. \A r \in Replacers : tool[r].call = NoAsset
    BY DEF StableInit, ReplaceInit
  <1>4. OneAtATime
    BY <1>2 DEF OneAtATime, Underway, Queued, Idle
  <1>5. ASSUME NEW j \in RepairJobs PROVE RepairKnows(j) /\ LateReceipts(j) /\ OwnReceipt(j)
    <2>1. j \in GroupJobs /\ Idle.pc = "idle" /\ Idle.call = NoAsset /\ Idle.canonical = NoAsset
      BY DEF GroupJobs, Idle
    <2> QED
      BY <1>1, <1>2, <1>3, <2>1 DEF RepairKnows, LateReceipts, OwnReceipt, ReceiptOf
  <1> QED
    BY <1>1, <1>4, <1>5 DEF RepairsInv

(* A receipt of the installer repair is published only over the installer  *)
(* it speaks of, whatever bytes the repairs publish; the one exception is  *)
(* the receipt of a dead repair, carried out after another repair was      *)
(* admitted against its installer (append-stable-desktop-assets.ts,        *)
(* additive repair).                                                       *)
THEOREM ReceiptAlwaysTrue == StableSpec => ReceiptIsTrue
  <1> DEFINE Step == \A j \in RepairJobs :
                 ~Present(Receipt(j)) /\ Present(Receipt(j))'
                    => \/ At(Installer) # NoAsset /\ At(Installer).digest = Repaired[j]
                       \/ job[j].pc = "dead" /\ Superseded(j)
  <1>1. StableInit => RepairsInv
    BY RepairsStart
  <1>2. RepairsInv /\ [StableNext]_stableVars => RepairsInv'
    BY StepRepairs
  <1>3. ASSUME RepairsInv, [StableNext]_stableVars
        PROVE  [Step]_stableVars
    BY <1>3, StepRepairs DEF ReceiptsStep
  <1> QED
    BY <1>1, <1>2, <1>3, PTL DEF StableSpec, ReceiptIsTrue
=============================================================================

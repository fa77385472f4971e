--------------------------- MODULE Assessment_proofs ---------------------------
(***************************************************************************)
(* Proofs about Revision and Assessment.  The order of versions is that of *)
(* the history they name; and for every repository, MCU and host, an       *)
(* update settles, no update is taken back by the next, and the agent      *)
(* offers what `update` would select.                                      *)
(***************************************************************************)
EXTENDS Assessment, SequenceTheorems, TLAPS

-----------------------------------------------------------------------------
(* Revision: the order of versions, for every pair of tagged revisions. *)

\* klipper_version's semver order is the order of tags, and of the commits
\* since the latest tag ("work towards the next release").
THEOREM VersionsOrderLikeHistory ==
    ASSUME NEW r \in Tagged, NEW s \in Tagged, NoTag \notin Tag
    PROVE  Below(Version(r), Version(s)) <=> Before(r, s)
<1>1. /\ r.tag \in Tag /\ s.tag \in Tag
      /\ r.commits \in Nat /\ s.commits \in Nat
  BY DEF Tagged, Revision
<1>2. r.tag = s.tag <=> /\ r.tag.major = s.tag.major
                        /\ r.tag.minor = s.tag.minor
                        /\ r.tag.patch = s.tag.patch
  BY <1>1 DEF Tag
<1> QED
  BY <1>1, <1>2 DEF Below, Version, Before, Tag

\* semver's order of the versions of two revisions goes one way at most.
LEMMA BelowIsStrict ==
    ASSUME NEW r \in Tagged, NEW s \in Tagged, NoTag \notin Tag,
           Below(Version(r), Version(s))
    PROVE  ~Below(Version(s), Version(r))
<1>1. /\ r.tag \in Tag /\ s.tag \in Tag
      /\ r.commits \in Nat /\ s.commits \in Nat
  BY DEF Tagged, Revision
<1> QED
  BY <1>1 DEF Below, Version, Tag

\* Matching does not depend on which of the two is running.
LEMMA MatchesIsSymmetric ==
    ASSUME NEW r, NEW s
    PROVE  Matches(r, s) <=> Matches(s, r)
  BY DEF Matches

\* Two tagged revisions are never each newer than the other, and of a newer
\* and an older one exactly the older needs the update: flashing back and
\* forth between two checkouts of one history cannot happen by `update` alone.
THEOREM NewerIsOneWay ==
    ASSUME NEW r \in Tagged, NEW s \in Tagged, NoTag \notin Tag,
           Compare(r, s) = "newer"
    PROVE  Compare(s, r) = "update_required" /\ Before(s, r)
<1>1. /\ ~Matches(r, s) /\ r.tag # NoTag /\ s.tag # NoTag
      /\ CompareVersions(Version(r), Version(s)) = "newer"
  BY DEF Compare, IsNewer
<1>2. Below(Version(s), Version(r))
  BY <1>1 DEF CompareVersions
<1>3. ~Below(Version(r), Version(s))
  BY <1>2, BelowIsStrict
<1>4. CompareVersions(Version(s), Version(r)) = "update_required"
  BY <1>2 DEF CompareVersions
<1>4a. ~IsNewer(s, r)
  BY <1>4 DEF IsNewer
<1>5. ~Matches(s, r)
  BY <1>1, MatchesIsSymmetric
<1>6. Compare(s, r) = "update_required"
  BY <1>4a, <1>5 DEF Compare
<1>7. Before(s, r)
  BY <1>2, VersionsOrderLikeHistory
<1> QED
  BY <1>6, <1>7

\* An older tagged revision of the history is never taken for an update of a
\* newer one, unless it is another name of the same commit.
THEOREM OlderIsNoUpdate ==
    ASSUME NEW r \in Tagged, NEW s \in Tagged, NoTag \notin Tag,
           Before(s, r)
    PROVE  Compare(r, s) \in {"newer", "current"}
<1>1. Below(Version(s), Version(r))
  BY VersionsOrderLikeHistory
<1>2. ~Below(Version(r), Version(s))
  BY <1>1, BelowIsStrict
<1>3. CompareVersions(Version(r), Version(s)) = "newer"
  BY <1>1, <1>2 DEF CompareVersions
<1>4. r.tag # NoTag /\ s.tag # NoTag
  BY DEF Tagged
<1>5. CASE Matches(r, s)
  BY <1>5 DEF Compare
<1>6. CASE ~Matches(r, s)
  BY <1>3, <1>4, <1>6 DEF Compare, IsNewer
<1> QED
  BY <1>5, <1>6

-----------------------------------------------------------------------------
(* Descriptions of the repository's commits. *)

\* What git may say of a commit, with or without its tag, of a tree that is
\* changed or not, with so many digits of the hash.
Named(commit, named, changed, digits) ==
    [tag |-> IF named THEN Where[commit].tag ELSE NoTag,
     commits |-> IF named THEN Where[commit].commits ELSE 0,
     hash |-> SubSeq(Hash[commit], 1, digits), dirty |-> changed]

\* What git describe prints, by commit, tag, edits and hash length.
LEMMA DescriptionsAreNamed ==
  Descriptions = {Named(c, n, x, d) : c \in Commits, n \in BOOLEAN, x \in BOOLEAN, d \in 1..2}
BY DEF Named, Descriptions

\* So built, it is one of the descriptions.
LEMMA NamedIsDescription ==
  ASSUME NEW c \in Commits, NEW d \in 1..2, NEW n \in BOOLEAN, NEW x \in BOOLEAN
  PROVE  Named(c, n, x, d) \in Descriptions
BY DescriptionsAreNamed

\* So does the checkout describe itself.
LEMMA DescribeIsNamed ==
  ASSUME NEW c, NEW d
  PROVE  Describe(c, d) = Named(c, tags, edited, d)
BY DEF Describe, Named

\* An abbreviated hash, digit by digit.
LEMMA HashShape ==
  ASSUME Repository, NEW c \in Commits, NEW d \in 1..2
  PROVE  /\ SubSeq(Hash[c], 1, d) \in Seq(Digits) /\ Len(SubSeq(Hash[c], 1, d)) = d
         /\ \A i \in 1..d : SubSeq(Hash[c], 1, d)[i] = Hash[c][i]
         /\ Hash[c][1] \in Digits /\ Hash[c][2] \in Digits
         /\ SubSeq(Hash[c], 1, 2) = Hash[c]
<1>1. Hash[c] \in Seq(Digits) /\ Len(Hash[c]) = 2
  BY DEF Repository
<1>2. \A i \in 1..2 : Hash[c][i] \in Digits
  BY <1>1, ElementOfSeq
<1>3. /\ SubSeq(Hash[c], 1, d) \in Seq(Digits)
      /\ Len(SubSeq(Hash[c], 1, d)) = IF 1 <= d THEN d - 1 + 1 ELSE 0
      /\ \A i \in 1..(d - 1 + 1) : SubSeq(Hash[c], 1, d)[i] = Hash[c][1 + i - 1]
  BY <1>2, SubSeqProperties
<1>4. SubSeq(Hash[c], 1, 2) = Hash[c]
  BY <1>1, SubSeqFull
<1> QED
  BY <1>2, <1>3, <1>4

\* A tag is "v" and four numbers before the hash.
BaseIs(base, c, named, d) ==
    IF named
    THEN /\ Len(base) = 5 + d
         /\ base[1] = "v" /\ base[2] = Where[c].tag.major
         /\ base[3] = Where[c].tag.minor /\ base[4] = Where[c].tag.patch
         /\ base[5] = Where[c].commits /\ base[6] = Hash[c][1]
         /\ d = 2 => base[7] = Hash[c][2]
    ELSE /\ Len(base) = d /\ base[1] = Hash[c][1]
         /\ d = 2 => base[2] = Hash[c][2]

\* A description without its edits, part by part.
LEMMA BaseShape ==
  ASSUME Repository, NEW c \in Commits, NEW d \in 1..2, NEW changed, NEW named \in BOOLEAN
  PROVE  BaseIs(Base(Named(c, named, changed, d)), c, named, d)
<1> DEFINE hash == SubSeq(Hash[c], 1, d)
           front == <<"v", Where[c].tag.major, Where[c].tag.minor, Where[c].tag.patch,
                      Where[c].commits>>
           Any == Digits \cup Nat \cup {"v"}
           base == Base(Named(c, named, changed, d))
<1>1. hash \in Seq(Any) /\ Len(hash) = d /\ \A i \in 1..d : hash[i] = Hash[c][i]
  BY HashShape, SeqMonotonic
<1>2. Where[c].tag \in Tag /\ Where[c].commits \in Nat /\ NoTag \notin Tag
  BY DEF Repository
<1>3. CASE named
  <2>1. base = front \o hash
    BY <1>2, <1>3 DEF Base, Named
  <2>2. front \in Seq(Any) /\ Len(front) = 5
    BY <1>2 DEF Tag
  <2>3. /\ Len(front \o hash) = 5 + d
        /\ \A i \in 1..(5 + d) : (front \o hash)[i] = IF i <= 5 THEN front[i] ELSE hash[i - 5]
    BY <1>1, <2>2, ConcatProperties
  <2> HIDE DEF hash, base
  <2>4. \A i \in 1..5 : base[i] = front[i]
    BY <2>1, <2>3
  <2>5. base[6] = hash[1] /\ (d = 2 => base[7] = hash[2])
    BY <2>1, <2>3
  <2>6. hash[1] = Hash[c][1] /\ (d = 2 => hash[2] = Hash[c][2])
    BY <1>1
  <2> QED
    <3>1. Len(base) = 5 + d
      BY <2>1, <2>3
    <3>2. BaseIs(base, c, named, d)
      <4> HIDE DEF front
      <4>1. /\ front[1] = "v" /\ front[2] = Where[c].tag.major
            /\ front[3] = Where[c].tag.minor /\ front[4] = Where[c].tag.patch
            /\ front[5] = Where[c].commits
        BY DEF front
      <4>2. 1 \in 1..5 /\ 2 \in 1..5 /\ 3 \in 1..5 /\ 4 \in 1..5 /\ 5 \in 1..5
        OBVIOUS
      <4> QED
        BY <1>3, <2>4, <2>5, <2>6, <3>1, <4>1, <4>2 DEF BaseIs
    <3> QED
      BY <3>2 DEF base
<1>4. CASE ~named
  <2>1. base = <<>> \o hash
    BY <1>4 DEF Base, Named
  <2>2. base = hash
    BY <1>1, <2>1, ConcatEmptySeq
  <2> HIDE DEF hash, base
  <2> QED
    BY <1>1, <1>4, <2>2 DEF BaseIs, base
<1> QED
  BY <1>3, <1>4

\* Revisions that match name one commit, and both or neither its tag.
LEMMA MatchIsSameCommit ==
  ASSUME Repository, NEW c \in Commits, NEW d \in 1..2, NEW n \in BOOLEAN, NEW x,
         NEW c2 \in Commits, NEW d2 \in 1..2, NEW n2 \in BOOLEAN, NEW x2,
         Matches(Named(c, n, x, d), Named(c2, n2, x2, d2))
  PROVE  c = c2 /\ x = x2 /\ n = n2
<1> DEFINE b == Base(Named(c, n, x, d))
           b2 == Base(Named(c2, n2, x2, d2))
<1>1. x = x2
  BY DEF Matches, Named
<1>2. StartsWith(b2, b) \/ StartsWith(b, b2)
  BY DEF Matches
<1> HIDE DEF b, b2
<1>3. BaseIs(b, c, n, d) /\ BaseIs(b2, c2, n2, d2)
  BY BaseShape DEF b, b2
<1>4. /\ n => Len(b) = 5 + d /\ b[1] = "v" /\ b[6] = Hash[c][1]
      /\ ~n => Len(b) = d /\ b[1] = Hash[c][1]
      /\ n2 => Len(b2) = 5 + d2 /\ b2[1] = "v" /\ b2[6] = Hash[c2][1]
      /\ ~n2 => Len(b2) = d2 /\ b2[1] = Hash[c2][1]
  BY <1>3 DEF BaseIs
<1>5. b[1] = b2[1]
  BY <1>2, <1>3, <1>4 DEF StartsWith
<1>6. Hash[c][1] # "v" /\ Hash[c2][1] # "v"
  BY HashShape DEF Repository
<1>7. n = n2
  BY <1>3, <1>4, <1>5, <1>6
<1>8. Hash[c][1] = Hash[c2][1]
  <2>1. CASE n
    <3>1. 6 \in 1..Len(b) /\ 6 \in 1..Len(b2)
      BY <1>3, <1>4, <1>7, <2>1
    <3>2. b[6] = b2[6]
      BY <1>2, <3>1 DEF StartsWith
    <3> QED
      BY <1>3, <1>4, <1>7, <2>1, <3>2
  <2>2. CASE ~n
    BY <1>3, <1>4, <1>5, <1>7, <2>2
  <2> QED
    BY <2>1, <2>2
<1>9. c = c2
  BY <1>8 DEF Repository
<1> QED
  BY <1>1, <1>7, <1>9

\* However short the hash of the one is, a commit matches itself.
LEMMA SameCommitMatches ==
  ASSUME Repository, NEW c \in Commits, NEW d \in 1..2, NEW n \in BOOLEAN, NEW x
  PROVE  Matches(Named(c, n, x, d), Named(c, n, x, 2))
<1> DEFINE b == Base(Named(c, n, x, d))
           b2 == Base(Named(c, n, x, 2))
<1>1. Len(b) <= Len(b2) /\ \A i \in 1..Len(b) : b2[i] = b[i]
  <2> HIDE DEF b, b2
  <2>1. BaseIs(b, c, n, d) /\ BaseIs(b2, c, n, 2)
    BY BaseShape DEF b, b2
  <2> DEFINE length == IF n THEN 5 + d ELSE d
  <2>2. Len(b) = length /\ Len(b2) = IF n THEN 7 ELSE 2
    BY <2>1 DEF BaseIs
  <2>3. length \in 1..7 /\ length <= IF n THEN 7 ELSE 2
    OBVIOUS
  <2>4. \A i \in 1..length : b2[i] = b[i]
    <3>1. CASE n
      <4>1. b2[1] = b[1] /\ b2[2] = b[2] /\ b2[3] = b[3] /\ b2[4] = b[4] /\ b2[5] = b[5]
            /\ b2[6] = b[6] /\ (d = 2 => b2[7] = b[7])
        BY <2>1, <3>1 DEF BaseIs
      <4>2. \A i \in 1..length : i \in 1..6 \/ (i = 7 /\ d = 2)
        BY <3>1
      <4> QED
        BY <4>1, <4>2
    <3>2. CASE ~n
      BY <2>1, <3>2 DEF BaseIs
    <3> QED
      BY <3>1, <3>2
  <2> QED
    BY <2>2, <2>3, <2>4
<1> QED
  BY <1>1, Zenon DEF Matches, StartsWith, Named

-----------------------------------------------------------------------------
(* Assessment. *)

\* Firmware that is no vendor's is a build of `builtFrom`, and the host's
\* Klipper was started from a commit with its whole hash; so is approved what
\* the checkout holds.
BuildsAreNamed ==
    /\ Klipper => \E n, x \in BOOLEAN, d \in 1..2 : running = Named(builtFrom, n, x, d)
    /\ \E c \in Commits, n, x \in BOOLEAN : software = Named(c, n, x, 2)
    /\ Klipper /\ pc # "idle" =>
         \E c \in Commits, n, x \in BOOLEAN : approved = Named(c, n, x, 2)

\* What an approval found, as long as it holds.
Approval ==
    pc = "approved" =>
      /\ Klipper /\ calm => /\ Eligibility = "eligible"
                           /\ Compare(running, CheckoutRevision) # "newer"
      /\ ~Klipper => approved \in 0..Top /\ running.version <= approved

\* What a flash left.
Build ==
    pc \in {"flashed", "verified"} =>
      /\ Klipper /\ calm => \E d \in 1..2 : running = Describe(head, d)
      /\ ~Klipper => /\ approved \in 0..Top /\ (calm => image = approved)
                     /\ running = [version |-> approved, build |-> "release"]

AssessInv ==
    /\ TypeOK /\ BuildsAreNamed /\ Approval /\ Build
    /\ pc = "verified" =>
         reached = IF mcu.firmware \in Vendors
                   THEN running.version = approved /\ running.build = "release"
                   ELSE Matches(running, approved)

\* An MCU that runs any build of the repository's commits.
LEMMA AssessInit ==
  ASSUME Parameters, Init
  PROVE  AssessInv
<1>1. Repository
  BY DEF Parameters
<1>2. /\ mcu \in [firmware : Firmwares, kconfig : Kconfigs] /\ host \in Host
      /\ head \in Commits /\ edited = FALSE /\ tags \in BOOLEAN /\ builtFrom \in Commits
      /\ software = CheckoutRevision /\ pc = "idle" /\ approved = None /\ moves = 0
      /\ calm = TRUE /\ reached = None
  BY DEF Parameters, Init
<1>3. software = Named(head, tags, edited, 2)
  BY <1>2 DEF CheckoutRevision, Describe, Named
<1>4. software \in Descriptions /\ edited \in BOOLEAN
  <2>0. edited \in BOOLEAN
    BY <1>2, Zenon
  <2>1. edited \in BOOLEAN /\ 2 \in 1..2 /\ head \in Commits /\ tags \in BOOLEAN
    BY <1>2, <2>0
  <2>2. Named(head, tags, edited, 2) \in Descriptions
    BY <2>1, NamedIsDescription
  <2> QED
    BY <1>3, <2>1, <2>2
<1>5. running \in IF mcu.firmware \in Vendors THEN Prebuilt ELSE Descriptions
  BY DEF Init
<1>6. image \in 0..Top \cup {None}
  BY DEF Init
<1>7. TypeOK
  <2>1. pc \in {"idle", "approved", "flashed", "verified"} /\ moves \in 0..MaxMoves
        /\ calm \in BOOLEAN /\ reached \in BOOLEAN \cup {None}
        /\ (pc = "verified" <=> reached # None)
    BY <1>2 DEF Parameters
  <2>2. approved \in {None} \cup
                     (IF mcu.firmware \in Vendors THEN 0..Top ELSE Descriptions)
    BY <1>2
  <2> QED
    BY <1>2, <1>4, <1>5, <1>6, <2>1, <2>2, Zenon DEF TypeOK
<1>8. ASSUME Klipper
      PROVE  \E n, x \in BOOLEAN, d \in 1..2 : running = Named(builtFrom, n, x, d)
  <2>1. running.hash = SubSeq(Hash[builtFrom], 1, Len(running.hash))
    BY <1>8 DEF Init, Klipper
  <2>2. PICK c \in Commits, n \in BOOLEAN, x \in BOOLEAN, d \in 1..2 :
          running = Named(c, n, x, d)
    BY <1>5, <1>8, DescriptionsAreNamed DEF Klipper
  <2>3. running.hash = SubSeq(Hash[c], 1, d)
    BY <2>2 DEF Named
  <2>4. Len(running.hash) = d /\ running.hash[1] = Hash[c][1]
    BY <1>1, <2>3, HashShape
  <2>5. running.hash[1] = Hash[builtFrom][1]
    BY <1>1, <1>2, <2>1, <2>4, HashShape
  <2>6. c = builtFrom
    BY <1>1, <1>2, <2>4, <2>5 DEF Repository
  <2> QED
    BY <2>2, <2>6
<1>9. BuildsAreNamed
  BY <1>2, <1>3, <1>8 DEF BuildsAreNamed
<1> QED
  BY <1>2, <1>7, <1>9 DEF AssessInv, Approval, Build

\* The checkout's revision is a description, and what it matches is a build of
\* its commit.
LEMMA CheckoutIsNamed ==
  ASSUME TypeOK
  PROVE  /\ CheckoutRevision = Named(head, tags, edited, 2)
         /\ CheckoutRevision \in Descriptions
<1>1. CheckoutRevision = Named(head, tags, edited, 2)
  BY DEF CheckoutRevision, Describe, Named
<1>2. head \in Commits /\ tags \in BOOLEAN /\ edited \in BOOLEAN /\ 2 \in 1..2
  BY DEF TypeOK
<1>3. Named(head, tags, edited, 2) \in Descriptions
  BY <1>2, NamedIsDescription
<1> QED
  BY <1>1, <1>3

\* What the verdict on a vendor's firmware says of its version.
LEMMA VendorVerdict ==
  ASSUME Parameters, TypeOK, mcu.firmware \in Vendors, NEW target
  PROVE  /\ Eligibility = "prebuilt" /\ RevisionStatus(target) \in Verdict
         /\ image = None => RevisionStatus(target) = "indeterminate"
         /\ image # None /\ RevisionStatus(target) # "newer" => running.version <= image
         /\ running.build # "release" => RevisionStatus(target) # "update_required"
         /\ running = [version |-> image, build |-> "release"]
              => RevisionStatus(target) # "update_required"
<1>1. Eligibility = "prebuilt"
  BY DEF Eligibility, Vendors, Families
<1>2. RevisionStatus(target) =
        IF image = None THEN "indeterminate" ELSE ComparePrebuilt(image)
  BY <1>1 DEF RevisionStatus
<1>3. running.version \in Nat /\ running.build \in {"release", "commits", "dirty"}
  BY DEF TypeOK, Prebuilt
<1>4. ASSUME image # None
      PROVE  /\ image \in Nat /\ ComparePrebuilt(image) \in Verdict
             /\ ComparePrebuilt(image) # "newer" => running.version <= image
             /\ running.build # "release" => ComparePrebuilt(image) # "update_required"
             /\ running.version = image /\ running.build = "release"
                  => ComparePrebuilt(image) # "update_required"
  <2>1. image \in Nat
    BY <1>4 DEF TypeOK, Parameters
  <2>2. CASE running.version > image
    BY <1>3, <2>1, <2>2 DEF ComparePrebuilt, Verdict
  <2>3. CASE running.version = image
    BY <1>3, <2>1, <2>3 DEF ComparePrebuilt, Verdict
  <2>4. CASE running.version < image
    BY <1>3, <2>1, <2>4 DEF ComparePrebuilt, Verdict
  <2> QED
    BY <1>3, <2>1, <2>2, <2>3, <2>4
<1> QED
  BY <1>1, <1>2, <1>4 DEF Verdict

\* The only firmware that is compared and is no vendor's is eligible.
LEMMA KlipperVerdict ==
  ASSUME Parameters, TypeOK, Klipper, NEW target
  PROVE  /\ Eligibility \in {"external", "unsupported", "unsupported_mcu", "eligible"}
         /\ RevisionStatus(target) =
              IF Eligibility = "eligible" THEN Compare(running, target) ELSE None
<1>1. mcu.firmware \in Families \cup {"beta", "third_party", "unnamed"}
  BY DEF TypeOK, Firmwares, Klipper
<1>2. ByKconfig \in {"unsupported", "unsupported_mcu", "eligible"}
  BY DEF ByKconfig
<1>3. Eligibility \in {"external", "unsupported", "unsupported_mcu", "eligible"}
  <2>1. CASE mcu.firmware \in {"beta", "third_party"}
    BY <1>1, <2>1 DEF Eligibility, Vendors, Families
  <2>2. CASE mcu.firmware \in Families /\ TooOld
    BY <1>1, <2>2 DEF Eligibility, Vendors, Families
  <2>3. CASE mcu.firmware \in Families /\ ~TooOld
    BY <1>1, <1>2, <2>3 DEF Eligibility, Vendors, Families
  <2>4. CASE mcu.firmware = "unnamed"
    BY <1>1, <1>2, <2>4 DEF Eligibility, Vendors, Families
  <2> QED
    BY <1>1, <2>1, <2>2, <2>3, <2>4
<1> QED
  BY <1>3 DEF RevisionStatus

\* An MCU is selected only for a target that is not older.
LEMMA SelectedIsNotOlder ==
  ASSUME Parameters, TypeOK, NEW all, Selected(all, CheckoutRevision)
  PROVE  /\ Klipper => /\ Eligibility = "eligible"
                       /\ Compare(running, CheckoutRevision) # "newer"
         /\ ~Klipper => image \in 0..Top /\ running.version <= image
<1>1. /\ Eligibility \in {"eligible", "prebuilt"}
      /\ Eligibility = "prebuilt" => image # None
      /\ RevisionStatus(CheckoutRevision) # "newer"
  BY DEF Selected
<1>2. CASE Klipper
  <2>1. Eligibility = "eligible"
    BY <1>1, <1>2, KlipperVerdict
  <2>2. RevisionStatus(CheckoutRevision) = Compare(running, CheckoutRevision)
    BY <1>2, <2>1, KlipperVerdict
  <2> QED
    BY <1>1, <1>2, <2>1, <2>2
<1>3. CASE ~Klipper
  <2>1. mcu.firmware \in Vendors
    BY <1>3 DEF Klipper
  <2>2. image # None
    BY <1>1, <2>1, VendorVerdict
  <2>3. running.version <= image
    BY <1>1, <2>1, <2>2, VendorVerdict
  <2>4. image \in 0..Top
    BY <2>2 DEF TypeOK
  <2> QED
    BY <1>3, <2>3, <2>4
<1> QED
  BY <1>2, <1>3

\* Nothing blocks the agent only when the host runs what the checkout holds.
LEMMA UnblockedRunsTheCheckout ==
  ASSUME Parameters, Blocker = None
  PROVE  Matches(software, CheckoutRevision)
<1> SUFFICES ASSUME Holds("restart_pending")
             PROVE  FALSE
  BY DEF Holds
<1> DEFINE true == {i \in 1..Len(Reasons) : Holds(Reasons[i])}
           least == CHOOSE i \in true : \A j \in true : i <= j
<1>1. Len(Reasons) = 6 /\ Reasons[5] = "restart_pending"
  BY DEF Reasons
<1>2. 5 \in true /\ true \subseteq 1..6
  BY <1>1
<1> HIDE DEF true
<1>3. \E i \in true : \A j \in true : i <= j
  <2>1. CASE 1 \in true
    BY <1>2, <2>1
  <2>2. CASE 1 \notin true /\ 2 \in true
    BY <1>2, <2>2
  <2>3. CASE 1 \notin true /\ 2 \notin true /\ 3 \in true
    BY <1>2, <2>3
  <2>4. CASE 1 \notin true /\ 2 \notin true /\ 3 \notin true /\ 4 \in true
    BY <1>2, <2>4
  <2>5. CASE 1 \notin true /\ 2 \notin true /\ 3 \notin true /\ 4 \notin true
    BY <1>2, <2>5
  <2> QED
    BY <2>1, <2>2, <2>3, <2>4, <2>5
<1>4. least \in true
  BY <1>3
<1>5. Reasons[least] # None
  BY <1>1, <1>2, <1>4 DEF Parameters
<1>6. Blocker = Reasons[least]
  BY <1>2, Zenon DEF Blocker, First, true
<1> QED
  BY <1>5, <1>6

\* What the agent offers, `update` selects, and both compare the MCU with the
\* same revision.
LEMMA OfferedIsSelected ==
  ASSUME Parameters, TypeOK, BuildsAreNamed, AgentOffers
  PROVE  software = CheckoutRevision /\ Selected(FALSE, CheckoutRevision)
<1>1. PICK c \in Commits, n \in BOOLEAN, x \in BOOLEAN : software = Named(c, n, x, 2)
  BY DEF BuildsAreNamed
<1>2. CheckoutRevision = Named(head, tags, edited, 2)
  BY CheckoutIsNamed
<1>3. Matches(software, CheckoutRevision)
  BY UnblockedRunsTheCheckout DEF AgentOffers
<1>4. head \in Commits /\ tags \in BOOLEAN /\ 2 \in 1..2 /\ Repository
  BY DEF TypeOK, Parameters
<1>5. c = head /\ n = tags /\ x = edited
  BY <1>1, <1>2, <1>3, <1>4, MatchIsSameCommit
<1>6. software = CheckoutRevision
  BY <1>1, <1>2, <1>5
<1>7. RevisionStatus(software) = "update_required"
  <2>1. CASE Klipper
    <3>1. CASE Eligibility = "eligible"
      <4>1. RevisionStatus(software) = Compare(running, software)
        BY <2>1, <3>1, KlipperVerdict
      <4>2. RevisionStatus(software) \in {"current", "newer", "update_required"}
        BY <4>1 DEF Compare
      <4> QED
        BY <4>2 DEF AgentOffers, AgentState
    <3>2. CASE Eligibility # "eligible"
      <4>1. RevisionStatus(software) = None
        BY <2>1, <3>2, KlipperVerdict
      <4>2. None \notin {"current", "newer", "update_required", "indeterminate"}
        BY DEF Parameters, Verdict
      <4>3. Eligibility \in {"external", "unsupported", "unsupported_mcu"}
        BY <2>1, <3>2, KlipperVerdict
      <4>4. AgentState # "update_available"
        BY <4>1, <4>2, <4>3 DEF AgentState
      <4> QED
        BY <4>4 DEF AgentOffers
    <3> QED
      BY <3>1, <3>2
  <2>2. CASE ~Klipper
    <3>1. RevisionStatus(software) \in Verdict
      BY <2>2, VendorVerdict DEF Klipper
    <3> QED
      BY <3>1 DEF AgentOffers, AgentState, Verdict
  <2> QED
    BY <2>1, <2>2
<1>8. None # "update_required"
  BY DEF Parameters, Verdict
<1>9. Eligibility \in {"eligible", "prebuilt"} /\ (Eligibility = "prebuilt" => image # None)
  <2>1. CASE Klipper
    BY <1>7, <1>8, <2>1, KlipperVerdict
  <2>2. CASE ~Klipper
    BY <1>7, <2>2, VendorVerdict DEF Klipper
  <2> QED
    BY <2>1, <2>2
<1> QED
  BY <1>6, <1>7, <1>9 DEF Selected

-----------------------------------------------------------------------------
(* The steps of an update, and what changes meanwhile. *)

\* An approval, by `update` or by the agent.
LEMMA ApproveStep ==
  ASSUME Parameters, AssessInv, CliApproves \/ AgentApproves
  PROVE  AssessInv'
<1>1. PICK all \in BOOLEAN : Selected(all, CheckoutRevision) /\ Approve(CheckoutRevision)
  <2>1. CASE CliApproves
    BY <2>1 DEF CliApproves
  <2>2. CASE AgentApproves
    <3>1. software = CheckoutRevision /\ Selected(FALSE, CheckoutRevision)
      BY <2>2, OfferedIsSelected DEF AgentApproves, AssessInv
    <3> QED
      BY <2>2, <3>1 DEF AgentApproves
  <2> QED
    BY <2>1, <2>2
<1>2. TypeOK
  BY DEF AssessInv
<1>3. /\ pc = "idle" /\ pc' = "approved"
      /\ approved' = IF mcu.firmware \in Vendors THEN image ELSE CheckoutRevision
      /\ calm' = TRUE /\ reached' = None
      /\ UNCHANGED <<mcu, host, running, head, edited, tags, software, image, moves,
                     builtFrom>>
  BY <1>1 DEF Approve, checkout
<1>4. /\ Klipper => Eligibility = "eligible" /\ Compare(running, CheckoutRevision) # "newer"
      /\ ~Klipper => image \in 0..Top /\ running.version <= image
  BY <1>1, <1>2, SelectedIsNotOlder
<1>5. TypeOK'
  <2>1. approved' \in {None} \cup
                      (IF mcu.firmware \in Vendors THEN 0..Top ELSE Descriptions)
    BY <1>2, <1>3, <1>4, CheckoutIsNamed DEF Klipper
  <2> QED
    BY <1>2, <1>3, <2>1 DEF TypeOK
<1>6. /\ Klipper' = Klipper /\ Eligibility' = Eligibility
      /\ CheckoutRevision' = CheckoutRevision
  BY <1>3, Zenon DEF Klipper, Eligibility, TooOld, ByKconfig, CheckoutRevision, Describe
<1>7. Compare(running, CheckoutRevision)' = Compare(running, CheckoutRevision)
  BY <1>3, <1>6, Zenon DEF Compare, Matches, IsNewer
<1>8. BuildsAreNamed'
  <2>1. Klipper => approved' = Named(head, tags, edited, 2)
    BY <1>2, <1>3, CheckoutIsNamed DEF Klipper
  <2>2. head \in Commits /\ tags \in BOOLEAN /\ edited \in BOOLEAN
    BY <1>2 DEF TypeOK
  <2>3. Klipper' => \E c \in Commits, n, x \in BOOLEAN : approved' = Named(c, n, x, 2)
    BY <1>6, <2>1, <2>2
  <2> QED
    BY <1>3, <1>6, <2>3 DEF AssessInv, BuildsAreNamed, Named
<1>9. Approval'
  <2>1. Klipper' => Eligibility' = "eligible" /\ Compare(running, CheckoutRevision)' # "newer"
    BY <1>4, <1>6, <1>7
  <2>2. ~Klipper' => approved' \in 0..Top /\ running'.version <= approved'
    BY <1>3, <1>4, <1>6 DEF Klipper
  <2> QED
    BY <2>1, <2>2 DEF Approval
<1>10. Build' /\ pc' # "verified"
  BY <1>3 DEF Build
<1> QED
  BY <1>5, <1>8, <1>9, <1>10 DEF AssessInv

\* A build holds the commit the checkout is at; a vendor's image is the one
\* that was approved.
LEMMA FlashStep ==
  ASSUME Parameters, AssessInv, Flash
  PROVE  AssessInv'
<1>1. TypeOK /\ BuildsAreNamed /\ Approval /\ pc = "approved"
  BY DEF AssessInv, Flash
<1>2. UNCHANGED <<mcu, host, head, edited, tags, software, image, approved, moves, calm,
                  reached>>
  BY DEF Flash, checkout
<1>3. reached = None
  BY <1>1 DEF TypeOK
<1>4. Klipper' = Klipper /\ pc' # "verified"
  BY <1>2 DEF Klipper, Flash
<1>5. CASE Klipper
  <2>1. Flashed(head) /\ pc' = "flashed"
    BY <1>5 DEF Flash, Klipper
  <2>2. PICK d \in 1..2 : running' = Describe(head, d)
    BY <2>1 DEF Flashed
  <2>3. builtFrom' = head /\ head \in Commits /\ tags \in BOOLEAN /\ edited \in BOOLEAN
    BY <1>1, <2>1 DEF Flashed, TypeOK
  <2>4. running' = Named(builtFrom', tags, edited, d)
    BY <2>2, <2>3, DescribeIsNamed
  <2>5. running' \in Descriptions
    BY <2>3, <2>4, NamedIsDescription
  <2>6. TypeOK'
    BY <1>1, <1>2, <1>3, <1>5, <2>1, <2>3, <2>5 DEF TypeOK, Klipper
  <2>7. BuildsAreNamed'
    <3>1. \E n, x \in BOOLEAN, k \in 1..2 : running' = Named(builtFrom', n, x, k)
      BY <2>3, <2>4
    <3>2. \E c \in Commits, n, x \in BOOLEAN : software' = Named(c, n, x, 2)
      BY <1>1, <1>2 DEF BuildsAreNamed
    <3>3. \E c \in Commits, n, x \in BOOLEAN : approved' = Named(c, n, x, 2)
      BY <1>1, <1>2, <1>5 DEF BuildsAreNamed
    <3> QED
      BY <3>1, <3>2, <3>3 DEF BuildsAreNamed, Named
  <2>8. Build'
    <3>1. running' = Describe(head, d)'
      BY <1>2, <2>2 DEF Describe
    <3> QED
      BY <1>4, <1>5, <3>1 DEF Build
  <2> QED
    BY <1>4, <2>1, <2>6, <2>7, <2>8 DEF AssessInv, Approval
<1>6. CASE ~Klipper /\ pc' = "flashed"
  <2>1. running' = [version |-> image, build |-> "release"] /\ image = approved
        /\ builtFrom' = builtFrom
    BY <1>6 DEF Flash, Klipper
  <2>2. approved \in 0..Top
    BY <1>1, <1>6 DEF Approval
  <2>3. running' \in Prebuilt
    BY <2>1, <2>2 DEF Prebuilt
  <2>4. TypeOK'
    BY <1>1, <1>2, <1>3, <1>6, <2>1, <2>3 DEF TypeOK, Klipper
  <2>5. BuildsAreNamed'
    BY <1>1, <1>2, <1>4, <1>6 DEF BuildsAreNamed, Named
  <2>6. Build'
    BY <1>2, <1>4, <1>6, <2>1, <2>2 DEF Build
  <2> QED
    BY <1>4, <1>6, <2>4, <2>5, <2>6 DEF AssessInv, Approval
<1>7. CASE ~Klipper /\ pc' = "idle"
  <2>1. UNCHANGED <<running, builtFrom>>
    BY <1>7 DEF Flash, Klipper
  <2>2. TypeOK'
    BY <1>1, <1>2, <1>3, <1>7, <2>1 DEF TypeOK
  <2>3. BuildsAreNamed'
    BY <1>1, <1>2, <1>4, <1>7 DEF BuildsAreNamed, Named
  <2> QED
    BY <1>7, <2>2, <2>3 DEF AssessInv, Approval, Build
<1>8. pc' \in {"flashed", "idle"}
  BY DEF Flash
<1> QED
  BY <1>5, <1>6, <1>7, <1>8 DEF Flash, Klipper

\* The check of the version that the MCU reports afterwards.
LEMMA VerifyStep ==
  ASSUME Parameters, AssessInv, Verify \/ EndRun
  PROVE  AssessInv'
<1>1. /\ TypeOK /\ BuildsAreNamed /\ Build
      /\ UNCHANGED <<mcu, host, running, head, edited, tags, software, image, moves,
                     builtFrom, calm>>
  BY DEF AssessInv, Verify, EndRun, checkout
<1>2. Klipper' = Klipper /\ CheckoutRevision' = CheckoutRevision
  BY <1>1, Zenon DEF Klipper, CheckoutRevision, Describe
<1>3. pc # "idle" /\ (approved' = approved \/ pc' = "idle")
  BY DEF Verify, EndRun
<1>4. BuildsAreNamed'
  BY <1>1, <1>2, <1>3 DEF BuildsAreNamed, Named
<1>5. CASE Verify
  <2>1. /\ pc = "flashed" /\ pc' = "verified" /\ approved' = approved
        /\ reached' = IF mcu.firmware \in Vendors
                      THEN running.version = approved /\ running.build = "release"
                      ELSE Matches(running, approved)
    BY <1>5 DEF Verify
  <2>2. reached' \in BOOLEAN
    BY <2>1 DEF Matches
  <2>3. reached' # None
    BY <2>2 DEF Parameters
  <2>4. TypeOK'
    BY <1>1, <2>1, <2>2, <2>3 DEF TypeOK
  <2>5. Build'
    <3>1. \A d : Describe(head, d)' = Describe(head, d)
      BY <1>1 DEF Describe
    <3> QED
      BY <1>1, <1>2, <2>1, <3>1 DEF Build
  <2>6. reached' = IF mcu'.firmware \in Vendors
                   THEN running'.version = approved' /\ running'.build = "release"
                   ELSE Matches(running, approved)'
    BY <1>1, <2>1 DEF Matches
  <2> QED
    BY <1>4, <2>1, <2>4, <2>5, <2>6 DEF AssessInv, Approval
<1>6. CASE EndRun
  <2>1. pc' = "idle" /\ approved' = None /\ reached' = None
    BY <1>6 DEF EndRun
  <2>2. TypeOK'
    BY <1>1, <2>1 DEF TypeOK
  <2> QED
    BY <1>4, <2>1, <2>2 DEF AssessInv, Approval, Build
<1> QED
  BY <1>5, <1>6

\* What moves between the steps of an update costs it its calm at most.
LEMMA MoveStep ==
  ASSUME Parameters, AssessInv, Changes
  PROVE  AssessInv'
<1>1. TypeOK /\ BuildsAreNamed /\ Approval /\ Build
  BY DEF AssessInv
<1>2. /\ moves < MaxMoves /\ moves' = moves + 1 /\ calm' = FALSE
      /\ UNCHANGED <<mcu, host, running, pc, approved, builtFrom, reached>>
  BY DEF Changes, MoveCheckout, Refresh, RestartHost, MoveImage, Moves
<1>3. head' \in Commits /\ edited' \in BOOLEAN /\ tags' \in BOOLEAN
  BY <1>1 DEF Changes, MoveCheckout, Refresh, RestartHost, MoveImage, checkout, TypeOK,
              Parameters, Repository
<1>4. image' \in 0..Top \cup {None}
  BY <1>1 DEF Changes, MoveCheckout, Refresh, RestartHost, MoveImage, TypeOK
<1>5. \E c \in Commits, n, x \in BOOLEAN : software' = Named(c, n, x, 2)
  <2>1. CASE software' = software
    BY <1>1, <2>1 DEF BuildsAreNamed
  <2>2. CASE RestartHost
    <3>1. software' = Named(head, tags, edited, 2)
      BY <1>1, <2>2, CheckoutIsNamed DEF RestartHost
    <3> QED
      BY <1>1, <3>1 DEF TypeOK
  <2> QED
    BY <2>1, <2>2 DEF Changes, MoveCheckout, Refresh, MoveImage
<1>6. software' \in Descriptions
  BY <1>5, NamedIsDescription
<1>7. moves' \in 0..MaxMoves
  BY <1>1, <1>2 DEF TypeOK, Parameters
<1>8. TypeOK'
  BY <1>1, <1>2, <1>3, <1>4, <1>6, <1>7 DEF TypeOK
<1>9. Klipper' = Klipper
  BY <1>2 DEF Klipper
<1>10. BuildsAreNamed'
  BY <1>1, <1>2, <1>5, <1>9 DEF BuildsAreNamed, Named
<1>11. Approval' /\ Build'
  BY <1>1, <1>2, <1>9 DEF Approval, Build
<1>12. ASSUME pc' = "verified"
       PROVE  reached' = IF mcu'.firmware \in Vendors
                         THEN running'.version = approved' /\ running'.build = "release"
                         ELSE Matches(running, approved)'
  <2>1. Matches(running, approved)' = Matches(running, approved)
    BY <1>2, Zenon DEF Matches
  <2>2. /\ pc' = pc /\ mcu' = mcu /\ running' = running /\ approved' = approved
        /\ reached' = reached
    BY <1>2
  <2> QED
    BY <1>12, <2>1, <2>2, Zenon DEF AssessInv
<1> QED
  BY <1>8, <1>10, <1>11, <1>12, Zenon DEF AssessInv

\* Every step of the assessed MCU, its host, checkout and image.
LEMMA AssessStep ==
  ASSUME Parameters, AssessInv, Next
  PROVE  AssessInv'
  BY ApproveStep, FlashStep, VerifyStep, MoveStep DEF Next, Update

\* A step of nothing.
LEMMA AssessStutters ==
  ASSUME AssessInv, UNCHANGED vars
  PROVE  AssessInv'
<1>1. UNCHANGED <<mcu, host, running, head, edited, tags, software, image, pc, approved,
                  moves, builtFrom, calm, reached>>
  BY DEF vars, checkout
<1>2. TypeOK'
  BY <1>1 DEF AssessInv, TypeOK
<1>3. /\ Klipper' = Klipper /\ Eligibility' = Eligibility
      /\ CheckoutRevision' = CheckoutRevision
      /\ \A d : Describe(head, d)' = Describe(head, d)
  BY <1>1, Zenon DEF Klipper, Eligibility, TooOld, ByKconfig, CheckoutRevision, Describe
<1>4. /\ Compare(running, CheckoutRevision)' = Compare(running, CheckoutRevision)
      /\ Matches(running, approved)' = Matches(running, approved)
  BY <1>1, <1>3, Zenon DEF Compare, Matches, IsNewer
<1>5. BuildsAreNamed'
  BY <1>1, <1>3 DEF AssessInv, BuildsAreNamed, Named
<1>6. Approval'
  BY <1>1, <1>3, <1>4 DEF AssessInv, Approval
<1>7. Build'
  BY <1>1, <1>3 DEF AssessInv, Build
<1>8. ASSUME pc' = "verified"
      PROVE  reached' = IF mcu'.firmware \in Vendors
                        THEN running'.version = approved' /\ running'.build = "release"
                        ELSE Matches(running, approved)'
  BY <1>1, <1>4, <1>8, Zenon DEF AssessInv
<1> QED
  BY <1>2, <1>5, <1>6, <1>7, <1>8, Zenon DEF AssessInv

-----------------------------------------------------------------------------
(* What the invariant promises. *)

\* What matches the checkout's revision was built from its commit.
LEMMA MatchingRunsTheCheckout ==
  ASSUME Repository, TypeOK, BuildsAreNamed, Klipper, Matches(running, CheckoutRevision)
  PROVE  builtFrom = head /\ running.dirty = edited
<1>1. CheckoutRevision = Named(head, tags, edited, 2)
  BY CheckoutIsNamed
<1>2. head \in Commits /\ tags \in BOOLEAN /\ edited \in BOOLEAN /\ 2 \in 1..2
      /\ builtFrom \in Commits
  BY DEF TypeOK
<1>3. PICK n \in BOOLEAN, x \in BOOLEAN, d \in 1..2 : running = Named(builtFrom, n, x, d)
  BY DEF BuildsAreNamed
<1>4. builtFrom = head /\ x = edited
  BY <1>1, <1>2, <1>3, MatchIsSameCommit
<1> QED
  BY <1>3, <1>4 DEF Named

\* An update of a checkout that was left alone reaches its target and needs no
\* other (UpdateSettles), the agent offers what `update` selects (AgentAgrees),
\* what is called current is a build of the checkout's commit
\* (CurrentIsSameCommit), and FOCI's development builds stay (DevelopmentStays).
LEMMA AssessPromises ==
  ASSUME Parameters, AssessInv
  PROVE  TypeOK /\ UpdateSettles /\ AgentAgrees /\ CurrentIsSameCommit /\ DevelopmentStays
<1>1. TypeOK /\ BuildsAreNamed /\ Build /\ Repository
  BY DEF AssessInv, Parameters
<1>2. CheckoutRevision = Named(head, tags, edited, 2)
  BY <1>1, CheckoutIsNamed
<1>3. head \in Commits /\ tags \in BOOLEAN /\ edited \in BOOLEAN /\ 2 \in 1..2
      /\ builtFrom \in Commits
  BY <1>1 DEF TypeOK
<1>4. UpdateSettles
  <2> SUFFICES ASSUME pc = "verified", calm, Klipper => approved = CheckoutRevision
               PROVE  reached /\ RevisionStatus(CheckoutRevision) # "update_required"
    BY DEF UpdateSettles, Selected
  <2>1. reached = IF mcu.firmware \in Vendors
                  THEN running.version = approved /\ running.build = "release"
                  ELSE Matches(running, approved)
    BY DEF AssessInv
  <2>2. CASE Klipper
    <3>1. PICK d \in 1..2 : running = Describe(head, d)
      BY <1>1, <2>2 DEF Build
    <3>2. Matches(running, CheckoutRevision)
      <4>1. running = Named(head, tags, edited, d)
        BY <3>1, DescribeIsNamed
      <4> QED
        BY <1>1, <1>2, <1>3, <4>1, SameCommitMatches
    <3>3. reached
      BY <2>1, <2>2, <3>2 DEF Klipper
    <3>4. RevisionStatus(CheckoutRevision) \in {"current", None}
      BY <1>1, <2>2, <3>2, KlipperVerdict DEF Compare
    <3>5. None # "update_required"
      BY DEF Parameters, Verdict
    <3> QED
      BY <3>3, <3>4, <3>5
  <2>3. CASE ~Klipper
    <3>1. image = approved /\ running = [version |-> approved, build |-> "release"]
      BY <1>1, <2>3 DEF Build
    <3>2. reached
      BY <2>1, <2>3, <3>1 DEF Klipper
    <3>3. RevisionStatus(CheckoutRevision) # "update_required"
      BY <1>1, <2>3, <3>1, VendorVerdict DEF Klipper
    <3> QED
      BY <3>2, <3>3
  <2> QED
    BY <2>2, <2>3
<1>5. AgentAgrees
  BY <1>1, OfferedIsSelected DEF AgentAgrees
<1>6. CurrentIsSameCommit
  <2> SUFFICES ASSUME Klipper, RevisionStatus(CheckoutRevision) = "current"
               PROVE  builtFrom = head /\ running.dirty = edited
    BY DEF CurrentIsSameCommit
  <2>1. None # "current"
    BY DEF Parameters, Verdict
  <2>2. Compare(running, CheckoutRevision) = "current"
    BY <1>1, <2>1, KlipperVerdict
  <2>3. Matches(running, CheckoutRevision)
    BY <2>2 DEF Compare
  <2> QED
    BY <1>1, <2>3, MatchingRunsTheCheckout
<1>7. DevelopmentStays
  <2> SUFFICES ASSUME mcu.firmware = "foci", running.build # "release"
               PROVE  ~Selected(FALSE, CheckoutRevision) /\ ~AgentOffers
    BY DEF DevelopmentStays
  <2>1. mcu.firmware \in Vendors
    BY DEF Vendors
  <2>2. RevisionStatus(CheckoutRevision) # "update_required"
    BY <1>1, <2>1, VendorVerdict
  <2>3. ~Selected(FALSE, CheckoutRevision)
    BY <2>2 DEF Selected
  <2> QED
    BY <1>1, <2>3, OfferedIsSelected
<1> QED
  BY <1>1, <1>4, <1>5, <1>6, <1>7

\* A checkout at an ancestor of what runs makes the MCU newer.
LEMMA AncestorIsOlder ==
  ASSUME Parameters, TypeOK, BuildsAreNamed, Klipper, tags, running.tag # NoTag,
         Compare(running, CheckoutRevision) # "newer"
  PROVE  <<head, builtFrom>> \notin Older
<1> SUFFICES ASSUME <<head, builtFrom>> \in Older
             PROVE  FALSE
  OBVIOUS
<1>1. Repository
  BY DEF Parameters
<1>2. head \in Commits /\ builtFrom \in Commits /\ Before(Where[head], Where[builtFrom])
  BY <1>1 DEF TypeOK, Repository
<1>3. PICK n \in BOOLEAN, x \in BOOLEAN, d \in 1..2 : running = Named(builtFrom, n, x, d)
  BY DEF BuildsAreNamed
<1>4. n
  BY <1>3 DEF Named
<1>5. CheckoutRevision = Named(head, TRUE, edited, 2)
  BY CheckoutIsNamed DEF TypeOK
<1>6. running \in Tagged /\ CheckoutRevision \in Tagged
  <2>1. ASSUME NEW c \in Commits, NEW y \in BOOLEAN, NEW k \in 1..2
        PROVE  Named(c, TRUE, y, k) \in Tagged
    <3>1. Where[c].tag \in Tag /\ Where[c].commits \in Nat /\ NoTag \notin Tag
      BY <1>1 DEF Repository
    <3>2. SubSeq(Hash[c], 1, k) \in Seq(Digits)
      BY <1>1, HashShape
    <3> QED
      BY <3>1, <3>2 DEF Named, Tagged, Revision
  <2>2. n = TRUE /\ edited \in BOOLEAN /\ 2 \in 1..2
    BY <1>4 DEF TypeOK
  <2> QED
    BY <1>2, <1>3, <1>5, <2>1, <2>2
<1>7. Before(CheckoutRevision, running)
  BY <1>2, <1>3, <1>4, <1>5 DEF Before, Named
<1>8. Compare(running, CheckoutRevision) \in {"newer", "current"}
  BY <1>1, <1>6, <1>7, OlderIsNoUpdate DEF Repository
<1>9. Matches(running, CheckoutRevision)
  BY <1>8 DEF Compare
<1>10. builtFrom = head
  BY <1>1, <1>9, MatchingRunsTheCheckout
<1>11. Where[head].tag \in Tag /\ Where[head].commits \in Nat
  BY <1>1, <1>2 DEF Repository
<1> QED
  BY <1>2, <1>10, <1>11 DEF Before, Tag

\* No update is approved for an ancestor of what runs (NoAncestorApproved).
LEMMA ApprovalsKeepOrder ==
  ASSUME Parameters, AssessInv, Next
  PROVE  NoAncestorApproved
<1> SUFFICES ASSUME Klipper, pc = "idle", pc' = "approved",
                    NoTag \notin {running.tag, approved'.tag},
                    NEW c \in Commits, IsOf(approved', c)
             PROVE  <<c, builtFrom>> \notin Older
  BY DEF NoAncestorApproved
<1>1. TypeOK /\ BuildsAreNamed /\ Repository
  BY DEF AssessInv, Parameters
<1>2. CliApproves \/ AgentApproves
  BY DEF Next, Update, Flash, Verify, EndRun, Changes, MoveCheckout, Refresh, RestartHost,
         MoveImage, Moves
<1>3. \E all \in BOOLEAN : Selected(all, CheckoutRevision) /\ Approve(CheckoutRevision)
  <2>1. CASE CliApproves
    BY <2>1 DEF CliApproves
  <2>2. CASE AgentApproves
    <3>1. software = CheckoutRevision /\ Selected(FALSE, CheckoutRevision)
      BY <1>1, <2>2, OfferedIsSelected DEF AgentApproves
    <3> QED
      BY <2>2, <3>1 DEF AgentApproves
  <2> QED
    BY <1>2, <2>1, <2>2
<1>4. Compare(running, CheckoutRevision) # "newer"
  BY <1>1, <1>3, SelectedIsNotOlder
<1>5. approved' = CheckoutRevision
  BY <1>3 DEF Approve, Klipper
<1>6. approved' = Named(head, tags, edited, 2) /\ head \in Commits /\ tags \in BOOLEAN
  BY <1>1, <1>5, CheckoutIsNamed DEF TypeOK
<1>7. tags
  BY <1>6 DEF Named
<1>8. c = head
  <2>1. approved'.hash = SubSeq(Hash[head], 1, 2)
    BY <1>6 DEF Named
  <2>2. Len(approved'.hash) = 2 /\ approved'.hash[1] = Hash[head][1]
    BY <1>1, <1>6, <2>1, HashShape
  <2>3. approved'.hash = SubSeq(Hash[c], 1, 2)
    BY <2>2 DEF IsOf
  <2>4. approved'.hash[1] = Hash[c][1]
    BY <1>1, <2>3, HashShape
  <2> QED
    BY <1>1, <1>6, <2>2, <2>4 DEF Repository
<1> QED
  BY <1>1, <1>4, <1>7, <1>8, AncestorIsOlder

\* A Klipper update that is called reached left the approved commit
\* (ReachedIsApproved).
LEMMA ReachedIsKnown ==
  ASSUME Parameters, AssessInv, Next
  PROVE  ReachedIsApproved
<1> SUFFICES ASSUME Klipper, pc = "flashed", pc' = "verified", reached'
             PROVE  IsOf(approved, builtFrom) /\ running.dirty = approved.dirty
  BY DEF ReachedIsApproved
<1>1. TypeOK /\ BuildsAreNamed /\ Repository /\ builtFrom \in Commits
  BY DEF AssessInv, Parameters, TypeOK
<1>2. Verify
  BY DEF Next, Update, CliApproves, AgentApproves, Approve, Flash, EndRun, Changes,
         MoveCheckout, Refresh, RestartHost, MoveImage, Moves
<1>3. Matches(running, approved)
  BY <1>2 DEF Verify, Klipper
<1>4. PICK n \in BOOLEAN, x \in BOOLEAN, d \in 1..2 : running = Named(builtFrom, n, x, d)
  BY <1>1 DEF BuildsAreNamed
<1>5. PICK c \in Commits, n2 \in BOOLEAN, x2 \in BOOLEAN : approved = Named(c, n2, x2, 2)
  BY <1>1 DEF BuildsAreNamed
<1>6. builtFrom = c /\ x = x2
  BY <1>1, <1>3, <1>4, <1>5, MatchIsSameCommit
<1>7. approved.hash = SubSeq(Hash[builtFrom], 1, 2)
  BY <1>5, <1>6 DEF Named
<1>8. Len(approved.hash) = 2
  BY <1>1, <1>7, HashShape
<1>9. running.dirty = approved.dirty
  BY <1>4, <1>5, <1>6 DEF Named
<1> QED
  BY <1>7, <1>8, <1>9 DEF IsOf

\* No update replaces a vendor's firmware by an older version, nor, from a
\* checkout that was left alone, a build by an ancestor's (NeverOlder).
LEMMA WritesKeepOrder ==
  ASSUME Parameters, AssessInv, Next
  PROVE  NeverOlder
<1> SUFFICES ASSUME pc = "approved", pc' = "flashed"
             PROVE  \/ Klipper /\ (~calm \/ ~tags \/ running.tag = NoTag)
                    \/ Klipper /\ <<builtFrom', builtFrom>> \notin Older
                    \/ ~Klipper /\ running'.version >= running.version
  BY DEF NeverOlder
<1>1. TypeOK /\ BuildsAreNamed /\ Approval
  BY DEF AssessInv
<1>2. Flash
  BY DEF Next, Update, CliApproves, AgentApproves, Approve, Verify, EndRun, Changes,
         MoveCheckout, Refresh, RestartHost, MoveImage, Moves
<1>3. CASE ~Klipper
  <2>1. running' = [version |-> image, build |-> "release"] /\ image = approved
    BY <1>2, <1>3 DEF Flash, Klipper
  <2>2. running.version <= approved /\ approved \in 0..Top
    BY <1>1, <1>3 DEF Approval
  <2>3. running.version \in Nat
    BY <1>1, <1>3 DEF TypeOK, Klipper, Prebuilt
  <2> QED
    BY <1>3, <2>1, <2>2, <2>3 DEF Parameters
<1>4. CASE Klipper /\ calm /\ tags /\ running.tag # NoTag
  <2>1. builtFrom' = head
    BY <1>2, <1>4 DEF Flash, Flashed, Klipper
  <2>2. Compare(running, CheckoutRevision) # "newer"
    BY <1>1, <1>4 DEF Approval
  <2> QED
    BY <1>1, <1>4, <2>1, <2>2, AncestorIsOlder
<1> QED
  BY <1>3, <1>4

\* All that is promised of the steps.
LEMMA AssessWrites ==
  ASSUME Parameters, AssessInv, Next
  PROVE  NoAncestorApproved /\ ReachedIsApproved /\ NeverOlder
BY ApprovalsKeepOrder, ReachedIsKnown, WritesKeepOrder
=============================================================================

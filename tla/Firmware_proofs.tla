-------------------------- MODULE Firmware_proofs --------------------------
(***************************************************************************)
(* Proofs about Firmware: for every board, clone and release, no MCU is    *)
(* written with another's image or an older one than was approved, and an  *)
(* update settles.                                                         *)
(***************************************************************************)
EXTENDS Firmware, FiniteSetTheorems, SequenceTheorems, TLAPS

-----------------------------------------------------------------------------
(* BeaconImage. *)

\* What an update knows of the Beacon that it assessed, while that one stays.
BeaconUpdate ==
    /\ pc \in {"chosen", "approved"} => way = "update"
    /\ way = "update" /\ pc \in {"chosen", "approved", "ready"} => target \in Beacon!Target
    /\ way = "update" /\ pc \in {"chosen", "approved", "ready"} /\ ~swapped =>
         /\ board \in Beacons
         /\ target.revision = BeaconRevision[board] /\ target.running = holds[board].bcd
    /\ way = "update" /\ pc \in {"approved", "ready"} =>
         ~Beacon!Earlier(Beacon!Version(target.bcd), Beacon!Version(target.running))
    /\ way = "update" /\ pc = "ready" =>
         Beacon!Version(request.bcd) = Beacon!Version(target.bcd)

BeaconInv ==
    /\ Beacon!TypeOK /\ BeaconUpdate /\ Beacon!NeverForAnother
    /\ \A r \in Beacon!Revisions : images[r] # None => images[r].revision = r
    /\ request \in Beacon!Image \cup {None}
    /\ pc = "ready" => request.whole
    /\ way = "recovery" /\ pc = "ready" /\ ~swapped =>
         board \in Beacons /\ request.revision = BeaconRevision[board]

\* A Beacon that runs an image of its checkout.
LEMMA BeaconInit ==
  ASSUME Beacon!Init
  PROVE  BeaconInv
<1> USE DEF Beacon!Init
<1>1. PICK v \in [Beacons -> BcdVersions] : holds = [b \in Beacons |-> Beacon!Whole(BeaconRevision[b], v[b])]
  OBVIOUS
<1>2. PICK w \in [Beacon!Revisions -> BcdVersions] :
        images = [r \in Beacon!Revisions |-> Beacon!Whole(r, w[r])]
  OBVIOUS
<1>3. \A b \in Beacons : BeaconRevision[b] \in Beacon!Revisions
  BY DEF Beacon!Revisions
<1>4. holds \in [Beacons -> Beacon!Image] /\ images \in [Beacon!Revisions -> Beacon!Image]
  BY <1>1, <1>2, <1>3 DEF Beacon!Whole, Beacon!Image
<1>5. Beacon!NeverForAnother
  BY <1>1 DEF Beacon!NeverForAnother, Beacon!Whole
<1>6. \A r \in Beacon!Revisions : images[r].revision = r
  BY <1>2 DEF Beacon!Whole
<1>7. Beacon!TypeOK
  BY <1>4, Instances DEF Beacon!TypeOK, Beacon!Parameters
<1> QED
  BY <1>5, <1>6, <1>7 DEF BeaconInv, BeaconUpdate

\* Every step of its update, and of the checkout beside it.
LEMMA BeaconStep ==
  ASSUME BeaconInv, Beacon!Next
  PROVE  BeaconInv'
<1> USE Instances DEF Beacon!Parameters
<1>0. /\ \A b \in Beacons : BeaconRevision[b] \in Beacon!Revisions
      /\ \A b \in Beacons : holds[b] \in Beacon!Image
  BY DEF BeaconInv, Beacon!TypeOK, Beacon!Revisions
<1>1. CASE Beacon!Resolve
  <2>1. Beacon!TypeOK'
    BY <1>0, <1>1 DEF Beacon!Resolve, BeaconInv, BeaconUpdate, Beacon!TypeOK, Beacon!Image,
       Beacon!Whole, Beacon!Target, Beacon!Parses
  <2>2. BeaconUpdate'
    BY <1>0, <1>1 DEF Beacon!Resolve, BeaconInv, BeaconUpdate, Beacon!TypeOK, Beacon!Image,
       Beacon!Target, Beacon!Parses
  <2> QED
    BY <1>0, <1>1, <2>1, <2>2 DEF Beacon!Resolve, BeaconInv, BeaconUpdate, Beacon!TypeOK,
       Beacon!Image, Beacon!NeverForAnother, Beacon!Whole, Beacon!Parses
<1>2. CASE Beacon!Approve
  <2>1. Beacon!TypeOK'
    BY <1>0, <1>2 DEF Beacon!Approve, BeaconInv, BeaconUpdate, Beacon!TypeOK, Beacon!Image,
       Beacon!Whole, Beacon!Target, Beacon!Parses
  <2>2. BeaconUpdate'
    BY <1>0, <1>2 DEF Beacon!Approve, BeaconInv, BeaconUpdate, Beacon!TypeOK, Beacon!Image,
       Beacon!Target, Beacon!Parses
  <2> QED
    BY <1>0, <1>2, <2>1, <2>2 DEF Beacon!Approve, BeaconInv, BeaconUpdate, Beacon!TypeOK,
       Beacon!Image, Beacon!NeverForAnother, Beacon!Whole, Beacon!Parses
<1>3. CASE Beacon!ReadImage
  <2>1. Beacon!TypeOK'
    BY <1>0, <1>3 DEF Beacon!ReadImage, BeaconInv, BeaconUpdate, Beacon!TypeOK, Beacon!Image,
       Beacon!Whole, Beacon!Target, Beacon!Parses
  <2>2. BeaconUpdate'
    BY <1>0, <1>3 DEF Beacon!ReadImage, BeaconInv, BeaconUpdate, Beacon!TypeOK, Beacon!Image,
       Beacon!Target, Beacon!Parses
  <2>3. images[target.revision] \in Beacon!Image \cup {None} /\ way = "update"
    BY <1>3 DEF Beacon!ReadImage, BeaconInv, BeaconUpdate, Beacon!TypeOK, Beacon!Target
  <2> QED
    BY <1>3, <2>1, <2>2, <2>3 DEF Beacon!ReadImage, BeaconInv, Beacon!NeverForAnother,
       Beacon!Parses
<1>4. CASE Beacon!NameFile
  <2>1. Beacon!TypeOK'
    <3>1. request' \in Beacon!Image
      BY <1>4 DEF Beacon!NameFile, Beacon!Image, Beacon!Whole
    <3> QED
      BY <1>4, <3>1 DEF Beacon!NameFile, BeaconInv, Beacon!TypeOK
  <2>2. BeaconUpdate'
    BY <1>0, <1>4 DEF Beacon!NameFile, BeaconInv, BeaconUpdate, Beacon!TypeOK, Beacon!Image,
       Beacon!Target, Beacon!Parses
  <2> QED
    BY <1>0, <1>4, <2>1, <2>2 DEF Beacon!NameFile, BeaconInv, BeaconUpdate, Beacon!TypeOK,
       Beacon!Image, Beacon!NeverForAnother, Beacon!Whole, Beacon!Parses
<1>5. CASE Beacon!Recover
  <2>1. Beacon!TypeOK'
    BY <1>0, <1>5 DEF Beacon!Recover, BeaconInv, BeaconUpdate, Beacon!TypeOK, Beacon!Image,
       Beacon!Whole, Beacon!Target, Beacon!Parses
  <2>2. BeaconUpdate'
    BY <1>0, <1>5 DEF Beacon!Recover, BeaconInv, BeaconUpdate, Beacon!TypeOK, Beacon!Image,
       Beacon!Target, Beacon!Parses
  <2> QED
    BY <1>0, <1>5, <2>1, <2>2 DEF Beacon!Recover, BeaconInv, BeaconUpdate, Beacon!TypeOK,
       Beacon!Image, Beacon!NeverForAnother, Beacon!Whole, Beacon!Parses
<1>6. CASE Beacon!Flash
  <2>1. Beacon!TypeOK'
    BY <1>0, <1>6 DEF Beacon!Flash, BeaconInv, BeaconUpdate, Beacon!TypeOK, Beacon!Image,
       Beacon!Whole, Beacon!Target, Beacon!Parses
  <2>2. BeaconUpdate'
    BY <1>0, <1>6 DEF Beacon!Flash, BeaconInv, BeaconUpdate, Beacon!TypeOK, Beacon!Image,
       Beacon!Target, Beacon!Parses
  <2> QED
    BY <1>0, <1>6, <2>1, <2>2 DEF Beacon!Flash, BeaconInv, BeaconUpdate, Beacon!TypeOK,
       Beacon!Image, Beacon!NeverForAnother, Beacon!Whole, Beacon!Parses
<1>7. CASE Beacon!EndRun
  <2>1. Beacon!TypeOK'
    BY <1>0, <1>7 DEF Beacon!EndRun, BeaconInv, BeaconUpdate, Beacon!TypeOK, Beacon!Image,
       Beacon!Whole, Beacon!Target, Beacon!Parses
  <2>2. BeaconUpdate'
    BY <1>0, <1>7 DEF Beacon!EndRun, BeaconInv, BeaconUpdate, Beacon!TypeOK, Beacon!Image,
       Beacon!Target, Beacon!Parses
  <2> QED
    BY <1>0, <1>7, <2>1, <2>2 DEF Beacon!EndRun, BeaconInv, BeaconUpdate, Beacon!TypeOK,
       Beacon!Image, Beacon!NeverForAnother, Beacon!Whole, Beacon!Parses
<1>8. CASE Beacon!Pull
  <2>1. Beacon!TypeOK'
    BY <1>0, <1>8 DEF Beacon!Pull, Beacon!Moves, BeaconInv, BeaconUpdate, Beacon!TypeOK, Beacon!Image,
       Beacon!Whole, Beacon!Target, Beacon!Parses
  <2>2. BeaconUpdate'
    BY <1>0, <1>8 DEF Beacon!Pull, Beacon!Moves, BeaconInv, BeaconUpdate, Beacon!TypeOK, Beacon!Image,
       Beacon!Target, Beacon!Parses
  <2> QED
    BY <1>0, <1>8, <2>1, <2>2 DEF Beacon!Pull, Beacon!Moves, BeaconInv, BeaconUpdate, Beacon!TypeOK,
       Beacon!Image, Beacon!NeverForAnother, Beacon!Whole, Beacon!Parses
<1>9. CASE Beacon!Swap
  <2>1. Beacon!TypeOK'
    BY <1>0, <1>9 DEF Beacon!Swap, Beacon!Moves, BeaconInv, BeaconUpdate, Beacon!TypeOK, Beacon!Image,
       Beacon!Whole, Beacon!Target, Beacon!Parses
  <2>2. BeaconUpdate'
    BY <1>0, <1>9 DEF Beacon!Swap, Beacon!Moves, BeaconInv, BeaconUpdate, Beacon!TypeOK, Beacon!Image,
       Beacon!Target, Beacon!Parses
  <2> QED
    BY <1>0, <1>9, <2>1, <2>2 DEF Beacon!Swap, Beacon!Moves, BeaconInv, BeaconUpdate, Beacon!TypeOK,
       Beacon!Image, Beacon!NeverForAnother, Beacon!Whole, Beacon!Parses
<1> QED
  BY <1>1, <1>2, <1>3, <1>4, <1>5, <1>6, <1>7, <1>8, <1>9 DEF Beacon!Next, Beacon!Update

\* What is written to a Beacon is for it, and newer.
LEMMA BeaconWrites ==
  ASSUME BeaconInv, Beacon!Next
  PROVE  Beacon!NeverOlder /\ Beacon!RecoveryIsForIt
<1> SUFFICES ASSUME pc = "ready", pc' = "flashed"
             PROVE  Beacon!NeverOlder /\ Beacon!RecoveryIsForIt
  BY DEF Beacon!NeverOlder, Beacon!RecoveryIsForIt
<1>1. Beacon!Flash
  BY DEF Beacon!Next, Beacon!Update, Beacon!Resolve, Beacon!Approve, Beacon!ReadImage,
     Beacon!NameFile, Beacon!Recover, Beacon!EndRun, Beacon!Pull, Beacon!Swap, Beacon!Moves
<1>2. /\ board \in Beacons /\ holds' = [holds EXCEPT ![board] = request]
      /\ holds'[board] = request
  BY <1>1 DEF Beacon!Flash, BeaconInv, Beacon!TypeOK
<1>3. Beacon!NeverOlder
  BY <1>2 DEF Beacon!NeverOlder, BeaconInv, BeaconUpdate
<1>4. Beacon!RecoveryIsForIt
  BY <1>2 DEF Beacon!RecoveryIsForIt, BeaconInv
<1> QED
  BY <1>3, <1>4

-----------------------------------------------------------------------------
(* FociRelease. *)

FociInv ==
    /\ Foci!TypeOK /\ whole
    /\ asked \in 0..Releases \cup {None} /\ target \in 0..Releases \cup {None}
    /\ cache \in {None} \cup [at : 0..Last, release : 0..Releases \cup {None},
                             failed : BOOLEAN]
    /\ lookups \in Nat
    /\ cache = None => lookups = 0
    /\ cache # None => lookups <= 1 + cache.at \div Retry
    /\ pc # "idle" => target # None /\ version <= target
    /\ pc \in {"downloaded", "verified"} => image.release = target
    /\ pc = "verified" => image = digest
    /\ mcu \in Boards

\* A whole interval later there is one more of them.
LEMMA OneIntervalLater ==
  ASSUME NEW a \in Nat, NEW b \in Nat, NEW d \in Nat \ {0}, b - a >= d
  PROVE  a \div d + 1 <= b \div d
<1> DEFINE q == a \div d
           r == b \div d
<1>1. q \in Int /\ r \in Int /\ d * q <= a /\ b < d * (r + 1)
  OBVIOUS
<1> QED
  BY <1>1

\* Later, no fewer intervals have passed.
LEMMA LaterIsMore ==
  ASSUME NEW a \in Nat, NEW b \in Nat, NEW d \in Nat \ {0}, a <= b
  PROVE  a \div d <= b \div d /\ a \div d \in Nat
OBVIOUS

\* A Foci that nobody looked at.
LEMMA FociInit ==
  ASSUME Foci!Init
  PROVE  FociInv
<1>1. edition \in [0..Releases -> 1..Editions \cup {None}]
  BY Instances DEF Foci!Init, Foci!Parameters
<1>2. now \in 0..Last
  BY Instances DEF Foci!Init, Foci!Parameters
<1>3. Foci!TypeOK
  BY <1>1, <1>2 DEF Foci!Init, Foci!TypeOK
<1> QED
  BY <1>3 DEF Foci!Init, FociInv

\* The answer that is kept, and what an attempt to renew it makes of it.
LEMMA FociGet ==
  ASSUME FociInv, Foci!Get
  PROVE  FociInv'
<1> DEFINE Answer == [at : 0..Last, release : 0..Releases \cup {None}, failed : BOOLEAN]
<1>1. /\ pc = "idle" /\ UNCHANGED <<now, latest, edition, mcu, version, pc, target, digest,
                                    image, whole, moves>>
      /\ Foci!TypeOK /\ now \in 0..Last /\ latest \in 0..Releases /\ None \notin Answer
      /\ now \in Nat /\ Retry \in Nat \ {0} /\ Reuse \in Nat /\ Retry < Reuse
  BY Instances DEF FociInv, Foci!TypeOK, Foci!Get, Foci!update, Foci!Parameters
<1>2. CASE Foci!Due
  <2>1. PICK found \in {latest, None} : cache' = Foci!Renewed(found)
    BY <1>2 DEF Foci!Get
  <2>2. lookups' = lookups + 1 /\ asked' = cache'.release
    BY <1>2 DEF Foci!Get
  <2>3. /\ cache' \in Answer /\ cache'.at = now
        /\ cache'.failed \/ cache'.release \in 0..Releases
    BY <1>1, <2>1 DEF Foci!Renewed, FociInv
  <2>4. lookups' <= 1 + now \div Retry
    <3>1. CASE cache = None
      BY <1>1, <2>2, <3>1, LaterIsMore DEF FociInv
    <3>2. CASE cache # None
      <4>1. cache.at \in Nat /\ now - cache.at >= Retry
        BY <1>1, <1>2, <3>2 DEF Foci!Due, FociInv
      <4>2. cache.at \div Retry + 1 <= now \div Retry
        BY <1>1, <4>1, OneIntervalLater
      <4>3. lookups <= 1 + cache.at \div Retry /\ lookups \in Nat
        BY <3>2 DEF FociInv
      <4>4. cache.at \div Retry \in Nat /\ now \div Retry \in Nat
        BY <1>1, <4>1, LaterIsMore
      <4> QED
        BY <2>2, <4>2, <4>3, <4>4
    <3> QED
      BY <3>1, <3>2
  <2>5. Foci!TypeOK'
    BY <1>1, <2>3 DEF Foci!TypeOK
  <2>6. lookups' \in Nat
    BY <2>2 DEF FociInv
  <2> QED
    BY <1>1, <2>2, <2>3, <2>4, <2>5, <2>6 DEF FociInv
<1>3. CASE ~Foci!Due
  BY <1>1, <1>3 DEF Foci!Get, Foci!Due, FociInv, Foci!TypeOK
<1> QED
  BY <1>2, <1>3

\* Every step of its update, and of the releases beside it.
LEMMA FociStep ==
  ASSUME FociInv, Foci!Next
  PROVE  FociInv'
<1> USE Instances DEF Foci!Parameters, Foci!memory, Foci!update
<1>1. CASE Foci!Get
  BY <1>1, FociGet
<1>2. CASE Foci!LookUp
  <2>1. Foci!TypeOK'
    BY <1>2 DEF Foci!LookUp, FociInv, Foci!TypeOK
  <2> QED
    BY <1>2, <2>1 DEF Foci!LookUp, FociInv, Foci!TypeOK
<1>3. CASE Foci!Approve
  <2>1. Foci!TypeOK'
    BY <1>3 DEF Foci!Approve, FociInv, Foci!TypeOK
  <2> QED
    BY <1>3, <2>1 DEF Foci!Approve, FociInv, Foci!TypeOK
<1>4. CASE Foci!DownloadChecksum
  <2>1. Foci!TypeOK'
    BY <1>4 DEF Foci!DownloadChecksum, Foci!Asset, FociInv, Foci!TypeOK
  <2> QED
    BY <1>4, <2>1 DEF Foci!DownloadChecksum, Foci!Asset, FociInv, Foci!TypeOK
<1>5. CASE Foci!DownloadFirmware
  <2>1. Foci!TypeOK'
    BY <1>5 DEF Foci!DownloadFirmware, Foci!Asset, FociInv, Foci!TypeOK
  <2> QED
    BY <1>5, <2>1 DEF Foci!DownloadFirmware, Foci!Asset, FociInv, Foci!TypeOK
<1>6. CASE Foci!Verify
  <2>1. Foci!TypeOK'
    BY <1>6 DEF Foci!Verify, FociInv, Foci!TypeOK
  <2> QED
    BY <1>6, <2>1 DEF Foci!Verify, FociInv, Foci!TypeOK
<1>7. CASE Foci!Fail
  <2>1. Foci!TypeOK'
    BY <1>7 DEF Foci!Fail, Foci!Abandoned, FociInv, Foci!TypeOK
  <2> QED
    BY <1>7, <2>1 DEF Foci!Fail, Foci!Abandoned, FociInv, Foci!TypeOK
<1>8. CASE Foci!Flash
  <2>1. Foci!TypeOK'
    BY <1>8 DEF Foci!Flash, FociInv, Foci!TypeOK
  <2> QED
    BY <1>8, <2>1 DEF Foci!Flash, FociInv, Foci!TypeOK
<1>9. CASE Foci!Tick
  <2>1. Foci!TypeOK'
    BY <1>9 DEF Foci!Tick, FociInv, Foci!TypeOK
  <2> QED
    BY <1>9, <2>1 DEF Foci!Tick, FociInv, Foci!TypeOK
<1>10. CASE Foci!Publish
  <2>1. Foci!TypeOK'
    BY <1>10 DEF Foci!Publish, Foci!Moves, FociInv, Foci!TypeOK
  <2> QED
    BY <1>10, <2>1 DEF Foci!Publish, Foci!Moves, FociInv, Foci!TypeOK
<1>11. CASE Foci!Republish
  <2>1. Foci!TypeOK'
    BY <1>11 DEF Foci!Republish, Foci!Moves, FociInv, Foci!TypeOK
  <2> QED
    BY <1>11, <2>1 DEF Foci!Republish, Foci!Moves, FociInv, Foci!TypeOK
<1> QED
  BY <1>1, <1>2, <1>3, <1>4, <1>5, <1>6, <1>7, <1>8, <1>9, <1>10, <1>11 DEF Foci!Next, Foci!Steps

\* Asking at most once in an interval, GitHub is asked few times in all.
LEMMA FociPromises ==
  ASSUME FociInv
  PROVE  Foci!TypeOK /\ Foci!OnlyPublished /\ Foci!FewLookups
<1>1. now \in Nat /\ Retry \in Nat \ {0}
  BY Instances DEF FociInv, Foci!TypeOK, Foci!Parameters
<1>2. lookups <= 1 + now \div Retry
  <2>1. CASE cache = None
    BY <1>1, <2>1, LaterIsMore DEF FociInv
  <2>2. CASE cache # None
    <3>1. cache.at \in Nat /\ cache.at <= now /\ lookups \in Nat
          /\ lookups <= 1 + cache.at \div Retry
      BY <1>1, <2>2 DEF FociInv, Foci!TypeOK
    <3>2. cache.at \div Retry <= now \div Retry /\ cache.at \div Retry \in Nat
          /\ now \div Retry \in Nat
      BY <1>1, <3>1, LaterIsMore
    <3> QED
      BY <3>1, <3>2
  <2> QED
    BY <2>1, <2>2
<1> QED
  BY <1>2 DEF FociInv, Foci!OnlyPublished, Foci!FewLookups

\* What is written to a Foci is newer, and a failure keeps what it had.
LEMMA FociWrites ==
  ASSUME FociInv, Foci!Next
  PROVE  Foci!NeverOlder /\ Foci!FailureKeeps
<1> USE DEF Foci!Next, Foci!Steps, Foci!memory, Foci!update
<1>1. Foci!NeverOlder
  <2>1. CASE Foci!Flash
    BY <2>1 DEF Foci!Flash, Foci!NeverOlder, FociInv
  <2>2. CASE ~Foci!Flash
    <3>1. version \in 0..Releases
      BY DEF FociInv, Foci!TypeOK
    <3>2. version' = version
      BY <2>2 DEF Foci!Get, Foci!LookUp, Foci!Approve, Foci!DownloadChecksum, Foci!Verify,
         Foci!DownloadFirmware, Foci!Fail, Foci!Abandoned, Foci!Tick, Foci!Publish,
         Foci!Republish
    <3> QED
      BY <3>1, <3>2 DEF Foci!NeverOlder
  <2> QED
    BY <2>1, <2>2
<1>2. Foci!FailureKeeps
  <2>1. CASE Foci!Get
    BY <2>1, Instances DEF Foci!Get, Foci!Renewed, Foci!FailureKeeps, FociInv, Foci!TypeOK,
       Foci!Parameters
  <2>2. CASE ~Foci!Get
    <3>1. cache' = cache
      BY <2>2 DEF Foci!LookUp, Foci!Approve, Foci!DownloadChecksum, Foci!DownloadFirmware,
         Foci!Verify, Foci!Fail, Foci!Abandoned, Foci!Flash, Foci!Tick, Foci!Publish,
         Foci!Republish
    <3> QED
      BY <3>1 DEF Foci!FailureKeeps
  <2> QED
    BY <2>1, <2>2
<1> QED
  BY <1>1, <1>2

-----------------------------------------------------------------------------
(* CartographerImage. *)

\* The target of an update is one row's, of which the clone, as long as
\* nothing moves, is the only best.
Chosen ==
    /\ target \in Cartographer!Target
    /\ target.reported.version = target.version /\ target.row.version = target.version
    /\ target.reported.lite = probe.lite
    /\ calm => \E i \in 1..Len(rows) :
                 Cartographer!Best(rows) = {i} /\ rows[i] = target.row

CartographerTypes ==
    /\ probe \in [chip : Cartographer!Chips \cup {"other"}, rate : Rates \cup {None},
                  lite : BOOLEAN, bus : {"can", "serial"}, version : 0..Top]
    /\ rows \in Seq(Cartographer!Row)
    /\ images \in [Cartographer!Paths -> Cartographer!Image \cup {Cartographer!Torn, None}]
    /\ plugin \in 0..Top \cup {None}
    /\ pc \in {"idle", "listed", "chosen", "approved", "ready", "flashed"}
    /\ pc = "listed" => listed \in Seq(Cartographer!Row)
    /\ request \in Cartographer!Image \cup {None}
    /\ pc = "ready" <=> request # None
    /\ moves \in 0..MaxMoves

CartographerInv ==
    /\ CartographerTypes /\ Cartographer!OnlySuitable
    /\ pc = "listed" /\ calm => listed = rows
    /\ pc \in {"listed", "chosen", "approved"} => automatic
    /\ automatic /\ pc \in {"chosen", "approved", "ready", "flashed"} => Chosen
    /\ pc \in {"approved", "ready"} /\ automatic => target.version >= probe.version
    /\ pc = "ready" => /\ Cartographer!Suits(request, probe)
                       /\ request.version \in 0..Top
    /\ pc = "ready" /\ automatic => Cartographer!Reported(request) = target.reported
    /\ pc = "flashed" /\ automatic => target.version = probe.version

\* The module's Cardinality is the library's.
LEMMA SameCardinality ==
  \A S : Cartographer!Cardinality(S) = Cardinality(S)
BY Zenon DEF Cartographer!Cardinality, Cardinality

\* A probe and the manifest of the vendor's clone.
LEMMA CartographerInit ==
  ASSUME Cartographer!Init
  PROVE  CartographerInv
<1> USE Instances DEF Cartographer!Parameters
<1>1. PICK c \in Clones :
        /\ rows = c.rows
        /\ images = [p \in Cartographer!Paths |->
                      IF p \in DOMAIN c.images THEN c.images[p] ELSE None]
  BY DEF Cartographer!Init
<1>2. rows \in Seq(Cartographer!Row)
  BY <1>1
<1>3. images \in [Cartographer!Paths -> Cartographer!Image \cup {Cartographer!Torn, None}]
  <2>1. c.images \in [DOMAIN c.images -> Cartographer!Image]
    BY <1>1
  <2> QED
    BY <1>1, <2>1
<1>4. CartographerTypes
  BY <1>2, <1>3 DEF CartographerTypes, Cartographer!Init
<1> QED
  BY <1>4 DEF CartographerInv, Cartographer!Init, Cartographer!OnlySuitable

\* The one row that is best, and its image.
LEMMA SelectStep ==
  ASSUME CartographerInv, Cartographer!Select
  PROVE  CartographerInv'
<1> USE Instances DEF Cartographer!Parameters
<1>1. /\ pc = "listed" /\ automatic /\ listed \in Seq(Cartographer!Row) /\ CartographerTypes
      /\ UNCHANGED <<probe, rows, images, plugin, request, automatic, moves, written, calm>>
      /\ request = None
      /\ calm => listed = rows
  BY DEF Cartographer!Select, CartographerInv, CartographerTypes, Cartographer!clone
<1> DEFINE chosen == /\ Cartographer!Generation(probe.chip) # None
                     /\ Cartographer!Protocol # None
                     /\ Cartographer!Cardinality(Cartographer!Best(listed)) = 1
<1>2. CASE ~chosen
  <2>1. pc' = "idle"
    BY <1>2, Zenon DEF Cartographer!Select
  <2>2. CartographerTypes'
    BY <1>1, <2>1 DEF CartographerTypes
  <2> QED
    BY <1>1, <2>1, <2>2 DEF CartographerInv, Cartographer!OnlySuitable
<1>3. CASE chosen
  <2> DEFINE best == CHOOSE i \in Cartographer!Best(listed) : TRUE
             row == listed[best]
             found == images[row.path]
  <2>1. IsFiniteSet(Cartographer!Best(listed))
    <3>1. IsFiniteSet(1..Len(listed))
      BY <1>1, FS_Interval
    <3>2. Cartographer!Best(listed) \subseteq 1..Len(listed)
      BY DEF Cartographer!Best, Cartographer!Candidates
    <3> QED
      BY <3>1, <3>2, FS_Subset
  <2>2. Cartographer!Best(listed) = {best}
    <3>1. \E x : Cartographer!Best(listed) = {x}
      BY <1>3, <2>1, FS_Singleton, SameCardinality
    <3> QED
      BY <3>1
  <2>3. best \in 1..Len(listed) /\ best \in Cartographer!Candidates(listed)
    BY <2>2 DEF Cartographer!Best, Cartographer!Candidates
  <2>4. row \in Cartographer!Row
    BY <1>1, <2>3, ElementOfSeq
  <2>5. /\ pc' = "chosen"
        /\ target' = [path |-> row.path, version |-> row.version,
                      reported |-> Cartographer!Reported(found), row |-> row,
                      held |-> Cartographer!HeldBack(listed, best) # {}]
    BY <1>3, Zenon DEF Cartographer!Select
  <2>6. found.lite = probe.lite /\ found.version = row.version
    BY <2>3 DEF Cartographer!Candidates
  <2> HIDE DEF chosen, best, row, found
  <2>7. target' \in Cartographer!Target
    <3>1. Cartographer!Reported(found) \in [version : 0..Top, lite : BOOLEAN]
      BY <1>1, <2>4, <2>6 DEF Cartographer!Reported, Cartographer!Row, CartographerTypes
    <3> QED
      BY <2>4, <2>5, <3>1 DEF Cartographer!Target, Cartographer!Row
  <2>8. /\ target'.reported.version = target'.version /\ target'.row.version = target'.version
        /\ target'.reported.lite = probe.lite /\ target'.row = row
    BY <2>5, <2>6 DEF Cartographer!Reported
  <2>9. calm => Cartographer!Best(rows) = {best} /\ rows[best] = row /\ best \in 1..Len(rows)
    <3> SUFFICES ASSUME calm PROVE Cartographer!Best(rows) = {best} /\ rows[best] = row
                                  /\ best \in 1..Len(rows)
      OBVIOUS
    <3>1. listed = rows
      BY <1>1
    <3>2. rows[best] = row
      BY <3>1 DEF row
    <3>3. best \in 1..Len(rows)
      BY <2>3, <3>1
    <3>4. Cartographer!Best(rows) = {best}
      BY <2>2, <3>1
    <3> QED
      BY <3>2, <3>3, <3>4
  <2>10. Cartographer!Best(rows)' = Cartographer!Best(rows)
    BY <1>1 DEF Cartographer!Best, Cartographer!Candidates, Cartographer!WorksWithPlugin,
       Cartographer!Protocol
  <2>11. Chosen'
    BY <1>1, <2>7, <2>8, <2>9, <2>10 DEF Chosen
  <2>12. CartographerTypes'
    BY <1>1, <2>5 DEF CartographerTypes
  <2> QED
    BY <1>1, <2>5, <2>11, <2>12 DEF CartographerInv, Cartographer!OnlySuitable
<1> QED
  BY <1>2, <1>3

\* What an update is approved for, and with it the only best row, outlasts a
\* step that moves nothing.
LEMMA BestStays ==
  ASSUME UNCHANGED <<rows, images, plugin>>,
         probe'.chip = probe.chip, probe'.rate = probe.rate, probe'.lite = probe.lite,
         probe'.bus = probe.bus
  PROVE  Cartographer!Best(rows)' = Cartographer!Best(rows)
<1>1. Cartographer!Protocol' = Cartographer!Protocol
  BY DEF Cartographer!Protocol
<1>2. \A image0 : Cartographer!Suits(image0, probe)' <=> Cartographer!Suits(image0, probe)
  BY DEF Cartographer!Suits
<1>3. Cartographer!Candidates(rows)' = Cartographer!Candidates(rows)
  BY <1>1 DEF Cartographer!Candidates, Cartographer!Suits
<1> QED
  BY <1>3 DEF Cartographer!Best, Cartographer!WorksWithPlugin

\* Every step of its update, and of the clone beside it.
LEMMA CartographerStep ==
  ASSUME CartographerInv, Cartographer!Next
  PROVE  CartographerInv'
<1> USE Instances DEF Cartographer!Parameters, Cartographer!clone
<1>1. CASE Cartographer!Select
  BY <1>1, SelectStep
<1>2. CASE Cartographer!ReadManifest
  BY <1>2 DEF Cartographer!ReadManifest, CartographerInv, CartographerTypes,
     Cartographer!OnlySuitable
<1>3. CASE Cartographer!Approve
  <2>1. pc' = "approved" => Chosen'
    <3>1. Chosen /\ UNCHANGED <<probe, rows, images, plugin, calm>>
      BY <1>3 DEF Cartographer!Approve, CartographerInv
    <3>2. Cartographer!Best(rows)' = Cartographer!Best(rows)
      BY <3>1, BestStays
    <3> QED
      BY <1>3, <3>1, <3>2 DEF Cartographer!Approve, Chosen
  <2>2. CartographerTypes'
    BY <1>3 DEF Cartographer!Approve, CartographerInv, CartographerTypes
  <2> QED
    BY <1>3, <2>1, <2>2 DEF Cartographer!Approve, CartographerInv, Cartographer!OnlySuitable
<1>4. CASE Cartographer!Prepare
  <2> DEFINE found == images[target.path]
  <2>1. /\ pc = "approved" /\ automatic /\ Chosen /\ CartographerTypes
        /\ target.version >= probe.version /\ request = None
        /\ UNCHANGED <<probe, rows, images, plugin, listed, automatic, moves, written, calm>>
    BY <1>4 DEF Cartographer!Prepare, CartographerInv, CartographerTypes
  <2>2. \/ pc' = "idle" /\ request' = None
        \/ /\ pc' = "ready" /\ request' = found /\ target' = target /\ found # None
           /\ Cartographer!Suits(found, probe)
           /\ Cartographer!Reported(found) = target.reported
    BY <1>4 DEF Cartographer!Prepare
  <2>3. CASE pc' = "idle"
    <3>1. CartographerTypes'
      BY <2>1, <2>2, <2>3 DEF CartographerTypes
    <3> QED
      BY <2>1, <2>2, <2>3, <3>1 DEF CartographerInv, Cartographer!OnlySuitable
  <2>4. CASE pc' = "ready"
    <3>1. Cartographer!Best(rows)' = Cartographer!Best(rows)
      BY <2>1, BestStays
    <3>2. Chosen'
      BY <2>1, <2>2, <2>4, <3>1 DEF Chosen
    <3>3. found \in Cartographer!Image
      BY <2>1, <2>2, <2>4 DEF Cartographer!Suits, Chosen, Cartographer!Target, CartographerTypes
    <3>4. found.version \in 0..Top
      BY <2>1, <2>2, <2>4 DEF Cartographer!Reported, Chosen, Cartographer!Target
    <3>5. CartographerTypes'
      BY <2>1, <2>2, <2>4, <3>3 DEF CartographerTypes
    <3>6. Cartographer!Suits(request, probe)' /\ request' = found
      BY <2>1, <2>2, <2>4 DEF Cartographer!Suits
    <3>7. Cartographer!Reported(request)' = target.reported /\ target' = target
      BY <2>1, <2>2, <2>4 DEF Cartographer!Reported
    <3> QED
      BY <2>1, <2>4, <3>2, <3>4, <3>5, <3>6, <3>7
         DEF CartographerInv, Cartographer!OnlySuitable
  <2> QED
    BY <2>2, <2>3, <2>4
<1>5. CASE Cartographer!PrepareExplicit
  <2>1. PICK found \in Files \cup {images[q] : q \in Cartographer!Paths} :
          /\ found # None /\ Cartographer!Suits(found, probe)
          /\ found.version # None /\ request' = found
    BY <1>5 DEF Cartographer!PrepareExplicit
  <2>2. /\ pc' = "ready" /\ automatic' = FALSE /\ CartographerTypes
        /\ UNCHANGED <<probe, rows, images, plugin, listed, moves, written>>
    BY <1>5 DEF Cartographer!PrepareExplicit, CartographerInv
  <2>3. found \in Cartographer!Image
    <3>1. found \in Cartographer!Image \cup {Cartographer!Torn, None}
      BY <2>2 DEF CartographerTypes
    <3> QED
      BY <2>1, <3>1 DEF Cartographer!Suits
  <2>4. found.version \in 0..Top
    BY <2>1, <2>3 DEF Cartographer!Image
  <2>5. CartographerTypes'
    BY <2>1, <2>2, <2>3 DEF CartographerTypes
  <2>6. Cartographer!Suits(request, probe)'
    BY <2>1, <2>2 DEF Cartographer!Suits
  <2> QED
    BY <2>1, <2>2, <2>4, <2>5, <2>6 DEF CartographerInv, Cartographer!OnlySuitable
<1>6. CASE Cartographer!Flash
  <2>0. /\ pc = "ready" /\ pc' = "flashed" /\ request' = None /\ written' = request
        /\ UNCHANGED <<rows, images, plugin, target, automatic, moves, calm>>
        /\ probe' = [probe EXCEPT !.version = request.version, !.lite = request.lite]
        /\ request \in Cartographer!Image /\ request.version \in 0..Top
        /\ CartographerTypes /\ Cartographer!Suits(request, probe)
    BY <1>6 DEF Cartographer!Flash, CartographerInv, CartographerTypes
  <2>1. CartographerTypes'
    BY <2>0 DEF CartographerTypes, Cartographer!Image
  <2>2. automatic => Chosen'
    <3> SUFFICES ASSUME automatic PROVE Chosen'
      OBVIOUS
    <3>1. /\ Chosen /\ target.version >= probe.version
          /\ Cartographer!Reported(request) = target.reported
      BY <2>0 DEF CartographerInv
    <3>2. request.lite = probe.lite /\ request.version = target.version
      BY <3>1 DEF Chosen, Cartographer!Reported
    <3>3. /\ probe'.chip = probe.chip /\ probe'.rate = probe.rate
          /\ probe'.lite = probe.lite /\ probe'.bus = probe.bus
      BY <2>0, <3>2 DEF CartographerTypes
    <3>4. Cartographer!Best(rows)' = Cartographer!Best(rows)
      BY <2>0, <3>3, BestStays
    <3> QED
      BY <2>0, <3>1, <3>3, <3>4 DEF Chosen
  <2> QED
    <3>1. automatic => target'.version = probe'.version
      BY <2>0 DEF CartographerInv, Chosen, Cartographer!Reported, CartographerTypes
    <3>2. Cartographer!OnlySuitable'
      BY <2>0 DEF Cartographer!OnlySuitable, Cartographer!Suits, CartographerTypes
    <3> QED
      BY <2>0, <2>1, <2>2, <3>1, <3>2 DEF CartographerInv
<1>7. CASE Cartographer!EndRun
  BY <1>7 DEF Cartographer!EndRun, CartographerInv, CartographerTypes,
     Cartographer!OnlySuitable
<1>8. CASE Cartographer!Pull \/ Cartographer!UpdatePlugin
  <2>1. CartographerTypes'
    <3>1. images' \in [Cartographer!Paths -> Cartographer!Image \cup {Cartographer!Torn, None}]
      BY <1>8 DEF Cartographer!Pull, Cartographer!UpdatePlugin, CartographerInv,
         CartographerTypes
    <3>2. rows' \in Seq(Cartographer!Row) /\ plugin' \in 0..Top \cup {None}
      BY <1>8 DEF Cartographer!Pull, Cartographer!UpdatePlugin, CartographerInv,
         CartographerTypes
    <3> QED
      BY <1>8, <3>1, <3>2 DEF Cartographer!Pull, Cartographer!UpdatePlugin,
         Cartographer!Moves, CartographerInv, CartographerTypes
  <2>2. Chosen => Chosen'
    BY <1>8 DEF Cartographer!Pull, Cartographer!UpdatePlugin, Cartographer!Moves, Chosen
  <2> QED
    BY <1>8, <2>1, <2>2 DEF Cartographer!Pull, Cartographer!UpdatePlugin,
       Cartographer!Moves, CartographerInv, Cartographer!OnlySuitable
<1> QED
  BY <1>1, <1>2, <1>3, <1>4, <1>5, <1>6, <1>7, <1>8 DEF Cartographer!Next, Cartographer!Update

\* What the end of an update says, from the invariant.
LEMMA CartographerPromises ==
  ASSUME CartographerInv
  PROVE  /\ Cartographer!TypeOK /\ Cartographer!OnlySuitable /\ Cartographer!PluginKeepsUp
         /\ Cartographer!UpdateSettles
<1>1. Cartographer!TypeOK
  BY Instances DEF CartographerInv, CartographerTypes, Chosen, Cartographer!TypeOK,
     Cartographer!Parameters
<1>2. ASSUME calm, automatic, pc = "flashed"
      PROVE  \E i : /\ Cartographer!Best(rows) = {i} /\ rows[i] = target.row
                    /\ rows[i].version = probe.version
                    /\ probe.version = target.reported.version
                    /\ probe.lite = target.reported.lite
  BY <1>2 DEF CartographerInv, Chosen
<1>3. Cartographer!PluginKeepsUp
  BY <1>2 DEF Cartographer!PluginKeepsUp, Cartographer!Best, Cartographer!WorksWithPlugin
<1>4. Cartographer!UpdateSettles
  <2> SUFFICES ASSUME calm, automatic, pc = "flashed"
               PROVE  /\ Cartographer!Reported([version |-> probe.version,
                                               lite |-> probe.lite]) = target.reported
                      /\ Cartographer!Cardinality(Cartographer!Best(rows)) = 1
                      /\ \A i \in Cartographer!Best(rows) : rows[i].version = probe.version
    BY Zenon DEF Cartographer!UpdateSettles
  <2>1. PICK i : /\ Cartographer!Best(rows) = {i} /\ rows[i] = target.row
                 /\ rows[i].version = probe.version
                 /\ probe.version = target.reported.version
                 /\ probe.lite = target.reported.lite
    BY <1>2
  <2>2. Cardinality({i}) = 1
    BY FS_Singleton
  <2>3. target.reported \in [version : 0..Top, lite : BOOLEAN]
    BY DEF CartographerInv, Chosen, Cartographer!Target
  <2>4. Cartographer!Reported([version |-> probe.version, lite |-> probe.lite])
          = target.reported
    BY <2>1, <2>3 DEF Cartographer!Reported
  <2>5. Cartographer!Cardinality(Cartographer!Best(rows)) = 1
    BY <2>1, <2>2, SameCardinality
  <2> QED
    BY <2>1, <2>4, <2>5
<1> QED
  BY <1>1, <1>3, <1>4 DEF CartographerInv

\* What is written to a probe is what was approved, of its own build.
LEMMA CartographerWrites ==
  ASSUME CartographerInv, Cartographer!Next
  PROVE  Cartographer!ApprovedIsWritten /\ Cartographer!UpdateKeepsBuild
<1> SUFFICES ASSUME automatic, pc = "ready", pc' = "flashed"
             PROVE  Cartographer!ApprovedIsWritten /\ Cartographer!UpdateKeepsBuild
  BY DEF Cartographer!ApprovedIsWritten, Cartographer!UpdateKeepsBuild
<1>1. Cartographer!Flash
  BY DEF Cartographer!Next, Cartographer!Update, Cartographer!ReadManifest,
     Cartographer!Select, Cartographer!Approve, Cartographer!Prepare,
     Cartographer!PrepareExplicit, Cartographer!EndRun, Cartographer!Pull,
     Cartographer!UpdatePlugin, Cartographer!Moves
<1>2. /\ Chosen /\ target.version >= probe.version
      /\ Cartographer!Reported(request) = target.reported
  BY DEF CartographerInv
<1>3. request.lite = probe.lite /\ request.version = target.version
  BY <1>2 DEF Chosen, Cartographer!Reported
<1>4. probe'.version = request.version /\ probe'.lite = request.lite
  BY <1>1 DEF Cartographer!Flash, CartographerInv, CartographerTypes
<1> QED
  BY <1>2, <1>3, <1>4 DEF Cartographer!ApprovedIsWritten, Cartographer!UpdateKeepsBuild

-----------------------------------------------------------------------------
(* Assessment: what Assessment_proofs proves of every instance, said of the  *)
(* two that Firmware has.                                                    *)

KA == INSTANCE Assessment_proofs WITH
    Mcus <- KlipperMcus, Hosts <- KlipperHosts, Top <- 0
VA == INSTANCE Assessment_proofs WITH
    Mcus <- VendorMcus, Hosts <- VendorHosts, MaxMoves <- VendorMoves

\* The Klipper instance, definition by definition.
LEMMA KlipperIsProved ==
  /\ Klipper!Parameters => KA!Parameters
  /\ Klipper!Init => KA!Init
  /\ Klipper!Next => KA!Next
  /\ KA!TypeOK => Klipper!TypeOK
  /\ KA!UpdateSettles => Klipper!UpdateSettles
  /\ KA!AgentAgrees => Klipper!AgentAgrees
  /\ KA!CurrentIsSameCommit => Klipper!CurrentIsSameCommit
  /\ KA!NoAncestorApproved => Klipper!NoAncestorApproved
  /\ KA!ReachedIsApproved => Klipper!ReachedIsApproved
  /\ KA!NeverOlder => Klipper!NeverOlder
<1>1. Klipper!Parameters => KA!Parameters
  BY Zenon DEF Klipper!Parameters, KA!Parameters, Klipper!Repository,
     KA!Repository, Klipper!Firmwares, KA!Firmwares,
     Klipper!Kconfigs, KA!Kconfigs, Klipper!Host, KA!Host,
     Klipper!Verdict, KA!Verdict, Klipper!Reasons, KA!Reasons,
     Klipper!Tag, KA!Tag, Klipper!Before, KA!Before,
     Klipper!Vendors, KA!Vendors, Klipper!Families, KA!Families
<1>2. Klipper!Init => KA!Init
  BY SMTT(30) DEF Klipper!Init, KA!Init, Klipper!Vendors,
     KA!Vendors, Klipper!Prebuilt, KA!Prebuilt,
     Klipper!Descriptions, KA!Descriptions, Klipper!CheckoutRevision,
     KA!CheckoutRevision, Klipper!Describe, KA!Describe
<1>3. Klipper!Next => KA!Next
  <2>1. Klipper!CliApproves => KA!CliApproves
    BY ZenonT(60) DEF Klipper!CliApproves, KA!CliApproves, Klipper!Selected,
       KA!Selected, Klipper!Eligibility, KA!Eligibility, Klipper!Vendors,
       KA!Vendors, Klipper!Families, KA!Families, Klipper!TooOld, KA!TooOld,
       Klipper!Below, KA!Below, Klipper!Version, KA!Version,
       Klipper!ByKconfig, KA!ByKconfig, Klipper!RevisionStatus,
       KA!RevisionStatus, Klipper!Compare, KA!Compare, Klipper!Matches,
       KA!Matches, Klipper!StartsWith, KA!StartsWith, Klipper!Base, KA!Base,
       Klipper!IsNewer, KA!IsNewer, Klipper!CompareVersions,
       KA!CompareVersions, Klipper!ComparePrebuilt, KA!ComparePrebuilt,
       Klipper!CheckoutRevision, KA!CheckoutRevision, Klipper!Describe,
       KA!Describe, Klipper!Approve, KA!Approve, Klipper!checkout, KA!checkout
  <2>2. Klipper!AgentApproves => KA!AgentApproves
    BY ZenonT(60) DEF Klipper!AgentApproves, KA!AgentApproves,
       Klipper!AgentOffers, KA!AgentOffers, Klipper!AgentState, KA!AgentState,
       Klipper!RevisionStatus, KA!RevisionStatus, Klipper!Eligibility,
       KA!Eligibility, Klipper!Vendors, KA!Vendors, Klipper!Families,
       KA!Families, Klipper!TooOld, KA!TooOld, Klipper!Below, KA!Below,
       Klipper!Version, KA!Version, Klipper!ByKconfig, KA!ByKconfig,
       Klipper!Compare, KA!Compare, Klipper!Matches, KA!Matches,
       Klipper!StartsWith, KA!StartsWith, Klipper!Base, KA!Base,
       Klipper!IsNewer, KA!IsNewer, Klipper!CompareVersions,
       KA!CompareVersions, Klipper!ComparePrebuilt, KA!ComparePrebuilt,
       Klipper!Blocker, KA!Blocker, Klipper!First, KA!First, Klipper!Holds,
       KA!Holds, Klipper!CheckoutRevision, KA!CheckoutRevision,
       Klipper!Describe, KA!Describe, Klipper!Reasons, KA!Reasons,
       Klipper!Approve, KA!Approve, Klipper!checkout, KA!checkout
  <2>3. Klipper!Flash => KA!Flash
    BY ZenonT(60) DEF Klipper!Flash, KA!Flash, Klipper!Vendors, KA!Vendors,
       Klipper!Flashed, KA!Flashed, Klipper!Describe, KA!Describe,
       Klipper!checkout, KA!checkout
  <2>4. Klipper!Verify => KA!Verify
    BY ZenonT(60) DEF Klipper!Verify, KA!Verify, Klipper!Vendors, KA!Vendors,
       Klipper!Matches, KA!Matches, Klipper!StartsWith, KA!StartsWith,
       Klipper!Base, KA!Base, Klipper!checkout, KA!checkout
  <2>5. Klipper!EndRun => KA!EndRun
    BY ZenonT(60) DEF Klipper!EndRun, KA!EndRun, Klipper!checkout, KA!checkout
  <2>6. Klipper!MoveCheckout => KA!MoveCheckout
    BY ZenonT(60) DEF Klipper!MoveCheckout, KA!MoveCheckout, Klipper!Moves,
       KA!Moves
  <2>7. Klipper!Refresh => KA!Refresh
    BY ZenonT(60) DEF Klipper!Refresh, KA!Refresh, Klipper!Moves, KA!Moves
  <2>8. Klipper!RestartHost => KA!RestartHost
    BY ZenonT(60) DEF Klipper!RestartHost, KA!RestartHost, Klipper!Moves,
       KA!Moves, Klipper!checkout, KA!checkout, Klipper!CheckoutRevision,
       KA!CheckoutRevision, Klipper!Describe, KA!Describe
  <2>9. Klipper!MoveImage => KA!MoveImage
    BY ZenonT(60) DEF Klipper!MoveImage, KA!MoveImage, Klipper!Vendors,
       KA!Vendors, Klipper!Moves, KA!Moves, Klipper!checkout, KA!checkout
  <2> QED
    BY <2>1, <2>2, <2>3, <2>4, <2>5, <2>6, <2>7, <2>8, <2>9 DEF Klipper!Next,
       KA!Next, Klipper!Update, KA!Update, Klipper!Changes, KA!Changes
<1>4. KA!TypeOK => Klipper!TypeOK
  BY SMTT(30) DEF Klipper!TypeOK, KA!TypeOK, Klipper!Firmwares,
     KA!Firmwares, Klipper!Kconfigs, KA!Kconfigs, Klipper!Host,
     KA!Host, Klipper!Vendors, KA!Vendors, Klipper!Prebuilt,
     KA!Prebuilt, Klipper!Descriptions, KA!Descriptions,
     Klipper!Families, KA!Families
<1>5. KA!UpdateSettles => Klipper!UpdateSettles
  BY ZenonT(60) DEF Klipper!UpdateSettles, KA!UpdateSettles, Klipper!Klipper,
     KA!Klipper, Klipper!CheckoutRevision, KA!CheckoutRevision,
     Klipper!Selected, KA!Selected, Klipper!Vendors, KA!Vendors,
     Klipper!Describe, KA!Describe, Klipper!Eligibility,
     KA!Eligibility, Klipper!RevisionStatus, KA!RevisionStatus,
     Klipper!Families, KA!Families, Klipper!TooOld, KA!TooOld,
     Klipper!ByKconfig, KA!ByKconfig, Klipper!Compare,
     KA!Compare, Klipper!ComparePrebuilt, KA!ComparePrebuilt,
     Klipper!Below, KA!Below, Klipper!Version, KA!Version,
     Klipper!Matches, KA!Matches, Klipper!IsNewer, KA!IsNewer,
     Klipper!StartsWith, KA!StartsWith, Klipper!Base, KA!Base,
     Klipper!CompareVersions, KA!CompareVersions
<1>6. KA!AgentAgrees => Klipper!AgentAgrees
  BY ZenonT(60) DEF Klipper!AgentAgrees, KA!AgentAgrees, Klipper!AgentOffers,
     KA!AgentOffers, Klipper!Selected, KA!Selected,
     Klipper!CheckoutRevision, KA!CheckoutRevision, Klipper!AgentState,
     KA!AgentState, Klipper!Blocker, KA!Blocker,
     Klipper!Eligibility, KA!Eligibility, Klipper!RevisionStatus,
     KA!RevisionStatus, Klipper!Describe, KA!Describe,
     Klipper!First, KA!First, Klipper!Reasons, KA!Reasons,
     Klipper!Vendors, KA!Vendors, Klipper!Families, KA!Families,
     Klipper!TooOld, KA!TooOld, Klipper!ByKconfig, KA!ByKconfig,
     Klipper!Compare, KA!Compare, Klipper!ComparePrebuilt,
     KA!ComparePrebuilt, Klipper!Holds, KA!Holds, Klipper!Below,
     KA!Below, Klipper!Version, KA!Version, Klipper!Matches,
     KA!Matches, Klipper!IsNewer, KA!IsNewer,
     Klipper!StartsWith, KA!StartsWith, Klipper!Base, KA!Base,
     Klipper!CompareVersions, KA!CompareVersions
<1>7. KA!CurrentIsSameCommit => Klipper!CurrentIsSameCommit
  BY ZenonT(60) DEF Klipper!CurrentIsSameCommit, KA!CurrentIsSameCommit,
     Klipper!Klipper, KA!Klipper, Klipper!RevisionStatus,
     KA!RevisionStatus, Klipper!CheckoutRevision,
     KA!CheckoutRevision, Klipper!Vendors, KA!Vendors,
     Klipper!Eligibility, KA!Eligibility, Klipper!Compare,
     KA!Compare, Klipper!ComparePrebuilt, KA!ComparePrebuilt,
     Klipper!Describe, KA!Describe, Klipper!Families,
     KA!Families, Klipper!TooOld, KA!TooOld, Klipper!ByKconfig,
     KA!ByKconfig, Klipper!Matches, KA!Matches, Klipper!IsNewer,
     KA!IsNewer, Klipper!Below, KA!Below, Klipper!Version,
     KA!Version, Klipper!StartsWith, KA!StartsWith,
     Klipper!Base, KA!Base, Klipper!CompareVersions,
     KA!CompareVersions
<1>8. KA!NoAncestorApproved => Klipper!NoAncestorApproved
  BY Zenon DEF Klipper!NoAncestorApproved, KA!NoAncestorApproved, Klipper!IsOf, KA!IsOf,
     Klipper!Klipper, KA!Klipper, Klipper!Vendors, KA!Vendors
<1>9. KA!ReachedIsApproved => Klipper!ReachedIsApproved
  BY Zenon DEF Klipper!ReachedIsApproved, KA!ReachedIsApproved, Klipper!IsOf, KA!IsOf,
     Klipper!Klipper, KA!Klipper, Klipper!Vendors, KA!Vendors
<1>10. KA!NeverOlder => Klipper!NeverOlder
  BY Zenon DEF Klipper!NeverOlder, KA!NeverOlder, Klipper!Klipper,
     KA!Klipper, Klipper!Vendors, KA!Vendors
<1> QED
  BY <1>1, <1>2, <1>3, <1>4, <1>5, <1>6, <1>7, <1>8, <1>9, <1>10

\* The vendor instance, definition by definition.
LEMMA VendorIsProved ==
  /\ Vendor!Parameters => VA!Parameters
  /\ Vendor!Init => VA!Init
  /\ Vendor!Next => VA!Next
  /\ VA!TypeOK => Vendor!TypeOK
  /\ VA!UpdateSettles => Vendor!UpdateSettles
  /\ VA!DevelopmentStays => Vendor!DevelopmentStays
  /\ VA!NeverOlder => Vendor!NeverOlder
<1>1. Vendor!Parameters => VA!Parameters
  BY Zenon DEF Vendor!Parameters, VA!Parameters, Vendor!Repository,
     VA!Repository, Vendor!Firmwares, VA!Firmwares,
     Vendor!Kconfigs, VA!Kconfigs, Vendor!Host, VA!Host,
     Vendor!Verdict, VA!Verdict, Vendor!Reasons, VA!Reasons,
     Vendor!Tag, VA!Tag, Vendor!Before, VA!Before, Vendor!Vendors,
     VA!Vendors, Vendor!Families, VA!Families
<1>2. Vendor!Init => VA!Init
  BY SMTT(30) DEF Vendor!Init, VA!Init, Vendor!Vendors, VA!Vendors,
     Vendor!Prebuilt, VA!Prebuilt, Vendor!Descriptions,
     VA!Descriptions, Vendor!CheckoutRevision,
     VA!CheckoutRevision, Vendor!Describe, VA!Describe
<1>3. Vendor!Next => VA!Next
  <2>1. Vendor!CliApproves => VA!CliApproves
    BY ZenonT(60) DEF Vendor!CliApproves, VA!CliApproves, Vendor!Selected,
       VA!Selected, Vendor!Eligibility, VA!Eligibility, Vendor!Vendors,
       VA!Vendors, Vendor!Families, VA!Families, Vendor!TooOld, VA!TooOld,
       Vendor!Below, VA!Below, Vendor!Version, VA!Version, Vendor!ByKconfig,
       VA!ByKconfig, Vendor!RevisionStatus, VA!RevisionStatus, Vendor!Compare,
       VA!Compare, Vendor!Matches, VA!Matches, Vendor!StartsWith,
       VA!StartsWith, Vendor!Base, VA!Base, Vendor!IsNewer, VA!IsNewer,
       Vendor!CompareVersions, VA!CompareVersions, Vendor!ComparePrebuilt,
       VA!ComparePrebuilt, Vendor!CheckoutRevision, VA!CheckoutRevision,
       Vendor!Describe, VA!Describe, Vendor!Approve, VA!Approve,
       Vendor!checkout, VA!checkout
  <2>2. Vendor!AgentApproves => VA!AgentApproves
    BY ZenonT(60) DEF Vendor!AgentApproves, VA!AgentApproves,
       Vendor!AgentOffers, VA!AgentOffers, Vendor!AgentState, VA!AgentState,
       Vendor!RevisionStatus, VA!RevisionStatus, Vendor!Eligibility,
       VA!Eligibility, Vendor!Vendors, VA!Vendors, Vendor!Families,
       VA!Families, Vendor!TooOld, VA!TooOld, Vendor!Below, VA!Below,
       Vendor!Version, VA!Version, Vendor!ByKconfig, VA!ByKconfig,
       Vendor!Compare, VA!Compare, Vendor!Matches, VA!Matches,
       Vendor!StartsWith, VA!StartsWith, Vendor!Base, VA!Base, Vendor!IsNewer,
       VA!IsNewer, Vendor!CompareVersions, VA!CompareVersions,
       Vendor!ComparePrebuilt, VA!ComparePrebuilt, Vendor!Blocker, VA!Blocker,
       Vendor!First, VA!First, Vendor!Holds, VA!Holds,
       Vendor!CheckoutRevision, VA!CheckoutRevision, Vendor!Describe,
       VA!Describe, Vendor!Reasons, VA!Reasons, Vendor!Approve, VA!Approve,
       Vendor!checkout, VA!checkout
  <2>3. Vendor!Flash => VA!Flash
    BY ZenonT(60) DEF Vendor!Flash, VA!Flash, Vendor!Vendors, VA!Vendors,
       Vendor!Flashed, VA!Flashed, Vendor!Describe, VA!Describe,
       Vendor!checkout, VA!checkout
  <2>4. Vendor!Verify => VA!Verify
    BY ZenonT(60) DEF Vendor!Verify, VA!Verify, Vendor!Vendors, VA!Vendors,
       Vendor!Matches, VA!Matches, Vendor!StartsWith, VA!StartsWith,
       Vendor!Base, VA!Base, Vendor!checkout, VA!checkout
  <2>5. Vendor!EndRun => VA!EndRun
    BY ZenonT(60) DEF Vendor!EndRun, VA!EndRun, Vendor!checkout, VA!checkout
  <2>6. Vendor!MoveCheckout => VA!MoveCheckout
    BY ZenonT(60) DEF Vendor!MoveCheckout, VA!MoveCheckout, Vendor!Moves,
       VA!Moves
  <2>7. Vendor!Refresh => VA!Refresh
    BY ZenonT(60) DEF Vendor!Refresh, VA!Refresh, Vendor!Moves, VA!Moves
  <2>8. Vendor!RestartHost => VA!RestartHost
    BY ZenonT(60) DEF Vendor!RestartHost, VA!RestartHost, Vendor!Moves,
       VA!Moves, Vendor!checkout, VA!checkout, Vendor!CheckoutRevision,
       VA!CheckoutRevision, Vendor!Describe, VA!Describe
  <2>9. Vendor!MoveImage => VA!MoveImage
    BY ZenonT(60) DEF Vendor!MoveImage, VA!MoveImage, Vendor!Vendors,
       VA!Vendors, Vendor!Moves, VA!Moves, Vendor!checkout, VA!checkout
  <2> QED
    BY <2>1, <2>2, <2>3, <2>4, <2>5, <2>6, <2>7, <2>8, <2>9 DEF Vendor!Next,
       VA!Next, Vendor!Update, VA!Update, Vendor!Changes, VA!Changes
<1>4. VA!TypeOK => Vendor!TypeOK
  BY SMTT(30) DEF Vendor!TypeOK, VA!TypeOK, Vendor!Firmwares,
     VA!Firmwares, Vendor!Kconfigs, VA!Kconfigs, Vendor!Host,
     VA!Host, Vendor!Vendors, VA!Vendors, Vendor!Prebuilt,
     VA!Prebuilt, Vendor!Descriptions, VA!Descriptions,
     Vendor!Families, VA!Families
<1>5. VA!UpdateSettles => Vendor!UpdateSettles
  BY ZenonT(60) DEF Vendor!UpdateSettles, VA!UpdateSettles, Vendor!Klipper,
     VA!Klipper, Vendor!CheckoutRevision, VA!CheckoutRevision,
     Vendor!Selected, VA!Selected, Vendor!Vendors, VA!Vendors,
     Vendor!Describe, VA!Describe, Vendor!Eligibility,
     VA!Eligibility, Vendor!RevisionStatus, VA!RevisionStatus,
     Vendor!Families, VA!Families, Vendor!TooOld, VA!TooOld,
     Vendor!ByKconfig, VA!ByKconfig, Vendor!Compare, VA!Compare,
     Vendor!ComparePrebuilt, VA!ComparePrebuilt, Vendor!Below,
     VA!Below, Vendor!Version, VA!Version, Vendor!Matches,
     VA!Matches, Vendor!IsNewer, VA!IsNewer, Vendor!StartsWith,
     VA!StartsWith, Vendor!Base, VA!Base, Vendor!CompareVersions,
     VA!CompareVersions
<1>6. VA!DevelopmentStays => Vendor!DevelopmentStays
  BY ZenonT(60) DEF Vendor!DevelopmentStays, VA!DevelopmentStays,
     Vendor!Selected, VA!Selected, Vendor!CheckoutRevision,
     VA!CheckoutRevision, Vendor!AgentOffers, VA!AgentOffers,
     Vendor!Eligibility, VA!Eligibility, Vendor!RevisionStatus,
     VA!RevisionStatus, Vendor!Describe, VA!Describe,
     Vendor!AgentState, VA!AgentState, Vendor!Blocker, VA!Blocker,
     Vendor!Vendors, VA!Vendors, Vendor!Families, VA!Families,
     Vendor!TooOld, VA!TooOld, Vendor!ByKconfig, VA!ByKconfig,
     Vendor!Compare, VA!Compare, Vendor!ComparePrebuilt,
     VA!ComparePrebuilt, Vendor!First, VA!First, Vendor!Reasons,
     VA!Reasons, Vendor!Below, VA!Below, Vendor!Version,
     VA!Version, Vendor!Matches, VA!Matches, Vendor!IsNewer,
     VA!IsNewer, Vendor!Holds, VA!Holds, Vendor!StartsWith,
     VA!StartsWith, Vendor!Base, VA!Base, Vendor!CompareVersions,
     VA!CompareVersions
<1>7. VA!NeverOlder => Vendor!NeverOlder
  BY Zenon DEF Vendor!NeverOlder, VA!NeverOlder, Vendor!Klipper,
     VA!Klipper, Vendor!Vendors, VA!Vendors
<1> QED
  BY <1>1, <1>2, <1>3, <1>4, <1>5, <1>6, <1>7

-----------------------------------------------------------------------------
(* Firmware: what each model keeps. *)

FirmwareInv ==
    /\ subject = "klipper" => KA!AssessInv
    /\ subject = "vendor" => VA!AssessInv
    /\ subject = "cartographer" => CartographerInv
    /\ subject = "beacon" => BeaconInv
    /\ subject = "foci" => FociInv

\* Steps of nothing.
LEMMA BeaconStutters ==
  ASSUME BeaconInv, UNCHANGED Beacon!vars
  PROVE  BeaconInv'
<1>1. UNCHANGED <<board, holds, images, pc, target, request, way, moves, swapped>>
  BY DEF Beacon!vars
<1>2. Beacon!TypeOK' /\ Beacon!NeverForAnother'
  BY <1>1 DEF BeaconInv, Beacon!TypeOK, Beacon!NeverForAnother
<1>3. BeaconUpdate'
  BY <1>1 DEF BeaconInv, BeaconUpdate
<1> QED
  BY <1>1, <1>2, <1>3 DEF BeaconInv

\* The same for a Foci,
LEMMA FociStutters ==
  ASSUME FociInv, UNCHANGED Foci!vars
  PROVE  FociInv'
  BY DEF FociInv, Foci!vars, Foci!TypeOK, Foci!memory, Foci!update

\* and for a probe.
LEMMA CartographerStutters ==
  ASSUME CartographerInv, UNCHANGED Cartographer!vars
  PROVE  CartographerInv'
<1>1. UNCHANGED <<probe, rows, images, plugin, pc, listed, target, request, automatic, moves,
                  written, calm>>
  BY DEF Cartographer!vars, Cartographer!clone
<1>2. CartographerTypes'
  BY <1>1 DEF CartographerInv, CartographerTypes
<1>3. /\ Cartographer!Best(rows)' = Cartographer!Best(rows)
      /\ Cartographer!Suits(request, probe)' = Cartographer!Suits(request, probe)
      /\ Cartographer!Reported(request)' = Cartographer!Reported(request)
  BY <1>1, BestStays DEF Cartographer!Suits, Cartographer!Reported
<1>4. Cartographer!OnlySuitable'
  BY <1>1, <1>3 DEF CartographerInv, Cartographer!OnlySuitable
<1>5. Chosen => Chosen'
  BY <1>1, <1>3 DEF Chosen
<1> QED
  BY <1>1, <1>2, <1>3, <1>4, <1>5 DEF CartographerInv

\* The subject that is updated has its invariant at first,
LEMMA FirmwareBegins == Init => FirmwareInv
<1>1. KA!Parameters /\ VA!Parameters
  BY Instances, KlipperIsProved, VendorIsProved
<1>2. Klipper!Init => KA!AssessInv
  BY <1>1, KlipperIsProved, KA!AssessInit
<1>3. Vendor!Init => VA!AssessInv
  BY <1>1, VendorIsProved, VA!AssessInit
<1> QED
  BY <1>2, <1>3, CartographerInit, BeaconInit, FociInit DEF Init, FirmwareInv

\* and keeps it.
LEMMA FirmwareSteps == FirmwareInv /\ [Next]_vars => FirmwareInv'
<1> SUFFICES ASSUME FirmwareInv, [Next]_vars
             PROVE  FirmwareInv'
  OBVIOUS
<1>1. KA!Parameters /\ VA!Parameters
  BY Instances, KlipperIsProved, VendorIsProved
<1>2. CASE subject = "klipper" /\ Klipper!Next /\ subject' = subject
  <2>1. KA!AssessInv'
    BY <1>1, <1>2, KlipperIsProved, KA!AssessStep DEF FirmwareInv
  <2> QED
    BY <1>2, <2>1 DEF FirmwareInv
<1>3. CASE subject = "vendor" /\ Vendor!Next /\ subject' = subject
  <2>1. VA!AssessInv'
    BY <1>1, <1>3, VendorIsProved, VA!AssessStep DEF FirmwareInv
  <2> QED
    BY <1>3, <2>1 DEF FirmwareInv
<1>4. CASE subject = "cartographer" /\ Cartographer!Next /\ subject' = subject
  BY <1>4, CartographerStep DEF FirmwareInv
<1>5. CASE subject = "beacon" /\ Beacon!Next /\ subject' = subject
  BY <1>5, BeaconStep DEF FirmwareInv
<1>6. CASE subject = "foci" /\ Foci!Next /\ subject' = subject
  BY <1>6, FociStep DEF FirmwareInv
<1>7. CASE UNCHANGED vars
  <2>1. UNCHANGED <<KA!vars, VA!vars, Cartographer!vars, Beacon!vars, Foci!vars>>
    BY <1>7 DEF vars, KA!vars, VA!vars, KA!checkout, VA!checkout, Cartographer!vars,
       Cartographer!clone, Beacon!vars, Foci!vars, Foci!memory, Foci!update
  <2>2. subject' = subject
    BY <1>7 DEF vars
  <2>3. /\ KA!AssessInv => KA!AssessInv'
        /\ VA!AssessInv => VA!AssessInv'
    BY <2>1, KA!AssessStutters, VA!AssessStutters
  <2> QED
    BY <2>1, <2>2, <2>3, CartographerStutters, BeaconStutters, FociStutters DEF FirmwareInv
<1> QED
  BY <1>2, <1>3, <1>4, <1>5, <1>6, <1>7 DEF Next

\* For every repository, MCU, vendor's clone and release an update reaches its
\* target and then needs no other, and what is called current is a build of
\* the checkout's commit (revisions_match, restart_pending, foci::compare,
\* select_target).
THEOREM UpdatesSettle == Spec => []UpdateSettles
<1>1. FirmwareInv => UpdateSettles
  <2> SUFFICES ASSUME FirmwareInv
               PROVE  UpdateSettles
    OBVIOUS
  <2>1. KA!Parameters /\ VA!Parameters
    BY Instances, KlipperIsProved, VendorIsProved
  <2>2. subject = "klipper" => /\ KA!TypeOK /\ KA!UpdateSettles /\ KA!AgentAgrees
                               /\ KA!CurrentIsSameCommit
    BY <2>1, KA!AssessPromises DEF FirmwareInv
  <2>3. subject = "vendor" => VA!TypeOK /\ VA!UpdateSettles /\ VA!DevelopmentStays
    BY <2>1, VA!AssessPromises DEF FirmwareInv
  <2> QED
    BY <2>2, <2>3, KlipperIsProved, VendorIsProved, CartographerPromises
       DEF FirmwareInv, UpdateSettles
<1> QED
  BY <1>1, FirmwareBegins, FirmwareSteps, PTL DEF Spec

\* For every probe, board and edition no MCU is written with another's image,
\* half an image, one that needs a newer plugin or one that was not published
\* with its digest, and GitHub is asked once per interval at most
\* (check_image, parse_image, download_verified, ReleaseCache).
THEOREM ImagesFit == Spec => []OnlyItsImage
<1>1. FirmwareInv => OnlyItsImage
  <2>1. BeaconInv => Beacon!TypeOK /\ Beacon!NeverForAnother
    BY DEF BeaconInv
  <2> QED
    BY <2>1, CartographerPromises, FociPromises DEF FirmwareInv, OnlyItsImage
<1> QED
  BY <1>1, FirmwareBegins, FirmwareSteps, PTL DEF Spec

\* No update leaves a vendor's firmware older than what ran, or a Cartographer
\* or a Beacon another version than was approved, whatever is pulled, published
\* or withdrawn meanwhile; a Klipper update is approved for no ancestor of what
\* runs, and is called reached only if it left the commit it was approved for,
\* wherever the checkout was moved (downgrade_of, reached_by,
\* read_cartographer_image, read_beacon_image, recovery_image, ReleaseCache).
THEOREM WritesAreApproved == Spec => ApprovedOrReported
<1> DEFINE Kept ==
      CASE subject = "klipper" ->
             /\ Klipper!NoAncestorApproved /\ Klipper!ReachedIsApproved
             /\ Klipper!NeverOlder
        [] subject = "vendor" -> Vendor!NeverOlder
        [] subject = "cartographer" ->
             Cartographer!ApprovedIsWritten /\ Cartographer!UpdateKeepsBuild
        [] subject = "beacon" -> Beacon!NeverOlder /\ Beacon!RecoveryIsForIt
        [] subject = "foci" -> Foci!NeverOlder /\ Foci!FailureKeeps
<1>1. FirmwareInv /\ [Next]_vars => [Kept]_vars
  <2> SUFFICES ASSUME FirmwareInv, Next
               PROVE  Kept
    BY DEF Kept
  <2>1. KA!Parameters /\ VA!Parameters
    BY Instances, KlipperIsProved, VendorIsProved
  <2>2. CASE subject = "klipper"
    <3>1. KA!NoAncestorApproved /\ KA!ReachedIsApproved /\ KA!NeverOlder
      BY <2>1, <2>2, KlipperIsProved, KA!AssessWrites DEF FirmwareInv, Next
    <3> QED
      BY <2>2, <3>1, KlipperIsProved
  <2>3. CASE subject = "vendor"
    <3>1. VA!NeverOlder
      BY <2>1, <2>3, VendorIsProved, VA!AssessWrites DEF FirmwareInv, Next
    <3> QED
      BY <2>3, <3>1, VendorIsProved
  <2>4. CASE subject = "cartographer"
    BY <2>4, CartographerWrites DEF FirmwareInv, Next
  <2>5. CASE subject = "beacon"
    BY <2>5, BeaconWrites DEF FirmwareInv, Next
  <2>6. CASE subject = "foci"
    BY <2>6, FociWrites DEF FirmwareInv, Next
  <2> QED
    BY <2>2, <2>3, <2>4, <2>5, <2>6 DEF Next
<1> QED
  BY <1>1, FirmwareBegins, FirmwareSteps, PTL DEF Spec, ApprovedOrReported

=============================================================================

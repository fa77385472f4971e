------------------------------ MODULE BeaconImage ------------------------------
(***************************************************************************)
(* Which image a Beacon is given (beacon.rs, its part of prebuilt.rs, and   *)
(* the flash of flash/system.rs).  The checkout holds one image for each    *)
(* hardware revision.  The Beacon's revision is read through its serial     *)
(* port when it is assessed; after the approval the image is read again and *)
(* sent to the bootloader that then answers behind the port.  `aldis flash` *)
(* takes any Beacon image, and `aldis reboot` the one its bootloader names. *)
(***************************************************************************)
EXTENDS Integers, FiniteSets

CONSTANTS
    Beacons,        \* the boards that may be behind the port
    Revision,       \* each one's hardware revision
    UsbId,          \* the USB id of each revision's bootloader
    BcdVersions,    \* versions as an image's suffix holds them
    MaxMoves,       \* bound: changes to the checkout and the cable
    None            \* a model value

VARIABLES
    board,          \* the Beacon behind the port
    holds,          \* what each Beacon holds: [revision, bcd, whole]
    images,         \* the checkout: the image of each revision
    pc, target,     \* an update; its target: [revision, bcd, running]
    request,        \* the image prepared
    way,            \* how it was asked for: "update", "file" or "recovery"
    moves, swapped  \* for the properties: the board was changed since

vars == <<board, holds, images, pc, target, request, way, moves, swapped>>

Revisions == {Revision[b] : b \in Beacons}

\* version_from_bcd: 16#2010 is 2.1.0 and 16#2100 is 2.10.0.
Version(bcd) ==
    LET high == bcd \div 256
        low == bcd % 256
    IN [major |-> high \div 16, minor |-> (high % 16) * 10 + low \div 16,
        patch |-> low % 16]

\* semver's order.
Earlier(v, w) ==
    \/ v.major < w.major
    \/ v.major = w.major /\ v.minor < w.minor
    \/ v.major = w.major /\ v.minor = w.minor /\ v.patch < w.patch

\* parse_image: the checksum tells a whole file from a half written one, and
\* the suffix names the bootloader; nothing in it names the revision.
Image == [revision : Revisions, bcd : BcdVersions, whole : BOOLEAN]
Target == [revision : Revisions, bcd : BcdVersions, running : BcdVersions]

\* What an instance gives it.
Parameters ==
    /\ BcdVersions \subseteq Nat /\ MaxMoves \in Nat
    /\ None \notin Beacons /\ None \notin Image /\ None \notin Target

Whole(revision, bcd) == [revision |-> revision, bcd |-> bcd, whole |-> TRUE]
Parses(image) == image # None /\ image.whole

TypeOK ==
    /\ board \in Beacons \cup {None}
    /\ holds \in [Beacons -> Image]
    /\ images \in [Revisions -> Image \cup {None}]
    /\ pc \in {"idle", "chosen", "approved", "ready", "flashed"}
    /\ pc \in {"approved", "chosen"} => target # None
    /\ request # None <=> pc = "ready"
    /\ moves \in 0..MaxMoves

-----------------------------------------------------------------------------
(* An update. *)

\* resolve_target: the image of the revision the USB product names.
Resolve ==
    /\ pc = "idle" /\ board # None
    /\ LET image == images[Revision[board]] IN
       /\ Parses(image)
       /\ target' = [revision |-> Revision[board], bcd |-> image.bcd,
                      running |-> holds[board].bcd]
    /\ pc' = "chosen" /\ swapped' = FALSE /\ way' = "update"
    /\ UNCHANGED <<board, holds, images, request, moves>>

\* Targets::compare and is_selected, by the version that was reported.
Approve ==
    /\ pc = "chosen"
    /\ \/ /\ ~Earlier(Version(target.bcd), Version(target.running))
          /\ pc' = "approved" /\ UNCHANGED target
       \/ pc' = "idle" /\ target' = None
    /\ UNCHANGED <<board, holds, images, request, way, moves, swapped>>

\* read_beacon_image: it must still hold the approved version.
ReadImage ==
    /\ pc = "approved"
    /\ LET image == images[target.revision] IN
       IF Parses(image) /\ Version(image.bcd) = Version(target.bcd)
       THEN pc' = "ready" /\ request' = image /\ UNCHANGED target
       ELSE pc' = "idle" /\ target' = None /\ UNCHANGED request
    /\ UNCHANGED <<board, holds, images, way, moves, swapped>>

\* prepare_explicit: any Beacon image the user names.
NameFile ==
    /\ pc = "idle" /\ pc' = "ready"
    /\ \E r \in Revisions, v \in BcdVersions :
        request' = Whole(r, v)
    /\ target' = None /\ way' = "file" /\ swapped' = FALSE
    /\ UNCHANGED <<board, holds, images, moves>>

\* prepare_beacon_recovery: the revision the bootloader's product names.
Recover ==
    /\ pc = "idle" /\ board # None
    /\ LET image == images[Revision[board]] IN
       Parses(image) /\ UsbId[image.revision] = UsbId[Revision[board]]
    /\ request' = images[Revision[board]]
    /\ pc' = "ready" /\ target' = None /\ way' = "recovery" /\ swapped' = FALSE
    /\ UNCHANGED <<board, holds, images, moves>>

\* flash_beacon_bootloader: the bootloader behind the port must be the one the
\* image is for.
Flash ==
    /\ pc = "ready"
    /\ IF board # None /\ UsbId[Revision[board]] = UsbId[request.revision]
       THEN pc' = "flashed" /\ holds' = [holds EXCEPT ![board] = request]
       ELSE pc' = "idle" /\ UNCHANGED holds
    /\ request' = None
    /\ target' = IF pc' = "idle" THEN None ELSE target
    /\ UNCHANGED <<board, images, way, moves, swapped>>

EndRun ==
    /\ pc = "flashed" /\ pc' = "idle" /\ target' = None
    /\ UNCHANGED <<board, holds, images, request, way, moves, swapped>>

-----------------------------------------------------------------------------
(* What changes meanwhile. *)

Moves ==
    /\ moves < MaxMoves /\ moves' = moves + 1
    /\ UNCHANGED <<holds, pc, target, request, way>>

\* git pull, or another commit checked out; a file may be caught half written.
Pull ==
    /\ Moves /\ UNCHANGED <<board, swapped>>
    /\ \E r \in Revisions :
        images' \in {[images EXCEPT ![r] = i] :
            i \in {None} \cup [revision : {r}, bcd : BcdVersions, whole : BOOLEAN]}

\* The user connects another Beacon.
Swap ==
    /\ Moves /\ UNCHANGED images
    /\ board' \in (Beacons \cup {None}) \ {board} /\ swapped' = TRUE

Update == Resolve \/ Approve \/ ReadImage \/ NameFile \/ Recover \/ Flash \/ EndRun
Next == Update \/ Pull \/ Swap

Init ==
    /\ board \in Beacons
    /\ \E v \in [Beacons -> BcdVersions] :
        holds = [b \in Beacons |-> Whole(Revision[b], v[b])]
    /\ \E v \in [Revisions -> BcdVersions] : images = [r \in Revisions |-> Whole(r, v[r])]
    /\ pc = "idle" /\ target = None /\ request = None /\ way = "update"
    /\ moves = 0 /\ swapped = FALSE

Spec == Init /\ [][Next]_vars

-----------------------------------------------------------------------------
(* Properties. *)

\* No Beacon is ever left with half an image, nor with one for another
\* bootloader, however the image was asked for, the checkout pulled and the
\* boards exchanged (parse_image, flash_beacon_bootloader).
NeverForAnother ==
    \A b \in Beacons :
        holds[b].whole /\ UsbId[holds[b].revision] = UsbId[Revision[b]]

\* A recovery writes the image of the very revision the bootloader names: a
\* Beacon in its bootloader does not come out of it by another
\* (recovery_image).
RecoveryIsForIt ==
    way = "recovery" /\ ~swapped /\ pc = "ready" /\ pc' = "flashed" =>
        holds'[board].revision = Revision[board]

\* An update leaves the version that was approved for the Beacon that was
\* assessed, never an older one than it ran, whatever is pulled meanwhile.
NeverOlder ==
    way = "update" /\ ~swapped /\ pc = "ready" /\ pc' = "flashed" =>
        /\ Version(holds'[board].bcd) = Version(target.bcd)
        /\ ~Earlier(Version(holds'[board].bcd), Version(holds[board].bcd))
=============================================================================

------------------------------ MODULE Firmware ------------------------------
(***************************************************************************)
(* What an MCU should run: the assessment of Klipper's and of the vendors' *)
(* firmware (Assessment), and where each vendor's image comes from         *)
(* (CartographerImage, BeaconImage, FociRelease).  A behaviour is one of   *)
(* these models alone, named by `subject`; variables it does not have are  *)
(* Unused.                                                                 *)
(***************************************************************************)
EXTENDS Integers

CONSTANTS
    None, NoTag, Unused, MaxMoves,
    Digits, Commits, Where, Hash, Older, Upstream, Minimum,   \* of Assessment
    KlipperMcus, KlipperHosts,                                \* once
    VendorMcus, VendorHosts, VendorMoves,                     \* and again
    Probes, Clones, Files, Top, Rates,                        \* of CartographerImage
    Beacons, BeaconRevision, UsbId, BcdVersions,              \* of BeaconImage
    Boards, Releases, Editions, Reuse, Retry, Last            \* of FociRelease

VARIABLES
    subject,  \* the model that runs
    mcu, host, running, head, edited, tags, software, image, pc, approved,
    moves, builtFrom, calm, reached, probe, rows, images, plugin, listed,
    target, request, automatic, written, board, holds, way, swapped, now,
    latest, edition, cache, asked, version, digest, lookups, whole

-----------------------------------------------------------------------------
\* An MCU that runs Klipper, and one with a vendor's firmware, whose versions
\* are its own.
Klipper == INSTANCE Assessment WITH
    Mcus <- KlipperMcus, Hosts <- KlipperHosts, Top <- 0
Vendor == INSTANCE Assessment WITH
    Mcus <- VendorMcus, Hosts <- VendorHosts, MaxMoves <- VendorMoves

Cartographer == INSTANCE CartographerImage

Beacon == INSTANCE BeaconImage WITH Revision <- BeaconRevision

Foci == INSTANCE FociRelease WITH Top <- Releases

ASSUME Instances ==
    /\ Klipper!Parameters /\ Vendor!Parameters
    /\ Cartographer!Parameters /\ Beacon!Parameters /\ Foci!Parameters

notAssessment == <<probe, rows, images, plugin, listed, target, request, automatic,
    written, board, holds, way, swapped, now, latest, edition, cache, asked,
    version, digest, lookups, whole>>

notCartographerImage == <<mcu, host, running, head, edited, tags, software, image, approved,
    builtFrom, reached, board, holds, way, swapped, now, latest, edition,
    cache, asked, version, digest, lookups, whole>>

notBeaconImage == <<mcu, host, running, head, edited, tags, software, image, approved,
    builtFrom, calm, reached, probe, rows, plugin, listed, automatic,
    written, now, latest, edition, cache, asked, version, digest, lookups,
    whole>>

notFociRelease == <<host, running, head, edited, tags, software, approved, builtFrom, calm,
    reached, probe, rows, images, plugin, listed, request, automatic,
    written, board, holds, way, swapped>>

AssessmentOnly ==
    /\ probe = Unused /\ rows = Unused /\ images = Unused /\ plugin = Unused
    /\ listed = Unused /\ target = Unused /\ request = Unused
    /\ automatic = Unused /\ written = Unused /\ board = Unused
    /\ holds = Unused /\ way = Unused /\ swapped = Unused /\ now = Unused
    /\ latest = Unused /\ edition = Unused /\ cache = Unused
    /\ asked = Unused /\ version = Unused /\ digest = Unused
    /\ lookups = Unused /\ whole = Unused

CartographerImageOnly ==
    /\ mcu = Unused /\ host = Unused /\ running = Unused /\ head = Unused
    /\ edited = Unused /\ tags = Unused /\ software = Unused
    /\ image = Unused /\ approved = Unused /\ builtFrom = Unused
    /\ reached = Unused /\ board = Unused /\ holds = Unused /\ way = Unused
    /\ swapped = Unused /\ now = Unused /\ latest = Unused
    /\ edition = Unused /\ cache = Unused /\ asked = Unused
    /\ version = Unused /\ digest = Unused /\ lookups = Unused
    /\ whole = Unused

BeaconImageOnly ==
    /\ mcu = Unused /\ host = Unused /\ running = Unused /\ head = Unused
    /\ edited = Unused /\ tags = Unused /\ software = Unused
    /\ image = Unused /\ approved = Unused /\ builtFrom = Unused
    /\ calm = Unused /\ reached = Unused /\ probe = Unused /\ rows = Unused
    /\ plugin = Unused /\ listed = Unused /\ automatic = Unused
    /\ written = Unused /\ now = Unused /\ latest = Unused
    /\ edition = Unused /\ cache = Unused /\ asked = Unused
    /\ version = Unused /\ digest = Unused /\ lookups = Unused
    /\ whole = Unused

FociReleaseOnly ==
    /\ host = Unused /\ running = Unused /\ head = Unused /\ edited = Unused
    /\ tags = Unused /\ software = Unused /\ approved = Unused
    /\ builtFrom = Unused /\ calm = Unused /\ reached = Unused
    /\ probe = Unused /\ rows = Unused /\ images = Unused /\ plugin = Unused
    /\ listed = Unused /\ request = Unused /\ automatic = Unused
    /\ written = Unused /\ board = Unused /\ holds = Unused /\ way = Unused
    /\ swapped = Unused

Init ==
    \/ subject = "klipper" /\ Klipper!Init /\ AssessmentOnly
    \/ subject = "vendor" /\ Vendor!Init /\ AssessmentOnly
    \/ subject = "cartographer" /\ Cartographer!Init /\ CartographerImageOnly
    \/ subject = "beacon" /\ Beacon!Init /\ BeaconImageOnly
    \/ subject = "foci" /\ Foci!Init /\ FociReleaseOnly

Next ==
    \/ subject = "klipper" /\ Klipper!Next /\ UNCHANGED <<subject, notAssessment>>
    \/ subject = "vendor" /\ Vendor!Next /\ UNCHANGED <<subject, notAssessment>>
    \/ subject = "cartographer" /\ Cartographer!Next /\ UNCHANGED <<subject, notCartographerImage>>
    \/ subject = "beacon" /\ Beacon!Next /\ UNCHANGED <<subject, notBeaconImage>>
    \/ subject = "foci" /\ Foci!Next /\ UNCHANGED <<subject, notFociRelease>>

vars == <<subject, mcu, host, running, head, edited, tags, software, image, pc, approved,
    moves, builtFrom, calm, reached, probe, rows, images, plugin, listed,
    target, request, automatic, written, board, holds, way, swapped, now,
    latest, edition, cache, asked, version, digest, lookups, whole>>

Spec == Init /\ [][Next]_vars

-----------------------------------------------------------------------------
(* Properties: what the modules state part by part. *)

\* An update reaches its target and then needs no other, whoever assesses it:
\* the agent offers nothing that `update` would not select, what is called
\* current runs the checkout's commit, FOCI's development builds stay as they
\* are, and a Cartographer's target is found again (revisions_match,
\* restart_pending, foci::compare, select_target).
UpdateSettles ==
    /\ subject = "klipper" =>
         /\ Klipper!TypeOK /\ Klipper!UpdateSettles /\ Klipper!AgentAgrees
         /\ Klipper!CurrentIsSameCommit
    /\ subject = "vendor" =>
         Vendor!TypeOK /\ Vendor!UpdateSettles /\ Vendor!DevelopmentStays
    /\ subject = "cartographer" => Cartographer!UpdateSettles

\* No board is written with another board's image, half an image, one that
\* needs a newer plugin or one that was not published with its digest; GitHub
\* is asked at most once per retry interval (check_image, parse_image,
\* download_verified, ReleaseCache).
OnlyItsImage ==
    /\ subject = "cartographer" =>
         Cartographer!TypeOK /\ Cartographer!OnlySuitable /\ Cartographer!PluginKeepsUp
    /\ subject = "beacon" => Beacon!TypeOK /\ Beacon!NeverForAnother
    /\ subject = "foci" => Foci!TypeOK /\ Foci!OnlyPublished /\ Foci!FewLookups

\* No update replaces a vendor's firmware by an older one, and a Cartographer or
\* a Beacon that was not exchanged is left the very version that was approved,
\* whatever is pulled or published meanwhile; a recovery writes the revision
\* that waits, and a failed lookup forgets no release.  A Klipper update is
\* approved for no ancestor of what runs, but builds what the checkout holds by
\* then: where that is another commit, the update is not called reached
\* (downgrade_of, reached_by, read_cartographer_image, read_beacon_image,
\* recovery_image, ReleaseCache).
ApprovedOrReported ==
    [][CASE subject = "klipper" ->
              /\ Klipper!NoAncestorApproved /\ Klipper!ReachedIsApproved
              /\ Klipper!NeverOlder
         [] subject = "vendor" -> Vendor!NeverOlder
         [] subject = "cartographer" ->
              Cartographer!ApprovedIsWritten /\ Cartographer!UpdateKeepsBuild
         [] subject = "beacon" -> Beacon!NeverOlder /\ Beacon!RecoveryIsForIt
         [] subject = "foci" -> Foci!NeverOlder /\ Foci!FailureKeeps]_vars
=============================================================================

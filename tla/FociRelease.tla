------------------------------ MODULE FociRelease ------------------------------
(***************************************************************************)
(* Where FOCI firmware comes from (foci.rs, its part of prebuilt.rs).  The   *)
(* agent keeps the latest release it found on GitHub and asks again only     *)
(* after a while; the command line asks every time.  An update downloads the *)
(* approved release's asset for the board and flavor, checked against the    *)
(* digest published beside it.  Meanwhile releases are published, assets are *)
(* published again or withdrawn, and GitHub or the network fails.            *)
(***************************************************************************)
EXTENDS Integers, FiniteSets

CONSTANTS
    Boards,         \* [board, flavor] of the MCU; a flavor may be unknown
    Top,            \* bound: releases
    Editions,       \* how often an asset may be published
    Reuse, Retry,   \* RELEASE_REUSE and LOOKUP_RETRY, in ticks of the clock
    Last,           \* bound: the clock
    MaxMoves,       \* bound: what is published and fails
    None            \* a model value

VARIABLES
    now, latest,    \* the clock; GitHub's latest release
    edition,        \* what each release's asset holds, None when withdrawn
    cache,          \* the agent's: [at, release, failed], None at first
    asked,          \* what was last told: a release or None
    mcu, version,   \* the MCU's board and flavor, and the version it runs
    pc, target,     \* an update and its approved release
    digest, image,  \* the digest and the image downloaded
    moves,
    \* Only for the properties:
    lookups,        \* lookups of the agent
    whole           \* what the MCU holds was published with its digest

memory == <<cache, asked, lookups>>
update == <<version, pc, target, digest, image, whole>>
vars == <<now, latest, edition, memory, mcu, update, moves>>

\* An image names its release, board, flavor and edition; bytes cut short on
\* the way are no edition.
Asset(release, board, cut) ==
    [release |-> release, mcu |-> board, edition |-> edition[release], cut |-> cut]

\* What an instance gives it.
Parameters ==
    /\ Reuse \in Nat /\ Retry \in Nat /\ 0 < Retry /\ Retry < Reuse
    /\ {Top, Editions, Last, MaxMoves} \subseteq Nat /\ Editions > 0
    /\ None \notin 0..Top /\ None \notin 1..Editions
    /\ None \notin [release : 0..Top, mcu : Boards, edition : 1..Editions, cut : BOOLEAN]
    /\ None \notin [at : 0..Last, release : 0..Top \cup {None}, failed : BOOLEAN]

TypeOK ==
    /\ now \in 0..Last /\ latest \in 0..Top
    /\ edition \in [0..Top -> 1..Editions \cup {None}]
    /\ cache # None =>
         cache.at \in 0..now /\ (cache.failed \/ cache.release \in 0..Top)
    /\ pc \in {"idle", "approved", "checksum", "downloaded", "verified"}
    /\ pc = "idle" <=> target = None
    /\ (pc \in {"downloaded", "verified"}) <=> (image # None)
    /\ version \in 0..Top

-----------------------------------------------------------------------------
(* ReleaseCache. *)

\* A failed renewal keeps the release found before it.
Renewed(found) ==
    IF found # None THEN [at |-> now, release |-> found, failed |-> FALSE]
    ELSE [at |-> now, failed |-> TRUE,
          release |-> IF cache = None THEN None ELSE cache.release]

Due ==
    \/ cache = None
    \/ cache # None /\ now - cache.at >= (IF cache.failed THEN Retry ELSE Reuse)

\* get: the last answer while it is fresh, a lookup after that.
Get ==
    /\ pc = "idle"
    /\ IF Due
       THEN /\ \E found \in {latest, None} : cache' = Renewed(found)
            /\ lookups' = lookups + 1
       ELSE UNCHANGED <<cache, lookups>>
    /\ asked' = cache'.release
    /\ UNCHANGED <<now, latest, edition, mcu, update, moves>>

\* release_for: the command line asks GitHub itself.
LookUp ==
    /\ pc = "idle"
    /\ asked' \in {latest, None}
    /\ UNCHANGED <<now, latest, edition, cache, lookups, mcu, update, moves>>

-----------------------------------------------------------------------------
(* An update. *)

\* compare, is_selected: firmware newer than the release stays, and a build of
\* no published flavor has none.
Approve ==
    /\ pc = "idle" /\ asked # None /\ mcu.flavor # "unknown"
    /\ version <= asked
    /\ pc' = "approved" /\ target' = asked
    /\ UNCHANGED <<now, latest, edition, memory, mcu, version, digest, image,
                   whole, moves>>

\* download_verified: first the digest, then the asset; either may fail.
DownloadChecksum ==
    /\ pc = "approved"
    /\ edition[target] # None
    /\ pc' = "checksum" /\ digest' = Asset(target, mcu, FALSE)
    /\ UNCHANGED <<now, latest, edition, memory, mcu, version, target, image,
                   whole, moves>>

DownloadFirmware ==
    /\ pc = "checksum"
    /\ edition[target] # None
    /\ pc' = "downloaded" /\ \E cut \in BOOLEAN : image' = Asset(target, mcu, cut)
    /\ UNCHANGED <<now, latest, edition, memory, mcu, version, target, digest,
                   whole, moves>>

Abandoned ==
    /\ pc' = "idle" /\ target' = None /\ digest' = None /\ image' = None
    /\ UNCHANGED <<now, latest, edition, memory, mcu, version, whole, moves>>

\* verify_firmware.
Verify ==
    /\ pc = "downloaded" /\ image = digest /\ pc' = "verified"
    /\ UNCHANGED <<now, latest, edition, memory, mcu, version, target, digest,
                   image, whole, moves>>

\* A failed download or a wrong digest ends the update.
Fail ==
    /\ \/ pc \in {"approved", "checksum"}
       \/ pc = "downloaded" /\ image # digest
    /\ Abandoned

Flash ==
    /\ pc = "verified"
    /\ version' = image.release /\ whole' = (image = digest)
    /\ pc' = "idle" /\ target' = None /\ digest' = None /\ image' = None
    /\ UNCHANGED <<now, latest, edition, memory, mcu, moves>>

-----------------------------------------------------------------------------
(* What changes meanwhile. *)

Tick ==
    /\ now < Last /\ now' = now + 1
    /\ UNCHANGED <<latest, edition, memory, mcu, update, moves>>

Moves == moves < MaxMoves /\ moves' = moves + 1

Publish ==
    /\ Moves /\ latest < Top /\ latest' = latest + 1
    /\ UNCHANGED <<now, edition, memory, mcu, update>>

\* A release's asset is published again or withdrawn, or the latest release
\* with it.
Republish ==
    /\ Moves
    /\ \/ \E r \in 0..Top, e \in 1..Editions \cup {None} :
            e # edition[r] /\ edition' = [edition EXCEPT ![r] = e] /\ UNCHANGED latest
       \/ latest > 0 /\ latest' = latest - 1 /\ UNCHANGED edition
    /\ UNCHANGED <<now, memory, mcu, update>>

Steps == Get \/ LookUp \/ Approve \/ DownloadChecksum \/ DownloadFirmware \/ Verify
         \/ Fail \/ Flash
Next == Steps \/ Tick \/ Publish \/ Republish

Init ==
    /\ now = 0 /\ latest \in 0..Top /\ edition = [r \in 0..Top |-> 1]
    /\ cache = None /\ asked = None /\ lookups = 0
    /\ mcu \in Boards /\ version \in 0..Top
    /\ pc = "idle" /\ target = None /\ digest = None /\ image = None
    /\ moves = 0 /\ whole = TRUE

Spec == Init /\ [][Next]_vars

-----------------------------------------------------------------------------
(* Properties. *)

\* A failed lookup never takes a known release from the agent.
FailureKeeps ==
    cache # None /\ cache.release # None => cache'.release # None

\* However often `status` is asked, GitHub is asked at most once in every
\* retry interval, and so stays inside its limit of requests.
FewLookups == lookups <= 1 + now \div Retry

\* Only a whole image is flashed, one that was published with its digest, also
\* when it is published again between the two downloads.
OnlyPublished == whole

\* No update replaces FOCI firmware by an older release: not from an answer
\* that is an hour old, and not when the release is withdrawn.
NeverOlder == version' >= version
=============================================================================

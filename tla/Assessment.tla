------------------------------ MODULE Assessment ------------------------------
(***************************************************************************)
(* What aldis says of one MCU's firmware, and what an update then does.    *)
(* Three callers assess it: `status` and `update` against the Klipper      *)
(* checkout (eligibility.rs), the agent against the Klipper that runs on   *)
(* the host (agent/api.rs).  An update is approved for the target that was *)
(* assessed, builds whatever the checkout holds by then, and afterwards    *)
(* asks whether the MCU runs its target.  Meanwhile the checkout is moved, *)
(* edited and refreshed, and a vendor's image is replaced.                 *)
(***************************************************************************)
EXTENDS Revision, FiniteSets

CONSTANTS
    Commits,        \* commits of the Klipper repository
    Where,          \* the tag and the number of commits that describe each
    Hash,           \* its hash
    Older,          \* pairs of a commit and one of its descendants
    Upstream,       \* the commit the branch's upstream is at
    Mcus,           \* the MCUs considered: [firmware, kconfig]
    Hosts,          \* Moonraker's answers considered
    Minimum,        \* the position of the first version that reports a Kconfig
    None,           \* a model value: nothing, or not known
    Top,            \* bound: prebuilt versions
    MaxMoves        \* bound: changes to the checkout, the host and the image

\* An ancestor's position is before its descendant's, and an abbreviated hash
\* names one commit, as git sees to.
Repository ==
    /\ Where \in [Commits -> [tag : Tag, commits : Nat]]
    /\ Older \subseteq Commits \X Commits /\ Upstream \in Commits
    /\ \A p \in Older : Before(Where[p[1]], Where[p[2]])
    /\ \A c \in Commits : Hash[c] \in Seq(Digits) /\ Len(Hash[c]) = 2
    /\ \A c, d \in Commits : c # d => Hash[c][1] # Hash[d][1]
    /\ NoTag \notin Tag /\ "v" \notin Digits

VARIABLES
    mcu, host,      \* the MCU, and what Moonraker says of its host
    running,        \* the firmware's version as the MCU reports it
    head, edited, tags,  \* the checkout: commit, changed files, tags fetched
    software,       \* the version the host's Klipper was started from
    image,          \* the version of the vendor's image; None when not known
    pc, approved,   \* an update, and the target it was approved for
    moves,
    \* Only for the properties:
    builtFrom,      \* the commit the running firmware was built from
    calm,           \* nothing has moved since the approval
    reached         \* reached_by after the last update

checkout == <<head, edited, tags>>
vars == <<mcu, host, running, checkout, software, image, pc, approved, moves,
          builtFrom, calm, reached>>

\* By what it reports in `app` and its version: "beta" names itself Beacon with
\* a version that is not three numbers, "unnamed" names nothing.
Vendors == {"foci", "beacon", "cartographer"}
Families == {"klipper", "kalico"}
Firmwares == Vendors \cup Families \cup {"beta", "third_party", "unnamed"}
Kconfigs == {"none", "flashable", "unflashable", "unstated"}

\* A vendor's version: a number, and for FOCI whether it is a release build.
Prebuilt == [version : 0..Top, build : {"release", "commits", "dirty"}]

Host == [local : BOOLEAN, unit : BOOLEAN, config : BOOLEAN,
         klippy : {"ready", "startup", "error", "shutdown", "disconnected"},
         print : {"idle", "busy", None}]

Descriptions ==
    {[tag |-> IF named THEN Where[c].tag ELSE NoTag,
      commits |-> IF named THEN Where[c].commits ELSE 0,
      hash |-> SubSeq(Hash[c], 1, digits), dirty |-> changed] :
        c \in Commits, named \in BOOLEAN, changed \in BOOLEAN, digits \in 1..2}

\* git describe, with so many digits of the hash.
Describe(commit, digits) ==
    [tag |-> IF tags THEN Where[commit].tag ELSE NoTag,
     commits |-> IF tags THEN Where[commit].commits ELSE 0,
     hash |-> SubSeq(Hash[commit], 1, digits), dirty |-> edited]

CheckoutRevision == Describe(head, 2)

TypeOK ==
    /\ mcu \in [firmware : Firmwares, kconfig : Kconfigs] /\ host \in Host
    /\ running \in IF mcu.firmware \in Vendors THEN Prebuilt ELSE Descriptions
    /\ head \in Commits /\ edited \in BOOLEAN /\ tags \in BOOLEAN
    /\ software \in Descriptions
    /\ image \in 0..Top \cup {None}
    /\ pc \in {"idle", "approved", "flashed", "verified"}
    /\ approved \in {None} \cup
                     (IF mcu.firmware \in Vendors THEN 0..Top ELSE Descriptions)
    /\ moves \in 0..MaxMoves
    /\ builtFrom \in Commits /\ calm \in BOOLEAN /\ reached \in BOOLEAN \cup {None}
    /\ pc = "verified" <=> reached # None

-----------------------------------------------------------------------------
(* Eligibility and revision of the MCU. *)

\* classify_known_firmware: older than the first version that reports what the
\* build needs.  A version without a tag is not compared.
TooOld ==
    /\ running.tag # NoTag
    /\ Below(Version(running), Version(Minimum[mcu.firmware]))

\* classify_by_embedded_config, family_support.
ByKconfig ==
    CASE mcu.kconfig = "none" -> "unsupported"
      [] mcu.kconfig = "unflashable" -> "unsupported_mcu"
      [] OTHER -> "eligible"

\* classify_mcu, classify_unidentified.
Eligibility ==
    CASE mcu.firmware \in Vendors -> "prebuilt"
      [] mcu.firmware \in {"beta", "third_party"} -> "external"
      [] mcu.firmware \in Families /\ TooOld -> "unsupported"
      [] mcu.firmware \in Families /\ ~TooOld -> ByKconfig
      [] mcu.firmware = "unnamed" -> ByKconfig

\* Targets::compare; foci::compare places release builds only.
ComparePrebuilt(target) ==
    CASE running.version > target -> "newer"
      [] running.version = target /\ running.build = "commits" -> "newer"
      [] running.version = target /\ running.build = "dirty" -> "indeterminate"
      [] running.version = target /\ running.build = "release" -> "current"
      [] running.version < target /\ running.build = "release" -> "update_required"
      [] running.version < target /\ running.build # "release" -> "indeterminate"

\* assess_mcu against a Klipper revision.
RevisionStatus(target) ==
    CASE Eligibility = "eligible" -> Compare(running, target)
      [] Eligibility = "prebuilt" ->
           IF image = None THEN "indeterminate" ELSE ComparePrebuilt(image)
      [] OTHER -> None

\* is_selected; no selection downgrades.
Selected(all, target) ==
    /\ Eligibility \in {"eligible", "prebuilt"}
    /\ Eligibility = "prebuilt" => image # None
    /\ RevisionStatus(target) # "newer"
    /\ all \/ RevisionStatus(target) = "update_required"

-----------------------------------------------------------------------------
(* The agent's assessment. *)

\* Why the host is not updated now, in the order the reasons are looked for.
Reasons == <<"non_local_moonraker", "unsupported_instance", "config_error",
             "klippy_unavailable", "restart_pending", "printing">>

Holds(reason) ==
    CASE reason = "non_local_moonraker" -> ~host.local
      [] reason = "unsupported_instance" -> ~host.unit
      [] reason = "config_error" -> host.config
      [] reason = "klippy_unavailable" -> host.klippy \in {"startup", "disconnected"}
      [] reason = "restart_pending" -> ~Matches(software, CheckoutRevision)
      [] reason = "printing" -> host.klippy = "ready" /\ host.print # "idle"

First(reasons) ==
    LET true == {i \in 1..Len(reasons) : Holds(reasons[i])}
    IN IF true = {} THEN None
       ELSE reasons[CHOOSE i \in true : \A j \in true : i <= j]

\* blocker: the first reason that holds.
Blocker == First(Reasons)

\* The state of an MCU in the agent's `status`.
AgentState ==
    LET revision == RevisionStatus(software) IN
    CASE revision \in {"newer", "current"} -> "current"
      [] revision = "update_required" -> "update_available"
      [] revision = "indeterminate" -> "indeterminate"
      [] revision = None /\ Eligibility = "external" -> "externally_managed"
      [] revision = None /\ Eligibility = "unsupported" -> "unsupported_legacy"
      [] revision = None /\ Eligibility = "unsupported_mcu" -> "unsupported_mcu"

AgentOffers == AgentState = "update_available" /\ Blocker = None

-----------------------------------------------------------------------------
(* What changes meanwhile. *)

Moves ==
    /\ moves < MaxMoves /\ moves' = moves + 1
    /\ calm' = FALSE
    /\ UNCHANGED <<mcu, host, running, pc, approved, builtFrom, reached>>

\* The user checks out a commit, edits files or fetches tags.
MoveCheckout ==
    /\ Moves /\ UNCHANGED <<software, image>>
    /\ \/ head' \in Commits \ {head} /\ UNCHANGED <<edited, tags>>
       \/ edited' = ~edited /\ UNCHANGED <<head, tags>>
       \/ tags' = TRUE /\ ~tags /\ UNCHANGED <<head, edited>>

\* refresh: only a fast-forward, and edited files stay or prevent it.  The
\* fetch may bring the tags.
Refresh ==
    /\ pc = "idle" /\ Moves /\ UNCHANGED <<software, image, edited>>
    /\ head = Upstream \/ <<head, Upstream>> \in Older
    /\ head' = Upstream
    /\ tags' \in {tags, TRUE}

\* The host's Klipper is started again, from what the checkout holds.
RestartHost ==
    /\ Moves /\ UNCHANGED <<checkout, image>>
    /\ software' = CheckoutRevision

\* The vendor publishes an image, or its clone is pulled or lost.
MoveImage ==
    /\ mcu.firmware \in Vendors
    /\ Moves /\ UNCHANGED <<checkout, software>>
    /\ image' \in (0..Top \cup {None}) \ {image}

-----------------------------------------------------------------------------
(* An update. *)

Approve(target) ==
    /\ pc = "idle" /\ pc' = "approved"
    /\ approved' = IF mcu.firmware \in Vendors THEN image ELSE target
    /\ calm' = TRUE /\ reached' = None
    /\ UNCHANGED <<mcu, host, running, checkout, software, image, moves, builtFrom>>

\* `update`, with or without --all or --force.
CliApproves ==
    \E all \in BOOLEAN :
        Selected(all, CheckoutRevision) /\ Approve(CheckoutRevision)

\* The agent's `update`, for an MCU that `status` offers it for.
AgentApproves == AgentOffers /\ Approve(software)

Flashed(commit) ==
    /\ \E digits \in 1..2 : running' = Describe(commit, digits)
    /\ builtFrom' = commit

\* The build takes the checkout as it is, and a prebuilt image only at the
\* version that was approved (prepare_automatic).
Flash ==
    /\ pc = "approved"
    /\ \/ /\ mcu.firmware \notin Vendors
          /\ Flashed(head) /\ pc' = "flashed"
       \/ /\ mcu.firmware \in Vendors /\ image = approved
          /\ running' = [version |-> image, build |-> "release"]
          /\ pc' = "flashed" /\ UNCHANGED builtFrom
       \/ /\ mcu.firmware \in Vendors /\ image # approved
          /\ pc' = "idle" /\ UNCHANGED <<running, builtFrom>>
    /\ UNCHANGED <<mcu, host, checkout, software, image, approved, moves, calm,
                   reached>>

\* Mutant: the MCU is compared with what the checkout holds by then.
VerifyWithCheckout ==
    /\ pc = "flashed" /\ pc' = "verified"
    /\ reached' = IF mcu.firmware \in Vendors
                  THEN running.version = approved /\ running.build = "release"
                  ELSE Matches(running, CheckoutRevision)
    /\ UNCHANGED <<mcu, host, running, checkout, software, image, approved,
                   moves, builtFrom, calm>>

\* reached_by: the MCU is compared with the target it was approved for.
Verify ==
    /\ pc = "flashed" /\ pc' = "verified"
    /\ reached' = IF mcu.firmware \in Vendors
                  THEN running.version = approved /\ running.build = "release"
                  ELSE Matches(running, approved)
    /\ UNCHANGED <<mcu, host, running, checkout, software, image, approved,
                   moves, builtFrom, calm>>

EndRun ==
    /\ pc = "verified" /\ pc' = "idle"
    /\ approved' = None /\ reached' = None
    /\ UNCHANGED <<mcu, host, running, checkout, software, image, moves,
                   builtFrom, calm>>

Update == CliApproves \/ AgentApproves \/ Flash \/ Verify \/ EndRun
Changes == MoveCheckout \/ Refresh \/ RestartHost \/ MoveImage
Next == Update \/ Changes

\* What an instance gives it.
Parameters ==
    /\ Repository /\ Mcus \subseteq [firmware : Firmwares, kconfig : Kconfigs]
    /\ Hosts \subseteq Host /\ Top \in Nat /\ MaxMoves \in Nat
    /\ None \notin 0..Top /\ None \notin BOOLEAN /\ None \notin Verdict
    /\ \A i \in 1..Len(Reasons) : Reasons[i] # None

\* Some clean build runs; vendors' versions do not come from the checkout.
Init ==
    /\ mcu \in Mcus /\ host \in Hosts
    /\ head \in Commits /\ edited = FALSE /\ tags \in BOOLEAN
    /\ builtFrom \in Commits
    /\ running \in IF mcu.firmware \in Vendors
                   THEN {v \in Prebuilt : v.build = "release" \/ mcu.firmware = "foci"}
                   ELSE {d \in Descriptions :
                           /\ d.hash = SubSeq(Hash[builtFrom], 1, Len(d.hash))
                           /\ d.tag = NoTag \/ [tag |-> d.tag, commits |-> d.commits]
                                               = Where[builtFrom]}
    /\ software = CheckoutRevision
    /\ image \in IF mcu.firmware \in Vendors THEN 0..Top \cup {None} ELSE {None}
    /\ pc = "idle" /\ approved = None /\ moves = 0 /\ calm = TRUE
    /\ reached = None

Spec == Init /\ [][Next]_vars

-----------------------------------------------------------------------------
(* Properties. *)

Klipper == mcu.firmware \notin Vendors

\* Whether the abbreviated hash of a revision is this commit's.
IsOf(revision, commit) == revision.hash = SubSeq(Hash[commit], 1, Len(revision.hash))

\* No update is approved for an ancestor of the commit that the MCU's firmware
\* was built from, also with --all, where both revisions name a tag
\* (compare_revisions, downgrade_of, AgentState).
NoAncestorApproved ==
    Klipper /\ pc = "idle" /\ pc' = "approved" /\ NoTag \notin {running.tag, approved'.tag} =>
        \A c \in Commits : IsOf(approved', c) => <<c, builtFrom>> \notin Older

\* The build takes what the checkout holds by then, which may be another commit
\* than the approved one and an older one: such an update is not called
\* reached.  One that is left the commit it was approved for, clean or not as
\* approved (reached_by).
ReachedIsApproved ==
    Klipper /\ pc = "flashed" /\ pc' = "verified" /\ reached' =>
        IsOf(approved, builtFrom) /\ running.dirty = approved.dirty

\* A vendor's firmware is never replaced by an older version.  Klipper's is not
\* by an ancestor's build as long as the checkout was left alone since the
\* approval and its revision and the MCU's name a tag.
NeverOlder ==
    pc = "approved" /\ pc' = "flashed" =>
        \/ Klipper /\ (~calm \/ ~tags \/ running.tag = NoTag)
        \/ Klipper /\ <<builtFrom', builtFrom>> \notin Older
        \/ ~Klipper /\ running'.version >= running.version

\* An update of a checkout that was left alone reaches its target, and then
\* needs no other: status, `update` and the agent all call it current, however
\* long the hash is that either side abbreviates to (revisions_match).
UpdateSettles ==
    pc = "verified" /\ calm /\ (Klipper => approved = CheckoutRevision) =>
        /\ reached
        /\ ~Selected(FALSE, CheckoutRevision)

\* What the agent offers, `update` would select too: the host it compares with
\* and the checkout `update` compares with are the same commit by then
\* (restart_pending).
AgentAgrees == AgentOffers => Selected(FALSE, CheckoutRevision)

\* An MCU that is called current runs a build of the checkout's commit, clean
\* exactly when the checkout is (split_dirty_suffix).
CurrentIsSameCommit ==
    Klipper /\ RevisionStatus(CheckoutRevision) = "current" =>
        builtFrom = head /\ running.dirty = edited

\* FOCI firmware that is no release build is not replaced by the release it
\* was made after, nor offered it (foci::compare).
DevelopmentStays ==
    mcu.firmware = "foci" /\ running.build # "release" =>
        ~Selected(FALSE, CheckoutRevision) /\ ~AgentOffers
=============================================================================

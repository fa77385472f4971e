------------------------------- MODULE Revision -------------------------------
(***************************************************************************)
(* Revisions as `git describe --tags --long --always --dirty` writes them  *)
(* and how aldis compares two of them (eligibility.rs).  A revision is the *)
(* latest tag's three numbers, the commits since, the abbreviated hash and *)
(* whether tracked files were changed; without a tag it is the hash alone. *)
(***************************************************************************)
EXTENDS Integers, Sequences

CONSTANTS NoTag, Digits   \* a revision without a tag; the digits of a hash

Tag == [major : Nat, minor : Nat, patch : Nat]

Revision == [tag : Tag \cup {NoTag}, commits : Nat, hash : Seq(Digits),
             dirty : BOOLEAN]

Tagged == {r \in Revision : r.tag # NoTag}

-----------------------------------------------------------------------------
(* The order of versions. *)

\* klipper_version: commits after a tag are work towards the next patch
\* release, of which they are a pre-release; the fourth number tells a
\* pre-release (0) from a release (1) and the fifth orders pre-releases.
Version(r) ==
    IF r.commits = 0
    THEN [major |-> r.tag.major, minor |-> r.tag.minor, patch |-> r.tag.patch,
          release |-> 1, dev |-> 0]
    ELSE [major |-> r.tag.major, minor |-> r.tag.minor,
          patch |-> r.tag.patch + 1, release |-> 0, dev |-> r.commits]

\* semver's order.
Below(v, w) ==
    \/ v.major < w.major
    \/ v.major = w.major /\ v.minor < w.minor
    \/ v.major = w.major /\ v.minor = w.minor /\ v.patch < w.patch
    \/ /\ v.major = w.major /\ v.minor = w.minor /\ v.patch = w.patch
       /\ v.release < w.release
    \/ /\ v.major = w.major /\ v.minor = w.minor /\ v.patch = w.patch
       /\ v.release = w.release /\ v.dev < w.dev

-----------------------------------------------------------------------------
(* The same revision. *)

\* What stands before the dirty marker, cut at the numbers' and digits' ends.
\* The build time and the host name a dirty build appends are cut off.
Base(r) == (IF r.tag = NoTag THEN <<>>
            ELSE <<"v", r.tag.major, r.tag.minor, r.tag.patch, r.commits>>) \o r.hash

StartsWith(s, t) == Len(t) <= Len(s) /\ \A i \in 1..Len(t) : s[i] = t[i]

\* Mutant: a hash of another length is another commit.
MatchesExactly(running, selected) ==
    /\ running.dirty = selected.dirty
    /\ Base(running) = Base(selected)

\* revisions_match: hashes may be abbreviated to different lengths.
Matches(running, selected) ==
    /\ running.dirty = selected.dirty
    /\ \/ StartsWith(Base(selected), Base(running))
       \/ StartsWith(Base(running), Base(selected))

-----------------------------------------------------------------------------
(* compare_versions and compare_revisions. *)

Verdict == {"current", "update_required", "newer", "indeterminate"}

CompareVersions(running, target) ==
    IF Below(running, target) THEN "update_required"
    ELSE IF Below(target, running) THEN "newer" ELSE "current"

\* The same commit is current; another one at the same position, or a revision
\* with no tag, is an update.
IsNewer(running, selected) ==
    /\ running.tag # NoTag /\ selected.tag # NoTag
    /\ CompareVersions(Version(running), Version(selected)) = "newer"

Compare(running, selected) ==
    IF Matches(running, selected) THEN "current"
    ELSE IF IsNewer(running, selected) THEN "newer" ELSE "update_required"

-----------------------------------------------------------------------------
(* What the order stands for: the tags, and the commits since the latest.  *)

Before(r, s) ==
    \/ r.tag.major < s.tag.major
    \/ r.tag.major = s.tag.major /\ r.tag.minor < s.tag.minor
    \/ /\ r.tag.major = s.tag.major /\ r.tag.minor = s.tag.minor
       /\ r.tag.patch < s.tag.patch
    \/ r.tag = s.tag /\ r.commits < s.commits
=============================================================================

----------------------------- MODULE SelfUpdate -----------------------------
(***************************************************************************)
(* aldis self-update (self_update_command.rs, self_update.rs): look for a  *)
(* newer release, download and verify its archive, replace the installed   *)
(* binary by a rename and restart the agent onto it, while releases are    *)
(* published, the agent is started and stopped by others, and commands are *)
(* killed.                                                                 *)
(*                                                                         *)
(* Nothing serializes self-updates: the update lock is not taken, and all  *)
(* stage the new binary under the same name, `.aldis.new`.  A version is a *)
(* number; 0 stands for a tag that is not a semantic version.              *)
(***************************************************************************)
EXTENDS Naturals

CONSTANTS
    Updaters,   \* self-update commands
    Files,      \* bound: inodes of binaries
    Installed,  \* the inode of the binary installed at first
    Newest,     \* bound: releases published
    NoFile,
    MaxKills    \* bound: self-updates killed

\* What an instance gives them.
Parameters ==
    /\ Installed \in Files /\ NoFile \notin Files
    /\ Newest \in Nat \ {0} /\ MaxKills \in Nat

VARIABLES
    exe,       \* the inode the installed path names
    staged,    \* the inode .aldis.new names
    binary,    \* what each inode holds
    lastOpen,  \* who truncated an inode last
    latest,    \* the tag GitHub reports
    at,        \* where each self-update is
    tag,       \* the release it installs
    archive,   \* what it downloaded
    writing,   \* the inode its fs::copy writes
    before,    \* history: the inode installed when it began
    agent,     \* the agent service's unit
    kills

disk == <<exe, staged, binary, lastOpen>>
updater == <<at, tag, archive, writing, before>>
vars == <<disk, latest, updater, agent, kills>>

Versions == 1..Newest

\* `whole`: one complete image, not truncated, short or of two releases;
\* `listed`: its archive's digest is in the release's SHA256SUMS.
Binary == [version : Versions, whole : BOOLEAN, listed : BOOLEAN,
           executable : BOOLEAN]

Steps == {"check", "manifest", "archive", "verify", "extract", "stage",
          "copy", "mode", "rename", "agent", "restart"}
Ends == {"current", "newer", "error", "restarted", "not_running",
         "not_restarted", "killed"}

Units == {"absent", "inactive", "active", "failed"}

TypeOK ==
    /\ exe \in Files /\ staged \in Files \cup {NoFile} /\ exe # staged
    /\ binary \in [Files -> Binary]
    /\ lastOpen \in [Files -> Updaters \cup {NoFile}]
    /\ latest \in 0..Newest
    /\ at \in [Updaters -> {"idle"} \cup Steps \cup Ends]
    /\ tag \in [Updaters -> 0..Newest]
    /\ archive \in [Updaters -> {"none", "listed", "other"}]
    /\ writing \in [Updaters -> Files \cup {NoFile}]
    /\ before \in [Updaters -> Files]
    /\ agent \in [unit : Units, version : Versions]
    /\ kills \in 0..MaxKills

Goto(u, l) == at' = [at EXCEPT ![u] = l]

\* Any of the calls of step `s` fails.
Fails(u, s) ==
    /\ at[u] = s /\ Goto(u, "error")
    /\ UNCHANGED <<disk, latest, tag, archive, writing, before, agent, kills>>

-----------------------------------------------------------------------------
(* run_self_update up to the verified binary. *)

\* CARGO_PKG_VERSION is the version of the binary that was started.
Begin(u) ==
    /\ at[u] = "idle"
    /\ Goto(u, "check")
    /\ before' = [before EXCEPT ![u] = exe]
    /\ UNCHANGED <<disk, latest, tag, archive, writing, agent, kills>>

Current(u) == binary[before[u]].version

\* What cannot be parsed is not known to be newer.
IsUpToDate(u, version) == version = 0 \/ Current(u) >= version

\* `--check` only reports.
CheckRelease(u) ==
    /\ at[u] = "check"
    /\ \/ IsUpToDate(u, latest) /\ Goto(u, "current") /\ UNCHANGED tag
       \/ ~IsUpToDate(u, latest) /\ Goto(u, "newer") /\ UNCHANGED tag
       \/ /\ ~IsUpToDate(u, latest) /\ Goto(u, "manifest")
          /\ tag' = [tag EXCEPT ![u] = latest]
    /\ UNCHANGED <<disk, latest, archive, writing, before, agent, kills>>

\* The manifest comes first and has to list the archive.
FetchManifest(u) ==
    /\ at[u] = "manifest" /\ Goto(u, "archive")
    /\ UNCHANGED <<disk, latest, tag, archive, writing, before, agent, kills>>

FetchArchive(u) ==
    /\ at[u] = "archive" /\ Goto(u, "verify")
    /\ \E content \in {"listed", "other"} :
         archive' = [archive EXCEPT ![u] = content]
    /\ UNCHANGED <<disk, latest, tag, writing, before, agent, kills>>

VerifyArchive(u) ==
    /\ at[u] = "verify"
    /\ Goto(u, IF archive[u] = "listed" THEN "extract" ELSE "error")
    /\ UNCHANGED <<disk, latest, tag, archive, writing, before, agent, kills>>

\* tar, in a directory of this command's own.
Extract(u) ==
    /\ at[u] = "extract" /\ Goto(u, "stage")
    /\ UNCHANGED <<disk, latest, tag, archive, writing, before, agent, kills>>

-----------------------------------------------------------------------------
(* install_binary. *)

Unused == {f \in Files \ {exe, staged} :
             \A u \in Updaters : f \notin {writing[u], before[u]}}

\* Mutant: copied over the installed binary.
StageInPlace(u) ==
    /\ at[u] = "stage" /\ Goto(u, "copy")
    /\ writing' = [writing EXCEPT ![u] = exe]
    /\ binary' = [binary EXCEPT ![exe].whole = FALSE]
    /\ UNCHANGED <<exe, staged, lastOpen, latest, tag, archive, before, agent,
                   kills>>

\* fs::copy opens `.aldis.new` with O_CREAT and O_TRUNC.
Stage(u) ==
    /\ at[u] = "stage" /\ Goto(u, "copy")
    /\ staged = NoFile => Unused # {}
    /\ LET f == IF staged # NoFile THEN staged
                ELSE CHOOSE g \in Unused : TRUE
       IN  /\ staged' = f
           /\ writing' = [writing EXCEPT ![u] = f]
           /\ lastOpen' = [lastOpen EXCEPT ![f] = u]
           /\ binary' = [binary EXCEPT ![f] =
                [version |-> tag[u], whole |-> FALSE,
                 listed |-> archive[u] = "listed", executable |-> FALSE]]
    /\ UNCHANGED <<exe, latest, tag, archive, before, agent, kills>>

\* The last byte is written: the image is complete, unless another copy
\* truncated it on the way and has not written it again, or wrote another.
Copy(u) ==
    /\ at[u] = "copy" /\ Goto(u, "mode")
    /\ LET f == writing[u] IN
         binary' = [binary EXCEPT ![f].version = tag[u],
                                  ![f].whole = \/ lastOpen[f] = u
                                               \/ @ /\ binary[f].version = tag[u],
                                  ![f].listed = archive[u] = "listed"]
    /\ writing' = [writing EXCEPT ![u] = NoFile]
    /\ UNCHANGED <<exe, staged, lastOpen, latest, tag, archive, before, agent,
                   kills>>

\* metadata and set_permissions by path: another command may have renamed it.
MarkExecutable(u) ==
    /\ at[u] = "mode"
    /\ IF staged = NoFile
       THEN Goto(u, "error") /\ UNCHANGED binary
       ELSE Goto(u, "rename")
            /\ binary' = [binary EXCEPT ![staged].executable = TRUE]
    /\ UNCHANGED <<exe, staged, lastOpen, latest, tag, archive, writing, before,
                   agent, kills>>

Rename(u) ==
    /\ at[u] = "rename"
    /\ IF staged = NoFile
       THEN Goto(u, "error") /\ UNCHANGED <<exe, staged>>
       ELSE Goto(u, "agent") /\ exe' = staged /\ staged' = NoFile
    /\ UNCHANGED <<binary, lastOpen, latest, tag, archive, writing, before,
                   agent, kills>>

-----------------------------------------------------------------------------
(* restart_agent_if_running. *)

\* A status that is none of systemd's words, or none at all, decides nothing.
AskAgent(u) ==
    /\ at[u] = "agent"
    /\ \/ agent.unit = "absent" /\ Goto(u, "not_running")
       \/ agent.unit \in {"inactive", "failed"} /\ Goto(u, "not_running")
       \/ agent.unit = "active" /\ Goto(u, "restart")
       \/ agent.unit # "absent" /\ Goto(u, "not_restarted")
    /\ UNCHANGED <<disk, latest, tag, archive, writing, before, agent, kills>>

Loaded == IF binary[exe].whole /\ binary[exe].executable
          THEN [unit |-> "active", version |-> binary[exe].version]
          ELSE [agent EXCEPT !.unit = "failed"]

\* systemctl restart, which starts a unit that stopped meanwhile.
RestartAgent(u) ==
    /\ at[u] = "restart"
    /\ \/ agent.unit # "absent" /\ Goto(u, "restarted") /\ agent' = Loaded
       \/ Goto(u, "not_restarted") /\ UNCHANGED agent
    /\ UNCHANGED <<disk, latest, tag, archive, writing, before, kills>>

-----------------------------------------------------------------------------
(* The rest of the host. *)

\* A newer release, or one whose tag is not a version.
Publish ==
    /\ latest' \in {v \in 0..Newest : v > latest \/ v = 0} /\ latest' # latest
    /\ UNCHANGED <<disk, updater, agent, kills>>

StartAgent ==
    /\ agent.unit \in {"inactive", "failed"}
    /\ agent' = Loaded /\ agent' # agent
    /\ UNCHANGED <<disk, latest, updater, kills>>

StopAgent ==
    /\ agent.unit = "active"
    /\ agent' = [agent EXCEPT !.unit = "inactive"]
    /\ UNCHANGED <<disk, latest, updater, kills>>

\* What fs::copy had written so far stays.
Kill(u) ==
    /\ at[u] \in Steps /\ kills < MaxKills
    /\ kills' = kills + 1
    /\ Goto(u, "killed") /\ writing' = [writing EXCEPT ![u] = NoFile]
    /\ UNCHANGED <<disk, latest, tag, archive, before, agent>>

\* The disk is full in the middle of fs::copy.
CopyFails(u) ==
    /\ at[u] = "copy" /\ Goto(u, "error")
    /\ writing' = [writing EXCEPT ![u] = NoFile]
    /\ UNCHANGED <<disk, latest, tag, archive, before, agent, kills>>

\* The command is run again.
Again(u) ==
    /\ at[u] \in Ends /\ Goto(u, "idle")
    /\ tag' = [tag EXCEPT ![u] = 0] /\ archive' = [archive EXCEPT ![u] = "none"]
    /\ UNCHANGED <<disk, latest, writing, before, agent, kills>>

Init ==
    /\ exe = Installed /\ staged = NoFile
    /\ binary = [f \in Files |-> [version |-> 1, whole |-> TRUE,
                                  listed |-> TRUE, executable |-> TRUE]]
    /\ lastOpen = [f \in Files |-> NoFile]
    /\ latest = 1
    /\ at = [u \in Updaters |-> "idle"]
    /\ tag = [u \in Updaters |-> 0]
    /\ archive = [u \in Updaters |-> "none"]
    /\ writing = [u \in Updaters |-> NoFile]
    /\ before = [u \in Updaters |-> Installed]
    /\ agent \in [unit : {"absent", "inactive", "active"}, version : {1}]
    /\ kills = 0

Run(u) ==
    \/ \E s \in {"check", "manifest", "archive", "extract", "stage", "mode",
                 "rename"} : Fails(u, s)
    \/ CheckRelease(u) \/ FetchManifest(u) \/ FetchArchive(u)
    \/ VerifyArchive(u) \/ Extract(u) \/ Stage(u) \/ Copy(u) \/ CopyFails(u)
    \/ MarkExecutable(u) \/ Rename(u) \/ AskAgent(u) \/ RestartAgent(u)

Next ==
    \/ \E u \in Updaters : Begin(u) \/ Run(u) \/ Kill(u) \/ Again(u)
    \/ Publish \/ StartAgent \/ StopAgent

Spec == Init /\ [][Next]_vars

-----------------------------------------------------------------------------
(* Properties. *)

\* "Atomically replaces current_exe" (self_update.rs:331): whatever fails or
\* is killed, the installed path names one complete, executable image.
InstalledIsWhole == binary[exe].whole /\ binary[exe].executable

\* README.md:106: the archive's digest must match, or nothing is installed.
InstalledIsListed == binary[exe].listed

\* A self-update that failed, wherever it did, or that is not past its rename
\* leaves the binary that was installed when it began.
FailureKeepsBinary ==
    \A u \in Updaters :
      at[u] \in {"current", "newer", "error"} \cup (Steps \ {"agent", "restart"})
        => exe = before[u]

\* Replacing the binary always takes the host to a later release.
OnlyUpgrades == exe' # exe => binary'[exe'].version > binary[exe].version

\* A self-update ends an agent, and a run in it, only for a newer binary than
\* the one that agent would have been restarted onto when it began.
RestartsForNewer ==
    \A u \in Updaters : at[u] = "restart" /\ at'[u] = "restarted" =>
        binary[exe].version > Current(u)

\* An agent that a self-update says it restarted, or found not running, never
\* runs an older binary than the one it installed.
ToldIsLoaded ==
    \A u \in Updaters :
      at[u] \in {"restarted", "not_running"} /\ agent.unit = "active" =>
        agent.version >= tag[u]
=============================================================================

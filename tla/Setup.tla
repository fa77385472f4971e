------------------------------- MODULE Setup -------------------------------
(***************************************************************************)
(* `sudo aldis setup`, with `--agent` and `--agent --remove` (setup.rs):   *)
(* udev rules, the sudoers policy, the agent's systemd unit and Moonraker's*)
(* list of services, installed in that order by calls each of which may    *)
(* fail and between any two of which the process may die.  Running it      *)
(* again is the only repair, so every step finds what an earlier setup     *)
(* left, whole or not.                                                     *)
(*                                                                         *)
(* A file's contents are reduced to what they were rendered from: the      *)
(* release of aldis, the account.                                          *)
(***************************************************************************)
EXTENDS Naturals

CONSTANTS
    None, Torn, \* no contents; a write that was cut off
    Users,      \* accounts that run setup with sudo
    Urls,       \* the Moonrakers of the command line and the configuration
    MaxRelease  \* bound: releases of aldis

VARIABLES
    release,            \* the aldis that is installed
    rules,              \* the udev rules file
    loaded, applied,    \* the rules udevd has read, and gave the devices
    policy, protected,  \* the sudoers file, and whether its mode is 0440
    unit,               \* aldis.service, by its account
    read, enabled, running, \* what systemd has read, starts, runs
    lists,              \* whether each moonraker.asvc lists aldis, if it exists
    pc, kind, account, left, skipped, \* the command
    outcome

udev == <<rules, loaded, applied>>
sudo == <<policy, protected>>
systemd == <<read, enabled, running>>
host == <<release, udev, sudo, unit, systemd, lists>>
command == <<kind, account>>
vars == <<host, pc, command, left, skipped, outcome>>

\* What setup is given.
Parameters == MaxRelease \in Nat \ {0} /\ None \notin Users /\ Torn # None

Releases == 1..MaxRelease
Contents == Releases \cup {None, Torn}
Units == Users \cup {None, Torn}
Policies == [account : Users, release : Releases]

TypeOK ==
    /\ release \in Releases
    /\ rules \in Contents /\ loaded \in Contents /\ applied \in Contents
    /\ policy \in Policies \cup {None, Torn} /\ protected \in BOOLEAN
    /\ unit \in Units /\ read \in Units /\ running \in Units
    /\ enabled \in BOOLEAN
    /\ lists \in [Urls -> BOOLEAN \cup {None}]
    /\ pc \in {"idle", "rules", "policy", "reload", "trigger", "unit",
               "daemon-reload", "enable", "restart", "list", "disable",
               "erase", "forget", "unlist"}
    /\ kind \in {"setup", "agent", "remove", None}
    /\ account \in Users \cup {None}
    /\ left \subseteq Urls /\ skipped \subseteq Urls
    /\ outcome \in {"none", "failed", "installed", "removed"}

Init ==
    /\ release = 1
    /\ rules \in {None, Torn} /\ loaded = None /\ applied = None
    /\ policy = None /\ protected = FALSE
    /\ unit = None /\ read = None /\ enabled = FALSE /\ running = None
    /\ lists \in [Urls -> {None, FALSE}]
    /\ pc = "idle" /\ kind = None /\ account = None
    /\ left = {} /\ skipped = {} /\ outcome = "none"

Goto(step) == pc' = step /\ UNCHANGED outcome
End(result) == pc' = "idle" /\ outcome' = result

\* An account other than SUDO_USER's own, or a configuration that cannot be
\* read, ends it before the first step.
Begin ==
    /\ pc = "idle"
    /\ account' \in Users /\ kind' \in {"setup", "agent", "remove"}
    /\ pc' = IF kind' # "remove" THEN "rules"
             ELSE IF unit = None THEN "unlist" ELSE "disable"
    /\ left' = Urls /\ skipped' = {} /\ outcome' = "none"
    /\ UNCHANGED host

\* Any call fails, or the process is killed before it.
Fail ==
    /\ pc # "idle" /\ End("failed")
    /\ UNCHANGED <<host, command, left, skipped>>

-----------------------------------------------------------------------------
(* install_setup. *)

\* Mutant: a rules file that exists is taken for installed.
InstallRulesOnce ==
    /\ pc = "rules" /\ Goto("policy")
    /\ rules' = IF rules = None THEN release ELSE rules
    /\ UNCHANGED <<release, loaded, applied, sudo, unit, systemd, lists,
                   command, left, skipped>>

\* install_file: written in place, so a write that is cut off tears it.
InstallRules ==
    /\ pc = "rules"
    /\ \/ rules' = release /\ Goto("policy")
       \/ rules # release /\ rules' = Torn /\ End("failed")
    /\ UNCHANGED <<release, loaded, applied, sudo, unit, systemd, lists,
                   command, left, skipped>>

\* Staged with its mode, checked by visudo, renamed; one that is current only
\* gets its mode.
InstallPolicy ==
    /\ pc = "policy" /\ Goto("reload")
    /\ policy' = [account |-> account, release |-> release] /\ protected' = TRUE
    /\ UNCHANGED <<release, udev, unit, systemd, lists, command, left, skipped>>

ReloadRules ==
    /\ pc = "reload" /\ loaded' = rules /\ Goto("trigger")
    /\ UNCHANGED <<release, rules, applied, sudo, unit, systemd, lists,
                   command, left, skipped>>

Trigger ==
    /\ pc = "trigger" /\ applied' = loaded
    /\ IF kind = "agent" THEN Goto("unit") ELSE End("installed")
    /\ UNCHANGED <<release, rules, loaded, sudo, unit, systemd, lists,
                   command, left, skipped>>

-----------------------------------------------------------------------------
(* install_agent. *)

InstallUnit ==
    /\ pc = "unit"
    /\ \/ unit' = account /\ Goto("daemon-reload")
       \/ unit # account /\ unit' = Torn /\ End("failed")
    /\ UNCHANGED <<release, udev, sudo, systemd, lists, command, left, skipped>>

DaemonReload ==
    /\ pc = "daemon-reload" /\ read' = unit /\ Goto("enable")
    /\ UNCHANGED <<release, udev, sudo, unit, enabled, running, lists,
                   command, left, skipped>>

Enable ==
    /\ pc = "enable" /\ enabled' = TRUE /\ Goto("restart")
    /\ UNCHANGED <<release, udev, sudo, unit, read, running, lists,
                   command, left, skipped>>

Restart ==
    /\ pc = "restart" /\ running' = read /\ Goto("list")
    /\ UNCHANGED <<release, udev, sudo, unit, read, enabled, lists,
                   command, left, skipped>>

\* moonraker_asvc of each Moonraker: it may not answer, and need not have one.
\* The list is written in place, and loses its lines when that is cut off.
Edit(step, listed) ==
    /\ pc = step
    /\ \E url \in left :
         \/ /\ skipped' = skipped \cup {url} /\ UNCHANGED lists
            /\ left' = left \ {url} /\ Goto(step)
         \/ /\ lists[url] # None /\ UNCHANGED skipped
            /\ left' = left \ {url}
            /\ \/ lists' = [lists EXCEPT ![url] = listed] /\ Goto(step)
               \/ /\ lists[url] # listed
                  /\ lists' = [lists EXCEPT ![url] = FALSE] /\ End("failed")
    /\ UNCHANGED <<release, udev, sudo, unit, systemd, command>>

\* with_service, without_service.
List == Edit("list", TRUE)
Unlist == Edit("unlist", FALSE)

Listed ==
    /\ pc \in {"list", "unlist"} /\ left = {}
    /\ End(IF pc = "list" THEN "installed" ELSE "removed")
    /\ UNCHANGED <<host, command, left, skipped>>

-----------------------------------------------------------------------------
(* remove_agent. *)

Disable ==
    /\ pc = "disable" /\ enabled' = FALSE /\ running' = None /\ Goto("erase")
    /\ UNCHANGED <<release, udev, sudo, unit, read, lists, command, left, skipped>>

Erase ==
    /\ pc = "erase" /\ unit' = None /\ Goto("forget")
    /\ UNCHANGED <<release, udev, sudo, systemd, lists, command, left, skipped>>

Forget ==
    /\ pc = "forget" /\ read' = unit /\ Goto("unlist")
    /\ UNCHANGED <<release, udev, sudo, unit, enabled, running, lists,
                   command, left, skipped>>

-----------------------------------------------------------------------------
(* The host. *)

\* Another release takes the binary's place; nothing is claimed of it.
Upgrade ==
    /\ pc = "idle" /\ release < MaxRelease
    /\ release' = release + 1 /\ outcome' = "none"
    /\ UNCHANGED <<udev, sudo, unit, systemd, lists, pc, command, left, skipped>>

\* The host is rebooted: everything is read from its files.
Boot ==
    /\ pc' = "idle" /\ outcome' = IF pc = "idle" THEN outcome ELSE "failed"
    /\ loaded' = rules /\ applied' = rules /\ read' = unit
    /\ running' = IF enabled /\ unit \in Users THEN unit ELSE None
    /\ UNCHANGED <<release, rules, sudo, unit, enabled, lists, command, left, skipped>>

Next ==
    \/ Begin \/ Fail \/ InstallRules \/ InstallPolicy \/ ReloadRules \/ Trigger
    \/ InstallUnit \/ DaemonReload \/ Enable \/ Restart \/ List \/ Unlist
    \/ Listed \/ Disable \/ Erase \/ Forget \/ Upgrade \/ Boot

Spec == Init /\ [][Next]_vars
-----------------------------------------------------------------------------
(* What a setup promises, whatever earlier ones left. *)

\* The policy is always one that visudo accepted and protected: a torn file
\* in /etc/sudoers.d takes sudo from everybody (install_sudoers_policy).
PolicyIsWhole == policy # None => policy \in Policies /\ protected

\* A setup that succeeded installed this release's rules, gave them to the
\* devices, and its account the policy (install_setup).
InstalledIsCurrent ==
    outcome = "installed" =>
        /\ rules = release /\ applied = release
        /\ policy = [account |-> account, release |-> release]

\* After `setup --agent` the agent runs the unit that was installed, for the
\* account that has the policy, and does so again after a reboot; every
\* Moonraker that could be asked lists it (install_agent).
AgentRuns ==
    outcome = "installed" /\ kind = "agent" =>
        /\ running = policy.account /\ unit = running /\ enabled
        /\ \A url \in Urls \ skipped : lists[url] = TRUE

\* After `--remove` no agent runs, starts with the host or is listed by a
\* Moonraker that could be asked (remove_agent).
RemovedStaysOut ==
    outcome = "removed" =>
        /\ running = None /\ ~enabled /\ unit = None
        /\ \A url \in Urls \ skipped : lists[url] = FALSE
=============================================================================

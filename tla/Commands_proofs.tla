-------------------------- MODULE Commands_proofs --------------------------
(***************************************************************************)
(* Proofs about Commands, one section per command, each with an invariant  *)
(* that every step of its model preserves: a setup repairs what an earlier *)
(* one left, a bridge is flashed only when the printers on its bus were    *)
(* idle, an explicit flash is a run as agreed, a lone self-update replaces *)
(* the binary atomically, the lock file is the abstract lock, and a reboot *)
(* tells boards what it asked.                                             *)
(***************************************************************************)
EXTENDS Commands, WellFoundedInduction, FiniteSetTheorems, SequenceTheorems, TLAPS

-----------------------------------------------------------------------------
(* Setup. *)

\* What an install has finished, by the step that it is at.
Policied == {"reload", "trigger", "unit", "daemon-reload", "enable", "restart", "list"}
Triggered == {"unit", "daemon-reload", "enable", "restart", "list"}

Installing ==
    /\ pc \in Policied \cup {"policy"} => rules = release
    /\ pc \in Policied => policy = [account |-> account, release |-> release]
    /\ pc \in Policied \ {"reload"} => loaded = release
    /\ pc \in Triggered => applied = release /\ kind = "agent"
    /\ pc \in Triggered \ {"unit"} => unit = account
    /\ pc \in {"enable", "restart", "list"} => read = account
    /\ pc \in {"restart", "list"} => enabled
    /\ pc = "list" => /\ running = account
                      /\ \A url \in Urls \ (left \cup skipped) : lists[url] = TRUE

\* What a removal has.
Removing ==
    /\ pc = "erase" => ~enabled /\ running = None
    /\ pc \in {"forget", "unlist"} => unit = None
    /\ pc = "unlist" => \A url \in Urls \ (left \cup skipped) : lists[url] = FALSE

\* A setup that succeeded left everything in use, also for the next boot; no
\* half of a policy was ever installed, and without a unit nothing runs.
SetupInv ==
    /\ SetUp!TypeOK /\ Installing /\ Removing
    /\ pc # "idle" => account \in Users /\ outcome = "none"
    /\ pc \notin {"idle", "list", "unlist"} => left = Urls
    /\ SetUp!PolicyIsWhole /\ SetUp!InstalledIsCurrent /\ SetUp!RemovedStaysOut
    /\ outcome = "installed" => account \in Users
    /\ outcome = "installed" /\ kind = "agent" =>
         /\ running = account /\ unit = account /\ enabled
         /\ \A url \in Urls \ skipped : lists[url] = TRUE
    /\ unit = None => ~enabled /\ running = None

\* A host before its first setup.
LEMMA SetupInit ==
  ASSUME SetUp!Init
  PROVE  SetupInv
<1>1. release \in SetUp!Releases
  BY Instances DEF SetUp!Init, SetUp!Parameters, SetUp!Releases
<1>2. lists \in [Urls -> BOOLEAN \cup {None}]
  <2>1. {None, FALSE} \subseteq BOOLEAN \cup {None}
    OBVIOUS
  <2> QED
    BY <2>1 DEF SetUp!Init
<1>3. SetUp!TypeOK
  BY <1>1, <1>2 DEF SetUp!Init, SetUp!TypeOK, SetUp!Contents, SetUp!Units
<1> QED
  BY <1>3 DEF SetUp!Init, SetupInv, Installing, Removing, SetUp!PolicyIsWhole,
     SetUp!InstalledIsCurrent, SetUp!RemovedStaysOut, Policied, Triggered

\* Every step of an install or a removal, a failure and a kill included.
LEMMA SetupStep ==
  ASSUME SetupInv, SetUp!Next
  PROVE  SetupInv'
<1> USE Instances DEF SetUp!host, SetUp!udev, SetUp!sudo, SetUp!systemd, SetUp!command,
        SetUp!Goto, SetUp!End, SetUp!Parameters
<1>1. CASE SetUp!Begin
  <2>1. SetUp!TypeOK'
    BY <1>1 DEF SetUp!Begin, SetupInv, SetUp!TypeOK, SetUp!Contents, SetUp!Units,
       SetUp!Policies, SetUp!Releases
  <2>2. Installing'
    BY <1>1 DEF SetUp!Begin, SetupInv, Installing, Policied, Triggered, SetUp!TypeOK
  <2>3. Removing'
    BY <1>1 DEF SetUp!Begin, SetupInv, Removing, SetUp!TypeOK
  <2> QED
    BY <1>1, <2>1, <2>2, <2>3 DEF SetUp!Begin, SetupInv, Installing, Removing,
       Policied, Triggered, SetUp!TypeOK, SetUp!PolicyIsWhole, SetUp!InstalledIsCurrent,
       SetUp!RemovedStaysOut, SetUp!Policies
<1>2. CASE SetUp!Fail
  <2>1. SetUp!TypeOK'
    BY <1>2 DEF SetUp!Fail, SetupInv, SetUp!TypeOK, SetUp!Contents, SetUp!Units,
       SetUp!Policies, SetUp!Releases
  <2>2. Installing'
    BY <1>2 DEF SetUp!Fail, SetupInv, Installing, Policied, Triggered, SetUp!TypeOK
  <2>3. Removing'
    BY <1>2 DEF SetUp!Fail, SetupInv, Removing, SetUp!TypeOK
  <2> QED
    BY <1>2, <2>1, <2>2, <2>3 DEF SetUp!Fail, SetupInv, Installing, Removing,
       Policied, Triggered, SetUp!TypeOK, SetUp!PolicyIsWhole, SetUp!InstalledIsCurrent,
       SetUp!RemovedStaysOut, SetUp!Policies
<1>3. CASE SetUp!InstallRules
  <2>1. SetUp!TypeOK'
    BY <1>3 DEF SetUp!InstallRules, SetupInv, SetUp!TypeOK, SetUp!Contents, SetUp!Units,
       SetUp!Policies, SetUp!Releases
  <2>2. Installing'
    BY <1>3 DEF SetUp!InstallRules, SetupInv, Installing, Policied, Triggered, SetUp!TypeOK
  <2>3. Removing'
    BY <1>3 DEF SetUp!InstallRules, SetupInv, Removing, SetUp!TypeOK
  <2> QED
    BY <1>3, <2>1, <2>2, <2>3 DEF SetUp!InstallRules, SetupInv, Installing, Removing,
       Policied, Triggered, SetUp!TypeOK, SetUp!PolicyIsWhole, SetUp!InstalledIsCurrent,
       SetUp!RemovedStaysOut, SetUp!Policies
<1>4. CASE SetUp!InstallPolicy
  <2>1. SetUp!TypeOK'
    BY <1>4 DEF SetUp!InstallPolicy, SetupInv, SetUp!TypeOK, SetUp!Contents, SetUp!Units,
       SetUp!Policies, SetUp!Releases
  <2>2. Installing'
    BY <1>4 DEF SetUp!InstallPolicy, SetupInv, Installing, Policied, Triggered, SetUp!TypeOK
  <2>3. Removing'
    BY <1>4 DEF SetUp!InstallPolicy, SetupInv, Removing, SetUp!TypeOK
  <2> QED
    BY <1>4, <2>1, <2>2, <2>3 DEF SetUp!InstallPolicy, SetupInv, Installing, Removing,
       Policied, Triggered, SetUp!TypeOK, SetUp!PolicyIsWhole, SetUp!InstalledIsCurrent,
       SetUp!RemovedStaysOut, SetUp!Policies
<1>5. CASE SetUp!ReloadRules
  <2>1. SetUp!TypeOK'
    BY <1>5 DEF SetUp!ReloadRules, SetupInv, SetUp!TypeOK, SetUp!Contents, SetUp!Units,
       SetUp!Policies, SetUp!Releases
  <2>2. Installing'
    BY <1>5 DEF SetUp!ReloadRules, SetupInv, Installing, Policied, Triggered, SetUp!TypeOK
  <2>3. Removing'
    BY <1>5 DEF SetUp!ReloadRules, SetupInv, Removing, SetUp!TypeOK
  <2> QED
    BY <1>5, <2>1, <2>2, <2>3 DEF SetUp!ReloadRules, SetupInv, Installing, Removing,
       Policied, Triggered, SetUp!TypeOK, SetUp!PolicyIsWhole, SetUp!InstalledIsCurrent,
       SetUp!RemovedStaysOut, SetUp!Policies
<1>6. CASE SetUp!Trigger
  <2>1. SetUp!TypeOK'
    BY <1>6 DEF SetUp!Trigger, SetupInv, SetUp!TypeOK, SetUp!Contents, SetUp!Units,
       SetUp!Policies, SetUp!Releases
  <2>2. Installing'
    BY <1>6 DEF SetUp!Trigger, SetupInv, Installing, Policied, Triggered, SetUp!TypeOK
  <2>3. Removing'
    BY <1>6 DEF SetUp!Trigger, SetupInv, Removing, SetUp!TypeOK
  <2> QED
    BY <1>6, <2>1, <2>2, <2>3 DEF SetUp!Trigger, SetupInv, Installing, Removing,
       Policied, Triggered, SetUp!TypeOK, SetUp!PolicyIsWhole, SetUp!InstalledIsCurrent,
       SetUp!RemovedStaysOut, SetUp!Policies
<1>7. CASE SetUp!InstallUnit
  <2>1. SetUp!TypeOK'
    BY <1>7 DEF SetUp!InstallUnit, SetupInv, SetUp!TypeOK, SetUp!Contents, SetUp!Units,
       SetUp!Policies, SetUp!Releases
  <2>2. Installing'
    BY <1>7 DEF SetUp!InstallUnit, SetupInv, Installing, Policied, Triggered, SetUp!TypeOK
  <2>3. Removing'
    BY <1>7 DEF SetUp!InstallUnit, SetupInv, Removing, SetUp!TypeOK
  <2> QED
    BY <1>7, <2>1, <2>2, <2>3 DEF SetUp!InstallUnit, SetupInv, Installing, Removing,
       Policied, Triggered, SetUp!TypeOK, SetUp!PolicyIsWhole, SetUp!InstalledIsCurrent,
       SetUp!RemovedStaysOut, SetUp!Policies
<1>8. CASE SetUp!DaemonReload
  <2>1. SetUp!TypeOK'
    BY <1>8 DEF SetUp!DaemonReload, SetupInv, SetUp!TypeOK, SetUp!Contents, SetUp!Units,
       SetUp!Policies, SetUp!Releases
  <2>2. Installing'
    BY <1>8 DEF SetUp!DaemonReload, SetupInv, Installing, Policied, Triggered, SetUp!TypeOK
  <2>3. Removing'
    BY <1>8 DEF SetUp!DaemonReload, SetupInv, Removing, SetUp!TypeOK
  <2> QED
    BY <1>8, <2>1, <2>2, <2>3 DEF SetUp!DaemonReload, SetupInv, Installing, Removing,
       Policied, Triggered, SetUp!TypeOK, SetUp!PolicyIsWhole, SetUp!InstalledIsCurrent,
       SetUp!RemovedStaysOut, SetUp!Policies
<1>9. CASE SetUp!Enable
  <2>1. SetUp!TypeOK'
    BY <1>9 DEF SetUp!Enable, SetupInv, SetUp!TypeOK, SetUp!Contents, SetUp!Units,
       SetUp!Policies, SetUp!Releases
  <2>2. Installing'
    BY <1>9 DEF SetUp!Enable, SetupInv, Installing, Policied, Triggered, SetUp!TypeOK
  <2>3. Removing'
    BY <1>9 DEF SetUp!Enable, SetupInv, Removing, SetUp!TypeOK
  <2> QED
    BY <1>9, <2>1, <2>2, <2>3 DEF SetUp!Enable, SetupInv, Installing, Removing,
       Policied, Triggered, SetUp!TypeOK, SetUp!PolicyIsWhole, SetUp!InstalledIsCurrent,
       SetUp!RemovedStaysOut, SetUp!Policies
<1>10. CASE SetUp!Restart
  <2>1. SetUp!TypeOK'
    BY <1>10 DEF SetUp!Restart, SetupInv, SetUp!TypeOK, SetUp!Contents, SetUp!Units,
       SetUp!Policies, SetUp!Releases
  <2>2. Installing'
    BY <1>10 DEF SetUp!Restart, SetupInv, Installing, Policied, Triggered, SetUp!TypeOK
  <2>3. Removing'
    BY <1>10 DEF SetUp!Restart, SetupInv, Removing, SetUp!TypeOK
  <2> QED
    BY <1>10, <2>1, <2>2, <2>3 DEF SetUp!Restart, SetupInv, Installing, Removing,
       Policied, Triggered, SetUp!TypeOK, SetUp!PolicyIsWhole, SetUp!InstalledIsCurrent,
       SetUp!RemovedStaysOut, SetUp!Policies
<1>11. CASE SetUp!List
  <2>1. SetUp!TypeOK'
    <3>1. /\ lists' \in [Urls -> BOOLEAN \cup {None}]
          /\ left' \subseteq Urls /\ skipped' \subseteq Urls
      BY <1>11 DEF SetUp!List, SetUp!Edit, SetupInv, SetUp!TypeOK
    <3>2. /\ pc' \in {"list", "idle"} /\ outcome' \in {"none", "failed"}
          /\ UNCHANGED <<release, rules, loaded, applied, policy, protected, unit,
                         read, enabled, running, kind, account>>
      BY <1>11 DEF SetUp!List, SetUp!Edit, SetupInv, SetUp!TypeOK
    <3> QED
      BY <3>1, <3>2 DEF SetupInv, SetUp!TypeOK, SetUp!Contents, SetUp!Units
  <2>2. Installing'
    BY <1>11 DEF SetUp!List, SetUp!Edit, SetupInv, Installing, Policied, Triggered, SetUp!TypeOK
  <2>3. Removing'
    BY <1>11 DEF SetUp!List, SetUp!Edit, SetupInv, Removing, SetUp!TypeOK
  <2> QED
    BY <1>11, <2>1, <2>2, <2>3 DEF SetUp!List, SetUp!Edit, SetupInv, Installing, Removing,
       Policied, Triggered, SetUp!TypeOK, SetUp!PolicyIsWhole, SetUp!InstalledIsCurrent,
       SetUp!RemovedStaysOut, SetUp!Policies
<1>12. CASE SetUp!Unlist
  <2>1. SetUp!TypeOK'
    <3>1. /\ lists' \in [Urls -> BOOLEAN \cup {None}]
          /\ left' \subseteq Urls /\ skipped' \subseteq Urls
      BY <1>12 DEF SetUp!Unlist, SetUp!Edit, SetupInv, SetUp!TypeOK
    <3>2. /\ pc' \in {"unlist", "idle"} /\ outcome' \in {"none", "failed"}
          /\ UNCHANGED <<release, rules, loaded, applied, policy, protected, unit,
                         read, enabled, running, kind, account>>
      BY <1>12 DEF SetUp!Unlist, SetUp!Edit, SetupInv, SetUp!TypeOK
    <3> QED
      BY <3>1, <3>2 DEF SetupInv, SetUp!TypeOK, SetUp!Contents, SetUp!Units
  <2>2. Installing'
    BY <1>12 DEF SetUp!Unlist, SetUp!Edit, SetupInv, Installing, Policied, Triggered, SetUp!TypeOK
  <2>3. Removing'
    BY <1>12 DEF SetUp!Unlist, SetUp!Edit, SetupInv, Removing, SetUp!TypeOK
  <2> QED
    BY <1>12, <2>1, <2>2, <2>3 DEF SetUp!Unlist, SetUp!Edit, SetupInv, Installing, Removing,
       Policied, Triggered, SetUp!TypeOK, SetUp!PolicyIsWhole, SetUp!InstalledIsCurrent,
       SetUp!RemovedStaysOut, SetUp!Policies
<1>13. CASE SetUp!Listed
  <2>1. SetUp!TypeOK'
    BY <1>13 DEF SetUp!Listed, SetupInv, SetUp!TypeOK, SetUp!Contents, SetUp!Units,
       SetUp!Policies, SetUp!Releases
  <2>2. Installing'
    BY <1>13 DEF SetUp!Listed, SetupInv, Installing, Policied, Triggered, SetUp!TypeOK
  <2>3. Removing'
    BY <1>13 DEF SetUp!Listed, SetupInv, Removing, SetUp!TypeOK
  <2> QED
    BY <1>13, <2>1, <2>2, <2>3 DEF SetUp!Listed, SetupInv, Installing, Removing,
       Policied, Triggered, SetUp!TypeOK, SetUp!PolicyIsWhole, SetUp!InstalledIsCurrent,
       SetUp!RemovedStaysOut, SetUp!Policies
<1>14. CASE SetUp!Disable
  <2>1. SetUp!TypeOK'
    <3>1. /\ pc' = "erase" /\ running' \in SetUp!Units /\ enabled' \in BOOLEAN
          /\ UNCHANGED <<release, rules, loaded, applied, policy, protected, unit,
                         read, lists, kind, account, left, skipped, outcome>>
      BY <1>14 DEF SetUp!Disable, SetUp!Units
    <3> QED
      BY <3>1 DEF SetupInv, SetUp!TypeOK, SetUp!Contents, SetUp!Policies, SetUp!Releases
  <2>2. Installing'
    BY <1>14 DEF SetUp!Disable, SetupInv, Installing, Policied, Triggered, SetUp!TypeOK
  <2>3. Removing'
    BY <1>14 DEF SetUp!Disable, SetupInv, Removing, SetUp!TypeOK
  <2> QED
    BY <1>14, <2>1, <2>2, <2>3 DEF SetUp!Disable, SetupInv, Installing, Removing,
       Policied, Triggered, SetUp!TypeOK, SetUp!PolicyIsWhole, SetUp!InstalledIsCurrent,
       SetUp!RemovedStaysOut, SetUp!Policies
<1>15. CASE SetUp!Erase
  <2>1. SetUp!TypeOK'
    BY <1>15 DEF SetUp!Erase, SetupInv, SetUp!TypeOK, SetUp!Contents, SetUp!Units,
       SetUp!Policies, SetUp!Releases
  <2>2. Installing'
    BY <1>15 DEF SetUp!Erase, SetupInv, Installing, Policied, Triggered, SetUp!TypeOK
  <2>3. Removing'
    BY <1>15 DEF SetUp!Erase, SetupInv, Removing, SetUp!TypeOK
  <2> QED
    BY <1>15, <2>1, <2>2, <2>3 DEF SetUp!Erase, SetupInv, Installing, Removing,
       Policied, Triggered, SetUp!TypeOK, SetUp!PolicyIsWhole, SetUp!InstalledIsCurrent,
       SetUp!RemovedStaysOut, SetUp!Policies
<1>16. CASE SetUp!Forget
  <2>1. SetUp!TypeOK'
    BY <1>16 DEF SetUp!Forget, SetupInv, SetUp!TypeOK, SetUp!Contents, SetUp!Units,
       SetUp!Policies, SetUp!Releases
  <2>2. Installing'
    BY <1>16 DEF SetUp!Forget, SetupInv, Installing, Policied, Triggered, SetUp!TypeOK
  <2>3. Removing'
    BY <1>16 DEF SetUp!Forget, SetupInv, Removing, SetUp!TypeOK
  <2> QED
    BY <1>16, <2>1, <2>2, <2>3 DEF SetUp!Forget, SetupInv, Installing, Removing,
       Policied, Triggered, SetUp!TypeOK, SetUp!PolicyIsWhole, SetUp!InstalledIsCurrent,
       SetUp!RemovedStaysOut, SetUp!Policies
<1>17. CASE SetUp!Upgrade
  <2>1. SetUp!TypeOK'
    BY <1>17 DEF SetUp!Upgrade, SetupInv, SetUp!TypeOK, SetUp!Contents, SetUp!Units,
       SetUp!Policies, SetUp!Releases
  <2>2. Installing'
    BY <1>17 DEF SetUp!Upgrade, SetupInv, Installing, Policied, Triggered, SetUp!TypeOK
  <2>3. Removing'
    BY <1>17 DEF SetUp!Upgrade, SetupInv, Removing, SetUp!TypeOK
  <2> QED
    BY <1>17, <2>1, <2>2, <2>3 DEF SetUp!Upgrade, SetupInv, Installing, Removing,
       Policied, Triggered, SetUp!TypeOK, SetUp!PolicyIsWhole, SetUp!InstalledIsCurrent,
       SetUp!RemovedStaysOut, SetUp!Policies
<1>18. CASE SetUp!Boot
  <2>1. SetUp!TypeOK'
    BY <1>18 DEF SetUp!Boot, SetupInv, SetUp!TypeOK, SetUp!Contents, SetUp!Units,
       SetUp!Policies, SetUp!Releases
  <2>2. Installing'
    BY <1>18 DEF SetUp!Boot, SetupInv, Installing, Policied, Triggered, SetUp!TypeOK
  <2>3. Removing'
    BY <1>18 DEF SetUp!Boot, SetupInv, Removing, SetUp!TypeOK
  <2> QED
    BY <1>18, <2>1, <2>2, <2>3 DEF SetUp!Boot, SetupInv, Installing, Removing,
       Policied, Triggered, SetUp!TypeOK, SetUp!PolicyIsWhole, SetUp!InstalledIsCurrent,
       SetUp!RemovedStaysOut, SetUp!Policies
<1> QED
  BY <1>1, <1>2, <1>3, <1>4, <1>5, <1>6, <1>7, <1>8, <1>9, <1>10, <1>11, <1>12, <1>13, <1>14, <1>15, <1>16, <1>17, <1>18 DEF SetUp!Next

\* What an ended setup leaves, from the invariant.
LEMMA SetupPromises ==
  ASSUME SetupInv
  PROVE  /\ SetUp!TypeOK /\ SetUp!PolicyIsWhole /\ SetUp!InstalledIsCurrent
         /\ SetUp!AgentRuns /\ SetUp!RemovedStaysOut
<1>1. SetUp!AgentRuns
  BY DEF SetupInv, SetUp!AgentRuns, SetUp!InstalledIsCurrent
<1> QED
  BY <1>1 DEF SetupInv

\* Whatever earlier setups left half done, one that succeeds leaves this
\* release's files whole and in use and its agent running, or removed
\* (setup.rs).
THEOREM SetupRepairsAll == Spec => []SetupRepairs
<1> DEFINE Kept == command = "setup" => SetupInv
<1>1. Init => Kept
  BY SetupInit DEF Init
<1>2. Kept /\ [Next]_vars => Kept'
  <2> SUFFICES ASSUME Kept, [Next]_vars PROVE Kept'
    OBVIOUS
  <2>1. CASE command = "setup" /\ SetUp!Next
    BY <2>1, SetupStep
  <2>2. CASE UNCHANGED vars
    BY <2>2 DEF vars, SetupInv, Installing, Removing, SetUp!TypeOK, SetUp!PolicyIsWhole,
       SetUp!InstalledIsCurrent, SetUp!RemovedStaysOut
  <2>3. CASE command # "setup" /\ command' = command
    BY <2>3
  <2> QED
    BY <2>1, <2>2, <2>3 DEF Next
<1>3. Kept => SetupRepairs
  BY SetupPromises DEF SetupRepairs
<1> QED
  BY <1>1, <1>2, <1>3, PTL DEF Spec

-----------------------------------------------------------------------------
(* Fleet. *)

Asking == pc \in {"unit", "klippy", "print", "mcus"}

\* A reading that does not block is of a unit that was idle, or that uses no
\* bus the bridges would cut off.
Harmless(u) == host.uses[u] \cap Rule!CutOff # {} => u \in wasIdle

\* What the Moonraker that is asked has said so far.
ProbeInv ==
    /\ Len(readings) < Len(host.serves)
    /\ probe.unit \in {Rule!Said(Len(readings) + 1), None}
    /\ probe.klippy \in {"disconnected", "error"} => Rule!Asked \in wasIdle
    /\ probe.print = "idle" => Rule!Asked \in wasIdle

\* What those before it have said.
ReadingsInv ==
    \A i \in 1..Len(readings) :
      /\ readings[i].unit \in {Rule!Said(i), None}
      /\ ~readings[i].blocks => Harmless(host.serves[i])

\* What is left keeps the bridges last.
BridgesLast ==
    /\ \A i, j \in DOMAIN left : i < j /\ left[i].bridge => left[j].bridge
    /\ down # {} => \A i \in DOMAIN left : left[i].bridge

FleetInv ==
    /\ Rule!TypeOK /\ BridgesLast /\ ReadingsInv
    /\ \A u \in HostUnits : Rule!Idle(u) => u \in wasIdle
    /\ Asking => ProbeInv
    /\ ~Asking => Len(readings) = Len(host.serves)
    /\ pc = "flash" /\ Rule!Bridges # {} =>
         \A i \in DOMAIN host.serves : Rule!ToldApart(i) => Harmless(host.serves[i])

\* flash_order leaves a sequence of the same boards, the bridges last.
LEMMA OrdersAreSorted ==
  ASSUME NEW targets \in Seq(Rule!Target), NEW order \in Rule!FlashOrders(targets)
  PROVE  /\ order \in Seq(Rule!Target)
         /\ \A i, j \in DOMAIN order : i < j /\ order[i].bridge => order[j].bridge
<1> DEFINE n == Len(targets)
<1>1. n \in Nat /\ DOMAIN targets = 1..n /\ \A k \in 1..n : targets[k] \in Rule!Target
  OBVIOUS
<1>2. PICK o \in [1..n -> 1..n] :
        /\ order = [k \in 1..n |-> targets[o[k]]]
        /\ \A k, l \in 1..n : k < l =>
             \/ ~targets[o[k]].bridge /\ targets[o[l]].bridge
             \/ targets[o[k]].bridge = targets[o[l]].bridge /\ o[k] < o[l]
  BY <1>1 DEF Rule!FlashOrders
<1> HIDE DEF n
<1>3. order \in [1..n -> Rule!Target]
  BY <1>1, <1>2
<1>4. \A i, j \in 1..n : i < j /\ order[i].bridge => order[j].bridge
  BY <1>1, <1>2
<1> QED
  BY <1>1, <1>3, <1>4, SeqDef

\* Before the run asks any printer, nothing is cut off.
LEMMA FleetInit ==
  ASSUME Rule!Init
  PROVE  FleetInv
<1>1. host \in Hosts /\ host.serves \in Seq(HostUnits) /\ host.targets \in Seq(Rule!Target)
  BY Instances DEF Rule!Init, Rule!Fleets
<1>2. left \in Seq(Rule!Target) /\ BridgesLast
  BY <1>1, OrdersAreSorted DEF Rule!Init, BridgesLast
<1>3. probe \in Rule!Probe
  BY DEF Rule!Init, Rule!NoAnswers, Rule!Probe, Rule!Klippy
<1>4. Len(readings) = 0 /\ Len(host.serves) \in Nat
      /\ (host.serves = <<>> <=> Len(host.serves) = 0)
  BY <1>1, EmptySeq DEF Rule!Init
<1>5. readings \in Seq([unit : Rule!Names \cup {None}, blocks : BOOLEAN])
  BY EmptySeq DEF Rule!Init
<1>6. Rule!TypeOK
  BY <1>1, <1>2, <1>3, <1>4, <1>5 DEF Rule!Init, Rule!TypeOK
<1>7. Asking => ProbeInv
  BY <1>4, Instances DEF Rule!Init, Asking, ProbeInv, Rule!NoAnswers, Rule!Fleets,
     Rule!States
<1>8. ReadingsInv
  BY <1>4 DEF ReadingsInv
<1> QED
  BY <1>2, <1>4, <1>6, <1>7, <1>8 DEF Rule!Init, FleetInv, Asking

\* A set of naturals has a least member: the printer that is asked next.
LEMMA LeastOf ==
  ASSUME NEW T \in SUBSET Nat, T # {}
  PROVE  \E m \in T : \A k \in T : ~(k < m)
<1>1. PICK m \in T : \A k \in T : <<k, m>> \notin OpToRel(<, Nat)
  BY WFMin, NatLessThanWellFounded, Zenon
<1> QED
  BY <1>1 DEF OpToRel

\* A host, part by part.
LEMMA HostShape ==
  ASSUME FleetInv
  PROVE  /\ host \in Hosts
         /\ host.serves \in Seq(HostUnits) /\ Len(host.serves) \in Nat
         /\ DOMAIN host.serves = 1..Len(host.serves)
         /\ \A i \in 1..Len(host.serves) : host.serves[i] \in HostUnits
         /\ \A i \in 1..Len(host.serves) : Rule!Said(i) \in Rule!Names
         /\ host.uses \in [HostUnits -> SUBSET Buses]
         /\ host.targets \in Seq(Rule!Target)
         /\ Len(readings) \in Nat /\ DOMAIN readings = 1..Len(readings)
BY Instances DEF FleetInv, Rule!TypeOK, Rule!Fleets, Rule!Said, Rule!Names

\* The printers are asked; only they change what ProbeInv says.
LEMMA AskStep ==
  ASSUME FleetInv, Rule!AskUnit \/ Rule!AskKlippy \/ Rule!AskPrint
  PROVE  FleetInv'
<1> USE DEF Asking
<1>1. /\ Asking /\ Asking' /\ ProbeInv /\ Rule!TypeOK
      /\ UNCHANGED <<host, state, wasIdle, readings, left, down>>
      /\ pc' \in {"klippy", "print", "mcus"}
  BY DEF FleetInv, Rule!AskUnit, Rule!AskKlippy, Rule!AskPrint, Rule!Ask
<1>2. Rule!Asked \in HostUnits
  BY <1>1, HostShape DEF ProbeInv, Rule!Asked
<1>3. /\ Rule!Asked' = Rule!Asked /\ Rule!CutOff' = Rule!CutOff /\ Rule!Bridges' = Rule!Bridges
      /\ \A u : Harmless(u)' <=> Harmless(u)
      /\ \A i : Rule!Said(i)' = Rule!Said(i) /\ (Rule!ToldApart(i)' <=> Rule!ToldApart(i))
  BY <1>1 DEF Rule!Said, Rule!ToldApart, Rule!Asked, Rule!CutOff, Rule!Bridges, Harmless
<1>4. probe' \in Rule!Probe /\ ProbeInv'
  <2>1. CASE Rule!AskUnit
    <3>1. Rule!Said(Len(readings) + 1) \in Rule!Names
      BY <1>1, HostShape DEF ProbeInv
    <3>2. PICK a \in {Rule!Said(Len(readings) + 1), None} :
            probe' = [probe EXCEPT !.unit = a]
      BY <2>1, Zenon DEF Rule!AskUnit, Rule!Ask
    <3> QED
      BY <1>1, <1>3, <3>1, <3>2 DEF Rule!Probe, ProbeInv, Rule!TypeOK
  <2>2. CASE Rule!AskKlippy
    <3>1. PICK a \in {IF state[Rule!Asked] \in {"idle", "printing"} THEN "ready"
                      ELSE state[Rule!Asked], None} :
            probe' = [probe EXCEPT !.klippy = a]
      BY <2>2, Zenon DEF Rule!AskKlippy, Rule!Ask
    <3>2. state[Rule!Asked] \in Rule!States
      BY <1>1, <1>2 DEF Rule!TypeOK
    <3>3. a \in Rule!Klippy
      BY <3>2 DEF Rule!Klippy, Rule!States
    <3>4. a \in {"disconnected", "error"} => Rule!Asked \in wasIdle
      BY <1>2, Instances DEF FleetInv, Rule!Idle, Rule!Fleets, Rule!States
    <3> QED
      BY <1>1, <1>3, <3>1, <3>3, <3>4 DEF Rule!Probe, ProbeInv, Rule!TypeOK
  <2>3. CASE Rule!AskPrint
    <3>1. PICK a \in {"idle", "busy", None} :
            /\ probe' = [probe EXCEPT !.print = a]
            /\ a = "idle" => None = "idle" \/ state[Rule!Asked] = "idle"
      <4>1. PICK a \in (IF probe.klippy = "ready" /\ state[Rule!Asked] \in {"idle", "printing"}
                        THEN {IF state[Rule!Asked] = "idle" THEN "idle" ELSE "busy"}
                        ELSE {}) \cup {None} :
              probe' = [probe EXCEPT !.print = a]
        BY <2>3, Zenon DEF Rule!AskPrint, Rule!Ask
      <4>2. CASE a = None
        BY <4>1, <4>2
      <4>3. CASE a = IF state[Rule!Asked] = "idle" THEN "idle" ELSE "busy"
        BY <4>1, <4>3
      <4> QED
        BY <4>1, <4>2, <4>3
    <3>2. a = "idle" => Rule!Asked \in wasIdle
      BY <1>2, <3>1, Instances DEF FleetInv, Rule!Idle, Rule!Fleets, Rule!States
    <3> QED
      BY <1>1, <1>3, <3>1, <3>2 DEF Rule!Probe, ProbeInv, Rule!TypeOK
  <2> QED
    BY <2>1, <2>2, <2>3
<1>5. Rule!TypeOK'
  BY <1>1, <1>4 DEF Rule!TypeOK, Rule!Probe, Rule!Klippy
<1>6. BridgesLast' /\ ReadingsInv'
  BY <1>1, <1>3 DEF FleetInv, BridgesLast, ReadingsInv
<1> QED
  BY <1>1, <1>3, <1>4, <1>5, <1>6 DEF FleetInv, Rule!Idle

\* A reading that does not block is harmless: what it reports is what the
\* printer uses, or the printer stands still.
LEMMA AskMcusStep ==
  ASSUME FleetInv, Rule!AskMcus
  PROVE  FleetInv'
<1> USE DEF Asking
<1> DEFINE asked == Rule!Asked
           Reading == [unit : Rule!Names \cup {None}, blocks : BOOLEAN]
<1>1. /\ Asking /\ ProbeInv /\ Rule!TypeOK /\ pc' \in {"check", "unit"}
      /\ UNCHANGED <<host, state, wasIdle, left, down>> /\ probe' = Rule!NoAnswers
      /\ pc' = IF Len(readings') = Len(host.serves) THEN "check" ELSE "unit"
  BY DEF FleetInv, Rule!AskMcus
<1>2. /\ asked \in HostUnits /\ asked = host.serves[Len(readings) + 1]
      /\ Len(readings) < Len(host.serves) /\ Len(readings) + 1 <= Len(host.serves)
  BY <1>1, HostShape DEF ProbeInv, Rule!Asked
<1>3. PICK mcus \in Rule!Reported \cup {None} :
        readings' = Append(readings, [unit |-> probe.unit,
                                      blocks |-> Rule!Blocks(probe, mcus)])
  BY Zenon DEF Rule!AskMcus
<1> DEFINE reading == [unit |-> probe.unit, blocks |-> Rule!Blocks(probe, mcus)]
<1>4. reading \in Reading /\ readings \in Seq(Reading)
  BY <1>1 DEF Rule!Blocks, Rule!TypeOK, Rule!Probe
<1>5. /\ Rule!CutOff' = Rule!CutOff /\ (\A u : Harmless(u)' <=> Harmless(u))
      /\ \A i : Rule!Said(i)' = Rule!Said(i)
  BY <1>1 DEF Rule!Said, Rule!CutOff, Rule!Bridges, Harmless
<1>6. ~reading.blocks => Harmless(asked)
  <2> SUFFICES ASSUME ~Rule!Blocks(probe, mcus), host.uses[asked] \cap Rule!CutOff # {}
               PROVE  asked \in wasIdle
    BY DEF Harmless
  <2>1. CASE probe.klippy \in {"disconnected", "error"} \/ probe.print = "idle"
    BY <1>1, <2>1 DEF ProbeInv
  <2>2. CASE probe.klippy \notin {"disconnected", "error"} /\ probe.print # "idle"
    <3>1. mcus # None /\ mcus \cap Rule!CutOff = {}
      BY <2>2 DEF Rule!Blocks
    <3>2. state[asked] = "error"
      BY <3>1 DEF Rule!Reported
    <3> QED
      BY <1>2, <3>2 DEF FleetInv, Rule!Idle
  <2> QED
    BY <2>1, <2>2
<1> HIDE DEF asked, reading, Reading
<1>7. /\ readings' \in Seq(Reading) /\ Len(readings') = Len(readings) + 1
      /\ \A k \in 1..Len(readings) : readings'[k] = readings[k]
      /\ readings'[Len(readings) + 1] = reading
  BY <1>3, <1>4, AppendProperties DEF reading
<1>8. ReadingsInv'
  <2> SUFFICES ASSUME NEW k \in 1..Len(readings')
               PROVE  /\ readings'[k].unit \in {Rule!Said(k), None}
                      /\ ~readings'[k].blocks => Harmless(host.serves[k])
    BY <1>1, <1>5 DEF ReadingsInv
  <2>1. CASE k \in 1..Len(readings)
    BY <1>7, <2>1 DEF FleetInv, ReadingsInv
  <2>2. CASE k = Len(readings) + 1
    BY <1>1, <1>2, <1>6, <1>7, <2>2 DEF ProbeInv, asked, reading
  <2> QED
    BY <1>7, <2>1, <2>2, HostShape
<1>9. Rule!NoAnswers \in Rule!Probe
  BY DEF Rule!NoAnswers, Rule!Probe, Rule!Klippy
<1>10. Len(readings') <= Len(host.serves)
  BY <1>2, <1>7
<1>11. Rule!TypeOK'
  BY <1>1, <1>7, <1>9, <1>10 DEF Rule!TypeOK, Reading
<1>12. Asking' => ProbeInv'
  <2> SUFFICES ASSUME Len(readings') # Len(host.serves) PROVE ProbeInv'
    BY <1>1
  <2>1. Len(readings') < Len(host.serves)
    BY <1>10, <1>7, HostShape
  <2> QED
    BY <1>1, <2>1, Instances DEF ProbeInv, Rule!NoAnswers, Rule!Fleets, Rule!States
<1>13. BridgesLast'
  BY <1>1 DEF FleetInv, BridgesLast
<1> QED
  BY <1>1, <1>8, <1>11, <1>12, <1>13 DEF FleetInv, Rule!Idle

\* The first reading of a name speaks for the unit that is told apart by it,
\* and one that names none for its own.
LEMMA CheckStep ==
  ASSUME FleetInv, Rule!Check
  PROVE  FleetInv'
<1> USE DEF Asking
<1>1. /\ ~Asking /\ ~Asking' /\ pc' \in {"refused", "flash"} /\ Rule!TypeOK
      /\ UNCHANGED <<host, state, wasIdle, probe, readings, left, down>>
      /\ Len(readings) = Len(host.serves)
  BY DEF FleetInv, Rule!Check
<1>2. Rule!Bridges' = Rule!Bridges /\ (\A u : Harmless(u)' <=> Harmless(u))
      /\ \A i : Rule!Said(i)' = Rule!Said(i) /\ (Rule!ToldApart(i)' <=> Rule!ToldApart(i))
  BY <1>1 DEF Rule!Said, Rule!ToldApart, Rule!CutOff, Rule!Bridges, Harmless
<1>3. ASSUME pc' = "flash", Rule!Bridges # {}, NEW i \in DOMAIN host.serves,
             Rule!ToldApart(i)
      PROVE  Harmless(host.serves[i])
  <2>1. \A k \in Rule!Peers : ~readings[k].blocks
    BY <1>3 DEF Rule!Check
  <2>2. i \in 1..Len(readings) /\ host.serves[i] \in HostUnits
    BY <1>1, HostShape
  <2>3. CASE readings[i].unit = None
    <3>1. i \in Rule!Peers
      BY <2>2, <2>3, HostShape DEF Rule!Peers
    <3> QED
      BY <2>1, <2>2, <3>1 DEF FleetInv, ReadingsInv
  <2>4. CASE readings[i].unit # None
    <3> DEFINE name == Rule!Said(i)
               named == {k \in 1..Len(readings) : readings[k].unit = name}
    <3>1. /\ readings[i].unit = name /\ name # None /\ name # Own
          /\ i \in named /\ named \in SUBSET Nat
      BY <1>3, <2>2, <2>4 DEF FleetInv, ReadingsInv, Rule!ToldApart
    <3>2. PICK m \in named : \A k \in named : ~(k < m)
      BY <3>1, LeastOf
    <3> HIDE DEF name
    <3>3. m \in Rule!Peers
      BY <3>1, <3>2, HostShape DEF Rule!Peers
    <3>4. Rule!Said(m) = name /\ (m = i \/ m \in 1..(i - 1))
      BY <2>2, <3>1, <3>2 DEF FleetInv, ReadingsInv
    <3>5. host.serves[m] = host.serves[i]
      BY <1>3, <3>4 DEF Rule!ToldApart, name
    <3> QED
      BY <2>1, <3>2, <3>3, <3>5 DEF FleetInv, ReadingsInv
  <2> QED
    BY <2>3, <2>4
<1>4. Rule!TypeOK'
  BY <1>1 DEF Rule!TypeOK
<1>5. BridgesLast' /\ ReadingsInv'
  BY <1>1, <1>2 DEF FleetInv, BridgesLast, ReadingsInv
<1>6. DOMAIN host.serves' = DOMAIN host.serves
  BY <1>1
<1> QED
  BY <1>1, <1>2, <1>3, <1>4, <1>5, <1>6 DEF FleetInv, Rule!Idle

\* Flashing a bridge takes its bus away from the MCUs behind it.
LEMMA FlashStep ==
  ASSUME FleetInv, Rule!Flash
  PROVE  FleetInv'
<1> USE DEF Asking
<1>1. /\ pc = "flash" /\ left # <<>> /\ left' = Tail(left) /\ Rule!TypeOK
      /\ down' = IF Head(left).bridge THEN down \cup {Head(left).bus} ELSE down
      /\ UNCHANGED <<host, state, wasIdle, pc, probe, readings>>
      /\ left \in Seq(Rule!Target)
  BY DEF FleetInv, Rule!Flash, Rule!TypeOK
<1>2. Rule!Bridges' = Rule!Bridges /\ (\A u : Harmless(u)' <=> Harmless(u))
      /\ \A i : Rule!Said(i)' = Rule!Said(i) /\ (Rule!ToldApart(i)' <=> Rule!ToldApart(i))
  BY <1>1 DEF Rule!Said, Rule!ToldApart, Rule!CutOff, Rule!Bridges, Harmless
<1>3. /\ Head(left) \in Rule!Target /\ left' \in Seq(Rule!Target)
      /\ Len(left') = Len(left) - 1 /\ Len(left) \in Nat /\ Len(left) >= 1
      /\ \A i \in 1..Len(left') : left'[i] = left[i + 1]
      /\ Head(left) = left[1]
  BY <1>1, HeadTailProperties, EmptySeq
<1>4. DOMAIN left = 1..Len(left) /\ DOMAIN left' = 1..Len(left')
  BY <1>1, <1>3
<1>5. \A i \in DOMAIN left' : i + 1 \in DOMAIN left /\ left'[i] = left[i + 1]
                               /\ 1 < i + 1 /\ 1 \in DOMAIN left
  BY <1>3, <1>4
<1>6. BridgesLast'
  <2>1. \A i, j \in DOMAIN left' : i < j /\ left'[i].bridge => left'[j].bridge
    <3>1. \A i, j \in DOMAIN left' : i < j => i + 1 < j + 1
      BY <1>4
    <3> QED
      BY <1>5, <3>1 DEF FleetInv, BridgesLast
  <2>2. down' # {} => \A i \in DOMAIN left' : left'[i].bridge
    BY <1>1, <1>3, <1>5 DEF FleetInv, BridgesLast
  <2> QED
    BY <2>1, <2>2 DEF BridgesLast
<1>7. Rule!TypeOK'
  BY <1>1, <1>3 DEF Rule!TypeOK, Rule!Target
<1>8. ReadingsInv'
  BY <1>1, <1>2 DEF FleetInv, ReadingsInv
<1> QED
  BY <1>1, <1>2, <1>6, <1>7, <1>8 DEF FleetInv, Rule!Idle

\* A printer that changes keeps what was idle before.
LEMMA PrinterStep ==
  ASSUME FleetInv, Rule!Printer
  PROVE  FleetInv'
<1> USE DEF Asking
<1>1. PICK u \in HostUnits \ {Own}, s \in Rule!States :
        /\ state' = [state EXCEPT ![u] = s]
        /\ wasIdle' = IF s \in {"startup", "printing"} THEN wasIdle
                      ELSE wasIdle \cup {u}
  BY DEF Rule!Printer
<1>2. /\ pc \notin {"flash", "refused"} /\ Rule!TypeOK
      /\ UNCHANGED <<host, pc, probe, readings, left, down>>
      /\ wasIdle \subseteq wasIdle' /\ wasIdle' \subseteq HostUnits
  BY <1>1 DEF Rule!Printer, FleetInv, Rule!TypeOK
<1>3. /\ Rule!Asked' = Rule!Asked /\ (\A v : Harmless(v) => Harmless(v)')
      /\ \A i : Rule!Said(i)' = Rule!Said(i)
  BY <1>2 DEF Rule!Said, Rule!Asked, Rule!CutOff, Rule!Bridges, Harmless
<1>4. \A v \in HostUnits : Rule!Idle(v)' => v \in wasIdle'
  BY <1>1, <1>2 DEF FleetInv, Rule!Idle, Rule!TypeOK, Rule!States
<1>5. Rule!TypeOK'
  BY <1>1, <1>2 DEF Rule!TypeOK
<1>6. Asking' => ProbeInv'
  BY <1>2, <1>3 DEF FleetInv, ProbeInv
<1>7. BridgesLast' /\ ReadingsInv'
  BY <1>2, <1>3 DEF FleetInv, BridgesLast, ReadingsInv
<1> QED
  BY <1>2, <1>4, <1>5, <1>6, <1>7 DEF FleetInv

\* A step of nothing.
LEMMA FleetStutters ==
  ASSUME FleetInv,
         UNCHANGED <<host, state, wasIdle, pc, probe, readings, left, down>>
  PROVE  FleetInv'
<1>1. /\ Rule!Asked' = Rule!Asked /\ Rule!CutOff' = Rule!CutOff /\ Rule!Bridges' = Rule!Bridges
      /\ \A u : (Harmless(u)' <=> Harmless(u)) /\ (Rule!Idle(u)' <=> Rule!Idle(u))
      /\ \A i : Rule!Said(i)' = Rule!Said(i) /\ (Rule!ToldApart(i)' <=> Rule!ToldApart(i))
  BY DEF Rule!Said, Rule!ToldApart, Rule!Asked, Rule!CutOff, Rule!Bridges, Harmless, Rule!Idle
<1>2. Rule!TypeOK'
  BY DEF FleetInv, Rule!TypeOK
<1>3. BridgesLast' /\ ReadingsInv'
  BY <1>1 DEF FleetInv, BridgesLast, ReadingsInv
<1>4. Asking' => ProbeInv'
  BY <1>1 DEF FleetInv, ProbeInv, Asking
<1> QED
  BY <1>1, <1>2, <1>3, <1>4 DEF FleetInv, Asking

\* The rule, from the invariant.
LEMMA FleetPromises ==
  ASSUME FleetInv
  PROVE  Rule!TypeOK /\ Rule!BusWasIdle /\ Rule!BusIsUp
<1>1. Rule!BusWasIdle
  <2> SUFFICES ASSUME pc = "flash", NEW i \in DOMAIN host.serves, Rule!ToldApart(i),
                      NEW b \in Rule!Bridges,
                      host.targets[b].bus \in host.uses[host.serves[i]]
               PROVE  host.serves[i] \in wasIdle
    BY DEF Rule!BusWasIdle
  <2>1. host.targets[b].bus \in Buses
    BY HostShape
  <2>2. host.targets[b].bus \in Rule!CutOff
    BY <2>1 DEF Rule!CutOff
  <2> QED
    BY <2>2 DEF FleetInv, Harmless
<1>2. Rule!BusIsUp
  BY DEF FleetInv, BridgesLast, Rule!BusIsUp
<1> QED
  BY <1>1, <1>2 DEF FleetInv

\* A bridge is flashed only when the other printers on the buses that it
\* serves were idle since the run asked, those excepted that the default name
\* of a Moonraker that names no unit hides (ToldApart), and no MCU over a bus
\* that is gone (check_bridge, probe_peer, peers_excluding, flash_order).
THEOREM BridgesStaySafe == Spec => []BridgesAreSafe
<1> DEFINE Kept == command = "bridge" => FleetInv
<1>1. Init => Kept
  BY FleetInit DEF Init
<1>2. Kept /\ [Next]_vars => Kept'
  <2> SUFFICES ASSUME Kept, [Next]_vars PROVE Kept'
    OBVIOUS
  <2>1. CASE command = "bridge" /\ Rule!Next
    <3>1. CASE Rule!Done
      BY <2>1, <3>1, FleetStutters DEF Rule!Done, Rule!vars
    <3> QED
      BY <2>1, <3>1, AskStep, AskMcusStep, CheckStep, FlashStep, PrinterStep
         DEF Rule!Next
  <2>2. CASE UNCHANGED vars
    BY <2>2, FleetStutters DEF vars
  <2>3. CASE command # "bridge" /\ command' = command
    BY <2>3
  <2> QED
    BY <2>1, <2>2, <2>3 DEF Next
<1>3. Kept => BridgesAreSafe
  BY FleetPromises DEF BridgesAreSafe
<1> QED
  BY <1>1, <1>2, <1>3, PTL DEF Spec

-----------------------------------------------------------------------------
(* FlashCommand. *)

\* Steps before the printer is looked at.
Early == {"lock", "read", "host", "discover", "suits", "bridge", "prepare", "confirm"}

\* What is read suits the MCU and is what was agreed; Klipper is held while
\* the MCU is in its bootloader, and given back only when it is not.
FlashInv ==
    /\ FlashFile!TypeOK /\ FlashFile!AgreedIsWritten /\ FlashFile!StoppedIsTold
    /\ pc \notin {"lock", "read", "end"} => read \in FlashFile!Contents
    /\ kind = "vendor" /\ pc \notin {"lock", "read", "host", "discover", "suits", "end"} =>
         read = "suits"
    /\ pc \in Early => written = None
    /\ pc \in Early \cup {"idle"} => firstObserved = "none" /\ ~held
    /\ pc \notin Early \cup {"end"} => agreed = read
    /\ pc = "idle" => idleSince \/ printing
    /\ pc \in {"observe", "stop"} => idleSince
    /\ pc \in {"observe", "stop", "confirm_stop", "confirm_restore", "confirm_start",
               "reconnect"} => ~held
    /\ pc \in {"flash", "transfer"} => held
    /\ pc = "transfer" => device = "bootloader"
    /\ pc \notin {"transfer", "failure", "end"} \/ kind = "host" => device # "bootloader"

\* The calls that come before the prompt, and what follows each.
LEMMA CallsBefore ==
  /\ DOMAIN FlashFile!Before = {"lock", "host", "discover", "bridge", "prepare", "reconnect"}
  /\ FlashFile!Before["lock"] = "read" /\ FlashFile!Before["host"] = "discover"
  /\ FlashFile!Before["discover"] = "suits" /\ FlashFile!Before["bridge"] = "prepare"
  /\ FlashFile!Before["prepare"] = "confirm"
  BY DEF FlashFile!Before

\* Before the file is read.
LEMMA FlashFileInit ==
  ASSUME FlashFile!Init
  PROVE  FlashInv
<1>0. held \in BOOLEAN /\ idleSince \in BOOLEAN
  BY Zenon DEF FlashFile!Init
<1>1. FlashFile!TypeOK
  BY <1>0, CallsBefore, Instances DEF FlashFile!Init, FlashFile!TypeOK, FlashFile!Kinds,
     FlashFile!Parameters
<1> QED
  BY <1>1 DEF FlashFile!Init, FlashInv, FlashFile!AgreedIsWritten,
     FlashFile!StoppedIsTold, Early

\* Flags stay flags.
LEMMA FlashFileFlags ==
  ASSUME FlashInv, FlashFile!Next
  PROVE  /\ force' \in BOOLEAN /\ printing' \in BOOLEAN
         /\ held' \in BOOLEAN /\ idleSince' \in BOOLEAN
<1> USE DEF FlashFile!given, FlashFile!file, FlashFile!printer, FlashFile!mcu, FlashFile!history,
        FlashFile!vars
<1>0. force \in BOOLEAN /\ printing \in BOOLEAN /\ held \in BOOLEAN /\ idleSince \in BOOLEAN
  BY DEF FlashInv, FlashFile!TypeOK
<1>1. /\ force' = force /\ printing' \in BOOLEAN
      /\ held' \in BOOLEAN /\ idleSince' \in BOOLEAN
  BY <1>0 DEF FlashFile!Next, FlashFile!Proceed, FlashFile!Read, FlashFile!Suits,
     FlashFile!Confirm, FlashFile!CheckIdle, FlashFile!Observe, FlashFile!Stop,
     FlashFile!ConfirmStop, FlashFile!Ask, FlashFile!Install, FlashFile!Transfer,
     FlashFile!Decide, FlashFile!Restore, FlashFile!Await, FlashFile!Start,
     FlashFile!Verify, FlashFile!Outside, FlashFile!Kill, FlashFile!Done
<1> QED
  BY <1>0, <1>1

\* Every step of an explicit flash, and of the host beside it.
LEMMA FlashFileStep ==
  ASSUME FlashInv, FlashFile!Next
  PROVE  FlashInv'
<1> USE CallsBefore, Instances DEF FlashFile!Parameters, FlashInv, FlashFile!TypeOK,
        FlashFile!AgreedIsWritten, FlashFile!StoppedIsTold, FlashFile!Contents, Early,
        FlashFile!Kinds, FlashFile!Prebuilt,
        FlashFile!given, FlashFile!file, FlashFile!printer, FlashFile!mcu, FlashFile!history,
        FlashFile!Goto, FlashFile!End
<1>0. /\ force' \in BOOLEAN /\ printing' \in BOOLEAN
      /\ held' \in BOOLEAN /\ idleSince' \in BOOLEAN
  BY FlashFileFlags
<1>1. CASE FlashFile!Proceed
  BY <1>0, <1>1 DEF FlashFile!Proceed
<1>2. CASE FlashFile!Read
  BY <1>0, <1>2 DEF FlashFile!Read
<1>3. CASE FlashFile!Suits
  BY <1>0, <1>3 DEF FlashFile!Suits
<1>4. CASE FlashFile!Confirm
  BY <1>0, <1>4 DEF FlashFile!Confirm
<1>5. CASE FlashFile!CheckIdle
  BY <1>0, <1>5 DEF FlashFile!CheckIdle
<1>6. CASE FlashFile!Observe
  BY <1>0, <1>6 DEF FlashFile!Observe
<1>7. CASE FlashFile!Stop
  BY <1>0, <1>7 DEF FlashFile!Stop
<1>8. CASE FlashFile!ConfirmStop
  BY <1>0, <1>8 DEF FlashFile!ConfirmStop
<1>9. CASE FlashFile!Ask
  BY <1>0, <1>9 DEF FlashFile!Ask
<1>10. CASE FlashFile!Install
  BY <1>0, <1>10 DEF FlashFile!Install
<1>11. CASE FlashFile!Transfer
  BY <1>0, <1>11 DEF FlashFile!Transfer
<1>12. CASE FlashFile!Decide
  BY <1>0, <1>12 DEF FlashFile!Decide, FlashFile!AllowsRestore, FlashFile!Abandon
<1>13. CASE FlashFile!Restore
  BY <1>0, <1>13 DEF FlashFile!Restore
<1>14. CASE FlashFile!Await
  BY <1>0, <1>14 DEF FlashFile!Await, FlashFile!Abandon
<1>15. CASE FlashFile!Start
  BY <1>0, <1>15 DEF FlashFile!Start
<1>16. CASE FlashFile!Verify
  BY <1>0, <1>16 DEF FlashFile!Verify
<1>17. CASE FlashFile!Outside
  BY <1>0, <1>17 DEF FlashFile!Outside
<1>18. CASE FlashFile!Kill
  BY <1>0, <1>18 DEF FlashFile!Kill
<1>19. CASE FlashFile!Done
  BY <1>0, <1>19 DEF FlashFile!Done, FlashFile!vars
<1> QED
  BY <1>1, <1>2, <1>3, <1>4, <1>5, <1>6, <1>7, <1>8, <1>9, <1>10, <1>11, <1>12, <1>13, <1>14,
     <1>15, <1>16, <1>17, <1>18, <1>19 DEF FlashFile!Next

\* A step of nothing.
LEMMA FlashFileStutters ==
  ASSUME FlashInv, UNCHANGED FlashFile!vars
  PROVE  FlashInv'
  BY DEF FlashInv, FlashFile!TypeOK, FlashFile!AgreedIsWritten, FlashFile!StoppedIsTold,
     FlashFile!vars, FlashFile!given, FlashFile!file, FlashFile!printer, FlashFile!mcu,
     FlashFile!history

\* What the contract sees of a flash: a step that changes nothing of it, its
\* end, and the change of one thing at a time.
AsRun == FlashFile!Run!Next \/ UNCHANGED FlashFile!Run!vars

\* Nothing that the contract sees changes.
LEMMA RunStutters ==
  ASSUME outcome' = outcome, held' = held,
         device' = device \/ (device # "bootloader" /\ device' # "bootloader")
  PROVE  AsRun
  BY DEF AsRun, FlashFile!Run!vars

\* The run ends: well only with Klipper given back and no MCU at risk.
LEMMA RunEnds ==
  ASSUME outcome = "none", held' = held, device' = device, held \in BOOLEAN,
         \/ outcome' \in {"failed", "killed"}
         \/ outcome' \in {"ok", "cancelled"} /\ ~held /\ device # "bootloader"
  PROVE  AsRun
  BY DEF AsRun, FlashFile!Run!Next, FlashFile!Run!Finish, FlashFile!Run!Running

\* The run stops Klipper, or finds it stopped again.
LEMMA KlipperIsTaken ==
  ASSUME outcome = "none", outcome' = outcome, device' = device,
         held \in BOOLEAN, held' = TRUE
  PROVE  AsRun
<1>1. CASE held = FALSE
  BY <1>1 DEF AsRun, FlashFile!Run!Next, FlashFile!Run!TakeKlipper, FlashFile!Run!Running
<1>2. CASE held = TRUE
  BY <1>2, RunStutters
<1> QED
  BY <1>1, <1>2

\* The run gives Klipper back, with no MCU at risk.
LEMMA KlipperIsReturned ==
  ASSUME outcome = "none", outcome' = outcome, device' = device, device # "bootloader",
         held \in BOOLEAN, held' = FALSE
  PROVE  AsRun
<1>1. CASE held = TRUE
  BY <1>1 DEF AsRun, FlashFile!Run!Next, FlashFile!Run!ReturnKlipper, FlashFile!Run!Running
<1>2. CASE held = FALSE
  BY <1>2, RunStutters
<1> QED
  BY <1>1, <1>2

\* A flash is a run: Klipper is taken before the MCU is put at risk, and is
\* given back only when it is not.
LEMMA FlashFileRuns ==
  ASSUME FlashInv, FlashFile!Next
  PROVE  AsRun
<1>0. held \in BOOLEAN /\ held' \in BOOLEAN /\ (pc # "end" => outcome = "none")
  BY FlashFileFlags DEF FlashInv, FlashFile!TypeOK
<1> USE DEF FlashFile!given, FlashFile!file, FlashFile!printer, FlashFile!mcu, FlashFile!history,
        FlashFile!Goto, FlashFile!End, FlashFile!vars
<1>1. CASE FlashFile!Proceed
  <2>1. CASE pc = "reconnect" /\ FlashFile!End("ok", "none")
    BY <1>0, <1>1, <2>1, RunEnds DEF FlashFile!Proceed, FlashInv
  <2>2. CASE outcome' = outcome
    BY <1>1, <2>2, RunStutters DEF FlashFile!Proceed
  <2>3. CASE FlashFile!End("failed", "none")
    BY <1>0, <1>1, <2>3, CallsBefore, RunEnds DEF FlashFile!Proceed
  <2> QED
    BY <1>1, <2>1, <2>2, <2>3 DEF FlashFile!Proceed
<1>2. CASE FlashFile!Read
  BY <1>0, <1>2, RunStutters, RunEnds DEF FlashFile!Read
<1>3. CASE FlashFile!Suits
  BY <1>0, <1>3, RunStutters, RunEnds DEF FlashFile!Suits
<1>4. CASE FlashFile!Confirm
  BY <1>0, <1>4, RunStutters, RunEnds DEF FlashFile!Confirm, FlashInv, Early
<1>5. CASE FlashFile!CheckIdle
  BY <1>0, <1>5, RunStutters, RunEnds DEF FlashFile!CheckIdle
<1>6. CASE FlashFile!Observe
  BY <1>0, <1>6, RunStutters, KlipperIsTaken, KlipperIsReturned
     DEF FlashFile!Observe, FlashInv
<1>7. CASE FlashFile!Stop
  BY <1>7, RunStutters DEF FlashFile!Stop
<1>8. CASE FlashFile!ConfirmStop
  BY <1>0, <1>8, RunStutters, KlipperIsTaken DEF FlashFile!ConfirmStop
<1>9. CASE FlashFile!Ask
  <2>1. CASE device' = device
    BY <1>9, <2>1, RunStutters DEF FlashFile!Ask
  <2>2. CASE device' = "bootloader"
    <3>1. outcome = "none" /\ outcome' = "none" /\ held' = held /\ held /\ device # "bootloader"
      BY <1>0, <1>9, <2>2 DEF FlashFile!Ask, FlashInv
    <3> QED
      BY <2>2, <3>1 DEF AsRun, FlashFile!Run!Next, FlashFile!Run!PutAtRisk,
         FlashFile!Run!Running
  <2> QED
    BY <1>9, <2>1, <2>2 DEF FlashFile!Ask
<1>10. CASE FlashFile!Install
  BY <1>10, RunStutters DEF FlashFile!Install
<1>11. CASE FlashFile!Transfer
  <2>1. CASE device' = device
    BY <1>11, <2>1, RunStutters DEF FlashFile!Transfer
  <2>2. CASE device' = "restarting"
    <3>1. outcome = "none" /\ outcome' = "none" /\ held' = held /\ device = "bootloader"
      BY <1>0, <1>11, <2>2 DEF FlashFile!Transfer, FlashInv
    <3> QED
      BY <2>2, <3>1 DEF AsRun, FlashFile!Run!Next, FlashFile!Run!Release,
         FlashFile!Run!Running
  <2> QED
    BY <1>11, <2>1, <2>2 DEF FlashFile!Transfer
<1>12. CASE FlashFile!Decide
  BY <1>0, <1>12, RunStutters, RunEnds DEF FlashFile!Decide, FlashFile!Abandon
<1>13. CASE FlashFile!Restore
  BY <1>0, <1>13, RunStutters, RunEnds, KlipperIsReturned DEF FlashFile!Restore, FlashInv
<1>14. CASE FlashFile!Await
  BY <1>0, <1>14, RunStutters, RunEnds DEF FlashFile!Await, FlashFile!Abandon, FlashInv
<1>15. CASE FlashFile!Start
  BY <1>0, <1>15, RunStutters, RunEnds, KlipperIsReturned DEF FlashFile!Start, FlashInv
<1>16. CASE FlashFile!Verify
  BY <1>0, <1>16, RunStutters, RunEnds DEF FlashFile!Verify
<1>17. CASE FlashFile!Outside
  BY <1>17, RunStutters DEF FlashFile!Outside
<1>18. CASE FlashFile!Kill
  BY <1>0, <1>18, RunEnds DEF FlashFile!Kill
<1>19. CASE FlashFile!Done
  BY <1>19, RunStutters DEF FlashFile!Done
<1> QED
  BY <1>1, <1>2, <1>3, <1>4, <1>5, <1>6, <1>7, <1>8, <1>9, <1>10, <1>11, <1>12, <1>13, <1>14,
     <1>15, <1>16, <1>17, <1>18, <1>19 DEF FlashFile!Next

\* Klipper is stopped only when the printer was idle after the prompt.
LEMMA FlashFileSparesPrints ==
  ASSUME FlashInv, FlashFile!Next
  PROVE  FlashFile!AgreedPrint
  BY DEF FlashInv, FlashFile!AgreedPrint

\* For any MCU and host an explicit flash is a run as RunContract has it,
\* writes what was agreed to, and to a Cartographer or a Beacon only what was
\* found to suit it, stops no print that ran since before the prompt and tells
\* of a Klipper it leaves stopped (run_flash, prepare_explicit).
THEOREM FlashIsAsAgreed == Spec => FlashKeepsItsWord
<1> DEFINE Kept == command = "flash" => FlashInv
           Word == command = "flash" => /\ AsRun /\ FlashFile!AgreedPrint
<1>1. Init => Kept
  BY FlashFileInit DEF Init
<1>2. Kept /\ [Next]_vars => Kept'
  <2> SUFFICES ASSUME Kept, [Next]_vars PROVE Kept'
    OBVIOUS
  <2>1. CASE command = "flash" /\ FlashFile!Next
    BY <2>1, FlashFileStep
  <2>2. CASE UNCHANGED vars
    <3>1. UNCHANGED FlashFile!vars /\ command' = command
      BY <2>2 DEF vars, FlashFile!vars, FlashFile!given, FlashFile!file, FlashFile!printer,
         FlashFile!mcu, FlashFile!history
    <3> QED
      BY <3>1, FlashFileStutters
  <2>3. CASE command # "flash" /\ command' = command
    BY <2>3
  <2> QED
    BY <2>1, <2>2, <2>3 DEF Next
<1>3. Kept /\ [Next]_vars => [Word]_vars
  BY FlashFileRuns, FlashFileSparesPrints DEF Next
<1>4. Init => (command = "flash" => FlashFile!Run!Init)
  BY DEF Init, FlashFile!Init, FlashFile!Run!Init
<1>5. Kept => (command = "flash" => /\ FlashFile!TypeOK /\ FlashFile!AgreedIsWritten
                                    /\ FlashFile!StoppedIsTold)
  BY DEF FlashInv
<1> QED
  BY <1>1, <1>2, <1>3, <1>4, <1>5, PTL DEF Spec, FlashKeepsItsWord, AsRun

-----------------------------------------------------------------------------
(* SelfUpdate, one at a time. *)

\* What is chosen is newer than the binary that was started, and what is
\* installed was verified.
Chosen(u) ==
    /\ at[u] \in Update!Steps \ {"check"} => tag[u] > Update!Current(u)
    /\ at[u] \in {"extract", "stage", "copy", "mode", "rename"} => archive[u] = "listed"

\* .aldis.new is this command's from its copy to its rename.
Staging(u) ==
    /\ at[u] \in {"copy", "mode", "rename"} => staged # NoFile
    /\ at[u] = "copy" => writing[u] = staged /\ lastOpen[staged] = u
    /\ at[u] \in {"mode", "rename"} =>
         binary[staged].whole /\ binary[staged].listed /\ binary[staged].version = tag[u]
    /\ at[u] = "rename" => binary[staged].executable

\* What is installed once it is renamed, and what the agent is then started
\* from.
Replaced(u) ==
    at[u] \in {"agent", "restart", "restarted", "not_running"} =>
        binary[exe].version = tag[u]

UpdateInv ==
    /\ Update!TypeOK /\ Update!InstalledIsWhole /\ Update!InstalledIsListed
    /\ Update!FailureKeepsBinary /\ Update!ToldIsLoaded
    /\ \A u \in Updaters : Chosen(u) /\ Staging(u) /\ Replaced(u)

\* No self-update is started beside another.
OneAtATime == \A u, v \in Updaters : u = v

\* The binary that is installed at first is whole.
LEMMA UpdateInit ==
  ASSUME Update!Init
  PROVE  UpdateInv
<1>1. Update!TypeOK
  BY Instances DEF Update!Init, Update!TypeOK, Update!Parameters, Update!Binary,
     Update!Versions, Update!Units
<1> QED
  BY <1>1 DEF Update!Init, UpdateInv, Update!InstalledIsWhole, Update!InstalledIsListed,
     Update!FailureKeepsBinary, Update!ToldIsLoaded, Update!Steps, Chosen, Staging, Replaced,
     Update!TypeOK

\* The steps of the one self-update: it is the one whose place changes, and
\* .aldis.new is not the installed binary.
LEMMA UpdateStep ==
  ASSUME UpdateInv, OneAtATime, NEW u \in Updaters,
         Update!Begin(u) \/ Update!Run(u) \/ Update!Kill(u) \/ Update!Again(u)
  PROVE  UpdateInv'
<1> USE DEF UpdateInv, Chosen, Staging, Replaced, Update!Current, Update!InstalledIsWhole,
        Update!InstalledIsListed, Update!FailureKeepsBinary, Update!ToldIsLoaded,
        Update!TypeOK, Update!Steps, Update!Ends, Update!Goto, Update!disk,
        Update!Binary, Update!Versions
<1>0. Updaters = {u} /\ Update!Parameters
  BY Instances DEF OneAtATime
<1>1. CASE Update!Begin(u)
  BY <1>0, <1>1 DEF Update!Begin
<1>2. CASE \E s \in {"check", "manifest", "archive", "extract", "stage", "mode", "rename"} :
                Update!Fails(u, s)
  BY <1>0, <1>2 DEF Update!Fails
<1>3. CASE Update!CheckRelease(u)
  BY <1>0, <1>3 DEF Update!CheckRelease, Update!IsUpToDate
<1>4. CASE Update!FetchManifest(u)
  BY <1>0, <1>4 DEF Update!FetchManifest
<1>5. CASE Update!FetchArchive(u)
  BY <1>0, <1>5 DEF Update!FetchArchive
<1>6. CASE Update!VerifyArchive(u)
  BY <1>0, <1>6 DEF Update!VerifyArchive
<1>7. CASE Update!Extract(u)
  BY <1>0, <1>7 DEF Update!Extract
<1>8. CASE Update!Stage(u)
  <2> DEFINE f == IF staged # NoFile THEN staged ELSE CHOOSE g \in Update!Unused : TRUE
             new == [version |-> tag[u], whole |-> FALSE, listed |-> archive[u] = "listed",
                     executable |-> FALSE]
  <2>1. f \in Files /\ f # exe /\ f # before[u] /\ f # NoFile
    <3>1. CASE staged # NoFile
      BY <1>0, <1>8, <3>1 DEF Update!Stage
    <3>2. CASE staged = NoFile
      <4>1. Update!Unused # {}
        BY <1>8, <3>2 DEF Update!Stage
      <4>2. f \in Update!Unused
        BY <3>2, <4>1
      <4> QED
        BY <1>0, <1>8, <4>2 DEF Update!Unused, Update!Parameters, Update!Stage
    <3> QED
      BY <3>1, <3>2
  <2>2. /\ at[u] = "stage" /\ at' = [at EXCEPT ![u] = "copy"]
        /\ staged' = f /\ writing' = [writing EXCEPT ![u] = f]
        /\ lastOpen' = [lastOpen EXCEPT ![f] = u] /\ binary' = [binary EXCEPT ![f] = new]
        /\ UNCHANGED <<exe, latest, tag, archive, before, agent, kills>>
    BY <1>8 DEF Update!Stage
  <2>3. new \in Update!Binary
    BY <1>0, <2>2
  <2> HIDE DEF f, new
  <2>4. Update!TypeOK'
    BY <1>0, <2>1, <2>2, <2>3
  <2> QED
    BY <1>0, <2>1, <2>2, <2>4
<1>9. CASE Update!Copy(u)
  BY <1>0, <1>9 DEF Update!Copy
<1>10. CASE Update!CopyFails(u)
  BY <1>0, <1>10 DEF Update!CopyFails
<1>11. CASE Update!MarkExecutable(u)
  <2>1. /\ at[u] = "mode" /\ staged # NoFile /\ at' = [at EXCEPT ![u] = "rename"]
        /\ binary' = [binary EXCEPT ![staged].executable = TRUE]
        /\ UNCHANGED <<exe, staged, lastOpen, latest, tag, archive, writing, before, agent,
                       kills>>
    BY <1>11 DEF Update!MarkExecutable
  <2>2. [binary[staged] EXCEPT !.executable = TRUE] \in Update!Binary
    <3>1. binary[staged] \in Update!Binary
      BY <2>1
    <3> QED
      BY <3>1
  <2>3. Update!TypeOK'
    BY <1>0, <2>1, <2>2
  <2> QED
    BY <1>0, <2>1, <2>3
<1>12. CASE Update!Rename(u)
  BY <1>0, <1>12 DEF Update!Rename
<1>13. CASE Update!AskAgent(u)
  BY <1>0, <1>13 DEF Update!AskAgent
<1>14. CASE Update!RestartAgent(u)
  <2>1. Update!TypeOK'
    BY <1>0, <1>14 DEF Update!RestartAgent, Update!Loaded, Update!Units, Update!Parameters
  <2> QED
    BY <1>0, <1>14, <2>1 DEF Update!RestartAgent, Update!Loaded
<1>15. CASE Update!Kill(u)
  <2>1. Update!TypeOK'
    BY <1>0, <1>15 DEF Update!Kill, Update!Units, Update!Parameters
  <2> QED
    BY <1>0, <1>15, <2>1 DEF Update!Kill
<1>16. CASE Update!Again(u)
  <2>1. Update!TypeOK'
    BY <1>0, <1>16 DEF Update!Again, Update!Units, Update!Parameters
  <2> QED
    BY <1>0, <1>16, <2>1 DEF Update!Again
<1> QED
  BY <1>1, <1>2, <1>3, <1>4, <1>5, <1>6, <1>7, <1>8, <1>9, <1>10, <1>11, <1>12,
     <1>13, <1>14, <1>15, <1>16 DEF Update!Run

\* Around it: releases are published, others start and stop the agent, which
\* loads what is installed.
LEMMA UpdateHostStep ==
  ASSUME UpdateInv, OneAtATime,
         Update!Publish \/ Update!StartAgent \/ Update!StopAgent \/ UNCHANGED Update!vars
  PROVE  UpdateInv'
<1> USE DEF UpdateInv, Chosen, Staging, Replaced, Update!Current, Update!InstalledIsWhole,
        Update!InstalledIsListed, Update!FailureKeepsBinary, Update!ToldIsLoaded,
        Update!TypeOK, Update!Binary, Update!Versions, Update!disk, Update!updater
<1>1. CASE Update!Publish
  BY <1>1 DEF Update!Publish
<1>2. CASE Update!StartAgent
  BY <1>2 DEF Update!StartAgent, Update!Loaded, Update!Units
<1>3. CASE Update!StopAgent
  BY <1>3 DEF Update!StopAgent, Update!Units
<1>4. CASE UNCHANGED Update!vars
  BY <1>4 DEF Update!vars
<1> QED
  BY <1>1, <1>2, <1>3, <1>4

\* Only a rename changes what is installed, and to what was chosen.
LEMMA UpdateOnlyUpgrades ==
  ASSUME UpdateInv, Update!Next
  PROVE  Update!OnlyUpgrades
<1>1. ASSUME NEW u \in Updaters, Update!Rename(u), exe' # exe
      PROVE  binary'[exe'].version > binary[exe].version
  BY <1>1 DEF Update!Rename, UpdateInv, Chosen, Staging, Update!Current,
     Update!FailureKeepsBinary, Update!Steps
<1>2. ASSUME NEW u \in Updaters, Update!Run(u), ~Update!Rename(u)
      PROVE  exe' = exe
  BY <1>2 DEF Update!Run, Update!Fails, Update!CheckRelease, Update!FetchManifest,
     Update!FetchArchive, Update!VerifyArchive, Update!Extract, Update!Stage, Update!Copy,
     Update!CopyFails, Update!MarkExecutable, Update!AskAgent, Update!RestartAgent, Update!disk
<1>3. CASE Update!Publish \/ Update!StartAgent \/ Update!StopAgent
  BY <1>3 DEF Update!Publish, Update!StartAgent, Update!StopAgent, Update!disk,
     Update!OnlyUpgrades
<1>4. ASSUME NEW u \in Updaters, Update!Begin(u) \/ Update!Kill(u) \/ Update!Again(u)
      PROVE  exe' = exe
  BY <1>4 DEF Update!Begin, Update!Kill, Update!Again, Update!disk
<1> QED
  BY <1>1, <1>2, <1>3, <1>4 DEF Update!Next, Update!OnlyUpgrades

\* The agent is restarted after the rename.
LEMMA UpdateRestartsForNewer ==
  ASSUME UpdateInv
  PROVE  Update!RestartsForNewer
  BY DEF UpdateInv, Chosen, Replaced, Update!Current, Update!RestartsForNewer, Update!Steps

\* One self-update at a time, whatever is published meanwhile, whoever starts
\* or stops the agent and wherever a call fails or the command is killed: the
\* installed path names one whole executable of a listed archive, replaced by
\* a later release only, and what is said of the agent is true
\* (install_binary, restart_agent_if_running).
THEOREM SelfUpdateIsAtomic == OneAtATime => (Spec => SelfUpdateIsSafe)
<1> SUFFICES ASSUME OneAtATime PROVE Spec => SelfUpdateIsSafe
  OBVIOUS
<1> DEFINE Kept == command = "self-update" => UpdateInv
           Word == command = "self-update" => Update!OnlyUpgrades /\ Update!RestartsForNewer
<1>1. Init => Kept
  BY UpdateInit DEF Init
<1>2. Kept /\ [Next]_vars => Kept'
  <2> SUFFICES ASSUME Kept, [Next]_vars PROVE Kept'
    OBVIOUS
  <2>1. CASE command = "self-update" /\ Update!Next
    BY <2>1, UpdateStep, UpdateHostStep DEF Update!Next
  <2>2. CASE UNCHANGED vars
    <3>1. UNCHANGED Update!vars /\ command' = command
      BY <2>2 DEF vars, Update!vars, Update!disk, Update!updater
    <3> QED
      BY <3>1, UpdateHostStep
  <2>3. CASE command # "self-update" /\ command' = command
    BY <2>3
  <2> QED
    BY <2>1, <2>2, <2>3 DEF Next
<1>3. Kept /\ [Next]_vars => [Word]_vars
  BY UpdateOnlyUpgrades, UpdateRestartsForNewer DEF Next
<1>4. Kept => (command = "self-update" =>
                 /\ Update!TypeOK /\ Update!InstalledIsWhole /\ Update!InstalledIsListed
                 /\ Update!FailureKeepsBinary /\ Update!ToldIsLoaded)
  BY DEF UpdateInv
<1> QED
  BY <1>1, <1>2, <1>3, <1>4, PTL DEF Spec, SelfUpdateIsSafe

-----------------------------------------------------------------------------
(* The lock. *)

Existing == {i \in Inodes : owner[i] # Nobody}

\* A lock that is held is that of a file that exists; each cleaning of /tmp
\* lets one more be created.  Nothing is taken from an attempt that found a
\* shared file.
LockInv ==
    /\ Lock!TypeOK /\ Lock!SettledFileOpens /\ Lock!CreatedForAll
    /\ path # NoFile => owner[path] # Nobody
    /\ \A p \in Processes : file[p] # NoFile => owner[file[p]] # Nobody
    /\ \A p \in Processes : at[p] = "held" => flock[file[p]] = p
    /\ settled # {} => path \in shared
    /\ \A p \in Processes : at[p] = "create" => p \notin settled
    /\ IsFiniteSet(Existing)
    /\ Cardinality(Existing) <= cleans + (IF path = NoFile THEN 0 ELSE 1)

\* No file, no lock.
LEMMA LockInit ==
  ASSUME Lock!Init
  PROVE  LockInv
<1>1. Lock!TypeOK
  BY Instances DEF Lock!Init, Lock!TypeOK, Lock!Parameters, Lock!Labels
<1>2. Existing = {}
  BY DEF Lock!Init, Existing
<1>3. IsFiniteSet(Existing) /\ Cardinality(Existing) = 0
  BY <1>2, FS_EmptySet
<1> QED
  BY <1>1, <1>3 DEF Lock!Init, LockInv, Lock!SettledFileOpens, Lock!CreatedForAll

\* A file is created only where the path names none.
LEMMA Created ==
  ASSUME LockInv, NEW i \in Inodes, owner[i] = Nobody, NEW a \in Accounts,
         owner' = [owner EXCEPT ![i] = a]
  PROVE  /\ Existing' = Existing \cup {i}
         /\ IsFiniteSet(Existing') /\ Cardinality(Existing') = Cardinality(Existing) + 1
<1>1. a # Nobody
  BY Instances DEF Lock!Parameters
<1>2. Existing' = Existing \cup {i} /\ i \notin Existing
  BY <1>1 DEF Existing, LockInv, Lock!TypeOK
<1> QED
  BY <1>2, FS_AddElement DEF LockInv

\* An attempt at the lock, its end and the death of a process.
LEMMA LockStep ==
  ASSUME LockInv, NEW p \in Processes,
         Lock!Begin(p) \/ Lock!Acquire(p) \/ Lock!Drop(p) \/ Lock!Kill(p)
  PROVE  LockInv'
<1> USE DEF LockInv, Lock!TypeOK, Lock!SettledFileOpens, Lock!CreatedForAll, Lock!Labels,
        Lock!Goto, Lock!Give, Lock!files
<1>0. Lock!Parameters
  BY Instances
<1>1. CASE Lock!Begin(p)
  BY <1>0, <1>1 DEF Lock!Begin, Lock!Parameters, Existing
<1>2. CASE Lock!Open(p)
  BY <1>0, <1>2 DEF Lock!Open, Lock!Parameters, Lock!MayRead, Existing
<1>3. CASE Lock!Create(p)
  <2>1. CASE path = NoFile
    <3> DEFINE i == Lock!NextInode
    <3>1. /\ at[p] = "create" /\ i \in Inodes /\ owner[i] = Nobody
          /\ path' = i /\ owner' = [owner EXCEPT ![i] = AccountOf[p]]
          /\ shared' = IF p \in Strict THEN shared ELSE shared \cup {i}
          /\ file' = [file EXCEPT ![p] = i] /\ at' = [at EXCEPT ![p] = "chmod"]
          /\ UNCHANGED <<answer, flock, settled, cleans, kills>>
      BY <1>3, <2>1 DEF Lock!Create, Lock!NextInode, Lock!Unused
    <3> HIDE DEF i
    <3>2. AccountOf[p] \in Accounts /\ AccountOf[p] # Nobody
      BY <1>0 DEF Lock!Parameters
    <3>3. /\ IsFiniteSet(Existing') /\ Cardinality(Existing') = Cardinality(Existing) + 1
          /\ Cardinality(Existing) \in Nat
      BY <3>1, <3>2, Created, FS_CardinalityType
    <3>4. settled = {}
      BY <1>0, <2>1 DEF Lock!Parameters
    <3>5. Lock!TypeOK'
      BY <1>0, <3>1, <3>2 DEF Lock!Parameters
    <3>6. Lock!SettledFileOpens' /\ Lock!CreatedForAll'
      BY <3>1, <3>4
    <3>7. cleans \in Nat /\ i # NoFile
      BY <1>0, <3>1 DEF Lock!Parameters
    <3> QED
      BY <2>1, <3>1, <3>2, <3>3, <3>4, <3>5, <3>6, <3>7
  <2>2. CASE path # NoFile
    <3>1. /\ UNCHANGED <<path, owner, shared, flock, settled, cleans, kills>>
          /\ at[p] = "create" /\ p \notin settled
      BY <1>3, <2>2 DEF Lock!Create
    <3>2. Existing' = Existing
      BY <3>1 DEF Existing
    <3>3. CASE /\ at' = [at EXCEPT ![p] = "chmod"] /\ file' = [file EXCEPT ![p] = path]
               /\ answer' = answer
      <4>1. Lock!TypeOK'
        BY <1>0, <2>2, <3>1, <3>3 DEF Lock!Parameters
      <4>2. Lock!CreatedForAll'
        BY <1>0, <2>2, <3>1, <3>3
      <4> QED
        BY <2>2, <3>1, <3>2, <3>3, <4>1, <4>2
    <3>4. CASE Lock!Give(p, "io")
      <4>1. Lock!TypeOK'
        BY <1>0, <2>2, <3>1, <3>4 DEF Lock!Parameters
      <4>2. Lock!CreatedForAll'
        BY <1>0, <2>2, <3>1, <3>4
      <4> QED
        BY <2>2, <3>1, <3>2, <3>4, <4>1, <4>2
    <3> QED
      BY <1>3, <2>2, <3>3, <3>4 DEF Lock!Create
  <2> QED
    BY <2>1, <2>2
<1>4. CASE Lock!SetPermissions(p)
  BY <1>0, <1>4 DEF Lock!SetPermissions, Lock!Parameters, Existing
<1>5. CASE Lock!TryLock(p)
  BY <1>0, <1>5 DEF Lock!TryLock, Lock!Parameters, Existing
<1>6. CASE Lock!Drop(p)
  BY <1>0, <1>6 DEF Lock!Drop, Lock!Unlocked, Lock!Parameters, Existing
<1>7. CASE Lock!Kill(p)
  BY <1>0, <1>7 DEF Lock!Kill, Lock!Unlocked, Lock!Parameters, Existing
<1> QED
  BY <1>1, <1>2, <1>3, <1>4, <1>5, <1>6, <1>7 DEF Lock!Acquire

\* A cleaning of /tmp unlinks the file that the path names.
LEMMA LockCleaned ==
  ASSUME LockInv, Lock!Clean
  PROVE  LockInv'
<1>1. Existing' = Existing
  BY DEF Lock!Clean, Existing
<1>2. Cardinality(Existing) \in Nat
  BY FS_CardinalityType DEF LockInv
<1>3. cleans \in Nat /\ cleans' = cleans + 1
  BY Instances DEF Lock!Clean, LockInv, Lock!TypeOK, Lock!Parameters
<1>4. Lock!TypeOK'
  BY Instances DEF Lock!Clean, LockInv, Lock!TypeOK, Lock!Parameters
<1> QED
  BY <1>1, <1>2, <1>3, <1>4 DEF Lock!Clean, LockInv, Lock!TypeOK, Lock!SettledFileOpens,
     Lock!CreatedForAll

\* A step of nothing.
LEMMA LockStutters ==
  ASSUME LockInv, UNCHANGED Lock!vars
  PROVE  LockInv'
  BY DEF LockInv, Existing, Lock!TypeOK, Lock!SettledFileOpens, Lock!CreatedForAll,
     Lock!vars, Lock!files

\* Holders hold different files that exist, and none of them is the file of
\* one that is just granted a lock.
LEMMA RoomForAnother ==
  ASSUME LockInv, NEW p \in Processes, at[p] = "lock", flock[file[p]] = Nobody
  PROVE  IsFiniteSet(Lock!Holders) /\ Cardinality(Lock!Holders) < cleans + 1
<1> DEFINE f == [q \in Lock!Holders |-> file[q]]
           T == Existing \ {file[p]}
<1>1. Nobody \notin Processes
  BY Instances DEF Lock!Parameters
<1>2. file[p] \in Existing
  BY DEF LockInv, Lock!TypeOK, Existing
<1>3. ASSUME NEW q \in Lock!Holders
      PROVE  q \in Processes /\ flock[file[q]] = q /\ file[q] \in T
  BY <1>1 DEF LockInv, Lock!TypeOK, Lock!Holders, Existing
<1>4. f \in [Lock!Holders -> T] /\ IsInjective(f)
  BY <1>3 DEF IsInjective
<1>5. f \in Injection(Lock!Holders, T)
  BY <1>4 DEF Injection
<1>6. IsFiniteSet(T) /\ Cardinality(T) = Cardinality(Existing) - 1
  BY <1>2, FS_RemoveElement DEF LockInv
<1> HIDE DEF f, T
<1>7. IsFiniteSet(Lock!Holders) /\ Cardinality(Lock!Holders) <= Cardinality(T)
  BY <1>5, <1>6, FS_Injection
<1>8. cleans \in Nat /\ Cardinality(Existing) \in Nat /\ Cardinality(Lock!Holders) \in Nat
  BY <1>7, FS_CardinalityType, Instances DEF LockInv, Lock!TypeOK, Lock!Parameters
<1> QED
  BY <1>6, <1>7, <1>8 DEF LockInv

\* The contract counts as the library does.
LEMMA SameCardinality ==
  \A S : Lock!Contract!Cardinality(S) = Cardinality(S)
BY Zenon DEF Lock!Contract!Cardinality, Cardinality

\* Every step takes the abstract lock, gives it up, makes room, or is none of
\* its business.
LEMMA LockRuns ==
  ASSUME LockInv, Lock!Next
  PROVE  Lock!Contract!Next \/ UNCHANGED Lock!Contract!vars
<1> USE DEF LockInv, Lock!TypeOK, Lock!Holders, Lock!Goto, Lock!Give, Lock!files,
        Lock!Contract!vars
<1>1. ASSUME NEW p \in Processes, Lock!Begin(p) \/ Lock!Open(p) \/ Lock!Create(p) \/
                                 Lock!SetPermissions(p)
      PROVE  UNCHANGED Lock!Contract!vars
  BY <1>1 DEF Lock!Begin, Lock!Open, Lock!Create, Lock!SetPermissions
<1>2. ASSUME NEW p \in Processes, Lock!TryLock(p)
      PROVE  Lock!Contract!Next \/ UNCHANGED Lock!Contract!vars
  <2>1. CASE flock[file[p]] = Nobody
    <3>1. /\ p \notin Lock!Holders /\ Lock!Holders' = Lock!Holders \cup {p}
          /\ at[p] = "lock" /\ cleans' = cleans
      BY <1>2, <2>1 DEF Lock!TryLock
    <3>2. Lock!Contract!Cardinality(Lock!Holders) < cleans + 1
      BY <2>1, <3>1, RoomForAnother, SameCardinality
    <3> QED
      BY <3>1, <3>2 DEF Lock!Contract!Next, Lock!Contract!Take
  <2>2. CASE flock[file[p]] # Nobody
    BY <1>2, <2>2 DEF Lock!TryLock
  <2> QED
    BY <2>1, <2>2
<1>3. ASSUME NEW p \in Processes, Lock!Drop(p) \/ Lock!Kill(p)
      PROVE  Lock!Contract!Next \/ UNCHANGED Lock!Contract!vars
  <2>1. Lock!Holders' = Lock!Holders \ {p} /\ cleans' = cleans
    BY <1>3 DEF Lock!Drop, Lock!Kill
  <2> QED
    BY <2>1 DEF Lock!Contract!Next, Lock!Contract!Release
<1>4. CASE Lock!Clean
  BY <1>4 DEF Lock!Clean, Lock!Contract!Next, Lock!Contract!Unlink
<1> QED
  BY <1>1, <1>2, <1>3, <1>4 DEF Lock!Next, Lock!Acquire

\* Whatever is created in a race, refused, killed or cleaned away, and for
\* every umask: the lock file is the abstract lock, which each cleaning of
\* /tmp makes room in for one more; who finds a shared file is never refused
\* it, and one that nobody died creating is open to all (lock.rs).  That
\* nobody waits for it is left to the run.
THEOREM LockSerializes == Spec => LockIsSafe
<1> DEFINE Kept == command = "lock" => LockInv
           Word == command = "lock" => Lock!Contract!Next \/ UNCHANGED Lock!Contract!vars
<1>1. Init => Kept
  BY LockInit DEF Init
<1>2. Kept /\ [Next]_vars => Kept'
  <2> SUFFICES ASSUME Kept, [Next]_vars PROVE Kept'
    OBVIOUS
  <2>1. CASE command = "lock" /\ Lock!Next
    BY <2>1, LockStep, LockCleaned DEF Lock!Next
  <2>2. CASE UNCHANGED vars
    <3>1. UNCHANGED Lock!vars /\ command' = command
      BY <2>2 DEF vars, Lock!vars, Lock!files
    <3> QED
      BY <3>1, LockStutters
  <2>3. CASE command # "lock" /\ command' = command
    BY <2>3
  <2> QED
    BY <2>1, <2>2, <2>3 DEF Next
<1>3. Kept /\ [Next]_vars => [Word]_vars
  BY LockRuns DEF Next
<1>4. Init => (command = "lock" => Lock!Contract!Init)
  BY DEF Init, Lock!Init, Lock!Contract!Init, Lock!Holders
<1>5. Kept => (command = "lock" => Lock!TypeOK /\ Lock!SettledFileOpens /\ Lock!CreatedForAll)
  BY DEF LockInv
<1> QED
  BY <1>1, <1>2, <1>3, <1>4, <1>5, PTL DEF Spec, LockIsSafe

-----------------------------------------------------------------------------
(* Reboot: both of its instances are those that Reboot_proofs is about. *)

ManyP == INSTANCE Reboot_proofs
OneP == INSTANCE Reboot_proofs WITH
    Places <- OnePlace, Ttys <- ManyTtys, Devices <- AllDevices

\* The boards of a host, by the copies of the definitions that the proofs use.
LEMMA BoardsAreProved ==
  /\ Boards!Parameters => ManyP!Parameters
  /\ Boards!Init => ManyP!Init
  /\ Boards!Next => ManyP!Next
  /\ UNCHANGED Boards!vars => UNCHANGED ManyP!vars
  /\ ManyP!TypeOK => Boards!TypeOK
  /\ ManyP!SuccessIsHonest => Boards!SuccessIsHonest
  /\ ManyP!OnlyWithConsent => Boards!OnlyWithConsent
  /\ ManyP!BlankStays => Boards!BlankStays
  /\ ManyP!RecoveredIsWhole => Boards!RecoveredIsWhole
  /\ ManyP!RestartHasReason => Boards!RestartHasReason
<1>1. Boards!Parameters => ManyP!Parameters
  BY Zenon DEF Boards!Parameters, ManyP!Parameters, Boards!NoKind, ManyP!NoKind,
     Boards!Bootloaders, ManyP!Bootloaders, Boards!Serial, ManyP!Serial,
     Boards!Kinds, ManyP!Kinds, Boards!NoRecord, ManyP!NoRecord, Boards!Options,
     ManyP!Options, Boards!States, ManyP!States, Boards!Steps, ManyP!Steps
<1>2. Boards!Init => ManyP!Init
  BY Zenon DEF Boards!Init, ManyP!Init, Boards!NoKind, ManyP!NoKind, Boards!Bootloaders,
     ManyP!Bootloaders, Boards!Serial, ManyP!Serial, Boards!Kinds, ManyP!Kinds,
     Boards!NoRecord, ManyP!NoRecord, Boards!Options, ManyP!Options,
     Boards!States, ManyP!States, Boards!Steps, ManyP!Steps
<1>3. Boards!Next => ManyP!Next
  BY Zenon DEF Boards!Next, ManyP!Next, Boards!vars, ManyP!vars, Boards!bus, ManyP!bus,
     Boards!ghosts, ManyP!ghosts, Boards!visit, ManyP!visit, Boards!NoKind,
     ManyP!NoKind, Boards!Bootloaders, ManyP!Bootloaders, Boards!Serial,
     ManyP!Serial, Boards!Kinds, ManyP!Kinds, Boards!NoRecord, ManyP!NoRecord,
     Boards!Options, ManyP!Options, Boards!States, ManyP!States, Boards!Steps,
     ManyP!Steps, Boards!Goto, ManyP!Goto, Boards!Free, ManyP!Free,
     Boards!Comes, ManyP!Comes, Boards!Goes, ManyP!Goes, Boards!Restarts,
     ManyP!Restarts, Boards!Returns, ManyP!Returns, Boards!Unplugged,
     ManyP!Unplugged, Boards!Plugged, ManyP!Plugged, Boards!KlippyChanges,
     ManyP!KlippyChanges, Boards!World, ManyP!World, Boards!Lock, ManyP!Lock,
     Boards!Detected, ManyP!Detected, Boards!Scan, ManyP!Scan,
     Boards!ScanBeacons, ManyP!ScanBeacons, Boards!Unresolved, ManyP!Unresolved,
     Boards!NextBoard, ManyP!NextBoard, Boards!Probe, ManyP!Probe,
     Boards!Accept, ManyP!Accept, Boards!Decline, ManyP!Decline, Boards!Confirm,
     ManyP!Confirm, Boards!Reached, ManyP!Reached, Boards!Leave, ManyP!Leave,
     Boards!Watch, ManyP!Watch, Boards!NextBeacon, ManyP!NextBeacon, Boards!Ask,
     ManyP!Ask, Boards!Flash, ManyP!Flash, Boards!WatchLeft, ManyP!WatchLeft,
     Boards!WatchApplication, ManyP!WatchApplication, Boards!Exit, ManyP!Exit,
     Boards!ReadState, ManyP!ReadState, Boards!AskRestart, ManyP!AskRestart,
     Boards!SendRestart, ManyP!SendRestart, Boards!Done, ManyP!Done,
     Boards!Command, ManyP!Command
<1>4. UNCHANGED Boards!vars => UNCHANGED ManyP!vars
  BY Zenon DEF Boards!vars, ManyP!vars, Boards!bus, ManyP!bus, Boards!ghosts, ManyP!ghosts,
     Boards!visit, ManyP!visit
<1>5. ManyP!TypeOK => Boards!TypeOK
  BY Zenon DEF Boards!TypeOK, ManyP!TypeOK, Boards!NoKind, ManyP!NoKind, Boards!Bootloaders,
     ManyP!Bootloaders, Boards!Serial, ManyP!Serial, Boards!Kinds, ManyP!Kinds,
     Boards!NoRecord, ManyP!NoRecord, Boards!Options, ManyP!Options,
     Boards!States, ManyP!States, Boards!Steps, ManyP!Steps
<1>6. /\ ManyP!SuccessIsHonest => Boards!SuccessIsHonest
      /\ ManyP!OnlyWithConsent => Boards!OnlyWithConsent
      /\ ManyP!BlankStays => Boards!BlankStays
      /\ ManyP!RecoveredIsWhole => Boards!RecoveredIsWhole
      /\ ManyP!RestartHasReason => Boards!RestartHasReason
  BY Zenon DEF Boards!SuccessIsHonest, ManyP!SuccessIsHonest, Boards!OnlyWithConsent,
     ManyP!OnlyWithConsent, Boards!BlankStays, ManyP!BlankStays,
     Boards!RecoveredIsWhole, ManyP!RecoveredIsWhole, Boards!RestartHasReason,
     ManyP!RestartHasReason, Boards!NoKind, ManyP!NoKind, Boards!Bootloaders,
     ManyP!Bootloaders, Boards!Serial, ManyP!Serial, Boards!Kinds, ManyP!Kinds,
     Boards!NoRecord, ManyP!NoRecord, Boards!Options, ManyP!Options,
     Boards!States, ManyP!States, Boards!Steps, ManyP!Steps
<1> QED
  BY <1>1, <1>2, <1>3, <1>4, <1>5, <1>6

\* And one alone.
LEMMA BoardIsProved ==
  /\ Board!Parameters => OneP!Parameters
  /\ Board!Init => OneP!Init
  /\ Board!Next => OneP!Next
  /\ UNCHANGED Board!vars => UNCHANGED OneP!vars
  /\ OneP!TypeOK => Board!TypeOK
  /\ OneP!SuccessIsHonest => Board!SuccessIsHonest
  /\ OneP!OnlyWithConsent => Board!OnlyWithConsent
  /\ OneP!BlankStays => Board!BlankStays
  /\ OneP!RecoveredIsWhole => Board!RecoveredIsWhole
  /\ OneP!RestartHasReason => Board!RestartHasReason
<1>1. Board!Parameters => OneP!Parameters
  BY Zenon DEF Board!Parameters, OneP!Parameters, Board!NoKind, OneP!NoKind, Board!Bootloaders,
     OneP!Bootloaders, Board!Serial, OneP!Serial, Board!Kinds, OneP!Kinds,
     Board!NoRecord, OneP!NoRecord, Board!Options, OneP!Options, Board!States,
     OneP!States, Board!Steps, OneP!Steps
<1>2. Board!Init => OneP!Init
  BY Zenon DEF Board!Init, OneP!Init, Board!NoKind, OneP!NoKind, Board!Bootloaders,
     OneP!Bootloaders, Board!Serial, OneP!Serial, Board!Kinds, OneP!Kinds,
     Board!NoRecord, OneP!NoRecord, Board!Options, OneP!Options, Board!States,
     OneP!States, Board!Steps, OneP!Steps
<1>3. Board!Next => OneP!Next
  BY Zenon DEF Board!Next, OneP!Next, Board!vars, OneP!vars, Board!bus, OneP!bus, Board!ghosts,
     OneP!ghosts, Board!visit, OneP!visit, Board!NoKind, OneP!NoKind,
     Board!Bootloaders, OneP!Bootloaders, Board!Serial, OneP!Serial,
     Board!Kinds, OneP!Kinds, Board!NoRecord, OneP!NoRecord, Board!Options,
     OneP!Options, Board!States, OneP!States, Board!Steps, OneP!Steps,
     Board!Goto, OneP!Goto, Board!Free, OneP!Free, Board!Comes, OneP!Comes,
     Board!Goes, OneP!Goes, Board!Restarts, OneP!Restarts, Board!Returns,
     OneP!Returns, Board!Unplugged, OneP!Unplugged, Board!Plugged, OneP!Plugged,
     Board!KlippyChanges, OneP!KlippyChanges, Board!World, OneP!World,
     Board!Lock, OneP!Lock, Board!Detected, OneP!Detected, Board!Scan,
     OneP!Scan, Board!ScanBeacons, OneP!ScanBeacons, Board!Unresolved,
     OneP!Unresolved, Board!NextBoard, OneP!NextBoard, Board!Probe, OneP!Probe,
     Board!Accept, OneP!Accept, Board!Decline, OneP!Decline, Board!Confirm,
     OneP!Confirm, Board!Reached, OneP!Reached, Board!Leave, OneP!Leave,
     Board!Watch, OneP!Watch, Board!NextBeacon, OneP!NextBeacon, Board!Ask,
     OneP!Ask, Board!Flash, OneP!Flash, Board!WatchLeft, OneP!WatchLeft,
     Board!WatchApplication, OneP!WatchApplication, Board!Exit, OneP!Exit,
     Board!ReadState, OneP!ReadState, Board!AskRestart, OneP!AskRestart,
     Board!SendRestart, OneP!SendRestart, Board!Done, OneP!Done, Board!Command,
     OneP!Command
<1>4. UNCHANGED Board!vars => UNCHANGED OneP!vars
  BY Zenon DEF Board!vars, OneP!vars, Board!bus, OneP!bus, Board!ghosts, OneP!ghosts,
     Board!visit, OneP!visit
<1>5. OneP!TypeOK => Board!TypeOK
  BY Zenon DEF Board!TypeOK, OneP!TypeOK, Board!NoKind, OneP!NoKind, Board!Bootloaders,
     OneP!Bootloaders, Board!Serial, OneP!Serial, Board!Kinds, OneP!Kinds,
     Board!NoRecord, OneP!NoRecord, Board!Options, OneP!Options, Board!States,
     OneP!States, Board!Steps, OneP!Steps
<1>6. /\ OneP!SuccessIsHonest => Board!SuccessIsHonest
      /\ OneP!OnlyWithConsent => Board!OnlyWithConsent
      /\ OneP!BlankStays => Board!BlankStays
      /\ OneP!RecoveredIsWhole => Board!RecoveredIsWhole
      /\ OneP!RestartHasReason => Board!RestartHasReason
  BY Zenon DEF Board!SuccessIsHonest, OneP!SuccessIsHonest, Board!OnlyWithConsent,
     OneP!OnlyWithConsent, Board!BlankStays, OneP!BlankStays,
     Board!RecoveredIsWhole, OneP!RecoveredIsWhole, Board!RestartHasReason,
     OneP!RestartHasReason, Board!NoKind, OneP!NoKind, Board!Bootloaders,
     OneP!Bootloaders, Board!Serial, OneP!Serial, Board!Kinds, OneP!Kinds,
     Board!NoRecord, OneP!NoRecord, Board!Options, OneP!Options, Board!States,
     OneP!States, Board!Steps, OneP!Steps
<1> QED
  BY <1>1, <1>2, <1>3, <1>4, <1>5, <1>6

\* However many boards there are, whatever is plugged in and taken out between
\* the scan and the use of what it found: nothing is told or written that its
\* own prompt did not allow, a blank flash is not started, success leaves no
\* board behind and every Beacon that was written whole, and Klipper is
\* restarted for a Beacon that came back, whole if it is the only one
\* (reboot.rs).  That the command ends is left to the run.
THEOREM RebootAsksAndTells == Spec => RebootIsSafe
<1> DEFINE Kept == /\ command = "reboot all" => ManyP!RebootInv
                   /\ command = "reboot one" => OneP!RebootInv
<1>0. ManyP!Parameters /\ OneP!Parameters
  BY Instances, BoardsAreProved, BoardIsProved
<1>1. Init => Kept
  BY <1>0, BoardsAreProved, BoardIsProved, ManyP!RebootInit, OneP!RebootInit DEF Init
<1>2. Kept /\ [Next]_vars => Kept'
  <2> SUFFICES ASSUME Kept, [Next]_vars PROVE Kept'
    OBVIOUS
  <2>1. CASE command = "reboot all" /\ Boards!Next /\ command' = command
    BY <1>0, <2>1, BoardsAreProved, ManyP!RebootStep
  <2>2. CASE command = "reboot one" /\ Board!Next /\ command' = command
    BY <1>0, <2>2, BoardIsProved, OneP!RebootStep
  <2>3. CASE UNCHANGED vars
    <3>1. UNCHANGED Boards!vars /\ UNCHANGED Board!vars /\ command' = command
      BY <2>3 DEF vars, Boards!vars, Boards!bus, Boards!ghosts, Boards!visit, Board!vars,
         Board!bus, Board!ghosts, Board!visit
    <3> QED
      BY <3>1, BoardsAreProved, BoardIsProved, ManyP!RebootStutters, OneP!RebootStutters
  <2>4. CASE command \notin {"reboot all", "reboot one"} /\ command' = command
    BY <2>4
  <2> QED
    BY <2>1, <2>2, <2>3, <2>4 DEF Next
<1>3. Kept =>
        /\ command = "reboot all" =>
             /\ Boards!TypeOK /\ Boards!SuccessIsHonest /\ Boards!OnlyWithConsent
             /\ Boards!BlankStays /\ Boards!RestartHasReason
             /\ pc = "success" => Boards!RecoveredIsWhole
        /\ command = "reboot one" =>
             /\ Board!TypeOK /\ Board!SuccessIsHonest /\ Board!OnlyWithConsent
             /\ Board!BlankStays /\ Board!RecoveredIsWhole /\ Board!RestartHasReason
  <2>1. ManyP!RebootInv => /\ ManyP!TypeOK /\ ManyP!SuccessIsHonest
                           /\ ManyP!OnlyWithConsent /\ ManyP!BlankStays
                           /\ ManyP!RestartHasReason
                           /\ pc = "success" => ManyP!RecoveredIsWhole
    BY ManyP!RebootPromises DEF ManyP!RebootInv
  <2>2. OneP!RebootInv => /\ OneP!TypeOK /\ OneP!SuccessIsHonest /\ OneP!OnlyWithConsent
                          /\ OneP!BlankStays /\ OneP!RecoveredIsWhole /\ OneP!RestartHasReason
    BY Instances, OneP!RebootPromises DEF OneP!RebootInv
  <2> QED
    BY <2>1, <2>2, BoardsAreProved, BoardIsProved
<1> QED
  BY <1>1, <1>2, <1>3, PTL DEF Spec, RebootIsSafe

=============================================================================

----------------------------- MODULE Commands -----------------------------
(***************************************************************************)
(* Commands of a host: the update lock that they take (LockFile),          *)
(* `aldis self-update` (SelfUpdate), `aldis reboot` (Reboot), `aldis setup`*)
(* (Setup), `aldis flash` (FlashCommand) and the rule between the printers *)
(* of a host that a flash and an update follow (Fleet).  A behaviour is    *)
(* one of these models alone, named by `command`; variables it does not    *)
(* have are Absent.                                                        *)
(***************************************************************************)
EXTENDS Naturals

CONSTANTS
    None, Nobody, NoFile, Torn, Absent,
    Processes, Accounts, Root, AccountOf, Strict, Protected,    \* of LockFile
    Inodes, MaxCleans, MaxDeaths,
    Updaters, Files, Installed, Newest, MaxKills,               \* of SelfUpdate
    Places, Ttys, Devices, OnePlace, ManyTtys, AllDevices,      \* of Reboot, twice
    NoTty, MaxMoves,
    Users, Urls, MaxRelease,                                    \* of Setup
    MaxOutside,                                                 \* of FlashCommand
    Own, HostUnits, Buses, Hosts                                \* of Fleet

VARIABLES
    command,  \* the model that runs
    path, owner, shared, flock, at, file, settled, answer, cleans, kills,
    exe, staged, binary, lastOpen, latest, tag, archive, writing, before,
    agent, pc, options, tty, flash, klippy, moves, found, beacons, pending,
    current, resolved, recovered, read, stayed, departed, accepted,
    declined, told, written, restarted, release, rules, loaded, applied,
    policy, protected, unit, enabled, running, lists, kind, account, left,
    skipped, outcome, force, disk, agreed, printing, firstObserved, device,
    held, idleSince, outside, host, state, wasIdle, probe, readings, down

-----------------------------------------------------------------------------
Lock == INSTANCE LockFile WITH MaxKills <- MaxDeaths

Update == INSTANCE SelfUpdate

\* Every board of a host, and one alone.
Boards == INSTANCE Reboot
Board == INSTANCE Reboot WITH
    Places <- OnePlace, Ttys <- ManyTtys, Devices <- AllDevices

SetUp == INSTANCE Setup

FlashFile == INSTANCE FlashCommand

Rule == INSTANCE Fleet WITH Units <- HostUnits

ASSUME Instances ==
    /\ Lock!Parameters /\ Update!Parameters /\ SetUp!Parameters
    /\ Boards!Parameters /\ Board!Parameters /\ \A p, q \in OnePlace : p = q
    /\ FlashFile!Parameters /\ Rule!Fleets

notLockFile == <<exe, staged, binary, lastOpen, latest, tag, archive, writing, before,
    agent, pc, options, tty, flash, klippy, moves, found, beacons, pending,
    current, resolved, recovered, read, stayed, departed, accepted,
    declined, told, written, restarted, release, rules, loaded, applied,
    policy, protected, unit, enabled, running, lists, kind, account, left,
    skipped, outcome, force, disk, agreed, printing, firstObserved, device,
    held, idleSince, outside, host, state, wasIdle, probe, readings, down>>

notSelfUpdate == <<path, owner, shared, flock, file, settled, answer, cleans, pc, options,
    tty, flash, klippy, moves, found, beacons, pending, current, resolved,
    recovered, read, stayed, departed, accepted, declined, told, written,
    restarted, release, rules, loaded, applied, policy, protected, unit,
    enabled, running, lists, kind, account, left, skipped, outcome, force,
    disk, agreed, printing, firstObserved, device, held, idleSince, outside,
    host, state, wasIdle, probe, readings, down>>

notReboot == <<path, owner, shared, flock, file, settled, answer, cleans, kills, exe,
    staged, binary, lastOpen, latest, tag, archive, writing, before, agent,
    release, rules, loaded, applied, policy, protected, unit, enabled,
    running, lists, kind, account, left, skipped, outcome, force, disk,
    agreed, printing, firstObserved, device, held, idleSince, outside, host,
    state, wasIdle, probe, readings, down>>

notSetup == <<path, owner, shared, flock, at, file, settled, answer, cleans, kills,
    exe, staged, binary, lastOpen, latest, tag, archive, writing, before,
    agent, options, tty, flash, klippy, moves, found, beacons, pending,
    current, resolved, recovered, stayed, departed, accepted, declined,
    told, written, restarted, force, disk, agreed, printing, firstObserved,
    device, held, idleSince, outside, host, state, wasIdle, probe, readings,
    down>>

notFlashCommand == <<path, owner, shared, flock, at, file, settled, answer, cleans, kills,
    exe, staged, binary, lastOpen, latest, tag, archive, writing, before,
    agent, options, tty, flash, klippy, moves, found, beacons, pending,
    current, resolved, recovered, stayed, departed, accepted, declined,
    restarted, release, rules, loaded, applied, policy, protected, enabled,
    running, lists, account, left, skipped, host, state, wasIdle, probe,
    readings, down>>

notFleet == <<path, owner, shared, flock, at, file, settled, answer, cleans, kills,
    exe, staged, binary, lastOpen, latest, tag, archive, writing, before,
    agent, options, tty, flash, klippy, moves, found, beacons, pending,
    current, resolved, recovered, read, stayed, departed, accepted,
    declined, told, written, restarted, release, rules, loaded, applied,
    policy, protected, unit, enabled, running, lists, kind, account,
    skipped, outcome, force, disk, agreed, printing, firstObserved, device,
    held, idleSince, outside>>

LockFileOnly ==
    /\ exe = Absent /\ staged = Absent /\ binary = Absent
    /\ lastOpen = Absent /\ latest = Absent /\ tag = Absent
    /\ archive = Absent /\ writing = Absent /\ before = Absent
    /\ agent = Absent /\ pc = Absent /\ options = Absent /\ tty = Absent
    /\ flash = Absent /\ klippy = Absent /\ moves = Absent /\ found = Absent
    /\ beacons = Absent /\ pending = Absent /\ current = Absent
    /\ resolved = Absent /\ recovered = Absent /\ read = Absent
    /\ stayed = Absent /\ departed = Absent /\ accepted = Absent
    /\ declined = Absent /\ told = Absent /\ written = Absent
    /\ restarted = Absent /\ release = Absent /\ rules = Absent
    /\ loaded = Absent /\ applied = Absent /\ policy = Absent
    /\ protected = Absent /\ unit = Absent /\ enabled = Absent
    /\ running = Absent /\ lists = Absent /\ kind = Absent
    /\ account = Absent /\ left = Absent /\ skipped = Absent
    /\ outcome = Absent /\ force = Absent /\ disk = Absent
    /\ agreed = Absent /\ printing = Absent /\ firstObserved = Absent
    /\ device = Absent /\ held = Absent /\ idleSince = Absent
    /\ outside = Absent /\ host = Absent /\ state = Absent
    /\ wasIdle = Absent /\ probe = Absent /\ readings = Absent
    /\ down = Absent

SelfUpdateOnly ==
    /\ path = Absent /\ owner = Absent /\ shared = Absent /\ flock = Absent
    /\ file = Absent /\ settled = Absent /\ answer = Absent
    /\ cleans = Absent /\ pc = Absent /\ options = Absent /\ tty = Absent
    /\ flash = Absent /\ klippy = Absent /\ moves = Absent /\ found = Absent
    /\ beacons = Absent /\ pending = Absent /\ current = Absent
    /\ resolved = Absent /\ recovered = Absent /\ read = Absent
    /\ stayed = Absent /\ departed = Absent /\ accepted = Absent
    /\ declined = Absent /\ told = Absent /\ written = Absent
    /\ restarted = Absent /\ release = Absent /\ rules = Absent
    /\ loaded = Absent /\ applied = Absent /\ policy = Absent
    /\ protected = Absent /\ unit = Absent /\ enabled = Absent
    /\ running = Absent /\ lists = Absent /\ kind = Absent
    /\ account = Absent /\ left = Absent /\ skipped = Absent
    /\ outcome = Absent /\ force = Absent /\ disk = Absent
    /\ agreed = Absent /\ printing = Absent /\ firstObserved = Absent
    /\ device = Absent /\ held = Absent /\ idleSince = Absent
    /\ outside = Absent /\ host = Absent /\ state = Absent
    /\ wasIdle = Absent /\ probe = Absent /\ readings = Absent
    /\ down = Absent

RebootOnly ==
    /\ path = Absent /\ owner = Absent /\ shared = Absent /\ flock = Absent
    /\ file = Absent /\ settled = Absent /\ answer = Absent
    /\ cleans = Absent /\ kills = Absent /\ exe = Absent /\ staged = Absent
    /\ binary = Absent /\ lastOpen = Absent /\ latest = Absent
    /\ tag = Absent /\ archive = Absent /\ writing = Absent
    /\ before = Absent /\ agent = Absent /\ release = Absent
    /\ rules = Absent /\ loaded = Absent /\ applied = Absent
    /\ policy = Absent /\ protected = Absent /\ unit = Absent
    /\ enabled = Absent /\ running = Absent /\ lists = Absent
    /\ kind = Absent /\ account = Absent /\ left = Absent
    /\ skipped = Absent /\ outcome = Absent /\ force = Absent
    /\ disk = Absent /\ agreed = Absent /\ printing = Absent
    /\ firstObserved = Absent /\ device = Absent /\ held = Absent
    /\ idleSince = Absent /\ outside = Absent /\ host = Absent
    /\ state = Absent /\ wasIdle = Absent /\ probe = Absent
    /\ readings = Absent /\ down = Absent

SetupOnly ==
    /\ path = Absent /\ owner = Absent /\ shared = Absent /\ flock = Absent
    /\ at = Absent /\ file = Absent /\ settled = Absent /\ answer = Absent
    /\ cleans = Absent /\ kills = Absent /\ exe = Absent /\ staged = Absent
    /\ binary = Absent /\ lastOpen = Absent /\ latest = Absent
    /\ tag = Absent /\ archive = Absent /\ writing = Absent
    /\ before = Absent /\ agent = Absent /\ options = Absent /\ tty = Absent
    /\ flash = Absent /\ klippy = Absent /\ moves = Absent /\ found = Absent
    /\ beacons = Absent /\ pending = Absent /\ current = Absent
    /\ resolved = Absent /\ recovered = Absent /\ stayed = Absent
    /\ departed = Absent /\ accepted = Absent /\ declined = Absent
    /\ told = Absent /\ written = Absent /\ restarted = Absent
    /\ force = Absent /\ disk = Absent /\ agreed = Absent
    /\ printing = Absent /\ firstObserved = Absent /\ device = Absent
    /\ held = Absent /\ idleSince = Absent /\ outside = Absent
    /\ host = Absent /\ state = Absent /\ wasIdle = Absent /\ probe = Absent
    /\ readings = Absent /\ down = Absent

FlashCommandOnly ==
    /\ path = Absent /\ owner = Absent /\ shared = Absent /\ flock = Absent
    /\ at = Absent /\ file = Absent /\ settled = Absent /\ answer = Absent
    /\ cleans = Absent /\ kills = Absent /\ exe = Absent /\ staged = Absent
    /\ binary = Absent /\ lastOpen = Absent /\ latest = Absent
    /\ tag = Absent /\ archive = Absent /\ writing = Absent
    /\ before = Absent /\ agent = Absent /\ options = Absent /\ tty = Absent
    /\ flash = Absent /\ klippy = Absent /\ moves = Absent /\ found = Absent
    /\ beacons = Absent /\ pending = Absent /\ current = Absent
    /\ resolved = Absent /\ recovered = Absent /\ stayed = Absent
    /\ departed = Absent /\ accepted = Absent /\ declined = Absent
    /\ restarted = Absent /\ release = Absent /\ rules = Absent
    /\ loaded = Absent /\ applied = Absent /\ policy = Absent
    /\ protected = Absent /\ enabled = Absent /\ running = Absent
    /\ lists = Absent /\ account = Absent /\ left = Absent
    /\ skipped = Absent /\ host = Absent /\ state = Absent
    /\ wasIdle = Absent /\ probe = Absent /\ readings = Absent
    /\ down = Absent

FleetOnly ==
    /\ path = Absent /\ owner = Absent /\ shared = Absent /\ flock = Absent
    /\ at = Absent /\ file = Absent /\ settled = Absent /\ answer = Absent
    /\ cleans = Absent /\ kills = Absent /\ exe = Absent /\ staged = Absent
    /\ binary = Absent /\ lastOpen = Absent /\ latest = Absent
    /\ tag = Absent /\ archive = Absent /\ writing = Absent
    /\ before = Absent /\ agent = Absent /\ options = Absent /\ tty = Absent
    /\ flash = Absent /\ klippy = Absent /\ moves = Absent /\ found = Absent
    /\ beacons = Absent /\ pending = Absent /\ current = Absent
    /\ resolved = Absent /\ recovered = Absent /\ read = Absent
    /\ stayed = Absent /\ departed = Absent /\ accepted = Absent
    /\ declined = Absent /\ told = Absent /\ written = Absent
    /\ restarted = Absent /\ release = Absent /\ rules = Absent
    /\ loaded = Absent /\ applied = Absent /\ policy = Absent
    /\ protected = Absent /\ unit = Absent /\ enabled = Absent
    /\ running = Absent /\ lists = Absent /\ kind = Absent
    /\ account = Absent /\ skipped = Absent /\ outcome = Absent
    /\ force = Absent /\ disk = Absent /\ agreed = Absent
    /\ printing = Absent /\ firstObserved = Absent /\ device = Absent
    /\ held = Absent /\ idleSince = Absent /\ outside = Absent

Init ==
    \/ command = "lock" /\ Lock!Init /\ LockFileOnly
    \/ command = "self-update" /\ Update!Init /\ SelfUpdateOnly
    \/ command = "reboot all" /\ Boards!Init /\ RebootOnly
    \/ command = "reboot one" /\ Board!Init /\ RebootOnly
    \/ command = "setup" /\ SetUp!Init /\ SetupOnly
    \/ command = "flash" /\ FlashFile!Init /\ FlashCommandOnly
    \/ command = "bridge" /\ Rule!Init /\ FleetOnly

Next ==
    \/ command = "lock" /\ Lock!Next /\ UNCHANGED <<command, notLockFile>>
    \/ command = "self-update" /\ Update!Next /\ UNCHANGED <<command, notSelfUpdate>>
    \/ command = "reboot all" /\ Boards!Next /\ UNCHANGED <<command, notReboot>>
    \/ command = "reboot one" /\ Board!Next /\ UNCHANGED <<command, notReboot>>
    \/ command = "setup" /\ SetUp!Next /\ UNCHANGED <<command, notSetup>>
    \/ command = "flash" /\ FlashFile!Next /\ UNCHANGED <<command, notFlashCommand>>
    \/ command = "bridge" /\ Rule!Next /\ UNCHANGED <<command, notFleet>>

vars == <<command, path, owner, shared, flock, at, file, settled, answer, cleans, kills,
    exe, staged, binary, lastOpen, latest, tag, archive, writing, before,
    agent, pc, options, tty, flash, klippy, moves, found, beacons, pending,
    current, resolved, recovered, read, stayed, departed, accepted,
    declined, told, written, restarted, release, rules, loaded, applied,
    policy, protected, unit, enabled, running, lists, kind, account, left,
    skipped, outcome, force, disk, agreed, printing, firstObserved, device,
    held, idleSince, outside, host, state, wasIdle, probe, readings, down>>

\* As in the modules: a process that asked for the lock runs on; the user of
\* a reboot answers and its waits end.
Spec ==
    /\ Init /\ [][Next]_vars
    /\ \A p \in Processes : WF_<<Lock!vars>>(command = "lock" /\ Lock!Acquire(p))
    /\ WF_<<Board!vars>>(command = "reboot one" /\ Board!Command)

-----------------------------------------------------------------------------
(* Properties: of each command, what its module states part by part. *)

\* The lock (lock.rs): it is the abstract lock, into which each cleaning of
\* /tmp lets at most one more process; nobody is refused a shared file that
\* stayed where it was; unless its creator died, a lock file can be opened by
\* every account; and nobody waits for it.
LockIsSafe ==
    /\ command = "lock" => Lock!Contract!Init
    /\ [][command = "lock" => Lock!Contract!Next \/ UNCHANGED Lock!Contract!vars]_vars
    /\ [](command = "lock" =>
            Lock!TypeOK /\ Lock!SettledFileOpens /\ Lock!CreatedForAll)

NobodyWaitsForIt ==
    \A p \in Processes :
      command = "lock" /\ at[p] = "open"
        ~> command = "lock" /\ at[p] \in {"held", "idle"}

LockIsKept == LockIsSafe /\ NobodyWaitsForIt

\* Self-update (install_binary, restart_agent_if_running): the installed path
\* always names one whole executable of a listed archive, the one that was
\* there when the update failed; it is replaced by a later release only, the
\* agent is ended for a newer one only, and what is said of it is true.
SelfUpdateIsSafe ==
    /\ [](command = "self-update" =>
            /\ Update!TypeOK /\ Update!InstalledIsWhole /\ Update!InstalledIsListed
            /\ Update!FailureKeepsBinary /\ Update!ToldIsLoaded)
    /\ [][command = "self-update" => Update!OnlyUpgrades /\ Update!RestartsForNewer]_vars

\* Reboot: no board is told, and no Beacon written, what its own prompt did not
\* ask; a blank flash is not started; a command that succeeds left no board
\* behind and each Beacon that it wrote whole; Klipper is restarted only for a
\* Beacon that came back, which is whole if it is the only one; the command
\* ends, whatever the boards do.
RebootIsSafe ==
    /\ [](command = "reboot all" =>
            /\ Boards!TypeOK /\ Boards!SuccessIsHonest /\ Boards!OnlyWithConsent
            /\ Boards!BlankStays /\ Boards!RestartHasReason
            /\ pc = "success" => Boards!RecoveredIsWhole)
    /\ [](command = "reboot one" =>
            /\ Board!TypeOK /\ Board!SuccessIsHonest /\ Board!OnlyWithConsent
            /\ Board!BlankStays /\ Board!RecoveredIsWhole /\ Board!RestartHasReason)

RebootEnds ==
    command = "reboot one" ~> command = "reboot one" /\ pc \in {"success", "failure"}

RebootIsHonest == RebootIsSafe /\ RebootEnds

\* Setup: sudo never meets half a policy; a setup that succeeds leaves this
\* release's files installed and in use, whatever an earlier one left half
\* done; the agent then runs, or after a removal does not, also after a reboot
\* of the host (install_setup, install_agent, remove_agent).
SetupRepairs ==
    command = "setup" =>
        /\ SetUp!TypeOK /\ SetUp!PolicyIsWhole /\ SetUp!InstalledIsCurrent
        /\ SetUp!AgentRuns /\ SetUp!RemovedStaysOut

\* An explicit flash (run_flash) is a run as RunContract has it; it writes the
\* bytes its user agreed to, spares a print that runs since before the prompt,
\* and tells of a Klipper it leaves stopped.
FlashKeepsItsWord ==
    /\ command = "flash" => FlashFile!Run!Init
    /\ [][command = "flash" =>
            /\ FlashFile!Run!Next \/ UNCHANGED FlashFile!Run!vars
            /\ FlashFile!AgreedPrint]_vars
    /\ [](command = "flash" =>
            /\ FlashFile!TypeOK /\ FlashFile!AgreedIsWritten /\ FlashFile!StoppedIsTold)

\* A bridge is flashed only when the printers on its bus were idle since the
\* run asked, and no MCU over a bus that the run has taken away (check_bridge,
\* flash_order).
BridgesAreSafe ==
    command = "bridge" => Rule!TypeOK /\ Rule!BusWasIdle /\ Rule!BusIsUp
=============================================================================

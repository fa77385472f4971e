-------------------------------- MODULE Reboot --------------------------------
(***************************************************************************)
(* `aldis reboot` (reboot.rs): it scans the USB bus once for boards left   *)
(* in a bootloader, then visits them one after the other: a board is asked *)
(* to start its application, a Beacon is flashed, since its bootloader     *)
(* leaves in no other way, and Klipper is restarted for a Beacon that came *)
(* back.  Prompts and ten-second waits lie between the scan and the use of *)
(* what it found; meanwhile boards are unplugged, restarted and plugged in *)
(* again, and Klipper changes its state.                                   *)
(***************************************************************************)
EXTENDS Naturals, FiniteSets

CONSTANTS
    Places,     \* USB topologies (sysfs paths)
    Ttys,       \* serial device names under /dev
    NoTty,      \* no unique serial device
    Devices,    \* the kinds of board that may be plugged in
    MaxMoves    \* bound: boards that leave or come back unasked, and changes
                \* of Klipper's state

NoKind == "none"
Bootloaders == {"katapult", "stm32", "picoboot", "samba"}
Serial == {"katapult", "samba"}
Kinds == Bootloaders \cup {"beacon", "application", "empty"}

\* What an instance gives them.
Parameters ==
    /\ NoTty \notin Ttys /\ NoKind \notin Places
    /\ Devices \subseteq Kinds \ {"empty"}
    /\ MaxMoves \in Nat

VARIABLES
    pc,
    options,    \* of the command, and what its host offers
    at, tty,    \* what is at each topology, and its serial device
    flash,      \* what each board's application flash holds
    klippy,     \* Klipper's state
    moves,      \* so many of MaxMoves have happened
    found,      \* the scan's records, by topology; NoRecord where nothing was
    beacons,    \* the topologies where a Beacon's bootloader was found
    pending,    \* of both, those not visited yet
    current,    \* the topology being visited
    resolved, recovered, \* all_resolved, recovered
    read,       \* Klipper's state as it was read before the prompt
    \* Only for the properties:
    stayed,     \* boards that were not plugged or restarted since the scan
    departed,   \* boards that left their bootloader since the scan
    accepted, declined, \* what the user answered, by topology
    told,       \* boards told to start their application
    written,    \* Beacons whose flash was begun
    restarted   \* Klipper was restarted

bus == <<at, tty, flash>>
ghosts == <<stayed, departed, accepted, declined, told, written>>
visit == <<found, beacons, pending, current, resolved, recovered>>
vars == <<pc, options, bus, klippy, moves, visit, read, ghosts, restarted>>

NoRecord == [kind |-> NoKind, tty |-> NoTty]

\* `yes`: --yes; `local`: a loopback Moonraker; `image`: the Beacon checkout
\* holds an image for the board's revision.
Options == [yes : BOOLEAN, local : BOOLEAN, image : BOOLEAN]

States == {"ready", "stopped", "unreachable"}

Steps == {"lock", "scan", "scanBeacons", "wait", "rescanBeacons", "next",
          "probe", "confirm", "leave", "watch", "nextBeacon", "ask", "flash",
          "watchLeft", "watchApplication", "restart", "askRestart",
          "sendRestart", "success", "failure"}

TypeOK ==
    /\ pc \in Steps /\ options \in Options
    /\ at \in [Places -> Kinds] /\ tty \in [Places -> Ttys \cup {NoTty}]
    /\ flash \in [Places -> {"application", "partial", "blank"}]
    /\ klippy \in States /\ read \in States \cup {NoKind}
    /\ moves \in 0..MaxMoves
    /\ found \in [Places -> [kind : Bootloaders \cup {NoKind},
                             tty : Ttys \cup {NoTty}]]
    /\ beacons \subseteq Places /\ pending \subseteq Places
    /\ current \in Places \cup {NoKind}
    /\ resolved \in BOOLEAN /\ recovered \in BOOLEAN /\ restarted \in BOOLEAN
    /\ \A s \in {stayed, departed, accepted, declined, told, written} :
         s \subseteq Places
    \* A serial device belongs to one board, and only a serial one has it.
    /\ \A p, q \in Places : tty[p] = tty[q] => p = q \/ tty[p] = NoTty
    /\ \A p \in Places : at[p] \notin Serial \cup {"application"} => tty[p] = NoTty

Goto(step) == pc' = step

-----------------------------------------------------------------------------
(* The bus and Klipper. *)

\* The serial device a board that comes gets: a free one, or none that is
\* its only one.
Free(kind) ==
    IF kind \in Serial \cup {"application"}
    THEN {NoTty} \cup (Ttys \ {tty[p] : p \in Places})
    ELSE {NoTty}

Comes(p, kind, device) ==
    /\ at' = [at EXCEPT ![p] = kind]
    /\ tty' = [tty EXCEPT ![p] = device]

Goes(p) ==
    /\ at' = [at EXCEPT ![p] = "empty"]
    /\ tty' = [tty EXCEPT ![p] = NoTty]
    /\ departed' = departed \cup {p}

\* A board that was told, or a Beacon that was flashed, restarts: it is gone
\* from the bus for a moment.
Restarts(p) ==
    /\ p \in told \cup written /\ at[p] \notin {"empty", "application"}
    /\ at[p] = "beacon" => flash[p] = "application"
    /\ Goes(p)
    /\ UNCHANGED <<pc, options, flash, klippy, moves, visit, read, stayed,
                   accepted, declined, told, written, restarted>>

\* It is back: an image that is not whole does not bring it back.
Returns(p) ==
    /\ p \in told \cup written /\ at[p] = "empty" /\ p \in stayed
    /\ flash[p] = "application"
    /\ \E device \in Free("application") : Comes(p, "application", device)
    /\ UNCHANGED <<pc, options, flash, klippy, moves, visit, read, ghosts,
                   restarted>>

\* A board is unplugged, by its user or by a reset.
Unplugged(p) ==
    /\ moves < MaxMoves /\ at[p] # "empty"
    /\ moves' = moves + 1
    /\ Goes(p)
    /\ stayed' = stayed \ {p}
    /\ UNCHANGED <<pc, options, flash, klippy, visit, read, accepted, declined,
                   told, written, restarted>>

\* A board comes, the one that was there or another.
Plugged(p) ==
    /\ moves < MaxMoves /\ at[p] = "empty"
    /\ moves' = moves + 1
    /\ \E kind \in Devices : \E device \in Free(kind) : Comes(p, kind, device)
    /\ stayed' = stayed \ {p}
    /\ UNCHANGED <<pc, options, flash, klippy, visit, read, departed, accepted,
                   declined, told, written, restarted>>

KlippyChanges ==
    /\ moves < MaxMoves
    /\ moves' = moves + 1
    /\ klippy' \in States \ {klippy}
    /\ UNCHANGED <<pc, options, bus, visit, read, ghosts, restarted>>

World == \/ \E p \in Places : Restarts(p) \/ Returns(p) \/ Unplugged(p) \/ Plugged(p)
         \/ KlippyChanges

-----------------------------------------------------------------------------
(* The scan. *)

Lock ==
    /\ pc = "lock"
    /\ Goto("scan") \/ Goto("failure")
    /\ UNCHANGED <<options, bus, klippy, moves, visit, read, ghosts, restarted>>

\* scan_usb_bootloaders, classify_usb_identity, usb_tty.
Detected ==
    [p \in Places |-> IF at[p] \in Bootloaders
                      THEN [kind |-> at[p], tty |-> tty[p]] ELSE NoRecord]

\* detect_bootloaders, at once or, when nothing was found, up to ten seconds.
Scan ==
    /\ pc \in {"scan", "wait"}
    /\ found' = Detected
    /\ pending' = {p \in Places : at[p] \in Bootloaders}
    /\ Goto(IF pc = "scan" THEN "scanBeacons" ELSE "rescanBeacons")
    /\ stayed' = Places /\ departed' = {}
    /\ UNCHANGED <<options, bus, klippy, moves, beacons, current, resolved,
                   recovered, read, accepted, declined, told, written, restarted>>

\* beacon_dfu::scan_bootloaders; a bus without any bootloader is waited on once.
ScanBeacons ==
    /\ pc \in {"scanBeacons", "rescanBeacons"}
    /\ beacons' = {p \in Places : at[p] = "beacon"}
    /\ CASE pending \cup beacons' # {} -> Goto("next")
         [] pending \cup beacons' = {} /\ pc = "scanBeacons" -> Goto("wait")
         [] OTHER -> Goto("success")
    /\ UNCHANGED <<options, bus, klippy, moves, found, pending, current,
                   resolved, recovered, read, ghosts, restarted>>

-----------------------------------------------------------------------------
(* One bootloader after the other: leave_one. *)

Unresolved == resolved' = FALSE

\* The loop's next board; after the last one the Beacons, if there are any.
NextBoard ==
    /\ pc = "next"
    /\ \/ \E p \in pending :
            /\ current' = p /\ pending' = pending \ {p}
            /\ CASE found[p].kind \in Serial /\ found[p].tty = NoTty ->
                      (Unresolved /\ Goto("next"))
                 [] found[p].kind = "stm32" -> Goto("probe") /\ UNCHANGED resolved
                 [] OTHER -> Goto("confirm") /\ UNCHANGED resolved
            /\ UNCHANGED <<options, bus, klippy, moves, found, beacons,
                           recovered, read, ghosts, restarted>>
       \/ /\ pending = {}
          /\ pending' = beacons /\ current' = NoKind
          /\ IF beacons # {} THEN Goto("nextBeacon")
             ELSE Goto(IF resolved THEN "success" ELSE "failure")
          /\ UNCHANGED <<options, bus, klippy, moves, found, beacons, resolved,
                         recovered, read, ghosts, restarted>>

\* probe_application_start_at_path.  The vector table is an image's first
\* block, so that a part of an image is found like a whole one.
Probe ==
    /\ pc = "probe"
    /\ \/ at[current] = "stm32" /\ flash[current] # "blank"
          /\ Goto("confirm") /\ UNCHANGED resolved
       \/ Unresolved /\ Goto("next")    \* none, several, or no answer
    /\ UNCHANGED <<options, bus, klippy, moves, found, beacons, pending,
                   current, recovered, read, ghosts, restarted>>

Accept == accepted' = accepted \cup {current} /\ UNCHANGED declined
Decline == declined' = declined \cup {current} /\ UNCHANGED accepted

\* A declined board counts as resolved.
Confirm ==
    /\ pc = "confirm"
    /\ \/ Accept /\ Goto("leave")
       \/ ~options.yes /\ Decline /\ Goto("next")
    /\ UNCHANGED <<options, bus, klippy, moves, visit, read, stayed, departed,
                   told, written, restarted>>

\* Mutant: any board of the kind is taken.
ReachedAnywhere == {p \in Places : at[p] = found[current].kind}

\* The board a session reaches: a serial one by its device's name, the others
\* by topology and identity.
Reached ==
    {p \in Places : /\ at[p] = found[current].kind
                    /\ IF found[current].kind \in Serial
                       THEN tty[p] = found[current].tty ELSE p = current}

\* leave_serial, reboot_at_path, leave_system_at_path, reboot_into_application:
\* the answer to the last call may be lost after the board has taken it.
Leave ==
    /\ pc = "leave"
    /\ \/ \E p \in Reached :
            /\ told' = told \cup {p} /\ Goto("watch") /\ UNCHANGED resolved
       \/ /\ told' \in {told} \cup {told \cup {p} : p \in Reached}
          /\ Unresolved /\ Goto("next")
    /\ UNCHANGED <<options, bus, klippy, moves, found, beacons, pending,
                   current, recovered, read, stayed, departed, accepted,
                   declined, written, restarted>>

\* wait_until_absent: a board that was away between two polls only is missed.
Watch ==
    /\ pc = "watch" /\ Goto("next")
    /\ IF at[current] = "empty" THEN UNCHANGED resolved ELSE Unresolved
    /\ UNCHANGED <<options, bus, klippy, moves, found, beacons, pending,
                   current, recovered, read, ghosts, restarted>>

-----------------------------------------------------------------------------
(* One Beacon after the other: recover_beacon. *)

NextBeacon ==
    /\ pc = "nextBeacon"
    /\ \/ \E p \in pending :
            /\ current' = p /\ pending' = pending \ {p}
            /\ IF options.image THEN Goto("ask") /\ UNCHANGED resolved
               ELSE Unresolved /\ Goto("nextBeacon")
       \/ /\ pending = {} /\ UNCHANGED <<current, pending, resolved>>
          /\ CASE recovered -> Goto("restart")
               [] ~recovered /\ resolved -> Goto("success")
               [] OTHER -> Goto("failure")
    /\ UNCHANGED <<options, bus, klippy, moves, found, beacons, recovered,
                   read, ghosts, restarted>>

Ask ==
    /\ pc = "ask"
    /\ \/ Accept /\ Goto("flash")
       \/ ~options.yes /\ Decline /\ Goto("nextBeacon")
    /\ UNCHANGED <<options, bus, klippy, moves, visit, read, stayed, departed,
                   told, written, restarted>>

\* flash_beacon_recovery, to the bootloader at the topology.
Flash ==
    /\ pc = "flash"
    /\ \/ /\ at[current] = "beacon" /\ Goto("watchLeft")
          /\ flash' = [flash EXCEPT ![current] = "application"]
          /\ written' = written \cup {current}
          /\ UNCHANGED resolved
       \/ /\ at[current] = "beacon" /\ Unresolved /\ Goto("nextBeacon")
          /\ flash' = [flash EXCEPT ![current] = "partial"]
          /\ written' = written \cup {current}
       \/ Unresolved /\ Goto("nextBeacon") /\ UNCHANGED <<flash, written>>
    /\ UNCHANGED <<options, at, tty, klippy, moves, found, beacons, pending,
                   current, recovered, read, stayed, departed, accepted,
                   declined, told, restarted>>

\* wait_until_left: no Beacon bootloader at the topology.
WatchLeft ==
    /\ pc = "watchLeft"
    /\ IF at[current] # "beacon" THEN Goto("watchApplication") /\ UNCHANGED resolved
       ELSE Unresolved /\ Goto("nextBeacon")
    /\ UNCHANGED <<options, bus, klippy, moves, found, beacons, pending,
                   current, recovered, read, ghosts, restarted>>

\* wait_for_application: a Beacon's application with its serial port.
WatchApplication ==
    /\ pc = "watchApplication" /\ Goto("nextBeacon")
    /\ IF at[current] = "application" /\ tty[current] # NoTty
       THEN recovered' = TRUE /\ UNCHANGED resolved
       ELSE Unresolved /\ UNCHANGED recovered
    /\ UNCHANGED <<options, bus, klippy, moves, found, beacons, pending,
                   current, read, ghosts, restarted>>

-----------------------------------------------------------------------------
(* restart_klipper. *)

Exit == Goto(IF resolved THEN "success" ELSE "failure")

\* Only a local Klipper is asked for its state, and only one that answers that
\* it is not ready is restarted.
ReadState ==
    /\ pc = "restart"
    /\ read' = IF options.local THEN klippy ELSE NoKind
    /\ IF read' = "stopped" THEN Goto("askRestart") ELSE Exit
    /\ UNCHANGED <<options, bus, klippy, moves, visit, ghosts, restarted>>

AskRestart ==
    /\ pc = "askRestart"
    /\ \/ Goto("sendRestart")
       \/ ~options.yes /\ Exit
    /\ UNCHANGED <<options, bus, klippy, moves, visit, read, ghosts, restarted>>

\* firmware_restart; its result does not change the exit code.
SendRestart ==
    /\ pc = "sendRestart" /\ Exit
    /\ restarted' \in {restarted, klippy # "unreachable"}
    /\ UNCHANGED <<options, bus, klippy, moves, visit, read, ghosts>>

Done == pc \in {"success", "failure"} /\ UNCHANGED vars

Command ==
    \/ Lock \/ Scan \/ ScanBeacons
    \/ NextBoard \/ Probe \/ Confirm \/ Leave \/ Watch
    \/ NextBeacon \/ Ask \/ Flash \/ WatchLeft \/ WatchApplication
    \/ ReadState \/ AskRestart \/ SendRestart

Next == Command \/ World \/ Done

Init ==
    /\ pc = "lock" /\ options \in Options
    /\ at \in [Places -> Devices \cup {"empty"}]
    /\ tty \in [Places -> Ttys \cup {NoTty}]
    /\ \A p, q \in Places : tty[p] = tty[q] => p = q \/ tty[p] = NoTty
    /\ \A p \in Places : at[p] \notin Serial \cup {"application"} => tty[p] = NoTty
    /\ flash \in [Places -> {"application", "partial", "blank"}]
    /\ \A p \in Places : at[p] = "application" => flash[p] = "application"
    /\ klippy \in States /\ moves = 0
    /\ found = [p \in Places |-> NoRecord] /\ beacons = {} /\ pending = {}
    /\ current = NoKind /\ resolved = TRUE /\ recovered = FALSE /\ read = NoKind
    /\ stayed = Places /\ departed = {} /\ accepted = {} /\ declined = {}
    /\ told = {} /\ written = {} /\ restarted = FALSE

\* The user answers and every wait has its ten seconds.
Spec == Init /\ [][Next]_vars /\ WF_vars(Command)

-----------------------------------------------------------------------------
(* Properties. *)

\* A command that succeeds left no board behind that its user wanted to leave:
\* each one the scan found was declined or has left its bootloader
\* (report_leave_result, watch_for_departure, recover_beacon).
SuccessIsHonest ==
    pc = "success" =>
        \A p \in Places : found[p].kind # NoKind \/ p \in beacons =>
            p \in declined \cup departed

\* A Beacon whose flash was begun, and that nobody unplugged, is back in its
\* application with a whole image when the command succeeds or restarts
\* Klipper for it (recover_beacon).
RecoveredIsWhole ==
    pc = "success" \/ restarted =>
        \A p \in written \cap stayed :
            at[p] = "application" /\ flash[p] = "application"

\* A board that stayed where it was is told nothing, and a Beacon has nothing
\* written to it, unless its own prompt was accepted, also when other boards
\* come, go and take over each other's serial devices meanwhile (confirm, the
\* device and the topology a session is opened by).
OnlyWithConsent ==
    /\ \A p \in told \cap stayed : p \in accepted \ declined
    /\ \A p \in written : p \in accepted

\* An STM32 whose flash is blank is never told to start what it holds: the
\* probe comes before the prompt (leave_stm32_dfu).
BlankStays ==
    \A p \in told \cap stayed :
        found[p].kind = "stm32" => flash[p] # "blank"

\* Klipper is restarted only when a Beacon's application was seen to be back.
\* One that is ready, and may be printing, is restarted only when it became
\* ready after it had been read (restart_klipper).
RestartHasReason ==
    restarted =>
        /\ read = "stopped" /\ options.local
        /\ \E p \in written : p \in departed

\* The command ends, whatever the boards do.
Terminates == <>(pc \in {"success", "failure"})
=============================================================================

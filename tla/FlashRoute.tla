----------------------------- MODULE FlashRoute -----------------------------
(***************************************************************************)
(* The way of one image to one MCU (flash/system.rs): which link it may    *)
(* take, how the MCU is asked for its bootloader, how long that is looked  *)
(* for at the MCU's own USB topology, which backend the identity found     *)
(* there selects, at which address it writes, and which refusals give the  *)
(* MCU back.  A backend's session is one step here; its own steps are in   *)
(* KatapultSession and VendorFlash.                                        *)
(*                                                                         *)
(* Addresses are the candidates of FLASH_START_OFFSETS, counted from the   *)
(* start of flash.                                                         *)
(***************************************************************************)
EXTENDS Naturals

CONSTANTS
    None,
    Top,        \* bound: candidates 0..Top
    Mcus,       \* MCUs considered
    Images,     \* images considered
    MaxPolls    \* bound: looks at the topology before the deadline

VARIABLES
    mcu, image,
    pc,
    polls,
    at,         \* what is at the MCU's topology
    asked,      \* the MCU was asked for its bootloader and heard it
    target,     \* the address a backend was given
    probed,     \* what the probe took for the installed application's start
    allRead,    \* every candidate could be read
    written,    \* where the flash was written: an address, whole or not
    told,       \* the address the MCU was told to start
    outcome

given == <<mcu, image>>
places == <<target, probed, allRead>>
effects == <<written, told>>
vars == <<given, pc, polls, at, asked, places, effects, outcome>>

Starts == 0..Top
Bootloaders == {"katapult", "stm32", "picoboot", "samba"}

\* `bridge` and `start`: what the embedded Kconfig says; `via`: the interface
\* is the MCU's own; `enters`: what a request leads to; `runs`: where its
\* application is, and where its Katapult starts one; `looks`: where its flash
\* begins like an application; `id`: of a Beacon's bootloader.
Mcu == [transport : {"none", "usb", "uart", "can"}, host : BOOLEAN,
        bridge : BOOLEAN, via : BOOLEAN, start : Starts \cup {None},
        small : BOOLEAN, id : {"beac", "bea1"},
        enters : Bootloaders \cup {"beacon", "other", "application"},
        runs : Starts, looks : SUBSET Starts]

\* `linked`: where it runs; `expected` and `plausible`: what its vector table
\* says of that.
Image == [form : {"build", "file", "prebuilt", "beacon"}, force : BOOLEAN,
          links : {"usb", "usb_or_can"}, linked : Starts,
          expected : Starts \cup {None}, plausible : SUBSET Starts,
          id : {"beac", "bea1"}]

\* The Kconfig is the one the running application was built with; an MCU whose
\* own link it is has its application there.
Truthful(m) ==
    /\ m \in Mcu
    /\ m.start \in {None, m.runs}
    /\ m.enters = "samba" /\ m.start = None => m.runs = 1
    /\ m.runs \in m.looks
\* A vector table lies at the image's start, its handlers behind it.
Readable(i) ==
    /\ i \in Image
    /\ i.expected = None => i.plausible = {}
    /\ i.expected # None => /\ i.linked \in i.plausible
                            /\ i.plausible \subseteq 0..i.expected

\* What an instance gives them.
Routes ==
    /\ Top \in Nat \ {0} /\ MaxPolls \in Nat \ {0}
    /\ None \notin Starts \cup [start : Starts, whole : BOOLEAN]
    /\ \A m \in Mcus : Truthful(m)
    /\ \A i \in Images : Readable(i)

Steps == {"begin", "install", "ask", "observe", "select", "access", "probe", "transfer", "leave", "open", "confirm",
          "assign", "end"}

\* Refusals and failures, by where they leave the MCU.
Unasked == {"no_transport", "link_refused", "not_usb", "can_topology",
            "can_socket"}
Unwritten == {"uart_request", "can", "no_effect", "not_detected",
              "unsupported", "not_katapult", "beacon_mismatch", "stm32_target",
              "unrecognized", "samba_target", "access", "stm32_probe",
              "ambiguous", "mismatch", "mismatch_recovery", "open",
              "not_entered", "start_mismatch"}

TypeOK ==
    /\ mcu \in Mcus /\ image \in Images
    /\ pc \in Steps /\ polls \in 0..MaxPolls
    /\ at \in {"application", "gone", "half", "bare", "ready"}
    /\ asked \in BOOLEAN /\ allRead \in BOOLEAN
    /\ target \in Starts \cup {None} /\ probed \in Starts \cup {None}
    /\ written = None \/ written \in [start : Starts, whole : BOOLEAN]
    /\ told \in Starts \cup {None}
    /\ outcome \in {"none", "success", "transfer", "host"} \cup Unasked
                   \cup Unwritten
    /\ outcome = "none" <=> pc # "end"

Init ==
    /\ mcu \in Mcus /\ image \in Images
    \* The firmware of a build is linked where the Kconfig of its MCU says.
    /\ image.form = "build" => image.linked = mcu.runs
    /\ pc = "begin" /\ polls = 0 /\ outcome = "none"
    /\ at = "application" /\ asked = FALSE /\ allRead = TRUE
    /\ target = None /\ probed = None /\ written = None /\ told = None

Goto(step) == pc' = step /\ UNCHANGED outcome
End(result) == pc' = "end" /\ outcome' = result

-----------------------------------------------------------------------------
(* The board, once it was asked: off the bus, enumerating, there without and *)
(* with its serial device.                                                   *)

Appears ==
    CASE at = "application" -> "gone"
      [] at = "gone" -> "half"
      [] at = "half" -> "bare"
      [] at = "bare" -> "ready"

BoardMoves ==
    /\ asked /\ mcu.enters # "application" /\ at # "ready"
    /\ at' = Appears
    /\ UNCHANGED <<given, pc, polls, asked, places, effects, outcome>>

Here == at \in {"bare", "ready"}

-----------------------------------------------------------------------------
(* Which way, and the request. *)

\* A build or a file goes to the Linux host MCU by its Kconfig, else over the
\* MCU's link; a prebuilt image over its vendor's links alone.
Begin ==
    /\ pc = "begin"
    /\ LET own == image.form \in {"build", "file"}
           allowed == \/ own \/ mcu.transport = "usb"
                      \/ /\ image.form = "prebuilt" /\ mcu.transport = "can"
                         /\ image.links = "usb_or_can"
       IN \/ own /\ mcu.host /\ Goto("install")
          \/ /\ ~(own /\ mcu.host)
             /\ \/ mcu.transport = "none" /\ End("no_transport")
                \/ mcu.transport # "none" /\ ~allowed /\ End("link_refused")
                \/ mcu.transport # "none" /\ allowed /\ Goto("ask")
    /\ UNCHANGED <<given, polls, at, asked, places, effects>>

\* HostMcuInstaller: its steps are in UpdateRun.
InstallHost ==
    /\ pc = "install"
    /\ \/ written' = [start |-> image.linked, whole |-> TRUE] /\ End("success")
       \/ /\ \E whole \in BOOLEAN :
                written' \in {None, [start |-> image.linked, whole |-> whole]}
          /\ End("host")
    /\ UNCHANGED <<given, polls, at, asked, places, told>>

\* The 1200-baud touch.  Its error is kept for the message and the wait begins
\* all the same; the touch may have been heard.
AskUsb ==
    /\ pc = "ask" /\ mcu.transport = "usb"
    /\ \/ End("not_usb") /\ UNCHANGED asked
       \/ asked' \in BOOLEAN /\ Goto("observe")
    /\ UNCHANGED <<given, polls, at, places, effects>>

AskUart ==
    /\ pc = "ask" /\ mcu.transport = "uart" /\ asked' \in BOOLEAN
    /\ Goto("open") \/ End("uart_request")
    /\ UNCHANGED <<given, polls, at, places, effects>>

Bridge == image.form \in {"build", "file"} /\ mcu.bridge

\* Mutant: a bridge is refused for a prebuilt image once it was asked.
AskCanThenRefuse ==
    /\ pc = "ask" /\ mcu.transport = "can"
    /\ asked' \in BOOLEAN
    /\ IF mcu.bridge /\ image.form = "prebuilt" THEN End("link_refused")
       ELSE Goto(IF Bridge THEN "observe" ELSE "assign")
    /\ UNCHANGED <<given, polls, at, places, effects>>

\* A bridge is looked for at its interface's topology, any other node answers
\* over the bus.  A frame that was sent need not arrive.
AskCan ==
    /\ pc = "ask" /\ mcu.transport = "can"
    /\ \/ Bridge /\ End("can_topology") /\ UNCHANGED asked
       \/ End("can_socket") /\ UNCHANGED asked
       \/ End("can") /\ asked' \in BOOLEAN
       \/ Goto(IF Bridge THEN "observe" ELSE "assign") /\ asked' \in BOOLEAN
    /\ UNCHANGED <<given, polls, at, places, effects>>

-----------------------------------------------------------------------------
(* What appears at the topology. *)

Serial == {"katapult", "samba"}

\* The identity is another than before and complete, with the serial device
\* where the bootloader has one.
Ready ==
    /\ mcu.transport = "usb" \/ mcu.via
    /\ at = "ready" \/ (at = "bare" /\ mcu.enters \notin Serial)
    /\ image.form = "beacon" => mcu.enters = "beacon"

\* Mutant: the wait has no deadline.
ObserveForever ==
    /\ pc = "observe"
    /\ \/ Ready /\ Goto("select") /\ UNCHANGED polls
       \/ ~Ready /\ polls' = 1 - polls /\ Goto("observe")
    /\ UNCHANGED <<given, at, asked, places, effects>>

\* retry_until_available, and the last identity it saw.
Observe ==
    /\ pc = "observe"
    /\ \/ Ready /\ Goto("select") /\ UNCHANGED polls
       \/ ~Ready /\ polls < MaxPolls /\ polls' = polls + 1 /\ Goto("observe")
       \/ /\ ~Ready /\ polls = MaxPolls /\ UNCHANGED polls
          /\ End(IF at = "application" \/ ~(mcu.transport = "usb" \/ mcu.via)
                 THEN "no_effect" ELSE "not_detected")
    /\ UNCHANGED <<given, at, asked, places, effects>>

-----------------------------------------------------------------------------
(* The backend and its address. *)

\* target_from_kconfig of the SAM-BA monitor: a symbol that is left out is the
\* default offset.
SambaTarget == IF mcu.start = None THEN 1 ELSE mcu.start

\* katapult_route.
SelectKatapult ==
    /\ \/ mcu.enters = "katapult" /\ Goto("open")
       \/ mcu.enters \in Bootloaders \ {"katapult"} /\ End("not_katapult")
       \/ mcu.enters \notin Bootloaders /\ End("unsupported")
    /\ UNCHANGED target

\* The DFU suffix of the image.
SelectBeacon ==
    /\ IF mcu.id = image.id THEN Goto("access") ELSE End("beacon_mismatch")
    /\ UNCHANGED target

\* The Kconfig's address for a build, and for any image through a bridge; a
\* file's is resolved on the device.
SelectStm32 ==
    IF image.form = "file" /\ mcu.transport = "usb"
    THEN /\ IF image.expected = None THEN End("unrecognized") ELSE Goto("access")
         /\ UNCHANGED target
    ELSE \/ mcu.start = None /\ End("stm32_target") /\ UNCHANGED target
         \/ mcu.start # None /\ target' = mcu.start /\ Goto("access")

SelectSamba ==
    IF SambaTarget = 0 \/ mcu.small THEN End("samba_target") /\ UNCHANGED target
    ELSE target' = SambaTarget /\ Goto("open")

\* resolve_serial_route.
SelectOwn ==
    \/ mcu.enters = "katapult" /\ Goto("open") /\ UNCHANGED target
    \/ mcu.enters = "stm32" /\ SelectStm32
    \/ mcu.enters = "picoboot" /\ target' = image.linked /\ Goto("access")
    \/ mcu.enters = "samba" /\ SelectSamba
    \/ mcu.enters \in {"beacon", "other"} /\ End("unsupported") /\ UNCHANGED target

Select ==
    /\ pc = "select"
    /\ CASE image.form = "prebuilt" -> SelectKatapult
         [] image.form = "beacon" -> SelectBeacon
         [] image.form \in {"build", "file"} -> SelectOwn
    /\ UNCHANGED <<given, polls, at, asked, probed, allRead, effects>>

\* The device node, until udev has set its permissions.
Access ==
    /\ pc = "access"
    /\ \/ End("access")
       \/ Goto(IF target = None /\ image.form = "file" THEN "probe" ELSE "transfer")
    /\ UNCHANGED <<given, polls, at, asked, places, effects>>

\* Mutant: of several candidates the first is taken.
InstalledAtFirst(found) ==
    IF found = {} THEN None ELSE CHOOSE s \in found : \A o \in found : s <= o

\* probe_application_start, installed_application_start; several only by force.
Installed(found) ==
    IF \E s \in found : found = {s} THEN CHOOSE s \in found : TRUE ELSE None

\* select_application_start: where the device has its application, else where
\* the Kconfig puts it, of the places the image can run.
Resolved(installed) ==
    IF installed \in image.plausible THEN installed
    ELSE IF mcu.start \in image.plausible THEN mcu.start ELSE None

Mismatch(installed) ==
    /\ Resolved(installed) = None /\ ~image.force
    /\ installed \notin {None, image.expected}

\* resolve_stm32_firmware_file_target.  A candidate that cannot be read is
\* skipped.
Probe ==
    /\ pc = "probe"
    /\ \/ End("stm32_probe") /\ UNCHANGED places
       \/ \E read \in SUBSET Starts :
            LET found == mcu.looks \cap read
                installed == Installed(found)
                several == \E s, o \in found : s # o
            IN /\ allRead' = (mcu.looks \subseteq read)
               /\ probed' = installed
               /\ \/ several /\ installed = None /\ ~image.force /\ End("ambiguous")
                     /\ UNCHANGED target
                  \/ /\ installed # None \/ ~several \/ image.force
                     /\ \/ Mismatch(installed) /\ Goto("leave") /\ UNCHANGED target
                        \/ /\ ~Mismatch(installed) /\ Goto("access")
                           /\ target' = IF Resolved(installed) = None
                                        THEN image.expected ELSE Resolved(installed)
    /\ UNCHANGED <<given, polls, at, asked, effects>>

\* leave_system_at_path.
Leave ==
    /\ pc = "leave"
    /\ \/ told' = probed /\ End("mismatch")
       \/ told' \in {None, probed} /\ End("mismatch_recovery")
    /\ UNCHANGED <<given, polls, at, asked, places, written>>

\* A serial device, until it can be opened; a UART's bootloader confirms that
\* it is one.
Open ==
    /\ pc = "open"
    /\ \/ End("open")
       \/ Goto(IF mcu.transport = "uart" THEN "confirm" ELSE "transfer")
    /\ UNCHANGED <<given, polls, at, asked, places, effects>>

Confirm ==
    /\ pc = "confirm"
    /\ \/ End("not_entered")
       \/ Here /\ mcu.enters = "katapult" /\ Goto("transfer")
    /\ UNCHANGED <<given, polls, at, asked, places, effects>>

\* Sent to the bus; whether anybody took the node shows in the session.
Assign ==
    /\ pc = "assign"
    /\ Goto("transfer") \/ End("can")
    /\ UNCHANGED <<given, polls, at, asked, places, effects>>

-----------------------------------------------------------------------------
(* The session. *)

Katapult == mcu.enters = "katapult"

\* Where it writes: Katapult knows its own address.
Destination == IF Katapult \/ image.form = "beacon" THEN mcu.runs ELSE target

\* expecting_application_start.
Admits == ~(Katapult /\ image.form = "prebuilt" /\ mcu.runs # image.linked)

\* Over the bus only Katapult answers; over USB the session is the one for the
\* bootloader that was selected.
Answers == Here /\ (mcu.transport = "can" /\ ~Bridge => Katapult)

\* A session that is answered ends after any part of its work; it starts what
\* it read back, and gives a board it does not admit back.
Transfer ==
    /\ pc = "transfer"
    /\ \/ /\ Answers /\ Admits
          /\ \/ /\ written' = [start |-> Destination, whole |-> TRUE]
                /\ told' = Destination /\ End("success")
             \/ /\ written' \in {[start |-> Destination, whole |-> FALSE], None}
                /\ End("transfer") /\ UNCHANGED told
             \/ /\ written' = [start |-> Destination, whole |-> TRUE]
                /\ told' \in {None, Destination} /\ End("transfer")
       \/ /\ Answers /\ ~Admits
          /\ told' \in {None, mcu.runs} /\ End("start_mismatch") /\ UNCHANGED written
       \/ End("transfer") /\ UNCHANGED effects
    /\ UNCHANGED <<given, polls, at, asked, places>>

-----------------------------------------------------------------------------
Host ==
    \/ Begin \/ InstallHost \/ AskUsb \/ AskUart \/ AskCan \/ Observe \/ Select
    \/ Access \/ Probe \/ Leave \/ Open \/ Confirm \/ Assign \/ Transfer

Next == Host \/ BoardMoves

\* Every wait has a deadline and every call returns.
Spec == Init /\ [][Next]_vars /\ WF_vars(Host)
-----------------------------------------------------------------------------
(* What a flash promises. *)

\* A build, and a prebuilt image, is written nowhere but where it was linked to
\* run (target_from_kconfig, expecting_application_start).
WrittenWhereLinked ==
    written # None /\ image.form \in {"build", "prebuilt"} =>
        written.start = image.linked

\* resolve_stm32_firmware_file_target: when the device could be read, a file
\* is written without --force nowhere but where the application was; a
\* bootloader before it is never taken for it.
UnforcedFileStays ==
    /\ written # None /\ allRead
    /\ image.form = "file" /\ ~image.force
    /\ mcu.transport = "usb" /\ mcu.enters = "stm32" /\ ~mcu.host
    => written.start = mcu.runs

\* Nothing but a vendor's own bootloader on a link it allows is written with
\* its image, and nothing else is written to a Beacon
\* (flash_prebuilt_katapult_with_progress, flash_beacon_bootloader).
OnlyItsBootloader ==
    written # None =>
        CASE image.form = "prebuilt" ->
               /\ mcu.enters = "katapult"
               /\ \/ mcu.transport = "usb"
                  \/ mcu.transport = "can" /\ image.links = "usb_or_can"
          [] image.form = "beacon" -> mcu.enters = "beacon" /\ mcu.id = image.id
          [] OTHER -> mcu.host \/ mcu.enters \in Bootloaders

\* An MCU is told to start an image that is complete or, when nothing was
\* written, a place that holds an application (leave_system_at_path).
ToldIsRunnable ==
    told # None =>
        \/ written = None /\ told \in mcu.looks
        \/ written # None /\ written.whole /\ written.start = told

\* "skipping the Kconfig-derived STM32 addressing": without --force a file is
\* written only where its vector table says that it can run.
FileWhereItCanRun ==
    /\ written # None /\ image.form = "file" /\ ~image.force
    /\ mcu.enters = "stm32" /\ ~mcu.host
    => written.start \in image.plausible \cup {image.expected}

\* Every flash ends.
Terminates == <>(pc = "end")

\* allows_klipper_restore: the failures after which Klipper is started again.
Restorable ==
    \/ pc \in {"begin", "install"}
    \/ outcome \in {"link_refused", "host"}
    \/ outcome = "success" /\ image.form \in {"build", "file"} /\ mcu.host

\* The run's view of a flash.
Promise == INSTANCE RouteContract WITH
    device <- IF told # None THEN "restarting"
              ELSE IF Here THEN "bootloader" ELSE "application",
    firmware <- IF written = None THEN "old"
                ELSE IF written.whole THEN "new" ELSE "partial",
    restorable <- Restorable,
    result <- IF outcome \in {"none", "success"} THEN outcome ELSE "failed"

\* A flash keeps what UpdateRun relies on.
ImplementsPromise == Promise!Spec
=============================================================================

---------------------------- MODULE FlashCommand ----------------------------
(***************************************************************************)
(* `aldis flash`: one firmware file to one MCU (flash_command.rs), through *)
(* the coordinator (coordinator.rs).  It refuses what does not suit the    *)
(* MCU, asks its user, looks at the printer, takes Klipper, flashes, and   *)
(* gives Klipper back as an update would.  While it works, and while its   *)
(* user reads the prompt, the file is replaced, prints start and end, and  *)
(* somebody starts or stops Klipper.                                       *)
(*                                                                         *)
(* The flash is what RouteContract says of one (FlashRoute has its steps); *)
(* the printers behind a bridge are in Fleet, the lock in LockFile.        *)
(***************************************************************************)
EXTENDS Naturals

CONSTANTS
    None,
    MaxOutside   \* bound: outside changes of the file, a print or Klipper

VARIABLES
    kind, force,    \* the MCU ("vendor": a Cartographer or a Beacon), --force
    pc, outcome, told,
    disk, read,     \* the file's contents on disk, and as they were read
    agreed,         \* history: the contents the user agreed to
    unit, printing, \* Klipper's unit; a print runs or is paused
    firstObserved,  \* BuildCoordinator.first_observed_active
    device, written, \* what the MCU executes; what its flash was given
    held,           \* history: this command knows Klipper stopped
    idleSince,      \* history: the printer was idle since the user agreed
    outside

given == <<kind, force>>
file == <<disk, read, agreed>>
printer == <<unit, printing, firstObserved>>
mcu == <<device, written>>
history == <<held, idleSince, outside>>
vars == <<given, pc, outcome, told, file, printer, mcu, history>>

Contents == {"suits", "foreign"}
Kinds == {"klipper", "vendor", "foci", "host", "unsupported"}
Prebuilt == {"vendor", "foci"}

\* What an instance gives them.
Parameters == None \notin Contents /\ MaxOutside \in Nat

\* Calls that only fail or go on.
Before == [lock |-> "read", host |-> "discover", discover |-> "suits",
           bridge |-> "prepare", prepare |-> "confirm", reconnect |-> "end"]

TypeOK ==
    /\ kind \in Kinds /\ force \in BOOLEAN
    /\ pc \in DOMAIN Before \cup
         {"read", "suits", "confirm", "idle", "observe", "stop", "confirm_stop",
          "flash", "transfer", "failure", "refused", "restore", "confirm_restore",
          "await", "start", "confirm_start", "end"}
    /\ outcome \in {"none", "ok", "failed", "cancelled", "killed"}
    /\ told \in {"none", "may_be_stopped", "as_before", "restore_failed", "restart_failed"}
    /\ disk \in Contents /\ read \in Contents \cup {None}
    /\ agreed \in Contents \cup {None}
    /\ unit \in {"active", "inactive", "failed"} /\ printing \in BOOLEAN
    /\ firstObserved \in {"none", "active", "other"}
    /\ device \in {"application", "bootloader", "restarting"}
    /\ written \in Contents \cup {None}
    /\ held \in BOOLEAN /\ idleSince \in BOOLEAN /\ outside \in 0..MaxOutside
    /\ pc = "end" <=> outcome # "none"

Init ==
    /\ kind \in Kinds /\ force \in BOOLEAN
    /\ pc = "lock" /\ outcome = "none" /\ told = "none"
    /\ disk \in Contents /\ read = None /\ agreed = None
    /\ unit \in {"active", "inactive", "failed"}
    /\ printing \in BOOLEAN /\ (printing => unit = "active")
    /\ firstObserved = "none"
    /\ device = "application" /\ written = None
    /\ held = FALSE /\ idleSince = FALSE /\ outside = 0

Goto(step) == pc' = step /\ UNCHANGED <<outcome, told>>
End(result, advice) == pc' = "end" /\ outcome' = result /\ told' = advice

-----------------------------------------------------------------------------
(* Before the MCU is touched. *)

\* The lock, the host and discovery, the bridge rule, the workspace; and in
\* the end the MCU's reconnection.  A family without a bootloader is refused.
Proceed ==
    /\ pc \in DOMAIN Before
    /\ \/ pc = "reconnect" /\ End("ok", "none")
       \/ /\ pc # "reconnect" /\ ~(pc = "discover" /\ kind = "unsupported")
          /\ Goto(Before[pc])
       \/ End("failed", "none")
    /\ UNCHANGED <<given, file, printer, mcu, history>>

Read ==
    /\ pc = "read"
    /\ \/ read' = disk /\ Goto("host")
       \/ UNCHANGED read /\ End("failed", "none")
    /\ UNCHANGED <<given, disk, agreed, printer, mcu, history>>

\* prepare_explicit: the bytes that were read have to be the vendor's for this
\* MCU, except that a FOCI takes any.  An MCU of a vendor whose board is not
\* known is refused whatever the file.
Suits ==
    /\ pc = "suits"
    /\ \/ (kind = "vendor" => read = "suits") /\ Goto("bridge")
       \/ kind \in Prebuilt /\ End("failed", "none")
    /\ UNCHANGED <<given, file, printer, mcu, history>>

\* A prompt without --force.
Confirm ==
    /\ pc = "confirm"
    /\ \/ agreed' = read /\ idleSince' = ~printing /\ Goto("idle")
       \/ ~force /\ End("cancelled", "none") /\ UNCHANGED <<agreed, idleSince>>
    /\ UNCHANGED <<given, disk, read, printer, mcu, held, outside>>

\* ensure_printer_idle.
CheckIdle ==
    /\ pc = "idle"
    /\ \/ ~printing /\ Goto("observe")
       \/ End("failed", "none")
    /\ UNCHANGED <<given, file, printer, mcu, history>>

-----------------------------------------------------------------------------
(* ensure_klipper_stopped. *)

Observe ==
    /\ pc = "observe"
    /\ \/ /\ firstObserved' = IF unit = "active" THEN "active" ELSE "other"
          /\ held' = (unit = "inactive")
          /\ Goto(CASE unit = "active" -> "stop"
                    [] unit = "inactive" -> "flash"
                    [] unit = "failed" -> "restore")
       \/ UNCHANGED <<firstObserved, held>> /\ Goto("restore")
    /\ UNCHANGED <<given, file, unit, printing, mcu, idleSince, outside>>

\* A call that fails may have done its work.
Stop ==
    /\ pc = "stop"
    /\ \/ unit' = "inactive" /\ printing' = FALSE /\ Goto("confirm_stop")
       \/ /\ unit' \in {unit, "inactive", "failed"}
          /\ printing' = (printing /\ unit' = "active") /\ Goto("restore")
    /\ UNCHANGED <<given, file, firstObserved, mcu, history>>

ConfirmStop ==
    /\ pc = "confirm_stop"
    /\ \/ unit = "inactive" /\ held' = TRUE /\ Goto("flash")
       \/ UNCHANGED held /\ Goto("restore")
    /\ UNCHANGED <<given, file, printer, mcu, idleSince, outside>>

-----------------------------------------------------------------------------
(* The flash, as RouteContract has it. *)

Abandon == End("failed", "may_be_stopped")

\* The request; refused on a link that prebuilt firmware does not take.
Ask ==
    /\ pc = "flash" /\ kind # "host"
    /\ \/ device' = "bootloader" /\ Goto("transfer")
       \/ Goto("failure") /\ UNCHANGED device
       \/ kind \in Prebuilt /\ Goto("refused") /\ UNCHANGED device
    /\ UNCHANGED <<given, file, printer, written, history>>

Install ==
    /\ pc = "flash" /\ kind = "host"
    /\ \/ written' = read /\ Goto("await")
       \/ written' \in {written, read} /\ Goto("failure")
    /\ UNCHANGED <<given, file, printer, device, history>>

\* Mutant: the file is read again for the transfer.
TransferFile ==
    /\ pc = "transfer"
    /\ \/ written' = disk /\ device' = "restarting" /\ Goto("await")
       \/ Goto("failure") /\ UNCHANGED mcu
    /\ UNCHANGED <<given, file, printer, history>>

Transfer ==
    /\ pc = "transfer"
    /\ \/ written' = read /\ device' = "restarting" /\ Goto("await")
       \/ /\ written' \in {written, read} /\ device' \in {device, "restarting"}
          /\ Goto("failure")
    /\ UNCHANGED <<given, file, printer, history>>

\* allows_klipper_restore: the Linux host MCU is never in a bootloader, and an
\* MCU whose link was refused was not asked to enter one.
AllowsRestore == kind = "host" \/ pc = "refused"

Decide ==
    /\ pc \in {"failure", "refused"}
    /\ IF AllowsRestore THEN Goto("restore") ELSE Abandon
    /\ UNCHANGED <<given, file, printer, mcu, history>>

-----------------------------------------------------------------------------
(* Klipper again. *)

Restore ==
    /\ pc = "restore"
    /\ \/ /\ firstObserved # "active" /\ End("failed", "as_before")
          /\ UNCHANGED <<unit, held>>
       \/ /\ firstObserved = "active" /\ Goto("confirm_restore")
          /\ unit' = "active" /\ held' = FALSE
       \/ /\ firstObserved = "active" /\ End("failed", "restore_failed")
          /\ unit' \in {unit, "active", "failed"} /\ UNCHANGED held
    /\ UNCHANGED <<given, file, printing, firstObserved, mcu, idleSince, outside>>

\* wait_for_application.
Await ==
    /\ pc = "await"
    /\ \/ device' = "application" /\ Goto("start")
       \/ UNCHANGED device /\ Abandon
    /\ UNCHANGED <<given, file, printer, written, history>>

\* start_after_batch, whatever Klipper was before.
Start ==
    /\ pc = "start"
    /\ \/ unit' = "active" /\ held' = FALSE /\ Goto("confirm_start")
       \/ /\ unit' \in {unit, "active", "failed"} /\ UNCHANGED held
          /\ End("failed", "restart_failed")
    /\ UNCHANGED <<given, file, printing, firstObserved, mcu, idleSince, outside>>

\* start_and_verify.
Verify ==
    /\ pc \in {"confirm_restore", "confirm_start"}
    /\ \/ /\ unit = "active"
          /\ IF pc = "confirm_start" THEN Goto("reconnect")
             ELSE End("failed", "as_before")
       \/ End("failed", IF pc = "confirm_start" THEN "restart_failed"
                        ELSE "restore_failed")
    /\ UNCHANGED <<given, file, printer, mcu, history>>

-----------------------------------------------------------------------------
(* The host. *)

Outside ==
    /\ pc # "end" /\ outside < MaxOutside /\ outside' = outside + 1
    /\ \/ disk' \in Contents \ {disk} /\ UNCHANGED <<unit, printing>>
       \/ /\ unit = "active" /\ printing' = ~printing /\ UNCHANGED <<unit, disk>>
       \/ /\ unit' \in {"active", "inactive", "failed"} \ {unit}
          /\ printing' = FALSE /\ UNCHANGED disk
    /\ idleSince' = (idleSince \/ (agreed # None /\ ~printing'))
    /\ UNCHANGED <<given, pc, outcome, told, read, agreed, firstObserved, mcu, held>>

Kill ==
    /\ pc # "end" /\ End("killed", "none")
    /\ UNCHANGED <<given, file, printer, mcu, history>>

Done == pc = "end" /\ UNCHANGED vars

Next ==
    \/ Proceed \/ Read \/ Suits \/ Confirm \/ CheckIdle \/ Observe \/ Stop
    \/ ConfirmStop \/ Ask \/ Install \/ Transfer \/ Decide \/ Restore \/ Await
    \/ Start \/ Verify \/ Outside \/ Kill \/ Done

Spec == Init /\ [][Next]_vars
-----------------------------------------------------------------------------
(* What the command promises. *)

\* What an MCU is given is what its user agreed to, and for a Cartographer or
\* a Beacon what was found to suit it, whatever became of the file meanwhile
\* (run_flash, prepare_explicit).
AgreedIsWritten ==
    written # None => written = agreed /\ (kind = "vendor" => written = "suits")

\* Klipper is not stopped under a print that has run since before the user
\* agreed: the printer is looked at after the prompt (ensure_printer_idle).
AgreedPrint == pc = "stop" /\ pc' \notin {"stop", "end"} => idleSince

AgreedPrintIsSpared == [][AgreedPrint]_vars

\* A command that failed, and left a Klipper it had found active stopped, says
\* so (failure_message).
StoppedIsTold ==
    outcome = "failed" /\ held /\ firstObserved = "active" =>
        told \notin {"none", "as_before"}

\* The command is a run as RunContract has it.
Run == INSTANCE RunContract WITH
    Mcus <- {"mcu"},
    fate <- CASE outcome = "none" -> "running"
              [] outcome \in {"ok", "cancelled"} -> "ok"
              [] outcome \in {"failed", "killed"} -> outcome,
    custody <- held,
    atRisk <- IF device = "bootloader" THEN {"mcu"} ELSE {},
    updated <- {}

ImplementsRun == Run!Spec
=============================================================================

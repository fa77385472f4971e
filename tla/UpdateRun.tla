----------------------------- MODULE UpdateRun -----------------------------
(***************************************************************************)
(* One update run: run_updates (update_run.rs) driving the coordinator     *)
(* (coordinator.rs), systemd (service.rs), the build (build.rs) and the    *)
(* flash backends (flash/system.rs, flash/linux_host.rs).                  *)
(*                                                                         *)
(* The run is one sequential thread, so its control is a program counter   *)
(* pc.  Every call that leaves the process (a Moonraker query, systemctl,  *)
(* make, a bootloader transfer) is an action of its own, because the rest  *)
(* of the host moves between two of them: a print starts or ends, Klippy   *)
(* fails, somebody starts or stops Klipper by hand, a flashed MCU comes    *)
(* back or stays away, the aldis process is killed.                        *)
(*                                                                         *)
(* Firmware, images and artifacts are reduced to what a property can tell  *)
(* apart: whether an MCU still runs what it ran, runs the version the run  *)
(* promised, runs some other complete build, or holds a partial image.     *)
(***************************************************************************)
EXTENDS Naturals, Sequences

CONSTANTS
    Mcus,          \* the MCU names a request may mention
    NoMcu,         \* the None of RunFailure.mcu
    Inventory,     \* the MCUs the discovery found
    Host,          \* MCUs built for Klipper's Linux host machine
    Prebuilt,      \* FOCI, Beacon and Cartographer MCUs: downloaded or read
    Waited,        \* MCUs whose device node or CAN interface is waited for
    Newer,         \* MCUs that run newer firmware than their target
    Unverifiable,  \* MCUs with no known target version (reached_by is None)
    TargetLists,   \* the flashing orders a run may be started with
    MaxPrints,     \* bound: prints started during a run
    MaxOutside     \* bound: outside changes of Klipper during a run

ASSUME Parameters ==
    /\ NoMcu \notin Mcus
    /\ Inventory \subseteq Mcus
    /\ Host \subseteq Mcus
    /\ Prebuilt \subseteq Mcus
    /\ Host \cap Prebuilt = {}
    /\ Waited \subseteq Mcus
    /\ TargetLists \subseteq Seq(Mcus)
    /\ \A list \in TargetLists : \A i, j \in 1..Len(list) :
            list[i] = list[j] => i = j
    /\ MaxPrints \in Nat
    /\ MaxOutside \in Nat

VARIABLES
    pc,             \* where the run is
    targets,        \* RunRequest.targets
    idx,            \* position of the target being processed
    updated,        \* RunOutcome.updated
    printerChecked, \* printer_checked
    firstObserved,  \* BuildCoordinator.first_observed_active
    error,          \* the class of the error being handled
    outcome,        \* what run_updates returned
    built,          \* the version of the firmware in hand
    unit,           \* the systemd state of Klipper's unit
    klippy,         \* Klippy's own state, as Moonraker reports it
    printing,       \* a print is running or paused
    device,         \* what each MCU executes
    firmware,       \* what each MCU's application flash (or binary) holds
    held,           \* history: this run knows Klipper stopped, not restarted
    begun,          \* history: the unit's state when the run began
    disturbed,      \* history: something else changed the unit
    prints, outside \* used budget of the two bounds

progress  == <<idx, updated, printerChecked>>
klipper   == <<unit, klippy, printing>>
mcuState  == <<device, firmware>>
ledger    == <<held, begun, disturbed>>
budget    == <<prints, outside>>
vars      == <<pc, targets, progress, firstObserved, error, outcome, built,
               klipper, mcuState, ledger, budget>>

UnitStates == {"active", "inactive", "failed", "transitioning"}
Labels == {"select", "prepare", "check", "image", "observe", "stop", "confirm",
           "build", "enter", "write", "install", "sync", "restart", "await",
           "restore", "confirm_restore", "start", "confirm_start",
           "reconnect", "done", "dead"}
Advice == {"none", "may_be_stopped", "as_before", "restore_failed"}
Errors == {"none", "coordinator", "artifact", "image", "link_refused",
           "linux_host", "flash"}
Outcomes == [verdict : {"none", "ok", "failed"}, mcu : Mcus \cup {NoMcu},
             advice : Advice]

\* From the build of a target's firmware to its application.
Flashing == {"build", "enter", "write", "install", "sync", "restart", "await"}

Target == targets[idx]
Ended  == pc \in {"done", "dead"}

Flags ==
    /\ printerChecked \in BOOLEAN
    /\ printing \in BOOLEAN
    /\ held \in BOOLEAN
    /\ disturbed \in BOOLEAN

TypeOK ==
    /\ Flags
    /\ pc \in Labels
    /\ targets \in TargetLists
    /\ idx \in 1..(Len(targets) + 1)
    /\ updated \subseteq Mcus
    /\ firstObserved \in {"none", "active", "other"}
    /\ error \in Errors
    /\ outcome \in Outcomes
    /\ built \in {"none", "target", "other"}
    /\ unit \in UnitStates
    /\ klippy \in {"ready", "error"}
    /\ device \in [Mcus -> {"application", "bootloader", "restarting"}]
    /\ firmware \in [Mcus -> {"old", "target", "other", "partial"}]
    /\ begun \in UnitStates
    /\ prints \in 0..MaxPrints
    /\ outside \in 0..MaxOutside

-----------------------------------------------------------------------------
(* Ways a step of the run ends. *)

Goto(label) == pc' = label /\ UNCHANGED <<error, outcome>>

\* fail and post_flash_failure: run_updates returns Err(RunFailure).
Fail(mcu, advice) ==
    /\ pc' = "done"
    /\ outcome' = [verdict |-> "failed", mcu |-> mcu, advice |-> advice]
    /\ UNCHANGED error

\* An error of the image, build or flash stage: what happens to Klipper is
\* decided at "restore".
Raise(class) == pc' = "restore" /\ error' = class /\ UNCHANGED outcome

AfterStopped == IF Target \in Prebuilt THEN "enter" ELSE "build"

-----------------------------------------------------------------------------
(* Choosing and checking the next target. *)

Selecting == pc = "select" /\ idx <= Len(targets)

RefuseUndiscovered ==
    /\ Selecting /\ Target \notin Inventory
    /\ Fail(Target, "none")
    /\ UNCHANGED <<targets, progress, firstObserved, built, klipper, mcuState,
                   ledger, budget>>

RefuseDowngrade ==
    /\ Selecting /\ Target \in Inventory /\ Target \in Newer
    /\ Fail(Target, "none")
    /\ UNCHANGED <<targets, progress, firstObserved, built, klipper, mcuState,
                   ledger, budget>>

Offered == Selecting /\ Target \in Inventory /\ Target \notin Newer

\* Mutant: a declined target takes the next one with it.
DeclineSkipsNext ==
    /\ Offered
    /\ idx' = idx + 2
    /\ Goto("select")
    /\ UNCHANGED <<targets, updated, printerChecked, firstObserved, built,
                   klipper, mcuState, ledger, budget>>

\* hooks.approve: the agent always says yes, the terminal user may decline.
Decline ==
    /\ Offered
    /\ idx' = idx + 1
    /\ Goto("select")
    /\ UNCHANGED <<targets, updated, printerChecked, firstObserved, built,
                   klipper, mcuState, ledger, budget>>

Approve ==
    /\ Offered
    /\ Goto("prepare")
    /\ UNCHANGED <<targets, progress, firstObserved, built, klipper, mcuState,
                   ledger, budget>>

AfterCheck == IF Target \in Prebuilt THEN "image" ELSE "observe"

\* coordinator.prepare: workspace paths and the trust check of the Kconfig.
Prepare ==
    /\ pc = "prepare"
    /\ \/ Goto(IF printerChecked THEN AfterCheck ELSE "check")
       \/ Fail(Target, "none")
    /\ UNCHANGED <<targets, progress, firstObserved, built, klipper, mcuState,
                   ledger, budget>>

\* Mutant: only the unit is looked at, not the print state.
PrinterAnswers == unit = "active"

\* ensure_printer_idle: Klippy in Error or Shutdown passes, else the print
\* state must be idle; a query that fails refuses.  With the unit down
\* Moonraker cannot report a print state.
PrinterIsIdle == unit = "active" /\ (klippy = "error" \/ ~printing)

CheckPrinter ==
    /\ pc = "check"
    /\ \/ /\ PrinterIsIdle
          /\ printerChecked' = TRUE
          /\ Goto(AfterCheck)
       \/ Fail(Target, "none") /\ UNCHANGED printerChecked
    /\ UNCHANGED <<targets, idx, updated, firstObserved, built, klipper,
                   mcuState, ledger, budget>>

\* prebuilt::prepare_automatic: download (FOCI) or read and verify the image.
PrepareImage ==
    /\ pc = "image"
    /\ \/ Goto("observe") /\ built' = "target"
       \/ Raise("image") /\ UNCHANGED built
    /\ UNCHANGED <<targets, progress, firstObserved, klipper, mcuState,
                   ledger, budget>>

-----------------------------------------------------------------------------
(* Stopping Klipper: ensure_klipper_stopped, one systemctl call per action. *)

\* Mutant: a run that stopped Klipper once does not look at the unit again.
ObserveKlipperOnce ==
    /\ pc = "observe"
    /\ \/ held /\ Goto(AfterStopped) /\ UNCHANGED <<firstObserved, held>>
       \/ /\ ~held
          /\ firstObserved' = IF unit = "active" THEN "active" ELSE "other"
          /\ \/ unit = "active" /\ Goto("stop") /\ UNCHANGED held
             \/ unit = "inactive" /\ Goto(AfterStopped) /\ held' = TRUE
    /\ UNCHANGED <<targets, progress, built, klipper, mcuState, begun,
                   disturbed, budget>>

ObserveKlipper ==
    /\ pc = "observe"
    /\ \/ Raise("coordinator") /\ UNCHANGED <<firstObserved, held>>
       \/ /\ firstObserved' =
                IF firstObserved # "none" THEN firstObserved
                ELSE IF unit = "active" THEN "active" ELSE "other"
          /\ \/ unit = "active" /\ Goto("stop") /\ UNCHANGED held
             \/ unit = "inactive" /\ Goto(AfterStopped) /\ held' = TRUE
             \/ /\ unit \in {"failed", "transitioning"}
                /\ Raise("coordinator") /\ UNCHANGED held
    /\ UNCHANGED <<targets, progress, built, klipper, mcuState, begun,
                   disturbed, budget>>

StopKlipper ==
    /\ pc = "stop"
    /\ \/ /\ unit' \in {"inactive", "failed"}
          /\ held' = TRUE
          /\ Goto("confirm")
       \/ /\ unit' \in {unit, "inactive", "failed"}
          /\ Raise("coordinator")
          /\ UNCHANGED held
    /\ printing' = (printing /\ unit' = "active")
    /\ UNCHANGED <<targets, progress, firstObserved, built, klippy, mcuState,
                   begun, disturbed, budget>>

ConfirmStopped ==
    /\ pc = "confirm"
    /\ \/ unit = "inactive" /\ Goto(AfterStopped)
       \/ Raise("coordinator")
    /\ UNCHANGED <<targets, progress, firstObserved, built, klipper, mcuState,
                   ledger, budget>>

-----------------------------------------------------------------------------
(* Building and flashing. *)

\* build_for_flash.  The checkout may have moved since the target version was
\* read, so a complete build need not be the promised version.
Build ==
    /\ pc = "build"
    /\ \/ /\ built' \in {"target", "other"}
          /\ Goto(IF Target \in Host THEN "install" ELSE "enter")
       \/ Raise("coordinator") /\ UNCHANGED built
       \/ Raise("artifact") /\ UNCHANGED built
    /\ UNCHANGED <<targets, progress, firstObserved, klipper, mcuState,
                   ledger, budget>>

\* LinkRefused: prebuilt firmware is never sent over this transport.
RefuseLink ==
    /\ pc = "enter" /\ Target \in Prebuilt
    /\ Raise("link_refused")
    /\ UNCHANGED <<targets, progress, firstObserved, built, klipper, mcuState,
                   ledger, budget>>

\* A bootloader request either works, or fails with the MCU in its application,
\* in its bootloader or on its way from one to the other.
EnterBootloader ==
    /\ pc = "enter"
    /\ \/ /\ device' = [device EXCEPT ![Target] = "bootloader"]
          /\ Goto("write")
       \/ /\ \E at \in {"application", "bootloader", "restarting"} :
                device' = [device EXCEPT ![Target] = at]
          /\ Raise("flash")
    /\ UNCHANGED <<targets, progress, firstObserved, built, klipper, firmware,
                   ledger, budget>>

\* Mutant: a failed transfer goes on with the next target.
WriteAndGoOn ==
    /\ pc = "write"
    /\ \/ /\ firmware' = [firmware EXCEPT ![Target] = built]
          /\ device' = [device EXCEPT ![Target] = "restarting"]
          /\ Goto("await")
          /\ UNCHANGED idx
       \/ /\ idx' = idx + 1
          /\ UNCHANGED mcuState
          /\ Goto("select")
    /\ UNCHANGED <<targets, updated, printerChecked, firstObserved, built,
                   klipper, ledger, budget>>

\* The route refuses the bootloader it found, or the transfer runs.  A backend
\* succeeds only after it told the MCU to start the new application; one that
\* fails may have stopped anywhere, the lost answer to that last command
\* included.
Write ==
    /\ pc = "write"
    /\ \/ /\ firmware' = [firmware EXCEPT ![Target] = built]
          /\ device' = [device EXCEPT ![Target] = "restarting"]
          /\ Goto("await")
       \/ /\ \E left \in {firmware[Target], "partial", built} :
                firmware' = [firmware EXCEPT ![Target] = left]
          /\ \E at \in {device[Target], "restarting"} :
                device' = [device EXCEPT ![Target] = at]
          /\ Raise("flash")
    /\ UNCHANGED <<targets, progress, firstObserved, built, klipper, ledger,
                   budget>>

\* HostMcuInstaller::install: the two refusals, then Install.
InstallHost ==
    /\ pc = "install"
    /\ \/ /\ firmware' = [firmware EXCEPT ![Target] = built]
          /\ Goto("sync")
       \/ /\ \E left \in {firmware[Target], "partial", built} :
                firmware' = [firmware EXCEPT ![Target] = left]
          /\ Raise("linux_host")
    /\ UNCHANGED <<targets, progress, firstObserved, built, klipper, device,
                   ledger, budget>>

SyncHost ==
    /\ pc = "sync"
    /\ Goto("restart") \/ Raise("linux_host")
    /\ UNCHANGED <<targets, progress, firstObserved, built, klipper, mcuState,
                   ledger, budget>>

\* systemctl restart klipper-mcu.
RestartHost ==
    /\ pc = "restart"
    /\ \/ /\ device' = [device EXCEPT ![Target] = "restarting"]
          /\ Goto("await")
       \/ /\ \E at \in {"application", "restarting"} :
                device' = [device EXCEPT ![Target] = at]
          /\ Raise("linux_host")
    /\ UNCHANGED <<targets, progress, firstObserved, built, klipper, firmware,
                   ledger, budget>>

\* wait_for_application: an MCU without a device of its own is not waited for.
AwaitApplication ==
    /\ pc = "await"
    /\ \/ /\ Target \in Waited => device[Target] = "application"
          /\ updated' = updated \cup {Target}
          /\ idx' = idx + 1
          /\ Goto("select")
       \/ /\ Target \in Waited /\ device[Target] # "application"
          /\ Fail(Target, "may_be_stopped")
          /\ UNCHANGED <<updated, idx>>
    /\ UNCHANGED <<targets, printerChecked, firstObserved, built, klipper,
                   mcuState, ledger, budget>>

-----------------------------------------------------------------------------
(* After a failure: allows_klipper_restore and restore_after_failure. *)

\* Mutant: every error allows the restore.
AlwaysAllowsRestore == error # "none"

AllowsRestore ==
    error \in {"coordinator", "artifact", "image", "link_refused", "linux_host"}

\* systemctl start: a no-op on an active unit; otherwise Klipper comes up
\* ready or not, or not at all.  `then` and `otherwise` end the step.
StartUnit(then, otherwise) ==
    \/ /\ IF unit = "active"
          THEN UNCHANGED klipper
          ELSE /\ unit' \in {"active", "failed", "transitioning"}
               /\ klippy' \in {"ready", "error"}
               /\ UNCHANGED printing
       /\ held' = FALSE
       /\ then
    \/ /\ unit' = IF unit = "active" THEN unit ELSE "failed"
       /\ UNCHANGED <<klippy, printing, held>>
       /\ otherwise

\* Mutant: the failure does not carry the MCU it happened on.
GiveUpUnnamed ==
    /\ pc = "restore" /\ ~AllowsRestore
    /\ Fail(NoMcu, "may_be_stopped")
    /\ UNCHANGED <<targets, progress, firstObserved, built, klipper, mcuState,
                   ledger, budget>>

GiveUp ==
    /\ pc = "restore" /\ ~AllowsRestore
    /\ Fail(Target, "may_be_stopped")
    /\ UNCHANGED <<targets, progress, firstObserved, built, klipper, mcuState,
                   ledger, budget>>

NothingToRestore ==
    /\ pc = "restore" /\ AllowsRestore /\ firstObserved # "active"
    /\ Fail(Target, "as_before")
    /\ UNCHANGED <<targets, progress, firstObserved, built, klipper, mcuState,
                   ledger, budget>>

RestoreKlipper ==
    /\ pc = "restore" /\ AllowsRestore /\ firstObserved = "active"
    /\ StartUnit(Goto("confirm_restore"), Fail(Target, "restore_failed"))
    /\ UNCHANGED <<targets, progress, firstObserved, built, mcuState, begun,
                   disturbed, budget>>

\* Mutant: systemctl start is trusted, the state after it is not read.
ConfirmRestoredBlindly ==
    /\ pc = "confirm_restore"
    /\ Fail(Target, "as_before")
    /\ UNCHANGED <<targets, progress, firstObserved, built, klipper, mcuState,
                   ledger, budget>>

ConfirmRestored ==
    /\ pc = "confirm_restore"
    /\ \/ unit = "active" /\ Fail(Target, "as_before")
       \/ Fail(Target, "restore_failed")
    /\ UNCHANGED <<targets, progress, firstObserved, built, klipper, mcuState,
                   ledger, budget>>

-----------------------------------------------------------------------------
(* After the last target. *)

Succeed ==
    /\ pc' = "done"
    /\ outcome' = [verdict |-> "ok", mcu |-> NoMcu, advice |-> "none"]
    /\ UNCHANGED error

\* Mutant: the batch ends without starting Klipper.
FinishWithoutStart ==
    /\ pc = "select" /\ idx > Len(targets)
    /\ Succeed
    /\ UNCHANGED <<targets, progress, firstObserved, built, klipper, mcuState,
                   ledger, budget>>

FinishTargets ==
    /\ pc = "select" /\ idx > Len(targets)
    /\ IF updated = {} THEN Succeed ELSE Goto("start")
    /\ UNCHANGED <<targets, progress, firstObserved, built, klipper, mcuState,
                   ledger, budget>>

\* start_after_batch: whatever state Klipper was found in.
StartAfterBatch ==
    /\ pc = "start"
    /\ StartUnit(Goto("confirm_start"), Fail(NoMcu, "may_be_stopped"))
    /\ UNCHANGED <<targets, progress, firstObserved, built, mcuState, begun,
                   disturbed, budget>>

ConfirmStarted ==
    /\ pc = "confirm_start"
    /\ \/ unit = "active" /\ Goto("reconnect")
       \/ Fail(NoMcu, "may_be_stopped")
    /\ UNCHANGED <<targets, progress, firstObserved, built, klipper, mcuState,
                   ledger, budget>>

\* Mutant: the versions the MCUs report are not compared.
ReconnectedAtAnyVersion ==
    unit = "active" /\ \A m \in updated : device[m] = "application"

\* pending_mcus is empty: every updated MCU is reported, at its target when
\* that is known.
Reconnected ==
    /\ unit = "active"
    /\ \A m \in updated : /\ device[m] = "application"
                          /\ m \in Unverifiable \/ firmware[m] = "target"

\* Mutant: the wait for the MCUs has no deadline.
ReconnectForever ==
    /\ pc = "reconnect" /\ Reconnected
    /\ Succeed
    /\ UNCHANGED <<targets, progress, firstObserved, built, klipper, mcuState,
                   ledger, budget>>

Reconnect ==
    /\ pc = "reconnect"
    /\ \/ Reconnected /\ Succeed
       \/ Fail(NoMcu, "none")
    /\ UNCHANGED <<targets, progress, firstObserved, built, klipper, mcuState,
                   ledger, budget>>

-----------------------------------------------------------------------------
(* The rest of the host. *)

runVars == <<targets, progress, firstObserved, error, built, mcuState, held,
             begun>>

\* SIGKILL, a power cut, or the agent restarted by a self-update.
Killed ==
    /\ ~Ended
    /\ pc' = "dead"
    /\ UNCHANGED <<runVars, outcome, klipper, disturbed, budget>>

PrintStarts ==
    /\ unit = "active" /\ klippy = "ready" /\ ~printing /\ prints < MaxPrints
    /\ printing' = TRUE
    /\ prints' = prints + 1
    /\ UNCHANGED <<runVars, pc, outcome, unit, klippy, disturbed, outside>>

PrintEnds ==
    /\ printing
    /\ printing' = FALSE
    /\ UNCHANGED <<runVars, pc, outcome, unit, klippy, disturbed, budget>>

\* Klippy shuts down, fails, or is restarted by its user; the unit stays
\* active.
KlippyChanges ==
    /\ unit = "active" /\ outside < MaxOutside
    /\ klippy' \in {"ready", "error"} \ {klippy}
    /\ printing' = FALSE
    /\ outside' = outside + 1
    /\ UNCHANGED <<runVars, pc, outcome, unit, disturbed, prints>>

\* Somebody starts or stops Klipper, or a transition of the unit ends.
UnitChanges ==
    /\ \/ outside < MaxOutside /\ outside' = outside + 1
       \/ unit = "transitioning" /\ UNCHANGED outside
    /\ unit' \in {"active", "inactive", "failed"} \ {unit}
    /\ klippy' \in {"ready", "error"}
    /\ printing' = FALSE
    /\ disturbed' = TRUE
    /\ UNCHANGED <<runVars, pc, outcome, prints>>

\* A flashed MCU's application comes up (nothing says that it must).
McuReturns ==
    /\ \E m \in Mcus : /\ device[m] = "restarting"
                       /\ device' = [device EXCEPT ![m] = "application"]
    /\ UNCHANGED <<pc, targets, progress, firstObserved, error, outcome, built,
                   klipper, firmware, ledger, budget>>

-----------------------------------------------------------------------------
Init ==
    /\ pc = "select"
    /\ targets \in TargetLists
    /\ idx = 1
    /\ updated = {}
    /\ printerChecked = FALSE
    /\ firstObserved = "none"
    /\ error = "none"
    /\ outcome = [verdict |-> "none", mcu |-> NoMcu, advice |-> "none"]
    /\ built = "none"
    /\ unit \in UnitStates
    /\ klippy \in {"ready", "error"}
    /\ printing \in {FALSE, unit = "active" /\ klippy = "ready"}
    /\ device = [m \in Mcus |-> "application"]
    /\ firmware = [m \in Mcus |-> "old"]
    /\ held = FALSE
    /\ begun = unit
    /\ disturbed = FALSE
    /\ prints = 0
    /\ outside = 0

Run ==
    \/ RefuseUndiscovered \/ RefuseDowngrade \/ Decline \/ Approve
    \/ Prepare \/ CheckPrinter \/ PrepareImage
    \/ ObserveKlipper \/ StopKlipper \/ ConfirmStopped
    \/ Build \/ RefuseLink \/ EnterBootloader \/ Write
    \/ InstallHost \/ SyncHost \/ RestartHost \/ AwaitApplication
    \/ GiveUp \/ NothingToRestore \/ RestoreKlipper \/ ConfirmRestored
    \/ FinishTargets \/ StartAfterBatch \/ ConfirmStarted \/ Reconnect

Environment ==
    \/ Killed \/ PrintStarts \/ PrintEnds \/ KlippyChanges \/ UnitChanges
    \/ McuReturns

Next == Run \/ Environment

\* The run is one thread; each of its calls returns (every wait has a
\* deadline, systemctl and make end).
Spec == Init /\ [][Next]_vars /\ WF_vars(Run)

-----------------------------------------------------------------------------
(* What a run promises. *)

Damaged(m) == device[m] = "bootloader" \/ firmware[m] = "partial"

\* Whatever happens to the run, a kill included, at most the target being
\* processed is in its bootloader or holds a partial image: "the first
\* failure ends the run", and nothing later is touched after a failed flash.
NothingElseDamaged ==
    \A m \in Mcus : Damaged(m) => idx <= Len(targets) /\ m = Target

\* A run that returns names the damaged MCU in its failure, and says that
\* Klipper may still be stopped when that MCU sits in its bootloader; a
\* successful run leaves no damage.
DamageIsNamed ==
    pc = "done" => \A m \in Mcus :
        /\ Damaged(m) => outcome.verdict = "failed" /\ outcome.mcu = m
        /\ device[m] = "bootloader" => outcome.advice = "may_be_stopped"

\* The per-MCU report of the agent (updated, failed, not attempted) is true:
\* an updated MCU holds a complete image, and one that is neither updated nor
\* named as failed was never touched.
ReportIsTrue ==
    pc = "done" => \A m \in Mcus :
        /\ m \in updated => /\ firmware[m] \in {"target", "other"}
                            /\ device[m] # "bootloader"
        /\ m \notin updated /\ m # outcome.mcu =>
                firmware[m] = "old" /\ device[m] = "application"

\* What a run returns is true of the MCUs.
OutcomeIsTrue == DamageIsNamed /\ ReportIsTrue

\* A successful run has seen every MCU it updated run its application at the
\* promised version (when one is known), and has started Klipper again if it
\* stopped it.
SuccessIsVerified ==
    outcome.verdict = "ok" =>
        /\ ~held
        /\ \A m \in updated : /\ device[m] = "application"
                              /\ m \in Unverifiable \/ firmware[m] = "target"

\* An MCU is flashed only while Klipper is inactive, unless somebody else moves
\* it during that very flash: whatever they did before, each target begins with
\* a look that finds it inactive (ensure_klipper_stopped), and no step of the
\* run starts it until the flash is over.
FlashWhileStopped ==
    [][pc' \in Flashing /\ unit' # "inactive" =>
         pc \in Flashing /\ (unit # "inactive" \/ outside' > outside)]_vars

\* failure_message's "Klipper has been left in its state from before": true
\* whenever the run was the only one to move the unit.
HonestClaim ==
    outcome.advice = "as_before" /\ ~disturbed => unit = begun

\* A failure message without any word about Klipper means that Klipper was not
\* stopped by this run, as long as no MCU was updated before the failure.
QuietFailureTouchedNothing ==
    outcome.verdict = "failed" /\ outcome.advice = "none" /\ updated = {} =>
        ~held /\ \A m \in Mcus : device[m] = "application"

\* What a failure says of Klipper, or leaves unsaid, is true.
AdviceIsTrue == HonestClaim /\ QuietFailureTouchedNothing

\* "never call this after a flash attempt" (restore_after_failure) and
\* allows_klipper_restore: the run does not start Klipper while an MCU is in
\* its bootloader.
StartsKlipper ==
    \/ pc = "restore" /\ pc' = "confirm_restore"
    \/ pc = "start" /\ pc' = "confirm_start"

NeverStartOverBootloader ==
    [][StartsKlipper => \A m \in Mcus : device[m] # "bootloader"]_vars

\* The run does not stop Klipper under a running or paused print.
StopsKlipper == pc = "stop" /\ pc' # "stop" /\ pc' # "dead"

NeverStopsAPrint == [][StopsKlipper => ~printing]_vars

\* For a print that is older than the run, that one check is enough, however
\* much work lies between it and the stop, and whoever moves Klipper
\* (printer_checked).
SettledPrintIsSpared ==
    [][StopsKlipper /\ prints = 0 => ~printing]_vars

\* RunFailure.message carries "Klipper restart advice": a failed run that
\* stopped an active Klipper and did not start it again says so.
StoppedIsTold ==
    outcome.verdict = "failed" /\ held /\ firstObserved = "active" =>
        outcome.advice # "none"

\* The run always ends: with an outcome, unless it is killed.
Terminates == <>Ended

\* The run implements the contract of RunContract.
Contract == INSTANCE RunContract WITH
    fate    <- IF pc = "dead" THEN "killed"
               ELSE IF outcome.verdict = "none" THEN "running"
               ELSE outcome.verdict,
    custody <- held,
    atRisk  <- {m \in Mcus : device[m] = "bootloader"},
    updated <- updated

ImplementsContract == Contract!Spec
=============================================================================

# aldis: verification project

TLA+ models of aldis, the tool that rebuilds and reflashes the firmware of a
Klipper printer's MCUs, as a command (`aldis update`) and as a Moonraker agent
(`aldis agent`).  TLC checks the models on small instances; TLAPS proves the
main results for every value of the constants.

Paths below are relative to the repository's `src/` directory
(`update_run.rs` is `src/update_run.rs` there).

## The system

| Part | State it keeps | Operations | Talks to |
| --- | --- | --- | --- |
| update run (`update_run.rs`) | position in the batch, `updated`, `printer_checked` | `run_updates`, `ensure_printer_idle`, `wait_for_application`, `wait_for_mcus` | coordinator, Moonraker, prebuilt, hooks |
| coordinator (`coordinator.rs`) | `first_observed_active` | prepare, stop-build-flash, restore after a failure, start after the batch | service, build, flash routes |
| service (`service.rs`) | none: systemd's unit is the state | `state`, `stop`, `start` | systemd through `sudo -n` |
| build (`build.rs`), prepare, workspace | files of the run and of the checkout | one `make` build | make |
| prebuilt (`prebuilt.rs`, `foci.rs`, `beacon.rs`, `cartographer.rs`) | the agent's release cache | choose, download or read, verify an image | GitHub, local checkouts |
| flash routes (`flash/system.rs`, `flash/*`) | the MCU: application, bootloader, its flash | request the bootloader, find it, transfer | the MCU |
| Katapult (`flash/katapult/`) | the position in the protocol; the board's flash, the frames under way | connect, verify the UUID, send, finish, read back, complete | the bootloader, over a serial line or CAN |
| Linux host MCU (`flash/linux_host.rs`) | the binary and its service | install, sync, restart | sudo |
| agent service (`agent/service.rs`) | the run record, the holder's name | `status`, `update`, `execute` | backend, lock, events |
| agent connection (`agent/connection.rs`) | the socket, the event channel | read, reply, forward events, reconnect | Moonraker |
| runtime and backend (`agent/runtime.rs`, `agent/system.rs`) | one service per printer, the run log | serve all printers, run, look at the unit | all of the above |
| lock (`lock.rs`) | flock on `/tmp/aldis.lock`, a file several accounts share | create, open, take without waiting, release | kernel |
| commands (`update.rs`, `flash_command.rs`, `reboot.rs`) | the lock while they run | as named | coordinator, flash routes |
| eligibility, checkout (`eligibility.rs`, `checkout.rs`) | the checkout of Klipper | compare versions, select, refresh | git, Moonraker |
| other bootloaders (`flash/stm32_dfu.rs`, `picoboot.rs`, `samba.rs`, `beacon_dfu.rs`) | the position in a transfer; the board's flash | check, erase, write, read back, start | the bootloader, over USB or a serial line |
| flash order, kconfig | none (pure) | order targets, validate | |
| fleet (`fleet/`) | none | check that printers on a shared CAN bus are idle | other Moonrakers |
| setup (`setup.rs`) | udev rules, sudoers policy, the agent's unit, `moonraker.asvc` | install, install the agent, remove it | udev, sudo, systemd |
| self-update (`self_update*.rs`) | the installed binary | download, verify, replace, restart the agent | GitHub, systemd |
| discovery, identify, Moonraker client, status, ui, cli | none that outlives a call | | |

What is hard about it:

* **A long operation on shared hardware.**  A run lasts minutes, between reading
  that the printer is idle and stopping Klipper anything can start, and Klipper
  belongs to systemd and to whoever else restarts it.
* **Partial failure.**  Each of a dozen external calls per MCU may fail, and what
  may be done next depends on how far it got: Klipper may be restored after a
  failed build, never after a failed transfer.
* **A promise to the user in every outcome.**  Which MCU is damaged, which were
  not touched, what became of Klipper.
* **Threads and processes.**  Every printer has a connection thread and at most
  one worker; they share a lock file with other processes, one run log and the
  name of the lock's holder, each behind its own mutex.
* **A protocol without sequence numbers.**  A Katapult answer that comes after its
  exchange timed out is read by the next one, and requests sent again reach the
  board twice; what is started in the end must be what was read back.
* **Facts that are read early and used late.**  What the checkout or a vendor's
  clone holds, what is plugged in where, whether a file suits an MCU, whether the
  printers behind a bridge are idle: each is read, then a prompt, a download or
  another MCU's flash passes, then it is used.
* **Repair by running it again.**  `setup` and `self-update` are cut off anywhere and
  started again over what they left.
* **An unreliable connection** that must not matter to the run it asked for.

## Modules

| Module | Models |
| --- | --- |
| `UpdateRun` | one run of `run_updates`, with the coordinator, the service, the build and the flash backends below it, and the rest of the host beside it |
| `RunContract` | what a run promises whatever its targets: the abstract specification `UpdateRun` implements |
| `AgentService` | connection and worker threads of several printers, the lock, command-line runs |
| `KatapultSession` | one session with a Katapult bootloader, the link between them and the board |
| `FlashContract` | what a bootloader session promises whatever the link does: `KatapultSession` implements it |
| `FlashRoute` | the way of one image to one MCU: link, request, observation, backend, address, refusal |
| `RouteContract` | what a run relies on when it flashes one MCU: `FlashRoute` implements it |
| `VendorFlash` | one session with STM32 ROM DFU, PicoBoot, SAM-BA or Beacon's DFU; keeps `FlashContract` too |
| `Revision` | `git describe` revisions and their comparison, as operators |
| `Assessment` | what `status`, `update` and the agent say of one MCU's firmware, and what an update then builds and accepts |
| `CartographerImage`, `BeaconImage`, `FociRelease` | which image each vendor's board is given, and where it comes from |
| `LockFile` | `/tmp/aldis.lock` call by call, with accounts, umask, a cleaner of `/tmp` and kills |
| `HostLock` | what the lock promises: `LockFile` implements it, `AgentService` assumes it |
| `SelfUpdate` | `aldis self-update` beside releases being published, the agent's service and kills |
| `Reboot` | `aldis reboot`: the scan, each board's prompt and request, the Beacon's recovery, Klipper's restart |
| `Setup` | `aldis setup`, `--agent`, `--agent --remove`, cut off and run again |
| `Fleet` | the question to the printers behind a USB-CAN bridge, and the flashing order |
| `FlashCommand` | `aldis flash`: a file to one MCU; implements `RunContract` |
| `MCUpdateRun`, `MCAgentService`, `MCKatapultSession`, `MCFlashRoute` | instances of one module for TLC |
| `Commands`, `Firmware`, `Bootloaders` | several of the modules above, each as it is for any values of its constants |
| `MCCommands`, `MCFirmware`, `MCBootloaders` | their values for TLC |
| `*_proofs` | theorems about the module of that name, and their proofs |

`RunContract` is instantiated by `UpdateRun` (`Contract`).  `AgentService` stands
beside `UpdateRun`: it abstracts a run to `EndRun` (it ends well with Klipper
active, or fails with Klipper in either state).  `KatapultSession` stands below
`UpdateRun`, whose `Write` takes every end a transfer can have; `FlashContract`,
which `KatapultSession` instantiates (`Contract`), narrows them for this
bootloader: an application runs only over a complete or an untouched image.
`VendorFlash` keeps the same contract for the backends that read back.  Between
them lies `FlashRoute`, which implements `RouteContract`: the two actions
`EnterBootloader` and `Write` of a run, and the class of error that allows a restore.
`UpdateRun` and `FlashCommand` both implement `RunContract`: a batch and an explicit
file give the same promise about Klipper and about MCUs at risk.

```
LockFile -> HostLock <- AgentService      UpdateRun -> RunContract <- FlashCommand
                                              |
Assessment, Fleet (what may start a run)  FlashRoute -> RouteContract
Cartographer/Beacon/FociRelease (images)      |
SelfUpdate, Reboot, Setup (beside a run)  KatapultSession, VendorFlash -> FlashContract
```

### UpdateRun

The run is one sequential thread, so its control is `pc`; every call that leaves
the process is an action, and the environment's actions come between any two.

| Code | Model |
| --- | --- |
| loop over `request.targets` | `targets`, `idx`, `pc = "select"` |
| inventory lookup, `downgrade_refusal`, `hooks.approve` | `RefuseUndiscovered`, `RefuseDowngrade`, `Approve`, `Decline` |
| `coordinator.prepare`, `ensure_printer_idle` once per run | `Prepare`, `CheckPrinter` |
| `prebuilt::prepare_automatic` | `PrepareImage` |
| `ensure_klipper_stopped`: state, stop, state | `ObserveKlipper`, `StopKlipper`, `ConfirmStopped` |
| `build_for_flash` | `Build` |
| flash backends: refusal of a link, bootloader request, transfer | `RefuseLink`, `EnterBootloader`, `Write` |
| `HostMcuInstaller::install`: install, sync, restart | `InstallHost`, `SyncHost`, `RestartHost` |
| `wait_for_application` | `AwaitApplication` |
| `allows_klipper_restore`, `restore_after_failure` | `GiveUp`, `NothingToRestore`, `RestoreKlipper`, `ConfirmRestored` |
| `start_after_batch`, `wait_for_mcus` | `FinishTargets`, `StartAfterBatch`, `ConfirmStarted`, `Reconnect` |
| `Result<RunOutcome, RunFailure>` | `outcome`: verdict, the MCU named, and `advice`, what the message says about Klipper |

An MCU is `device` (what it executes) and `firmware` (what its flash holds: what
it had, the promised version, another complete build, or part of an image).  A
transfer that fails may leave any of these, the complete image included: the
answer to the last command can be lost after it was carried out.  `held`, `begun`
and `disturbed` are history variables that no guard reads.

Two inputs are wider than what the callers pass today: a target that is not in
the inventory and a target that runs newer firmware are filtered before
`run_updates` is called, which nevertheless guards against both, and so the
model offers them.  `RequestForAnotherMcu` (`coordinator.rs:323`) is not an
action: `run_updates` builds the request from the MCU it approved in the same
step.

### RunContract

Custody of Klipper is taken before an MCU is put at risk (asked into its
bootloader); at most one is at risk at a time; Klipper is given back only when
none is; an MCU is recorded as updated only in custody; a run succeeds only
after it gave Klipper back.  The refinement maps custody to `held` and the MCUs at
risk to those in their bootloader.

### AgentService

Every access under a mutex and every use of the lock is an action; what a thread
carries between two of them (the lock, the holder guard, by ownership) is in its
label.  `conn` follows `serve` and `update`; `worker` follows `execute` and
`SystemBackend::run`.  Dropping values is control in Rust and so it is here: a
rejection drops the guard and then the lock (`Unclaim`, `Unlock`), a run that ends
drops the lock inside `backend.run` (`ReleaseLock`) and the guard after it
(`DropHolder`).  A message of a run is its number in the run: enough to say which
messages the record kept, and in which order.  A lock file that cannot be opened
is a refusal of `TryLock`.  `logged` is a history variable: whose runs traced into each
printer's latest run log (`Trace`).  The sink behind it takes the events of every thread;
those of threads that run no update, a connection that reports a rejected request for
instance (`agent/connection.rs:60`), reach the open file too and are not recorded.

### KatapultSession

| Code | Model |
| --- | --- |
| `KatapultAdapter::flash`, `leave_serial`: where the host is | `step`, `index` |
| `command`: the loop over `MAX_ATTEMPTS` | `attempts`, `Send`, `SendFails`, `Exhausted` |
| `exchange` (serial and CAN): the read loop and its deadline | `awaiting`, `Timeout`, `Overrun` |
| `decode_response`, the comparison of the echoed command | `Accepts`, `Misread`, `Answered` |
| `connect`, `verify_canbus_uuid`, the comparison of the start address | `Connected`, `Identified`, `Admit` |
| `write_block`, `read_block`: the loop over `BLOCK_ATTEMPTS` | `tries`, `Written`, `ReadBack`, `WrongBlock` |
| `SendEof`, the two SHA-1 sums, `complete` | `Ended`, `Verdict`, `Completed` |
| `block_address` | `InReach`, `OutOfReach` |
| frames under way; the bootloader | `requests`, `replies`, `Serve`, `LoseRequest`, `LoseReply`, `Garble` |

The two queues keep order, as a serial line and one CAN identifier do.  A frame is
lost while it is the last of its queue, that is, when it is sent.  An answer is
late because its request is served late: `Timeout` fires while requests wait,
and any number of them may.  `Overrun` is `ResponseAssembler` on a serial read that
returns several frames at once: the chunk is longer than the first header says,
and all of it is dropped.  On CAN a read returns one frame of the bus.  A reply
that is damaged or that carries a rejection is `legible = FALSE`; one without the
data its command needs is `whole = FALSE`, which only an unsound board sends.

A block is its content and a firmware a function from block addresses to contents,
so that padding, frame encoding and the CRC need no definition: they tell the
same things apart.  SHA-1 is taken to tell images apart.  A firmware has at least
one block.  The board is not part of the repository: it is modelled as answering
each request in order with the command it serves, the address it is asked for
and what its flash holds, or, unsound, with short answers and spoilt writes.

`FlashContract` has three steps: the flash is rewritten, only by an upload, only
before the application is started, and after the end only if the session failed
(its last request may still be under way); the application is started, never
over a partial image; the result is reported, and it is true of the flash.

### FlashRoute and RouteContract

One MCU's flash, from `flash_prepared` or `flash_prebuilt` to its result.

| Code | Model |
| --- | --- |
| the links an image may take, `install_linux_host` | `Begin`, `InstallHost` |
| `request_usb_bootloader`, `flash_uart_katapult`, `flash_can_system` | `AskUsb`, `AskUart`, `AskCan` |
| `request_usb_bootloader_and_wait`, `observed_if_ready`: looks at the USB place until the deadline | `Observe`, `Ready` |
| `select_usb_bootloader`, `katapult_route`, `resolve_serial_route`, `target_from_kconfig` | `Select` and its cases |
| `resolve_stm32_firmware_file_target`, `probe_application_start`, `installed_application_start` | `Probe`, `Installed`, `Resolved`, `Mismatch` |
| `leave_system_at_path`, `open_serial_when_ready`, `confirm_bootloader`, `CanKatapultBootstrap::connect` | `Leave`, `Open`, `Confirm`, `Assign` |
| the backend's session | `Transfer`, one step |

`mcu` holds what the code cannot see (where the application lies, which bootloader
a request brings up, what a probe would take for an application) beside what
it can (the link, the Kconfig's start).  `BoardMoves` is the board: it enters its
bootloader late, its serial device appears later still, or it never comes back.

`RouteContract` has the MCU as `UpdateRun` sees it.  An MCU leaves its application only
when it was asked; it is written only in its bootloader; it is let go with
the image it had or a complete one; the result is a success only with a
complete image, and a failure is restorable (`allows_klipper_restore`) only when
the MCU was never asked for its bootloader.  `FlashRoute` implements it, and these are
the outcomes `EnterBootloader` and `Write` of `UpdateRun` range over.

### VendorFlash

The four vendors' sessions as courses over the same steps (`Find`, `Open`,
`Handshake`, `Admit`, `Erase`, `Write`, `Written`, `Verify`, `Start`, `Reply`): which of them a
backend takes, and in which order, is `Course`.  Every step may fail, in the
middle of a block too.  Beacon's DFU reads nothing back and counts errors after the
manifestation request as success; the other three keep `FlashContract`.

### Revision, Assessment

`Revision` has `git describe` revisions and `compare_revisions` as operators.
`Assessment` has one MCU, the checkout of Klipper (commit, local changes, tags
fetched), the Klipper the host runs and a vendor's image, all of which change
while an update is under way: `MoveCheckout`, `Refresh`, `RestartHost` and `MoveImage` come
between `Approve` and `Flash`, and between `Flash` and `Verify`.  The blockers, the
agent's state and action (`AgentState`, `AgentOffers`) and the command's selection
(`Selected`) are operators over the same state, so that they can be compared.

### CartographerImage, BeaconImage, FociRelease

One update of one board, from the choice of the image to the flash, beside what
moves meanwhile: a clone pulled file by file and a plugin updated; another
Beacon plugged in behind the configured port; releases published, published again
and withdrawn.  `aldis flash` (`PrepareExplicit`, `NameFile`) and the recovery of `aldis reboot`
(`Recover`) share the checks.  `ReleaseCache` is `Get`, `Due`, `Renewed`, with a clock.

### LockFile and HostLock

`try_acquire` is a system call per action: `Open`, `Create`, `SetPermissions`, `TryLock`;
`Drop` and a kill give the lock up.  A path names an inode and a lock belongs to
the inode, a cleaner of `/tmp` unlinks the path, also while the lock is held, the umask
takes read access, and `fs.protected_regular` refuses `O_CREAT`.  `HostLock` is one lock, into which each unlinking
lets at most one more process: that is what remains of exclusion, and, without
unlinking, what `AgentService` assumes.

### SelfUpdate, Reboot, Setup

`SelfUpdate`: `run_self_update` call by call, with `install_binary_impl` as `Stage`, `Copy`,
`MarkExecutable`, `Rename`, and `restart_agent_if_running` as `AskAgent`, `RestartAgent`, beside
releases being published, the agent started and stopped, and kills.  Files are
inodes with contents, so that a truncation of what is running is visible.

`Reboot`: the scan (`Scan`), each board's prompt and request (`NextBoard`, `Probe`, `Accept`,
`Decline`, `Leave`, `Watch`), a Beacon's flash (`NextBeacon`, `Ask`, `Flash`, `WatchLeft`,
`WatchApplication`) and Klipper's restart (`ReadState`, `AskRestart`, `SendRestart`), while
boards are plugged around and serial names are given to others.

`Setup`: each file and each systemctl or udevadm call is an action that may fail, a
kill or power loss may come after any, aldis may be upgraded between two setups
and another account may run the next.

### Fleet and FlashCommand

`Fleet`: `probe_peer`'s four requests (`AskUnit`, `AskKlippy`, `AskPrint`, `AskMcus`) to one Moonraker
after the other, `Check` (`peers_excluding`, `check_bridge`), then the flashes in
`FlashOrders`; the other printers go on all the time.  A Moonraker that names no unit
(`silent`) is taken for `klipper`, whichever unit that name is of (`default`): its printer
may be left out as this one's, or take the place of another (`Said`, `Peers`).

`FlashCommand`: `run_flash` from the file to the reconnection.  The bytes are checked for a
Cartographer and a Beacon (`Suits`); a FOCI and an MCU that is no vendor's take any.
`ImplementsRun` maps it to `RunContract` with one MCU.

### Instances of several modules

`Commands`, `Firmware` and `Bootloaders` hold one named instance of each of several
modules (two of `Reboot` and of `Assessment`) and a variable that says which of them
a behaviour is of; variables of the others are `Unused`.  Their constants are those
of the instances, with what these assume gathered in `Instances`; `MCCommands`,
`MCFirmware` and `MCBootloaders` give the values.  Initial states and steps are those of the modules, so such
a run explores exactly the union of what separate runs would, and each
property is the module's own, for the behaviours of that module.  Components that
interact are composed by refinement, not there.

## Runs

| Run | Question | Instance |
| --- | --- | --- |
| `update_run` | does every outcome tell the truth about MCUs and Klipper, and does a run keep its contract and end? | `UpdateRun.cfg` |
| `print_race` (violated) | is a print spared that starts after the look at the printer? | `UpdateRunPrint.cfg` |
| `untold_stop` (violated) | does every failure that leaves Klipper stopped say so? | `UpdateRunAdvice.cfg` |
| `katapult_session` | is what is started, refused and reported right for every session and board? | `KatapultSession.cfg` |
| `agent_pair` | mutual exclusion and its two followers, holder and log | two printers, a command-line run |
| `agent_record` | the run record and the events, with lost connections; are requests answered and runs recorded as finished? | one printer, two runs |
| `agent_holder` (violated) | does a busy rejection name the printer that runs? | two printers |
| `agent_stopped` (violated) | is `klipper_left_stopped` about this run? | one printer, a command-line run |
| `commands` | what do the lock, a self-update, a reboot, a setup, an explicit flash and the rule between printers keep, when each is interrupted or the host changes under it? | `MCCommands`: seven instances |
| `firmware` | is what an MCU is offered, approved for and given the same thing, or said not to be, and never another board's? | `MCFirmware`: five instances |
| `bootloaders` | is firmware written at the address the code promises for it, only by a bootloader it is for, and started only when it is whole, and does every flash end? | `MCBootloaders`: three instances |
| `flash_bridge` (violated) | is an explicit file written only where its vector table says it can run? | `MCFlashRoute`: USB-CAN bridges |

What the passing runs check:

* `NothingElseDamaged`: a failure or a kill anywhere leaves at most the target in
  hand in its bootloader or with a partial image.
* `OutcomeIsTrue` (`DamageIsNamed` and `ReportIsTrue`): the outcome names that MCU, warns that Klipper
  may be stopped when it sits in its bootloader, and tells updated, failed and
  untouched MCUs apart correctly.
* `SuccessIsVerified`: success means every updated MCU was seen in its application
  at the promised version, where one is known, and Klipper was given back.
* `FlashWhileStopped`: no MCU is built for or flashed with Klipper running, unless
  somebody else moved the unit during that very flash; what they did before, between two
  targets for instance, each target's look at the unit finds.
* `AdviceIsTrue` (`HonestClaim` and `QuietFailureTouchedNothing`): what a failure says or leaves unsaid
  about Klipper is true.
* `NeverStartOverBootloader`: no step starts Klipper while an MCU is in its
  bootloader.
* `SettledPrintIsSpared`: a print begun before the run is never stopped by it, as long as
  no other print is begun since (`print_race` has one that is).
* `ImplementsContract`, `Terminates`.
* `OneAtATime`, `HolderIsAtWork`, `LogBelongsToHolder`: the lock's owner is exactly
  the thread or process at work, a recorded holder is at work, and the run log that is
  open, of the one sink all printers share, is that of the run under the lock: what a run
  traces goes to its own log or to none.  Lines of threads that run no update are not
  excluded.
* `RecordIsFaithful`, `RecordKept`, `ReplyBeforeEvents`: the record holds the latest
  messages of its own run in order and a finished one ends with its result; no
  request replaces the record of a run that is finishing; a client learns its
  `run_id` before the run's events.
* `RequestAnswered`, `RunFinishes`.
* `OnlyVerifiedStarts`: a Katapult application is started only over the image that
  was read back or over flash nobody touched; `FrozenAfterEof`: nothing writes
  once the end of the file was acknowledged, which makes the readback worth
  something; `RefusedIsUntouched`: a board of another UUID, start address or
  geometry is not written, not even after the session ended.
* `AcknowledgedIsWritten`, `ReadBackIsFlash`: a late answer is never counted for
  another block.
* `FewFaultsOnlyCostTheLastAnswer`: with a sound board and fewer faults than
  `BLOCK_ATTEMPTS` a session fails only after the board started the right image,
  when the answer to Complete was lost: the application does not answer the
  retries, so the caller is told of a failure that did not happen.  More faults
  can end it earlier: late answers put every following exchange one frame behind,
  and three wrong addresses end a block.
* `Terminates`, `ImplementsContract` of the session.

The instances of several modules unite what each module states, part by part, in
properties of the command, or of the question, that they are about.  `commands`:

* The lock, `LockIsKept`: `ImplementsLock` (it is `HostLock`), `SettledFileOpens` and `CreatedForAll` (no
  account is refused a file that stayed in place, and only a creator's death leaves
  one that others cannot open), `AttemptEnds` (nobody waits).
* Self-update, `SelfUpdateIsSafe`: the installed path always names a whole executable that a release
  lists (`InstalledIsWhole`, `InstalledIsListed`), a failure keeps the old one
  (`FailureKeepsBinary`), it only goes up (`OnlyUpgrades`), the agent is restarted for a
  newer binary only (`RestartsForNewer`), and what is said of it is true
  (`ToldIsLoaded`).
* Reboot, `RebootIsHonest`: success means that no board its user wanted to leave was left behind
  (`SuccessIsHonest`) and that each Beacon it wrote runs a whole image (`RecoveredIsWhole`); no board
  is told what its own prompt did not ask (`OnlyWithConsent`); a blank flash is not
  started (`BlankStays`); Klipper is restarted only for a Beacon that came back
  (`RestartHasReason`); it ends (`Terminates`).
* Setup, `SetupRepairs`: the policy sudo reads is always one that visudo accepted
  (`PolicyIsWhole`); a setup that succeeded leaves this release's files installed and
  read, whatever an earlier one left (`InstalledIsCurrent`); the agent then runs, also
  after a reboot (`AgentRuns`), or after a removal does not (`RemovedStaysOut`).
* Explicit flash, `FlashKeepsItsWord`: an MCU gets the bytes its user agreed to, and a Cartographer or a
  Beacon only bytes that suit it (`AgreedIsWritten`); a print
  that runs since before the prompt is spared (`AgreedPrintIsSpared`); a Klipper left
  stopped is told of (`StoppedIsTold`); `ImplementsRun`.
* Between printers, `BridgesAreSafe`: a bridge is flashed only when each printer on its bus that is told
  apart by its unit's name (`ToldApart`) was idle at some moment after the run began
  (`BusWasIdle`), and no MCU over a bus that is already gone (`BusIsUp`).

`firmware`:

* `UpdateSettles`: an update reaches its target and then needs no other; the agent
  offers nothing the command would not select (`AgentAgrees`); an MCU called current
  runs the checkout's commit (`CurrentIsSameCommit`); vendors' development builds
  stay (`DevelopmentStays`).
* `OnlyItsImage`: a vendor's image is written only to its own chip, link, bitrate,
  address and board (`OnlySuitable`, `NeverForAnother`), only if the plugin works with
  it (`PluginKeepsUp`), only as it was published with its digest (`OnlyPublished`);
  releases are asked for rarely (`FewLookups`).
* `ApprovedOrReported`.  Of Klipper's firmware: no update is approved for an ancestor of what
  the MCU runs, where both revisions name a tag (`NoAncestorApproved`); a checkout that is
  moved between the approval and the build gives another build, possibly an older one, but
  the update is then not called reached (`ReachedIsApproved`), and one that was left alone
  writes no ancestor's (`NeverOlder`).  Of the vendors': never an older version (`NeverOlder`)
  and, of a Cartographer, the build that was approved (`UpdateKeepsBuild`); a Beacon's
  recovery writes the image of the revision that waits (`RecoveryIsForIt`); a failed lookup
  forgets no FOCI release (`FailureKeeps`).

`bootloaders`:

* `FlashIsSound`: routes (`WrittenWhereLinked`, `UnforcedFileStays`,
  `OnlyItsBootloader`, `ToldIsRunnable`), the vendors' sessions (`StartsVerified`,
  `StartsDownloaded`, `RefusedUntouched`, `ProtectedUntouched`, `SuccessIsWritten`) and Katapult
  with the code's own retry counts.  An address is promised for builds and prebuilt images
  and, over USB to an STM32 bootloader that can be read, for a file without `--force`.  For
  a file over a bridge (`flash_bridge`), Katapult or SAM-BA, or a forced one, none is.  That
  a build runs where its Kconfig says is what the instance assumes of the Kconfig
  (`Truthful`); what is checked is that no other way reaches it.
* `ImplementsContract`: of a route (`RouteContract`) and of a session that reads back
  (`FlashContract`); `Terminates`: both end.

Every property of a run has a mutant of the code (in the module, before the
definition it replaces) that breaks it on the same instance.

### Bounds

`UpdateRun.cfg` has one MCU of each kind the code treats differently: built and
on USB (waited for), built on CAN (not waited for, its version unknown), the
Linux host, prebuilt, newer than its target, not discovered.  The flashing orders
put each kind before another one, since what matters in a batch is what the
second target finds after the first; one order has three.  One print
(`MaxPrints`) and one outside change of Klipper (`MaxOutside`) suffice for every
property here: each is about a single change at the worst moment, and TLC tries
every moment.  Deadlock is not checked in these runs because a run really ends.

In the agent's runs a record keeps two messages (`MessageCap`; 500 in the code)
and a run emits up to four, so that the cap is passed; two accepted runs per
printer make a record that is replaced; two lost connections make one between the
acceptance and its reply and one in the middle of a run.  `agent_pair` has two
printers, which are interchangeable (symmetry), and one run of each.  The other
instances use no symmetry.

`KatapultSession.cfg` takes every kind of session and board (576 initial states)
with two blocks, two contents and two faults.  Its retry counts are one or two
below the code's (3 and 2 for 5 and 3): a fault then exhausts them, which with
the real counts needs more faults than this many boards allow.
The instance of Katapult in `MCBootloaders` has the real counts, three blocks (equal ones
and different ones, over a serial port), a sound board and four faults, two more
than the retries are certain to absorb.  `MaxFaults` counts lost and garbled frames,
failed writes of a request and, up to the bound, timeouts of a request that is
served later; further timeouts are not held back.

`Commands.cfg`: three accounts, of which one is root and two have a umask that hides
what they create, one cleaning of `/tmp`, before the lock is taken or while it is held, and
one kill: two processes race for the file and a third comes later.  Self-updates, one after the other, meet three releases and
are killed twice: once to leave something behind, once on the way of its repair.
One board of every kind with two changes of the bus or of Klipper, and two boards of
which one may take the other's serial name.  Setups by two accounts, one upgrade
of aldis between them, any number of failures.  Two outside changes during an
explicit flash.  Eight hosts of printers: one that is this printer's second
Moonraker, others on the bridge's bus, beside it, or behind two Moonrakers, a bridge
whose bus nobody knows, and no bridge; in three of them a Moonraker names no unit and is
taken for this printer's, for another's, or for one that does not exist.

`Firmware.cfg`: four commits, a line and a fork at the same distance from the tag, with
hashes abbreviated to one or two digits; two moves of the checkout; vendors'
versions 0 to 2.  The two states of Cartographer's clone have a manifest that
disagrees with an image, lists one twice and renames another.  Beacons of three
revisions in two USB families.  Two FOCI releases, two editions of an asset, a clock of five ticks.

`Bootloaders.cfg`: an MCU for every link and bootloader, three places in flash, every
kind of image with every place its vector table may name; two looks before a
deadline, since a wait distinguishes only none, some and too many.  Vendors'
sessions have three blocks, so that there is one before and one after the failure.

### Fairness

`UpdateRun` assumes weak fairness of the run as a whole: its calls return.  The
waits have deadlines (10 s for a bootloader, 15 s for an application, 30 s for
the reconnection), transports have read timeouts, downloads and Moonraker queries
have timeouts; systemctl, make and the host's install command are assumed to end,
and the user at a prompt to answer.  Nothing is assumed of the environment: an
MCU need not come back, Klipper need not start.

`AgentService` assumes that each thread is scheduled (`Answer`, `Execute`) and that
sending to a socket returns.  It assumes nothing of clients, connections or
command-line runs: `RequestAnswered` holds with the lock taken for ever.

`KatapultSession` assumes weak fairness of the host alone: an exchange has a
deadline and its reads a timeout.  The link may lose what it likes within its
bound and the board may never answer.

`LockFile` assumes that a process which asked for the lock runs on until it holds it or is
refused (its calls do not block: `try_lock`); holders may keep it for ever.
`FlashRoute` assumes weak fairness of the host: every wait has a deadline, modelled as
`MaxPolls` looks; nothing is assumed of the board.  `VendorFlash` assumes it of the session,
whose transfers have timeouts.  `Reboot` assumes it of the command: its user
answers and its waits end after ten seconds.  The other modules state safety only,
and no fairness.

## What the runs found

* **A stop nobody is told about** (`untold_stop`).  `RunFailure.message` is
  documented to carry Klipper restart advice.  A refusal of a later target
  (`update_run.rs:386`, for instance an MCU whose embedded Kconfig is not trusted)
  returns through `fail` without it, and without a restore, while Klipper is
  stopped for the targets before it.
* **A print is stopped** (`print_race`).  The printer is found idle once per run,
  before the first download; a print that starts after it is stopped.
* **A busy rejection without a name** (`agent_holder`).  The lock is released
  before the holder's guard, whose drop clears whatever name is recorded: the
  next run's.
* **`klipper_left_stopped` of another run** (`agent_stopped`).  It is read after the
  lock was released.

* **A file at the Kconfig's address** (`flash_bridge`).  An explicit firmware file skips
  the addressing by Kconfig, "other routes behave identically"
  (`flash/system.rs:503`).  Through a USB-CAN bridge that answers in STM32 DFU it does not
  skip it (`flash/system.rs:1113`): the file is written where the bridge's Kconfig
  says, with neither the probe nor the refusal it meets over USB.

Disagreements met while modelling that no listed run shows, each from a
counterexample of its module under the named formula's obvious form:

* `lock.rs:1` calls the lock host-wide.  A cleaner of `/tmp` between `open` and `try_lock`, or
  while it is held, lets in another holder; `ImplementsLock` says how many.
* `lock.rs:43`: every account can open the file.  Not after its creator died between
  `create` and `set_permissions` with a umask such as 077 (`CreatedForAll` excepts it).
* `self_update.rs:331`: the binary is replaced atomically.  Two self-updates share the
  staged name and take no lock: the one may rename what the other is truncating.  The
  instance has one at a time.
* `reboot.rs:201`: a Klipper that is ready is not restarted.  It may become ready while
  the prompt is open (`reboot.rs:237`).
* README.md:100: `update` never replaces firmware with an older build.  A checkout that is
  moved back between the approval and the build gives an older one, which is written and
  then reported as not reached (`ReachedIsApproved`).  A checkout whose tags were not fetched
  gives revisions without a position (`eligibility.rs:207`), and an ancestor's build then
  counts as an update.  `NeverOlder` excepts the two cases for Klipper.
* `prebuilt.rs:361`: an explicit file is checked against a recognized MCU, and one that does
  not suit it is an error.  A FOCI takes any bytes (`prebuilt.rs:394`); only its board has to
  be known.
* `docs/api/agent.md:108`: a Beacon newer than its image is indeterminate; the agent says
  current (`agent/api.rs:378`).  `foci.rs:220`: development builds are not compared; those
  of a later tag are called newer (`foci.rs:226`).
* `flash/system.rs:862`: the DFU suffix keeps one revision's image off another's board.  Its
  USB id is one per family of revisions (`flash/beacon_dfu.rs:14`).
* `fleet/peer.rs:1`: a bridge is flashed only while every other printer is idle.  They are
  asked once, before the run (`update.rs:51`); `BusWasIdle` says what that gives.
* `fleet/system.rs:13`: what cannot be established is never assumed idle.  A Moonraker that
  names no unit counts as `klipper` (`fleet/system.rs:19`): it is left out of the question when
  that is this printer's unit, and stands for another printer when it is that one's, whose
  own answer is then left out.  `BusWasIdle` excepts these (`ToldApart`).
* `moonraker.asvc` is written in place: cut off, it loses Moonraker's other services; and the
  setup of a second account replaces the policy that the first one's agent needs.

## Proofs

Proved by TLAPS, for every value of the constants that satisfies the module's
`Parameters` (`Instances`):

| Module | Theorems |
| --- | --- |
| `UpdateRun_proofs` | `TypeCorrect`, `DamageConfined`, `OutcomeTrue` (from `DamageNamed`, `ReportTrue`), `SuccessVerified`, `FlashedWhileStopped`, `AdviceTrue` (from `ClaimHonest`, `QuietFailureHarmless`), `RestoreIsSafe`, `PrintSpared`, `RunImplementsContract` |
| `KatapultSession_proofs` | `TypeCorrect`, `StartsVerified`, `ReadBackCurrent`, `RefusedUntouched`, `Frozen`, `AcknowledgedWritten`, `FewFaults`, `SessionImplementsContract` |
| `AgentService_proofs` | `TypeCorrect`, `UpdatesExclude`, `HolderWorks`, `LogOwned`, `RecordSurvives`, `RecordFaithful`, `ReplyFirst` |
| `Bootloaders_proofs` | `FlashesAreSound`, `FlashKeepsContract` |
| `Firmware_proofs` | `UpdatesSettle`, `ImagesFit`, `WritesAreApproved` |
| `Assessment_proofs` | `VersionsOrderLikeHistory`, `NewerIsOneWay`, `OlderIsNoUpdate`, and the invariant `Firmware_proofs` uses |
| `Commands_proofs` | `LockSerializes`, `SelfUpdateIsAtomic`, `SetupRepairsAll`, `FlashIsAsAgreed`, `BridgesStaySafe`, `RebootAsksAndTells` |
| `Reboot_proofs` | the invariant that `RebootAsksAndTells` uses |

**UpdateRun.**  None of the properties is inductive by itself: that a failure names
the damaged MCU depends on where damage can be, which depends on where in the
loop the run is.  `IInv` is the conjunction of the type invariant with: where a
label can occur (`Place`: a label that works on a target has one, a run is done
exactly when it has a verdict); that firmware is in hand before it is written (`FirmwareInHand`);
that only the target in hand can be damaged, and at which labels
(`DamagePlace`); what MCUs before, at and after the position hold (`Settled`);
when the run holds Klipper (`Custody`); what a failure without advice may have
done (`Quiet`); how the unit relates to its first observation while nobody else
moves it (`Undisturbed`); and `SuccessIsVerified`.  Each conjunct is preserved by a lemma with one step per action;
the theorems are its consequences.  The assumptions used are that flashing
orders do not repeat an MCU (the callers' `flash_order` of a set) and that no MCU
is both the host and prebuilt.

`PrintSpared` needs only that Klipper is not stopped before the printer was looked
at (`Looked`).  That it was found idle then, and that a print which starts after the run
began is counted in `prints`, does the rest; it needs nothing of outside changes to Klipper.
A print begun between the start of the run and the look is not spoken of.
`FlashedWhileStopped` needs the step alone: a flash is entered from a state of the unit that
was read as inactive, and no step of the run moves the unit within one.

`RunImplementsContract`: a lemma per group of actions shows that the step is a step of the
contract or leaves its variables alone, from `IInv`; only `held` set before the
bootloader is requested, and given up after the last one is left, make it so.

**KatapultSession.**  What makes readback sound is the order of commands on the link.
Call the commands after the last block (`SendEof`, `RequestBlock`, `Complete`)
late: nothing that writes follows a late command in either queue, and a late
answer means that only late requests remain (`InOrder`); while blocks are written
nothing late was sent (`NothingLateYet`); so once the first late answer is
accepted both queues are late throughout (`PastEof`), the flash is frozen, and
answers to reads show it as it is (`ReadsAreCurrent`).  The other conjuncts say
that writing, and a touched flash, imply the checks that come first (`Permitted`,
`TouchedIsPermitted`), that `Complete` is sent over the right flash with no block
behind it (`Verified`, `Launch`), and what a result implies (`Over`).  The link's
actions and everything a host does while it only waits or retries leave a
stretch of each queue, and one lemma covers them all (`LinkStep`).  Used of the
constants: the counts are positive, and what a block held before, a spoilt block
and every content of a firmware differ (a board flashed again with the image it
has is covered with a distinct name for the old contents).

`AcknowledgedWritten` needs that an answer to a block, read or still under way, means
that the block was written (`AnsweredBlocks`), and what a request carries (`Sound`).

`FewFaults` counts.  Every fault leaves one message too many or one too few on the
link, and a message too many is later read as a wrong answer.  `Patience` balances
the books: of exchanges that failed for this command (`Failed`), wrong answers the
host will yet read (`Astray`), messages too many (`Surplus`) and missing (`Missing`), the
sum is at most twice the faults, and wrong addresses counted and to come
(`tries + Foreign`) are at most the faults.  Hence the theorem's hypothesis: exchanges are
not exhausted if `MAX_ATTEMPTS + 1 >= 2 * BLOCK_ATTEMPTS`, which the code's 5 and 3
satisfy with nothing to spare.

**AgentService.**  `IInv` is `Threads` (the ranges of the labels and of the records,
without the bounds of an instance), `OneAtATime`, `HolderIsAtWork`,
`LogBelongsToHolder` and `NoneRecorded` (past `CheckRunning`, no run is recorded
as running: what the lock alone does not give).  `RecordKept` follows from the last one, since only `Accept` replaces a record.

`RInv` adds what is recorded and sent: how far a worker is says how many messages it
can have emitted and whether the result is in (`Course`); which runs a client knows
of, and that what waits in a channel is of those (`Acquainted`); and the recorded
messages are the newest of the recorded run, the complete one last (`Faithful`).

**Bootloaders.**  `RouteInv` says what each step on the way has established (`OnItsWay`):
which links `Begin` let through, that a selected backend is for this bootloader, that
an address is where the image is linked, or where the application was found.
`VendorInv` says where on its course a session is (`OnCourse`) and what the flash
then holds (`Holds`: erased, written up to `index`, read back).  `FlashKeepsContract`
maps each step to one of `RouteContract` or `FlashContract`.  The Katapult part is
`KatapultSession_proofs`, instantiated.

**Firmware.**  One invariant for each subject.  `AssessInv` (`Assessment_proofs`): the
running build is of the commit it names, and an approved revision names a commit too, no
ancestor of what ran when it was approved; an update that left the checkout alone leads to
what its approval compared, and one that is called reached ran the approved commit.
`CartographerInv`: a chosen image is the one its row of the manifest as it was read
names, or one that was verified again when it was prepared (`Chosen`).  `BeaconInv`: the
image in each file is of the revision that names it.  `FociInv`: lookups are at most one
more than the retry intervals that have passed, and a verified asset is the one with
the digest.

**Revision.**  `Assessment_proofs` begins with facts about the operators alone, for all
tags, counts and hashes: the order of versions is the order of tags and commits,
two revisions are never each newer than the other, and an older one is no update
unless it is another name of the same commit.

**Commands.**
* `LockInv`: who holds has its inode's flock; there are at most as many inodes as cleanings,
  and one more while the path names one; a settled path names a shared file.
  `LockSerializes` maps a step to one of `HostLock`.
* `UpdateInv`: the staged inode is never the installed one while it is written, what is
  renamed is whole and of the release that was chosen.  `SelfUpdateIsAtomic` has the
  hypothesis `OneAtATime`, that there is one self-update: with two it is false, see above.
* `SetupInv`: what an install or a removal has finished, by the step it is at.
* `FlashInv`: where the bytes read, the agreement and custody of Klipper are along `run_flash`.
* `FleetInv`: an answer that does not block was true of its printer at some moment since
  the run began (`ReadingsInv`), and bridges come last in what is left (`BridgesLast`).
* `RebootInv` (`Reboot_proofs`): a board in hand was found and is not visited again
  (`Visiting`), what is known of it is from the scan (`Records`), and what was resolved and
  recovered so far (`Resolving`, `Recovering`).  Klipper is restarted when one Beacon came back whole;
  of several, the others may still hold part of an image.

The bounds of an instance (`MaxFaults`, `MaxKills`, `MaxMoves`, ...) are constants of
these theorems like the others: they hold for each bound, and so without one.
The assumptions are of three kinds: counts are naturals, and positive where the
code's are; sets of initial states consist of records of their type; and a
placeholder (`None`, `Torn`, `NoTag`, `Nobody`, ...) is none of the values it stands
in for, as an `Option`'s `None` is not.

Model-checked only: the liveness properties `Terminates`, `RequestAnswered`,
`RunFinishes`, and the liveness parts of two others, which are therefore proved
without them: nobody waits for the lock (`NobodyWaitsForIt` of `LockIsKept`, proved
as `LockIsSafe`) and a reboot ends (`RebootEnds` of `RebootIsHonest`, proved as
`RebootIsSafe`).  Liveness is beyond the prover.  Every safety property of a passing run
is stated by a theorem.

## Not modelled, and why

* Parsing, formatting, logging text, terminal prompts and JSON: no state.
* Moonraker and discovery: sequential reads; their answers and failures are
  choices of the actions that use them.
* `status`, `config`, `setup --check`: they read and print.
* `kconfig.rs`: a validator of text; its refusal is a branch of `Prepare` and `Build`.
* Inside a build, the files make reads and writes; `Build` has its ends.
* The encoding of packets, CAN frames and USB requests, and sysfs: the models say
  which device, command or block, not its bytes.
* The agent's snapshot of all printers and `dedupe_by_unit`.
* A panic of a thread: nothing in the source says what should follow.

## Plan

1. The parts of the host that are partly modelled: preparation of a workspace, the agent's
   API, the update command's own choices; their invariants with their modules.
2. `HostLock` promises one holder per cleaning: that `AgentService`'s lock is `HostLock` without a
   cleaning is a refinement worth stating and proving, since it ties `LockSerializes`
   to `UpdatesExclude`.
3. Two self-updates at once: what does hold then.

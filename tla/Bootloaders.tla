---------------------------- MODULE Bootloaders ----------------------------
(***************************************************************************)
(* One flash of one MCU: its way to a bootloader (FlashRoute), and the     *)
(* sessions with the vendors' bootloaders (VendorFlash) and with Katapult  *)
(* (KatapultSession).  A behaviour is one of these models alone, named by  *)
(* `part`; variables it does not have are Unused.                          *)
(***************************************************************************)
EXTENDS Naturals

CONSTANTS
    None, Unused,
    Top, Mcus, RouteImages, MaxPolls,               \* of FlashRoute
    Backends, VendorBlocks,                         \* of VendorFlash
    Blocks, Contents, Old, Spoilt, MAX_ATTEMPTS,    \* of KatapultSession
    BLOCK_ATTEMPTS, Tasks, Targets, MaxFaults

VARIABLES
    part,  \* the model that runs
    mcu, image, pc, polls, at, asked, target, probed, allRead, written,
    told, outcome, backend, task, board, step, index, flash, tries,
    attempts, awaiting, readback, requests, replies, mode, faults

Route == INSTANCE FlashRoute WITH Images <- RouteImages
Vendor == INSTANCE VendorFlash WITH Blocks <- VendorBlocks
Katapult == INSTANCE KatapultSession

\* The instances have the parameters their modules ask for; the attempts of a
\* Katapult session outlast what fewer faults than BLOCK_ATTEMPTS can spoil
\* (the code's 5 and 3), and the bound on faults leaves room for more.
ASSUME Instances ==
    /\ Route!Routes /\ Vendor!Parameters
    /\ {Blocks, MAX_ATTEMPTS, BLOCK_ATTEMPTS} \subseteq Nat \ {0}
    /\ MaxFaults \in Nat
    /\ {Old, Spoilt} \cap Contents = {} /\ Old # Spoilt
    /\ MAX_ATTEMPTS + 1 >= 2 * BLOCK_ATTEMPTS
    /\ MaxFaults >= BLOCK_ATTEMPTS

notFlashRoute == <<backend, task, board, step, index, flash, tries, attempts, awaiting,
    readback, requests, replies, mode, faults>>

notVendorFlash == <<mcu, image, pc, polls, at, asked, target, probed, allRead, written,
    tries, attempts, awaiting, readback, requests, replies, mode, faults>>

notKatapultSession == <<mcu, image, pc, polls, at, asked, probed, allRead, written, told,
    backend, board>>

FlashRouteOnly ==
    /\ backend = Unused /\ task = Unused /\ board = Unused /\ step = Unused
    /\ index = Unused /\ flash = Unused /\ tries = Unused
    /\ attempts = Unused /\ awaiting = Unused /\ readback = Unused
    /\ requests = Unused /\ replies = Unused /\ mode = Unused
    /\ faults = Unused

VendorFlashOnly ==
    /\ mcu = Unused /\ image = Unused /\ pc = Unused /\ polls = Unused
    /\ at = Unused /\ asked = Unused /\ target = Unused /\ probed = Unused
    /\ allRead = Unused /\ written = Unused /\ tries = Unused
    /\ attempts = Unused /\ awaiting = Unused /\ readback = Unused
    /\ requests = Unused /\ replies = Unused /\ mode = Unused
    /\ faults = Unused

KatapultSessionOnly ==
    /\ mcu = Unused /\ image = Unused /\ pc = Unused /\ polls = Unused
    /\ at = Unused /\ asked = Unused /\ probed = Unused /\ allRead = Unused
    /\ written = Unused /\ told = Unused /\ backend = Unused
    /\ board = Unused

Init ==
    \/ part = "route" /\ Route!Init /\ FlashRouteOnly
    \/ part = "vendor" /\ Vendor!Init /\ VendorFlashOnly
    \/ part = "katapult" /\ Katapult!Init /\ KatapultSessionOnly

Next ==
    \/ part = "route" /\ Route!Next /\ UNCHANGED <<part, notFlashRoute>>
    \/ part = "vendor" /\ Vendor!Next /\ UNCHANGED <<part, notVendorFlash>>
    \/ part = "katapult" /\ Katapult!Next /\ UNCHANGED <<part, notKatapultSession>>

vars == <<part, mcu, image, pc, polls, at, asked, target, probed, allRead, written,
    told, outcome, backend, task, board, step, index, flash, tries,
    attempts, awaiting, readback, requests, replies, mode, faults>>

\* As in the modules: every wait of a flash has a deadline, every transfer of a
\* session a timeout.
Spec ==
    /\ Init /\ [][Next]_vars
    /\ WF_<<Route!vars>>(part = "route" /\ Route!Host)
    /\ WF_<<Vendor!vars>>(part = "vendor" /\ Vendor!Next)

-----------------------------------------------------------------------------
(* Properties: what the modules state part by part. *)

\* A build and a prebuilt image are written where they were linked to run, and a
\* file that is not forced, over USB to an STM32 bootloader that can be read,
\* where the application was: of a file over a bridge, Katapult or SAM-BA, or a
\* forced one, no address is promised.  By every way an image goes only to a
\* bootloader it is for and to no flash that is protected or refused; it is
\* started, or reported as written, only when it is whole; and an answer that
\* comes late counts for no other block (target_from_kconfig,
\* resolve_stm32_firmware_file_target, katapult_route, the four backends,
\* KatapultSession).
FlashIsSound ==
    /\ part = "route" =>
         /\ Route!TypeOK /\ Route!WrittenWhereLinked /\ Route!UnforcedFileStays
         /\ Route!OnlyItsBootloader /\ Route!ToldIsRunnable
    /\ part = "vendor" =>
         /\ Vendor!TypeOK /\ Vendor!RefusedUntouched /\ Vendor!ProtectedUntouched
         /\ Vendor!StartsVerified /\ Vendor!StartsDownloaded /\ Vendor!SuccessIsWritten
    /\ part = "katapult" =>
         /\ Katapult!TypeOK /\ Katapult!AcknowledgedIsWritten
         /\ Katapult!ReadBackIsFlash /\ Katapult!FewFaultsOnlyCostTheLastAnswer

\* A flash keeps what a run relies on (allows_klipper_restore), and a session
\* that reads back the contract of a Katapult session.
ImplementsContract ==
    /\ part = "route" => Route!Promise!Init
    /\ part = "vendor" /\ backend # "beacon" => Vendor!Contract!Init
    /\ [][/\ part = "route" => Route!Promise!Next \/ UNCHANGED Route!Promise!vars
          /\ part = "vendor" /\ backend # "beacon" =>
               Vendor!Contract!Next \/ UNCHANGED Vendor!Contract!vars]_vars

\* Every flash and every session with a vendor's bootloader ends.
Terminates ==
    /\ part = "route" ~> part = "route" /\ pc = "end"
    /\ part = "vendor" ~> part = "vendor" /\ step = "end"
=============================================================================

----------------------------- MODULE VendorFlash -----------------------------
(***************************************************************************)
(* One session with a bootloader of a chip's or a probe's vendor: STM32    *)
(* ROM DFU (stm32_dfu.rs), PicoBoot (picoboot.rs), the SAM-BA monitor      *)
(* (samba.rs) and Beacon's DFU (beacon_dfu.rs).  They differ in what they  *)
(* check before writing, in whether they read back, and in how a board is  *)
(* told to start its application; none repeats a call that failed.         *)
(*                                                                         *)
(* A block is what was there before, erased, the firmware's, or spoilt.    *)
(* CRC-16 and a comparison of bytes are taken to tell these apart.         *)
(***************************************************************************)
EXTENDS Naturals

CONSTANTS
    Backends,   \* those of "stm32", "picoboot", "samba", "beacon" considered
    Blocks      \* bound: blocks of a padded firmware

\* What an instance gives them.
Parameters ==
    /\ Backends \subseteq {"stm32", "picoboot", "samba", "beacon"}
    /\ Blocks \in Nat \ {0}

VARIABLES
    backend, task,
    board,    \* what is at the USB topology
    step, index,
    flash,    \* the application area
    told,     \* the board was told to start what it holds, and may have
    outcome   \* what the session returned

given == <<backend, task, board>>
vars == <<given, step, index, flash, told, outcome>>

Cells == {"old", "erased", "new", "spoilt"}

\* `matches`: devices with the bootloader's identity at the topology; `chip`:
\* the monitor's chip is a SAMD21; `protects`: its boot protection against the
\* firmware's start; `room`: blocks from there to the end of its flash;
\* `sound`: what it is sent is what it keeps.
Board == [matches : 0..2, chip : BOOLEAN, protects : {"off", "same", "other"},
          room : 0..Blocks, sound : BOOLEAN]

\* An empty firmware comes as far as SAM-BA's adapter alone.
Task == [leave : BOOLEAN, blocks : 0..Blocks]

Refusals == {"undecodable", "not_found", "ambiguous", "empty", "chip",
             "protection", "too_large"}

Steps == {"find", "open", "handshake", "admit", "erase", "write", "verify",
          "start", "reply", "fail", "end"}

TypeOK ==
    /\ backend \in Backends /\ task \in Task /\ board \in Board
    /\ step \in Steps
    /\ index \in 0..(Blocks + 1)
    /\ flash \in [1..Blocks -> Cells]
    /\ told \in BOOLEAN
    /\ outcome \in {"none", "success", "transport", "mismatch"} \cup Refusals
    /\ outcome = "none" <=> step # "end"

\* The steps of each backend's session, in order.
Stm32Course == <<"find", "open", "write", "verify", "start">>
PicoBootCourse == <<"find", "open", "erase", "write", "verify", "start">>
SambaCourse == <<"find", "handshake", "admit", "write", "verify", "start">>
BeaconCourse == <<"find", "open", "write", "start">>

LeaveCourse ==
    <<"find", IF backend = "samba" THEN "handshake" ELSE "open", "start">>

Course == IF task.leave THEN LeaveCourse
          ELSE CASE backend = "stm32" -> Stm32Course
                 [] backend = "picoboot" -> PicoBootCourse
                 [] backend = "samba" -> SambaCourse
                 [] backend = "beacon" -> BeaconCourse

After(s) == Course[1 + CHOOSE i \in DOMAIN Course : Course[i] = s]

Image == 1..task.blocks

End(result) == step' = "end" /\ outcome' = result

Goto(s) == step' = s /\ UNCHANGED outcome

Fail == End("transport") /\ UNCHANGED <<given, index, flash, told>>

-----------------------------------------------------------------------------
(* Before anything is written. *)

\* list_devices, filtered by topology and identity; a serial monitor is found
\* by its path.  Beacon's takes the first match; PicoBoot's decodes the UF2
\* before it looks.
Find ==
    /\ step = "find"
    /\ \/ /\ backend = "samba" /\ ~task.leave /\ task.blocks = 0 /\ End("empty")
       \/ /\ backend = "picoboot" /\ ~task.leave /\ End("undecodable")
       \/ /\ backend # "samba" /\ board.matches = 0 /\ End("not_found")
       \/ /\ backend \notin {"samba", "beacon"} /\ board.matches = 2
          /\ End("ambiguous")
       \/ /\ \/ backend # "samba" /\ board.matches = 1
             \/ backend = "beacon" /\ board.matches = 2
             \/ backend = "samba" /\ (task.leave \/ task.blocks > 0)
          /\ Goto(After("find"))
    /\ UNCHANGED <<given, index, flash, told>>

\* Opening and claiming the device, exclusive access.
Open ==
    /\ step = "open" /\ Goto(After("open"))
    /\ index' = 1
    /\ UNCHANGED <<given, flash, told>>

\* `N#`, whose answer may be late or missing, and the version banner.
Handshake ==
    /\ step = "handshake" /\ Goto(After("handshake"))
    /\ index' = 1
    /\ UNCHANGED <<given, flash, told>>

\* The monitor's chip, its protected size and its flash size.
Admit ==
    /\ step = "admit"
    /\ CASE ~board.chip -> End("chip")
         [] board.chip /\ board.protects = "other" -> End("protection")
         [] board.chip /\ board.protects # "other" /\ board.room < task.blocks ->
              End("too_large")
         [] OTHER -> Goto(After("admit"))
    /\ UNCHANGED <<given, index, flash, told>>

-----------------------------------------------------------------------------
(* Writing, reading back, starting. *)

\* flash_erase of every sector the image touches; if it fails some are.
Erase ==
    /\ step = "erase"
    /\ \/ Goto("write") /\ flash' = [b \in 1..Blocks |->
                                              IF b \in Image THEN "erased" ELSE flash[b]]
       \/ /\ Goto("fail")
          /\ \E some \in SUBSET Image :
               flash' = [b \in 1..Blocks |->
                           IF b \in some THEN "erased" ELSE flash[b]]
    /\ UNCHANGED <<given, index, told>>

Kept == IF board.sound THEN {"new"} ELSE {"new", "spoilt"}

\* One block; SAM-BA's and DFU's erase it first.
Write ==
    /\ step = "write" /\ index \in Image
    /\ \/ /\ \E cell \in Kept : flash' = [flash EXCEPT ![index] = cell]
          /\ index' = index + 1
          /\ Goto("write")
       \/ /\ \E cell \in {flash[index]} \cup (Cells \ {"old"}) :
               flash' = [flash EXCEPT ![index] = cell]
          /\ Goto("fail") /\ UNCHANGED index
    /\ UNCHANGED <<given, told>>

Written ==
    /\ step = "write" /\ index \notin Image
    /\ Goto(After("write"))
    /\ index' = 1
    /\ UNCHANGED <<given, flash, told>>

\* SAM-BA asks for one block's checksum at a time, the others for the image.
Verify ==
    /\ step = "verify"
    /\ IF \E b \in Image : flash[b] # "new" THEN End("mismatch")
       ELSE Goto(After("verify"))
    /\ UNCHANGED <<given, index, flash, told>>

\* Manifestation, reboot or reset; or the command does not get out.
Start ==
    /\ step = "start"
    /\ \/ told' = TRUE /\ Goto("reply")
       \/ told' = FALSE /\ Goto("fail")
    /\ UNCHANGED <<given, index, flash>>

\* An error that a board also gives while it leaves is success: a stall for
\* STM32; for Beacon every transfer error, and an idle state.  A reset of the
\* monitor has no answer at all.  Whether the application came up is for the
\* caller to see.
Reply ==
    /\ step = "reply" /\ End("success")
    /\ UNCHANGED <<given, index, flash, told>>

\* A call fails, or the one that did is reported.
Transport == step \in {"find", "open", "handshake", "admit", "verify",
                       "reply", "fail"} /\ Fail

Init ==
    /\ backend \in Backends /\ task \in Task /\ board \in Board
    /\ backend = "beacon" => ~task.leave
    /\ backend # "samba" => task.leave \/ task.blocks > 0
    /\ step = "find" /\ index = 0
    /\ flash = [b \in 1..Blocks |-> "old"]
    /\ told = FALSE
    /\ outcome = "none"

Next == Find \/ Open \/ Handshake \/ Admit \/ Erase \/ Write \/ Written \/ Verify \/ Start
        \/ Reply \/ Transport

\* Every transfer has a timeout.
Spec == Init /\ [][Next]_vars /\ WF_vars(Next)

-----------------------------------------------------------------------------
(* Properties. *)

Complete == \A b \in Image : flash[b] = "new"

\* A board whose flash is read back starts only the complete image or what it
\* held before, whatever it keeps of what it is sent.
StartsVerified ==
    told /\ backend # "beacon" =>
      \/ task.leave \/ Complete

\* Beacon's updater reads nothing back: a board that keeps what it is sent
\* starts only a complete image.
StartsDownloaded ==
    told /\ board.sound => task.leave \/ Complete

\* A refusal comes before the first write, and leaving writes nothing.
RefusedUntouched ==
    outcome \in Refusals \/ task.leave => flash = [b \in 1..Blocks |-> "old"]

\* Nothing is written below the application: a board that protects more or
\* less of its flash than the firmware leaves free is never written.
ProtectedUntouched ==
    backend = "samba" /\ board.protects = "other" /\ ~task.leave =>
      flash = [b \in 1..Blocks |-> "old"]

\* What is reported as written is: by a backend that reads back on any board,
\* by Beacon's on one that keeps what it is sent.
SuccessIsWritten ==
    outcome = "success" /\ ~task.leave =>
      told /\ (Complete \/ (backend = "beacon" /\ ~board.sound))

\* Every session returns.
Terminates == <>(step = "end")

\* A session over a bootloader that is read back keeps the contract of a
\* Katapult session.
Contract == INSTANCE FlashContract WITH
    goal <- IF task.leave THEN "before" ELSE "image",
    content <- IF flash = [b \in 1..Blocks |-> "old"] THEN "before"
               ELSE IF Complete THEN "image" ELSE "partial",
    running <- told,
    result <- CASE outcome \in {"none", "success"} -> outcome
                [] outcome \in Refusals -> "refused"
                [] OTHER -> "failed"
ImplementsContract == Contract!Spec
=============================================================================

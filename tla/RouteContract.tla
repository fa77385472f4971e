---------------------------- MODULE RouteContract ----------------------------
(***************************************************************************)
(* What a run (UpdateRun) relies on when it flashes one MCU: only an MCU   *)
(* that was asked leaves its application, only one in its bootloader is    *)
(* written (the Linux host MCU's binary apart), it is let go only with a   *)
(* complete image or the one it had, and the result tells which of these   *)
(* happened.  FlashRoute implements it.                                    *)
(***************************************************************************)
VARIABLES
    device,    \* "application", "bootloader", or told to start: "restarting"
    firmware,  \* "old", "partial", "new"
    restorable, \* a failure after which Klipper is started again
    result

vars == <<device, firmware, restorable, result>>

Init ==
    /\ device = "application" /\ firmware = "old"
    /\ restorable = TRUE /\ result = "none"

\* From here on no failure lets Klipper be started; the MCU may enter its
\* bootloader even after the result.
Ask ==
    /\ result = "none" /\ restorable' = FALSE
    /\ UNCHANGED <<device, firmware, result>>

Enter ==
    /\ ~restorable /\ device = "application" /\ device' = "bootloader"
    /\ UNCHANGED <<firmware, restorable, result>>

\* A transfer ends written or broken off, released or not, with its result.
Transfer ==
    /\ result = "none" /\ device = "bootloader"
    /\ \/ firmware' = "new" /\ device' = "restarting" /\ result' = "success"
       \/ /\ firmware' \in {"old", "partial", "new"} /\ result' = "failed"
          /\ \/ device' = device
             \/ device' = "restarting" /\ firmware' # "partial"
    /\ UNCHANGED restorable

\* install and systemctl, with the MCU's process running or not.
Install ==
    /\ result = "none" /\ restorable
    /\ firmware' \in {"old", "partial", "new"}
    /\ \/ result' = "failed"
       \/ result' = "success" /\ firmware' = "new"
    /\ UNCHANGED <<device, restorable>>

\* Nothing was written; the MCU may have been given back.
Refuse ==
    /\ result = "none" /\ result' = "failed"
    /\ device' \in {device, IF device = "bootloader" THEN "restarting" ELSE device}
    /\ restorable' \in {restorable, FALSE}
    /\ UNCHANGED firmware

Next == Ask \/ Enter \/ Transfer \/ Install \/ Refuse

Spec == Init /\ [][Next]_vars
=============================================================================

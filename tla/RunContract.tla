---------------------------- MODULE RunContract ----------------------------
(***************************************************************************)
(* What one run promises to the printer, whatever its targets, transports  *)
(* and failures: Klipper is taken before an MCU is put at risk (asked into *)
(* its bootloader), one MCU is at risk at a time, Klipper is given back    *)
(* only when none is, and a run succeeds only after giving Klipper back.   *)
(* UpdateRun implements it.                                                *)
(***************************************************************************)
CONSTANT Mcus

VARIABLES
    fate,     \* how the run stands
    custody,  \* the run holds Klipper stopped
    atRisk,   \* MCUs the run put in their bootloader and not yet back out
    updated   \* MCUs the run reports as updated

vars == <<fate, custody, atRisk, updated>>

TypeOK ==
    /\ fate \in {"running", "ok", "failed", "killed"}
    /\ custody \in BOOLEAN
    /\ atRisk \subseteq Mcus
    /\ updated \subseteq Mcus

Init ==
    /\ fate = "running"
    /\ custody = FALSE
    /\ atRisk = {}
    /\ updated = {}

Running == fate = "running"

TakeKlipper ==
    /\ Running /\ ~custody
    /\ custody' = TRUE
    /\ UNCHANGED <<fate, atRisk, updated>>

ReturnKlipper ==
    /\ Running /\ custody /\ atRisk = {}
    /\ custody' = FALSE
    /\ UNCHANGED <<fate, atRisk, updated>>

PutAtRisk ==
    /\ Running /\ custody /\ atRisk = {}
    /\ \E m \in Mcus \ updated : atRisk' = {m}
    /\ UNCHANGED <<fate, custody, updated>>

\* The transfer is complete and the MCU was told to start its application.
Release ==
    /\ Running /\ atRisk # {}
    /\ atRisk' = {}
    /\ UNCHANGED <<fate, custody, updated>>

Record ==
    /\ Running /\ custody /\ atRisk = {}
    /\ \E m \in Mcus \ updated : updated' = updated \cup {m}
    /\ UNCHANGED <<fate, custody, atRisk>>

Finish ==
    /\ Running
    /\ \/ fate' = "ok" /\ ~custody /\ atRisk = {}
       \/ fate' \in {"failed", "killed"}
    /\ UNCHANGED <<custody, atRisk, updated>>

Next == TakeKlipper \/ ReturnKlipper \/ PutAtRisk \/ Release \/ Record \/ Finish

Spec == Init /\ [][Next]_vars
=============================================================================

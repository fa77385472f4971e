-------------------------- MODULE UpdateRun_proofs --------------------------
(***************************************************************************)
(* Theorems about UpdateRun, for every set of MCUs, every flashing order   *)
(* without repetitions and every bound.                                    *)
(*                                                                         *)
(* The argument is one inductive invariant, IInv.  Each of its conjuncts   *)
(* has a lemma that every step preserves it, with one step per action that *)
(* can disturb it and a last one for the actions that leave its variables  *)
(* alone or only move pc out of its way.  The safety properties of         *)
(* UpdateRun and the refinement of RunContract follow from IInv; that a    *)
(* print is spared has an argument of its own (Looked).                    *)
(***************************************************************************)
EXTENDS UpdateRun, TLAPS

-----------------------------------------------------------------------------
(* The inductive invariant, one conjunct per idea.                          *)

\* A target is in hand exactly while the run is working on one.
OnTarget == {"prepare", "check", "image", "observe", "stop", "confirm",
             "build", "enter", "write", "install", "sync", "restart", "await",
             "restore", "confirm_restore"}
AfterBatch == {"start", "confirm_start", "reconnect"}

Place ==
    /\ pc \in OnTarget => idx <= Len(targets)
    /\ pc \in AfterBatch => idx > Len(targets)
    /\ outcome.verdict # "none" <=> pc = "done"
    /\ outcome.verdict = "none" => outcome.advice = "none"

\* Nothing is written before there is firmware in hand.
FirmwareInHand ==
    \/ pc \in {"enter", "write", "install"}
    \/ pc \in {"observe", "stop", "confirm"} /\ Target \in Prebuilt
    => built # "none"

\* Where the run may be when an MCU sits in its bootloader, and when one holds
\* a partial image.
BootloaderAt(m) ==
    \/ pc \in {"write", "dead"}
    \/ pc = "restore" /\ error = "flash"
    \/ pc = "done" /\ outcome.verdict = "failed" /\ outcome.mcu = m
          /\ outcome.advice = "may_be_stopped"
PartialAt(m) ==
    \/ pc \in {"confirm_restore", "dead"}
    \/ pc = "restore" /\ error \in {"flash", "linux_host"}
    \/ pc = "done" /\ outcome.verdict = "failed" /\ outcome.mcu = m

DamagePlace == \A m \in Mcus :
    /\ Damaged(m) => idx <= Len(targets) /\ m = Target
    /\ device[m] = "bootloader" => BootloaderAt(m)
    /\ firmware[m] = "partial" => PartialAt(m)

\* Targets behind idx are settled; the one at idx may have been touched.
Untouched(m) == firmware[m] = "old" /\ device[m] = "application"
InHand(m) == /\ idx <= Len(targets) /\ m = Target /\ pc # "select"
             /\ pc = "done" => outcome.mcu = m

Behind == \A m \in updated :
    /\ firmware[m] \in {"target", "other"}
    /\ device[m] # "bootloader"
    /\ \E j \in 1..(idx - 1) : m = targets[j]
Ahead == \A m \in Mcus \ updated : Untouched(m) \/ InHand(m)
Written == pc \in {"sync", "restart", "await"} =>
    firmware[Target] \in {"target", "other"}
Settled == Behind /\ Ahead /\ Written

\* When the run holds Klipper stopped.
Custody ==
    /\ pc \in {"confirm", "build", "enter", "write", "install", "sync",
               "restart", "await"} => held
    /\ updated # {} /\ pc \in {"select", "start"} => held
    /\ pc \in {"confirm_start", "reconnect"} => ~held
    /\ outcome.verdict = "ok" => ~held

\* Before the first update the run has neither stopped Klipper nor asked an MCU
\* into its bootloader when it may still fail without a word about Klipper.
Quiet ==
    /\ updated = {} /\ pc \in {"select", "prepare", "check"} =>
            ~held /\ \A m \in Mcus : device[m] = "application"
    /\ pc \in AfterBatch => updated # {}
    /\ QuietFailureTouchedNothing

\* What the run knows of the unit while nobody else moves it.
Undisturbed == ~disturbed =>
    /\ firstObserved = "active" => begun = "active"
    /\ firstObserved = "other" => begun # "active"
    /\ pc = "stop" => firstObserved = "active"
    /\ firstObserved # "active" /\ pc \notin AfterBatch \cup {"done", "dead"} =>
            unit = begun
    /\ outcome.advice = "as_before" => unit = begun

IInv ==
    /\ TypeOK /\ Place /\ FirmwareInHand /\ DamagePlace /\ Settled
    /\ Custody /\ Quiet /\ Undisturbed /\ SuccessIsVerified

-----------------------------------------------------------------------------
USE Parameters
USE DEF progress, klipper, mcuState, ledger, budget, runVars,
        Goto, Fail, Raise, Succeed

\* The target in hand is one of the MCUs.
LEMMA TargetIsMcu ==
  ASSUME TypeOK, idx <= Len(targets)
  PROVE  Target \in Mcus
  BY DEF TypeOK, Target

\* The invariant holds before the first step.
LEMMA InitIInv == Init => IInv
<1> SUFFICES ASSUME Init PROVE IInv
  OBVIOUS
<1>1. Flags
  BY Zenon DEF Init, Flags
<1>2. TypeOK
  BY <1>1 DEF Init, TypeOK, UnitStates, Labels, Advice, Errors, Outcomes
<1>3. Place /\ FirmwareInHand
  BY DEF Init, Place, FirmwareInHand, OnTarget, AfterBatch
<1>4. DamagePlace /\ Settled
  BY DEF Init, DamagePlace, Settled, Behind, Ahead, Written, Damaged, Untouched
<1>5. Custody /\ Quiet
  BY DEF Init, Custody, Quiet, AfterBatch, QuietFailureTouchedNothing
<1>6. Undisturbed /\ SuccessIsVerified
  BY DEF Init, Undisturbed, SuccessIsVerified
<1> QED
  BY <1>2, <1>3, <1>4, <1>5, <1>6 DEF IInv

\* The Boolean variables stay Boolean.
LEMMA FlagsStep == Flags /\ [Next]_vars => Flags'
<1> SUFFICES ASSUME Flags, [Next]_vars PROVE Flags'
  OBVIOUS
<1> USE DEF Flags
<1>1. CASE CheckPrinter
  BY <1>1, Zenon DEF CheckPrinter
<1>2. CASE ObserveKlipper
  BY <1>2, Zenon DEF ObserveKlipper
<1>3. CASE StopKlipper
  BY <1>3, Zenon DEF StopKlipper
<1>4. CASE RestoreKlipper
  BY <1>4, Zenon DEF RestoreKlipper, StartUnit
<1>5. CASE StartAfterBatch
  BY <1>5, Zenon DEF StartAfterBatch, StartUnit
<1>6. CASE PrintStarts
  BY <1>6, Zenon DEF PrintStarts
<1>7. CASE PrintEnds
  BY <1>7, Zenon DEF PrintEnds
<1>8. CASE KlippyChanges
  BY <1>8, Zenon DEF KlippyChanges
<1>9. CASE UnitChanges
  BY <1>9, Zenon DEF UnitChanges
<1>10. CASE RefuseUndiscovered \/ RefuseDowngrade \/ Decline \/ Approve \/
            Prepare \/ PrepareImage \/ ConfirmStopped \/ Build \/
            RefuseLink \/ EnterBootloader \/ Write \/ InstallHost \/
            SyncHost \/ RestartHost \/ AwaitApplication \/ GiveUp \/
            NothingToRestore \/ ConfirmRestored \/ FinishTargets \/
            ConfirmStarted \/ Reconnect \/ Killed \/ McuReturns
  BY <1>10, Zenon DEF RefuseUndiscovered, Selecting, RefuseDowngrade,
                      Decline, Offered, Approve, Prepare, PrepareImage,
                      ConfirmStopped, Build, RefuseLink, EnterBootloader,
                      Write, InstallHost, SyncHost, RestartHost,
                      AwaitApplication, GiveUp, NothingToRestore,
                      ConfirmRestored, FinishTargets, ConfirmStarted,
                      Reconnect, Killed, Ended, McuReturns
<1>11. CASE UNCHANGED vars
  BY <1>11, Zenon DEF vars
<1> QED
  BY <1>1, <1>2, <1>3, <1>4, <1>5, <1>6, <1>7, <1>8, <1>9, <1>10, <1>11
     DEF Next, Run, Environment

\* Every variable keeps its range: what is written is complete firmware,
\* and the target in hand is an MCU.
LEMMA TypeStep == IInv /\ [Next]_vars => TypeOK'
<1> SUFFICES ASSUME IInv, [Next]_vars PROVE TypeOK'
  OBVIOUS
<1>f. Flags'
  BY FlagsStep DEF IInv, TypeOK
<1>t. pc \in OnTarget \/ Selecting => Target \in Mcus
  BY TargetIsMcu DEF IInv, Place, Selecting
<1> USE DEF OnTarget, Selecting, FirmwareInHand
<1> USE DEF IInv, TypeOK, UnitStates, Labels, Advice, Errors, Outcomes,
            AfterStopped, AfterCheck
<1>1. CASE RefuseUndiscovered
  BY <1>1, <1>f, <1>t DEF RefuseUndiscovered, Selecting
<1>2. CASE RefuseDowngrade
  BY <1>2, <1>f, <1>t DEF RefuseDowngrade, Selecting
<1>3. CASE Decline
  BY <1>3, <1>f, <1>t DEF Decline, Offered, Selecting
<1>4. CASE Prepare
  BY <1>4, <1>f, <1>t DEF Prepare
<1>5. CASE CheckPrinter
  BY <1>5, <1>f, <1>t DEF CheckPrinter
<1>6. CASE PrepareImage
  BY <1>6, <1>f, <1>t DEF PrepareImage
<1>7. CASE ObserveKlipper
  BY <1>7, <1>f, <1>t DEF ObserveKlipper
<1>8. CASE StopKlipper
  BY <1>8, <1>f, <1>t DEF StopKlipper
<1>9. CASE Build
  BY <1>9, <1>f, <1>t DEF Build
<1>10. CASE RefuseLink
  BY <1>10, <1>f, <1>t DEF RefuseLink
<1>11. CASE EnterBootloader
  BY <1>11, <1>f, <1>t DEF EnterBootloader
<1>12. CASE Write
  BY <1>12, <1>f, <1>t DEF Write
<1>13. CASE InstallHost
  BY <1>13, <1>f, <1>t DEF InstallHost
<1>14. CASE RestartHost
  BY <1>14, <1>f, <1>t DEF RestartHost
<1>15. CASE AwaitApplication
  BY <1>15, <1>f, <1>t DEF AwaitApplication, Place
<1>16. CASE GiveUp
  BY <1>16, <1>f, <1>t DEF GiveUp
<1>17. CASE NothingToRestore
  BY <1>17, <1>f, <1>t DEF NothingToRestore
<1>18. CASE RestoreKlipper
  BY <1>18, <1>f, <1>t DEF RestoreKlipper, StartUnit
<1>19. CASE ConfirmRestored
  BY <1>19, <1>f, <1>t DEF ConfirmRestored
<1>20. CASE StartAfterBatch
  BY <1>20, <1>f, <1>t DEF StartAfterBatch, StartUnit
<1>21. CASE Reconnect
  BY <1>21, <1>f, <1>t DEF Reconnect
<1>22. CASE KlippyChanges
  BY <1>22, <1>f, <1>t DEF KlippyChanges
<1>23. CASE UnitChanges
  BY <1>23, <1>f, <1>t DEF UnitChanges
<1>24. CASE McuReturns
  BY <1>24, <1>f, <1>t DEF McuReturns
<1>25. CASE Approve \/ ConfirmStopped \/ SyncHost \/ FinishTargets \/
            ConfirmStarted \/ Killed \/ PrintStarts \/ PrintEnds
  BY <1>25, <1>f, <1>t DEF Approve, Offered, Selecting, ConfirmStopped,
                           SyncHost, FinishTargets, ConfirmStarted, Killed,
                           Ended, PrintStarts, PrintEnds
<1>26. CASE UNCHANGED vars
  BY <1>26, <1>f, <1>t DEF vars
<1> QED
  BY <1>1, <1>2, <1>3, <1>4, <1>5, <1>6, <1>7, <1>8, <1>9, <1>10, <1>11,
     <1>12, <1>13, <1>14, <1>15, <1>16, <1>17, <1>18, <1>19, <1>20, <1>21,
     <1>22, <1>23, <1>24, <1>25, <1>26
     DEF Next, Run, Environment

\* The run works on a target of its list until the list is done, and has an
\* outcome exactly when it is done.
LEMMA PlaceStep == IInv /\ TypeOK' /\ [Next]_vars => Place'
<1> SUFFICES ASSUME IInv, TypeOK', [Next]_vars PROVE Place'
  OBVIOUS
<1> USE DEF IInv, Place, TypeOK, OnTarget, AfterBatch, Outcomes, Labels,
            AfterStopped, AfterCheck
<1>1. CASE RefuseUndiscovered
  BY <1>1 DEF RefuseUndiscovered, Selecting
<1>2. CASE RefuseDowngrade
  BY <1>2 DEF RefuseDowngrade, Selecting
<1>3. CASE Decline
  BY <1>3 DEF Decline, Offered, Selecting
<1>4. CASE Approve
  BY <1>4 DEF Approve, Offered, Selecting
<1>5. CASE Prepare
  BY <1>5 DEF Prepare
<1>6. CASE CheckPrinter
  BY <1>6 DEF CheckPrinter
<1>7. CASE AwaitApplication
  BY <1>7 DEF AwaitApplication
<1>8. CASE GiveUp
  BY <1>8 DEF GiveUp
<1>9. CASE NothingToRestore
  BY <1>9 DEF NothingToRestore
<1>10. CASE RestoreKlipper
  BY <1>10 DEF RestoreKlipper, StartUnit
<1>11. CASE ConfirmRestored
  BY <1>11 DEF ConfirmRestored
<1>12. CASE FinishTargets
  BY <1>12 DEF FinishTargets
<1>13. CASE StartAfterBatch
  BY <1>13 DEF StartAfterBatch, StartUnit
<1>14. CASE ConfirmStarted
  BY <1>14 DEF ConfirmStarted
<1>15. CASE Reconnect
  BY <1>15 DEF Reconnect
<1>16. CASE Killed
  BY <1>16 DEF Killed, Ended
<1>17. CASE PrepareImage \/ ObserveKlipper \/ StopKlipper \/
            ConfirmStopped \/ Build \/ RefuseLink \/ EnterBootloader \/
            Write \/ InstallHost \/ SyncHost \/ RestartHost \/ PrintStarts \/
            PrintEnds \/ KlippyChanges \/ UnitChanges \/ McuReturns
  BY <1>17 DEF PrepareImage, ObserveKlipper, StopKlipper, ConfirmStopped,
               Build, RefuseLink, EnterBootloader, Write, InstallHost,
               SyncHost, RestartHost, PrintStarts, PrintEnds, KlippyChanges,
               UnitChanges, McuReturns
<1>18. CASE UNCHANGED vars
  BY <1>18 DEF vars
<1> QED
  BY <1>1, <1>2, <1>3, <1>4, <1>5, <1>6, <1>7, <1>8, <1>9, <1>10, <1>11,
     <1>12, <1>13, <1>14, <1>15, <1>16, <1>17, <1>18
     DEF Next, Run, Environment

\* A step reaches the bootloader, the transfer or the installer only with
\* firmware in hand.
LEMMA FirmwareStep == IInv /\ TypeOK' /\ [Next]_vars => FirmwareInHand'
<1> SUFFICES ASSUME IInv, TypeOK', [Next]_vars PROVE FirmwareInHand'
  OBVIOUS
<1> USE DEF IInv, Place, TypeOK, OnTarget, FirmwareInHand, Target,
            AfterStopped, AfterCheck
<1>1. CASE Prepare
  BY <1>1 DEF Prepare
<1>2. CASE CheckPrinter
  BY <1>2 DEF CheckPrinter
<1>3. CASE PrepareImage
  BY <1>3 DEF PrepareImage
<1>4. CASE ObserveKlipper
  BY <1>4 DEF ObserveKlipper
<1>5. CASE StopKlipper
  BY <1>5 DEF StopKlipper
<1>6. CASE ConfirmStopped
  BY <1>6 DEF ConfirmStopped
<1>7. CASE Build
  BY <1>7 DEF Build
<1>8. CASE EnterBootloader
  BY <1>8 DEF EnterBootloader
<1>9. CASE RefuseUndiscovered \/ RefuseDowngrade \/ Decline \/ Approve \/
           RefuseLink \/ Write \/ InstallHost \/ SyncHost \/ RestartHost \/
           AwaitApplication \/ GiveUp \/ NothingToRestore \/
           RestoreKlipper \/ ConfirmRestored \/ FinishTargets \/
           StartAfterBatch \/ ConfirmStarted \/ Reconnect \/ Killed \/
           PrintStarts \/ PrintEnds \/ KlippyChanges \/ UnitChanges \/
           McuReturns
  BY <1>9 DEF RefuseUndiscovered, Selecting, RefuseDowngrade, Decline,
              Offered, Approve, RefuseLink, Write, InstallHost, SyncHost,
              RestartHost, AwaitApplication, GiveUp, NothingToRestore,
              RestoreKlipper, StartUnit, ConfirmRestored, FinishTargets,
              StartAfterBatch, ConfirmStarted, Reconnect, Killed, Ended,
              PrintStarts, PrintEnds, KlippyChanges, UnitChanges, McuReturns
<1>10. CASE UNCHANGED vars
  BY <1>10 DEF vars
<1> QED
  BY <1>1, <1>2, <1>3, <1>4, <1>5, <1>6, <1>7, <1>8, <1>9, <1>10
     DEF Next, Run, Environment

\* Damage is confined to the target in hand, and each kind to the stages
\* that can leave it.
LEMMA DamageStep == IInv /\ TypeOK' /\ [Next]_vars => DamagePlace'
<1> SUFFICES ASSUME IInv, TypeOK', [Next]_vars PROVE DamagePlace'
  OBVIOUS
<1> USE DEF IInv, Place, TypeOK, OnTarget, DamagePlace, Damaged,
            BootloaderAt, PartialAt, Target, FirmwareInHand, AllowsRestore
<1>1. CASE Decline
  BY <1>1 DEF Decline, Offered, Selecting
<1>2. CASE EnterBootloader
  BY <1>2 DEF EnterBootloader
<1>3. CASE Write
  BY <1>3 DEF Write
<1>4. CASE InstallHost
  BY <1>4 DEF InstallHost
<1>5. CASE RestartHost
  BY <1>5 DEF RestartHost
<1>6. CASE AwaitApplication
  BY <1>6 DEF AwaitApplication
<1>7. CASE GiveUp
  BY <1>7 DEF GiveUp
<1>8. CASE NothingToRestore
  BY <1>8 DEF NothingToRestore
<1>9. CASE RestoreKlipper
  BY <1>9 DEF RestoreKlipper, StartUnit
<1>10. CASE ConfirmRestored
  BY <1>10 DEF ConfirmRestored
<1>11. CASE Killed
  BY <1>11 DEF Killed, Ended
<1>12. CASE McuReturns
  BY <1>12 DEF McuReturns
<1>13. CASE RefuseUndiscovered \/ RefuseDowngrade \/ Approve \/ Prepare \/
            CheckPrinter \/ PrepareImage \/ ObserveKlipper \/ StopKlipper \/
            ConfirmStopped \/ Build \/ RefuseLink \/ SyncHost \/
            FinishTargets \/ StartAfterBatch \/ ConfirmStarted \/
            Reconnect \/ PrintStarts \/ PrintEnds \/ KlippyChanges \/
            UnitChanges
  BY <1>13 DEF RefuseUndiscovered, Selecting, RefuseDowngrade, Approve,
               Offered, Prepare, CheckPrinter, PrepareImage, ObserveKlipper,
               StopKlipper, ConfirmStopped, Build, RefuseLink, SyncHost,
               FinishTargets, StartAfterBatch, StartUnit, ConfirmStarted,
               Reconnect, PrintStarts, PrintEnds, KlippyChanges, UnitChanges
<1>14. CASE UNCHANGED vars
  BY <1>14 DEF vars
<1> QED
  BY <1>1, <1>2, <1>3, <1>4, <1>5, <1>6, <1>7, <1>8, <1>9, <1>10, <1>11,
     <1>12, <1>13, <1>14
     DEF Next, Run, Environment

\* Targets behind the run stay settled, targets ahead of it untouched.
LEMMA SettledStep == IInv /\ TypeOK' /\ [Next]_vars => Settled'
<1> SUFFICES ASSUME IInv, TypeOK', [Next]_vars PROVE Settled'
  OBVIOUS
<1> USE DEF IInv, Place, TypeOK, OnTarget, AfterBatch, Settled, Behind,
            Ahead, Written, Untouched, InHand, Target, FirmwareInHand,
            AfterCheck, AfterStopped
<1>1. CASE RefuseUndiscovered
  BY <1>1 DEF RefuseUndiscovered, Selecting
<1>2. CASE RefuseDowngrade
  BY <1>2 DEF RefuseDowngrade, Selecting
<1>3. CASE Decline
  BY <1>3 DEF Decline, Offered, Selecting
<1>4. CASE Approve
  BY <1>4 DEF Approve, Offered, Selecting
<1>5. CASE Prepare
  BY <1>5 DEF Prepare
<1>6. CASE CheckPrinter
  BY <1>6 DEF CheckPrinter
<1>7. CASE PrepareImage
  BY <1>7 DEF PrepareImage
<1>8. CASE ObserveKlipper
  BY <1>8 DEF ObserveKlipper
<1>9. CASE StopKlipper
  BY <1>9 DEF StopKlipper
<1>10. CASE ConfirmStopped
  BY <1>10 DEF ConfirmStopped
<1>11. CASE Build
  BY <1>11 DEF Build
<1>12. CASE RefuseLink
  BY <1>12 DEF RefuseLink
<1>13. CASE EnterBootloader
  BY <1>13 DEF EnterBootloader
<1>14. CASE Write
  BY <1>14 DEF Write
<1>15. CASE InstallHost
  BY <1>15 DEF InstallHost
<1>16. CASE SyncHost
  BY <1>16 DEF SyncHost
<1>17. CASE RestartHost
  BY <1>17 DEF RestartHost
<1>18. CASE AwaitApplication
  <2>1. idx \in Nat \ {0} /\ Target \in Mcus
    BY <1>18, TargetIsMcu DEF AwaitApplication
  <2>b. device[Target] # "bootloader"
    BY <1>18, <2>1 DEF AwaitApplication, DamagePlace, BootloaderAt
  <2>2. Behind'
    <3>1. CASE UNCHANGED <<updated, idx>>
      BY <1>18, <3>1 DEF AwaitApplication
    <3>2. CASE updated' = updated \cup {Target} /\ idx' = idx + 1
      <4>1. \A m \in updated : \E j \in 1..(idx' - 1) : m = targets[j]
        BY <2>1, <3>2
      <4>2. idx \in 1..(idx' - 1)
        BY <2>1, <3>2
      <4> QED
        BY <1>18, <2>b, <3>2, <4>1, <4>2 DEF AwaitApplication
    <3> QED
      BY <1>18, <3>1, <3>2 DEF AwaitApplication
  <2>3. Ahead'
    BY <1>18, <2>1 DEF AwaitApplication
  <2>4. Written'
    BY <1>18, <2>1 DEF AwaitApplication
  <2> QED
    BY <2>2, <2>3, <2>4
<1>19. CASE GiveUp
  BY <1>19 DEF GiveUp
<1>20. CASE NothingToRestore
  BY <1>20 DEF NothingToRestore
<1>21. CASE RestoreKlipper
  BY <1>21 DEF RestoreKlipper, StartUnit
<1>22. CASE ConfirmRestored
  BY <1>22 DEF ConfirmRestored
<1>23. CASE FinishTargets
  BY <1>23 DEF FinishTargets
<1>24. CASE StartAfterBatch
  BY <1>24 DEF StartAfterBatch, StartUnit
<1>25. CASE ConfirmStarted
  BY <1>25 DEF ConfirmStarted
<1>26. CASE Reconnect
  BY <1>26 DEF Reconnect
<1>27. CASE Killed
  <2>1. Behind' /\ Written'
    BY <1>27 DEF Killed
  <2>2. Ahead'
    BY <1>27 DEF Killed, Ended
  <2> QED
    BY <2>1, <2>2
<1>28. CASE PrintStarts
  BY <1>28 DEF PrintStarts
<1>29. CASE PrintEnds
  BY <1>29 DEF PrintEnds
<1>30. CASE KlippyChanges
  BY <1>30 DEF KlippyChanges
<1>31. CASE UnitChanges
  BY <1>31 DEF UnitChanges
<1>32. CASE McuReturns
  BY <1>32 DEF McuReturns
<1>33. CASE UNCHANGED vars
  BY <1>33 DEF vars
<1> QED
  BY <1>1, <1>2, <1>3, <1>4, <1>5, <1>6, <1>7, <1>8, <1>9, <1>10, <1>11,
     <1>12, <1>13, <1>14, <1>15, <1>16, <1>17, <1>18, <1>19, <1>20, <1>21,
     <1>22, <1>23, <1>24, <1>25, <1>26, <1>27, <1>28, <1>29, <1>30, <1>31,
     <1>32, <1>33
     DEF Next, Run, Environment

\* Klipper is held stopped from the confirmed stop until it is started
\* again.
LEMMA CustodyStep == IInv /\ TypeOK' /\ [Next]_vars => Custody'
<1> SUFFICES ASSUME IInv, TypeOK', [Next]_vars PROVE Custody'
  OBVIOUS
<1> USE DEF IInv, Custody, Quiet, AfterStopped, AfterCheck, TypeOK, Outcomes,
            Place, AfterBatch
<1>1. CASE Decline
  BY <1>1 DEF Decline, Offered, Selecting
<1>2. CASE Approve
  BY <1>2 DEF Approve, Offered, Selecting
<1>3. CASE Prepare
  BY <1>3 DEF Prepare
<1>4. CASE CheckPrinter
  BY <1>4 DEF CheckPrinter
<1>5. CASE ObserveKlipper
  BY <1>5 DEF ObserveKlipper
<1>6. CASE StopKlipper
  BY <1>6 DEF StopKlipper
<1>7. CASE ConfirmStopped
  BY <1>7 DEF ConfirmStopped
<1>8. CASE Build
  BY <1>8 DEF Build
<1>9. CASE AwaitApplication
  BY <1>9 DEF AwaitApplication
<1>10. CASE RestoreKlipper
  BY <1>10 DEF RestoreKlipper, StartUnit
<1>11. CASE FinishTargets
  BY <1>11 DEF FinishTargets
<1>12. CASE StartAfterBatch
  BY <1>12 DEF StartAfterBatch, StartUnit
<1>13. CASE ConfirmStarted
  BY <1>13 DEF ConfirmStarted
<1>14. CASE Reconnect
  BY <1>14 DEF Reconnect
<1>15. CASE RefuseUndiscovered \/ RefuseDowngrade \/ PrepareImage \/
            RefuseLink \/ EnterBootloader \/ Write \/ InstallHost \/
            SyncHost \/ RestartHost \/ GiveUp \/ NothingToRestore \/
            ConfirmRestored \/ Killed \/ PrintStarts \/ PrintEnds \/
            KlippyChanges \/ UnitChanges \/ McuReturns
  BY <1>15 DEF RefuseUndiscovered, Selecting, RefuseDowngrade, PrepareImage,
               RefuseLink, EnterBootloader, Write, InstallHost, SyncHost,
               RestartHost, GiveUp, NothingToRestore, ConfirmRestored,
               Killed, Ended, PrintStarts, PrintEnds, KlippyChanges,
               UnitChanges, McuReturns
<1>16. CASE UNCHANGED vars
  BY <1>16 DEF vars
<1> QED
  BY <1>1, <1>2, <1>3, <1>4, <1>5, <1>6, <1>7, <1>8, <1>9, <1>10, <1>11,
     <1>12, <1>13, <1>14, <1>15, <1>16
     DEF Next, Run, Environment

\* A run that fails without advice and without an update has touched
\* nothing.
LEMMA QuietStep == IInv /\ TypeOK' /\ [Next]_vars => Quiet'
<1> SUFFICES ASSUME IInv, TypeOK', [Next]_vars PROVE Quiet'
  OBVIOUS
<1> USE DEF IInv, Quiet, TypeOK, Outcomes, Place, AfterBatch,
            QuietFailureTouchedNothing, Custody, Untouched, InHand, Settled,
            Ahead, OnTarget, AfterCheck, AfterStopped
<1>1. CASE RefuseUndiscovered
  BY <1>1 DEF RefuseUndiscovered, Selecting
<1>2. CASE RefuseDowngrade
  BY <1>2 DEF RefuseDowngrade, Selecting
<1>3. CASE Decline
  BY <1>3 DEF Decline, Offered, Selecting
<1>4. CASE Approve
  BY <1>4 DEF Approve, Offered, Selecting
<1>5. CASE Prepare
  BY <1>5 DEF Prepare
<1>6. CASE CheckPrinter
  BY <1>6 DEF CheckPrinter
<1>7. CASE ObserveKlipper
  BY <1>7 DEF ObserveKlipper
<1>8. CASE StopKlipper
  BY <1>8 DEF StopKlipper
<1>9. CASE EnterBootloader
  BY <1>9 DEF EnterBootloader
<1>10. CASE Write
  BY <1>10 DEF Write
<1>11. CASE RestartHost
  BY <1>11 DEF RestartHost
<1>12. CASE AwaitApplication
  BY <1>12 DEF AwaitApplication
<1>13. CASE GiveUp
  BY <1>13 DEF GiveUp
<1>14. CASE NothingToRestore
  BY <1>14 DEF NothingToRestore
<1>15. CASE RestoreKlipper
  BY <1>15 DEF RestoreKlipper, StartUnit
<1>16. CASE ConfirmRestored
  BY <1>16 DEF ConfirmRestored
<1>17. CASE FinishTargets
  BY <1>17 DEF FinishTargets
<1>18. CASE StartAfterBatch
  BY <1>18 DEF StartAfterBatch, StartUnit
<1>19. CASE ConfirmStarted
  BY <1>19 DEF ConfirmStarted
<1>20. CASE Reconnect
  BY <1>20 DEF Reconnect
<1>21. CASE Killed
  BY <1>21 DEF Killed, Ended
<1>22. CASE McuReturns
  BY <1>22 DEF McuReturns
<1>23. CASE PrepareImage \/ ConfirmStopped \/ Build \/ RefuseLink \/
            InstallHost \/ SyncHost \/ PrintStarts \/ PrintEnds \/
            KlippyChanges \/ UnitChanges
  BY <1>23 DEF PrepareImage, ConfirmStopped, Build, RefuseLink, InstallHost,
               SyncHost, PrintStarts, PrintEnds, KlippyChanges, UnitChanges
<1>24. CASE UNCHANGED vars
  BY <1>24 DEF vars
<1> QED
  BY <1>1, <1>2, <1>3, <1>4, <1>5, <1>6, <1>7, <1>8, <1>9, <1>10, <1>11,
     <1>12, <1>13, <1>14, <1>15, <1>16, <1>17, <1>18, <1>19, <1>20, <1>21,
     <1>22, <1>23, <1>24
     DEF Next, Run, Environment

\* While nobody else moves the unit, the run knows the state it began in.
LEMMA UndisturbedStep == IInv /\ TypeOK' /\ [Next]_vars => Undisturbed'
<1> SUFFICES ASSUME IInv, TypeOK', [Next]_vars PROVE Undisturbed'
  OBVIOUS
<1> USE DEF IInv, Undisturbed, TypeOK, Outcomes, Place, AfterBatch, Custody,
            OnTarget, UnitStates, AfterCheck, AfterStopped
<1>1. CASE ObserveKlipper
  BY <1>1 DEF ObserveKlipper
<1>2. CASE StopKlipper
  <2>1. ~disturbed => firstObserved = "active"
    BY <1>2 DEF StopKlipper
  <2>2. outcome.advice # "as_before"
    BY <1>2 DEF StopKlipper
  <2> QED
    BY <1>2, <2>1, <2>2 DEF StopKlipper
<1>3. CASE NothingToRestore
  BY <1>3 DEF NothingToRestore
<1>4. CASE RestoreKlipper
  BY <1>4 DEF RestoreKlipper, StartUnit
<1>5. CASE ConfirmRestored
  BY <1>5 DEF ConfirmRestored
<1>6. CASE FinishTargets
  BY <1>6 DEF FinishTargets
<1>7. CASE StartAfterBatch
  <2>1. outcome'.advice # "as_before"
    BY <1>7 DEF StartAfterBatch, StartUnit
  <2> QED
    BY <1>7, <2>1 DEF StartAfterBatch, StartUnit
<1>8. CASE ConfirmStarted
  BY <1>8 DEF ConfirmStarted
<1>9. CASE Reconnect
  BY <1>9 DEF Reconnect
<1>10. CASE UnitChanges
  BY <1>10 DEF UnitChanges
<1>11. CASE RefuseUndiscovered \/ RefuseDowngrade \/ Decline \/ Approve \/
            Prepare \/ CheckPrinter \/ PrepareImage \/ ConfirmStopped \/
            Build \/ RefuseLink \/ EnterBootloader \/ Write \/ InstallHost \/
            SyncHost \/ RestartHost \/ AwaitApplication \/ GiveUp \/
            Killed \/ PrintStarts \/ PrintEnds \/ KlippyChanges \/ McuReturns
  BY <1>11 DEF RefuseUndiscovered, Selecting, RefuseDowngrade, Decline,
               Offered, Approve, Prepare, CheckPrinter, PrepareImage,
               ConfirmStopped, Build, RefuseLink, EnterBootloader, Write,
               InstallHost, SyncHost, RestartHost, AwaitApplication, GiveUp,
               Killed, Ended, PrintStarts, PrintEnds, KlippyChanges,
               McuReturns
<1>12. CASE UNCHANGED vars
  BY <1>12 DEF vars
<1> QED
  BY <1>1, <1>2, <1>3, <1>4, <1>5, <1>6, <1>7, <1>8, <1>9, <1>10, <1>11,
     <1>12
     DEF Next, Run, Environment

\* A successful outcome comes from the check of the reported versions, or
\* from a run without updates.
LEMMA VerifiedStep == IInv /\ TypeOK' /\ [Next]_vars => SuccessIsVerified'
<1> SUFFICES ASSUME IInv, TypeOK', [Next]_vars PROVE SuccessIsVerified'
  OBVIOUS
<1> USE DEF IInv, SuccessIsVerified, TypeOK, Outcomes, Place, AfterBatch,
            Custody, Quiet
<1>1. CASE AwaitApplication
  BY <1>1 DEF AwaitApplication
<1>2. CASE RestoreKlipper
  BY <1>2 DEF RestoreKlipper, StartUnit
<1>3. CASE FinishTargets
  BY <1>3 DEF FinishTargets
<1>4. CASE StartAfterBatch
  BY <1>4 DEF StartAfterBatch, StartUnit
<1>5. CASE Reconnect
  BY <1>5 DEF Reconnect, Reconnected
<1>6. CASE McuReturns
  BY <1>6 DEF McuReturns
<1>7. CASE RefuseUndiscovered \/ RefuseDowngrade \/ Decline \/ Approve \/
           Prepare \/ CheckPrinter \/ PrepareImage \/ ObserveKlipper \/
           StopKlipper \/ ConfirmStopped \/ Build \/ RefuseLink \/
           EnterBootloader \/ Write \/ InstallHost \/ SyncHost \/
           RestartHost \/ GiveUp \/ NothingToRestore \/ ConfirmRestored \/
           ConfirmStarted \/ Killed \/ PrintStarts \/ PrintEnds \/
           KlippyChanges \/ UnitChanges
  BY <1>7 DEF RefuseUndiscovered, Selecting, RefuseDowngrade, Decline,
              Offered, Approve, Prepare, CheckPrinter, PrepareImage,
              ObserveKlipper, StopKlipper, ConfirmStopped, Build, RefuseLink,
              EnterBootloader, Write, InstallHost, SyncHost, RestartHost,
              GiveUp, NothingToRestore, ConfirmRestored, ConfirmStarted,
              Killed, Ended, PrintStarts, PrintEnds, KlippyChanges,
              UnitChanges
<1>8. CASE UNCHANGED vars
  BY <1>8 DEF vars
<1> QED
  BY <1>1, <1>2, <1>3, <1>4, <1>5, <1>6, <1>7, <1>8
     DEF Next, Run, Environment

\* Every step preserves the whole invariant.
LEMMA StepIInv == IInv /\ [Next]_vars => IInv'
<1> SUFFICES ASSUME IInv, [Next]_vars PROVE IInv'
  OBVIOUS
<1>1. TypeOK'
  BY TypeStep
<1> QED
  BY <1>1, PlaceStep, FirmwareStep, DamageStep, SettledStep, CustodyStep,
     QuietStep, UndisturbedStep, VerifiedStep DEF IInv

\* IInv is an invariant of the specification.
THEOREM Inductive == Spec => []IInv
  BY InitIInv, StepIInv, PTL DEF Spec

\* Type correctness of the run and of the host around it.
THEOREM TypeCorrect == Spec => []TypeOK
<1>1. IInv => TypeOK
  BY DEF IInv
<1> QED
  BY <1>1, Inductive, PTL

\* Whatever happens, a kill included, at most the target in hand is in its
\* bootloader or holds a partial image.
THEOREM DamageConfined == Spec => []NothingElseDamaged
<1>1. IInv => NothingElseDamaged
  BY DEF IInv, NothingElseDamaged, DamagePlace
<1> QED
  BY <1>1, Inductive, PTL

\* A run that returns names the MCU it damaged and says that Klipper may be
\* stopped when that MCU is in its bootloader.
THEOREM DamageNamed == Spec => []DamageIsNamed
<1>1. IInv => DamageIsNamed
  BY DEF IInv, DamageIsNamed, DamagePlace, Damaged, BootloaderAt, PartialAt
<1> QED
  BY <1>1, Inductive, PTL

\* The per-MCU report of an ended run is true of the MCUs.
THEOREM ReportTrue == Spec => []ReportIsTrue
<1>1. IInv => ReportIsTrue
  BY DEF IInv, ReportIsTrue, Settled, Behind, Ahead, Untouched, InHand
<1> QED
  BY <1>1, Inductive, PTL

\* What a run returns is true of the MCUs.
THEOREM OutcomeTrue == Spec => []OutcomeIsTrue
<1>1. DamageIsNamed /\ ReportIsTrue => OutcomeIsTrue
  BY DEF OutcomeIsTrue
<1> QED
  BY <1>1, DamageNamed, ReportTrue, PTL

\* A successful run has started Klipper and seen every MCU it updated at
\* its target version.
THEOREM SuccessVerified == Spec => []SuccessIsVerified
<1>1. IInv => SuccessIsVerified
  BY DEF IInv
<1> QED
  BY <1>1, Inductive, PTL

\* No step of the run starts Klipper between the confirmed stop and the end
\* of a flash.
LEMMA FlashStep ==
  ASSUME TypeOK, [Next]_vars, pc' \in Flashing, unit' # "inactive"
  PROVE  pc \in Flashing /\ (unit # "inactive" \/ outside' > outside)
<1> USE DEF TypeOK, Flashing, AfterCheck, AfterStopped
<1>1. CASE ObserveKlipper
  BY <1>1 DEF ObserveKlipper
<1>2. CASE StopKlipper
  BY <1>2 DEF StopKlipper
<1>3. CASE ConfirmStopped
  BY <1>3 DEF ConfirmStopped
<1>4. CASE RestoreKlipper
  BY <1>4 DEF RestoreKlipper, StartUnit
<1>5. CASE StartAfterBatch
  BY <1>5 DEF StartAfterBatch, StartUnit
<1>6. CASE UnitChanges
  BY <1>6 DEF UnitChanges
<1>7. CASE RefuseUndiscovered \/ RefuseDowngrade \/ Decline \/ Approve \/
           Prepare \/ CheckPrinter \/ PrepareImage \/ Build \/ RefuseLink \/
           EnterBootloader \/ Write \/ InstallHost \/ SyncHost \/
           RestartHost \/ AwaitApplication \/ GiveUp \/ NothingToRestore \/
           ConfirmRestored \/ FinishTargets \/ ConfirmStarted \/ Reconnect \/
           Killed \/ PrintStarts \/ PrintEnds \/ KlippyChanges \/ McuReturns
  BY <1>7 DEF RefuseUndiscovered, Selecting, RefuseDowngrade, Decline,
              Offered, Approve, Prepare, CheckPrinter, PrepareImage, Build,
              RefuseLink, EnterBootloader, Write, InstallHost, SyncHost,
              RestartHost, AwaitApplication, GiveUp, NothingToRestore,
              ConfirmRestored, FinishTargets, ConfirmStarted, Reconnect,
              Killed, Ended, PrintStarts, PrintEnds, KlippyChanges,
              McuReturns
<1>8. CASE UNCHANGED vars
  BY <1>8 DEF vars
<1> QED
  BY <1>1, <1>2, <1>3, <1>4, <1>5, <1>6, <1>7, <1>8
     DEF Next, Run, Environment

\* Nothing is flashed under an active Klipper, unless somebody else started it
\* during that flash.
THEOREM FlashedWhileStopped == Spec => FlashWhileStopped
<1>1. IInv /\ [Next]_vars =>
        [pc' \in Flashing /\ unit' # "inactive" =>
           pc \in Flashing /\ (unit # "inactive" \/ outside' > outside)]_vars
  BY FlashStep DEF IInv
<1> QED
  BY <1>1, Inductive, PTL DEF Spec, FlashWhileStopped

\* "Left as before" is true unless somebody else moved the unit.
THEOREM ClaimHonest == Spec => []HonestClaim
<1>1. IInv => HonestClaim
  BY DEF IInv, HonestClaim, Undisturbed
<1> QED
  BY <1>1, Inductive, PTL

\* A failure without any word about Klipper, before the first update,
\* touched nothing.
THEOREM QuietFailureHarmless == Spec => []QuietFailureTouchedNothing
<1>1. IInv => QuietFailureTouchedNothing
  BY DEF IInv, Quiet
<1> QED
  BY <1>1, Inductive, PTL

\* What a failure says of Klipper, or leaves unsaid, is true.
THEOREM AdviceTrue == Spec => []AdviceIsTrue
<1>1. HonestClaim /\ QuietFailureTouchedNothing => AdviceIsTrue
  BY DEF AdviceIsTrue
<1> QED
  BY <1>1, ClaimHonest, QuietFailureHarmless, PTL

\* The run never starts Klipper while an MCU is in its bootloader.
THEOREM RestoreIsSafe == Spec => NeverStartOverBootloader
<1>1. ASSUME IInv, [Next]_vars, StartsKlipper
      PROVE  \A m \in Mcus : device[m] # "bootloader"
  <2>1. RestoreKlipper \/ pc = "start"
    BY <1>1 DEF StartsKlipper, Next, Run, Environment, vars,
            RefuseUndiscovered, RefuseDowngrade, Decline, Approve, Prepare,
            CheckPrinter, PrepareImage, ObserveKlipper, StopKlipper,
            ConfirmStopped, Build, RefuseLink, EnterBootloader, Write,
            InstallHost, SyncHost, RestartHost, AwaitApplication, GiveUp,
            NothingToRestore, ConfirmRestored, FinishTargets,
            StartAfterBatch, ConfirmStarted, Reconnect, Offered, Selecting,
            Killed, PrintStarts, PrintEnds, KlippyChanges, UnitChanges,
            McuReturns
  <2>2. pc = "restore" => error # "flash"
    BY <2>1 DEF RestoreKlipper, AllowsRestore
  <2> QED
    BY <1>1, <2>2 DEF StartsKlipper, IInv, DamagePlace, BootloaderAt
<1> QED
  BY <1>1, Inductive, PTL DEF Spec, NeverStartOverBootloader

-----------------------------------------------------------------------------
(* The one check of the printer.                                           *)

\* Only a ready Klippy prints; whoever may stop Klipper has looked, and until
\* a print starts what it saw stays true.
Looked ==
    /\ printing => unit = "active" /\ klippy = "ready"
    /\ pc \in {"image", "observe", "stop"} => printerChecked
    /\ printerChecked /\ prints = 0 => ~printing

\* The check of the printer is the only step that sets printer_checked, and
\* it passes over no print.
LEMMA LookedInit == Init => Looked
  BY Zenon DEF Init, Looked

\* Every step preserves it: a print that starts is counted.
LEMMA LookedStep == TypeOK /\ Looked /\ [Next]_vars => Looked'
<1> SUFFICES ASSUME TypeOK, Looked, [Next]_vars PROVE Looked'
  OBVIOUS
<1> USE DEF Looked
<1>1. CASE Prepare
  BY <1>1 DEF Prepare, AfterCheck
<1>2. CASE CheckPrinter
  BY <1>2 DEF CheckPrinter, PrinterIsIdle, AfterCheck
<1>3. CASE StopKlipper
  BY <1>3 DEF StopKlipper
<1>4. CASE RestoreKlipper
  BY <1>4 DEF RestoreKlipper, StartUnit
<1>5. CASE StartAfterBatch
  BY <1>5 DEF StartAfterBatch, StartUnit
<1>6. CASE PrintStarts
  BY <1>6 DEF PrintStarts, TypeOK
<1>7. CASE PrintEnds
  BY <1>7 DEF PrintEnds
<1>8. CASE KlippyChanges
  BY <1>8 DEF KlippyChanges
<1>9. CASE UnitChanges
  BY <1>9 DEF UnitChanges
<1>10. CASE ObserveKlipper
  BY <1>10 DEF ObserveKlipper, AfterStopped
<1>11. CASE PrepareImage
  BY <1>11 DEF PrepareImage
<1>12. CASE RefuseUndiscovered \/ RefuseDowngrade \/ Decline \/ Approve \/
            ConfirmStopped \/ Build \/ RefuseLink \/ EnterBootloader \/
            Write \/ InstallHost \/ SyncHost \/ RestartHost \/
            AwaitApplication \/ GiveUp \/ NothingToRestore \/
            ConfirmRestored \/ FinishTargets \/ ConfirmStarted \/
            Reconnect \/ Killed \/ McuReturns
  BY <1>12 DEF RefuseUndiscovered, Selecting, RefuseDowngrade, Decline,
               Offered, Approve, ConfirmStopped, AfterStopped, Build,
               RefuseLink, EnterBootloader, Write, InstallHost, SyncHost,
               RestartHost, AwaitApplication, GiveUp, NothingToRestore,
               ConfirmRestored, FinishTargets, ConfirmStarted, Reconnect,
               Killed, Ended, McuReturns
<1>13. CASE UNCHANGED vars
  BY <1>13 DEF vars
<1> QED
  BY <1>1, <1>2, <1>3, <1>4, <1>5, <1>6, <1>7, <1>8, <1>9, <1>10, <1>11,
     <1>12, <1>13
     DEF Next, Run, Environment

\* A run never stops Klipper under a print that was under way before the run
\* began, whatever the run did since and whoever moved Klipper, as long as no
\* other print was begun since.
THEOREM PrintSpared == Spec => SettledPrintIsSpared
<1>1. TypeOK /\ Looked /\ [Next]_vars
        => [StopsKlipper /\ prints = 0 => ~printing]_vars
  BY Zenon DEF Looked, StopsKlipper
<1> QED
  BY <1>1, LookedInit, LookedStep, TypeCorrect, PTL
     DEF Spec, SettledPrintIsSpared

-----------------------------------------------------------------------------
(* The refinement of RunContract: each step of a run takes Klipper, gives  *)
(* it back, puts an MCU at risk, releases it, records an update or ends, as *)
(* the contract allows it, or changes nothing the contract sees.           *)

\* What the contract sees of a run.
Fate == IF pc = "dead" THEN "killed"
        ELSE IF outcome.verdict = "none" THEN "running" ELSE outcome.verdict
AtRisk == {m \in Mcus : device[m] = "bootloader"}

\* Only the transfer, its failure and a killed run leave an MCU at risk while
\* the run is under way.
LEMMA RiskOnlyInTransfer ==
  ASSUME IInv, ~Ended, pc # "write", ~(pc = "restore" /\ error = "flash")
  PROVE  AtRisk = {}
  BY DEF IInv, Ended, DamagePlace, BootloaderAt, AtRisk

\* The flashing order names no MCU twice: the one in hand is not updated yet.
LEMMA NotYetUpdated ==
  ASSUME IInv, pc \in OnTarget
  PROVE  Target \notin updated
<1>1. idx \in 1..Len(targets) /\ targets \in TargetLists
  BY DEF IInv, TypeOK, Place
<1>2. ASSUME NEW j \in 1..(idx - 1) PROVE targets[j] # targets[idx]
  BY <1>1, Parameters
<1> QED
  BY <1>2 DEF IInv, Settled, Behind, Target

\* A run that is still under way has no outcome.
LEMMA RunningFate ==
  ASSUME IInv, ~Ended PROVE Fate = "running"
  BY DEF IInv, Place, Ended, Fate

\* The first state of a run is a first state of the contract.
LEMMA InitContract == Init => Contract!Init
  BY DEF Init, Contract!Init

\* A step that moves neither custody, risk nor updates keeps the contract's
\* state, or ends the run as the contract allows.
LEMMA EndOrStutter ==
  ASSUME IInv, IInv', ~Ended, AtRisk' = AtRisk,
         UNCHANGED <<held, updated>>,
         pc' = "done" \/ pc' = "dead" \/ UNCHANGED outcome,
         pc' = "done" /\ outcome'.verdict = "ok" => ~held /\ AtRisk = {}
  PROVE  [Contract!Next]_Contract!vars
<1>1. Fate = "running" /\ outcome.verdict = "none"
  BY RunningFate DEF IInv, Place, Ended
<1>2. Fate' \in {"running", "ok", "failed", "killed"}
  BY DEF IInv, TypeOK, Outcomes, Fate
<1>3. CASE Fate' = "running"
  BY <1>1, <1>3 DEF Contract!vars, Fate, AtRisk
<1>4. CASE Fate' = "ok"
  BY <1>1, <1>4 DEF Contract!Next, Contract!Finish, Contract!Running, Fate,
     AtRisk
<1>5. CASE Fate' \in {"failed", "killed"}
  BY <1>1, <1>5 DEF Contract!Next, Contract!Finish, Contract!Running, Fate,
     AtRisk
<1> QED
  BY <1>2, <1>3, <1>4, <1>5

\* Every step of the run or of the host is a step of the contract or none.
LEMMA StepContract ==
  IInv /\ IInv' /\ [Next]_vars => [Contract!Next]_Contract!vars
<1> SUFFICES ASSUME IInv, IInv', [Next]_vars
    PROVE  [Contract!Next]_Contract!vars
  OBVIOUS
<1> USE Parameters
<1> USE DEF progress, klipper, mcuState, ledger, budget, runVars,
            Goto, Fail, Raise, Succeed
<1>1. CASE RefuseUndiscovered
  BY <1>1, EndOrStutter DEF AtRisk, RefuseUndiscovered, Selecting, Ended
<1>2. CASE RefuseDowngrade
  BY <1>2, EndOrStutter DEF AtRisk, RefuseDowngrade, Selecting, Ended
<1>3. CASE Decline
  BY <1>3, EndOrStutter DEF AtRisk, Decline, Offered, Selecting, Ended
<1>4. CASE Approve
  BY <1>4, EndOrStutter DEF AtRisk, Approve, Offered, Selecting, Ended
<1>5. CASE Prepare
  BY <1>5, EndOrStutter DEF AtRisk, Prepare, Ended, AfterCheck
<1>6. CASE CheckPrinter
  BY <1>6, EndOrStutter DEF AtRisk, CheckPrinter, Ended, AfterCheck
<1>7. CASE PrepareImage
  BY <1>7, EndOrStutter DEF AtRisk, PrepareImage, Ended
<1>8. CASE ConfirmStopped
  BY <1>8, EndOrStutter DEF AtRisk, ConfirmStopped, Ended, AfterStopped
<1>9. CASE Build
  BY <1>9, EndOrStutter DEF AtRisk, Build, Ended
<1>10. CASE RefuseLink
  BY <1>10, EndOrStutter DEF AtRisk, RefuseLink, Ended
<1>11. CASE InstallHost
  BY <1>11, EndOrStutter DEF AtRisk, InstallHost, Ended
<1>12. CASE SyncHost
  BY <1>12, EndOrStutter DEF AtRisk, SyncHost, Ended
<1>13. CASE GiveUp
  BY <1>13, EndOrStutter DEF AtRisk, GiveUp, Ended
<1>14. CASE NothingToRestore
  BY <1>14, EndOrStutter DEF AtRisk, NothingToRestore, Ended
<1>15. CASE ConfirmRestored
  BY <1>15, EndOrStutter DEF AtRisk, ConfirmRestored, Ended
<1>16. CASE ConfirmStarted
  BY <1>16, EndOrStutter DEF AtRisk, ConfirmStarted, Ended
<1>17. CASE Killed
  BY <1>17, EndOrStutter DEF AtRisk, Killed, Ended, IInv, Place
<1>18. CASE ObserveKlipper
  <2>1. CASE held' = held
    BY <1>18, <2>1, EndOrStutter DEF AtRisk, ObserveKlipper, Ended,
       AfterStopped
  <2>2. CASE ~held /\ held'
    <3>1. Fate = "running" /\ Fate' = "running"
      BY <1>18, <2>2, RunningFate DEF ObserveKlipper, Ended, AfterStopped,
         Fate
    <3> QED
      BY <1>18, <2>2, <3>1 DEF ObserveKlipper, AtRisk, Contract!Next,
         Contract!TakeKlipper, Contract!Running, Fate
  <2> QED
    BY <1>18, <2>1, <2>2, Zenon DEF ObserveKlipper, IInv, TypeOK, Flags
<1>19. CASE StopKlipper
  <2>1. CASE held' = held
    BY <1>19, <2>1, EndOrStutter DEF AtRisk, StopKlipper, Ended
  <2>2. CASE ~held /\ held'
    <3>1. Fate = "running" /\ Fate' = "running"
      BY <1>19, <2>2, RunningFate DEF StopKlipper, Ended, Fate
    <3> QED
      BY <1>19, <2>2, <3>1 DEF StopKlipper, AtRisk, Contract!Next,
         Contract!TakeKlipper, Contract!Running, Fate
  <2> QED
    BY <1>19, <2>1, <2>2, Zenon DEF StopKlipper, IInv, TypeOK, Flags
<1>20. CASE EnterBootloader
  <2>1. AtRisk = {} /\ held /\ Target \in Mcus \ updated
    BY <1>20, RiskOnlyInTransfer, NotYetUpdated, TargetIsMcu
       DEF EnterBootloader, Ended, IInv, Custody, Place, OnTarget
  <2>2. Fate = "running" /\ Fate' = "running"
    BY <1>20, RunningFate DEF EnterBootloader, Ended, Fate
  <2>3. CASE device' = [device EXCEPT ![Target] = "bootloader"]
    <3>1. AtRisk' = {Target}
      BY <1>20, <2>1, <2>3 DEF AtRisk, IInv, TypeOK
    <3> QED
      BY <1>20, <2>1, <2>2, <3>1 DEF EnterBootloader, Contract!Next,
         Contract!PutAtRisk, Contract!Running, Fate, AtRisk
  <2>4. CASE \E at \in {"application", "restarting"} :
                device' = [device EXCEPT ![Target] = at]
    <3>1. AtRisk' = AtRisk
      BY <1>20, <2>1, <2>4 DEF AtRisk, IInv, TypeOK
    <3> QED
      BY <1>20, <2>2, <3>1, EndOrStutter DEF EnterBootloader, Ended
  <2> QED
    BY <1>20, <2>3, <2>4 DEF EnterBootloader
<1>21. CASE Write
  <2>1. CASE device' = device
    BY <1>21, <2>1, EndOrStutter DEF AtRisk, Write, Ended
  <2>2. CASE /\ device' = [device EXCEPT ![Target] = "restarting"]
             /\ UNCHANGED outcome
    <3>1. AtRisk' = {}
      BY <1>21, <2>2 DEF AtRisk, IInv, TypeOK, DamagePlace, Damaged, Write
    <3>2. Fate = "running" /\ Fate' = "running"
      BY <1>21, <2>2, RunningFate DEF Write, Ended, Fate
    <3> QED
      BY <1>21, <2>2, <3>1, <3>2 DEF Write, Contract!Next, Contract!Release,
         Contract!Running, Contract!vars, Fate, AtRisk
  <2> QED
    BY <1>21, <2>1, <2>2 DEF Write, IInv, TypeOK
<1>22. CASE RestartHost
  <2>1. AtRisk = {}
    BY <1>22, RiskOnlyInTransfer DEF RestartHost, Ended
  <2>2. AtRisk' = {}
    BY <1>22, <2>1 DEF RestartHost, AtRisk, IInv, TypeOK
  <2> QED
    BY <1>22, <2>1, <2>2, EndOrStutter DEF RestartHost, Ended
<1>23. CASE AwaitApplication
  <2>1. AtRisk = {} /\ AtRisk' = {} /\ held /\ Target \in Mcus \ updated
    BY <1>23, RiskOnlyInTransfer, NotYetUpdated, TargetIsMcu
       DEF AwaitApplication, Ended, IInv, Custody, Place, OnTarget, AtRisk
  <2>2. CASE UNCHANGED updated
    BY <1>23, <2>1, <2>2, EndOrStutter DEF AwaitApplication, Ended
  <2>3. CASE updated' = updated \cup {Target} /\ UNCHANGED outcome
    <3>1. Fate = "running" /\ Fate' = "running"
      BY <1>23, <2>3, RunningFate DEF AwaitApplication, Ended, Fate
    <3> QED
      BY <1>23, <2>1, <2>3, <3>1 DEF AwaitApplication, Contract!Next,
         Contract!Record, Contract!Running, Fate, AtRisk
  <2> QED
    BY <1>23, <2>2, <2>3 DEF AwaitApplication
<1>24. CASE RestoreKlipper
  <2>1. AtRisk = {} /\ AtRisk' = {}
    BY <1>24, RiskOnlyInTransfer DEF RestoreKlipper, Ended, AllowsRestore,
       AtRisk
  <2>2. CASE held' = held
    BY <1>24, <2>1, <2>2, EndOrStutter DEF RestoreKlipper, StartUnit, Ended
  <2>3. CASE held /\ ~held' /\ UNCHANGED outcome
    <3>1. Fate = "running" /\ Fate' = "running"
      BY <1>24, <2>3, RunningFate DEF RestoreKlipper, StartUnit, Ended, Fate
    <3> QED
      BY <1>24, <2>1, <2>3, <3>1 DEF RestoreKlipper, Contract!Next,
         Contract!ReturnKlipper, Contract!Running, Fate, AtRisk
  <2> QED
    BY <1>24, <2>2, <2>3, Zenon DEF RestoreKlipper, StartUnit, IInv, TypeOK,
       Flags
<1>25. CASE StartAfterBatch
  <2>1. AtRisk = {} /\ AtRisk' = {}
    BY <1>25, RiskOnlyInTransfer DEF StartAfterBatch, Ended, AllowsRestore,
       AtRisk
  <2>2. CASE held' = held
    BY <1>25, <2>1, <2>2, EndOrStutter DEF StartAfterBatch, StartUnit, Ended
  <2>3. CASE held /\ ~held' /\ UNCHANGED outcome
    <3>1. Fate = "running" /\ Fate' = "running"
      BY <1>25, <2>3, RunningFate DEF StartAfterBatch, StartUnit, Ended, Fate
    <3> QED
      BY <1>25, <2>1, <2>3, <3>1 DEF StartAfterBatch, Contract!Next,
         Contract!ReturnKlipper, Contract!Running, Fate, AtRisk
  <2> QED
    BY <1>25, <2>2, <2>3, Zenon DEF StartAfterBatch, StartUnit, IInv, TypeOK,
       Flags
<1>26. CASE FinishTargets
  <2>1. AtRisk = {}
    BY <1>26, RiskOnlyInTransfer DEF FinishTargets, Ended
  <2>2. updated = {} => ~held
    BY <1>26 DEF FinishTargets, IInv, Quiet
  <2> QED
    BY <1>26, <2>1, <2>2, EndOrStutter DEF FinishTargets, Ended, AtRisk
<1>27. CASE Reconnect
  <2>1. AtRisk = {} /\ ~held
    BY <1>27, RiskOnlyInTransfer DEF Reconnect, Ended, IInv, Custody
  <2> QED
    BY <1>27, <2>1, EndOrStutter DEF Reconnect, Ended, AtRisk
<1>28. CASE PrintStarts
  BY <1>28 DEF PrintStarts, Contract!vars
<1>29. CASE PrintEnds
  BY <1>29 DEF PrintEnds, Contract!vars
<1>30. CASE KlippyChanges
  BY <1>30 DEF KlippyChanges, Contract!vars
<1>31. CASE UnitChanges
  BY <1>31 DEF UnitChanges, Contract!vars
<1>32. CASE McuReturns
  <2>1. AtRisk' = AtRisk
    BY <1>32 DEF McuReturns, AtRisk, IInv, TypeOK
  <2> QED
    BY <1>32, <2>1 DEF McuReturns, Contract!vars, AtRisk
<1>33. CASE UNCHANGED vars
  BY <1>33 DEF vars, Contract!vars
<1> QED
  BY <1>1, <1>2, <1>3, <1>4, <1>5, <1>6, <1>7, <1>8, <1>9, <1>10, <1>11,
     <1>12, <1>13, <1>14, <1>15, <1>16, <1>17, <1>18, <1>19, <1>20, <1>21,
     <1>22, <1>23, <1>24, <1>25, <1>26, <1>27, <1>28, <1>29, <1>30, <1>31,
     <1>32, <1>33
     DEF Next, Run, Environment

\* A run implements the contract: Klipper is taken before an MCU is put at
\* risk, one MCU is at risk at a time, Klipper is given back only when none
\* is, and a run succeeds only after giving Klipper back.
THEOREM RunImplementsContract == Spec => ImplementsContract
  BY InitContract, StepContract, Inductive, PTL
     DEF Spec, ImplementsContract, Contract!Spec
=============================================================================

----------------------------- MODULE Reboot_proofs -----------------------------
(***************************************************************************)
(* Proofs about Reboot, for any number of boards on the bus, any of which  *)
(* may leave, come back elsewhere or take over a serial device between the *)
(* scan and the step that uses what it found: what the command tells a     *)
(* board was asked for it, and what it reports is true.                    *)
(***************************************************************************)
EXTENDS Reboot, TLAPS

-----------------------------------------------------------------------------
(* The inductive invariant. *)

Searching == {"lock", "scan", "scanBeacons", "wait", "rescanBeacons"}
OnBoard == {"probe", "confirm", "leave", "watch"}
OnBeacon == {"ask", "flash", "watchLeft", "watchApplication"}
BeaconPhase == OnBeacon \cup {"nextBeacon"}
Restarting == {"restart", "askRestart", "sendRestart"}

Found == {p \in Places : found[p].kind # NoKind}
InHand(steps) == IF pc \in steps THEN {current} ELSE {}

\* While the scan lasts nothing was done; a board in hand was found, and is
\* not visited again.
Visiting ==
    /\ pc \in Searching =>
         /\ told = {} /\ written = {} /\ accepted = {} /\ declined = {} /\ beacons = {}
         /\ resolved
    /\ pc \in Searching \ {"lock", "scan"} => pending = Found
    /\ pc \in {"next"} \cup OnBoard =>
         pending \cup InHand(OnBoard) \subseteq Found \ declined
    /\ pc \in BeaconPhase =>
         pending \cup InHand(OnBeacon) \subseteq beacons
    /\ pc \in OnBoard \cup OnBeacon => current \in Places \ pending
    /\ pc \in {"next"} \cup OnBoard => written = {}
    /\ pc \in {"next"} \cup OnBoard =>
         (pending \cup InHand({"probe", "confirm"})) \cap accepted = {}
    /\ (pending \cup InHand({"ask", "flash"})) \cap written = {}
    /\ pc \in {"leave", "flash"} => current \in accepted
    /\ pc = "probe" => found[current].kind = "stm32"
    /\ pc \in {"confirm", "leave"} /\ found[current].kind \in Serial =>
         found[current].tty # NoTty
    /\ pc \in {"confirm", "leave"} /\ found[current].kind = "stm32" =>
         flash[current] # "blank"

\* What the scan found is still true of a board that stayed and was not told
\* or written to; one that is no longer what was found has departed.
Records ==
    /\ pc \notin {"lock", "scan", "failure"} => \A p \in stayed \ (told \cup written) :
         found[p] = IF at[p] \in Bootloaders
                    THEN [kind |-> at[p], tty |-> tty[p]] ELSE NoRecord
    /\ pc \notin {"lock", "scan", "failure"} => \A p \in Found : at[p] # found[p].kind => p \in departed
    /\ \A p, q \in Places : found[p].tty = found[q].tty => p = q \/ found[p].tty = NoTty
    /\ \A p \in beacons : at[p] # "beacon" => p \in departed
    /\ beacons \cap Found \cap stayed = {}
    /\ told \cap stayed \subseteq Found

\* What still has to be resolved, and what was.
Resolving ==
    /\ pc = "success" => resolved
    /\ resolved =>
         /\ pc \in {"next"} \cup OnBoard =>
              Found \subseteq pending \cup InHand(OnBoard) \cup declined \cup departed
         /\ pc \in BeaconPhase \cup Restarting \cup {"success"} =>
              Found \subseteq declined \cup departed
         /\ pc \in BeaconPhase =>
              beacons \subseteq pending \cup InHand(OnBeacon) \cup declined \cup departed
         /\ pc \in Restarting \cup {"success"} => beacons \subseteq declined \cup departed

Back(p) == p \in stayed => at[p] = "application" /\ flash[p] = "application"

\* A Beacon that was written to is on its way back, or is back.
Recovering ==
    /\ pc \in {"watchLeft", "watchApplication"} =>
         current \in written /\ flash[current] = "application"
    /\ pc = "watchApplication" => current \in departed
    /\ resolved => \A p \in written \ InHand({"watchLeft", "watchApplication"}) : Back(p)
    /\ recovered => \E p \in written \cap departed :
         Back(p) /\ p \notin InHand({"watchLeft", "watchApplication"})
    /\ pc \in Searching \cup {"next"} \cup OnBoard => ~recovered
    /\ pc \in Restarting => recovered
    /\ pc \in {"askRestart", "sendRestart"} => read = "stopped" /\ options.local
    /\ restarted => /\ pc \in {"success", "failure"} /\ recovered
                    /\ read = "stopped" /\ options.local

RebootInv ==
    /\ TypeOK /\ Visiting /\ Records /\ Resolving /\ Recovering
    /\ OnlyWithConsent /\ BlankStays

-----------------------------------------------------------------------------
(* The steps. *)

\* Nothing was found, asked or told yet.
LEMMA RebootInit ==
  ASSUME Parameters, Init
  PROVE  RebootInv
<1> USE DEF Parameters, Init, Kinds, Bootloaders, States, NoRecord, Steps, Options
<1>0. /\ at \in [Places -> Kinds] /\ found \in [Places -> [kind : Bootloaders \cup {NoKind},
                                                       tty : Ttys \cup {NoTty}]]
  OBVIOUS
<1>3. resolved \in BOOLEAN /\ recovered \in BOOLEAN /\ restarted \in BOOLEAN
  BY Zenon
<1>1. TypeOK
  BY <1>0, <1>3 DEF TypeOK
<1>2. Found = {}
  BY DEF Found
<1> QED
  BY <1>1, <1>2 DEF RebootInv, Visiting, Records, Resolving, Recovering, OnlyWithConsent,
     BlankStays, InHand, Searching, OnBoard, OnBeacon, BeaconPhase, Restarting

\* The scan finds what is there, and starts the count of who stays and departs.
LEMMA SearchStep ==
  ASSUME Parameters, RebootInv, Lock \/ Scan \/ ScanBeacons
  PROVE  RebootInv'
<1> USE DEF Parameters, RebootInv, TypeOK, Visiting, Records, Resolving, Recovering, OnlyWithConsent, BlankStays, 
        InHand, Found, Searching, OnBoard, OnBeacon, BeaconPhase, Restarting, Back, NoRecord, Goto, bus, visit, ghosts,
        Bootloaders, Serial, Kinds, States, Steps, Options, NoKind
<1>1. CASE Lock
  <2>1. TypeOK'
    BY <1>1 DEF Lock
  <2>2. Visiting'
    BY <1>1, <2>1 DEF Lock
  <2>3. Records'
    BY <1>1, <2>1 DEF Lock
  <2>4. Resolving'
    BY <1>1, <2>1 DEF Lock
  <2>5. Recovering'
    BY <1>1, <2>1 DEF Lock
  <2>6. OnlyWithConsent'
    BY <1>1, <2>1 DEF Lock
  <2>7. BlankStays'
    BY <1>1, <2>1 DEF Lock
  <2> QED
    BY <2>1, <2>2, <2>3, <2>4, <2>5, <2>6, <2>7
<1>2. CASE Scan
  <2>1. TypeOK'
    BY <1>2 DEF Scan, Detected
  <2>2. Visiting'
    BY <1>2, <2>1 DEF Scan, Detected
  <2>3. Records'
    BY <1>2, <2>1 DEF Scan, Detected
  <2>4. Resolving'
    BY <1>2, <2>1 DEF Scan, Detected
  <2>5. Recovering'
    BY <1>2, <2>1 DEF Scan, Detected
  <2>6. OnlyWithConsent'
    BY <1>2, <2>1 DEF Scan, Detected
  <2>7. BlankStays'
    BY <1>2, <2>1 DEF Scan, Detected
  <2> QED
    BY <2>1, <2>2, <2>3, <2>4, <2>5, <2>6, <2>7
<1>3. CASE ScanBeacons
  <2>1. TypeOK'
    BY <1>3 DEF ScanBeacons
  <2>2. Visiting'
    BY <1>3, <2>1 DEF ScanBeacons
  <2>3. Records'
    <3>1. ASSUME NEW b \in beacons' PROVE b \notin Found' \cap stayed'
      <4>1. b \in Places /\ at[b] = "beacon" /\ told = {} /\ written = {}
        BY <1>3, <3>1 DEF ScanBeacons
      <4>2. b \in stayed => found[b] = NoRecord
        BY <1>3, <4>1 DEF ScanBeacons
      <4>3. found' = found /\ stayed' = stayed
        BY <1>3 DEF ScanBeacons
      <4> QED
        BY <4>2, <4>3
    <3> QED
      BY <1>3, <2>1, <3>1 DEF ScanBeacons
  <2>4. Resolving'
    BY <1>3, <2>1 DEF ScanBeacons
  <2>5. Recovering'
    BY <1>3, <2>1 DEF ScanBeacons
  <2>6. OnlyWithConsent'
    BY <1>3, <2>1 DEF ScanBeacons
  <2>7. BlankStays'
    BY <1>3, <2>1 DEF ScanBeacons
  <2> QED
    BY <2>1, <2>2, <2>3, <2>4, <2>5, <2>6, <2>7
<1> QED
  BY <1>1, <1>2, <1>3

\* A session reaches the board it is for, unless another one was plugged in
\* meanwhile, or one that was told before.
LEMMA ReachedIsCurrent ==
  ASSUME RebootInv, pc = "leave", NEW p \in Reached, p \in stayed
  PROVE  p \in Found /\ (p = current \/ p \in told)
<1> USE DEF RebootInv, TypeOK, Visiting, Records, Found, InHand, OnBoard, Bootloaders, Serial,
        NoKind, NoRecord
<1>1. p \in Places /\ at[p] = found[current].kind /\ at[p] \in Bootloaders /\ current \in Places
  BY DEF Reached
<1>2. CASE p \in told
  BY <1>2
<1>3. CASE p \notin told
  <2>1. found[p] = [kind |-> at[p], tty |-> tty[p]]
    BY <1>1, <1>3
  <2>2. found[current].kind \in Serial => found[p].tty = found[current].tty /\ found[p].tty # NoTty
    BY <1>1, <2>1 DEF Reached
  <2> QED
    BY <1>1, <2>1, <2>2 DEF Reached
<1> QED
  BY <1>2, <1>3

\* A board is told what its prompt allowed, and watched.
LEMMA BoardStep ==
  ASSUME Parameters, RebootInv, NextBoard \/ Probe \/ Confirm \/ Leave \/ Watch
  PROVE  RebootInv'
<1> USE DEF Parameters, RebootInv, TypeOK, Visiting, Records, Resolving, Recovering, OnlyWithConsent, BlankStays, 
        InHand, Found, Searching, OnBoard, OnBeacon, BeaconPhase, Restarting, Back, NoRecord, Goto, bus, visit, ghosts,
        Bootloaders, Serial, Kinds, States, Steps, Options, NoKind
<1>1. CASE NextBoard
  <2>1. TypeOK'
    <3>1. resolved' \in BOOLEAN
      BY <1>1 DEF NextBoard, Unresolved
    <3> QED
      BY <1>1, <3>1 DEF NextBoard, Unresolved
  <2>2. Visiting'
    BY <1>1, <2>1 DEF NextBoard, Unresolved
  <2>3. Records'
    BY <1>1, <2>1 DEF NextBoard, Unresolved
  <2>4. Resolving'
    BY <1>1, <2>1 DEF NextBoard, Unresolved
  <2>5. Recovering'
    BY <1>1, <2>1 DEF NextBoard, Unresolved
  <2>6. OnlyWithConsent'
    BY <1>1, <2>1 DEF NextBoard, Unresolved
  <2>7. BlankStays'
    BY <1>1, <2>1 DEF NextBoard, Unresolved
  <2> QED
    BY <2>1, <2>2, <2>3, <2>4, <2>5, <2>6, <2>7
<1>2. CASE Probe
  <2>1. TypeOK'
    BY <1>2 DEF Probe, Unresolved
  <2>2. Visiting'
    <3>1. CASE at[current] = "stm32" /\ flash[current] # "blank" /\ Goto("confirm")
      BY <1>2, <3>1 DEF Probe
    <3>2. CASE Goto("next")
      BY <1>2, <3>2 DEF Probe
    <3> QED
      BY <1>2, <3>1, <3>2 DEF Probe
  <2>3. Records'
    BY <1>2, <2>1 DEF Probe, Unresolved
  <2>4. Resolving'
    BY <1>2, <2>1 DEF Probe, Unresolved
  <2>5. Recovering'
    BY <1>2, <2>1 DEF Probe, Unresolved
  <2>6. OnlyWithConsent'
    BY <1>2, <2>1 DEF Probe, Unresolved
  <2>7. BlankStays'
    BY <1>2, <2>1 DEF Probe, Unresolved
  <2> QED
    BY <2>1, <2>2, <2>3, <2>4, <2>5, <2>6, <2>7
<1>3. CASE Confirm
  <2>1. TypeOK'
    BY <1>3 DEF Confirm, Accept, Decline
  <2>2. Visiting'
    BY <1>3, <2>1 DEF Confirm, Accept, Decline
  <2>3. Records'
    BY <1>3, <2>1 DEF Confirm, Accept, Decline
  <2>4. Resolving'
    BY <1>3, <2>1 DEF Confirm, Accept, Decline
  <2>5. Recovering'
    BY <1>3, <2>1 DEF Confirm, Accept, Decline
  <2>6. OnlyWithConsent'
    BY <1>3, <2>1 DEF Confirm, Accept, Decline
  <2>7. BlankStays'
    BY <1>3, <2>1 DEF Confirm, Accept, Decline
  <2> QED
    BY <2>1, <2>2, <2>3, <2>4, <2>5, <2>6, <2>7
<1>4. CASE Leave
  <2>0. /\ \A p \in told' : p \in stayed => p \in Found /\ (p = current \/ p \in told)
        /\ current \in accepted \ declined /\ told \subseteq told'
        /\ pc = "leave" /\ pc' \in {"watch", "next"}
        /\ UNCHANGED <<bus, found, beacons, stayed, departed, accepted, declined, written>>
    BY <1>4, ReachedIsCurrent DEF Leave
  <2>1. TypeOK'
    <3>1. resolved' \in BOOLEAN
      BY <1>4 DEF Leave, Reached, Unresolved
    <3> QED
      BY <1>4, <3>1 DEF Leave, Reached, Unresolved
  <2>2. Visiting'
    BY <1>4, <2>1 DEF Leave, Reached, Unresolved
  <2>3. Records'
    BY <1>4, <2>0, <2>1
  <2>4. Resolving'
    BY <1>4, <2>1 DEF Leave, Reached, Unresolved
  <2>5. Recovering'
    BY <1>4, <2>1 DEF Leave, Reached, Unresolved
  <2>6. OnlyWithConsent'
    BY <1>4, <2>0, <2>1
  <2>7. BlankStays'
    BY <1>4, <2>1 DEF Leave, Reached, Unresolved
  <2> QED
    BY <2>1, <2>2, <2>3, <2>4, <2>5, <2>6, <2>7
<1>5. CASE Watch
  <2>1. TypeOK'
    BY <1>5 DEF Watch, Unresolved
  <2>2. Visiting'
    BY <1>5, <2>1 DEF Watch, Unresolved
  <2>3. Records'
    BY <1>5, <2>1 DEF Watch, Unresolved
  <2>4. Resolving'
    <3>1. at[current] = "empty" => current \in departed
      BY <1>5 DEF Watch
    <3>2. CASE at[current] = "empty"
      <4>1. /\ pc = "watch" /\ pc' = "next" /\ resolved' = resolved /\ current \in departed
            /\ UNCHANGED <<found, pending, beacons, declined, departed>>
        BY <1>5, <3>1, <3>2 DEF Watch
      <4>2. resolved => Found \subseteq pending \cup {current} \cup declined \cup departed
        BY <4>1
      <4> QED
        BY ONLY <4>1, <4>2 DEF Resolving, InHand, Found, OnBoard, OnBeacon, BeaconPhase,
           Restarting
    <3>3. CASE at[current] # "empty"
      BY <1>5, <3>3 DEF Watch, Unresolved
    <3> QED
      BY <3>2, <3>3
  <2>5. Recovering'
    BY <1>5, <2>1 DEF Watch, Unresolved
  <2>6. OnlyWithConsent'
    BY <1>5, <2>1 DEF Watch, Unresolved
  <2>7. BlankStays'
    BY <1>5, <2>1 DEF Watch, Unresolved
  <2> QED
    BY <2>1, <2>2, <2>3, <2>4, <2>5, <2>6, <2>7
<1> QED
  BY <1>1, <1>2, <1>3, <1>4, <1>5

\* A Beacon is written after its prompt, and watched until it is back.
LEMMA BeaconStep ==
  ASSUME Parameters, RebootInv, NextBeacon \/ Ask \/ Flash \/ WatchLeft \/ WatchApplication
  PROVE  RebootInv'
<1> USE DEF Parameters, RebootInv, TypeOK, Visiting, Records, Resolving, Recovering, OnlyWithConsent, BlankStays, 
        InHand, Found, Searching, OnBoard, OnBeacon, BeaconPhase, Restarting, Back, NoRecord, Goto, bus, visit, ghosts,
        Bootloaders, Serial, Kinds, States, Steps, Options, NoKind
<1>1. CASE NextBeacon
  <2>1. TypeOK'
    <3>1. resolved' \in BOOLEAN
      BY <1>1 DEF NextBeacon, Unresolved
    <3> QED
      BY <1>1, <3>1 DEF NextBeacon, Unresolved
  <2>2. Visiting'
    BY <1>1, <2>1 DEF NextBeacon, Unresolved
  <2>3. Records'
    BY <1>1, <2>1 DEF NextBeacon, Unresolved
  <2>4. Resolving'
    BY <1>1, <2>1 DEF NextBeacon, Unresolved
  <2>5. Recovering'
    BY <1>1, <2>1 DEF NextBeacon, Unresolved
  <2>6. OnlyWithConsent'
    BY <1>1, <2>1 DEF NextBeacon, Unresolved
  <2>7. BlankStays'
    BY <1>1, <2>1 DEF NextBeacon, Unresolved
  <2> QED
    BY <2>1, <2>2, <2>3, <2>4, <2>5, <2>6, <2>7
<1>2. CASE Ask
  <2>1. TypeOK'
    BY <1>2 DEF Ask, Accept, Decline
  <2>2. Visiting'
    BY <1>2, <2>1 DEF Ask, Accept, Decline
  <2>3. Records'
    BY <1>2, <2>1 DEF Ask, Accept, Decline
  <2>4. Resolving'
    BY <1>2, <2>1 DEF Ask, Accept, Decline
  <2>5. Recovering'
    BY <1>2, <2>1 DEF Ask, Accept, Decline
  <2>6. OnlyWithConsent'
    BY <1>2, <2>1 DEF Ask, Accept, Decline
  <2>7. BlankStays'
    BY <1>2, <2>1 DEF Ask, Accept, Decline
  <2> QED
    BY <2>1, <2>2, <2>3, <2>4, <2>5, <2>6, <2>7
<1>3. CASE Flash
  <2>1. TypeOK'
    <3>1. resolved' \in BOOLEAN
      BY <1>3 DEF Flash, Unresolved
    <3>2. flash' \in [Places -> {"application", "partial", "blank"}]
      <4>1. flash' \in {flash, [flash EXCEPT ![current] = "application"],
                        [flash EXCEPT ![current] = "partial"]}
        BY <1>3 DEF Flash
      <4> QED
        BY <4>1
    <3>3. written' \subseteq Places /\ pc' \in Steps
      BY <1>3 DEF Flash
    <3> QED
      BY <1>3, <3>1, <3>2, <3>3 DEF Flash
  <2>2. Visiting'
    BY <1>3, <2>1 DEF Flash, Unresolved
  <2>3. Records'
    BY <1>3, <2>1 DEF Flash, Unresolved
  <2>4. Resolving'
    BY <1>3, <2>1 DEF Flash, Unresolved
  <2>5. Recovering'
    BY <1>3, <2>1 DEF Flash, Unresolved
  <2>6. OnlyWithConsent'
    BY <1>3, <2>1 DEF Flash, Unresolved
  <2>7. BlankStays'
    BY <1>3, <2>1 DEF Flash, Unresolved
  <2> QED
    BY <2>1, <2>2, <2>3, <2>4, <2>5, <2>6, <2>7
<1>4. CASE WatchLeft
  <2>1. TypeOK'
    BY <1>4 DEF WatchLeft, Unresolved
  <2>2. Visiting'
    BY <1>4, <2>1 DEF WatchLeft, Unresolved
  <2>3. Records'
    BY <1>4, <2>1 DEF WatchLeft, Unresolved
  <2>4. Resolving'
    BY <1>4, <2>1 DEF WatchLeft, Unresolved
  <2>5. Recovering'
    BY <1>4, <2>1 DEF WatchLeft, Unresolved
  <2>6. OnlyWithConsent'
    BY <1>4, <2>1 DEF WatchLeft, Unresolved
  <2>7. BlankStays'
    BY <1>4, <2>1 DEF WatchLeft, Unresolved
  <2> QED
    BY <2>1, <2>2, <2>3, <2>4, <2>5, <2>6, <2>7
<1>5. CASE WatchApplication
  <2>1. TypeOK'
    BY <1>5 DEF WatchApplication, Unresolved
  <2>2. Visiting'
    BY <1>5, <2>1 DEF WatchApplication, Unresolved
  <2>3. Records'
    BY <1>5, <2>1 DEF WatchApplication, Unresolved
  <2>4. Resolving'
    BY <1>5, <2>1 DEF WatchApplication, Unresolved
  <2>5. Recovering'
    BY <1>5, <2>1 DEF WatchApplication, Unresolved
  <2>6. OnlyWithConsent'
    BY <1>5, <2>1 DEF WatchApplication, Unresolved
  <2>7. BlankStays'
    BY <1>5, <2>1 DEF WatchApplication, Unresolved
  <2> QED
    BY <2>1, <2>2, <2>3, <2>4, <2>5, <2>6, <2>7
<1> QED
  BY <1>1, <1>2, <1>3, <1>4, <1>5

\* Klipper is restarted after it was read as stopped.
LEMMA KlipperStep ==
  ASSUME Parameters, RebootInv, ReadState \/ AskRestart \/ SendRestart
  PROVE  RebootInv'
<1> USE DEF Parameters, RebootInv, TypeOK, Visiting, Records, Resolving, Recovering, OnlyWithConsent, BlankStays, 
        InHand, Found, Searching, OnBoard, OnBeacon, BeaconPhase, Restarting, Back, NoRecord, Goto, bus, visit, ghosts,
        Bootloaders, Serial, Kinds, States, Steps, Options, NoKind
<1>1. CASE ReadState
  <2>1. TypeOK'
    BY <1>1 DEF ReadState, Exit
  <2>2. Visiting'
    BY <1>1, <2>1 DEF ReadState, Exit
  <2>3. Records'
    BY <1>1, <2>1 DEF ReadState, Exit
  <2>4. Resolving'
    BY <1>1, <2>1 DEF ReadState, Exit
  <2>5. Recovering'
    BY <1>1, <2>1 DEF ReadState, Exit
  <2>6. OnlyWithConsent'
    BY <1>1, <2>1 DEF ReadState, Exit
  <2>7. BlankStays'
    BY <1>1, <2>1 DEF ReadState, Exit
  <2> QED
    BY <2>1, <2>2, <2>3, <2>4, <2>5, <2>6, <2>7
<1>2. CASE AskRestart
  <2>1. TypeOK'
    BY <1>2 DEF AskRestart, Exit
  <2>2. Visiting'
    BY <1>2, <2>1 DEF AskRestart, Exit
  <2>3. Records'
    BY <1>2, <2>1 DEF AskRestart, Exit
  <2>4. Resolving'
    BY <1>2, <2>1 DEF AskRestart, Exit
  <2>5. Recovering'
    BY <1>2, <2>1 DEF AskRestart, Exit
  <2>6. OnlyWithConsent'
    BY <1>2, <2>1 DEF AskRestart, Exit
  <2>7. BlankStays'
    BY <1>2, <2>1 DEF AskRestart, Exit
  <2> QED
    BY <2>1, <2>2, <2>3, <2>4, <2>5, <2>6, <2>7
<1>3. CASE SendRestart
  <2>1. TypeOK'
    BY <1>3 DEF SendRestart, Exit
  <2>2. Visiting'
    BY <1>3, <2>1 DEF SendRestart, Exit
  <2>3. Records'
    BY <1>3, <2>1 DEF SendRestart, Exit
  <2>4. Resolving'
    BY <1>3, <2>1 DEF SendRestart, Exit
  <2>5. Recovering'
    BY <1>3, <2>1 DEF SendRestart, Exit
  <2>6. OnlyWithConsent'
    BY <1>3, <2>1 DEF SendRestart, Exit
  <2>7. BlankStays'
    BY <1>3, <2>1 DEF SendRestart, Exit
  <2> QED
    BY <2>1, <2>2, <2>3, <2>4, <2>5, <2>6, <2>7
<1> QED
  BY <1>1, <1>2, <1>3

\* Boards that come, go and restart do it to themselves.
LEMMA WorldStep ==
  ASSUME Parameters, RebootInv, World
  PROVE  RebootInv'
<1> USE DEF Parameters, RebootInv, TypeOK, Visiting, Records, Resolving, Recovering, OnlyWithConsent, BlankStays, 
        InHand, Found, Searching, OnBoard, OnBeacon, BeaconPhase, Restarting, Back, NoRecord, Goto, bus, visit, ghosts,
        Bootloaders, Serial, Kinds, States, Steps, Options, NoKind
<1>1. ASSUME NEW p \in Places, Restarts(p) PROVE RebootInv'
  <2>1. TypeOK'
    BY <1>1 DEF Restarts, Goes
  <2>2. Visiting'
    BY <1>1, <2>1 DEF Restarts, Goes
  <2>3. Records'
    BY <1>1, <2>1 DEF Restarts, Goes
  <2>4. Resolving'
    BY <1>1, <2>1 DEF Restarts, Goes
  <2>5. Recovering'
    BY <1>1, <2>1 DEF Restarts, Goes
  <2>6. OnlyWithConsent'
    BY <1>1, <2>1 DEF Restarts, Goes
  <2>7. BlankStays'
    BY <1>1, <2>1 DEF Restarts, Goes
  <2> QED
    BY <2>1, <2>2, <2>3, <2>4, <2>5, <2>6, <2>7
<1>2. ASSUME NEW p \in Places, Returns(p) PROVE RebootInv'
  <2>1. TypeOK'
    BY <1>2 DEF Returns, Comes, Free
  <2>2. Visiting'
    BY <1>2, <2>1 DEF Returns, Comes, Free
  <2>3. Records'
    BY <1>2, <2>1 DEF Returns, Comes, Free
  <2>4. Resolving'
    BY <1>2, <2>1 DEF Returns, Comes, Free
  <2>5. Recovering'
    BY <1>2, <2>1 DEF Returns, Comes, Free
  <2>6. OnlyWithConsent'
    BY <1>2, <2>1 DEF Returns, Comes, Free
  <2>7. BlankStays'
    BY <1>2, <2>1 DEF Returns, Comes, Free
  <2> QED
    BY <2>1, <2>2, <2>3, <2>4, <2>5, <2>6, <2>7
<1>3. ASSUME NEW p \in Places, Unplugged(p) PROVE RebootInv'
  <2>1. TypeOK'
    BY <1>3 DEF Unplugged, Goes
  <2>2. Visiting'
    BY <1>3, <2>1 DEF Unplugged, Goes
  <2>3. Records'
    BY <1>3, <2>1 DEF Unplugged, Goes
  <2>4. Resolving'
    BY <1>3, <2>1 DEF Unplugged, Goes
  <2>5. Recovering'
    BY <1>3, <2>1 DEF Unplugged, Goes
  <2>6. OnlyWithConsent'
    BY <1>3, <2>1 DEF Unplugged, Goes
  <2>7. BlankStays'
    BY <1>3, <2>1 DEF Unplugged, Goes
  <2> QED
    BY <2>1, <2>2, <2>3, <2>4, <2>5, <2>6, <2>7
<1>4. ASSUME NEW p \in Places, Plugged(p) PROVE RebootInv'
  <2>1. TypeOK'
    BY <1>4 DEF Plugged, Comes, Free
  <2>2. Visiting'
    BY <1>4, <2>1 DEF Plugged, Comes, Free
  <2>3. Records'
    BY <1>4, <2>1 DEF Plugged, Comes, Free
  <2>4. Resolving'
    BY <1>4, <2>1 DEF Plugged, Comes, Free
  <2>5. Recovering'
    BY <1>4, <2>1 DEF Plugged, Comes, Free
  <2>6. OnlyWithConsent'
    BY <1>4, <2>1 DEF Plugged, Comes, Free
  <2>7. BlankStays'
    BY <1>4, <2>1 DEF Plugged, Comes, Free
  <2> QED
    BY <2>1, <2>2, <2>3, <2>4, <2>5, <2>6, <2>7
<1>5. CASE KlippyChanges
  <2>1. TypeOK'
    BY <1>5 DEF KlippyChanges
  <2>2. Visiting'
    BY <1>5, <2>1 DEF KlippyChanges
  <2>3. Records'
    BY <1>5, <2>1 DEF KlippyChanges
  <2>4. Resolving'
    BY <1>5, <2>1 DEF KlippyChanges
  <2>5. Recovering'
    BY <1>5, <2>1 DEF KlippyChanges
  <2>6. OnlyWithConsent'
    BY <1>5, <2>1 DEF KlippyChanges
  <2>7. BlankStays'
    BY <1>5, <2>1 DEF KlippyChanges
  <2> QED
    BY <2>1, <2>2, <2>3, <2>4, <2>5, <2>6, <2>7
<1> QED
  BY <1>1, <1>2, <1>3, <1>4, <1>5 DEF World

\* Every step of the command and of the world around it.
LEMMA RebootStep ==
  ASSUME Parameters, RebootInv, Next
  PROVE  RebootInv'
<1>1. CASE Done
  BY <1>1 DEF Done, vars, bus, visit, ghosts, RebootInv, TypeOK, Visiting, Records, Resolving,
     Recovering, OnlyWithConsent, BlankStays, InHand, Found, Back
<1>2. CASE Command
  BY <1>2, SearchStep, BoardStep, BeaconStep, KlipperStep DEF Command
<1> QED
  BY <1>1, <1>2, WorldStep DEF Next

\* A step of nothing.
LEMMA RebootStutters ==
  ASSUME RebootInv, UNCHANGED vars
  PROVE  RebootInv'
  BY DEF vars, bus, visit, ghosts, RebootInv, TypeOK, Visiting, Records, Resolving,
     Recovering, OnlyWithConsent, BlankStays, InHand, Found, Back

\* What the invariant says of an end.  One Beacon is either recovered or not;
\* of several, Klipper is restarted for the first that is.
LEMMA RebootPromises ==
  ASSUME RebootInv
  PROVE  /\ SuccessIsHonest /\ RestartHasReason
         /\ pc = "success" \/ (\A p, q \in Places : p = q) => RecoveredIsWhole
<1> USE DEF RebootInv
<1>1. SuccessIsHonest
  <2>1. pc = "success" => Found \cup beacons \subseteq declined \cup departed
    BY DEF Resolving
  <2> QED
    BY <2>1 DEF SuccessIsHonest, Found
<1>2. RestartHasReason
  BY DEF Recovering, RestartHasReason
<1>3. ASSUME pc = "success" PROVE RecoveredIsWhole
  BY <1>3 DEF Resolving, Recovering, RecoveredIsWhole, Back, InHand
<1>4. ASSUME \A p, q \in Places : p = q PROVE RecoveredIsWhole
  <2>1. CASE restarted
    <3>1. \E p \in written : Back(p)
      BY <2>1 DEF Recovering
    <3>2. \A p \in written : Back(p)
      BY <1>4, <3>1 DEF TypeOK
    <3> QED
      BY <3>2 DEF RecoveredIsWhole, Back
  <2>2. CASE ~restarted
    BY <1>3, <2>2 DEF RecoveredIsWhole
  <2> QED
    BY <2>1, <2>2
<1> QED
  BY <1>1, <1>2, <1>3, <1>4

================================================================================

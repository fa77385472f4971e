------------------------- MODULE Bootloaders_proofs -------------------------
(***************************************************************************)
(* Proofs about Bootloaders: for every MCU and image, every board and      *)
(* every link, an image is written only where it can run and started only  *)
(* when it is whole, and a flash keeps the contract that a run relies on.  *)
(***************************************************************************)
EXTENDS Bootloaders, TLAPS

-----------------------------------------------------------------------------
(* The way to a bootloader. *)

Own == image.form \in {"build", "file"}

\* What Begin let through.
Way ==
    /\ mcu.transport # "none"
    /\ Own => ~mcu.host
    /\ image.form = "prebuilt" =>
         \/ mcu.transport = "usb"
         \/ mcu.transport = "can" /\ image.links = "usb_or_can"
    /\ image.form = "beacon" => mcu.transport = "usb"

\* The MCU is looked for at a USB topology.
Looked == mcu.transport = "usb" \/ (mcu.transport = "can" /\ Route!Bridge)

\* A file that an STM32 in DFU is asked about.
Asking == image.form = "file" /\ mcu.transport = "usb" /\ mcu.enters = "stm32"
          /\ image.expected # None

\* The address is one where the image is to be.
Aimed ==
    /\ target \in Route!Starts
    /\ image.form = "build" => target = image.linked
    /\ image.form = "file" /\ ~image.force /\ mcu.transport = "usb"
       /\ mcu.enters = "stm32" /\ allRead => target = mcu.runs

\* The backend that was selected is for this bootloader and this image.
Chosen ==
    CASE image.form = "prebuilt" -> mcu.enters = "katapult"
      [] image.form = "beacon" -> mcu.enters = "beacon" /\ mcu.id = image.id
      [] OTHER -> \/ mcu.enters = "katapult"
                  \/ /\ mcu.enters \in {"stm32", "picoboot", "samba"}
                     /\ Aimed \/ (target = None /\ Asking)

Settled ==
    Looked /\ Chosen /\ (target = None => \/ mcu.enters = "katapult"
                                         \/ image.form = "beacon")

\* Where a flash is, and what was settled on its way there.
OnItsWay ==
    /\ pc # "end" => written = None /\ told = None
    /\ image.form = "build" => image.linked = mcu.runs
    /\ pc \in {"begin", "install", "ask", "observe", "select"} => target = None
    /\ pc = "install" => Own /\ mcu.host
    /\ pc \notin {"begin", "install", "end"} => Way
    /\ pc \in {"observe", "select", "access", "probe", "leave"} => Looked
    /\ pc \in {"select", "access"} /\ image.form = "beacon" => mcu.enters = "beacon"
    /\ pc = "access" => Chosen /\ mcu.enters # "katapult"
    /\ pc \in {"probe", "leave"} => Asking
    /\ pc = "leave" => probed \in mcu.looks
    /\ pc = "open" => mcu.transport = "uart" \/ Settled
    /\ pc = "confirm" => mcu.transport = "uart"
    /\ pc = "assign" => mcu.transport = "can" /\ ~Route!Bridge
    /\ pc = "transfer" =>
         \/ mcu.transport = "uart" /\ mcu.enters = "katapult"
         \/ mcu.transport = "can" /\ ~Route!Bridge
         \/ Settled

RouteSafe ==
    /\ Route!WrittenWhereLinked /\ Route!UnforcedFileStays
    /\ Route!OnlyItsBootloader /\ Route!ToldIsRunnable

RouteInv == Route!TypeOK /\ OnItsWay /\ RouteSafe

\* What the parameters of an instance say of its MCUs and images.
LEMMA RouteFacts ==
  ASSUME mcu \in Mcus, image \in RouteImages
  PROVE  /\ Top \in Nat \ {0} /\ MaxPolls \in Nat /\ None \notin Route!Starts
         /\ None \notin [start : Route!Starts, whole : BOOLEAN]
         /\ mcu.start \in {None, mcu.runs} /\ mcu.runs \in Route!Starts
         /\ mcu.runs \in mcu.looks /\ mcu.looks \subseteq Route!Starts
         /\ mcu.enters = "samba" /\ mcu.start = None => mcu.runs = 1
         /\ mcu.transport \in {"none", "usb", "uart", "can"}
         /\ mcu.enters \in {"katapult", "stm32", "picoboot", "samba", "beacon",
                            "other", "application"}
         /\ image.form \in {"build", "file", "prebuilt", "beacon"}
         /\ image.linked \in Route!Starts
         /\ image.expected \in Route!Starts \cup {None}
         /\ image.plausible \subseteq Route!Starts
<1>1. Route!Truthful(mcu) /\ Route!Readable(image)
  BY Instances DEF Route!Routes
<1>2. /\ mcu.transport \in {"none", "usb", "uart", "can"} /\ mcu.runs \in Route!Starts
      /\ mcu.looks \subseteq Route!Starts
      /\ mcu.enters \in {"katapult", "stm32", "picoboot", "samba", "beacon",
                         "other", "application"}
  BY <1>1 DEF Route!Truthful, Route!Mcu, Route!Bootloaders
<1>3. /\ image.form \in {"build", "file", "prebuilt", "beacon"}
      /\ image.linked \in Route!Starts
      /\ image.expected \in Route!Starts \cup {None}
      /\ image.plausible \subseteq Route!Starts
  BY <1>1 DEF Route!Readable, Route!Image
<1> QED
  BY <1>1, <1>2, <1>3, Instances DEF Route!Routes, Route!Truthful

\* What a step that writes nothing leaves true.
LEMMA RouteQuiet ==
  ASSUME RouteSafe, UNCHANGED <<mcu, image, written, told, allRead>>
  PROVE  RouteSafe'
BY DEF RouteSafe, Route!WrittenWhereLinked, Route!UnforcedFileStays,
   Route!OnlyItsBootloader, Route!ToldIsRunnable, Route!Bootloaders

\* A flash begins with nothing settled.
LEMMA RouteInit == Route!Init => RouteInv
<1> SUFFICES ASSUME Route!Init PROVE RouteInv
  OBVIOUS
<1>1. Route!TypeOK
  <2>1. mcu \in Mcus /\ image \in RouteImages
    BY DEF Route!Init
  <2>2. polls \in 0..MaxPolls
    BY <2>1, RouteFacts DEF Route!Init
  <2>3. outcome = "none" <=> pc # "end"
    BY DEF Route!Init
  <2> QED
    BY <2>1, <2>2, <2>3 DEF Route!Init, Route!TypeOK, Route!Steps
<1>2. OnItsWay
  BY DEF Route!Init, OnItsWay
<1>3. RouteSafe
  BY DEF Route!Init, RouteSafe, Route!WrittenWhereLinked,
     Route!UnforcedFileStays, Route!OnlyItsBootloader, Route!ToldIsRunnable
<1> QED
  BY <1>1, <1>2, <1>3 DEF RouteInv

\* A session that is answered writes at an address, by a way that was settled.
LEMMA Reached ==
  ASSUME RouteInv, pc = "transfer", Route!Answers
  PROVE  /\ mcu.enters = "katapult" \/ Settled
         /\ Settled /\ mcu.enters # "katapult" /\ image.form # "beacon" =>
              /\ Aimed /\ image.form \in {"build", "file"}
              /\ mcu.enters \in {"stm32", "picoboot", "samba"}
         /\ Route!Destination \in Route!Starts
<1>1. /\ mcu.runs \in Route!Starts
      /\ image.form \in {"build", "file", "prebuilt", "beacon"}
  BY RouteFacts DEF RouteInv, Route!TypeOK
<1>2. mcu.enters = "katapult" \/ Settled
  BY DEF RouteInv, OnItsWay, Route!Answers, Route!Katapult
<1>3. Settled /\ mcu.enters # "katapult" /\ image.form # "beacon" =>
        /\ Aimed /\ image.form \in {"build", "file"}
        /\ mcu.enters \in {"stm32", "picoboot", "samba"}
  BY <1>1 DEF Settled, Chosen
<1> QED
  BY <1>1, <1>2, <1>3 DEF Route!Destination, Route!Katapult, Aimed

\* Every step of a flash, or of the board, keeps to its way.
LEMMA RouteStep ==
  ASSUME RouteInv, Route!Next
  PROVE  RouteInv'
<1> USE DEF Route!given, Route!places, Route!effects
<1>1. /\ UNCHANGED <<mcu, image>> /\ mcu \in Mcus /\ image \in RouteImages
  BY DEF RouteInv, Route!TypeOK, Route!Next, Route!Host, Route!BoardMoves,
     Route!Begin, Route!InstallHost, Route!AskUsb, Route!AskUart, Route!AskCan,
     Route!Observe, Route!Select, Route!Access, Route!Probe, Route!Leave,
     Route!Open, Route!Confirm, Route!Assign, Route!Transfer
<1>2. CASE Route!BoardMoves
  BY <1>1, <1>2, RouteQuiet DEF RouteInv, Route!BoardMoves, Route!TypeOK,
     Route!Appears, OnItsWay, Way, Looked, Settled, Chosen, Aimed, Asking, Own,
     Route!Bridge
<1>3. CASE Route!Begin
  <2>1. /\ UNCHANGED <<mcu, image, polls, at, asked, target, probed, allRead,
                       written, told>>
        /\ pc = "begin"
        /\ \/ Own /\ mcu.host /\ Route!Goto("install")
           \/ pc' = "end" /\ outcome' \in {"no_transport", "link_refused"}
           \/ Way /\ Route!Goto("ask")
    BY <1>1, <1>3, RouteFacts DEF Route!Begin, Own, Way, Route!End, Route!Goto
  <2>2. Route!TypeOK'
    BY <1>1, <2>1 DEF RouteInv, Route!TypeOK, Route!Goto, Route!Steps, Route!Unasked
  <2>3. OnItsWay'
    BY <1>1, <2>1 DEF RouteInv, OnItsWay, Way, Own, Route!Goto
  <2> QED
    BY <1>1, <2>1, <2>2, <2>3, RouteQuiet DEF RouteInv
<1>4. CASE Route!InstallHost
  <2>1. /\ UNCHANGED <<mcu, image, polls, at, asked, target, probed, allRead, told>>
        /\ pc = "install" /\ pc' = "end" /\ outcome' \in {"success", "host"}
        /\ written' # None =>
             /\ written'.start = image.linked
             /\ written' \in [start : Route!Starts, whole : BOOLEAN]
    <3>1. image.linked \in Route!Starts
      BY <1>1, RouteFacts
    <3>2. \/ written' = None
          \/ \E w \in BOOLEAN : written' = [start |-> image.linked, whole |-> w]
      BY <1>4 DEF Route!InstallHost
    <3>3. written' # None => /\ written'.start = image.linked
                             /\ written' \in [start : Route!Starts, whole : BOOLEAN]
      BY <3>1, <3>2
    <3> QED
      BY <1>1, <1>4, <3>3 DEF Route!InstallHost, Route!End
  <2>2. /\ image.form = "build" => image.linked = mcu.runs
        /\ Own /\ mcu.host /\ told = None
    BY <2>1 DEF RouteInv, OnItsWay
  <2>3. Route!TypeOK'
    BY <1>1, <2>1 DEF RouteInv, Route!TypeOK, Route!Steps
  <2>4. OnItsWay'
    BY <1>1, <2>1, <2>2 DEF OnItsWay
  <2>5. RouteSafe'
    BY <1>1, <2>1, <2>2 DEF RouteSafe, Own, Route!WrittenWhereLinked,
       Route!UnforcedFileStays, Route!OnlyItsBootloader, Route!ToldIsRunnable
  <2> QED
    BY <2>3, <2>4, <2>5 DEF RouteInv
<1>5. CASE Route!AskUsb \/ Route!AskUart \/ Route!AskCan
  <2>1. /\ UNCHANGED <<mcu, image, polls, at, target, probed, allRead, written, told>>
        /\ pc = "ask" /\ asked' \in BOOLEAN
        /\ \/ pc' = "end" /\ outcome' \in Route!Unasked \cup Route!Unwritten
           \/ mcu.transport = "usb" /\ Route!Goto("observe")
           \/ mcu.transport = "uart" /\ Route!Goto("open")
           \/ mcu.transport = "can" /\ Route!Bridge /\ Route!Goto("observe")
           \/ mcu.transport = "can" /\ ~Route!Bridge /\ Route!Goto("assign")
    <3>1. asked \in BOOLEAN
      BY DEF RouteInv, Route!TypeOK
    <3>2. CASE Route!AskUsb
      BY <3>1, <3>2 DEF Route!AskUsb, Route!End, Route!Unasked
    <3>3. CASE Route!AskUart
      BY <3>1, <3>3 DEF Route!AskUart, Route!End, Route!Unwritten
    <3>4. CASE Route!AskCan
      BY <3>1, <3>4 DEF Route!AskCan, Route!End, Route!Goto, Route!Unasked, Route!Unwritten
    <3> QED
      BY <1>5, <3>2, <3>3, <3>4
  <2>2. Route!TypeOK'
    BY <1>1, <2>1 DEF RouteInv, Route!TypeOK, Route!Goto, Route!Steps,
       Route!Unasked, Route!Unwritten
  <2>3. OnItsWay'
    BY <1>1, <2>1 DEF RouteInv, OnItsWay, Way, Own, Looked, Route!Bridge, Route!Goto
  <2> QED
    BY <1>1, <2>1, <2>2, <2>3, RouteQuiet DEF RouteInv
<1>6. CASE Route!Observe
  <2>1. /\ UNCHANGED <<mcu, image, at, asked, target, probed, allRead, written, told>>
        /\ pc = "observe"
        /\ \/ /\ Route!Goto("select") /\ polls' = polls
              /\ image.form = "beacon" => mcu.enters = "beacon"
           \/ polls < MaxPolls /\ polls' = polls + 1 /\ Route!Goto("observe")
           \/ polls' = polls /\ pc' = "end" /\ outcome' \in Route!Unwritten
    BY <1>1, <1>6 DEF Route!Observe, Route!Ready, Route!End, Route!Unwritten
  <2>2. polls' \in 0..MaxPolls
    BY <1>1, <2>1, RouteFacts DEF RouteInv, Route!TypeOK
  <2>3. Route!TypeOK'
    BY <1>1, <2>1, <2>2 DEF RouteInv, Route!TypeOK, Route!Goto, Route!Steps,
       Route!Unwritten
  <2>4. OnItsWay'
    BY <1>1, <2>1 DEF RouteInv, OnItsWay, Way, Own, Looked, Route!Bridge, Route!Goto
  <2> QED
    BY <1>1, <2>1, <2>3, <2>4, RouteQuiet DEF RouteInv
<1>7. CASE Route!Select
  <2>1. /\ UNCHANGED <<mcu, image, polls, at, asked, probed, allRead, written, told>>
        /\ pc = "select" /\ Looked /\ Way
        /\ image.form = "beacon" => mcu.enters = "beacon"
        /\ image.form = "build" => image.linked = mcu.runs
    BY <1>1, <1>7 DEF Route!Select, RouteInv, OnItsWay
  <2>2. /\ mcu.start \in {None, mcu.runs} /\ mcu.runs \in Route!Starts
        /\ mcu.enters = "samba" /\ mcu.start = None => mcu.runs = 1
        /\ image.form \in {"build", "file", "prebuilt", "beacon"}
        /\ mcu.enters \in {"katapult", "stm32", "picoboot", "samba", "beacon",
                           "other", "application"}
        /\ image.linked \in Route!Starts /\ None \notin Route!Starts
        /\ target \in Route!Starts \cup {None} /\ 1 \in Route!Starts
    BY <1>1, RouteFacts DEF RouteInv, Route!TypeOK, Route!Starts
  <2>3. /\ target' \in Route!Starts \cup {None}
        /\ \/ pc' = "end" /\ outcome' \in Route!Unwritten
           \/ Route!Goto("open") /\ Chosen' /\ (target' = None => mcu.enters = "katapult")
           \/ Route!Goto("access") /\ Chosen' /\ mcu.enters # "katapult"
    <3>1. CASE image.form = "prebuilt"
      <4>1. Route!SelectKatapult
        BY <1>7, <3>1 DEF Route!Select
      <4> QED
        BY <1>1, <2>2, <3>1, <4>1 DEF Route!SelectKatapult, Route!End, Route!Unwritten,
           Chosen
    <3>2. CASE image.form = "beacon"
      <4>1. Route!SelectBeacon
        BY <1>7, <3>2 DEF Route!Select
      <4> QED
        BY <1>1, <2>1, <2>2, <3>2, <4>1 DEF Route!SelectBeacon, Route!End,
           Route!Unwritten, Chosen
    <3>3. CASE image.form \in {"build", "file"}
      <4>1. Route!SelectOwn
        BY <1>7, <3>3 DEF Route!Select
      <4>2. CASE mcu.enters = "katapult"
        BY <1>1, <2>2, <3>3, <4>1, <4>2 DEF Route!SelectOwn, Chosen
      <4>3. CASE mcu.enters = "stm32"
        <5>1. Route!SelectStm32
          BY <4>1, <4>3 DEF Route!SelectOwn
        <5>2. CASE image.form = "file" /\ mcu.transport = "usb"
          <6>1. /\ target' = target
                /\ IF image.expected = None THEN Route!End("unrecognized")
                   ELSE Route!Goto("access")
            BY <5>1, <5>2 DEF Route!SelectStm32
          <6>2. target = None
            BY <2>1 DEF RouteInv, OnItsWay
          <6> QED
            BY <1>1, <2>2, <4>3, <5>2, <6>1, <6>2 DEF Chosen, Asking, Route!End, Route!Unwritten
        <5>3. CASE ~(image.form = "file" /\ mcu.transport = "usb")
          BY <1>1, <2>1, <2>2, <3>3, <4>3, <5>1, <5>3 DEF Route!SelectStm32, Chosen,
             Aimed, Route!End, Route!Unwritten, Route!Starts
        <5> QED
          BY <5>2, <5>3
      <4>4. CASE mcu.enters = "picoboot"
        BY <1>1, <2>1, <2>2, <3>3, <4>1, <4>4 DEF Route!SelectOwn, Chosen, Aimed,
           Route!Starts
      <4>5. CASE mcu.enters = "samba"
        BY <1>1, <2>1, <2>2, <3>3, <4>1, <4>5 DEF Route!SelectOwn, Route!SelectSamba,
           Route!SambaTarget, Chosen, Aimed, Route!End, Route!Unwritten, Route!Starts
      <4>6. CASE mcu.enters \in {"beacon", "other", "application"}
        BY <1>1, <2>1, <2>2, <4>1, <4>6 DEF Route!SelectOwn, Route!End, Route!Unwritten
      <4> QED
        BY <2>2, <4>2, <4>3, <4>4, <4>5, <4>6
    <3> QED
      BY <2>2, <3>1, <3>2, <3>3
  <2>4. Route!TypeOK'
    BY <1>1, <2>1, <2>3 DEF RouteInv, Route!TypeOK, Route!Goto, Route!Steps,
       Route!Unwritten
  <2>5. Looked' /\ Way'
    BY <1>1, <2>1 DEF Looked, Way, Own, Route!Bridge
  <2>6. OnItsWay'
    BY <1>1, <2>1, <2>3, <2>5 DEF RouteInv, OnItsWay, Settled, Route!Goto
  <2> QED
    BY <1>1, <2>1, <2>4, <2>6, RouteQuiet DEF RouteInv
<1>8. CASE Route!Access
  <2>1. /\ UNCHANGED <<mcu, image, polls, at, asked, target, probed, allRead, written, told>>
        /\ pc = "access" /\ Looked /\ Way /\ Chosen
        /\ mcu.enters # "katapult"
        /\ \/ pc' = "end" /\ outcome' = "access"
           \/ Route!Goto("probe") /\ target = None /\ image.form = "file"
           \/ Route!Goto("transfer") /\ ~(target = None /\ image.form = "file")
    BY <1>1, <1>8 DEF Route!Access, RouteInv, OnItsWay, Route!End
  <2>2. Route!TypeOK'
    BY <1>1, <2>1 DEF RouteInv, Route!TypeOK, Route!Goto, Route!Steps, Route!Unwritten
  <2>3. Looked' /\ Way' /\ Chosen'
    BY <1>1, <2>1 DEF Looked, Way, Own, Route!Bridge, Chosen, Aimed, Asking,
       Route!Starts
  <2>4. pc' = "probe" => Asking'
    BY <1>1, <2>1, RouteFacts DEF Chosen, Aimed, Asking, Route!Starts, Route!Goto
  <2>5. pc' = "transfer" => Settled'
    <3> SUFFICES ASSUME pc' = "transfer" PROVE Settled'
      OBVIOUS
    <3>1. target = None => image.form = "beacon"
      <4>1. target = None => image.form # "file"
        BY <2>1 DEF Route!Goto
      <4>2. ~Aimed \/ target # None
        BY <1>1, RouteFacts DEF Aimed
      <4> QED
        BY <1>1, <2>1, <4>1, <4>2, RouteFacts DEF Chosen, Asking
    <3> QED
      BY <1>1, <2>1, <2>3, <3>1 DEF Settled
  <2>6. OnItsWay'
    BY <1>1, <2>1, <2>3, <2>4, <2>5 DEF RouteInv, OnItsWay, Route!Goto
  <2> QED
    BY <1>1, <2>1, <2>2, <2>6, RouteQuiet DEF RouteInv
<1>9. CASE Route!Probe
  <2>1. /\ UNCHANGED <<mcu, image, polls, at, asked, written, told>>
        /\ pc = "probe" /\ Looked /\ Way /\ Asking
        /\ target \in Route!Starts \cup {None}
    BY <1>1, <1>9 DEF Route!Probe, RouteInv, OnItsWay, Route!TypeOK
  <2>2. /\ mcu.start \in {None, mcu.runs} /\ mcu.runs \in mcu.looks
        /\ mcu.looks \subseteq Route!Starts /\ None \notin Route!Starts
        /\ image.plausible \subseteq Route!Starts
        /\ image.expected \in Route!Starts /\ mcu.runs \in Route!Starts
        /\ image.form = "file" /\ mcu.transport = "usb" /\ mcu.enters = "stm32"
    BY <1>1, <2>1, RouteFacts DEF Asking
  <2>3. /\ allRead' \in BOOLEAN /\ probed' \in Route!Starts \cup {None}
        /\ target' \in Route!Starts \cup {None}
        /\ \/ pc' = "end" /\ outcome' \in Route!Unwritten
           \/ Route!Goto("leave") /\ probed' \in mcu.looks
           \/ Route!Goto("access") /\ Aimed'
    <3>1. CASE Route!End("stm32_probe") /\ UNCHANGED Route!places
      BY <2>1, <3>1 DEF Route!End, Route!Unwritten, RouteInv, Route!TypeOK
    <3>2. CASE ~(Route!End("stm32_probe") /\ UNCHANGED Route!places)
      <4>1. PICK read \in SUBSET Route!Starts :
              LET found == mcu.looks \cap read
                  installed == Route!Installed(found)
                  several == \E s, o \in found : s # o
              IN /\ allRead' = (mcu.looks \subseteq read)
                 /\ probed' = installed
                 /\ \/ several /\ installed = None /\ ~image.force /\ Route!End("ambiguous")
                       /\ UNCHANGED target
                    \/ /\ installed # None \/ ~several \/ image.force
                       /\ \/ Route!Mismatch(installed) /\ Route!Goto("leave") /\ UNCHANGED target
                          \/ /\ ~Route!Mismatch(installed) /\ Route!Goto("access")
                             /\ target' = IF Route!Resolved(installed) = None
                                          THEN image.expected ELSE Route!Resolved(installed)
        BY <1>9, <3>2 DEF Route!Probe
      <4> DEFINE found == mcu.looks \cap read
                 installed == Route!Installed(found)
                 several == \E s, o \in found : s # o
                 aim == IF Route!Resolved(installed) = None THEN image.expected
                        ELSE Route!Resolved(installed)
      <4>2. installed = None \/ (installed \in found /\ found = {installed})
        BY DEF Route!Installed
      <4>3. installed = None => several \/ found = {}
        BY <2>2 DEF Route!Installed
      <4>4. /\ allRead' = (mcu.looks \subseteq read) /\ probed' = installed
            /\ \/ several /\ installed = None /\ ~image.force /\ Route!End("ambiguous")
                  /\ UNCHANGED target
               \/ /\ installed # None \/ ~several \/ image.force
                  /\ \/ Route!Mismatch(installed) /\ Route!Goto("leave") /\ UNCHANGED target
                     \/ ~Route!Mismatch(installed) /\ Route!Goto("access") /\ target' = aim
        BY <4>1
      <4>5. Route!Resolved(installed) \in Route!Starts \cup {None}
        BY <2>2 DEF Route!Resolved
      <4>6. aim \in Route!Starts
        BY <2>2, <4>5
      <4>7. ~Route!Mismatch(installed) /\ installed = mcu.runs /\ ~image.force
            => aim = mcu.runs
        BY <2>2 DEF Route!Mismatch, Route!Resolved
      <4>8. Route!Mismatch(installed) => installed # None
        BY DEF Route!Mismatch
      <4>9. allRead' => mcu.runs \in found
        BY <2>2, <4>4
      <4>10. installed \in mcu.looks \cup {None}
        BY <4>2
      <4>11. allRead' \in BOOLEAN
        BY <4>4
      <4> HIDE DEF installed, several, aim, found
      <4>12. pc' = "access" /\ target' = aim /\ ~Route!Mismatch(installed)
             /\ (installed # None \/ ~several \/ image.force) => Aimed'
        <5> SUFFICES ASSUME target' = aim, ~Route!Mismatch(installed),
                            installed # None \/ ~several \/ image.force
                     PROVE  Aimed'
          OBVIOUS
        <5>1. ~image.force /\ allRead' => target' = mcu.runs
          BY <4>2, <4>3, <4>7, <4>9
        <5> QED
          BY <1>1, <2>2, <4>6, <5>1 DEF Aimed, Route!Starts
      <4>13. CASE Route!End("ambiguous") /\ UNCHANGED target
        BY <2>1, <2>2, <4>4, <4>10, <4>11, <4>13 DEF Route!End, Route!Unwritten
      <4>14. CASE Route!Mismatch(installed) /\ Route!Goto("leave") /\ UNCHANGED target
        BY <2>1, <2>2, <4>4, <4>8, <4>10, <4>11, <4>14
      <4>15. CASE ~Route!Mismatch(installed) /\ Route!Goto("access") /\ target' = aim
                  /\ (installed # None \/ ~several \/ image.force)
        BY <2>1, <2>2, <4>4, <4>6, <4>10, <4>11, <4>12, <4>15 DEF Route!Goto
      <4> QED
        BY <4>4, <4>13, <4>14, <4>15
    <3> QED
      BY <3>1, <3>2
  <2>4. Route!TypeOK'
    BY <1>1, <2>1, <2>3 DEF RouteInv, Route!TypeOK, Route!Goto, Route!Steps,
       Route!Unwritten
  <2>5. Looked' /\ Way' /\ Asking'
    BY <1>1, <2>1 DEF Looked, Way, Own, Route!Bridge, Asking
  <2>6. pc' = "access" => Chosen'
    BY <1>1, <2>2, <2>3 DEF Chosen, Route!Goto
  <2>7. OnItsWay'
    BY <1>1, <2>1, <2>2, <2>3, <2>5, <2>6 DEF RouteInv, OnItsWay, Route!Goto
  <2>8. RouteSafe'
    BY <1>1, <2>1 DEF RouteInv, OnItsWay, RouteSafe, Route!WrittenWhereLinked,
       Route!UnforcedFileStays, Route!OnlyItsBootloader, Route!ToldIsRunnable
  <2> QED
    BY <2>4, <2>7, <2>8 DEF RouteInv
<1>10. CASE Route!Leave
  <2>1. /\ UNCHANGED <<mcu, image, polls, at, asked, target, probed, allRead, written>>
        /\ pc = "leave" /\ pc' = "end" /\ outcome' \in {"mismatch", "mismatch_recovery"}
        /\ told' \in {None, probed} /\ probed \in mcu.looks /\ written = None
        /\ probed \in Route!Starts \cup {None}
    BY <1>1, <1>10 DEF Route!Leave, RouteInv, OnItsWay, Route!End, Route!TypeOK
  <2>2. Route!TypeOK'
    BY <1>1, <2>1 DEF RouteInv, Route!TypeOK, Route!Steps, Route!Unwritten
  <2>3. OnItsWay'
    BY <1>1, <2>1 DEF RouteInv, OnItsWay
  <2>4. RouteSafe'
    BY <1>1, <2>1 DEF RouteSafe, Route!WrittenWhereLinked,
       Route!UnforcedFileStays, Route!OnlyItsBootloader, Route!ToldIsRunnable
  <2> QED
    BY <2>2, <2>3, <2>4 DEF RouteInv
<1>11. CASE Route!Open \/ Route!Confirm \/ Route!Assign
  <2>1. /\ UNCHANGED <<mcu, image, polls, at, asked, target, probed, allRead, written, told>>
        /\ \/ pc' = "end" /\ outcome' \in Route!Unwritten
           \/ pc = "open" /\ mcu.transport = "uart" /\ Route!Goto("confirm")
           \/ pc = "open" /\ mcu.transport # "uart" /\ Route!Goto("transfer")
           \/ pc = "confirm" /\ mcu.enters = "katapult" /\ Route!Goto("transfer")
           \/ pc = "assign" /\ Route!Goto("transfer")
        /\ pc \in {"open", "confirm", "assign"}
    BY <1>1, <1>11 DEF Route!Open, Route!Confirm, Route!Assign, Route!End,
       Route!Goto, Route!Unwritten
  <2>2. Route!TypeOK'
    BY <1>1, <2>1 DEF RouteInv, Route!TypeOK, Route!Goto, Route!Steps, Route!Unwritten
  <2>3. Way' /\ (Settled => Settled') /\ Route!Bridge' = Route!Bridge
    BY <1>1, <2>1 DEF RouteInv, OnItsWay, Settled, Looked, Way, Own, Route!Bridge,
       Chosen, Aimed, Asking, Route!Starts
  <2>4. OnItsWay'
    BY <1>1, <2>1, <2>3 DEF RouteInv, OnItsWay, Route!Goto
  <2> QED
    BY <1>1, <2>1, <2>2, <2>4, RouteQuiet DEF RouteInv
<1>12. CASE Route!Transfer
  <2> DEFINE D == Route!Destination
  <2>1. /\ UNCHANGED <<mcu, image, polls, at, asked, target, probed, allRead>>
        /\ pc = "transfer" /\ Way /\ written = None /\ told = None
        /\ image.form = "build" => image.linked = mcu.runs
        /\ \/ mcu.transport = "uart" /\ mcu.enters = "katapult"
           \/ mcu.transport = "can" /\ ~Route!Bridge
           \/ Settled
    BY <1>1, <1>12 DEF Route!Transfer, RouteInv, OnItsWay
  <2>2. /\ pc' = "end" /\ outcome' \in {"success", "transfer", "start_mismatch"}
        /\ \/ Route!Answers /\ Route!Admits /\ written' = [start |-> D, whole |-> TRUE]
              /\ told' \in {None, D}
           \/ Route!Answers /\ Route!Admits /\ written' = [start |-> D, whole |-> FALSE]
              /\ told' = None
           \/ written' = None /\ told' \in {None, mcu.runs}
    BY <1>12, <2>1 DEF Route!Transfer, Route!End
  <2>3. /\ None \notin Route!Starts /\ mcu.runs \in Route!Starts
        /\ None \notin [start : Route!Starts, whole : BOOLEAN]
        /\ mcu.runs \in mcu.looks
        /\ image.form \in {"build", "file", "prebuilt", "beacon"}
    BY <1>1, RouteFacts
  <2>4. Route!Answers => \/ mcu.enters = "katapult"
                         \/ Settled
    BY <2>1, Reached
  <2>5. Route!Answers /\ Settled /\ mcu.enters # "katapult" /\ image.form # "beacon" =>
          /\ Aimed /\ image.form \in {"build", "file"}
          /\ mcu.enters \in {"stm32", "picoboot", "samba"}
    BY <2>1, Reached
  <2>6. Route!Answers => D \in Route!Starts
    BY <2>1, Reached
  <2>7. image.form = "beacon" /\ Route!Answers => mcu.enters = "beacon" /\ mcu.id = image.id
    BY <2>1, <2>4 DEF Way, Settled, Chosen, Route!Bridge
  <2>8. image.form = "prebuilt" /\ Route!Answers => mcu.enters = "katapult"
    BY <2>4 DEF Settled, Chosen
  <2>9. Route!Answers /\ Route!Admits /\ image.form \in {"build", "prebuilt"}
        => D = image.linked
    BY <2>1, <2>4, <2>5, <2>8 DEF Route!Destination, Route!Katapult, Route!Admits, Aimed
  <2>10. Route!Answers /\ allRead /\ image.form = "file" /\ ~image.force
         /\ mcu.transport = "usb" /\ mcu.enters = "stm32" => D = mcu.runs
    BY <2>4, <2>5 DEF Route!Destination, Route!Katapult, Aimed
  <2> HIDE DEF D
  <2>11. /\ written' # None =>
              /\ Route!Answers /\ Route!Admits /\ written'.start = D
              /\ written' \in [start : Route!Starts, whole : BOOLEAN]
         /\ told' # None => \/ written' = None /\ told' \in mcu.looks
                            \/ written' # None /\ written'.whole /\ written'.start = told'
         /\ told' \in Route!Starts \cup {None}
    <3>1. CASE written' = None
      <4>1. Route!Answers => \A w \in BOOLEAN : [start |-> D, whole |-> w] # None
        <5>1. \A s \in Route!Starts : \A w \in BOOLEAN :
                [start |-> s, whole |-> w] \in [start : Route!Starts, whole : BOOLEAN]
          OBVIOUS
        <5> QED
          BY <2>3, <2>6, <5>1
      <4>2. told' \in {None, mcu.runs}
        BY <2>2, <3>1, <4>1
      <4> QED
        BY <2>3, <3>1, <4>2
    <3>2. CASE written' # None
      <4>1. PICK w \in BOOLEAN : written' = [start |-> D, whole |-> w]
        BY <2>2, <3>2
      <4>2. Route!Answers /\ Route!Admits /\ D \in Route!Starts /\ told' \in {None, D}
        BY <2>2, <2>6, <3>2
      <4>3. told' # None => written'.whole
        BY <2>2, <2>3, <3>2
      <4> QED
        BY <2>3, <3>2, <4>1, <4>2, <4>3
    <3> QED
      BY <3>1, <3>2
  <2>12. Route!TypeOK'
    BY <1>1, <2>1, <2>2, <2>11 DEF RouteInv, Route!TypeOK, Route!Steps, Route!Unwritten
  <2>13. OnItsWay'
    BY <1>1, <2>1, <2>2 DEF OnItsWay
  <2>14. RouteSafe'
    <3>1. Route!WrittenWhereLinked' /\ Route!UnforcedFileStays'
      BY <1>1, <2>1, <2>9, <2>10, <2>11 DEF Route!WrittenWhereLinked,
         Route!UnforcedFileStays
    <3>2. Route!OnlyItsBootloader'
      BY <1>1, <2>1, <2>3, <2>4, <2>5, <2>7, <2>8, <2>11 DEF Route!OnlyItsBootloader,
         Route!Bootloaders, Way
    <3>3. Route!ToldIsRunnable'
      BY <1>1, <2>11 DEF Route!ToldIsRunnable
    <3> QED
      BY <3>1, <3>2, <3>3 DEF RouteSafe
  <2> QED
    BY <2>12, <2>13, <2>14 DEF RouteInv
<1> QED
  BY <1>2, <1>3, <1>4, <1>5, <1>6, <1>7, <1>8, <1>9, <1>10, <1>11, <1>12
     DEF Route!Next, Route!Host

-----------------------------------------------------------------------------
(* What a run relies on. *)

\* Backends are selected for what is there, and nothing that was asked may have
\* Klipper started again.
RouteTurn ==
    /\ pc \in {"select", "access", "probe", "leave"} => Route!Here
    /\ asked => ~Route!Restorable

\* Past its first decision no failure of a flash is restorable.
LEMMA AskedIsFinal ==
  ASSUME RouteInv, pc \notin {"begin", "install", "end"}, UNCHANGED <<mcu, image>>,
         pc' \notin {"begin", "install"}, outcome' \notin {"link_refused", "host"}
  PROVE  ~Route!Restorable /\ ~Route!Restorable'
<1>1. /\ outcome = "none"
      /\ image.form \in {"build", "file"} => ~mcu.host
  BY DEF RouteInv, OnItsWay, Way, Own, Route!TypeOK
<1> QED
  BY <1>1 DEF Route!Restorable

\* Every step of a flash or of the board keeps this, and is one that a run
\* relies on or none at all.
LEMMA RouteKeeps ==
  ASSUME RouteInv, RouteInv', RouteTurn, Route!Next
  PROVE  /\ RouteTurn'
         /\ Route!Promise!Next \/ UNCHANGED Route!Promise!vars
<1> USE DEF Route!given, Route!places, Route!effects, Route!Promise!vars
<1> DEFINE device == IF told # None THEN "restarting"
                     ELSE IF Route!Here THEN "bootloader" ELSE "application"
           firmware == IF written = None THEN "old"
                       ELSE IF written.whole THEN "new" ELSE "partial"
           result == IF outcome \in {"none", "success"} THEN outcome ELSE "failed"
<1>1. UNCHANGED <<mcu, image>>
  BY DEF Route!Next, Route!Host, Route!BoardMoves,
     Route!Begin, Route!InstallHost, Route!AskUsb, Route!AskUart, Route!AskCan,
     Route!Observe, Route!Select, Route!Access, Route!Probe, Route!Leave,
     Route!Open, Route!Confirm, Route!Assign, Route!Transfer
<1>2. pc # "end" => written = None /\ told = None /\ outcome = "none"
  BY DEF RouteInv, OnItsWay, Route!TypeOK
<1>3. /\ pc' # "end" => outcome' = "none"
      /\ pc' = "end" => outcome' # "none"
  BY DEF RouteInv, Route!TypeOK
<1>a. Route!Restorable \in BOOLEAN /\ Route!Restorable' \in BOOLEAN
  BY DEF Route!Restorable
<1>4. CASE Route!BoardMoves
  <2>1. /\ UNCHANGED <<pc, written, told, outcome, asked>> /\ asked
        /\ Route!Here => Route!Here'
    BY <1>4 DEF Route!BoardMoves, Route!Here, Route!Appears
  <2>2. UNCHANGED Route!Restorable
    BY <1>1, <2>1 DEF Route!Restorable
  <2>3. RouteTurn'
    BY <2>1, <2>2 DEF RouteTurn
  <2>4. Route!Promise!Next \/ UNCHANGED Route!Promise!vars
    BY <1>1, <2>1, <2>2 DEF RouteTurn, Route!Promise!Next, Route!Promise!Enter
  <2> QED
    BY <2>3, <2>4
<1>5. CASE Route!Begin
  <2>1. /\ UNCHANGED <<at, written, told, asked>> /\ pc = "begin"
        /\ pc' \in {"install", "ask", "end"}
        /\ pc' = "end" => outcome' \in {"no_transport", "link_refused"}
        /\ UNCHANGED Route!Here
    BY <1>5 DEF Route!Begin, Route!Goto, Route!End, Route!Here
  <2>2. Route!Restorable /\ ~asked
    BY <2>1 DEF RouteTurn, Route!Restorable
  <2>3. pc' = "install" => Route!Restorable'
    BY DEF Route!Restorable
  <2>4. pc' = "ask" => ~Route!Restorable'
    BY <1>3 DEF Route!Restorable
  <2>5. RouteTurn'
    BY <2>1, <2>2 DEF RouteTurn
  <2>6. Route!Promise!Next \/ UNCHANGED Route!Promise!vars
    BY <1>a, <1>1, <1>2, <1>3, <2>1, <2>2, <2>3, <2>4
       DEF Route!Promise!Next, Route!Promise!Ask, Route!Promise!Refuse
  <2> QED
    BY <2>5, <2>6
<1>6. CASE Route!InstallHost
  <2>1. /\ UNCHANGED <<at, told, asked>> /\ pc = "install" /\ pc' = "end"
        /\ outcome' \in {"success", "host"} /\ UNCHANGED Route!Here
        /\ outcome' = "success" => written' = [start |-> image.linked, whole |-> TRUE]
    BY <1>6 DEF Route!InstallHost, Route!End, Route!Here
  <2>2. image.form \in {"build", "file"} /\ mcu.host /\ image.linked \in Route!Starts
    BY <2>1, RouteFacts DEF RouteInv, Route!TypeOK, OnItsWay, Own
  <2>3. Route!Restorable /\ Route!Restorable' /\ ~asked
    BY <1>1, <2>1, <2>2 DEF RouteTurn, Route!Restorable
  <2>4. RouteTurn'
    BY <2>1, <2>3 DEF RouteTurn
  <2>5. outcome' = "success" => written' # None /\ written'.whole
    <3>1. [start |-> image.linked, whole |-> TRUE] \in [start : Route!Starts, whole : BOOLEAN]
      BY <2>2
    <3>2. None \notin [start : Route!Starts, whole : BOOLEAN]
      BY RouteFacts DEF RouteInv, Route!TypeOK
    <3> QED
      BY <2>1, <3>1, <3>2
  <2>6. Route!Promise!Next
    BY <1>2, <2>1, <2>3, <2>5 DEF Route!Promise!Next, Route!Promise!Install
  <2> QED
    BY <2>4, <2>6
<1>7. CASE Route!AskUsb \/ Route!AskUart \/ Route!AskCan
  <2>1. /\ UNCHANGED <<at, written, told>> /\ pc = "ask"
        /\ pc' \in {"observe", "open", "assign", "end"}
        /\ outcome' \notin {"link_refused", "host", "success"} /\ UNCHANGED Route!Here
    BY <1>2, <1>7 DEF Route!AskUsb, Route!AskUart, Route!AskCan, Route!Goto, Route!End,
       Route!Here
  <2>2. ~Route!Restorable /\ ~Route!Restorable'
    BY <1>1, <2>1, AskedIsFinal
  <2>3. RouteTurn'
    BY <2>1, <2>2 DEF RouteTurn
  <2>4. Route!Promise!Next \/ UNCHANGED Route!Promise!vars
    BY <1>a, <1>2, <1>3, <2>1, <2>2 DEF Route!Promise!Next, Route!Promise!Refuse
  <2> QED
    BY <2>3, <2>4
<1>8. CASE \/ Route!Observe \/ Route!Select \/ Route!Access \/ Route!Probe
           \/ Route!Open \/ Route!Confirm \/ Route!Assign
  <2>1. /\ UNCHANGED <<at, asked, written, told>>
        /\ pc \in {"observe", "select", "access", "probe", "open", "confirm", "assign"}
        /\ pc' \notin {"begin", "install"}
        /\ outcome' \notin {"link_refused", "host", "success"} /\ UNCHANGED Route!Here
        /\ pc' \in {"select", "access", "probe", "leave"} => Route!Here
    <3>1. CASE Route!Observe
      BY <1>2, <3>1 DEF Route!Observe, Route!Goto, Route!End, Route!Here, Route!Ready
    <3>2. CASE Route!Select
      <4>1. /\ UNCHANGED <<at, asked, written, told>> /\ pc = "select"
            /\ \/ Route!SelectKatapult \/ Route!SelectBeacon \/ Route!SelectOwn
        BY <3>2, RouteFacts DEF Route!Select, RouteInv, Route!TypeOK
      <4>2. \/ pc' \in {"open", "access"} /\ outcome' = outcome
            \/ pc' = "end" /\ outcome' \in Route!Unwritten
        BY <4>1 DEF Route!SelectKatapult, Route!SelectBeacon, Route!SelectOwn,
           Route!SelectStm32, Route!SelectSamba, Route!Goto, Route!End, Route!Unwritten
      <4> QED
        BY <1>2, <4>1, <4>2 DEF Route!Here, RouteTurn, Route!Unwritten
    <3>3. CASE Route!Access
      BY <1>2, <3>3 DEF Route!Access, Route!Goto, Route!End, Route!Here, RouteTurn
    <3>4. CASE Route!Probe
      <4>1. /\ UNCHANGED <<at, asked, written, told>> /\ pc = "probe"
            /\ \/ pc' = "end" /\ outcome' \in {"stm32_probe", "ambiguous"}
               \/ pc' \in {"leave", "access"} /\ outcome' = outcome
        BY <3>4 DEF Route!Probe, Route!Goto, Route!End
      <4> QED
        BY <1>2, <4>1 DEF Route!Here, RouteTurn
    <3>5. CASE Route!Open \/ Route!Confirm \/ Route!Assign
      BY <1>2, <3>5 DEF Route!Open, Route!Confirm, Route!Assign, Route!Goto, Route!End,
         Route!Here
    <3> QED
      BY <1>8, <3>1, <3>2, <3>3, <3>4, <3>5
  <2>2. ~Route!Restorable /\ ~Route!Restorable'
    BY <1>1, <2>1, AskedIsFinal
  <2>3. RouteTurn'
    BY <2>1, <2>2 DEF RouteTurn
  <2>4. Route!Promise!Next \/ UNCHANGED Route!Promise!vars
    BY <1>a, <1>2, <1>3, <2>1, <2>2 DEF Route!Promise!Next, Route!Promise!Refuse
  <2> QED
    BY <2>3, <2>4
<1>9. CASE Route!Leave
  <2>1. /\ UNCHANGED <<at, asked, written>> /\ pc = "leave" /\ pc' = "end"
        /\ outcome' \in {"mismatch", "mismatch_recovery"} /\ UNCHANGED Route!Here
        /\ Route!Here
    BY <1>9 DEF Route!Leave, Route!End, Route!Here, RouteTurn
  <2>2. ~Route!Restorable /\ ~Route!Restorable'
    BY <1>1, <2>1, AskedIsFinal
  <2>3. RouteTurn'
    BY <2>1, <2>2 DEF RouteTurn
  <2>4. Route!Promise!Next
    BY <1>a, <1>2, <2>1, <2>2 DEF Route!Promise!Next, Route!Promise!Refuse
  <2> QED
    BY <2>3, <2>4
<1>10. CASE Route!Transfer
  <2>1. /\ UNCHANGED <<at, asked>> /\ pc = "transfer" /\ pc' = "end"
        /\ outcome' \in {"success", "transfer", "start_mismatch"} /\ UNCHANGED Route!Here
    BY <1>10 DEF Route!Transfer, Route!End, Route!Here
  <2>2. ~Route!Restorable /\ ~Route!Restorable'
    BY <1>1, <2>1, AskedIsFinal
  <2>3. RouteTurn'
    BY <2>1, <2>2 DEF RouteTurn
  <2>4. CASE Route!Here
    <3>1. outcome' = "success" => written' # None /\ written'.whole /\ told' # None
      <4> SUFFICES ASSUME outcome' = "success"
                   PROVE  written' # None /\ written'.whole /\ told' # None
        OBVIOUS
      <4>1. /\ written' = [start |-> Route!Destination, whole |-> TRUE]
            /\ told' = Route!Destination
        BY <1>10 DEF Route!Transfer, Route!End
      <4>2. /\ written' = None \/ written' \in [start : Route!Starts, whole : BOOLEAN]
            /\ told' \in Route!Starts \cup {None}
        BY DEF RouteInv, Route!TypeOK
      <4>3. Route!Destination \in Route!Starts
        BY <1>10, <2>1, Reached DEF Route!Transfer, Route!End
      <4>4. /\ None \notin Route!Starts
            /\ None \notin [start : Route!Starts, whole : BOOLEAN]
        BY RouteFacts DEF RouteInv, Route!TypeOK
      <4>5. [start |-> Route!Destination, whole |-> TRUE] \in [start : Route!Starts, whole : BOOLEAN]
        BY <4>3
      <4> QED
        BY <4>1, <4>3, <4>4, <4>5
    <3>2. told' # None => (written' = None \/ written'.whole)
      BY DEF RouteInv, RouteSafe, Route!ToldIsRunnable
    <3>3. device = "bootloader" /\ result = "none" /\ firmware = "old"
      BY <1>2, <2>1, <2>4
    <3>4. /\ device' \in {"bootloader", "restarting"}
          /\ device' = "restarting" => firmware' # "partial"
      BY <2>1, <2>4, <3>2
    <3>5. firmware' \in {"old", "partial", "new"}
      OBVIOUS
    <3>6. \/ result' = "failed"
          \/ result' = "success" /\ firmware' = "new" /\ device' = "restarting"
      BY <2>1, <3>1
    <3>7. UNCHANGED Route!Restorable
      BY <1>a, <2>2
    <3> HIDE DEF device, firmware, result
    <3>8. /\ result = "none" /\ device = "bootloader"
          /\ \/ firmware' = "new" /\ device' = "restarting" /\ result' = "success"
             \/ /\ firmware' \in {"old", "partial", "new"} /\ result' = "failed"
                /\ \/ device' = device
                   \/ device' = "restarting" /\ firmware' # "partial"
      BY <3>3, <3>4, <3>5, <3>6
    <3> QED
      BY <2>3, <3>7, <3>8 DEF Route!Promise!Next, Route!Promise!Transfer, device, firmware, result
  <2>5. CASE ~Route!Here
    <3>1. UNCHANGED <<written, told>> /\ outcome' = "transfer"
      BY <1>10, <2>5 DEF Route!Transfer, Route!Answers, Route!End
    <3>2. /\ result = "none" /\ result' = "failed" /\ UNCHANGED <<device, firmware>>
      BY <1>2, <2>1, <3>1
    <3>3. UNCHANGED Route!Restorable
      BY <1>a, <2>2
    <3> QED
      BY <2>3, <3>2, <3>3 DEF Route!Promise!Next, Route!Promise!Refuse
  <2> QED
    BY <2>3, <2>4, <2>5
<1> QED
  BY <1>4, <1>5, <1>6, <1>7, <1>8, <1>9, <1>10 DEF Route!Next, Route!Host

-----------------------------------------------------------------------------
(* The sessions with the vendors' bootloaders. *)

Untouched == flash = [b \in 1..VendorBlocks |-> "old"]

\* What a board may be told to start.
Startable ==
    task.leave \/ Vendor!Complete \/ (backend = "beacon" /\ ~board.sound)

\* The course of the session has come to this step.
OnCourse ==
    /\ backend = "beacon" => ~task.leave
    /\ step \notin {"find", "end"} \/ backend # "samba" => task.leave \/ task.blocks > 0
    /\ step = "open" => backend # "samba"
    /\ step = "handshake" => backend = "samba"
    /\ step = "admit" => backend = "samba" /\ ~task.leave
    /\ step = "erase" => backend = "picoboot" /\ ~task.leave
    /\ step = "write" => ~task.leave
    /\ step = "verify" => ~task.leave /\ backend # "beacon"

\* What the flash holds by then.
Holds ==
    /\ step \in {"find", "open", "handshake", "admit", "erase"} \/ task.leave => Untouched
    /\ backend = "samba" /\ board.protects = "other" /\ ~task.leave =>
         Untouched /\ step \in {"find", "handshake", "admit", "end"}
    /\ outcome \in Vendor!Refusals => Untouched
    /\ step \in {"admit", "erase"} => index = 1
    /\ step = "write" => /\ index > 0
                         /\ board.sound => \A b \in Vendor!Image : b < index => flash[b] = "new"
    /\ step \in {"start", "reply"} \/ told => Startable
    /\ told => step \in {"reply", "end"} /\ (task.leave \/ task.blocks > 0)
    /\ step = "reply" \/ outcome = "success" => told

VendorSafe ==
    /\ Vendor!RefusedUntouched /\ Vendor!ProtectedUntouched /\ Vendor!StartsVerified
    /\ Vendor!StartsDownloaded /\ Vendor!SuccessIsWritten

VendorInv == Vendor!TypeOK /\ OnCourse /\ Holds

\* Each step occurs once in a course.
LEMMA OnlyPlace ==
  ASSUME NEW course, NEW s, NEW k \in DOMAIN course, course[k] = s,
         \A i \in DOMAIN course : course[i] = s => i = k
  PROVE  (CHOOSE i \in DOMAIN course : course[i] = s) = k
  OBVIOUS

\* Where each step of a session leads.
LEMMA Turns ==
  ASSUME backend \in {"stm32", "picoboot", "samba", "beacon"}, task.leave \in BOOLEAN
  PROVE  /\ backend = "samba" => /\ Vendor!After("find") = "handshake"
                                 /\ Vendor!After("handshake") =
                                      IF task.leave THEN "start" ELSE "admit"
         /\ backend # "samba" =>
              /\ Vendor!After("find") = "open"
              /\ Vendor!After("open") = CASE task.leave -> "start"
                                          [] ~task.leave /\ backend = "picoboot" -> "erase"
                                          [] OTHER -> "write"
         /\ ~task.leave => Vendor!After("write") = IF backend = "beacon" THEN "start"
                                                   ELSE "verify"
         /\ ~task.leave /\ backend # "beacon" => Vendor!After("verify") = "start"
         /\ ~task.leave /\ backend = "samba" => Vendor!After("admit") = "write"
<1>1. CASE task.leave /\ backend = "samba"
  <2> DEFINE course == <<"find", "handshake", "start">>
  <2>1. Vendor!Course = course
    BY <1>1 DEF Vendor!Course, Vendor!LeaveCourse
  <2>2. /\ (CHOOSE i \in DOMAIN course : course[i] = "find") = 1
        /\ (CHOOSE i \in DOMAIN course : course[i] = "handshake") = 2
    <3>1. DOMAIN course = 1..3 /\ course[1] = "find" /\ course[2] = "handshake"
          /\ course[3] = "start"
      OBVIOUS
    <3> HIDE DEF course
    <3> QED
      BY <3>1, OnlyPlace
  <2>3. course[1 + 1] = "handshake" /\ course[1 + 2] = "start"
    OBVIOUS
  <2> HIDE DEF course
  <2> QED
    BY <1>1, <2>1, <2>2, <2>3 DEF Vendor!After
<1>2. CASE task.leave /\ backend # "samba"
  <2> DEFINE course == <<"find", "open", "start">>
  <2>1. Vendor!Course = course
    BY <1>2 DEF Vendor!Course, Vendor!LeaveCourse
  <2>2. /\ (CHOOSE i \in DOMAIN course : course[i] = "find") = 1
        /\ (CHOOSE i \in DOMAIN course : course[i] = "open") = 2
    <3>1. DOMAIN course = 1..3 /\ course[1] = "find" /\ course[2] = "open"
          /\ course[3] = "start"
      OBVIOUS
    <3> HIDE DEF course
    <3> QED
      BY <3>1, OnlyPlace
  <2>3. course[1 + 1] = "open" /\ course[1 + 2] = "start"
    OBVIOUS
  <2> HIDE DEF course
  <2> QED
    BY <1>2, <2>1, <2>2, <2>3 DEF Vendor!After
<1>3. CASE ~task.leave /\ backend = "stm32"
  <2> DEFINE course == <<"find", "open", "write", "verify", "start">>
  <2>1. Vendor!Course = course
    BY <1>3 DEF Vendor!Course, Vendor!Stm32Course
  <2>2. /\ (CHOOSE i \in DOMAIN course : course[i] = "find") = 1
        /\ (CHOOSE i \in DOMAIN course : course[i] = "open") = 2
        /\ (CHOOSE i \in DOMAIN course : course[i] = "write") = 3
        /\ (CHOOSE i \in DOMAIN course : course[i] = "verify") = 4
    <3>1. DOMAIN course = 1..5 /\ course[1] = "find" /\ course[2] = "open"
          /\ course[3] = "write" /\ course[4] = "verify" /\ course[5] = "start"
      OBVIOUS
    <3> HIDE DEF course
    <3> QED
      BY <3>1, OnlyPlace
  <2>3. /\ course[1 + 1] = "open" /\ course[1 + 2] = "write"
        /\ course[1 + 3] = "verify" /\ course[1 + 4] = "start"
    OBVIOUS
  <2> HIDE DEF course
  <2> QED
    BY <1>3, <2>1, <2>2, <2>3 DEF Vendor!After
<1>4. CASE ~task.leave /\ backend = "picoboot"
  <2> DEFINE course == <<"find", "open", "erase", "write", "verify", "start">>
  <2>1. Vendor!Course = course
    BY <1>4 DEF Vendor!Course, Vendor!PicoBootCourse
  <2>2. /\ (CHOOSE i \in DOMAIN course : course[i] = "find") = 1
        /\ (CHOOSE i \in DOMAIN course : course[i] = "open") = 2
        /\ (CHOOSE i \in DOMAIN course : course[i] = "write") = 4
        /\ (CHOOSE i \in DOMAIN course : course[i] = "verify") = 5
    <3>1. DOMAIN course = 1..6 /\ course[1] = "find" /\ course[2] = "open"
          /\ course[3] = "erase" /\ course[4] = "write" /\ course[5] = "verify"
          /\ course[6] = "start"
      OBVIOUS
    <3> HIDE DEF course
    <3> QED
      BY <3>1, OnlyPlace
  <2>3. /\ course[1 + 1] = "open" /\ course[1 + 2] = "erase"
        /\ course[1 + 4] = "verify" /\ course[1 + 5] = "start"
    OBVIOUS
  <2> HIDE DEF course
  <2> QED
    BY <1>4, <2>1, <2>2, <2>3 DEF Vendor!After
<1>5. CASE ~task.leave /\ backend = "samba"
  <2> DEFINE course == <<"find", "handshake", "admit", "write", "verify", "start">>
  <2>1. Vendor!Course = course
    BY <1>5 DEF Vendor!Course, Vendor!SambaCourse
  <2>2. /\ (CHOOSE i \in DOMAIN course : course[i] = "find") = 1
        /\ (CHOOSE i \in DOMAIN course : course[i] = "handshake") = 2
        /\ (CHOOSE i \in DOMAIN course : course[i] = "admit") = 3
        /\ (CHOOSE i \in DOMAIN course : course[i] = "write") = 4
        /\ (CHOOSE i \in DOMAIN course : course[i] = "verify") = 5
    <3>1. DOMAIN course = 1..6 /\ course[1] = "find" /\ course[2] = "handshake"
          /\ course[3] = "admit" /\ course[4] = "write" /\ course[5] = "verify"
          /\ course[6] = "start"
      OBVIOUS
    <3> HIDE DEF course
    <3> QED
      BY <3>1, OnlyPlace
  <2>3. /\ course[1 + 1] = "handshake" /\ course[1 + 2] = "admit"
        /\ course[1 + 3] = "write" /\ course[1 + 4] = "verify" /\ course[1 + 5] = "start"
    OBVIOUS
  <2> HIDE DEF course
  <2> QED
    BY <1>5, <2>1, <2>2, <2>3 DEF Vendor!After
<1>6. CASE ~task.leave /\ backend = "beacon"
  <2> DEFINE course == <<"find", "open", "write", "start">>
  <2>1. Vendor!Course = course
    BY <1>6 DEF Vendor!Course, Vendor!BeaconCourse
  <2>2. /\ (CHOOSE i \in DOMAIN course : course[i] = "find") = 1
        /\ (CHOOSE i \in DOMAIN course : course[i] = "open") = 2
        /\ (CHOOSE i \in DOMAIN course : course[i] = "write") = 3
    <3>1. DOMAIN course = 1..4 /\ course[1] = "find" /\ course[2] = "open"
          /\ course[3] = "write" /\ course[4] = "start"
      OBVIOUS
    <3> HIDE DEF course
    <3> QED
      BY <3>1, OnlyPlace
  <2>3. course[1 + 1] = "open" /\ course[1 + 2] = "write" /\ course[1 + 3] = "start"
    OBVIOUS
  <2> HIDE DEF course
  <2> QED
    BY <1>6, <2>1, <2>2, <2>3 DEF Vendor!After
<1> QED
  BY <1>1, <1>2, <1>3, <1>4, <1>5, <1>6

\* A board before its vendor's flasher begins.
LEMMA VendorInit ==
  ASSUME Vendor!Init
  PROVE  VendorInv
<1>1. Vendor!TypeOK
  <2>1. flash \in [1..VendorBlocks -> Vendor!Cells]
    BY DEF Vendor!Init, Vendor!Cells
  <2>2. index \in 0..(VendorBlocks + 1)
    BY Instances DEF Vendor!Init, Vendor!Parameters
  <2> QED
    BY <2>1, <2>2 DEF Vendor!Init, Vendor!TypeOK, Vendor!Steps
<1>2. OnCourse
  BY DEF Vendor!Init, OnCourse
<1>3. Holds
  BY DEF Vendor!Init, Holds, Untouched, Vendor!Refusals
<1> QED
  BY <1>1, <1>2, <1>3 DEF VendorInv

\* What the properties of a session come from.
LEMMA VendorIsSafe ==
  ASSUME VendorInv
  PROVE  VendorSafe
<1>1. Vendor!RefusedUntouched /\ Vendor!ProtectedUntouched
  BY DEF VendorInv, Holds, Untouched, Vendor!RefusedUntouched, Vendor!ProtectedUntouched
<1>2. Vendor!StartsVerified /\ Vendor!StartsDownloaded
  BY DEF VendorInv, Holds, Startable, Vendor!StartsVerified, Vendor!StartsDownloaded
<1>3. Vendor!SuccessIsWritten
  BY DEF VendorInv, Holds, Startable, Vendor!SuccessIsWritten
<1> QED
  BY <1>1, <1>2, <1>3 DEF VendorSafe

\* Every call of a vendor's flasher, answered, lost or refused.
LEMMA VendorStep ==
  ASSUME VendorInv, Vendor!Next
  PROVE  VendorInv'
<1> USE DEF Vendor!given
<1>1. /\ UNCHANGED <<backend, task, board>>
      /\ Vendor!TypeOK /\ OnCourse /\ Holds
      /\ backend \in {"stm32", "picoboot", "samba", "beacon"} /\ VendorBlocks \in Nat \ {0}
      /\ task.leave \in BOOLEAN /\ task.blocks \in 0..VendorBlocks /\ board.sound \in BOOLEAN
  BY Instances DEF VendorInv, Vendor!Next, Vendor!Parameters, Vendor!TypeOK, Vendor!Task,
     Vendor!Board, Vendor!Find, Vendor!Open, Vendor!Handshake, Vendor!Admit, Vendor!Erase,
     Vendor!Write, Vendor!Written, Vendor!Verify, Vendor!Start, Vendor!Reply,
     Vendor!Transport, Vendor!Fail
<1>2. \A b \in 1..VendorBlocks : flash[b] \in Vendor!Cells
  BY <1>1 DEF Vendor!TypeOK
<1>3. step # "end" => outcome = "none"
  BY <1>1 DEF Vendor!TypeOK
<1>4. Vendor!Image \subseteq 1..VendorBlocks /\ UNCHANGED Vendor!Image
  BY <1>1 DEF Vendor!Image
\* What is left alone: most steps change no flash and start nothing.
<1>5. ASSUME UNCHANGED <<flash, told>>
      PROVE  UNCHANGED Untouched /\ UNCHANGED Startable
  BY <1>1, <1>5 DEF Untouched, Startable, Vendor!Complete, Vendor!Image
<1>6. /\ Vendor!Steps = {"find", "open", "handshake", "admit", "erase", "write", "verify",
                        "start", "reply", "fail", "end"}
      /\ Vendor!Refusals = {"undecodable", "not_found", "ambiguous", "empty", "chip",
                           "protection", "too_large"}
  BY DEF Vendor!Steps, Vendor!Refusals
\* A step that leaves the flash alone and comes before or after the writing.
<1>7. ASSUME UNCHANGED <<flash, told>>, index' \in {index, 1}, step' \in Vendor!Steps,
             \/ step' = "end" /\ outcome' # "none"
             \/ step' # "end" /\ outcome' = "none",
             outcome' \in {"none", "success", "transport", "mismatch"} \cup Vendor!Refusals,
             OnCourse',
             outcome' \in Vendor!Refusals => Untouched,
             step' \in {"open", "handshake", "admit", "erase", "write"} => Untouched,
             step' \notin {"find", "handshake", "admit", "end"} =>
               ~(backend = "samba" /\ board.protects = "other" /\ ~task.leave),
             step' \in {"admit", "erase", "write"} => index' = 1,
             step' = "start" => Startable,
             step' # "find",
             told => step' \in {"reply", "end"},
             step' = "reply" \/ outcome' = "success" => told
      PROVE  VendorInv'
  <2>1. Vendor!TypeOK'
    <3>1. index' \in 0..(VendorBlocks + 1)
      BY <1>1, <1>7 DEF Vendor!TypeOK
    <3> QED
      BY <1>1, <1>7, <3>1 DEF Vendor!TypeOK
  <2>2. step' = "write" => /\ index' > 0
                          /\ \A b \in Vendor!Image' : b < index' => flash'[b] = "new"
    BY <1>4, <1>7
  <2>3. told' => task'.leave \/ task'.blocks > 0
    BY <1>1, <1>7 DEF Holds
  <2>4. Holds'
    BY <1>1, <1>5, <1>7, <2>2, <2>3 DEF Holds
  <2> QED
    BY <1>7, <2>1, <2>4 DEF VendorInv
<1>8. CASE Vendor!Find
  <2>1. /\ step = "find" /\ UNCHANGED <<index, flash, told>>
        /\ \/ /\ step' = "end" /\ outcome' \in {"empty", "undecodable", "not_found", "ambiguous"}
           \/ /\ task.leave \/ task.blocks > 0
              /\ step' = Vendor!After("find") /\ outcome' = outcome
    BY <1>1, <1>8 DEF OnCourse, Vendor!Find, Vendor!Goto, Vendor!End
  <2>2. \/ step' = "end" /\ outcome' \in Vendor!Refusals
        \/ /\ step' = IF backend = "samba" THEN "handshake" ELSE "open"
           /\ outcome' = "none"
    BY <1>1, <1>3, <1>6, <2>1, Turns
  <2>3. Untouched /\ ~told
    BY <1>1, <2>1 DEF Holds
  <2>4. OnCourse'
    BY <1>1, <2>1, <2>2 DEF OnCourse
  <2>5. /\ index' \in {index, 1} /\ step' \in Vendor!Steps
        /\ \/ step' = "end" /\ outcome' # "none"
           \/ step' # "end" /\ outcome' = "none"
        /\ outcome' \in {"none"} \cup Vendor!Refusals
    BY <1>6, <2>1, <2>2
  <2> QED
    BY <1>6, <1>7, <2>1, <2>2, <2>3, <2>4, <2>5
<1>9. CASE Vendor!Open
  <2>1. /\ step = "open" /\ UNCHANGED <<flash, told>> /\ index' = 1
        /\ step' = Vendor!After("open") /\ outcome' = outcome
    BY <1>1, <1>9 DEF Vendor!Open, Vendor!Goto
  <2>2. /\ outcome' = "none" /\ backend # "samba"
        /\ step' = CASE task.leave -> "start"
                     [] ~task.leave /\ backend = "picoboot" -> "erase"
                     [] OTHER -> "write"
    BY <1>1, <1>3, <2>1, Turns DEF OnCourse
  <2>3. Untouched /\ ~told
    BY <1>1, <2>1 DEF Holds
  <2>4. OnCourse' /\ (step' = "start" => Startable)
    BY <1>1, <2>1, <2>2 DEF OnCourse, Startable
  <2>5. /\ index' \in {index, 1} /\ step' \in Vendor!Steps
        /\ \/ step' = "end" /\ outcome' # "none"
           \/ step' # "end" /\ outcome' = "none"
        /\ outcome' \in {"none", "success", "transport", "mismatch"} \cup Vendor!Refusals
    BY <1>6, <2>1, <2>2
  <2> QED
    BY <1>6, <1>7, <2>1, <2>2, <2>3, <2>4, <2>5
<1>10. CASE Vendor!Handshake
  <2>1. /\ step = "handshake" /\ UNCHANGED <<flash, told>> /\ index' = 1
        /\ step' = Vendor!After("handshake") /\ outcome' = outcome
    BY <1>1, <1>10 DEF Vendor!Handshake, Vendor!Goto
  <2>2. /\ outcome' = "none" /\ backend = "samba"
        /\ step' = IF task.leave THEN "start" ELSE "admit"
    BY <1>1, <1>3, <2>1, Turns DEF OnCourse
  <2>3. Untouched /\ ~told
    BY <1>1, <2>1 DEF Holds
  <2>4. OnCourse' /\ (step' = "start" => Startable)
    BY <1>1, <2>1, <2>2 DEF OnCourse, Startable
  <2>5. /\ index' \in {index, 1} /\ step' \in Vendor!Steps
        /\ \/ step' = "end" /\ outcome' # "none"
           \/ step' # "end" /\ outcome' = "none"
        /\ outcome' \in {"none", "success", "transport", "mismatch"} \cup Vendor!Refusals
    BY <1>6, <2>1, <2>2
  <2> QED
    BY <1>6, <1>7, <2>1, <2>2, <2>3, <2>4, <2>5
<1>11. CASE Vendor!Admit
  <2>1. /\ step = "admit" /\ UNCHANGED <<flash, told, index>>
        /\ \/ step' = "end" /\ outcome' \in {"chip", "protection", "too_large"}
           \/ /\ board.protects # "other"
              /\ step' = Vendor!After("admit") /\ outcome' = outcome
    BY <1>1, <1>11 DEF Vendor!Admit, Vendor!Goto, Vendor!End
  <2>a. backend = "samba" /\ ~task.leave /\ index = 1
    BY <1>1, <2>1 DEF OnCourse, Holds
  <2>2. \/ step' = "end" /\ outcome' \in Vendor!Refusals
        \/ step' = "write" /\ outcome' = "none" /\ board.protects # "other"
    BY <1>1, <1>3, <1>6, <2>1, <2>a, Turns
  <2>3. Untouched /\ ~told
    BY <1>1, <2>1 DEF Holds
  <2>4. OnCourse'
    BY <1>1, <2>1, <2>2, <2>a DEF OnCourse
  <2>5. /\ index' \in {index, 1} /\ step' \in Vendor!Steps
        /\ \/ step' = "end" /\ outcome' # "none"
           \/ step' # "end" /\ outcome' = "none"
        /\ outcome' \in {"none", "success", "transport", "mismatch"} \cup Vendor!Refusals
    BY <1>6, <2>1, <2>2
  <2> QED
    BY <1>6, <1>7, <2>a, <2>1, <2>2, <2>3, <2>4, <2>5
<1>12. CASE Vendor!Written
  <2>1. /\ step = "write" /\ UNCHANGED <<flash, told>> /\ index' = 1
        /\ step' = Vendor!After("write") /\ outcome' = outcome
        /\ index \notin Vendor!Image
    BY <1>1, <1>12 DEF Vendor!Written, Vendor!Goto
  <2>2. /\ outcome' = "none" /\ ~task.leave
        /\ step' = IF backend = "beacon" THEN "start" ELSE "verify"
    BY <1>1, <1>3, <2>1, Turns DEF OnCourse
  <2>3. ~told /\ ~(backend = "samba" /\ board.protects = "other" /\ ~task.leave)
    BY <1>1, <2>1 DEF Holds
  <2>4. OnCourse'
    BY <1>1, <2>1, <2>2 DEF OnCourse
  <2>6. step' = "start" => Startable
    <3>1. index \in Nat /\ index > 0
      BY <1>1, <2>1 DEF Holds, Vendor!TypeOK
    <3>2. \A b \in Vendor!Image : b < index
      BY <1>1, <2>1, <3>1 DEF Vendor!Image
    <3>3. board.sound => Vendor!Complete
      BY <1>1, <2>1, <3>2 DEF Holds, Vendor!Complete
    <3> QED
      BY <1>1, <2>2, <3>3 DEF Startable
  <2>5. /\ index' \in {index, 1} /\ step' \in Vendor!Steps
        /\ \/ step' = "end" /\ outcome' # "none"
           \/ step' # "end" /\ outcome' = "none"
        /\ outcome' \in {"none", "success", "transport", "mismatch"} \cup Vendor!Refusals
    BY <1>6, <2>1, <2>2
  <2> QED
    BY <1>6, <1>7, <2>1, <2>2, <2>3, <2>4, <2>5, <2>6
<1>13. CASE Vendor!Verify
  <2>1. /\ step = "verify" /\ UNCHANGED <<flash, told, index>>
        /\ \/ step' = "end" /\ outcome' = "mismatch"
           \/ /\ Vendor!Complete
              /\ step' = Vendor!After("verify") /\ outcome' = outcome
    BY <1>1, <1>13 DEF Vendor!Verify, Vendor!Goto, Vendor!End, Vendor!Complete
  <2>a. ~task.leave /\ backend # "beacon"
    BY <1>1, <2>1 DEF OnCourse
  <2>2. \/ step' = "end" /\ outcome' = "mismatch"
        \/ step' = "start" /\ outcome' = "none" /\ Startable
    BY <1>1, <1>3, <2>1, <2>a, Turns DEF Startable
  <2>3. ~told /\ ~(backend = "samba" /\ board.protects = "other" /\ ~task.leave)
    BY <1>1, <2>1 DEF Holds
  <2>4. OnCourse'
    BY <1>1, <2>1, <2>2, <2>a DEF OnCourse
  <2>5. /\ index' \in {index, 1} /\ step' \in Vendor!Steps
        /\ \/ step' = "end" /\ outcome' # "none"
           \/ step' # "end" /\ outcome' = "none"
        /\ outcome' \in {"none", "success", "transport", "mismatch"} \cup Vendor!Refusals
    BY <1>6, <2>1, <2>2
  <2> QED
    BY <1>6, <1>7, <2>1, <2>2, <2>3, <2>4, <2>5
<1>14. CASE Vendor!Reply
  <2>1. /\ step = "reply" /\ UNCHANGED <<flash, told, index>>
        /\ step' = "end" /\ outcome' = "success"
    BY <1>1, <1>14 DEF Vendor!Reply, Vendor!End
  <2>2. told
    BY <1>1, <2>1 DEF Holds
  <2>4. OnCourse'
    BY <1>1, <2>1 DEF OnCourse
  <2>5. /\ index' \in {index, 1} /\ step' \in Vendor!Steps
        /\ \/ step' = "end" /\ outcome' # "none"
           \/ step' # "end" /\ outcome' = "none"
        /\ outcome' \in {"none", "success", "transport", "mismatch"} \cup Vendor!Refusals
    BY <1>6, <2>1, <2>2
  <2> QED
    BY <1>6, <1>7, <2>1, <2>2, <2>4, <2>5
<1>15. CASE Vendor!Transport
  <2>1. /\ step # "end" /\ UNCHANGED <<flash, told, index>>
        /\ step' = "end" /\ outcome' = "transport"
    BY <1>1, <1>15 DEF Vendor!Transport, Vendor!Fail, Vendor!End
  <2>4. OnCourse'
    BY <1>1, <2>1 DEF OnCourse
  <2>5. /\ index' \in {index, 1} /\ step' \in Vendor!Steps
        /\ \/ step' = "end" /\ outcome' # "none"
           \/ step' # "end" /\ outcome' = "none"
        /\ outcome' \in {"none", "success", "transport", "mismatch"} \cup Vendor!Refusals
    BY <1>6, <2>1
  <2> QED
    BY <1>6, <1>7, <2>1, <2>4, <2>5
<1>16. CASE Vendor!Erase
  <2>1. /\ step = "erase" /\ UNCHANGED <<index, told, outcome>> /\ step' \in {"write", "fail"}
        /\ \E some \in SUBSET Vendor!Image :
             flash' = [b \in 1..VendorBlocks |-> IF b \in some THEN "erased" ELSE flash[b]]
    BY <1>1, <1>16 DEF Vendor!Erase, Vendor!Goto
  <2>2. /\ backend = "picoboot" /\ ~task.leave /\ index = 1 /\ ~told /\ outcome = "none"
    BY <1>1, <1>3, <2>1 DEF OnCourse, Holds
  <2>3. flash' \in [1..VendorBlocks -> Vendor!Cells]
    BY <1>2, <2>1 DEF Vendor!Cells
  <2>4. Vendor!TypeOK'
    BY <1>1, <1>6, <2>1, <2>2, <2>3 DEF Vendor!TypeOK
  <2>5. OnCourse'
    BY <1>1, <2>1, <2>2 DEF OnCourse
  <2>6. Holds'
    <3>1. \A b \in Vendor!Image' : ~(b < index')
      BY <1>1, <1>4, <2>1, <2>2
    <3> QED
      BY <1>1, <1>6, <2>1, <2>2, <3>1 DEF Holds
  <2> QED
    BY <2>4, <2>5, <2>6 DEF VendorInv
<1>17. CASE Vendor!Write
  <2>1. /\ step = "write" /\ index \in Vendor!Image /\ UNCHANGED <<told, outcome>>
        /\ \E cell \in Vendor!Cells : flash' = [flash EXCEPT ![index] = cell]
        /\ \/ /\ step' = "write" /\ index' = index + 1
              /\ board.sound => flash' = [flash EXCEPT ![index] = "new"]
           \/ step' = "fail" /\ index' = index
    <3>1. flash[index] \in Vendor!Cells
      BY <1>2, <1>4, <1>17 DEF Vendor!Write
    <3> QED
      BY <1>1, <1>17, <3>1 DEF Vendor!Write, Vendor!Kept, Vendor!Goto, Vendor!Cells
  <2>2. ~task.leave /\ ~told /\ outcome = "none" /\ index > 0 /\ index \in 1..VendorBlocks
        /\ ~(backend = "samba" /\ board.protects = "other")
        /\ task.blocks > 0
    BY <1>1, <1>3, <1>4, <2>1 DEF OnCourse, Holds
  <2>3. flash' \in [1..VendorBlocks -> Vendor!Cells]
    BY <1>1, <2>1 DEF Vendor!TypeOK
  <2>4. Vendor!TypeOK'
    <3>1. index' \in 0..(VendorBlocks + 1)
      BY <1>1, <2>1, <2>2
    <3> QED
      BY <1>1, <1>6, <2>1, <2>2, <2>3, <3>1 DEF Vendor!TypeOK
  <2>5. OnCourse'
    BY <1>1, <2>1, <2>2 DEF OnCourse
  <2>6. step' = "write" =>
          /\ index' > 0
          /\ board'.sound => \A b \in Vendor!Image' : b < index' => flash'[b] = "new"
    <3> SUFFICES ASSUME step' = "write"
                 PROVE  /\ index + 1 > 0
                        /\ board.sound => \A b \in Vendor!Image : b < index + 1 => flash'[b] = "new"
      BY <1>1, <1>4, <2>1
    <3>1. ASSUME board.sound, NEW b \in Vendor!Image, b < index + 1
          PROVE  flash'[b] = "new"
      <4>1. b \in 1..VendorBlocks /\ flash \in [1..VendorBlocks -> Vendor!Cells]
        BY <1>1, <1>4 DEF Vendor!TypeOK
      <4>2. b < index \/ b = index
        BY <2>2, <3>1, <4>1
      <4>3. b < index => flash[b] = "new"
        BY <1>1, <2>1, <3>1 DEF Holds
      <4> QED
        BY <2>1, <3>1, <4>1, <4>2, <4>3
    <3> QED
      BY <2>2, <3>1
  <2>7. Holds'
    BY <1>1, <1>6, <2>1, <2>2, <2>6 DEF Holds
  <2> QED
    BY <2>4, <2>5, <2>7 DEF VendorInv
<1>18. CASE Vendor!Start
  <2>1. /\ step = "start" /\ UNCHANGED <<index, flash, outcome>>
        /\ \/ told' = TRUE /\ step' = "reply"
           \/ told' = FALSE /\ step' = "fail"
    BY <1>1, <1>18 DEF Vendor!Start, Vendor!Goto
  <2>2. /\ Startable /\ ~told /\ outcome = "none"
        /\ ~(backend = "samba" /\ board.protects = "other" /\ ~task.leave)
        /\ task.leave \/ task.blocks > 0
    BY <1>1, <1>3, <2>1 DEF OnCourse, Holds
  <2>3. UNCHANGED Untouched /\ UNCHANGED Startable
    BY <1>1, <2>1 DEF Untouched, Startable, Vendor!Complete, Vendor!Image
  <2>4. Vendor!TypeOK'
    BY <1>1, <1>6, <2>1, <2>2 DEF Vendor!TypeOK
  <2>5. OnCourse'
    BY <1>1, <2>1, <2>2 DEF OnCourse
  <2>6. Holds'
    BY <1>1, <1>6, <2>1, <2>2, <2>3 DEF Holds
  <2> QED
    BY <2>4, <2>5, <2>6 DEF VendorInv
<1> QED
  BY <1>8, <1>9, <1>10, <1>11, <1>12, <1>13, <1>14, <1>15, <1>16, <1>17, <1>18 DEF Vendor!Next

\* A session that reads back keeps the contract of a Katapult session.
LEMMA VendorKeeps ==
  ASSUME VendorInv, VendorInv', Vendor!Next, backend # "beacon"
  PROVE  Vendor!Contract!Next \/ UNCHANGED Vendor!Contract!vars
<1> USE DEF Vendor!given, Vendor!Contract!vars
<1> DEFINE goal == IF task.leave THEN "before" ELSE "image"
           content == IF Untouched THEN "before"
                      ELSE IF Vendor!Complete THEN "image" ELSE "partial"
           result == CASE outcome \in {"none", "success"} -> outcome
                       [] outcome \in Vendor!Refusals -> "refused"
                       [] OTHER -> "failed"
<1>1. /\ UNCHANGED <<backend, task, board>> /\ UNCHANGED goal
      /\ Vendor!TypeOK /\ OnCourse /\ Holds /\ Holds'
      /\ VendorBlocks \in Nat \ {0} /\ task.blocks \in 0..VendorBlocks
      /\ told \in BOOLEAN
      /\ flash \in [1..VendorBlocks -> Vendor!Cells]
      /\ step # "end" => outcome = "none"
  BY Instances DEF VendorInv, Vendor!Next, Vendor!Parameters, Vendor!TypeOK, Vendor!Task,
     Vendor!Find, Vendor!Open, Vendor!Handshake, Vendor!Admit, Vendor!Erase,
     Vendor!Write, Vendor!Written, Vendor!Verify, Vendor!Start, Vendor!Reply,
     Vendor!Transport, Vendor!Fail
<1>2. ASSUME UNCHANGED flash
      PROVE  UNCHANGED content
  BY <1>1, <1>2 DEF Untouched, Vendor!Complete, Vendor!Image
<1>3. CASE Vendor!Find \/ Vendor!Admit \/ Vendor!Verify \/ Vendor!Transport
  <2>1. /\ UNCHANGED <<flash, told>> /\ outcome = "none"
        /\ outcome' = outcome \/ outcome' \in {"transport", "mismatch"} \cup Vendor!Refusals
    BY <1>1, <1>3 DEF Vendor!Find, Vendor!Admit, Vendor!Verify, Vendor!Transport, Vendor!Fail,
       Vendor!Goto, Vendor!End, Vendor!Refusals
  <2>2. /\ result = "none"
        /\ result' = "none" \/ result' = "failed" \/ (result' = "refused" /\ content = "before")
    BY <1>1, <1>2, <2>1 DEF Holds, Vendor!Refusals
  <2> QED
    BY <1>1, <1>2, <2>1, <2>2 DEF Vendor!Contract!Next, Vendor!Contract!Report, Untouched
<1>4. CASE Vendor!Open \/ Vendor!Handshake \/ Vendor!Written
  <2>1. UNCHANGED <<flash, told, outcome>>
    BY <1>4 DEF Vendor!Open, Vendor!Handshake, Vendor!Written, Vendor!Goto
  <2> QED
    BY <1>1, <1>2, <2>1 DEF Untouched
<1>5. CASE Vendor!Erase \/ Vendor!Write
  <2>1. /\ UNCHANGED <<told, outcome>> /\ outcome = "none" /\ ~told /\ ~task.leave
    BY <1>1, <1>5 DEF Holds, OnCourse, Vendor!Erase, Vendor!Write, Vendor!Goto
  <2>2. UNCHANGED flash \/ \E b \in 1..VendorBlocks : flash'[b] # "old"
    <3>1. CASE Vendor!Erase
      <4>1. PICK some \in SUBSET Vendor!Image :
               flash' = [b \in 1..VendorBlocks |-> IF b \in some THEN "erased" ELSE flash[b]]
        BY <3>1 DEF Vendor!Erase
      <4>2. some \subseteq 1..VendorBlocks
        BY <1>1 DEF Vendor!Image
      <4>3. CASE some = {}
        BY <1>1, <4>1, <4>3
      <4>4. CASE some # {}
        BY <4>1, <4>2, <4>4
      <4> QED
        BY <4>3, <4>4
    <3>2. CASE Vendor!Write
      <4>1. PICK cell : /\ flash' = [flash EXCEPT ![index] = cell]
                        /\ cell = flash[index] \/ cell # "old"
        BY <3>2 DEF Vendor!Write, Vendor!Kept
      <4>2. index \in 1..VendorBlocks
        BY <1>1, <3>2 DEF Vendor!Write, Vendor!Image
      <4> QED
        BY <1>1, <4>1, <4>2
    <3> QED
      BY <1>5, <3>1, <3>2
  <2>3. CASE UNCHANGED flash
    <3>1. UNCHANGED content /\ UNCHANGED result
      BY <1>2, <2>1, <2>3
    <3> QED
      BY <1>1, <2>1, <3>1 DEF Untouched
  <2>4. CASE \E b \in 1..VendorBlocks : flash'[b] # "old"
    <3>1. ~Untouched'
      BY <2>4 DEF Untouched
    <3>2. content' \in {"partial", "image"}
      BY <3>1
    <3>3. goal = "image" /\ result = "none"
      BY <2>1 DEF Vendor!Refusals
    <3>4. UNCHANGED result
      BY <2>1
    <3> QED
      BY <1>1, <2>1, <3>2, <3>3, <3>4 DEF Vendor!Contract!Next, Vendor!Contract!Rewrite,
         Vendor!Contract!Images, Untouched
  <2> QED
    BY <2>2, <2>3, <2>4
<1>6. CASE Vendor!Start
  <2>1. UNCHANGED <<flash, outcome>> /\ ~told /\ told' \in BOOLEAN /\ Startable
    BY <1>1, <1>6 DEF Vendor!Start, Vendor!Goto, Holds
  <2>2. content # "partial"
    BY <1>1, <2>1 DEF Startable, Holds
  <2> QED
    BY <1>1, <1>2, <2>1, <2>2 DEF Vendor!Contract!Next, Vendor!Contract!Start, Untouched
<1>7. CASE Vendor!Reply
  <2>1. UNCHANGED <<flash, told>> /\ outcome = "none" /\ outcome' = "success" /\ told
    BY <1>1, <1>7 DEF Vendor!Reply, Vendor!End, Holds
  <2>2. content = goal
    <3>1. Startable /\ (task.leave \/ task.blocks > 0)
      BY <1>1, <2>1 DEF Holds
    <3>2. CASE task.leave
      BY <1>1, <3>2 DEF Holds
    <3>3. CASE ~task.leave
      <4>1. Vendor!Complete /\ 1 \in Vendor!Image /\ 1 \in 1..VendorBlocks
        BY <1>1, <3>1, <3>3 DEF Startable, Vendor!Image
      <4>2. flash[1] = "new"
        BY <4>1 DEF Vendor!Complete
      <4>3. ~Untouched
        BY <4>1, <4>2 DEF Untouched
      <4> QED
        BY <3>3, <4>1, <4>3
    <3> QED
      BY <3>2, <3>3
  <2>3. result = "none" /\ result' = "success"
    BY <2>1 DEF Vendor!Refusals
  <2>4. UNCHANGED content
    BY <1>2, <2>1
  <2> QED
    BY <1>1, <2>1, <2>2, <2>3, <2>4 DEF Vendor!Contract!Next, Vendor!Contract!Report, Untouched
<1> QED
  BY <1>3, <1>4, <1>5, <1>6, <1>7 DEF Vendor!Next

-----------------------------------------------------------------------------
(* The sessions with Katapult: KatapultSession_proofs has their invariant,  *)
(* which holds of the sessions here because they are the same.             *)

KP == INSTANCE KatapultSession_proofs

\* What that module assumes of its constants.
LEMMA SessionParameters == KP!Parameters
  BY Instances DEF KP!Parameters

\* The Katapult session of Bootloaders is the one its proofs are about.
LEMMA SameSession ==
  /\ Katapult!Init = KP!Init /\ Katapult!Next = KP!Next
  /\ KP!TypeOK => Katapult!TypeOK
  /\ KP!AcknowledgedIsWritten => Katapult!AcknowledgedIsWritten
  /\ KP!ReadBackIsFlash => Katapult!ReadBackIsFlash
  /\ KP!FewFaultsOnlyCostTheLastAnswer => Katapult!FewFaultsOnlyCostTheLastAnswer
<1>1. Katapult!Init = KP!Init /\ Katapult!Next = KP!Next
  BY Zenon DEF KP!host, Katapult!host, KP!link, Katapult!link, KP!board, Katapult!board,
     KP!given, Katapult!given, KP!Commands, Katapult!Commands, KP!Cells,
     Katapult!Cells, KP!Addresses, Katapult!Addresses, KP!Request,
     Katapult!Request, KP!Reply, Katapult!Reply, KP!Task, Katapult!Task,
     KP!Target, Katapult!Target, KP!Steps, Katapult!Steps, KP!Refusals,
     Katapult!Refusals, KP!Failures, Katapult!Failures, KP!Before,
     Katapult!Before, KP!CommandAt, Katapult!CommandAt, KP!Serve,
     Katapult!Serve, KP!Fault, Katapult!Fault, KP!LoseRequest,
     Katapult!LoseRequest, KP!LoseReply, Katapult!LoseReply, KP!Garble,
     Katapult!Garble, KP!InReach, Katapult!InReach, KP!Send, Katapult!Send,
     KP!SendFails, Katapult!SendFails, KP!Timeout, Katapult!Timeout,
     KP!Overrun, Katapult!Overrun, KP!Accepts, Katapult!Accepts, KP!Misread,
     Katapult!Misread, KP!Exhausted, Katapult!Exhausted, KP!Goto,
     Katapult!Goto, KP!End, Katapult!End, KP!Resend, Katapult!Resend,
     KP!NextBlock, Katapult!NextBlock, KP!Admit, Katapult!Admit, KP!Connected,
     Katapult!Connected, KP!Identified, Katapult!Identified, KP!WrongBlock,
     Katapult!WrongBlock, KP!Written, Katapult!Written, KP!Ended,
     Katapult!Ended, KP!Verdict, Katapult!Verdict, KP!ReadBack,
     Katapult!ReadBack, KP!Completed, Katapult!Completed, KP!Answered,
     Katapult!Answered, KP!OutOfReach, Katapult!OutOfReach, KP!Init,
     Katapult!Init, KP!Host, Katapult!Host, KP!Next, Katapult!Next
<1>2. KP!TypeOK => Katapult!TypeOK
  BY Zenon DEF KP!given, Katapult!given, KP!Commands, Katapult!Commands, KP!Cells,
     Katapult!Cells, KP!Addresses, Katapult!Addresses, KP!Request,
     Katapult!Request, KP!Reply, Katapult!Reply, KP!Task, Katapult!Task,
     KP!Target, Katapult!Target, KP!Steps, Katapult!Steps, KP!Refusals,
     Katapult!Refusals, KP!Failures, Katapult!Failures, KP!TypeOK,
     Katapult!TypeOK, KP!Before, Katapult!Before
<1>3. KP!AcknowledgedIsWritten => Katapult!AcknowledgedIsWritten
  BY Zenon DEF KP!Addresses, Katapult!Addresses, KP!Uploading, Katapult!Uploading,
     KP!Acknowledged, Katapult!Acknowledged, KP!AcknowledgedIsWritten,
     Katapult!AcknowledgedIsWritten
<1>4. KP!ReadBackIsFlash => Katapult!ReadBackIsFlash
  BY Zenon DEF KP!ReadBackIsFlash, Katapult!ReadBackIsFlash
<1>5. KP!FewFaultsOnlyCostTheLastAnswer => Katapult!FewFaultsOnlyCostTheLastAnswer
  BY Zenon DEF KP!Addresses, Katapult!Addresses, KP!Before, Katapult!Before,
     KP!Failures, Katapult!Failures, KP!FewFaultsOnlyCostTheLastAnswer,
     Katapult!FewFaultsOnlyCostTheLastAnswer
<1> QED
  BY <1>1, <1>2, <1>3, <1>4, <1>5

\* Its invariant holds at first,
LEMMA SessionInit ==
  ASSUME Katapult!Init
  PROVE  KP!SessionInv
  BY SessionParameters, SameSession, KP!SessionBegins DEF KP!SessionBegins

\* and is kept, with the retries of the code.
LEMMA SessionKeeps ==
  ASSUME KP!SessionInv, Katapult!Next \/ UNCHANGED KP!vars
  PROVE  KP!SessionInv'
<1>1. MaxFaults >= BLOCK_ATTEMPTS /\ MAX_ATTEMPTS + 1 >= 2 * BLOCK_ATTEMPTS
  BY Instances
<1>2. [KP!Next]_KP!vars
  BY SameSession
<1> QED
  BY <1>1, <1>2, SessionParameters, KP!SessionStep DEF KP!SessionStep

-----------------------------------------------------------------------------
(* The theorems. *)

FlashInv ==
    /\ part = "route" => RouteInv /\ RouteTurn
    /\ part = "vendor" => VendorInv
    /\ part = "katapult" => KP!SessionInv

\* Each part begins with its invariant.
LEMMA FlashInit ==
  ASSUME Init
  PROVE  FlashInv
<1>1. CASE part = "route" /\ Route!Init
  BY <1>1, RouteInit DEF FlashInv, RouteTurn, Route!Init
<1>2. CASE part = "vendor" /\ Vendor!Init
  BY <1>2, VendorInit DEF FlashInv
<1>3. CASE part = "katapult" /\ Katapult!Init
  BY <1>3, SessionInit DEF FlashInv
<1> QED
  BY <1>1, <1>2, <1>3 DEF Init

\* A stuttering step changes nothing that is said of a flash or a session.
LEMMA RouteStays ==
  ASSUME RouteInv, RouteTurn, UNCHANGED Route!vars
  PROVE  RouteInv' /\ RouteTurn'
<1>1. /\ UNCHANGED <<mcu, image, pc, polls, at, asked>>
      /\ UNCHANGED <<target, probed, allRead, written, told, outcome>>
  BY DEF Route!vars, Route!given, Route!places, Route!effects
<1>2. RouteSafe'
  BY <1>1, RouteQuiet DEF RouteInv
<1>3. Route!TypeOK'
  BY <1>1 DEF RouteInv, Route!TypeOK
<1>4. OnItsWay'
  BY <1>1 DEF RouteInv, OnItsWay, Own, Way, Looked, Asking, Chosen, Aimed, Settled,
     Route!Bridge
<1>5. RouteTurn'
  BY <1>1 DEF RouteTurn, Route!Here, Route!Restorable
<1> QED
  BY <1>2, <1>3, <1>4, <1>5 DEF RouteInv

\* A step of nothing.
LEMMA VendorStays ==
  ASSUME VendorInv, UNCHANGED Vendor!vars
  PROVE  VendorInv'
  BY DEF Vendor!vars, Vendor!given, VendorInv, Vendor!TypeOK, OnCourse, Holds, Untouched,
     Startable, Vendor!Complete, Vendor!Image

\* One part runs, and keeps its invariant.
LEMMA FlashStep ==
  ASSUME FlashInv, [Next]_vars
  PROVE  FlashInv'
<1>1. CASE part = "route" /\ Route!Next /\ UNCHANGED <<part, notFlashRoute>>
  <2>1. RouteInv /\ RouteTurn
    BY <1>1 DEF FlashInv
  <2>2. RouteInv'
    BY <1>1, <2>1, RouteStep
  <2>3. RouteTurn'
    BY <1>1, <2>1, <2>2, RouteKeeps
  <2> QED
    BY <1>1, <2>2, <2>3 DEF FlashInv
<1>2. CASE part = "vendor" /\ Vendor!Next /\ UNCHANGED <<part, notVendorFlash>>
  BY <1>2, VendorStep DEF FlashInv
<1>3. CASE part = "katapult" /\ Katapult!Next /\ UNCHANGED <<part, notKatapultSession>>
  BY <1>3, SessionKeeps DEF FlashInv
<1>4. CASE UNCHANGED vars
  <2>1. part = "route" => RouteInv' /\ RouteTurn'
    BY <1>4, RouteStays DEF FlashInv, vars, Route!vars, Route!given, Route!places,
       Route!effects
  <2>2. part = "vendor" => VendorInv'
    BY <1>4, VendorStays DEF FlashInv, vars, Vendor!vars, Vendor!given
  <2>3. part = "katapult" => KP!SessionInv'
    <3>1. UNCHANGED KP!vars
      BY <1>4 DEF vars, KP!vars, KP!given, KP!host, KP!link, KP!board
    <3> QED
      BY <3>1, SessionKeeps DEF FlashInv
  <2> QED
    BY <1>4, <2>1, <2>2, <2>3 DEF FlashInv, vars
<1> QED
  BY <1>1, <1>2, <1>3, <1>4 DEF Next

\* What the parts promise, from the invariant of each.
LEMMA FlashSafe ==
  ASSUME FlashInv
  PROVE  FlashIsSound
<1>1. ASSUME part = "katapult"
      PROVE  /\ Katapult!TypeOK /\ Katapult!AcknowledgedIsWritten
             /\ Katapult!ReadBackIsFlash /\ Katapult!FewFaultsOnlyCostTheLastAnswer
  BY <1>1, SameSession DEF FlashInv, KP!SessionInv, KP!IInv, KP!UInv
<1> QED
  BY <1>1, VendorIsSafe DEF FlashInv, FlashIsSound, RouteInv, RouteSafe, VendorInv,
     VendorSafe

\* By every way to every board, with every fault of its link: builds and
\* prebuilt images are written where they are linked, an unforced file over USB
\* DFU where the application was; no image goes to a bootloader it is not for or
\* to a flash that is protected, and none is started or reported before it is
\* whole.  Where the other files are written it leaves open.
THEOREM FlashesAreSound == Spec => []FlashIsSound
<1>1. Init => FlashInv
  BY FlashInit
<1>2. FlashInv /\ [Next]_vars => FlashInv'
  BY FlashStep
<1>3. FlashInv => FlashIsSound
  BY FlashSafe
<1> QED
  BY <1>1, <1>2, <1>3, PTL DEF Spec

\* What a run of updates relies on (RouteContract) every flash keeps, and what
\* a Katapult session promises (FlashContract) every session that reads back.
THEOREM FlashKeepsContract == Spec => ImplementsContract
<1> DEFINE Keeps ==
      /\ part = "route" => Route!Promise!Next \/ UNCHANGED Route!Promise!vars
      /\ part = "vendor" /\ backend # "beacon" =>
           Vendor!Contract!Next \/ UNCHANGED Vendor!Contract!vars
<1>1. Init => FlashInv
  BY FlashInit
<1>2. FlashInv /\ [Next]_vars => FlashInv'
  BY FlashStep
<1>3. Init => /\ part = "route" => Route!Promise!Init
              /\ part = "vendor" /\ backend # "beacon" => Vendor!Contract!Init
  <2>1. Route!Init => Route!Promise!Init
    BY DEF Route!Init, Route!Promise!Init, Route!Here, Route!Restorable
  <2>2. Vendor!Init => Vendor!Contract!Init
    BY DEF Vendor!Init, Vendor!Contract!Init, Vendor!Refusals
  <2> QED
    BY <2>1, <2>2 DEF Init
<1>4. FlashInv /\ FlashInv' /\ [Next]_vars => [Keeps]_vars
  <2> SUFFICES ASSUME FlashInv, FlashInv', Next
               PROVE  Keeps
    OBVIOUS
  <2>1. CASE part = "route" /\ Route!Next /\ UNCHANGED <<part, notFlashRoute>>
    BY <2>1, RouteKeeps DEF FlashInv
  <2>2. CASE part = "vendor" /\ Vendor!Next /\ UNCHANGED <<part, notVendorFlash>>
    BY <2>2, VendorKeeps DEF FlashInv
  <2>3. CASE part = "katapult" /\ Katapult!Next /\ UNCHANGED <<part, notKatapultSession>>
    BY <2>3
  <2> QED
    BY <2>1, <2>2, <2>3 DEF Next
<1> QED
  BY <1>1, <1>2, <1>3, <1>4, PTL DEF Spec, ImplementsContract

=============================================================================

------------------------------- MODULE Fleet -------------------------------
(***************************************************************************)
(* The rule between the printers of a host (fleet/peer.rs, fleet/system.rs,*)
(* flash_order.rs): a run that would flash a USB-CAN bridge asks the other *)
(* printers' Moonrakers first, each with four requests between which that  *)
(* printer goes on, and is refused unless none of them is at work on a bus *)
(* the bridge would cut off; the bridges are then flashed last.            *)
(*                                                                         *)
(* A host: `serves`, the unit behind each URL of the configuration, asked  *)
(* in their order; `silent`, those whose Moonraker names no unit, which is *)
(* then taken to be the one of the default name, `default`; `uses`, the    *)
(* CAN interfaces of each unit; `targets`, of which a bridge is reached    *)
(* over its own bus or over USB, when nobody knows that bus.               *)
(***************************************************************************)
EXTENDS Naturals, Sequences

CONSTANTS
    None,
    Own,     \* the unit of the run's own printer
    Units,   \* the units of the host
    Buses,   \* its CAN interfaces
    Hosts    \* hosts considered

VARIABLES
    host,
    state,     \* what each unit's Klipper does
    wasIdle,   \* history: units that were idle since the run began
    pc,
    probe,     \* the answers of the Moonraker that is being asked
    readings,  \* of those that were asked
    left,      \* targets still to flash
    down       \* buses a bridge's flash has taken away

vars == <<host, state, wasIdle, pc, probe, readings, left, down>>

States == {"disconnected", "startup", "error", "idle", "printing"}
Target == {t \in [bridge : BOOLEAN, bus : Buses \cup {None}, known : BOOLEAN] :
             t.bridge => t.bus \in Buses}

\* The names of units; DEFAULT_KLIPPER_UNIT may be the name of none of them.
Names == Units \cup {"klipper"}

\* What an instance gives them.
Fleets ==
    /\ Own \in Units /\ None \notin Units \cup States
    /\ \A h \in Hosts :
         /\ h.serves \in Seq(Units) /\ h.targets \in Seq(Target)
         /\ h.silent \subseteq DOMAIN h.serves /\ h.default \in Names
         /\ h.uses \in [Units -> SUBSET Buses]

Klippy == {"disconnected", "startup", "error", "ready", None}
Probe == [unit : Names \cup {None}, klippy : Klippy,
          print : {"idle", "busy", None}]
NoAnswers == [unit |-> None, klippy |-> None, print |-> None]

TypeOK ==
    /\ host \in Hosts
    /\ state \in [Units -> States] /\ wasIdle \subseteq Units
    /\ pc \in {"unit", "klippy", "print", "mcus", "check", "flash", "refused"}
    /\ probe \in Probe
    /\ readings \in Seq([unit : Names \cup {None}, blocks : BOOLEAN])
    /\ Len(readings) <= Len(host.serves)
    /\ left \in Seq(Target) /\ down \subseteq Buses

\* Nothing moves: Klipper is not connected, stopped on an error, or waits.
Idle(u) == state[u] \in {"disconnected", "error", "idle"}

-----------------------------------------------------------------------------
(* flash_order and bridge_bus. *)

\* The bridges last, everything else in its given order; there is one such
\* order.
FlashOrders(targets) ==
    LET places == DOMAIN targets
        Before(i, j) == \/ ~targets[i].bridge /\ targets[j].bridge
                        \/ targets[i].bridge = targets[j].bridge /\ i < j
    IN {[k \in places |-> targets[order[k]]] :
          order \in {o \in [places -> places] :
                       \A k, l \in places : k < l => Before(o[k], o[l])}}

Bridges == {i \in DOMAIN host.targets : host.targets[i].bridge}

\* A bridge on USB has no knowable interface, so every one counts.
CutOff == IF \E i \in Bridges : ~host.targets[i].known THEN Buses
          ELSE {host.targets[i].bus : i \in Bridges}

Init ==
    /\ host \in Hosts
    /\ state \in [Units -> States] /\ state[Own] = "idle"
    /\ wasIdle = {u \in Units : Idle(u)}
    /\ pc = IF host.serves = <<>> THEN "check" ELSE "unit"
    /\ probe = NoAnswers /\ readings = <<>>
    /\ left \in FlashOrders(host.targets) /\ down = {}

-----------------------------------------------------------------------------
(* probe_peer: what cannot be established is None. *)

Asked == host.serves[Len(readings) + 1]

Ask(step, next, field, answers) ==
    /\ pc = step /\ pc' = next
    /\ \E a \in answers \cup {None} : probe' = [probe EXCEPT ![field] = a]
    /\ UNCHANGED <<host, state, wasIdle, readings, left, down>>

\* klipper_unit, for which the default name stands in.
Said(i) == IF i \in host.silent THEN host.default ELSE host.serves[i]

AskUnit == Ask("unit", "klippy", "unit", {Said(Len(readings) + 1)})

AskKlippy ==
    Ask("klippy", "print", "klippy",
        {IF state[Asked] \in {"idle", "printing"} THEN "ready" ELSE state[Asked]})

\* Only a Klipper that is ready is asked, and only such a one answers.
AskPrint ==
    Ask("print", "mcus", "print",
        IF probe.klippy = "ready" /\ state[Asked] \in {"idle", "printing"}
        THEN {IF state[Asked] = "idle" THEN "idle" ELSE "busy"} ELSE {})

\* Mutant: a print state that could not be read counts as idle.
BlocksWhenBusy(p, mcus) ==
    \/ p.klippy \in {None, "startup"}
    \/ /\ p.klippy # "disconnected"
       /\ \/ mcus = None
          \/ mcus \cap CutOff # {} /\ p.klippy # "error" /\ p.print = "busy"

\* check_bridge.
Blocks(p, mcus) ==
    \/ p.klippy \in {None, "startup"}
    \/ /\ p.klippy # "disconnected"
       /\ \/ mcus = None
          \/ mcus \cap CutOff # {} /\ p.klippy # "error" /\ p.print # "idle"

\* A Klipper with an error reports the MCUs it would use, or none when it is
\* its configuration that failed to load.
Reported ==
    CASE state[Asked] \in {"idle", "printing"} -> {host.uses[Asked]}
      [] state[Asked] = "error" -> {host.uses[Asked], {}}
      [] OTHER -> {}

AskMcus ==
    /\ pc = "mcus"
    /\ \E mcus \in Reported \cup {None} :
         readings' = Append(readings, [unit |-> probe.unit,
                                       blocks |-> Blocks(probe, mcus)])
    /\ probe' = NoAnswers
    /\ pc' = IF Len(readings') = Len(host.serves) THEN "check" ELSE "unit"
    /\ UNCHANGED <<host, state, wasIdle, left, down>>

\* peers_excluding: not this printer, and each unit once; one that is not
\* known is kept.
Peers == {i \in DOMAIN readings :
            LET unit == readings[i].unit
            IN unit = None \/ (unit # Own /\ \A j \in 1..(i - 1) : readings[j].unit # unit)}

\* bridge_refusal.
Check ==
    /\ pc = "check"
    /\ pc' = IF Bridges # {} /\ \E i \in Peers : readings[i].blocks
             THEN "refused" ELSE "flash"
    /\ UNCHANGED <<host, state, wasIdle, probe, readings, left, down>>

\* run_updates flashes in the order it is given.
Flash ==
    /\ pc = "flash" /\ left # <<>>
    /\ left' = Tail(left)
    /\ down' = IF Head(left).bridge THEN down \cup {Head(left).bus} ELSE down
    /\ UNCHANGED <<host, state, wasIdle, pc, probe, readings>>

\* The printers go on: a print starts or ends, Klipper stops on an error, is
\* restarted or disconnected.
Printer ==
    /\ pc \notin {"flash", "refused"}
    /\ \E u \in Units \ {Own}, s \in States :
         /\ s = "printing" => state[u] = "idle"
         /\ s \in {"idle", "error"} => state[u] # "disconnected"
         /\ state' = [state EXCEPT ![u] = s]
         /\ wasIdle' = IF s \in {"startup", "printing"} THEN wasIdle
                       ELSE wasIdle \cup {u}
    /\ UNCHANGED <<host, pc, probe, readings, left, down>>

Done == (pc = "refused" \/ (pc = "flash" /\ left = <<>>)) /\ UNCHANGED vars

Next ==
    \/ AskUnit \/ AskKlippy \/ AskPrint \/ AskMcus \/ Check \/ Flash \/ Done
    \/ Printer

Spec == Init /\ [][Next]_vars
-----------------------------------------------------------------------------
(* What the rule promises. *)

\* The printer behind URL i has a name that is not this printer's and that no
\* URL before it gives to another: a Moonraker that names no unit may take or
\* give away the place of the unit of the default name.
ToldApart(i) ==
    /\ Said(i) # Own
    /\ \A j \in 1..(i - 1) :
         Said(j) = Said(i) => host.serves[j] = host.serves[i]

\* A bridge's run begins only if every other printer of the configuration
\* that uses a bus the bridge serves, and is told apart by its name, was idle
\* at some moment since the run asked; what it does afterwards nobody asks
\* again (check_bridge, probe_peer).
BusWasIdle ==
    pc = "flash" /\ Bridges # {} =>
        \A i \in DOMAIN host.serves :
          LET u == host.serves[i]
          IN ToldApart(i) /\ u # Own
               /\ (\E b \in Bridges : host.targets[b].bus \in host.uses[u])
             => u \in wasIdle

\* No MCU is flashed over a bus that an earlier flash of the run has taken
\* away (flash_order).
BusIsUp ==
    \A i \in DOMAIN left : ~left[i].bridge => left[i].bus \notin down
=============================================================================

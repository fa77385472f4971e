---------------------------- MODULE MCCommands ----------------------------
(* Commands, for TLC. *)
EXTENDS Commands, TLC

CONSTANTS
    user, other, root, p1, p2, p3   \* accounts and processes

-----------------------------------------------------------------------------
\* Three accounts, one of them root; two processes whose umask hides what
\* they create; fs.protected_regular; a cleaning of /tmp and a kill.
ThreeProcesses == {p1, p2, p3}
ThreeAccounts == {user, other, root}
TheirAccounts == p1 :> user @@ p2 :> other @@ p3 :> root
Masked == {p1, p3}
TwoFiles == 1..2

\* One self-update at a time, over three releases, killed twice.
OneUpdater == {p1}
FourFiles == 1..4

\* Two boards; one may take over the other's serial device.  And one board of
\* any kind, a Beacon among them, while Klipper changes.
TwoPorts == {"port1", "port2"}
OnePort == {"port1"}
OneTty == {"ttyACM0"}
TwoTtys == {"ttyACM0", "ttyACM1"}
KatapultOnly == {"katapult"}
EveryDevice == {"katapult", "stm32", "picoboot", "samba", "beacon", "application"}

\* Two accounts, two printers, an upgrade of aldis between two setups.
TwoUsers == {user, other}
TwoUrls == {"7125", "7126"}

\* Printers: this one's second Moonraker and another; one on the bridge's bus
\* and one beside it; both on it; two Moonrakers of one; and no bridge.  And
\* a Moonraker that names no unit: taken for this printer, for the next one
\* on the bus, and for no unit of the host.
bridge == [bridge |-> TRUE, bus |-> "can0", known |-> TRUE]
hidden == [bridge EXCEPT !.known = FALSE]
node == [bridge EXCEPT !.bridge = FALSE]
Printers(urls, a, b, mcus, silent, default) ==
    [serves |-> urls, targets |-> mcus, silent |-> silent, default |-> default,
     uses |-> "own" :> {"can0"} @@ "a" :> a @@ "b" :> b]
ThreeUnits == {"own", "a", "b"}
TwoBuses == {"can0", "can1"}
EightHosts ==
    {Printers(<<"own", "a">>, {"can0"}, {}, <<bridge, node>>, {}, "klipper"),
     Printers(<<"a", "b">>, {"can0"}, {"can1"}, <<bridge>>, {}, "own"),
     Printers(<<"a", "b">>, {"can0"}, {"can0"}, <<hidden>>, {}, "a"),
     Printers(<<"a", "a">>, {"can0"}, {"can1"}, <<node, bridge, node>>, {}, "a"),
     Printers(<<"a">>, {"can0"}, {}, <<node>>, {}, "klipper"),
     Printers(<<"a">>, {"can0"}, {}, <<bridge>>, {1}, "own"),
     Printers(<<"a", "b">>, {"can0"}, {"can0"}, <<bridge>>, {1}, "b"),
     Printers(<<"a", "a">>, {"can0"}, {}, <<bridge>>, {2}, "klipper")}
=============================================================================

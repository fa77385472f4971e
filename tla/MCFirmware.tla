---------------------------- MODULE MCFirmware ----------------------------
(* Firmware, for TLC. *)
EXTENDS Firmware, Sequences, TLC

-----------------------------------------------------------------------------
(* A line of three commits, the last one tagged, and a fork at the position   *)
(* of the second.                                                            *)
Line == {"a0", "a1", "a2", "f1"}
Release(minor, patch) == [major |-> 0, minor |-> minor, patch |-> patch]
Described ==
    [c \in Line |-> CASE c = "a0" -> [tag |-> Release(13, 0), commits |-> 5]
                      [] c \in {"a1", "f1"} -> [tag |-> Release(13, 0), commits |-> 6]
                      [] c = "a2" -> [tag |-> Release(13, 1), commits |-> 0]]
Hashes == [c \in Line |-> CASE c = "a0" -> <<"a", "0">> [] c = "a1" -> <<"b", "0">>
                            [] c = "a2" -> <<"c", "0">> [] c = "f1" -> <<"d", "1">>]
History == {<<"a0", "a1">>, <<"a1", "a2">>, <<"a0", "a2">>, <<"a0", "f1">>}
Minima ==
    [family \in {"klipper", "kalico"} |->
        [tag |-> IF family = "klipper" THEN Release(13, 0) ELSE Release(14, 0),
         commits |-> 6]]
HashDigits == {"0", "1", "a", "b", "c", "d"}

Known(family, kconfig) == [firmware |-> family, kconfig |-> kconfig]
ClassifiedMcus == {Known("klipper", "flashable"), Known("klipper", "none"),
                   Known("kalico", "flashable"), Known("unnamed", "unstated"),
                   Known("unnamed", "unflashable")}
PrebuiltMcus == {Known(v, "none") : v \in {"foci", "beacon", "cartographer", "beta"}}

Local == [local |-> TRUE, unit |-> TRUE, config |-> FALSE, klippy |-> "ready",
          print |-> "idle"]
ReadyHosts == {Local, [Local EXCEPT !.print = "busy"],
               [Local EXCEPT !.klippy = "error", !.print = None],
               [Local EXCEPT !.klippy = "startup"]}
OneHost == {Local}

-----------------------------------------------------------------------------
(* Two states of a clone whose manifest disagrees with one image, lists one  *)
(* image twice, and renames another.                                         *)
Built(chip, rate, lite, release) ==
    [app |-> TRUE, chip |-> chip, rate |-> rate, lite |-> lite,
     version |-> release, start |-> TRUE]
Row(path, generation, protocol, rate, lite, release, needs) ==
    [path |-> path, generation |-> generation, protocol |-> protocol, rate |-> rate,
     lite |-> lite, version |-> release, plugin |-> needs]

FirstClone ==
    [rows |-> <<Row("a", "v4", "USB", None, FALSE, 1, None),
                Row("b", "v4", "USB", None, FALSE, 2, 1),
                Row("c", "v4", "CAN", 1, FALSE, 1, None),
                Row("d", "v4", "USB", None, TRUE, 1, None)>>,
     images |-> ("a" :> Built("g431", None, FALSE, 1) @@
                 "b" :> Built("g431", None, FALSE, 2) @@
                 "c" :> Built("g431", 1, FALSE, 1) @@
                 "d" :> Built("g431", None, TRUE, 1))]
SecondClone ==
    [rows |-> <<Row("a", "v4", "USB", None, FALSE, 2, None),
                Row("b", "v4", "USB", None, TRUE, 2, 2),
                Row("c", "v4", "CAN", 1, FALSE, 2, None),
                Row("c", "v4", "CAN", 1, FALSE, 2, None),
                Row("d", "v4", "USB", None, TRUE, 1, None)>>,
     images |-> ("a" :> Built("g431", None, FALSE, 2) @@
                 "b" :> Built("g431", None, TRUE, 2) @@
                 "c" :> Built("g431", 1, FALSE, 2) @@
                 "d" :> Built("g431", None, TRUE, 0))]
TwoClones == {FirstClone, SecondClone}

Probe(chip, rate, lite, bus, release) ==
    [chip |-> chip, rate |-> rate, lite |-> lite, bus |-> bus, version |-> release]
SomeProbes ==
    {Probe("g431", None, FALSE, "serial", 0), Probe("g431", 1, FALSE, "can", 0),
     Probe("g431", None, TRUE, "serial", 1), Probe("g474", None, FALSE, "serial", 1),
     Probe("g431", 1, FALSE, "serial", 0), Probe("other", None, FALSE, "serial", 0)}
OtherFiles ==
    {Built("f042", None, FALSE, 2), Built("g431", 0, FALSE, 2),
     [Built("g431", None, TRUE, 0) EXCEPT !.start = FALSE],
     [Built("g431", None, TRUE, 0) EXCEPT !.app = FALSE],
     Built("g431", None, FALSE, 0), Built("g474", None, FALSE, 2)}
TwoRates == 0..1

-----------------------------------------------------------------------------
(* Three revisions, two of which share a bootloader's USB id; versions 2.9.1 *)
(* and 2.10.0, on both sides of a minor number of ten.                       *)
Three == {"d1", "e1", "h1"}
RevisionOf == [b \in Three |-> CASE b = "d1" -> "d" [] b = "e1" -> "e" [] b = "h1" -> "h"]
UsbIds == [r \in {"d", "e", "h"} |-> IF r = "d" THEN "beac" ELSE "bea1"]
TwoVersions == {8337, 8448}

-----------------------------------------------------------------------------
(* A known and an unknown board, two releases, each published twice.         *)
SomeBoards == {[board |-> "ouroboros", flavor |-> "prod"],
               [board |-> "openffboard", flavor |-> "trace"],
               [board |-> "ouroboros", flavor |-> "unknown"]}
=============================================================================

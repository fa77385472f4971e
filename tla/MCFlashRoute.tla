---------------------------- MODULE MCFlashRoute ----------------------------
(* A CAN bridge in front of FlashRoute, for TLC. *)
EXTENDS FlashRoute

Bridges ==
    [transport : {"can"}, host : {FALSE}, bridge : {TRUE}, via : BOOLEAN,
     start : {1}, small : {FALSE}, id : {"beac"}, enters : {"katapult", "stm32"},
     runs : {1}, looks : {{1}}]

\* Files that can run at one place, for the bridge's or for another.
Files ==
    {[form |-> "file", force |-> FALSE, links |-> "usb", linked |-> s,
      expected |-> s, plausible |-> {s}, id |-> "beac"] : s \in Starts}
=============================================================================

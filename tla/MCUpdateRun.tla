---------------------------- MODULE MCUpdateRun ----------------------------
(* Instances of UpdateRun for TLC: one MCU of each kind the code treats    *)
(* differently, and flashing orders that put every kind before another.    *)
EXTENDS UpdateRun

CONSTANTS
    usb,    \* built, on USB: waited for
    can,    \* built, on CAN: not waited for, target version unknown
    host,   \* the Linux host MCU
    probe,  \* prebuilt, on USB
    newer,  \* runs newer firmware than the checkout
    ghost   \* not in the inventory

\* Orders of one and two targets, and a longer one.
Orders == {<<usb, probe>>, <<probe, host>>, <<host, usb>>, <<can, newer>>,
           <<usb, ghost>>, <<host, can>>, <<usb, can, probe>>}
=============================================================================

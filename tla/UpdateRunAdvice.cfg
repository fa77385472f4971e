SPECIFICATION Spec
CONSTANTS
    usb = usb
    can = can
    host = host
    probe = probe
    newer = newer
    ghost = ghost
    NoMcu = NoMcu
    Mcus = {usb, can, host, probe, newer, ghost}
    Inventory = {usb, can, host, probe, newer, ghost}
    Host = {host}
    Prebuilt = {probe}
    Waited = {usb, host, probe}
    Newer = {}
    Unverifiable = {can}
    TargetLists <- Orders
    MaxPrints = 0
    MaxOutside = 0
CHECK_DEADLOCK FALSE
INVARIANTS
    StoppedIsTold

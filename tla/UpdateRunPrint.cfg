SPECIFICATION Spec
CONSTANTS
    usb = usb
    can = can
    host = host
    probe = probe
    newer = newer
    ghost = ghost
    NoMcu = NoMcu
    Mcus = {usb, can, host, probe, newer, ghost}
    Inventory = {usb, can, host, probe, newer}
    Host = {host}
    Prebuilt = {probe}
    Waited = {usb, host, probe}
    Newer = {newer}
    Unverifiable = {can}
    TargetLists <- Orders
    MaxPrints = 1
    MaxOutside = 0
CHECK_DEADLOCK FALSE
PROPERTIES
    NeverStopsAPrint

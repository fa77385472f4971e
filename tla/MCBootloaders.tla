---------------------------- MODULE MCBootloaders ----------------------------
(* Bootloaders, for TLC. *)
EXTENDS Bootloaders

CONSTANTS A, B

-----------------------------------------------------------------------------
(* MCUs of every kind that the routes tell apart, and images of every form.  *)
Usb == [transport |-> "usb", host |-> FALSE, bridge |-> FALSE, via |-> FALSE,
        start |-> 1, small |-> FALSE, id |-> "beac", enters |-> "katapult",
        runs |-> 1, looks |-> {0, 1}]
Entering(kind, from, seen) ==
    [Usb EXCEPT !.enters = kind, !.start = from, !.runs = from, !.looks = seen]

UsbMcus ==
    {Usb, Entering("stm32", 0, {0}), Entering("stm32", 1, {1}),
     Entering("stm32", 1, {0, 1}), Entering("stm32", 2, {0, 2}),
     [Entering("stm32", 0, {0}) EXCEPT !.start = None],
     Entering("picoboot", 0, {0}), Entering("samba", 2, {2}),
     Entering("samba", 0, {0}), [Entering("samba", 1, {1}) EXCEPT !.start = None],
     [Entering("samba", 1, {1}) EXCEPT !.small = TRUE],
     Entering("beacon", 0, {0}), Entering("other", 0, {0}),
     Entering("application", 0, {0})}
OtherMcus ==
    {[Usb EXCEPT !.transport = "none", !.host = TRUE],
     [Usb EXCEPT !.transport = "none"]}
    \cup {[Usb EXCEPT !.transport = link, !.enters = kind] :
            link \in {"uart", "can"}, kind \in {"katapult", "other", "application"}}
    \cup {[m EXCEPT !.transport = "can", !.bridge = TRUE, !.via = mine] :
            m \in {Usb, Entering("stm32", 1, {1}), Entering("picoboot", 0, {0})},
            mine \in BOOLEAN}

Plain(kind, from) ==
    [form |-> kind, force |-> FALSE, links |-> "usb", linked |-> from,
     expected |-> from, plausible |-> {from}, id |-> "beac"]
FileImages ==
    UNION {{[Plain("file", s) EXCEPT !.expected = e, !.plausible = p, !.force = f] :
              s \in p, f \in BOOLEAN} : e \in 0..2, p \in SUBSET (0..2)}
AllImages ==
    {Plain("build", s) : s \in 0..2}
    \cup {[Plain("prebuilt", s) EXCEPT !.links = l] :
            s \in {0, 1}, l \in {"usb", "usb_or_can"}}
    \cup {Plain("beacon", 0), [Plain("beacon", 0) EXCEPT !.id = "bea1"]}
    \cup {i \in FileImages : i.plausible \subseteq 0..i.expected}
    \cup {[Plain("file", 0) EXCEPT !.expected = None, !.plausible = {}, !.force = f] :
            f \in BOOLEAN}
AllMcus == UsbMcus \cup OtherMcus

-----------------------------------------------------------------------------
\* Every session of every vendor's backend; the three that read back.
AllBackends == {"stm32", "picoboot", "samba", "beacon"}

-----------------------------------------------------------------------------
(* Katapult with the code's own retry counts and more faults than it         *)
(* tolerates: firmware of equal and of different blocks, over a serial port, *)
(* for a board that keeps what it is sent.                                   *)
TwoContents == {A, B}
Uploads == [leave : {FALSE}, canbus : {FALSE},
            firmware : {[a \in 0..2 |-> A], [a \in 0..2 |-> IF a = 0 THEN A ELSE B]}]
SoundBoard == [own : {TRUE}, misplaced : {FALSE}, supported : {TRUE},
               sound : {TRUE}, room : {3}]
=============================================================================

------------------------------ MODULE HostLock ------------------------------
(***************************************************************************)
(* What the update lock promises every command and every agent of a host:  *)
(* one holder at a time, and nobody but a holder gives it up.  Unlinking   *)
(* the file, which no part of aldis does, makes room for one more.         *)
(* LockFile implements it; AgentService uses it without the unlinking.     *)
(***************************************************************************)
EXTENDS Naturals, FiniteSets

CONSTANT Processes

VARIABLES holders, room

TypeOK == holders \subseteq Processes /\ room \in Nat

Init == holders = {} /\ room = 1

Take(p) ==
    /\ p \notin holders /\ Cardinality(holders) < room
    /\ holders' = holders \cup {p} /\ UNCHANGED room

\* Given up, or closed by the kernel when the process dies.
Release(p) ==
    /\ p \in holders
    /\ holders' = holders \ {p} /\ UNCHANGED room

Unlink == room' = room + 1 /\ UNCHANGED holders

Next == Unlink \/ \E p \in Processes : Take(p) \/ Release(p)

vars == <<holders, room>>

Spec == Init /\ [][Next]_vars
=============================================================================

---------------------------- MODULE FlashContract ----------------------------
(***************************************************************************)
(* What a bootloader session promises, whatever the link does: flash is    *)
(* rewritten only by an upload and only before the application is started, *)
(* an application is started only over an image that is complete or that   *)
(* was never touched, and the result is true.  KatapultSession implements  *)
(* it.                                                                     *)
(***************************************************************************)
VARIABLES
    goal,     \* what the flash holds when the session succeeds
    content,  \* what it holds
    running,  \* the session started the application
    result    \* what the caller is told

vars == <<goal, content, running, result>>

Images == {"before", "partial", "image"}

TypeOK ==
    /\ goal \in {"before", "image"}
    /\ content \in Images
    /\ running \in BOOLEAN
    /\ result \in {"none", "success", "refused", "failed"}

Init ==
    /\ goal \in {"before", "image"}
    /\ content = "before"
    /\ running = FALSE
    /\ result = "none"

\* The last request of a session that failed may still be on its way.
Rewrite ==
    /\ goal = "image" /\ ~running
    /\ result \in {"none", "failed"}
    /\ content' \in Images \ {"before"}
    /\ UNCHANGED <<goal, running, result>>

Start ==
    /\ ~running
    /\ content # "partial"
    /\ running' = TRUE
    /\ UNCHANGED <<goal, content, result>>

Report ==
    /\ result = "none"
    /\ \/ result' = "success" /\ running /\ content = goal
       \/ result' = "refused" /\ content = "before"
       \/ result' = "failed"
    /\ UNCHANGED <<goal, content, running>>

Next == Rewrite \/ Start \/ Report

Spec == Init /\ [][Next]_vars
=============================================================================

-------------------------- MODULE KatapultSession --------------------------
(***************************************************************************)
(* One session with a Katapult bootloader: KatapultSession (session.rs) as *)
(* KatapultAdapter::flash and leave_serial drive it, over a transport that *)
(* loses, garbles and delays (serial.rs, can.rs).                          *)
(*                                                                         *)
(* The protocol has no sequence numbers and the transports never flush     *)
(* their input: an answer that arrives after its exchange timed out is     *)
(* read by the next one.  `requests` and `replies` are what the link       *)
(* holds, in order; an answer is late when its request is served late.     *)
(* A reply is what decode_response makes of its bytes; a block is its      *)
(* content, and SHA-1 is taken to tell contents apart.                     *)
(***************************************************************************)
EXTENDS Naturals, Sequences

CONSTANTS
    Blocks,         \* blocks of the padded firmware
    Contents,       \* what a block of firmware may hold
    Old,            \* what a block held before the session
    Spoilt,         \* what a failed write leaves in a block
    MAX_ATTEMPTS, BLOCK_ATTEMPTS,
    Tasks, Targets, \* bound: sessions and boards considered
    MaxFaults       \* bound: faults of the link

ASSUME Parameters ==
    /\ {Blocks, MAX_ATTEMPTS, BLOCK_ATTEMPTS} \subseteq Nat \ {0}
    /\ MaxFaults \in Nat
    /\ {Old, Spoilt} \cap Contents = {} /\ Old # Spoilt

VARIABLES
    task,       \* what the session is asked to do
    target,     \* what the board at the other end is like
    step,       \* the command the host is at
    index,      \* the block it is at
    tries,      \* wrong addresses for this block
    attempts,   \* exchanges begun for this command
    awaiting,   \* an exchange is under way
    readback,   \* blocks read back so far
    outcome,    \* what the session returned
    requests, replies,
    flash,      \* the application area
    mode,       \* what the board executes
    faults      \* used budget of the bound

host == <<step, index, tries, attempts, awaiting, readback, outcome>>
link == <<requests, replies>>
board == <<flash, mode>>
given == <<task, target>>
vars == <<given, host, link, board, faults>>

Commands == {"Connect", "GetCanbusId", "SendBlock", "SendEof",
             "RequestBlock", "Complete"}
Cells == Contents \cup {Old, Spoilt}
Addresses == 0..(Blocks - 1)

Request == [command : Commands, address : Addresses, block : Contents]
\* `legible`: decode_response accepts it; `whole`: as long as it should be.
Reply == [command : Commands, address : Addresses, block : Cells,
          legible : BOOLEAN, whole : BOOLEAN]

\* `leave`: leave_serial, which writes nothing; `canbus`: the UUID is checked.
Task == [leave : BOOLEAN, canbus : BOOLEAN, firmware : [Addresses -> Contents]]
\* `own`: it has the configured UUID; `misplaced`: it starts applications
\* elsewhere than expected; `room`: blocks that 32-bit addresses reach from
\* there; `supported`: its block size is; `sound`: its flash and answers are.
Target == [own : BOOLEAN, misplaced : BOOLEAN, supported : BOOLEAN,
           sound : BOOLEAN, room : 0..Blocks]

Steps == {"connect", "uuid", "refuse", "write", "eof", "read", "complete",
          "end"}
Refusals == {"target", "uuid_mismatch", "start_mismatch"}
Failures == {"retries", "short", "address", "overflow", "checksum"}

TypeOK ==
    /\ task \in Task /\ target \in Target
    /\ step \in Steps
    /\ index \in Addresses
    /\ tries \in 0..(BLOCK_ATTEMPTS - 1)
    /\ attempts \in 0..MAX_ATTEMPTS
    /\ awaiting \in BOOLEAN
    /\ readback \in [Addresses -> Cells]
    /\ outcome \in {"none", "success"} \cup Refusals \cup Failures
    /\ requests \in Seq(Request)
    /\ replies \in Seq(Reply)
    /\ flash \in [Addresses -> Cells]
    /\ mode \in {"bootloader", "application"}
    /\ faults \in 0..MaxFaults

Before == [a \in Addresses |-> Old]

CommandAt(s) ==
    CASE s = "connect" -> "Connect"
      [] s = "uuid" -> "GetCanbusId"
      [] s = "write" -> "SendBlock"
      [] s = "eof" -> "SendEof"
      [] s = "read" -> "RequestBlock"
      [] OTHER -> "Complete"

-----------------------------------------------------------------------------
(* The link and the board. *)

\* A board that serves a request answers it; a Complete starts the
\* application, which knows nothing of the requests left.
Serve ==
    /\ mode = "bootloader" /\ requests # <<>>
    /\ LET r == Head(requests)
           exact == IF target.sound THEN {TRUE} ELSE BOOLEAN
       IN  \E kept \in exact, whole \in exact :
             /\ flash' = IF r.command # "SendBlock" THEN flash
                         ELSE [flash EXCEPT ![r.address] =
                                 IF kept THEN r.block ELSE Spoilt]
             /\ replies' = Append(replies,
                  [command |-> r.command, address |-> r.address,
                   block |-> IF r.command = "RequestBlock"
                             THEN flash[r.address] ELSE r.block,
                   legible |-> TRUE, whole |-> whole])
             /\ IF r.command = "Complete"
                THEN mode' = "application" /\ requests' = <<>>
                ELSE mode' = mode /\ requests' = Tail(requests)
    /\ UNCHANGED <<given, host, faults>>

Fault == faults < MaxFaults /\ faults' = faults + 1

LoseRequest ==
    /\ Fault /\ requests # <<>>
    /\ requests' = SubSeq(requests, 1, Len(requests) - 1)
    /\ UNCHANGED <<given, host, replies, board>>

LoseReply ==
    /\ Fault /\ replies # <<>>
    /\ replies' = SubSeq(replies, 1, Len(replies) - 1)
    /\ UNCHANGED <<given, host, requests, board>>

\* A broken checksum, a rejection status: decode_response refuses it.
Garble ==
    /\ Fault /\ replies # <<>>
    /\ replies' = [replies EXCEPT ![Len(replies)].legible = FALSE]
    /\ UNCHANGED <<given, host, requests, board>>

-----------------------------------------------------------------------------
(* KatapultSession::command and the transports' exchange. *)

\* block_address fails for a block beyond the 32-bit space.
InReach == step # "write" \/ index < target.room

Send ==
    /\ step # "end" /\ ~awaiting /\ InReach
    /\ attempts < MAX_ATTEMPTS
    /\ attempts' = attempts + 1
    /\ awaiting' = TRUE
    /\ requests' = IF mode = "application" THEN requests
                   ELSE Append(requests, [command |-> CommandAt(step),
                          address |-> index, block |-> task.firmware[index]])
    /\ UNCHANGED <<given, step, index, tries, readback, outcome, replies,
                   board, faults>>

\* The write of the request itself fails.
SendFails ==
    /\ Fault
    /\ step # "end" /\ ~awaiting /\ InReach
    /\ attempts < MAX_ATTEMPTS
    /\ attempts' = attempts + 1
    /\ UNCHANGED <<given, step, index, tries, awaiting, readback, outcome,
                   link, board>>

\* Mutant: attempts are not bounded.
TimeoutRetried ==
    /\ awaiting /\ replies = <<>>
    /\ awaiting' = FALSE
    /\ attempts' = 0
    /\ UNCHANGED <<given, step, index, tries, readback, outcome, link, board,
                   faults>>

\* Nothing arrives in time.  A request not yet served will be served late,
\* which counts as a fault of the link.
Timeout ==
    /\ awaiting /\ replies = <<>>
    /\ awaiting' = FALSE
    /\ faults' = IF requests # <<>> /\ faults < MaxFaults
                 THEN faults + 1 ELSE faults
    /\ UNCHANGED <<given, step, index, tries, attempts, readback, outcome,
                   link, board>>

\* A serial read returns what has arrived.  Several frames in one chunk are
\* longer than the header of the first declares, and are dropped together.
Overrun ==
    /\ awaiting /\ ~task.canbus
    /\ \E n \in 2..Len(replies) : replies' = SubSeq(replies, n + 1, Len(replies))
    /\ awaiting' = FALSE
    /\ UNCHANGED <<given, step, index, tries, attempts, readback, outcome,
                   requests, board, faults>>

\* Mutant: any legible answer will do.
AcceptsAny(reply) == reply.legible

\* The answer command() returns: legible, and for the command sent.
Accepts(reply) == reply.legible /\ reply.command = CommandAt(step)

\* A frame that is not that answer costs an attempt.
Misread ==
    /\ awaiting /\ replies # <<>>
    /\ ~Accepts(Head(replies))
    /\ awaiting' = FALSE
    /\ replies' = Tail(replies)
    /\ UNCHANGED <<given, step, index, tries, attempts, readback, outcome,
                   requests, board, faults>>

\* Mutant: a missing answer to the last Complete is ignored too.
ExhaustedQuietly ==
    /\ step # "end" /\ ~awaiting
    /\ attempts = MAX_ATTEMPTS
    /\ outcome' = CASE step = "refuse" -> "start_mismatch"
                    [] step = "complete" -> "success"
                    [] OTHER -> "retries"
    /\ step' = "end"
    /\ UNCHANGED <<given, index, tries, attempts, awaiting, readback, link,
                   board, faults>>

Exhausted ==
    /\ step # "end" /\ ~awaiting
    /\ attempts = MAX_ATTEMPTS
    /\ outcome' = IF step = "refuse" THEN "start_mismatch" ELSE "retries"
    /\ step' = "end"
    /\ UNCHANGED <<given, index, tries, attempts, awaiting, readback, link,
                   board, faults>>

-----------------------------------------------------------------------------
(* What the caller of command() does with its answer. *)

Goto(s) == step' = s /\ index' = 0 /\ tries' = 0 /\ UNCHANGED outcome
End(o) == step' = "end" /\ outcome' = o /\ UNCHANGED <<index, tries>>
Resend == tries' = tries + 1 /\ UNCHANGED <<step, index, outcome>>
NextBlock == index' = index + 1 /\ tries' = 0 /\ UNCHANGED <<step, outcome>>

\* Mutant: the start address is not compared.
AdmitAll == Goto("write")

\* KatapultAdapter::flash compares the start address after the identity.
Admit == Goto(IF target.misplaced THEN "refuse" ELSE "write")

Connected(reply) ==
    /\ step = "connect"
    /\ \/ ~reply.whole /\ End("short")
       \/ reply.whole /\ ~target.supported /\ End("target")
       \/ reply.whole /\ target.supported /\ task.leave /\ Goto("complete")
       \/ reply.whole /\ target.supported /\ ~task.leave
          /\ IF task.canbus THEN Goto("uuid") ELSE Admit
    /\ UNCHANGED readback

Identified(reply) ==
    /\ step = "uuid"
    /\ \/ ~reply.whole /\ End("short")
       \/ reply.whole /\ ~target.own /\ End("uuid_mismatch")
       \/ reply.whole /\ target.own /\ Admit
    /\ UNCHANGED readback

\* Mutant: one address too few is forgiven.
WrongBlockImpatient(reply) ==
    /\ reply.whole /\ reply.address # index
    /\ IF tries + 2 < BLOCK_ATTEMPTS THEN Resend ELSE End("address")

\* Mutant: one address too many is forgiven.
WrongBlockOnceMore(reply) ==
    /\ reply.whole /\ reply.address # index
    /\ IF tries < BLOCK_ATTEMPTS THEN Resend ELSE End("address")

WrongBlock(reply) ==
    /\ reply.whole /\ reply.address # index
    /\ IF tries + 1 < BLOCK_ATTEMPTS THEN Resend ELSE End("address")

\* Mutant: an acknowledgement counts whatever block it is for.
WrittenAny(reply) ==
    /\ step = "write"
    /\ \/ ~reply.whole /\ End("short")
       \/ /\ reply.whole
          /\ IF index + 1 < Blocks THEN NextBlock ELSE Goto("eof")
    /\ UNCHANGED readback

Written(reply) ==
    /\ step = "write"
    /\ \/ ~reply.whole /\ End("short")
       \/ WrongBlock(reply)
       \/ /\ reply.whole /\ reply.address = index
          /\ IF index + 1 < Blocks THEN NextBlock ELSE Goto("eof")
    /\ UNCHANGED readback

Ended(reply) ==
    /\ step = "eof"
    /\ IF reply.whole THEN Goto("read") ELSE End("short")
    /\ UNCHANGED readback

\* Mutant: the sums are not compared.
VerdictFine(read) == Goto("complete")

\* The two SHA-1 sums are compared after the last block.
Verdict(read) ==
    IF read = task.firmware THEN Goto("complete") ELSE End("checksum")

ReadBack(reply) ==
    /\ step = "read"
    /\ \/ ~reply.whole /\ End("short") /\ UNCHANGED readback
       \/ WrongBlock(reply) /\ UNCHANGED readback
       \/ /\ reply.whole /\ reply.address = index
          /\ readback' = [readback EXCEPT ![index] = reply.block]
          /\ IF index + 1 < Blocks THEN NextBlock ELSE Verdict(readback')

Completed(reply) ==
    /\ step \in {"refuse", "complete"}
    /\ End(IF step = "refuse" THEN "start_mismatch" ELSE "success")
    /\ UNCHANGED readback

Answered ==
    /\ awaiting /\ replies # <<>>
    /\ Accepts(Head(replies))
    /\ awaiting' = FALSE
    /\ attempts' = 0
    /\ replies' = Tail(replies)
    /\ \/ Connected(Head(replies)) \/ Identified(Head(replies))
       \/ Written(Head(replies)) \/ Ended(Head(replies))
       \/ ReadBack(Head(replies)) \/ Completed(Head(replies))
    /\ UNCHANGED <<given, requests, board, faults>>

OutOfReach ==
    /\ ~InReach /\ ~awaiting
    /\ End("overflow")
    /\ UNCHANGED <<given, attempts, awaiting, readback, link, board, faults>>

-----------------------------------------------------------------------------
Init ==
    /\ task \in Tasks \cap Task /\ ~(task.leave /\ task.canbus)
    /\ target \in Targets \cap Target
    /\ step = "connect" /\ index = 0 /\ tries = 0 /\ attempts = 0
    /\ awaiting = FALSE
    /\ readback = Before
    /\ outcome = "none"
    /\ requests = <<>> /\ replies = <<>>
    /\ flash = Before /\ mode = "bootloader"
    /\ faults = 0

Host == \/ Send \/ Timeout \/ Overrun \/ Misread \/ Exhausted
        \/ Answered \/ OutOfReach

Next == Host \/ SendFails \/ Serve \/ LoseRequest \/ LoseReply \/ Garble

\* The host is one sequential thread and its reads time out; nothing is
\* assumed of the link or the board.
Spec == Init /\ [][Next]_vars /\ WF_vars(Host)

-----------------------------------------------------------------------------
(* Properties. *)

Uploading == ~task.leave /\ step \in {"write", "eof", "read", "complete"}

Acknowledged ==
    IF step = "write" THEN 0..(index - 1)
    ELSE IF Uploading THEN Addresses ELSE {}

\* A block counted as acknowledged was written by the board: an answer to an
\* earlier block, read late, is never taken for it (write_block).
AcknowledgedIsWritten == \A a \in Acknowledged : flash[a] # Old

\* A block the host read back is what the flash holds, however late its
\* answer was (read_block, upload).
ReadBackIsFlash ==
    step = "read" => \A a \in 0..(index - 1) : readback[a] = flash[a]

\* Once the board acknowledged the end of the file nothing writes its flash:
\* no duplicate of a block is still on its way while blocks are read back.
FrozenAfterEof ==
    [][(step \in {"read", "complete"}) => (flash' = flash)]_vars

\* An application is started only over the image that was read back, or over
\* flash nobody touched (adapter.rs: "starts the application only after
\* successful verification").
OnlyVerifiedStarts ==
    mode = "application" => flash \in {Before, task.firmware}

\* A board whose identity, start address or geometry is wrong, or that was
\* only asked to leave its bootloader, is never written, not even by a
\* request that arrives after the session ended.
RefusedIsUntouched ==
    \/ task.leave
    \/ task.canbus /\ ~target.own
    \/ target.misplaced \/ ~target.supported
    => flash = Before

\* With a sound board, fewer faults than BLOCK_ATTEMPTS cost at most the last
\* answer: whatever was lost, garbled or late, the upload goes through, and
\* if it reports a failure the verified image is running (the answer to
\* Complete was lost, and the application does not answer a retry).
FewFaultsOnlyCostTheLastAnswer ==
    (/\ outcome \in Failures \ {"overflow"}
     /\ target.sound
     /\ faults < BLOCK_ATTEMPTS)
    => /\ outcome = "retries"
       /\ mode = "application"
       /\ flash = IF task.leave THEN Before ELSE task.firmware

\* Every session ends, whatever the link and the board do (MAX_ATTEMPTS,
\* BLOCK_ATTEMPTS, the exchange deadlines).
Terminates == <>(outcome # "none")

Contract == INSTANCE FlashContract WITH
    goal <- IF task.leave THEN "before" ELSE "image",
    content <- CASE flash = Before -> "before"
                 [] flash = task.firmware -> "image"
                 [] OTHER -> "partial",
    running <- mode = "application",
    result <- CASE outcome \in Refusals -> "refused"
                [] outcome \in Failures -> "failed"
                [] OTHER -> outcome

\* A session keeps its contract: the result is true of the board, and flash is
\* rewritten only by an upload and never under a started application.
ImplementsContract == Contract!Spec
=============================================================================

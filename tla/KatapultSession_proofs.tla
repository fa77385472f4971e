---------------------- MODULE KatapultSession_proofs ----------------------
(***************************************************************************)
(* Theorems about KatapultSession, for every firmware, number of blocks,   *)
(* retry bound and number of faults: an application is started only over a *)
(* verified or untouched image, blocks read back are the flash, flash is   *)
(* frozen while they are, a refused board is untouched, a session keeps    *)
(* its contract, and a few faults cost it at most its last answer.         *)
(***************************************************************************)
EXTENDS KatapultSession, SequenceTheorems, FiniteSetTheorems, TLAPS

\* The link keeps the order of commands.  What matters of it: nothing that
\* writes follows anything sent after the last block.
LateCommands == {"SendEof", "RequestBlock", "Complete"}
HasLate(s) == \E i \in 1..Len(s) : s[i].command \in LateCommands
AllLate(s) == \A i \in 1..Len(s) : s[i].command \in LateCommands
Sealed(s) == \A i, j \in 1..Len(s) :
    i < j /\ s[i].command \in LateCommands => s[j].command \in LateCommands
Holds(s, c) == \E i \in 1..Len(s) : s[i].command = c

InOrder ==
    /\ Sealed(requests) /\ Sealed(replies)
    /\ HasLate(replies) => AllLate(requests)
NothingLateYet ==
    step \in {"connect", "uuid", "write"} => ~HasLate(requests) /\ ~HasLate(replies)
PastEof == step = "read" => AllLate(requests) /\ AllLate(replies)

\* The checks that come before the first write.
MayWrite == ~task.leave /\ ~target.misplaced /\ target.supported
            /\ (task.canbus => target.own)
Permitted ==
    /\ step \in {"write", "eof", "read"} => MayWrite
    /\ step = "complete" => task.leave \/ MayWrite
    /\ step = "uuid" => ~task.leave /\ target.supported /\ task.canbus
    /\ step = "refuse" => ~task.leave
Touched == flash # Before \/ Holds(requests, "SendBlock")
TouchedIsPermitted ==
    Touched => /\ MayWrite
               /\ step \notin {"connect", "uuid", "refuse"}
               /\ outcome \notin Refusals

\* An answer to a read shows the flash as it still is.
ReadsAreCurrent == \A i \in 1..Len(replies) :
    replies[i].command = "RequestBlock"
    => replies[i].block = flash[replies[i].address]

Goal == IF task.leave THEN Before ELSE task.firmware
Verified == step = "complete" => flash = Goal /\ ~Holds(requests, "SendBlock")
Launch ==
    /\ Holds(requests, "Complete")
       => flash \in {Before, task.firmware} /\ ~Holds(requests, "SendBlock")
    /\ mode = "application"
       => flash \in {Before, task.firmware} /\ requests = <<>>
    /\ Holds(replies, "Complete") => mode = "application"
Over ==
    /\ outcome # "none" <=> step = "end"
    /\ outcome = "success" => mode = "application" /\ flash = Goal

IInv == /\ TypeOK /\ InOrder /\ NothingLateYet /\ PastEof /\ Permitted
        /\ TouchedIsPermitted /\ ReadsAreCurrent /\ ReadBackIsFlash
        /\ Verified /\ Launch /\ Over

-----------------------------------------------------------------------------
(* Sequences that lose elements. *)

\* `t` is a stretch of `s`, legibility aside.
Part(t, s) == \E k \in Nat :
    /\ Len(t) + k <= Len(s)
    /\ \A i \in 1..Len(t) : /\ t[i].command = s[i + k].command
                             /\ t[i].address = s[i + k].address
                             /\ t[i].block = s[i + k].block

\* What a stretch of a sequence keeps of it.
LEMMA PartKeeps ==
  ASSUME NEW S, NEW s \in Seq(S), NEW t \in Seq(S), Part(t, s)
  PROVE  /\ Sealed(s) => Sealed(t)
         /\ HasLate(t) => HasLate(s)
         /\ AllLate(s) => AllLate(t)
         /\ \A c \in Commands : Holds(t, c) => Holds(s, c)
         /\ \A i \in 1..Len(t) : \E j \in 1..Len(s) :
              /\ t[i].command = s[j].command
              /\ t[i].address = s[j].address
              /\ t[i].block = s[j].block
         /\ s = <<>> => t = <<>>
<1>1. PICK k \in Nat :
        /\ Len(t) + k <= Len(s)
        /\ \A i \in 1..Len(t) : /\ t[i].command = s[i + k].command
                                 /\ t[i].address = s[i + k].address
                                 /\ t[i].block = s[i + k].block
  BY DEF Part
<1>2. Len(s) \in Nat /\ Len(t) \in Nat
  OBVIOUS
<1>3. \A i \in 1..Len(t) : i + k \in 1..Len(s)
  BY <1>1, <1>2
<1>4. Sealed(s) => Sealed(t)
  <2> SUFFICES ASSUME Sealed(s), NEW i \in 1..Len(t), NEW j \in 1..Len(t),
                      i < j, t[i].command \in LateCommands
               PROVE  t[j].command \in LateCommands
    BY DEF Sealed
  <2>1. i + k \in 1..Len(s) /\ j + k \in 1..Len(s) /\ i + k < j + k
    BY <1>3, <1>2
  <2>2. s[i + k].command \in LateCommands
    BY <1>1
  <2>3. s[j + k].command \in LateCommands
    BY <2>1, <2>2 DEF Sealed
  <2> QED
    BY <2>3, <1>1
<1>5. HasLate(t) => HasLate(s)
  BY <1>1, <1>3 DEF HasLate
<1>6. AllLate(s) => AllLate(t)
  BY <1>1, <1>3 DEF AllLate
<1>7. \A c \in Commands : Holds(t, c) => Holds(s, c)
  BY <1>1, <1>3 DEF Holds
<1>8. \A i \in 1..Len(t) : \E j \in 1..Len(s) :
         /\ t[i].command = s[j].command
         /\ t[i].address = s[j].address
         /\ t[i].block = s[j].block
  BY <1>1, <1>3
<1>9. s = <<>> => t = <<>>
  <2>1. s = <<>> => Len(t) = 0
    BY <1>1, <1>2
  <2> QED
    BY <2>1, EmptySeq
<1> QED
  BY <1>4, <1>5, <1>6, <1>7, <1>8, <1>9

\* A sequence is a part of itself,
LEMMA PartSelf ==
  ASSUME NEW S, NEW s \in Seq(S) PROVE Part(s, s)
<1>1. Len(s) + 0 <= Len(s) /\ \A i \in 1..Len(s) : s[i] = s[i + 0]
  OBVIOUS
<1> QED
  BY <1>1 DEF Part

\* so is what is left when its first element is taken,
LEMMA PartTail ==
  ASSUME NEW S, NEW s \in Seq(S), s # <<>>
  PROVE  /\ Part(Tail(s), s) /\ Tail(s) \in Seq(S)
         /\ Head(s) = s[1] /\ 1 \in 1..Len(s)
<1>1. /\ Tail(s) \in Seq(S) /\ Len(Tail(s)) = Len(s) - 1
      /\ \A i \in 1..Len(Tail(s)) : Tail(s)[i] = s[i + 1]
  BY HeadTailProperties
<1>2. Len(s) \in Nat \ {0} /\ Head(s) = s[1]
  BY EmptySeq
<1> QED
  BY <1>1, <1>2 DEF Part

\* The elements that are left when the last is lost.
LEMMA FrontElements ==
  ASSUME NEW S, NEW s \in Seq(S), s # <<>>,
         NEW t, t = SubSeq(s, 1, Len(s) - 1)
  PROVE  /\ t \in Seq(S) /\ Len(t) = Len(s) - 1 /\ Len(s) >= 1
         /\ \A i \in 1..Len(t) : t[i] = s[i + 0] /\ i + 0 \in 1..Len(s) /\ i + 0 = i
<1>1. Len(s) \in Nat \ {0}
  BY EmptySeq
<1>2. \A i \in 1..(Len(s) - 1) : s[i] \in S
  BY <1>1, ElementOfSeq
<1> DEFINE n == Len(s) - 1
<1>3. /\ SubSeq(s, 1, n) \in Seq(S)
      /\ Len(SubSeq(s, 1, n)) = IF 1 <= n THEN n - 1 + 1 ELSE 0
      /\ \A i \in 1..(n - 1 + 1) : SubSeq(s, 1, n)[i] = s[1 + i - 1]
  <2>1. n \in Int /\ 1 \in Int /\ \A i \in 1..n : s[i] \in S
    BY <1>1, <1>2
  <2> HIDE DEF n
  <2> QED
    BY <2>1, SubSeqProperties
<1>4. n \in Nat /\ Len(s) = n + 1 /\ t = SubSeq(s, 1, n)
  BY <1>1
<1> HIDE DEF n
<1>5. Len(t) = n /\ t \in Seq(S)
  BY <1>3, <1>4
<1>6. \A i \in 1..n : /\ 1 + i - 1 = i + 0 /\ i \in 1..(n - 1 + 1)
                       /\ i + 0 \in 1..(n + 1) /\ i + 0 = i
  BY <1>4
<1>7. \A i \in 1..n : t[i] = s[i + 0]
  BY <1>3, <1>4, <1>6
<1>8. n >= 0 /\ n + 1 >= 1
  BY <1>4
<1> QED
  BY <1>4, <1>5, <1>6, <1>7, <1>8 DEF n

\* or its last one lost,
LEMMA PartFront ==
  ASSUME NEW S, NEW s \in Seq(S), s # <<>>,
         NEW t, t = SubSeq(s, 1, Len(s) - 1)
  PROVE  Part(t, s) /\ t \in Seq(S)
<1>1. Len(t) + 0 <= Len(s)
  BY FrontElements
<1> QED
  BY <1>1, FrontElements DEF Part

\* or everything before some element skipped,
LEMMA PartRest ==
  ASSUME NEW S, NEW s \in Seq(S), NEW n \in 2..Len(s),
         NEW t, t = SubSeq(s, n + 1, Len(s))
  PROVE  Part(t, s) /\ t \in Seq(S)
<1>1. Len(s) \in Nat
  OBVIOUS
<1>2. \A i \in (n + 1)..Len(s) : s[i] \in S
  BY <1>1, ElementOfSeq
<1> DEFINE l == Len(s)
<1>3. /\ SubSeq(s, n + 1, l) \in Seq(S)
      /\ Len(SubSeq(s, n + 1, l)) = IF n + 1 <= l THEN l - (n + 1) + 1 ELSE 0
      /\ \A i \in 1..(l - (n + 1) + 1) : SubSeq(s, n + 1, l)[i] = s[n + 1 + i - 1]
  <2>1. l \in Int /\ n + 1 \in Int /\ \A i \in (n + 1)..l : s[i] \in S
    BY <1>1, <1>2
  <2> HIDE DEF l
  <2> QED
    BY <2>1, SubSeqProperties
<1>4. l \in Nat /\ n \in 2..l /\ t = SubSeq(s, n + 1, l) /\ Len(s) = l
  BY <1>1
<1> HIDE DEF l
<1>5. Len(t) = l - n /\ t \in Seq(S)
  BY <1>3, <1>4
<1>6. \A i \in 1..(l - n) : n + 1 + i - 1 = i + n /\ i \in 1..(l - (n + 1) + 1)
  BY <1>4
<1>7. \A i \in 1..(l - n) : t[i] = s[i + n]
  BY <1>3, <1>4, <1>6
<1>8. n \in Nat /\ Len(t) + n <= Len(s)
  BY <1>4, <1>5
<1> QED
  BY <1>5, <1>7, <1>8 DEF Part

\* or its last element made illegible.
LEMMA PartGarbled ==
  ASSUME NEW s \in Seq(Reply), s # <<>>,
         NEW t, t = [s EXCEPT ![Len(s)].legible = FALSE]
  PROVE  Part(t, s) /\ t \in Seq(Reply)
<1>1. Len(s) \in Nat \ {0}
  BY EmptySeq
<1>2. s[Len(s)] \in Reply
  BY <1>1, ElementOfSeq
<1> DEFINE r == [s[Len(s)] EXCEPT !.legible = FALSE]
<1>3. /\ r \in Reply /\ r.command = s[Len(s)].command
      /\ r.address = s[Len(s)].address /\ r.block = s[Len(s)].block
  BY <1>2 DEF Reply
<1>4. t = [s EXCEPT ![Len(s)] = r]
  OBVIOUS
<1> HIDE DEF r
<1>5. /\ t \in Seq(Reply) /\ Len(t) = Len(s)
      /\ \A i \in 1..Len(s) : t[i] = IF i = Len(s) THEN r ELSE s[i]
  <2> DEFINE l == Len(s)
             u == [s EXCEPT ![l] = r]
  <2>1. l \in 1..Len(s)
    BY <1>1
  <2> HIDE DEF l
  <2>2. /\ u \in Seq(Reply) /\ Len(u) = Len(s)
        /\ \A i \in 1..Len(s) : u[i] = IF i = l THEN r ELSE s[i]
    BY <1>3, <2>1, ExceptSeq
  <2>3. t = u
    BY <1>4 DEF l
  <2> QED
    BY <2>2, <2>3 DEF l
<1>6. \A i \in 1..Len(t) : /\ t[i].command = s[i + 0].command
                          /\ t[i].address = s[i + 0].address
                          /\ t[i].block = s[i + 0].block
  BY <1>1, <1>3, <1>5
<1> QED
  BY <1>1, <1>5, <1>6 DEF Part

-----------------------------------------------------------------------------
(* The invariant. *)

\* A session that has sent nothing.
LEMMA InitInv == Init => IInv
<1> SUFFICES ASSUME Init PROVE IInv
  OBVIOUS
<1>1. 0 \in Addresses /\ 0 \in 0..(BLOCK_ATTEMPTS - 1)
  BY Parameters DEF Addresses
<1>2. TypeOK
  <2>1. Before \in [Addresses -> Cells]
    BY DEF Before, Cells
  <2>2. 0 \in 0..MAX_ATTEMPTS /\ 0 \in 0..MaxFaults
    BY Parameters
  <2>3. "connect" \in Steps
    BY DEF Steps
  <2> QED
    BY <1>1, <2>1, <2>2, <2>3 DEF Init, TypeOK
<1>3. requests = <<>> /\ replies = <<>> /\ Len(<<>>) = 0
  BY DEF Init
<1>4. InOrder /\ NothingLateYet /\ ReadsAreCurrent
  BY <1>3 DEF InOrder, NothingLateYet, ReadsAreCurrent, Sealed, HasLate, AllLate
<1>5. \A c \in Commands : ~Holds(requests, c) /\ ~Holds(replies, c)
  BY <1>3 DEF Holds
<1>6. PastEof /\ Permitted /\ ReadBackIsFlash /\ Verified /\ Over
  BY DEF Init, PastEof, Permitted, ReadBackIsFlash, Verified, Over
<1>7. TouchedIsPermitted /\ Launch
  BY <1>5 DEF Init, TouchedIsPermitted, Touched, Launch, Commands
<1> QED
  BY <1>2, <1>4, <1>6, <1>7 DEF IInv

\* What the link loses or spoils, and what a host that only waits or retries
\* does, leaves stretches of the two queues and everything else.
LEMMA LinkStep ==
  ASSUME IInv, TypeOK', Part(requests', requests), Part(replies', replies),
         UNCHANGED <<task, target, step, index, readback, outcome, flash, mode>>
  PROVE  IInv'
<1>0. /\ requests \in Seq(Request) /\ requests' \in Seq(Request)
      /\ replies \in Seq(Reply) /\ replies' \in Seq(Reply)
  BY DEF IInv, TypeOK
<1>1. /\ Sealed(requests) => Sealed(requests')
      /\ HasLate(requests') => HasLate(requests)
      /\ AllLate(requests) => AllLate(requests')
      /\ \A c \in Commands : Holds(requests', c) => Holds(requests, c)
      /\ requests = <<>> => requests' = <<>>
  BY <1>0, PartKeeps
<1>2. /\ Sealed(replies) => Sealed(replies')
      /\ HasLate(replies') => HasLate(replies)
      /\ AllLate(replies) => AllLate(replies')
      /\ \A c \in Commands : Holds(replies', c) => Holds(replies, c)
      /\ \A i \in 1..Len(replies') : \E j \in 1..Len(replies) :
           /\ replies'[i].command = replies[j].command
           /\ replies'[i].address = replies[j].address
           /\ replies'[i].block = replies[j].block
  BY <1>0, PartKeeps
<1>3. (InOrder /\ NothingLateYet /\ PastEof)'
  BY <1>1, <1>2 DEF IInv, InOrder, NothingLateYet, PastEof
<1>4. (Permitted /\ ReadBackIsFlash /\ Over)'
  BY DEF IInv, Permitted, MayWrite, ReadBackIsFlash, Over, Goal, Before
<1>5. (TouchedIsPermitted /\ Verified /\ Launch)'
  BY <1>1, <1>2 DEF IInv, TouchedIsPermitted, Touched, MayWrite, Verified, Launch,
     Goal, Before, Commands
<1>6. ReadsAreCurrent'
  BY <1>2 DEF IInv, ReadsAreCurrent
<1> QED
  BY <1>3, <1>4, <1>5, <1>6 DEF IInv

\* The session ends: what is still on its way stays as it was.
LEMMA EndStep ==
  ASSUME IInv, TypeOK', Part(replies', replies), step' = "end",
         UNCHANGED <<task, target, requests, flash, mode>>,
         outcome' # "none",
         outcome' \in Refusals => ~Touched,
         outcome' = "success" => mode = "application" /\ flash = Goal
  PROVE  IInv'
<1>0. /\ requests \in Seq(Request)
      /\ replies \in Seq(Reply) /\ replies' \in Seq(Reply)
  BY DEF IInv, TypeOK
<1>2. /\ Sealed(replies) => Sealed(replies')
      /\ HasLate(replies') => HasLate(replies)
      /\ \A c \in Commands : Holds(replies', c) => Holds(replies, c)
      /\ \A i \in 1..Len(replies') : \E j \in 1..Len(replies) :
           /\ replies'[i].command = replies[j].command
           /\ replies'[i].address = replies[j].address
           /\ replies'[i].block = replies[j].block
  BY <1>0, PartKeeps
<1>3. (InOrder /\ NothingLateYet /\ PastEof)'
  BY <1>2 DEF IInv, InOrder, NothingLateYet, PastEof, Sealed, AllLate, HasLate
<1>4. (Permitted /\ ReadBackIsFlash /\ Over)'
  BY DEF IInv, Permitted, MayWrite, ReadBackIsFlash, Over, Goal, Before
<1>5. (TouchedIsPermitted /\ Verified /\ Launch)'
  BY <1>2 DEF IInv, TouchedIsPermitted, Touched, MayWrite, Verified, Launch,
     Goal, Before, Commands, Holds
<1>6. ReadsAreCurrent'
  BY <1>2 DEF IInv, ReadsAreCurrent
<1> QED
  BY <1>3, <1>4, <1>5, <1>6 DEF IInv

\* The host goes on: what the next command needs has to be there.
LEMMA MoveStep ==
  ASSUME IInv, TypeOK', Part(replies', replies), step # "end", step' # "end",
         UNCHANGED <<task, target, requests, outcome, flash, mode>>,
         NothingLateYet', PastEof', Permitted', ReadBackIsFlash', Verified',
         Touched => MayWrite /\ step' \notin {"connect", "uuid", "refuse"}
  PROVE  IInv'
<1>0. /\ requests \in Seq(Request)
      /\ replies \in Seq(Reply) /\ replies' \in Seq(Reply)
  BY DEF IInv, TypeOK
<1>1. outcome = "none"
  BY DEF IInv, Over
<1>2. /\ Sealed(replies) => Sealed(replies')
      /\ HasLate(replies') => HasLate(replies)
      /\ \A c \in Commands : Holds(replies', c) => Holds(replies, c)
      /\ \A i \in 1..Len(replies') : \E j \in 1..Len(replies) :
           /\ replies'[i].command = replies[j].command
           /\ replies'[i].address = replies[j].address
           /\ replies'[i].block = replies[j].block
  BY <1>0, PartKeeps
<1>3. InOrder'
  BY <1>2 DEF IInv, InOrder, Sealed, AllLate
<1>4. Over' /\ TouchedIsPermitted'
  BY <1>1 DEF IInv, Over, TouchedIsPermitted, Touched, MayWrite, Refusals,
     Before, Holds
<1>5. Launch'
  BY <1>2 DEF IInv, Launch, Before, Commands, Holds
<1>6. ReadsAreCurrent'
  BY <1>2 DEF IInv, ReadsAreCurrent
<1> QED
  BY <1>3, <1>4, <1>5, <1>6 DEF IInv

-----------------------------------------------------------------------------
(* The link and the board. *)

\* The head of a queue that is not empty.
LEMMA HeadIn ==
  ASSUME NEW S, NEW s \in Seq(S), s # <<>>
  PROVE  /\ Head(s) \in S /\ Head(s) = s[1] /\ 1 \in 1..Len(s)
         /\ Sealed(s) /\ Head(s).command \in LateCommands => AllLate(s)
<1>1. Len(s) \in Nat \ {0} /\ Head(s) = s[1]
  BY EmptySeq
<1>2. Head(s) \in S
  BY HeadTailProperties
<1>3. ASSUME Sealed(s), s[1].command \in LateCommands, NEW i \in 1..Len(s)
      PROVE  s[i].command \in LateCommands
  <2>1. i = 1 \/ 1 < i
    BY <1>1
  <2> QED
    BY <1>1, <1>3, <2>1 DEF Sealed
<1> QED
  BY <1>1, <1>2, <1>3 DEF AllLate

\* What appending an element does to the order of commands.
LEMMA Appended ==
  ASSUME NEW S, NEW s \in Seq(S), NEW e \in S
  PROVE  /\ Append(s, e) \in Seq(S) /\ Len(Append(s, e)) = Len(s) + 1
         /\ \A i \in 1..Len(s) : Append(s, e)[i] = s[i]
         /\ Append(s, e)[Len(s) + 1] = e
         /\ \A i \in 1..Len(Append(s, e)) :
              i \in 1..Len(s) \/ Append(s, e)[i] = e
         /\ Sealed(s) /\ (HasLate(s) => e.command \in LateCommands)
            => Sealed(Append(s, e))
         /\ HasLate(Append(s, e)) => HasLate(s) \/ e.command \in LateCommands
         /\ AllLate(s) /\ e.command \in LateCommands => AllLate(Append(s, e))
         /\ \A c \in Commands :
              Holds(Append(s, e), c) => Holds(s, c) \/ e.command = c
<1> DEFINE t == Append(s, e)
<1>1. /\ t \in Seq(S) /\ Len(t) = Len(s) + 1 /\ Len(s) \in Nat
      /\ \A i \in 1..Len(s) : t[i] = s[i]
      /\ t[Len(s) + 1] = e
  BY AppendProperties
<1> HIDE DEF t
<1>2. \A i \in 1..Len(t) : i \in 1..Len(s) \/ (i = Len(s) + 1 /\ t[i] = e)
  BY <1>1
<1>3. ASSUME Sealed(s), HasLate(s) => e.command \in LateCommands,
             NEW i \in 1..Len(t), NEW j \in 1..Len(t), i < j,
             t[i].command \in LateCommands
      PROVE  t[j].command \in LateCommands
  <2>1. i \in 1..Len(s)
    BY <1>1, <1>3
  <2>2. CASE j \in 1..Len(s)
    BY <1>1, <1>3, <2>1, <2>2 DEF Sealed
  <2>3. CASE t[j] = e
    BY <1>1, <1>3, <2>1, <2>3 DEF HasLate
  <2> QED
    BY <1>2, <2>2, <2>3
<1>4. Sealed(s) /\ (HasLate(s) => e.command \in LateCommands) => Sealed(t)
  BY <1>3 DEF Sealed
<1>5. /\ HasLate(t) => HasLate(s) \/ e.command \in LateCommands
      /\ AllLate(s) /\ e.command \in LateCommands => AllLate(t)
      /\ \A c \in Commands : Holds(t, c) => Holds(s, c) \/ e.command = c
  BY <1>1, <1>2 DEF HasLate, AllLate, Holds
<1> QED
  BY <1>1, <1>2, <1>4, <1>5 DEF t

\* A request for the command the host is at goes to the end of the queue.
LEMMA SendInv == IInv /\ TypeOK' /\ Send => IInv'
<1> SUFFICES ASSUME IInv, TypeOK', Send PROVE IInv'
  OBVIOUS
<1> USE DEF host, link, board, given
<1>1. CASE mode = "application"
  <2>1. Part(requests, requests) /\ Part(replies, replies)
    BY PartSelf DEF IInv, TypeOK
  <2> QED
    BY <1>1, <2>1, LinkStep DEF Send
<1>2. CASE mode # "application"
  <2> DEFINE e == [command |-> CommandAt(step), address |-> index,
                   block |-> task.firmware[index]]
  <2>1. /\ requests' = Append(requests, e) /\ outcome = "none" /\ step # "end"
        /\ UNCHANGED <<task, target, step, index, readback, outcome, replies,
                       flash, mode>>
    BY <1>2 DEF Send, IInv, Over
  <2>2. requests \in Seq(Request) /\ step \in Steps \ {"end"}
    BY <2>1 DEF IInv, TypeOK
  <2>3. e \in Request
    <3>1. index \in Addresses /\ task.firmware[index] \in Contents
      BY DEF IInv, TypeOK, Task
    <3>2. CommandAt(step) \in Commands
      BY DEF CommandAt, Commands
    <3> QED
      BY <3>1, <3>2 DEF Request
  <2>4. e.command = CommandAt(step)
    OBVIOUS
  <2> HIDE DEF e
  <2>5. /\ Sealed(requests) /\ (HasLate(requests) => e.command \in LateCommands)
           => Sealed(requests')
        /\ HasLate(requests') => HasLate(requests) \/ e.command \in LateCommands
        /\ AllLate(requests) /\ e.command \in LateCommands => AllLate(requests')
        /\ \A c \in Commands : Holds(requests', c) => Holds(requests, c) \/ e.command = c
    BY <2>1, <2>2, <2>3, Appended
  <2>6. /\ step \in {"connect", "uuid", "write"} <=> e.command \notin LateCommands
        /\ e.command = "SendBlock" <=> step = "write"
        /\ e.command = "Complete" <=> step \in {"refuse", "complete"}
    BY <2>2, <2>4 DEF CommandAt, LateCommands, Steps
  <2>7. (InOrder /\ NothingLateYet /\ PastEof)'
    <3>1. HasLate(requests) => e.command \in LateCommands
      BY <2>6 DEF IInv, NothingLateYet
    <3>2. HasLate(replies) => e.command \in LateCommands
      BY <2>6 DEF IInv, NothingLateYet
    <3> QED
      BY <2>1, <2>5, <2>6, <3>1, <3>2 DEF IInv, InOrder, NothingLateYet, PastEof
  <2>8. (Permitted /\ ReadBackIsFlash /\ Over /\ ReadsAreCurrent)'
    BY <2>1 DEF IInv, Permitted, MayWrite, ReadBackIsFlash, Over, Goal, Before,
       ReadsAreCurrent
  <2>9. TouchedIsPermitted'
    <3>1. step = "write" => MayWrite
      BY DEF IInv, Permitted
    <3> QED
      BY <2>1, <2>5, <2>6, <3>1 DEF IInv, TouchedIsPermitted, Touched, MayWrite,
         Refusals, Before, Commands
  <2>10. Verified' /\ Launch'
    <3>1. step = "refuse" => flash = Before /\ ~Holds(requests, "SendBlock")
      BY DEF IInv, TouchedIsPermitted, Touched
    <3>2. step = "complete" => /\ flash \in {Before, task.firmware}
                               /\ ~Holds(requests, "SendBlock")
      BY DEF IInv, Verified, Goal
    <3>3. step = "write" => ~Holds(requests, "Complete")
      BY DEF IInv, NothingLateYet, HasLate, Holds, LateCommands
    <3> QED
      BY <1>2, <2>1, <2>5, <2>6, <3>1, <3>2, <3>3
         DEF IInv, Verified, Launch, Goal, Before, Commands
  <2> QED
    BY <2>7, <2>8, <2>9, <2>10 DEF IInv
<1> QED
  BY <1>1, <1>2

\* The board serves the oldest request; only a block changes its flash, and
\* none is left once anything was sent after the last block.
LEMMA ServeInv == IInv /\ TypeOK' /\ Serve => IInv'
<1> SUFFICES ASSUME IInv, TypeOK', Serve PROVE IInv'
  OBVIOUS
<1> USE DEF host, link, board, given
<1> DEFINE r == Head(requests)
<1>1. /\ mode = "bootloader" /\ requests # <<>>
      /\ requests \in Seq(Request) /\ replies \in Seq(Reply)
      /\ UNCHANGED <<task, target, step, index, readback, outcome>>
  BY DEF Serve, IInv, TypeOK
<1>2. /\ r \in Request /\ r = requests[1] /\ 1 \in 1..Len(requests)
      /\ r.command \in LateCommands => AllLate(requests)
  BY <1>1, HeadIn DEF IInv, InOrder
<1>3. PICK a \in Reply :
        /\ replies' = Append(replies, a)
        /\ a.command = r.command /\ a.address = r.address
        /\ r.command = "RequestBlock" => a.block = flash[r.address]
  <2>1. PICK kept \in BOOLEAN, whole \in BOOLEAN :
          replies' = Append(replies,
                  [command |-> r.command, address |-> r.address,
                   block |-> IF r.command = "RequestBlock"
                             THEN flash[r.address] ELSE r.block,
                   legible |-> TRUE, whole |-> whole])
    BY DEF Serve
  <2>2. flash[r.address] \in Cells /\ r.block \in Cells
    BY <1>2 DEF IInv, TypeOK, Request, Cells
  <2> DEFINE b == [command |-> r.command, address |-> r.address,
                   block |-> IF r.command = "RequestBlock"
                             THEN flash[r.address] ELSE r.block,
                   legible |-> TRUE, whole |-> whole]
  <2>3. b \in Reply
    BY <1>2, <2>2 DEF Reply, Request
  <2> QED
    BY <2>1, <2>3
<1>4. /\ r.command # "SendBlock" => flash' = flash
      /\ IF r.command = "Complete"
         THEN mode' = "application" /\ requests' = <<>>
         ELSE mode' = mode /\ requests' = Tail(requests)
  BY DEF Serve
<1>5. requests' \in Seq(Request) /\ Part(requests', requests)
  <2>1. CASE r.command # "Complete"
    BY <1>1, <1>4, <2>1, PartTail
  <2>2. CASE r.command = "Complete"
    <3>1. Len(<<>>) + 0 <= Len(requests) /\ Len(<<>>) = 0 /\ <<>> \in Seq(Request)
      BY <1>1
    <3> QED
      BY <1>4, <2>2, <3>1 DEF Part
  <2> QED
    BY <2>1, <2>2
<1>6. /\ Sealed(requests) => Sealed(requests')
      /\ HasLate(requests') => HasLate(requests)
      /\ AllLate(requests) => AllLate(requests')
      /\ \A c \in Commands : Holds(requests', c) => Holds(requests, c)
  BY <1>1, <1>5, PartKeeps
<1>7. /\ Len(replies') = Len(replies) + 1
      /\ \A i \in 1..Len(replies) : replies'[i] = replies[i]
      /\ \A i \in 1..Len(replies') : i \in 1..Len(replies) \/ replies'[i] = a
      /\ Sealed(replies) /\ (HasLate(replies) => a.command \in LateCommands)
         => Sealed(replies')
      /\ HasLate(replies') => HasLate(replies) \/ a.command \in LateCommands
      /\ AllLate(replies) /\ a.command \in LateCommands => AllLate(replies')
      /\ \A c \in Commands : Holds(replies', c) => Holds(replies, c) \/ a.command = c
  BY <1>1, <1>3, Appended
<1>8. HasLate(requests) \/ AllLate(requests) => r.command \in LateCommands
                                            \/ ~AllLate(requests)
  BY <1>2 DEF AllLate
<1>9. /\ AllLate(requests) => r.command \in LateCommands
      /\ r.command \in LateCommands => HasLate(requests)
      /\ Holds(requests, r.command)
  BY <1>2 DEF AllLate, HasLate, Holds
<1>10. (InOrder /\ NothingLateYet /\ PastEof)'
  BY <1>1, <1>2, <1>3, <1>6, <1>7, <1>9 DEF IInv, InOrder, NothingLateYet, PastEof
<1>11. r.command = "SendBlock" =>
         ~HasLate(replies) /\ step \notin {"read", "complete"}
         /\ ~Holds(requests, "Complete")
  <2> SUFFICES ASSUME r.command = "SendBlock"
        PROVE  ~HasLate(replies) /\ step \notin {"read", "complete"}
               /\ ~Holds(requests, "Complete")
    OBVIOUS
  <2>1. r.command \notin LateCommands
    BY DEF LateCommands
  <2>2. ~HasLate(replies) /\ step # "read"
    BY <1>9, <2>1 DEF IInv, InOrder, PastEof
  <2>3. Holds(requests, "SendBlock")
    BY <1>9
  <2> QED
    BY <2>2, <2>3 DEF IInv, Verified, Launch
<1>12. (Permitted /\ ReadBackIsFlash)'
  BY <1>1, <1>4, <1>11 DEF IInv, Permitted, MayWrite, ReadBackIsFlash
<1>13. ReadsAreCurrent'
  <2> SUFFICES ASSUME NEW i \in 1..Len(replies'),
                      replies'[i].command = "RequestBlock"
               PROVE  replies'[i].block = flash'[replies'[i].address]
    BY DEF ReadsAreCurrent
  <2>1. CASE i \in 1..Len(replies)
    <3>1. HasLate(replies)
      BY <1>7, <2>1 DEF HasLate, LateCommands
    <3> QED
      BY <1>4, <1>7, <1>11, <2>1, <3>1 DEF IInv, ReadsAreCurrent
  <2>2. CASE replies'[i] = a
    BY <1>3, <1>4, <2>2
  <2> QED
    BY <1>7, <2>1, <2>2
<1>14. TouchedIsPermitted'
  <2>1. Touched' => Touched
    BY <1>4, <1>6, <1>9 DEF Touched, Before, Commands
  <2> QED
    BY <1>1, <2>1 DEF IInv, TouchedIsPermitted, MayWrite
<1>15. Verified'
  BY <1>1, <1>4, <1>6, <1>11 DEF IInv, Verified, Goal, Before, Commands
<1>16. Launch'
  <2>1. Holds(requests', "Complete") => Holds(requests, "Complete")
    BY <1>6 DEF Commands
  <2>2. Holds(requests', "SendBlock") => Holds(requests, "SendBlock")
    BY <1>6 DEF Commands
  <2>3. CASE r.command = "Complete"
    <3>1. ~Holds(<<>>, "Complete")
      BY DEF Holds
    <3> QED
      BY <1>1, <1>4, <1>9, <2>3, <3>1 DEF IInv, Launch, Before
  <2>4. CASE r.command # "Complete"
    BY <1>1, <1>3, <1>4, <1>7, <1>11, <2>1, <2>2, <2>4
       DEF IInv, Launch, Before, Commands
  <2> QED
    BY <2>3, <2>4
<1>17. Over'
  BY <1>1 DEF IInv, Over, Launch
<1> QED
  BY <1>10, <1>12, <1>13, <1>14, <1>15, <1>16, <1>17 DEF IInv

-----------------------------------------------------------------------------
(* The host. *)

\* The types are kept by every step.
LEMMA TypeStep == TypeOK /\ [Next]_vars => TypeOK'
<1> SUFFICES ASSUME TypeOK, [Next]_vars PROVE TypeOK'
  OBVIOUS
<1> USE Parameters
<1> USE DEF host, link, board, given
<1>1. CASE Send
  <2>1. attempts' \in 0..MAX_ATTEMPTS
    BY <1>1 DEF TypeOK, Send
  <2>2. CASE mode = "application"
    BY <1>1, <2>1, <2>2 DEF TypeOK, Send
  <2>3. CASE mode # "application"
    <3>1. CommandAt(step) \in Commands
      BY DEF CommandAt, Commands
    <3>2. index \in Addresses /\ task.firmware[index] \in Contents
      BY DEF TypeOK, Task
    <3>3. [command |-> CommandAt(step), address |-> index,
           block |-> task.firmware[index]] \in Request
      BY <3>1, <3>2 DEF Request
    <3>4. requests' \in Seq(Request)
      BY <1>1, <2>3, <3>3, AppendProperties DEF TypeOK, Send
    <3> QED
      BY <1>1, <2>1, <3>4 DEF TypeOK, Send
  <2> QED
    BY <2>2, <2>3
<1>2. CASE Timeout
  <2>1. faults' \in 0..MaxFaults
    BY <1>2 DEF TypeOK, Timeout
  <2>2. awaiting' \in BOOLEAN
    BY <1>2 DEF Timeout
  <2> QED
    BY <1>2, <2>1, <2>2 DEF TypeOK, Timeout
<1>3. CASE Overrun
  <2>1. PICK n \in 2..Len(replies) : replies' = SubSeq(replies, n + 1, Len(replies))
    BY <1>3 DEF Overrun
  <2>2. replies' \in Seq(Reply)
    BY <2>1, PartRest DEF TypeOK
  <2> QED
    BY <1>3, <2>2 DEF TypeOK, Overrun
<1>4. CASE Misread
  <2>1. replies' \in Seq(Reply)
    BY <1>4, HeadTailProperties DEF TypeOK, Misread
  <2> QED
    BY <1>4, <2>1 DEF TypeOK, Misread
<1>5. CASE Exhausted
  <2>1. outcome' \in Refusals \cup Failures /\ step' \in Steps
    BY <1>5 DEF Exhausted, Steps, Refusals, Failures
  <2> QED
    BY <1>5, <2>1 DEF TypeOK, Exhausted
<1>6. CASE Answered
  <2> DEFINE r == Head(replies)
  <2>1. /\ replies' \in Seq(Reply) /\ r \in Reply
        /\ awaiting' = FALSE /\ attempts' = 0
        /\ UNCHANGED <<given, requests, board, faults>>
        /\ \/ Connected(r) \/ Identified(r) \/ Written(r) \/ Ended(r)
           \/ ReadBack(r) \/ Completed(r)
    BY <1>6, HeadTailProperties DEF TypeOK, Answered
  <2> HIDE DEF r
  <2>2. 0 \in Addresses /\ 0 \in 0..(BLOCK_ATTEMPTS - 1) /\ 0 \in 0..MAX_ATTEMPTS
    BY DEF Addresses
  <2>3. /\ step' \in Steps /\ index' \in Addresses
        /\ tries' \in 0..(BLOCK_ATTEMPTS - 1)
        /\ outcome' \in {"none", "success"} \cup Refusals \cup Failures
        /\ readback' \in [Addresses -> Cells]
    <3> USE <2>2 DEF TypeOK, Goto, End, Resend, NextBlock, Admit, WrongBlock,
                     Steps, Refusals, Failures
    <3>1. CASE Connected(r)
      BY <3>1 DEF Connected
    <3>2. CASE Identified(r)
      BY <3>2 DEF Identified
    <3>3. CASE Written(r)
      BY <3>3 DEF Written, Addresses
    <3>4. CASE Ended(r)
      BY <3>4 DEF Ended
    <3>5. CASE ReadBack(r)
      <4>1. r.block \in Cells
        BY <2>1 DEF Reply
      <4>2. readback' \in [Addresses -> Cells]
        BY <3>5, <4>1 DEF ReadBack
      <4>3. /\ step' \in Steps /\ index' \in Addresses
            /\ tries' \in 0..(BLOCK_ATTEMPTS - 1)
            /\ outcome' \in {"none", "success"} \cup Refusals \cup Failures
        BY <3>5 DEF ReadBack, Verdict, Addresses
      <4> QED
        BY <4>2, <4>3
    <3>6. CASE Completed(r)
      BY <3>6 DEF Completed
    <3> QED
      BY <2>1, <3>1, <3>2, <3>3, <3>4, <3>5, <3>6
  <2> QED
    BY <2>1, <2>2, <2>3 DEF TypeOK
<1>7. CASE OutOfReach
  <2>1. outcome' \in Failures /\ step' \in Steps
    BY <1>7 DEF OutOfReach, End, Steps, Failures
  <2> QED
    BY <1>7, <2>1 DEF TypeOK, OutOfReach, End
<1>8. CASE SendFails
  BY <1>8 DEF TypeOK, SendFails, Fault
<1>9. CASE Serve
  <2> DEFINE r == Head(requests)
  <2>1. /\ requests # <<>> /\ requests \in Seq(Request) /\ r \in Request
        /\ Tail(requests) \in Seq(Request) /\ <<>> \in Seq(Request)
    BY <1>9, HeadTailProperties DEF TypeOK, Serve
  <2>2. PICK kept \in BOOLEAN, whole \in BOOLEAN :
          /\ flash' = IF r.command # "SendBlock" THEN flash
                      ELSE [flash EXCEPT ![r.address] =
                              IF kept THEN r.block ELSE Spoilt]
          /\ replies' = Append(replies,
                  [command |-> r.command, address |-> r.address,
                   block |-> IF r.command = "RequestBlock"
                             THEN flash[r.address] ELSE r.block,
                   legible |-> TRUE, whole |-> whole])
    BY <1>9 DEF Serve
  <2> DEFINE a == [command |-> r.command, address |-> r.address,
                   block |-> IF r.command = "RequestBlock"
                             THEN flash[r.address] ELSE r.block,
                   legible |-> TRUE, whole |-> whole]
  <2>3. a \in Reply
    BY <2>1 DEF TypeOK, Reply, Request, Cells
  <2>4. replies' \in Seq(Reply)
    BY <2>2, <2>3, AppendProperties DEF TypeOK
  <2>5. flash' \in [Addresses -> Cells]
    BY <2>1, <2>2 DEF TypeOK, Request, Cells
  <2>6. requests' \in Seq(Request) /\ mode' \in {"bootloader", "application"}
    BY <1>9, <2>1 DEF Serve, TypeOK
  <2> QED
    BY <1>9, <2>4, <2>5, <2>6 DEF TypeOK, Serve
<1>10. CASE LoseRequest
  <2>1. requests' \in Seq(Request)
    BY <1>10, PartFront DEF TypeOK, LoseRequest
  <2> QED
    BY <1>10, <2>1 DEF TypeOK, LoseRequest, Fault
<1>11. CASE LoseReply
  <2>1. replies' \in Seq(Reply)
    BY <1>11, PartFront DEF TypeOK, LoseReply
  <2> QED
    BY <1>11, <2>1 DEF TypeOK, LoseReply, Fault
<1>12. CASE Garble
  <2>1. replies' \in Seq(Reply)
    BY <1>12, PartGarbled DEF TypeOK, Garble
  <2> QED
    BY <1>12, <2>1 DEF TypeOK, Garble, Fault
<1>13. CASE UNCHANGED vars
  BY <1>13 DEF TypeOK, vars
<1> QED
  BY <1>1, <1>2, <1>3, <1>4, <1>5, <1>6, <1>7, <1>8, <1>9, <1>10, <1>11, <1>12,
     <1>13 DEF Next, Host

\* The head of the replies answers the command the host is at.
LEMMA AnsweredInv == IInv /\ TypeOK' /\ Answered => IInv'
<1> SUFFICES ASSUME IInv, TypeOK', Answered PROVE IInv'
  OBVIOUS
<1> USE DEF host, link, board, given
<1> DEFINE r == Head(replies)
<1>1. /\ requests \in Seq(Request) /\ replies \in Seq(Reply) /\ replies # <<>>
      /\ replies' = Tail(replies) /\ replies' \in Seq(Reply)
      /\ r.command = CommandAt(step)
      /\ UNCHANGED <<task, target, requests, flash, mode>>
      /\ \/ Connected(r) \/ Identified(r) \/ Written(r) \/ Ended(r)
         \/ ReadBack(r) \/ Completed(r)
  BY PartTail DEF Answered, Accepts, IInv, TypeOK
<1>2. /\ r \in Reply /\ r = replies[1] /\ 1 \in 1..Len(replies)
      /\ r.command \in LateCommands => AllLate(replies)
  BY <1>1, HeadIn DEF IInv, InOrder
<1>3. Part(replies', replies)
  BY <1>1, PartTail
<1>4. /\ HasLate(replies') => HasLate(replies)
      /\ AllLate(replies) => AllLate(replies')
  BY <1>1, <1>3, PartKeeps
<1>5. r.command \in LateCommands => HasLate(replies) /\ AllLate(requests)
  BY <1>2 DEF HasLate, IInv, InOrder
<1>6. AllLate(requests) => ~Holds(requests, "SendBlock")
  BY DEF AllLate, Holds, LateCommands
<1>7. r.command = "Complete" => mode = "application"
  BY <1>2 DEF IInv, Launch, Holds
<1>8. r.command = "RequestBlock" => r.block = flash[r.address]
  BY <1>2 DEF IInv, ReadsAreCurrent
<1> HIDE DEF r
<1>9. step \in {"connect", "uuid", "refuse"} => ~Touched
  BY DEF IInv, TouchedIsPermitted
<1>10. Touched => MayWrite
  BY DEF IInv, TouchedIsPermitted
<1>11. CASE Connected(r)
  <2>1. CASE End("short") \/ End("target")
    BY <1>1, <1>3, <1>9, <1>11, <2>1, EndStep DEF Connected, End
  <2>2. CASE Goto("complete") /\ task.leave
    <3>1. NothingLateYet' /\ PastEof' /\ Permitted' /\ ReadBackIsFlash'
      BY <1>1, <2>2 DEF Goto, NothingLateYet, PastEof, Permitted, ReadBackIsFlash
    <3>2. Verified'
      BY <1>1, <1>9, <1>11, <2>2 DEF Connected, Verified, Goal, Touched, Before
    <3> QED
      BY <1>1, <1>3, <1>9, <1>11, <2>2, <3>1, <3>2, MoveStep DEF Connected, Goto
  <2>3. CASE Goto("uuid") /\ task.canbus /\ target.supported /\ ~task.leave
    <3>1. NothingLateYet'
      BY <1>1, <1>4, <1>11 DEF Connected, IInv, NothingLateYet, HasLate
    <3>2. PastEof' /\ Permitted' /\ ReadBackIsFlash' /\ Verified'
      BY <1>1, <2>3 DEF Goto, PastEof, Permitted, ReadBackIsFlash, Verified
    <3> QED
      BY <1>1, <1>3, <1>9, <1>11, <2>3, <3>1, <3>2, MoveStep DEF Connected, Goto
  <2>4. CASE Admit /\ ~task.canbus /\ target.supported /\ ~task.leave
    <3>1. NothingLateYet'
      BY <1>1, <1>4, <1>11 DEF Connected, IInv, NothingLateYet, HasLate
    <3>2. PastEof' /\ Permitted' /\ ReadBackIsFlash' /\ Verified'
      BY <1>1, <2>4 DEF Admit, Goto, PastEof, Permitted, MayWrite,
         ReadBackIsFlash, Verified
    <3> QED
      BY <1>1, <1>3, <1>9, <1>11, <2>4, <3>1, <3>2, MoveStep
         DEF Connected, Admit, Goto
  <2> QED
    BY <1>11, <2>1, <2>2, <2>3, <2>4 DEF Connected
<1>12. CASE Identified(r)
  <2>1. CASE End("short") \/ End("uuid_mismatch")
    BY <1>1, <1>3, <1>9, <1>12, <2>1, EndStep DEF Identified, End
  <2>2. CASE Admit /\ target.own
    <3>1. NothingLateYet'
      BY <1>1, <1>4, <1>12 DEF Identified, IInv, NothingLateYet, HasLate
    <3>2. ~task.leave /\ target.supported
      BY <1>12 DEF Identified, IInv, Permitted
    <3>3. PastEof' /\ Permitted' /\ ReadBackIsFlash' /\ Verified'
      BY <1>1, <2>2, <3>2 DEF Admit, Goto, PastEof, Permitted, MayWrite,
         ReadBackIsFlash, Verified
    <3> QED
      BY <1>1, <1>3, <1>9, <1>12, <2>2, <3>1, <3>3, MoveStep
         DEF Identified, Admit, Goto
  <2> QED
    BY <1>12, <2>1, <2>2 DEF Identified
<1>13. CASE Written(r)
  <2>1. CASE End("short") \/ End("address")
    BY <1>1, <1>3, <1>13, <2>1, EndStep DEF Written, End, Refusals
  <2>2. CASE step' = "write" /\ UNCHANGED outcome
    <3>1. NothingLateYet'
      BY <1>1, <1>4, <1>13, <2>2 DEF Written, IInv, NothingLateYet, HasLate
    <3>2. PastEof' /\ Permitted' /\ ReadBackIsFlash' /\ Verified'
      BY <1>1, <1>13, <2>2 DEF Written, IInv, PastEof, Permitted, MayWrite,
         ReadBackIsFlash, Verified
    <3> QED
      BY <1>1, <1>3, <1>10, <1>13, <2>2, <3>1, <3>2, MoveStep DEF Written
  <2>3. CASE Goto("eof")
    <3>1. /\ NothingLateYet' /\ PastEof' /\ Permitted' /\ ReadBackIsFlash'
          /\ Verified'
      BY <1>1, <1>13, <2>3 DEF Written, Goto, IInv, NothingLateYet, PastEof,
         Permitted, MayWrite, ReadBackIsFlash, Verified
    <3> QED
      BY <1>1, <1>3, <1>10, <1>13, <2>3, <3>1, MoveStep DEF Written, Goto
  <2> QED
    BY <1>13, <2>1, <2>2, <2>3 DEF Written, WrongBlock, Resend, NextBlock
<1>14. CASE Ended(r)
  <2>1. CASE End("short")
    BY <1>1, <1>3, <1>14, <2>1, EndStep DEF Ended, End, Refusals
  <2>2. CASE Goto("read")
    <3>1. PastEof'
      BY <1>1, <1>2, <1>4, <1>5, <1>14
         DEF Ended, CommandAt, PastEof, LateCommands, AllLate
    <3>2. /\ NothingLateYet' /\ Permitted' /\ ReadBackIsFlash' /\ Verified'
      BY <1>1, <1>14, <2>2 DEF Ended, Goto, IInv, NothingLateYet,
         Permitted, MayWrite, ReadBackIsFlash, Verified
    <3> QED
      BY <1>1, <1>3, <1>10, <1>14, <2>2, <3>1, <3>2, MoveStep DEF Ended, Goto
  <2> QED
    BY <1>14, <2>1, <2>2 DEF Ended
<1>15. CASE ReadBack(r)
  <2>0. AllLate(requests) /\ AllLate(replies) /\ r.command = "RequestBlock"
    BY <1>1, <1>15 DEF ReadBack, IInv, PastEof, CommandAt
  <2>1. CASE End("short") \/ End("address") \/ End("checksum")
    BY <1>1, <1>3, <1>15, <2>1, EndStep DEF ReadBack, End, Refusals
  <2>2. CASE Resend /\ UNCHANGED readback
    <3>1. PastEof'
      BY <1>1, <1>4, <2>0 DEF PastEof, AllLate
    <3>2. /\ NothingLateYet' /\ Permitted' /\ ReadBackIsFlash' /\ Verified'
      BY <1>1, <1>15, <2>2 DEF ReadBack, Resend, IInv, NothingLateYet,
         Permitted, MayWrite, ReadBackIsFlash, Verified
    <3> QED
      BY <1>1, <1>3, <1>10, <1>15, <2>2, <3>1, <3>2, MoveStep
         DEF ReadBack, Resend
  <2>3. ASSUME r.address = index,
               readback' = [readback EXCEPT ![index] = r.block]
        PROVE  \A a \in 0..index : readback'[a] = flash[a]
    <3>1. /\ index \in Addresses /\ readback \in [Addresses -> Cells]
          /\ index \in Nat
      BY DEF IInv, TypeOK, Addresses
    <3>2. \A a \in 0..(index - 1) : readback[a] = flash[a]
      BY <1>15 DEF ReadBack, IInv, ReadBackIsFlash
    <3>4. \A a \in 0..(index - 1) : a \in Addresses /\ a # index
      BY <3>1, Parameters DEF Addresses
    <3>3. \A a \in 0..index : a = index \/ a \in 0..(index - 1)
      BY <3>1
    <3> QED
      BY <1>8, <2>0, <2>3, <3>1, <3>2, <3>3, <3>4
  <2>4. CASE /\ r.address = index
             /\ readback' = [readback EXCEPT ![index] = r.block]
             /\ NextBlock
    <3>1. PastEof'
      BY <1>1, <1>4, <2>0 DEF PastEof, AllLate
    <3>2. ReadBackIsFlash'
      <4>1. index' - 1 = index
        BY <2>4 DEF NextBlock, IInv, TypeOK, Addresses
      <4> QED
        BY <1>1, <2>3, <2>4, <4>1 DEF ReadBackIsFlash
    <3>3. /\ NothingLateYet' /\ Permitted' /\ Verified'
      BY <1>1, <1>15, <2>4 DEF ReadBack, NextBlock, IInv, NothingLateYet,
         Permitted, MayWrite, Verified
    <3> QED
      BY <1>1, <1>3, <1>10, <1>15, <2>4, <3>1, <3>2, <3>3, MoveStep
         DEF ReadBack, NextBlock
  <2>5. CASE /\ r.address = index
             /\ readback' = [readback EXCEPT ![index] = r.block]
             /\ ~(index + 1 < Blocks) /\ Goto("complete")
             /\ readback' = task.firmware
    <3>1. readback' = flash
      <4>1. /\ readback' \in [Addresses -> Cells] /\ flash \in [Addresses -> Cells]
            /\ index \in Addresses
        BY DEF IInv, TypeOK
      <4>2. \A a \in Addresses : a \in 0..index
        BY <2>5, <4>1, Parameters DEF Addresses
      <4> QED
        BY <2>3, <2>5, <4>1, <4>2
    <3>2. MayWrite
      BY <1>15 DEF ReadBack, IInv, Permitted
    <3>3. Verified'
      BY <1>1, <1>6, <2>0, <2>5, <3>1, <3>2 DEF Verified, Goal, MayWrite, Holds
    <3>4. /\ NothingLateYet' /\ PastEof' /\ Permitted' /\ ReadBackIsFlash'
      BY <1>1, <2>5, <3>2 DEF Goto, NothingLateYet, PastEof, Permitted, MayWrite,
         ReadBackIsFlash
    <3> QED
      BY <1>1, <1>3, <1>10, <1>15, <2>5, <3>3, <3>4, MoveStep DEF ReadBack, Goto
  <2> QED
    BY <1>15, <2>1, <2>2, <2>4, <2>5 DEF ReadBack, WrongBlock, Verdict
<1>16. CASE Completed(r)
  <2>1. CASE step = "refuse"
    BY <1>1, <1>3, <1>9, <1>16, <2>1, EndStep DEF Completed, End
  <2>2. CASE step = "complete"
    <3>1. mode = "application" /\ flash = Goal
      BY <1>1, <1>7, <2>2 DEF CommandAt, IInv, Verified
    <3> QED
      BY <1>1, <1>3, <1>16, <2>2, <3>1, EndStep DEF Completed, End, Refusals
  <2> QED
    BY <1>16, <2>1, <2>2 DEF Completed
<1> QED
  BY <1>1, <1>11, <1>12, <1>13, <1>14, <1>15, <1>16

\* Every step keeps the invariant.
LEMMA NextInv == IInv /\ [Next]_vars => IInv'
<1> SUFFICES ASSUME IInv, [Next]_vars PROVE IInv'
  OBVIOUS
<1> USE DEF host, link, board, given
<1>0. TypeOK' /\ requests \in Seq(Request) /\ replies \in Seq(Reply)
  BY TypeStep DEF IInv, TypeOK
<1>1. Part(requests, requests) /\ Part(replies, replies)
  BY <1>0, PartSelf
<1>2. CASE Send
  BY <1>0, <1>2, SendInv
<1>3. CASE Serve
  BY <1>0, <1>3, ServeInv
<1>4. CASE Answered
  BY <1>0, <1>4, AnsweredInv
<1>5. CASE Timeout
  BY <1>0, <1>1, <1>5, LinkStep DEF Timeout
<1>6. CASE Overrun
  <2>1. Part(replies', replies)
    BY <1>0, <1>6, PartRest DEF Overrun
  <2> QED
    BY <1>0, <1>1, <1>6, <2>1, LinkStep DEF Overrun
<1>7. CASE Misread
  <2>1. Part(replies', replies)
    BY <1>0, <1>7, PartTail DEF Misread
  <2> QED
    BY <1>0, <1>1, <1>7, <2>1, LinkStep DEF Misread
<1>8. CASE SendFails
  BY <1>0, <1>1, <1>8, LinkStep DEF SendFails
<1>9. CASE LoseRequest
  <2>1. Part(requests', requests)
    BY <1>0, <1>9, PartFront DEF LoseRequest
  <2> QED
    BY <1>0, <1>1, <1>9, <2>1, LinkStep DEF LoseRequest
<1>10. CASE LoseReply
  <2>1. Part(replies', replies)
    BY <1>0, <1>10, PartFront DEF LoseReply
  <2> QED
    BY <1>0, <1>1, <1>10, <2>1, LinkStep DEF LoseReply
<1>11. CASE Garble
  <2>1. Part(replies', replies)
    BY <1>0, <1>11, PartGarbled DEF Garble
  <2> QED
    BY <1>0, <1>1, <1>11, <2>1, LinkStep DEF Garble
<1>12. CASE Exhausted
  <2>1. step = "refuse" => ~Touched
    BY DEF IInv, TouchedIsPermitted
  <2> QED
    BY <1>0, <1>1, <1>12, <2>1, EndStep DEF Exhausted, Refusals
<1>13. CASE OutOfReach
  BY <1>0, <1>1, <1>13, EndStep DEF OutOfReach, End, Refusals
<1>14. CASE UNCHANGED vars
  BY <1>0, <1>1, <1>14, LinkStep DEF vars
<1> QED
  BY <1>2, <1>3, <1>4, <1>5, <1>6, <1>7, <1>8, <1>9, <1>10, <1>11, <1>12, <1>13,
     <1>14 DEF Next, Host

\* The invariant holds throughout.
LEMMA Invariant == Spec => []IInv
  BY InitInv, NextInv, PTL DEF Spec

-----------------------------------------------------------------------------
(* The theorems. *)

\* The variables of a session keep their types.
THEOREM TypeCorrect == Spec => []TypeOK
<1>1. IInv => TypeOK
  BY DEF IInv
<1> QED
  BY <1>1, Invariant, PTL

\* Whatever the link loses, garbles or delays, an application is started only
\* over the verified image or over flash nobody touched.
THEOREM StartsVerified == Spec => []OnlyVerifiedStarts
<1>1. IInv => OnlyVerifiedStarts
  BY DEF IInv, Launch, OnlyVerifiedStarts
<1> QED
  BY <1>1, Invariant, PTL

\* What was read back is what the flash holds.
THEOREM ReadBackCurrent == Spec => []ReadBackIsFlash
<1>1. IInv => ReadBackIsFlash
  BY DEF IInv
<1> QED
  BY <1>1, Invariant, PTL

\* A board that fails a check before the first write is never written.
THEOREM RefusedUntouched == Spec => []RefusedIsUntouched
<1>1. IInv => RefusedIsUntouched
  BY DEF IInv, TouchedIsPermitted, Touched, MayWrite, RefusedIsUntouched
<1> QED
  BY <1>1, Invariant, PTL

\* No step changes the flash once blocks are being read back.
THEOREM Frozen == Spec => FrozenAfterEof
<1>1. IInv /\ [Next]_vars =>
        [(step \in {"read", "complete"}) => (flash' = flash)]_vars
  <2> SUFFICES ASSUME IInv, [Next]_vars, step \in {"read", "complete"}
        PROVE  flash' = flash
    OBVIOUS
  <2> USE DEF host, link, board, given
  <2>1. CASE Serve
    <3>1. /\ requests \in Seq(Request) /\ requests # <<>>
          /\ Head(requests) = requests[1] /\ 1 \in 1..Len(requests)
      BY <2>1, HeadIn DEF Serve, IInv, TypeOK
    <3>2. ~Holds(requests, "SendBlock")
      BY DEF IInv, PastEof, Verified, AllLate, Holds, LateCommands
    <3>3. Head(requests).command # "SendBlock"
      BY <3>1, <3>2 DEF Holds
    <3> QED
      BY <2>1, <3>3 DEF Serve
  <2>2. CASE ~Serve
    BY <2>2 DEF Next, Host, Send, Timeout, Overrun, Misread, Exhausted, Answered,
       OutOfReach, SendFails, LoseRequest, LoseReply, Garble, vars
  <2> QED
    BY <2>1, <2>2
<1> QED
  BY <1>1, Invariant, PTL DEF Spec, FrozenAfterEof

-----------------------------------------------------------------------------
(* What the answers to an upload prove. *)

\* A board answers a block only after it wrote it, and only with what it has.
AnsweredBlocks == \A i \in 1..Len(replies) :
    replies[i].command = "SendBlock" => flash[replies[i].address] # Old

\* A sound board answers in full and holds, block by block, the firmware or
\* what it held before.
Sound ==
    /\ \A i \in 1..Len(requests) :
        requests[i].block = task.firmware[requests[i].address]
    /\ target.sound =>
        /\ \A i \in 1..Len(replies) : replies[i].whole
        /\ \A a \in Addresses : flash[a] \in {Old, task.firmware[a]}

\* The application starts only after the last command was sent.
StartedLast ==
    Holds(requests, "Complete") \/ mode = "application"
    => step \in {"refuse", "complete", "end"}


UInv == AnsweredBlocks /\ Sound /\ StartedLast /\ AcknowledgedIsWritten

\* What a stretch of the queues keeps.
LEMMA PartUpload ==
  ASSUME IInv, TypeOK', AnsweredBlocks, Sound,
         Part(requests', requests), Part(replies', replies),
         \A i \in 1..Len(replies') : \E j \in 1..Len(replies) :
            /\ replies'[i].whole = replies[j].whole
            /\ replies'[i].command = replies[j].command
            /\ replies'[i].address = replies[j].address,
         UNCHANGED <<task, target, flash>>
  PROVE  (AnsweredBlocks /\ Sound)'
<1>1. /\ requests \in Seq(Request) /\ requests' \in Seq(Request)
      /\ replies \in Seq(Reply) /\ replies' \in Seq(Reply)
  BY DEF IInv, TypeOK
<1>2. AnsweredBlocks'
  BY DEF AnsweredBlocks
<1>3. \A i \in 1..Len(requests') : \E j \in 1..Len(requests) :
         /\ requests'[i].address = requests[j].address
         /\ requests'[i].block = requests[j].block
  BY <1>1, PartKeeps
<1>4. Sound'
  BY <1>3 DEF Sound
<1> QED
  BY <1>2, <1>4

\* The elements of a tail are elements of the sequence.
LEMMA TailElements ==
  ASSUME NEW S, NEW s \in Seq(S), s # <<>>
  PROVE  \A i \in 1..Len(Tail(s)) : i + 1 \in 1..Len(s) /\ Tail(s)[i] = s[i + 1]
<1>1. Len(s) \in Nat \ {0}
  BY EmptySeq
<1> QED
  BY <1>1, HeadTailProperties

\* A step that leaves the flash and the board's answers as they are.
LEMMA QuietUpload ==
  ASSUME IInv, TypeOK', UInv, AnsweredBlocks', Sound',
         Part(requests', requests), UNCHANGED <<task, flash, mode>>,
         \/ UNCHANGED <<step, index>> \/ step' = "end"
         \/ Acknowledged' \subseteq Acknowledged
            /\ step \notin {"refuse", "complete", "end"}
  PROVE  UInv'
<1>1. requests \in Seq(Request) /\ requests' \in Seq(Request)
  BY DEF IInv, TypeOK
<1>2. Holds(requests', "Complete") => Holds(requests, "Complete")
  BY <1>1, PartKeeps DEF Commands
<1>3. StartedLast'
  BY <1>2 DEF UInv, StartedLast
<1>4. AcknowledgedIsWritten'
  BY DEF UInv, AcknowledgedIsWritten, Acknowledged, Uploading
<1> QED
  BY <1>3, <1>4 DEF UInv

\* A garbled answer differs from the one sent in its legibility only.
LEMMA GarbledOnlyLast ==
  ASSUME NEW s \in Seq(Reply), s # <<>>,
         NEW t, t = [s EXCEPT ![Len(s)].legible = FALSE]
  PROVE  /\ Len(t) = Len(s) /\ Len(s) \in 1..Len(s)
         /\ \A i \in 1..Len(s) : /\ t[i].command = s[i].command
                                 /\ t[i].address = s[i].address
                                 /\ t[i].whole = s[i].whole
                                 /\ i # Len(s) => t[i] = s[i]
<1>1. Len(s) \in Nat \ {0}
  BY EmptySeq
<1>2. s[Len(s)] \in Reply
  BY <1>1, ElementOfSeq
<1> DEFINE l == Len(s)
           r == [s[l] EXCEPT !.legible = FALSE]
<1>3. /\ r \in Reply /\ r.command = s[l].command
      /\ r.address = s[l].address /\ r.whole = s[l].whole
  BY <1>2 DEF Reply
<1>4. t = [s EXCEPT ![l] = r]
  OBVIOUS
<1>5. l \in 1..Len(s)
  BY <1>1
<1> HIDE DEF r, l
<1> DEFINE u == [s EXCEPT ![l] = r]
<1>6. /\ Len(u) = Len(s)
      /\ \A i \in 1..Len(s) : u[i] = IF i = l THEN r ELSE s[i]
  BY <1>3, <1>5, ExceptSeq
<1>7. t = u
  BY <1>4
<1> HIDE DEF u
<1>8. /\ Len(t) = Len(s)
      /\ \A i \in 1..Len(s) : t[i] = IF i = l THEN r ELSE s[i]
  BY <1>6, <1>7
<1> QED
  BY <1>3, <1>5, <1>8 DEF l

\* Every step keeps what the answers prove.
LEMMA UploadStep == IInv /\ TypeOK' /\ UInv /\ [Next]_vars => UInv'
<1> SUFFICES ASSUME IInv, TypeOK', UInv, [Next]_vars PROVE UInv'
  OBVIOUS
<1> USE DEF host, link, board, given
<1>0. /\ requests \in Seq(Request) /\ replies \in Seq(Reply)
      /\ Part(requests, requests) /\ Part(replies, replies)
      /\ AnsweredBlocks /\ Sound
  BY PartSelf DEF IInv, TypeOK, UInv
<1>1. CASE Send
  <2>1. CASE mode = "application"
    <3>1. UNCHANGED <<requests, replies, task, target, flash>>
      BY <1>1, <2>1 DEF Send
    <3> QED
      BY <1>0, <1>1, <3>1, QuietUpload DEF Send, AnsweredBlocks, Sound
  <2>2. CASE mode # "application"
    <3> DEFINE e == [command |-> CommandAt(step), address |-> index,
                     block |-> task.firmware[index]]
    <3>1. /\ requests' = Append(requests, e) /\ step # "end"
          /\ UNCHANGED <<task, target, step, index, replies, flash, mode>>
      BY <1>1, <2>2 DEF Send
    <3>2. e \in Request
      <4>1. index \in Addresses /\ task.firmware[index] \in Contents
        BY DEF IInv, TypeOK, Task
      <4>2. CommandAt(step) \in Commands
        BY DEF CommandAt, Commands
      <4> QED
        BY <4>1, <4>2 DEF Request
    <3>3. e.block = task.firmware[e.address]
          /\ (e.command = "Complete" => step \in {"refuse", "complete"})
      BY <3>1 DEF CommandAt, IInv, TypeOK, Steps
    <3> HIDE DEF e
    <3>4. /\ \A i \in 1..Len(requests) : requests'[i] = requests[i]
          /\ \A i \in 1..Len(requests') : i \in 1..Len(requests) \/ requests'[i] = e
          /\ \A c \in Commands : Holds(requests', c) =>
                Holds(requests, c) \/ e.command = c
      BY <1>0, <3>1, <3>2, Appended
    <3>5. Sound'
      BY <1>0, <3>1, <3>3, <3>4 DEF Sound
    <3>6. StartedLast'
      BY <3>1, <3>3, <3>4 DEF UInv, StartedLast, Commands
    <3>7. AnsweredBlocks' /\ AcknowledgedIsWritten'
      BY <3>1 DEF UInv, AnsweredBlocks, AcknowledgedIsWritten, Acknowledged,
         Uploading
    <3> QED
      BY <3>5, <3>6, <3>7 DEF UInv
  <2> QED
    BY <2>1, <2>2
<1>2. CASE Serve
  <2> DEFINE r == Head(requests)
  <2>1. /\ r \in Request /\ r = requests[1] /\ 1 \in 1..Len(requests)
        /\ requests # <<>> /\ mode = "bootloader"
        /\ UNCHANGED <<task, target, step, index>>
    BY <1>0, <1>2, HeadIn DEF Serve
  <2>2. PICK kept \in BOOLEAN, whole \in BOOLEAN :
          /\ target.sound => kept /\ whole
          /\ flash' = IF r.command # "SendBlock" THEN flash
                      ELSE [flash EXCEPT ![r.address] =
                              IF kept THEN r.block ELSE Spoilt]
          /\ replies' = Append(replies,
                  [command |-> r.command, address |-> r.address,
                   block |-> IF r.command = "RequestBlock"
                             THEN flash[r.address] ELSE r.block,
                   legible |-> TRUE, whole |-> whole])
    BY <1>2 DEF Serve
  <2> DEFINE a == [command |-> r.command, address |-> r.address,
                   block |-> IF r.command = "RequestBlock"
                             THEN flash[r.address] ELSE r.block,
                   legible |-> TRUE, whole |-> whole]
  <2>3. a \in Reply
    BY <2>1 DEF IInv, TypeOK, Reply, Request, Cells
  <2>4. a.command = r.command /\ a.address = r.address /\ a.whole = whole
    OBVIOUS
  <2>5. replies' = Append(replies, a)
    BY <2>2
  <2> HIDE DEF a
  <2>6. /\ \A i \in 1..Len(replies) : replies'[i] = replies[i]
        /\ \A i \in 1..Len(replies') : i \in 1..Len(replies) \/ replies'[i] = a
    BY <1>0, <2>3, <2>5, Appended
  <2>7. r.address \in Addresses /\ r.block \in Contents
        /\ r.block = task.firmware[r.address]
    BY <1>0, <2>1 DEF Request, Sound
  <2>8. flash \in [Addresses -> Cells]
    BY DEF IInv, TypeOK
  <2> HIDE DEF r
  <2>9. \A x \in Addresses :
          /\ flash[x] # Old => flash'[x] # Old
          /\ r.command = "SendBlock" /\ x = r.address => flash'[x] # Old
          /\ target.sound /\ flash[x] \in {Old, task.firmware[x]}
               => flash'[x] \in {Old, task.firmware[x]}
    <3>1. r.block # Old /\ Spoilt # Old
      BY <2>7, Parameters
    <3> QED
      BY <2>2, <2>7, <2>8, <3>1
  <2>10. AnsweredBlocks'
    <3> SUFFICES ASSUME NEW i \in 1..Len(replies'),
                        replies'[i].command = "SendBlock"
                 PROVE  flash'[replies'[i].address] # Old
      BY DEF AnsweredBlocks
    <3>1. CASE i \in 1..Len(replies)
      <4>1. replies[i] \in Reply
        BY <1>0, <3>1, ElementOfSeq
      <4> QED
        BY <1>0, <2>6, <2>9, <3>1, <4>1 DEF AnsweredBlocks, Reply
    <3>2. CASE replies'[i] = a
      BY <2>4, <2>7, <2>9, <3>2
    <3> QED
      BY <2>6, <3>1, <3>2
  <2>11. Part(requests', requests) /\ requests' \in Seq(Request)
    <3>1. CASE r.command # "Complete"
      BY <1>0, <1>2, <2>1, <3>1, PartTail DEF Serve, r
    <3>2. CASE r.command = "Complete"
      <4>1. Len(<<>>) + 0 <= Len(requests) /\ Len(<<>>) = 0 /\ <<>> \in Seq(Request)
        BY <1>0
      <4> QED
        BY <1>2, <3>2, <4>1 DEF Serve, Part, r
    <3> QED
      BY <3>1, <3>2
  <2>12. /\ \A c \in Commands : Holds(requests', c) => Holds(requests, c)
         /\ \A i \in 1..Len(requests') : \E j \in 1..Len(requests) :
              /\ requests'[i].address = requests[j].address
              /\ requests'[i].block = requests[j].block
    BY <1>0, <2>11, PartKeeps
  <2>13. Sound'
    <3>1. \A i \in 1..Len(requests') :
            requests'[i].block = task'.firmware[requests'[i].address]
      BY <1>0, <2>1, <2>12 DEF Sound
    <3>2. target.sound => \A i \in 1..Len(replies') : replies'[i].whole
      <4> SUFFICES ASSUME target.sound, NEW i \in 1..Len(replies')
                   PROVE  replies'[i].whole
        OBVIOUS
      <4>1. CASE i \in 1..Len(replies)
        BY <1>0, <2>6, <4>1 DEF Sound
      <4>2. CASE replies'[i] = a
        BY <2>2, <2>4, <4>2
      <4> QED
        BY <2>6, <4>1, <4>2
    <3>3. target.sound => \A x \in Addresses : flash'[x] \in {Old, task.firmware[x]}
      BY <1>0, <2>9 DEF Sound
    <3>4. Addresses' = Addresses /\ UNCHANGED <<task, target>>
      BY <2>1 DEF Addresses
    <3> QED
      BY <3>1, <3>2, <3>3, <3>4 DEF Sound
  <2>14. mode' # "application" \/ Holds(requests, "Complete")
    BY <1>2, <2>1 DEF Serve, Holds, r
  <2>15. StartedLast'
    BY <2>1, <2>12, <2>14 DEF UInv, StartedLast, Commands
  <2>16. AcknowledgedIsWritten'
    <3>1. Acknowledged' = Acknowledged
      BY <2>1 DEF Acknowledged, Uploading
    <3>2. Acknowledged \subseteq Addresses
      BY Parameters DEF Acknowledged, IInv, TypeOK, Addresses
    <3> QED
      BY <2>9, <3>1, <3>2 DEF UInv, AcknowledgedIsWritten
  <2> QED
    BY <2>10, <2>13, <2>15, <2>16 DEF UInv
<1>3. CASE Answered
  <2> DEFINE r == Head(replies)
  <2>1. /\ replies # <<>> /\ replies' = Tail(replies) /\ replies' \in Seq(Reply)
        /\ r.command = CommandAt(step) /\ r = replies[1] /\ 1 \in 1..Len(replies)
        /\ r \in Reply /\ Part(replies', replies)
        /\ UNCHANGED <<task, target, requests, flash, mode>>
        /\ \/ Connected(r) \/ Identified(r) \/ Written(r) \/ Ended(r)
           \/ ReadBack(r) \/ Completed(r)
    BY <1>0, <1>3, PartTail, HeadIn DEF Answered, Accepts
  <2>2. (AnsweredBlocks /\ Sound)'
    <3>1. \A i \in 1..Len(replies') : \E j \in 1..Len(replies) :
            /\ replies'[i].whole = replies[j].whole
            /\ replies'[i].command = replies[j].command
            /\ replies'[i].address = replies[j].address
      BY <1>0, <2>1, TailElements
    <3> QED
      BY <1>0, <2>1, <3>1, PartUpload
  <2>3. step = "write" => flash[r.address] # Old
    BY <1>0, <2>1 DEF AnsweredBlocks, CommandAt
  <2> HIDE DEF r
  <2>4. index \in Addresses
    BY DEF IInv, TypeOK
  <2>5. step' = "end" \/ StartedLast'
    <3>1. step \in {"refuse", "complete"} => step' = "end"
      BY <2>1 DEF Connected, Identified, Written, Ended, ReadBack, Completed, End
    <3>2. step # "end"
      BY <2>1 DEF Connected, Identified, Written, Ended, ReadBack, Completed
    <3> QED
      BY <2>1, <3>1, <3>2 DEF UInv, StartedLast
  <2>6. AcknowledgedIsWritten'
    <3>1. CASE Written(r) /\ r.address = index /\ step' = "write"
               /\ index' = index + 1
      <4>1. \A x \in 0..index : x = index \/ x \in 0..(index - 1)
        BY <2>4 DEF Addresses
      <4>2. index' - 1 = index
        BY <2>4, <3>1 DEF Addresses
      <4> QED
        BY <2>1, <2>3, <3>1, <4>1, <4>2 DEF UInv, AcknowledgedIsWritten,
           Acknowledged, Written
    <3>2. CASE Written(r) /\ r.address = index /\ step' = "eof"
               /\ ~(index + 1 < Blocks)
      <4>1. \A x \in Addresses : x = index \/ x \in 0..(index - 1)
        BY <2>4, <3>2, Parameters DEF Addresses
      <4> QED
        BY <2>1, <2>3, <3>2, <4>1 DEF UInv, AcknowledgedIsWritten,
           Acknowledged, Written
    <3>3. CASE step' = "end" \/ UNCHANGED <<step, index>>
      BY <2>1, <3>3 DEF UInv, AcknowledgedIsWritten, Acknowledged, Uploading
    <3>4. CASE step' \in {"uuid", "refuse"}
      BY <2>1, <3>4 DEF UInv, AcknowledgedIsWritten, Acknowledged, Uploading
    <3>5. CASE step' = "write" /\ index' = 0
      BY <2>1, <3>5 DEF UInv, AcknowledgedIsWritten, Acknowledged, Uploading
    <3>6. CASE step \in {"eof", "read"} /\ step' \in {"read", "complete"}
      BY <2>1, <3>6 DEF UInv, AcknowledgedIsWritten, Acknowledged, Uploading
    <3>7. CASE step' = "complete" /\ task.leave
      BY <2>1, <3>7 DEF UInv, AcknowledgedIsWritten, Acknowledged, Uploading
    <3> QED
      BY <2>1, <3>1, <3>2, <3>3, <3>4, <3>5, <3>6, <3>7 DEF Connected,
         Identified, Written, Ended, ReadBack, Completed, Goto, End, Resend,
         NextBlock, Admit, WrongBlock, Verdict
  <2>7. StartedLast'
    BY <2>1, <2>5 DEF StartedLast
  <2> QED
    BY <2>2, <2>6, <2>7 DEF UInv
<1>4. ASSUME UNCHANGED <<requests, replies, task, target, flash, mode>>,
             UNCHANGED <<step, index>> \/ step' = "end"
      PROVE  UInv'
  BY <1>0, <1>4, QuietUpload DEF AnsweredBlocks, Sound
<1>5. CASE Timeout \/ SendFails \/ Exhausted \/ OutOfReach \/ UNCHANGED vars
  BY <1>4, <1>5 DEF Timeout, SendFails, Exhausted, OutOfReach, End, vars
<1>6. ASSUME Part(replies', replies),
             \A i \in 1..Len(replies') : \E j \in 1..Len(replies) :
                /\ replies'[i].whole = replies[j].whole
                /\ replies'[i].command = replies[j].command
                /\ replies'[i].address = replies[j].address,
             Part(requests', requests),
             UNCHANGED <<task, target, flash, mode, step, index>>
      PROVE  UInv'
  BY <1>0, <1>6, PartUpload, QuietUpload
<1>7. CASE Misread
  <2>1. Part(replies', replies)
    BY <1>0, <1>7, PartTail DEF Misread
  <2>2. \A i \in 1..Len(replies') : \E j \in 1..Len(replies) :
          replies'[i] = replies[j]
    BY <1>0, <1>7, TailElements DEF Misread
  <2> QED
    BY <1>0, <1>6, <1>7, <2>1, <2>2 DEF Misread
<1>8. CASE Overrun
  <2>1. PICK n \in 2..Len(replies) : replies' = SubSeq(replies, n + 1, Len(replies))
    BY <1>8 DEF Overrun
  <2>2. Part(replies', replies)
    BY <1>0, <2>1, PartRest
  <2>3. \A i \in 1..Len(replies') : \E j \in 1..Len(replies) :
          replies'[i] = replies[j]
    BY <1>0, <2>1
  <2> QED
    BY <1>0, <1>6, <1>8, <2>2, <2>3 DEF Overrun
<1>9. CASE LoseRequest
  <2>1. Part(requests', requests)
    BY <1>0, <1>9, PartFront DEF LoseRequest
  <2> QED
    BY <1>0, <1>6, <1>9, <2>1 DEF LoseRequest
<1>10. CASE LoseReply
  <2>1. Part(replies', replies)
    BY <1>0, <1>10, PartFront DEF LoseReply
  <2>2. \A i \in 1..Len(replies') : \E j \in 1..Len(replies) :
          replies'[i] = replies[j]
    BY <1>0, <1>10 DEF LoseReply
  <2> QED
    BY <1>0, <1>6, <1>10, <2>1, <2>2 DEF LoseReply
<1>11. CASE Garble
  <2>1. Part(replies', replies)
    BY <1>0, <1>11, PartGarbled DEF Garble
  <2>2. ASSUME NEW i \in 1..Len(replies')
        PROVE  \E j \in 1..Len(replies) :
                 /\ replies'[i].whole = replies[j].whole
                 /\ replies'[i].command = replies[j].command
                 /\ replies'[i].address = replies[j].address
    BY <1>0, <1>11, GarbledOnlyLast DEF Garble
  <2> QED
    BY <1>0, <1>6, <1>11, <2>1, <2>2 DEF Garble
<1> QED
  BY <1>1, <1>2, <1>3, <1>5, <1>7, <1>8, <1>9, <1>10, <1>11 DEF Next, Host

\* Nothing was acknowledged when the session starts.
LEMMA InitUpload == Init => UInv
<1> SUFFICES ASSUME Init PROVE UInv
  OBVIOUS
<1>1. Len(requests) = 0 /\ Len(replies) = 0 /\ flash = Before
  BY DEF Init
<1> QED
  BY <1>1 DEF Init, UInv, AnsweredBlocks, Sound, StartedLast, Holds, Before,
     AcknowledgedIsWritten, Acknowledged, Uploading

\* What the answers prove is an invariant of the specification.
LEMMA UploadInvariant == Spec => []UInv
<1>1. IInv => TypeOK
  BY DEF IInv
<1> QED
  BY <1>1, Invariant, InitUpload, UploadStep, PTL DEF Spec

\* A block the host counts as acknowledged was written by the board, however
\* many answers to other blocks it read before.
THEOREM AcknowledgedWritten == Spec => []AcknowledgedIsWritten
<1>1. UInv => AcknowledgedIsWritten
  BY DEF UInv
<1> QED
  BY <1>1, UploadInvariant, PTL

-----------------------------------------------------------------------------
(* What few faults cost. *)

\* How many members of T there are in a sequence.
Hits(s, T) == {i \in 1..Len(s) : s[i] \in T}
Count(s, T) == Cardinality(Hits(s, T))

\* What is on its way and is not an answer the host will take, or not the one
\* for the block in hand.
Strange == {m \in Reply : ~Accepts(m)}
StrangeReq == {m \in Request : m.command # CommandAt(step)}
Others == {m \in Reply : m.command # CommandAt(step) \/ m.address # index}
OthersReq == {m \in Request : m.command # CommandAt(step) \/ m.address # index}

\* Exchanges of this command that failed; messages beyond the one that is
\* awaited; whether that one is lost.
Failed == IF awaiting THEN attempts - 1 ELSE attempts
Astray == Count(replies, Strange) + Count(requests, StrangeReq)
Foreign == Count(replies, Others) + Count(requests, OthersReq)
Pending == Len(requests) + Len(replies)
Surplus == IF awaiting /\ Pending # 0 THEN Pending - 1 ELSE Pending
Missing == IF awaiting /\ Pending = 0 THEN 1 ELSE 0

\* A fault leaves one message too many or one too few, and either costs two
\* exchanges at most; of the wrong answers read, each was sent too many.
Patience ==
    mode = "bootloader" /\ step # "end" /\ faults < BLOCK_ATTEMPTS =>
        /\ Surplus <= faults
        /\ tries + Foreign <= faults
        /\ Failed + Astray + Surplus + Missing <= 2 * faults

\* An index set that fits into another one, shifted, is no larger.
LEMMA ShiftedLe ==
  ASSUME NEW A, NEW B, A \subseteq Nat, IsFiniteSet(B), NEW k \in Nat,
         \A i \in A : i + k \in B
  PROVE  IsFiniteSet(A) /\ Cardinality(A) <= Cardinality(B)
<1> DEFINE f == [i \in A |-> i + k]
<1>1. f \in Injection(A, B)
  BY DEF Injection, IsInjective
<1> HIDE DEF f
<1> QED
  BY <1>1, FS_Injection

\* There are no more members of a set in a sequence than it has elements.
LEMMA CountBound ==
  ASSUME NEW S, NEW s \in Seq(S), NEW T
  PROVE  IsFiniteSet(Hits(s, T)) /\ Count(s, T) \in 0..Len(s)
<1>1. Len(s) \in Nat
  OBVIOUS
<1>2. IsFiniteSet(1..Len(s)) /\ Cardinality(1..Len(s)) = Len(s)
  BY <1>1, FS_Interval
<1>3. Hits(s, T) \in SUBSET (1..Len(s))
  BY DEF Hits
<1>4. IsFiniteSet(Hits(s, T)) /\ Cardinality(Hits(s, T)) <= Cardinality(1..Len(s))
  BY <1>2, <1>3, FS_Subset
<1>5. Cardinality(Hits(s, T)) \in Nat
  BY <1>4, FS_CardinalityType
<1> QED
  BY <1>1, <1>2, <1>4, <1>5 DEF Count

\* The places counted are positions.
LEMMA HitsNat == ASSUME NEW s, NEW T PROVE Hits(s, T) \subseteq Nat
<1>1. 1..Len(s) \subseteq Nat
  OBVIOUS
<1> QED
  BY <1>1 DEF Hits

\* Elements that were members, a few places on, are counted no higher.
LEMMA CountLe ==
  ASSUME NEW S, NEW s \in Seq(S), NEW U, NEW t \in Seq(U), NEW T, NEW W,
         NEW k \in Nat, \A i \in Hits(t, W) : i + k \in Hits(s, T)
  PROVE  Count(t, W) <= Count(s, T)
<1>1. IsFiniteSet(Hits(s, T))
  BY CountBound
<1>2. Hits(t, W) \subseteq Nat
  BY HitsNat
<1>3. Cardinality(Hits(t, W)) <= Cardinality(Hits(s, T))
  BY <1>1, <1>2, ShiftedLe
<1> QED
  BY <1>3 DEF Count

\* A member that is gone lowers the count.
LEMMA CountLess ==
  ASSUME NEW S, NEW s \in Seq(S), NEW U, NEW t \in Seq(U), NEW T, NEW W,
         NEW k \in Nat, NEW n \in Hits(s, T),
         \A i \in Hits(t, W) : i + k \in Hits(s, T) /\ i + k # n
  PROVE  Count(t, W) + 1 <= Count(s, T)
<1> DEFINE B == Hits(s, T) \ {n}
<1>0. IsFiniteSet(Hits(s, T))
  BY CountBound
<1>1. Hits(t, W) \subseteq Nat /\ IsFiniteSet(Hits(s, T))
      /\ Cardinality(Hits(s, T)) \in Nat
  BY <1>0, HitsNat, FS_CardinalityType
<1>2. IsFiniteSet(B) /\ Cardinality(B) = Cardinality(Hits(s, T)) - 1
  BY <1>1, FS_RemoveElement
<1>3. \A i \in Hits(t, W) : i + k \in B
  OBVIOUS
<1> HIDE DEF B
<1>4. Cardinality(Hits(t, W)) <= Cardinality(B) /\ IsFiniteSet(Hits(t, W))
  BY <1>1, <1>2, <1>3, ShiftedLe
<1>5. Cardinality(Hits(t, W)) \in Nat
  BY <1>4, FS_CardinalityType
<1> QED
  BY <1>1, <1>2, <1>4, <1>5 DEF Count

\* One member more raises it by one at most.
LEMMA CountMore ==
  ASSUME NEW S, NEW s \in Seq(S), NEW U, NEW t \in Seq(U), NEW T, NEW W,
         NEW n, \A i \in Hits(t, W) : i \in Hits(s, T) \/ i = n
  PROVE  Count(t, W) <= Count(s, T) + 1
<1> DEFINE B == Hits(s, T) \cup {n}
<1>0. IsFiniteSet(Hits(s, T))
  BY CountBound
<1>1. IsFiniteSet(Hits(s, T)) /\ Cardinality(Hits(s, T)) \in Nat
  BY <1>0, FS_CardinalityType
<1>a. /\ IsFiniteSet(B)
      /\ Cardinality(B) = IF n \in Hits(s, T) THEN Cardinality(Hits(s, T))
                          ELSE Cardinality(Hits(s, T)) + 1
  BY <1>1, FS_AddElement
<1>2. IsFiniteSet(B) /\ Cardinality(B) <= Cardinality(Hits(s, T)) + 1
  BY <1>1, <1>a
<1>3. Hits(t, W) \in SUBSET B
  OBVIOUS
<1> HIDE DEF B
<1>4. IsFiniteSet(Hits(t, W)) /\ Cardinality(Hits(t, W)) <= Cardinality(B)
  BY <1>2, <1>3, FS_Subset
<1>5. Cardinality(Hits(t, W)) \in Nat /\ Cardinality(B) \in Nat
  BY <1>2, <1>4, FS_CardinalityType
<1> QED
  BY <1>1, <1>2, <1>4, <1>5 DEF Count

\* A count is a number.
LEMMA CountNat == \A S, T : \A s \in Seq(S) : Count(s, T) \in Nat
<1> SUFFICES ASSUME NEW S, NEW T, NEW s \in Seq(S) PROVE Count(s, T) \in Nat
  OBVIOUS
<1>1. Count(s, T) \in 0..Len(s) /\ Len(s) \in Nat
  BY CountBound
<1> QED
  BY <1>1

\* Counts are numbers, and no more than what is pending.
LEMMA Counted ==
  ASSUME TypeOK, TypeOK'
  PROVE  /\ Astray \in Nat /\ Foreign \in Nat /\ Pending \in Nat
         /\ Astray' \in Nat /\ Foreign' \in Nat /\ Pending' \in Nat
         /\ Astray' <= Pending' /\ Foreign' <= Pending'
<1>1. /\ requests \in Seq(Request) /\ requests' \in Seq(Request)
      /\ replies \in Seq(Reply) /\ replies' \in Seq(Reply)
  BY DEF TypeOK
<1>2. /\ Len(requests) \in Nat /\ Len(requests') \in Nat
      /\ Len(replies) \in Nat /\ Len(replies') \in Nat
  BY <1>1
<1>3. /\ Count(replies, Strange) \in 0..Len(replies)
      /\ Count(replies, Others) \in 0..Len(replies)
      /\ Count(replies', Strange') \in 0..Len(replies')
      /\ Count(replies', Others') \in 0..Len(replies')
  BY <1>1, CountBound
<1>4. /\ Count(requests, StrangeReq) \in 0..Len(requests)
      /\ Count(requests, OthersReq) \in 0..Len(requests)
      /\ Count(requests', StrangeReq') \in 0..Len(requests')
      /\ Count(requests', OthersReq') \in 0..Len(requests')
  BY <1>1, CountBound
<1>5. Astray \in Nat /\ Foreign \in Nat /\ Pending \in Nat
  BY <1>2, <1>3, <1>4 DEF Astray, Foreign, Pending
<1>6. Astray' \in Nat /\ Astray' <= Pending' /\ Pending' \in Nat
  BY <1>2, <1>3, <1>4 DEF Astray, Pending
<1>7. Foreign' \in Nat /\ Foreign' <= Pending'
  BY <1>2, <1>3, <1>4 DEF Foreign, Pending
<1> QED
  BY <1>5, <1>6, <1>7

\* What is strange depends on where the host is and on nothing else.
LEMMA StrangeKept ==
  ASSUME UNCHANGED <<step, index>>
  PROVE  /\ Strange' = Strange /\ StrangeReq' = StrangeReq
         /\ Others' = Others /\ OthersReq' = OthersReq
BY DEF Strange, StrangeReq, Others, OthersReq, Accepts, CommandAt

\* While the board listens and the host is not done, patience is kept.
LEMMA PatienceStep ==
  ASSUME IInv, TypeOK', MaxFaults >= BLOCK_ATTEMPTS, Patience, [Next]_vars
  PROVE  Patience'
<1> SUFFICES ASSUME mode' = "bootloader", step' # "end",
                    faults' < BLOCK_ATTEMPTS
             PROVE  /\ Surplus' <= faults'
                    /\ tries' + Foreign' <= faults'
                    /\ Failed' + Astray' + Surplus' + Missing' <= 2 * faults'
  BY DEF Patience
<1>1. /\ faults \in Nat /\ faults' \in Nat /\ attempts \in Nat /\ attempts' \in Nat
      /\ tries \in Nat /\ tries' \in Nat /\ awaiting \in BOOLEAN
      /\ awaiting' \in BOOLEAN /\ BLOCK_ATTEMPTS \in Nat /\ MaxFaults \in Nat
  BY Parameters DEF IInv, TypeOK
<1>2. /\ requests \in Seq(Request) /\ requests' \in Seq(Request)
      /\ replies \in Seq(Reply) /\ replies' \in Seq(Reply)
      /\ Len(requests) \in Nat /\ Len(replies) \in Nat
  BY DEF IInv, TypeOK
<1>3. /\ Astray \in Nat /\ Foreign \in Nat /\ Pending \in Nat
      /\ Astray' \in Nat /\ Foreign' \in Nat /\ Pending' \in Nat
      /\ Astray' <= Pending' /\ Foreign' <= Pending'
  BY Counted DEF IInv
<1>a. /\ Surplus \in Int /\ Failed \in Int /\ Missing \in Int
      /\ Surplus' \in Int /\ Failed' \in Int /\ Missing' \in Int
  BY <1>1, <1>3 DEF Surplus, Failed, Missing
<1>4. mode = "bootloader"
  BY DEF Next, vars, given, host, link, board, Host, Send, SendFails, Serve,
         LoseRequest, LoseReply, Garble, Timeout, Overrun, Misread, Exhausted,
         Answered, OutOfReach
<1>5. step # "end"
  BY DEF Next, vars, given, host, link, board, Host, Send, SendFails, Serve,
         LoseRequest, LoseReply, Garble, Timeout, Overrun, Misread, Exhausted,
         Answered, OutOfReach, InReach, Connected, Identified, Written, Ended,
         ReadBack, Completed
<1>6. faults' \in {faults, faults + 1}
  BY <1>1 DEF Next, vars, given, host, link, board, Host, Send, SendFails, Serve,
         LoseRequest, LoseReply, Garble, Timeout, Overrun, Misread, Exhausted,
         Answered, OutOfReach, Fault
<1>7. faults < MaxFaults
  BY <1>1, <1>6
<1>8. /\ Surplus <= faults
      /\ tries + Foreign <= faults
      /\ Failed + Astray + Surplus + Missing <= 2 * faults
  BY <1>1, <1>4, <1>5, <1>6 DEF Patience
<1>9. CASE UNCHANGED vars
  <2>1. UNCHANGED <<step, index, tries, attempts, awaiting, requests, replies,
                    faults>>
    BY <1>9 DEF vars, host, link
  <2>2. Astray' = Astray /\ Foreign' = Foreign /\ Pending' = Pending
    BY <2>1, StrangeKept DEF Astray, Foreign, Pending
  <2> QED
    BY <1>8, <2>1, <2>2 DEF Surplus, Failed, Missing
<1>10. CASE Send
  <2> DEFINE m == [command |-> CommandAt(step), address |-> index,
                   block |-> task.firmware[index]]
  <2>1. /\ UNCHANGED <<step, index, tries, replies, faults>>
        /\ requests' = Append(requests, m)
        /\ ~awaiting /\ awaiting' /\ attempts' = attempts + 1
    BY <1>4, <1>10 DEF Send, board
  <2>2. m \notin StrangeReq /\ m \notin OthersReq
    BY DEF StrangeReq, OthersReq
  <2> HIDE DEF m
  <2>3. \A i \in Hits(requests', StrangeReq') : i + 0 \in Hits(requests, StrangeReq)
    BY <1>2, <2>1, <2>2, StrangeKept DEF Hits
  <2>4. \A i \in Hits(requests', OthersReq') : i + 0 \in Hits(requests, OthersReq)
    BY <1>2, <2>1, <2>2, StrangeKept DEF Hits
  <2>5. Count(requests', StrangeReq') <= Count(requests, StrangeReq)
    BY <1>2, <2>3, CountLe
  <2>6. Count(requests', OthersReq') <= Count(requests, OthersReq)
    BY <1>2, <2>4, CountLe
  <2>7. Pending' = Pending + 1
    BY <1>2, <2>1 DEF Pending
  <2>8. Astray' <= Astray /\ Foreign' <= Foreign
    <3>1. /\ Count(replies', Strange') = Count(replies, Strange)
          /\ Count(replies', Others') = Count(replies, Others)
      BY <2>1, StrangeKept
    <3>2. /\ Count(replies, Strange) \in Nat /\ Count(replies, Others) \in Nat
          /\ Count(requests, StrangeReq) \in Nat
          /\ Count(requests', StrangeReq') \in Nat
          /\ Count(requests, OthersReq) \in Nat
          /\ Count(requests', OthersReq') \in Nat
      BY <1>2, CountNat
    <3> QED
      BY <2>5, <2>6, <3>1, <3>2 DEF Astray, Foreign
  <2>9. Surplus = Pending /\ Failed = attempts /\ Missing = 0
    BY <2>1 DEF Surplus, Failed, Missing
  <2>10. Surplus' = Pending /\ Failed' = attempts /\ Missing' = 0
    BY <1>1, <1>3, <2>1, <2>7 DEF Surplus, Failed, Missing
  <2>11. faults' = faults /\ tries' = tries
    BY <2>1
  <2>12. /\ \A n \in Nat : n <= Foreign => tries + n <= faults
         /\ \A n \in Nat : n <= Astray =>
              Failed + n + Surplus + Missing <= 2 * faults
    BY <1>1, <1>3, <1>a, <1>8
  <2> QED
    BY <1>3, <1>8, <2>8, <2>9, <2>10, <2>11, <2>12
<1>11. CASE SendFails
  <2>1. UNCHANGED <<step, index, tries, awaiting, requests, replies>>
    BY <1>11 DEF SendFails, link
  <2>2. /\ attempts' = attempts + 1 /\ ~awaiting /\ faults' = faults + 1
    BY <1>11 DEF SendFails, Fault
  <2>3. Astray' = Astray /\ Foreign' = Foreign /\ Pending' = Pending
    BY <2>1, StrangeKept DEF Astray, Foreign, Pending
  <2> QED
    BY <1>1, <1>3, <1>8, <2>1, <2>2, <2>3 DEF Surplus, Failed, Missing
<1>12. CASE Timeout
  <2>1. UNCHANGED <<step, index, tries, attempts, requests, replies>>
    BY <1>12 DEF Timeout, link
  <2>2. /\ awaiting /\ ~awaiting' /\ replies = <<>>
        /\ faults' = IF requests # <<>> THEN faults + 1 ELSE faults
    BY <1>7, <1>12 DEF Timeout
  <2>3. Astray' = Astray /\ Foreign' = Foreign /\ Pending' = Pending
    BY <2>1, StrangeKept DEF Astray, Foreign, Pending
  <2>4. requests # <<>> <=> Pending # 0
    BY <1>2, <2>2 DEF Pending
  <2>5. /\ Surplus = IF Pending # 0 THEN Pending - 1 ELSE Pending
        /\ Missing = IF Pending = 0 THEN 1 ELSE 0
        /\ Failed = attempts - 1
    BY <2>2 DEF Surplus, Failed, Missing
  <2>6. Surplus' = Pending /\ Failed' = attempts /\ Missing' = 0
    BY <2>1, <2>2, <2>3 DEF Surplus, Failed, Missing
  <2> QED
    BY <1>1, <1>3, <1>8, <2>1, <2>2, <2>3, <2>4, <2>5, <2>6
<1>13. CASE Serve
  <2> DEFINE r == Head(requests)
  <2>1. /\ requests # <<>> /\ requests' = Tail(requests)
        /\ UNCHANGED <<step, index, tries, attempts, awaiting, faults>>
    BY <1>13 DEF Serve, host
  <2>2. PICK a : /\ replies' = Append(replies, a)
                 /\ a.command = r.command /\ a.address = r.address
                 /\ a.legible
    BY <1>13 DEF Serve
  <2>3. r \in Request /\ 1 \in 1..Len(requests) /\ requests[1] = r
    BY <1>2, <2>1
  <2> HIDE DEF r
  <2>4. /\ Len(requests') = Len(requests) - 1 /\ Len(replies') = Len(replies) + 1
        /\ Len(requests) >= 1
    BY <1>2, <2>1, <2>2
  <2>5. Pending' = Pending
    BY <1>2, <2>4 DEF Pending
  <2>6. /\ Count(requests', StrangeReq') + Count(replies', Strange')
           <= Count(requests, StrangeReq) + Count(replies, Strange)
        /\ Count(requests', OthersReq') + Count(replies', Others')
           <= Count(requests, OthersReq) + Count(replies, Others)
    <3>1. /\ Count(replies, Strange) \in Nat /\ Count(replies, Others) \in Nat
          /\ Count(replies', Strange') \in Nat /\ Count(replies', Others') \in Nat
          /\ Count(requests, StrangeReq) \in Nat
          /\ Count(requests', StrangeReq') \in Nat
          /\ Count(requests, OthersReq) \in Nat
          /\ Count(requests', OthersReq') \in Nat
      BY <1>2, CountNat
    <3>2. r \in StrangeReq <=> r.command # CommandAt(step)
      BY <2>3 DEF StrangeReq
    <3>3. r \in OthersReq <=> r.command # CommandAt(step) \/ r.address # index
      BY <2>3 DEF OthersReq
    <3>4. r \notin StrangeReq => a \notin Strange
      BY <2>2, <3>2 DEF Strange, Accepts
    <3>5. r \notin OthersReq => a \notin Others
      BY <2>2, <3>3 DEF Others
    <3>6. \A T : \A i \in Hits(requests', T) : i + 1 \in Hits(requests, T) /\ i + 1 # 1
      BY <1>2, <2>1, <2>4 DEF Hits
    <3>7. ASSUME NEW T, NEW i \in Hits(replies', T)
          PROVE  i + 0 \in Hits(replies, T) \/ a \in T
      <4>1. i \in 1..(Len(replies) + 1) /\ replies'[i] \in T
        BY <2>4 DEF Hits
      <4>2. CASE i = Len(replies) + 1
        BY <1>2, <2>2, <4>1, <4>2
      <4>3. CASE i \in 1..Len(replies)
        BY <1>2, <2>2, <4>1, <4>3 DEF Hits
      <4>4. i = Len(replies) + 1 \/ i \in 1..Len(replies)
        <5>1. Len(replies) \in Nat
          BY <1>2
        <5>2. \A n \in Nat : \A j \in 1..(n + 1) : j = n + 1 \/ j \in 1..n
          OBVIOUS
        <5> QED
          BY <4>1, <5>1, <5>2
      <4> QED
        BY <4>2, <4>3, <4>4
    <3>8. \A T : \A i \in Hits(replies', T) : i \in Hits(replies, T)
                                              \/ i = Len(replies) + 1
      BY <1>2, <2>2, <2>4 DEF Hits
    <3>9. \A T : r \in T => 1 \in Hits(requests, T)
      BY <2>3 DEF Hits
    <3>10. ASSUME NEW T, NEW R, r \notin R => a \notin T
           PROVE  Count(requests', R) + Count(replies', T)
                  <= Count(requests, R) + Count(replies, T)
      <4>1. /\ Count(requests', R) \in Nat /\ Count(replies', T) \in Nat
            /\ Count(requests, R) \in Nat /\ Count(replies, T) \in Nat
        BY <1>2, CountNat
      <4>2. CASE r \in R
        <5>1. Count(requests', R) + 1 <= Count(requests, R)
          BY <1>2, <3>6, <3>9, <4>2, CountLess
        <5>2. Count(replies', T) <= Count(replies, T) + 1
          BY <1>2, <3>8, CountMore
        <5> QED
          BY <4>1, <5>1, <5>2
      <4>3. CASE r \notin R
        <5>1. Count(requests', R) <= Count(requests, R)
          BY <1>2, <3>6, CountLe
        <5>2. \A i \in Hits(replies', T) : i + 0 \in Hits(replies, T)
          BY <3>7, <3>10, <4>3
        <5>3. Count(replies', T) <= Count(replies, T)
          BY <1>2, <5>2, CountLe
        <5> QED
          BY <4>1, <5>1, <5>3
      <4> QED
        BY <4>2, <4>3
    <3> QED
      BY <2>1, <3>4, <3>5, <3>10, StrangeKept
  <2>7. Astray' <= Astray /\ Foreign' <= Foreign
    <3>1. /\ Count(replies, Strange) \in Nat /\ Count(replies, Others) \in Nat
          /\ Count(replies', Strange') \in Nat /\ Count(replies', Others') \in Nat
          /\ Count(requests, StrangeReq) \in Nat
          /\ Count(requests', StrangeReq') \in Nat
          /\ Count(requests, OthersReq) \in Nat
          /\ Count(requests', OthersReq') \in Nat
      BY <1>2, CountNat
    <3> QED
      BY <2>6, <3>1 DEF Astray, Foreign
  <2>8. Surplus' = Surplus /\ Failed' = Failed /\ Missing' = Missing
    BY <2>1, <2>5 DEF Surplus, Failed, Missing
  <2>9. faults' = faults /\ tries' = tries
    BY <2>1
  <2>10. /\ \A n \in Nat : n <= Foreign => tries + n <= faults
         /\ \A n \in Nat : n <= Astray =>
              Failed + n + Surplus + Missing <= 2 * faults
    BY <1>1, <1>3, <1>a, <1>8
  <2> QED
    BY <1>3, <1>8, <2>7, <2>8, <2>9, <2>10
<1>14. CASE Misread
  <2>1. /\ awaiting /\ ~awaiting' /\ replies # <<>> /\ replies' = Tail(replies)
        /\ ~Accepts(Head(replies))
        /\ UNCHANGED <<step, index, tries, attempts, requests, faults>>
    BY <1>14 DEF Misread
  <2>2. /\ Len(replies') = Len(replies) - 1 /\ Len(replies) >= 1
        /\ Head(replies) = replies[1] /\ replies[1] \in Reply /\ 1 \in 1..Len(replies)
    BY <1>2, <2>1
  <2>3. Pending' = Pending - 1 /\ Pending # 0
    BY <1>2, <2>1, <2>2 DEF Pending
  <2>4. 1 \in Hits(replies, Strange)
    BY <2>1, <2>2 DEF Hits, Strange
  <2>5. \A T : \A i \in Hits(replies', T) : i + 1 \in Hits(replies, T) /\ i + 1 # 1
    BY <1>2, <2>1, <2>2 DEF Hits
  <2>6. Count(replies', Strange) + 1 <= Count(replies, Strange)
    BY <1>2, <2>4, <2>5, CountLess
  <2>7. Count(replies', Others) <= Count(replies, Others)
    BY <1>2, <2>5, CountLe
  <2>8. Astray' + 1 <= Astray /\ Foreign' <= Foreign
    <3>1. /\ Count(replies, Strange) \in Nat /\ Count(replies, Others) \in Nat
          /\ Count(replies', Strange) \in Nat /\ Count(replies', Others) \in Nat
          /\ Count(requests, StrangeReq) \in Nat
          /\ Count(requests, OthersReq) \in Nat
      BY <1>2, CountNat
    <3>2. /\ Astray' = Count(replies', Strange) + Count(requests, StrangeReq)
          /\ Foreign' = Count(replies', Others) + Count(requests, OthersReq)
      BY <2>1, StrangeKept DEF Astray, Foreign
    <3> QED
      BY <2>6, <2>7, <3>1, <3>2 DEF Astray, Foreign
  <2>9. Surplus = Pending - 1 /\ Failed = attempts - 1 /\ Missing = 0
    BY <2>1, <2>3 DEF Surplus, Failed, Missing
  <2>10. Surplus' = Pending - 1 /\ Failed' = attempts /\ Missing' = 0
    BY <2>1, <2>3 DEF Surplus, Failed, Missing
  <2>11. /\ \A n \in Nat : n <= Foreign => tries + n <= faults
         /\ \A n \in Nat : n + 1 <= Astray =>
              attempts + n + (Pending - 1) + 0 <= 2 * faults
    BY <1>1, <1>3, <1>8, <2>9
  <2>12. faults' = faults /\ tries' = tries
    BY <2>1
  <2> QED
    BY <1>3, <1>8, <2>8, <2>9, <2>10, <2>11, <2>12
<1>15. CASE Overrun
  <2>1. /\ awaiting /\ ~awaiting'
        /\ UNCHANGED <<step, index, tries, attempts, requests, faults>>
    BY <1>15 DEF Overrun
  <2>2. PICK n \in 2..Len(replies) : replies' = SubSeq(replies, n + 1, Len(replies))
    BY <1>15 DEF Overrun
  <2>3. /\ Len(replies') = Len(replies) - n /\ n \in Nat
        /\ \A i \in 1..Len(replies') : replies'[i] = replies[i + n]
                                       /\ i + n \in 1..Len(replies)
    BY <1>2, <2>2
  <2>4. Pending' = Pending - n /\ Pending >= 2
    BY <1>2, <2>1, <2>2, <2>3 DEF Pending
  <2>5. \A T : \A i \in Hits(replies', T) : i + n \in Hits(replies, T)
    BY <2>3 DEF Hits
  <2>6. \A T : Count(replies', T) <= Count(replies, T)
    BY <1>2, <2>3, <2>5, CountLe
  <2>7. Astray' <= Astray /\ Foreign' <= Foreign
    <3>1. /\ Count(replies, Strange) \in Nat /\ Count(replies, Others) \in Nat
          /\ Count(replies', Strange) \in Nat /\ Count(replies', Others) \in Nat
          /\ Count(requests, StrangeReq) \in Nat
          /\ Count(requests, OthersReq) \in Nat
      BY <1>2, CountNat
    <3>2. /\ Astray' = Count(replies', Strange) + Count(requests, StrangeReq)
          /\ Foreign' = Count(replies', Others) + Count(requests, OthersReq)
      BY <2>1, StrangeKept DEF Astray, Foreign
    <3> QED
      BY <2>6, <3>1, <3>2 DEF Astray, Foreign
  <2>8. Surplus = Pending - 1 /\ Failed = attempts - 1 /\ Missing = 0
    BY <1>3, <2>1, <2>4 DEF Surplus, Failed, Missing
  <2>9. Surplus' = Pending - n /\ Failed' = attempts /\ Missing' = 0
    BY <2>1, <2>4 DEF Surplus, Failed, Missing
  <2>10. /\ \A k \in Nat : k <= Foreign => tries + k <= faults
         /\ \A k \in Nat : k <= Astray =>
              attempts + k + (Pending - n) + 0 <= 2 * faults
         /\ Pending - n <= faults
    BY <1>1, <1>3, <1>8, <2>2, <2>3, <2>8
  <2>11. faults' = faults /\ tries' = tries
    BY <2>1
  <2> QED
    BY <1>3, <2>7, <2>9, <2>10, <2>11
<1>16. ASSUME /\ UNCHANGED <<step, index, tries, attempts, awaiting>>
              /\ faults' = faults + 1
              /\ Pending' = Pending - 1 /\ Pending >= 1
              /\ Astray' <= Astray /\ Foreign' <= Foreign
       PROVE  /\ Surplus' <= faults'
              /\ tries' + Foreign' <= faults'
              /\ Failed' + Astray' + Surplus' + Missing' <= 2 * faults'
  <2>1. /\ Failed' = Failed /\ tries' = tries
        /\ Surplus' = IF awaiting /\ Pending # 1 THEN Pending - 2 ELSE Pending - 1
        /\ Missing' = IF awaiting /\ Pending = 1 THEN 1 ELSE 0
    BY <1>3, <1>16 DEF Failed, Surplus, Missing
  <2>2. /\ Surplus = IF awaiting THEN Pending - 1 ELSE Pending
        /\ Missing = 0
    BY <1>3, <1>16 DEF Surplus, Missing
  <2>3. /\ Surplus' \in {Surplus, Surplus - 1} /\ Missing' \in {0, 1}
        /\ Surplus' + Missing' <= Surplus + 1
    <3>1. CASE awaiting
      BY <1>3, <1>16, <2>1, <2>2, <3>1
    <3>2. CASE ~awaiting
      BY <1>3, <1>16, <2>1, <2>2, <3>2
    <3> QED
      BY <3>1, <3>2
  <2>4. /\ \A n \in Nat : n <= Foreign => tries + n <= faults + 1
        /\ \A n \in Nat : \A s \in {Surplus, Surplus - 1} : \A m \in {0, 1} :
             n <= Astray /\ s + m <= Surplus + 1 =>
             s <= faults + 1 /\ Failed + n + s + m <= 2 * (faults + 1)
    BY <1>1, <1>3, <1>a, <1>8, <2>2
  <2> QED
    BY <1>3, <1>16, <2>1, <2>3, <2>4
<1>17. CASE LoseRequest
  <2>1. /\ UNCHANGED <<step, index, tries, attempts, awaiting, replies>>
        /\ requests # <<>> /\ requests' = SubSeq(requests, 1, Len(requests) - 1)
        /\ faults' = faults + 1
    BY <1>17 DEF LoseRequest, host, Fault
  <2>2. /\ Len(requests') = Len(requests) - 1 /\ Len(requests) >= 1
        /\ \A i \in 1..Len(requests') : requests'[i] = requests[i + 0]
                                        /\ i + 0 \in 1..Len(requests) /\ i + 0 = i
    BY <1>2, <2>1, FrontElements
  <2>3. \A T : \A i \in Hits(requests', T) : i + 0 \in Hits(requests, T)
    BY <2>2 DEF Hits
  <2>4. \A T : Count(requests', T) <= Count(requests, T)
    BY <1>2, <2>3, CountLe
  <2>5. Astray' <= Astray /\ Foreign' <= Foreign
    <3>1. /\ Count(replies, Strange) \in Nat /\ Count(replies, Others) \in Nat
          /\ Count(requests, StrangeReq) \in Nat
          /\ Count(requests, OthersReq) \in Nat
          /\ Count(requests', StrangeReq) \in Nat
          /\ Count(requests', OthersReq) \in Nat
      BY <1>2, CountNat
    <3>2. /\ Astray' = Count(replies, Strange) + Count(requests', StrangeReq)
          /\ Foreign' = Count(replies, Others) + Count(requests', OthersReq)
      BY <2>1, StrangeKept DEF Astray, Foreign
    <3> QED
      BY <2>4, <3>1, <3>2 DEF Astray, Foreign
  <2>6. Pending' = Pending - 1 /\ Pending >= 1
    BY <1>2, <2>1, <2>2 DEF Pending
  <2> QED
    BY <1>16, <2>1, <2>5, <2>6
<1>18. CASE LoseReply
  <2>1. /\ UNCHANGED <<step, index, tries, attempts, awaiting, requests>>
        /\ replies # <<>> /\ replies' = SubSeq(replies, 1, Len(replies) - 1)
        /\ faults' = faults + 1
    BY <1>18 DEF LoseReply, host, Fault
  <2>2. /\ Len(replies') = Len(replies) - 1 /\ Len(replies) >= 1
        /\ \A i \in 1..Len(replies') : replies'[i] = replies[i + 0]
                                       /\ i + 0 \in 1..Len(replies) /\ i + 0 = i
    BY <1>2, <2>1, FrontElements
  <2>3. \A T : \A i \in Hits(replies', T) : i + 0 \in Hits(replies, T)
    BY <2>2 DEF Hits
  <2>4. \A T : Count(replies', T) <= Count(replies, T)
    BY <1>2, <2>3, CountLe
  <2>5. Astray' <= Astray /\ Foreign' <= Foreign
    <3>1. /\ Count(replies, Strange) \in Nat /\ Count(replies, Others) \in Nat
          /\ Count(replies', Strange) \in Nat /\ Count(replies', Others) \in Nat
          /\ Count(requests, StrangeReq) \in Nat
          /\ Count(requests, OthersReq) \in Nat
      BY <1>2, CountNat
    <3>2. /\ Astray' = Count(replies', Strange) + Count(requests, StrangeReq)
          /\ Foreign' = Count(replies', Others) + Count(requests, OthersReq)
      BY <2>1, StrangeKept DEF Astray, Foreign
    <3> QED
      BY <2>4, <3>1, <3>2 DEF Astray, Foreign
  <2>6. Pending' = Pending - 1 /\ Pending >= 1
    BY <1>2, <2>1, <2>2 DEF Pending
  <2> QED
    BY <1>16, <2>1, <2>5, <2>6
<1>19. CASE Garble
  <2>1. /\ UNCHANGED <<step, index, tries, attempts, awaiting, requests>>
        /\ replies # <<>>
        /\ replies' = [replies EXCEPT ![Len(replies)].legible = FALSE]
        /\ faults' = faults + 1
    BY <1>19 DEF Garble, host, Fault
  <2>2. /\ Len(replies') = Len(replies)
        /\ \A i \in 1..Len(replies) : i # Len(replies) => replies'[i] = replies[i]
        /\ \A i \in 1..Len(replies) : replies[i] \in Reply
    BY <1>2, <2>1, GarbledOnlyLast, ElementOfSeq
  <2>3. \A i \in 1..Len(replies) : replies'[i].command = replies[i].command
                                   /\ replies'[i].address = replies[i].address
    BY <1>2, <2>1, GarbledOnlyLast
  <2>4. \A T : \A i \in Hits(replies', T) : i \in Hits(replies, T) \/ i = Len(replies)
    BY <2>2 DEF Hits
  <2>5. \A i \in Hits(replies', Others) : i + 0 \in Hits(replies, Others)
    <3> SUFFICES ASSUME NEW i \in Hits(replies', Others)
                 PROVE  i \in Hits(replies, Others) /\ i + 0 = i
      OBVIOUS
    <3>1. i \in 1..Len(replies) /\ replies'[i] \in Others
      BY <2>2 DEF Hits
    <3>2. replies[i] \in Others
      BY <2>2, <2>3, <3>1 DEF Others
    <3>3. i + 0 = i
      BY <1>2, <3>1
    <3> QED
      BY <3>1, <3>2, <3>3 DEF Hits
  <2>6. Count(replies', Strange) <= Count(replies, Strange) + 1
    BY <1>2, <2>4, CountMore
  <2>7. Count(replies', Others) <= Count(replies, Others)
    BY <1>2, <2>5, CountLe
  <2>8. Astray' <= Astray + 1 /\ Foreign' <= Foreign
    <3>1. /\ Count(replies, Strange) \in Nat /\ Count(replies, Others) \in Nat
          /\ Count(replies', Strange) \in Nat /\ Count(replies', Others) \in Nat
          /\ Count(requests, StrangeReq) \in Nat
          /\ Count(requests, OthersReq) \in Nat
      BY <1>2, CountNat
    <3>2. /\ Astray' = Count(replies', Strange) + Count(requests, StrangeReq)
          /\ Foreign' = Count(replies', Others) + Count(requests, OthersReq)
      BY <2>1, StrangeKept DEF Astray, Foreign
    <3> QED
      BY <2>6, <2>7, <3>1, <3>2 DEF Astray, Foreign
  <2>9. Pending' = Pending
    BY <2>1, <2>2 DEF Pending
  <2>10. Surplus' = Surplus /\ Failed' = Failed /\ Missing' = Missing /\ tries' = tries
    BY <2>1, <2>9 DEF Surplus, Failed, Missing
  <2>11. /\ \A n \in Nat : n <= Foreign => tries + n <= faults + 1
         /\ \A n \in Nat : n <= Astray + 1 =>
              Failed + n + Surplus + Missing <= 2 * (faults + 1)
         /\ Surplus <= faults + 1
    BY <1>1, <1>3, <1>a, <1>8
  <2> QED
    BY <1>3, <2>1, <2>8, <2>10, <2>11
<1>20. CASE Answered
  <2>1. /\ awaiting /\ ~awaiting' /\ replies # <<>> /\ replies' = Tail(replies)
        /\ attempts' = 0 /\ faults' = faults
        /\ UNCHANGED requests
    BY <1>20 DEF Answered
  <2>2. /\ Len(replies') = Len(replies) - 1 /\ Len(replies) >= 1
        /\ Head(replies) = replies[1] /\ replies[1] \in Reply /\ 1 \in 1..Len(replies)
    BY <1>2, <2>1
  <2>3. Pending' = Pending - 1 /\ Pending # 0
    BY <1>2, <2>1, <2>2 DEF Pending
  <2>4. Surplus = Pending - 1
    BY <2>1, <2>3 DEF Surplus
  <2>5. Surplus' = Pending - 1 /\ Failed' = 0 /\ Missing' = 0
    BY <2>1, <2>3 DEF Surplus, Failed, Missing
  <2>6. /\ Pending - 1 \in Nat
        /\ \A n \in Nat : n <= Pending - 1 => n <= faults
                          /\ 0 + n + (Pending - 1) + 0 <= 2 * faults
    BY <1>1, <1>3, <1>8, <2>3, <2>4
  <2>a. Astray' <= Pending - 1 /\ Foreign' <= Pending - 1
    BY <1>3, <2>3
  <2>b. faults' = faults /\ Astray' \in Nat
    BY <1>3, <2>1
  <2>7. Surplus' <= faults' /\ Failed' + Astray' + Surplus' + Missing' <= 2 * faults'
    <3>1. Pending - 1 <= faults
      BY <1>8, <2>4
    <3>2. 0 + Astray' + (Pending - 1) + 0 <= 2 * faults
      BY <2>6, <2>a, <2>b
    <3> QED
      BY <2>5, <2>b, <3>1, <3>2
  <2>8. CASE tries' = 0
    <3>1. \A n \in Nat : n <= Pending - 1 => 0 + n <= faults
      BY <2>6
    <3>2. 0 + Foreign' <= faults
      BY <1>3, <2>a, <3>1
    <3> QED
      BY <2>b, <2>7, <2>8, <3>2
  <2>9. CASE tries' # 0
    <3>1. /\ UNCHANGED <<step, index>> /\ tries' = tries + 1
          /\ replies[1].address # index
      <4> DEFINE r == replies[1]
      <4>1. \/ Connected(r) \/ Identified(r) \/ Written(r) \/ Ended(r)
            \/ ReadBack(r) \/ Completed(r)
        BY <1>20, <2>2 DEF Answered
      <4> HIDE DEF r
      <4>2. ~Connected(r) /\ ~Identified(r) /\ ~Ended(r) /\ ~Completed(r)
        BY <2>9 DEF Connected, Identified, Ended, Completed, Admit, Goto, End
      <4>3. Written(r) => WrongBlock(r)
        BY <2>9 DEF Written, Goto, End, NextBlock
      <4>4. ReadBack(r) => WrongBlock(r)
        BY <2>9 DEF ReadBack, Goto, End, NextBlock, Verdict
      <4>5. WrongBlock(r)
        BY <4>1, <4>2, <4>3, <4>4
      <4> QED
        BY <4>5 DEF WrongBlock, Resend, End, r
    <3>2. 1 \in Hits(replies, Others)
      BY <2>2, <3>1 DEF Hits, Others
    <3>3. \A i \in Hits(replies', Others) : i + 1 \in Hits(replies, Others) /\ i + 1 # 1
      BY <1>2, <2>1, <2>2 DEF Hits
    <3>4. Count(replies', Others) + 1 <= Count(replies, Others)
      BY <1>2, <3>2, <3>3, CountLess
    <3>5. Foreign' + 1 <= Foreign
      <4>1. /\ Count(replies, Others) \in Nat /\ Count(replies', Others) \in Nat
            /\ Count(requests, OthersReq) \in Nat
        BY <1>2, CountNat
      <4>2. Foreign' = Count(replies', Others) + Count(requests, OthersReq)
        BY <2>1, <3>1, StrangeKept DEF Foreign
      <4> QED
        BY <3>4, <4>1, <4>2 DEF Foreign
    <3>6. \A n \in Nat : n + 1 <= Foreign => (tries + 1) + n <= faults
      BY <1>1, <1>3, <1>8
    <3> QED
      BY <1>3, <2>1, <2>7, <3>1, <3>5, <3>6
  <2> QED
    BY <2>8, <2>9
<1> QED
  BY <1>9, <1>10, <1>11, <1>12, <1>13, <1>14, <1>15, <1>17, <1>18, <1>19, <1>20
     DEF Next, Host, Exhausted, OutOfReach, End

\* What is read back of a sound board is the firmware.
LEMMA ReadBackMatches ==
  ASSUME IInv, UInv, target.sound, step = "read",
         NEW r, r \in Reply, replies # <<>>, r = replies[1],
         Accepts(r), r.address = index, ~(index + 1 < Blocks)
  PROVE  [readback EXCEPT ![index] = r.block] = task.firmware
<1>1. /\ index \in Addresses /\ readback \in [Addresses -> Cells]
      /\ task \in Task /\ Len(replies) \in Nat /\ 1 \in 1..Len(replies)
  BY EmptySeq DEF IInv, TypeOK
<1>2. task.firmware \in [Addresses -> Contents]
  BY <1>1 DEF Task
<1>3. \A a \in Addresses : flash[a] = task.firmware[a]
  <2>1. Acknowledged = Addresses
    BY DEF IInv, Permitted, MayWrite, Acknowledged, Uploading
  <2> QED
    BY <2>1 DEF UInv, Sound, AcknowledgedIsWritten
<1>4. r.block = flash[index]
  BY <1>1 DEF IInv, ReadsAreCurrent, Accepts, CommandAt
<1>5. \A a \in Addresses : a = index \/ a \in 0..(index - 1)
  BY <1>1, Parameters DEF Addresses
<1>6. \A a \in Addresses : [readback EXCEPT ![index] = r.block][a] = task.firmware[a]
  BY <1>1, <1>3, <1>4, <1>5 DEF IInv, ReadBackIsFlash
<1> QED
  BY <1>1, <1>2, <1>6

\* A failure with few faults is the loss of the last answer.
LEMMA FewStep ==
  ASSUME IInv, TypeOK', UInv, Patience, MAX_ATTEMPTS + 1 >= 2 * BLOCK_ATTEMPTS,
         [Next]_vars, FewFaultsOnlyCostTheLastAnswer
  PROVE  FewFaultsOnlyCostTheLastAnswer'
<1> SUFFICES ASSUME outcome' \in Failures \ {"overflow"}, target'.sound,
                    faults' < BLOCK_ATTEMPTS
             PROVE  /\ outcome' = "retries"
                    /\ mode' = "application"
                    /\ flash' = IF task'.leave THEN Before' ELSE task'.firmware
  BY DEF FewFaultsOnlyCostTheLastAnswer, Failures
<1>1. /\ UNCHANGED <<task, target>> /\ Before' = Before
      /\ faults \in Nat /\ BLOCK_ATTEMPTS \in Nat /\ attempts \in Nat
      /\ MAX_ATTEMPTS \in Nat /\ tries \in Nat
  <2>1. UNCHANGED <<task, target>>
    BY DEF Next, vars, given, Host, Send, SendFails, Serve, LoseRequest, LoseReply,
       Garble, Timeout, Overrun, Misread, Exhausted, Answered, OutOfReach
  <2> QED
    BY <2>1, Parameters DEF IInv, TypeOK, Before, Addresses
<1>2. faults' \in {faults, faults + 1}
  BY <1>1 DEF Next, vars, given, host, link, board, Host, Send, SendFails, Serve,
         LoseRequest, LoseReply, Garble, Timeout, Overrun, Misread, Exhausted,
         Answered, OutOfReach, Fault
<1>3. faults < BLOCK_ATTEMPTS
  BY <1>1, <1>2
<1>4. mode = "application" => mode' = "application" /\ flash' = flash
  BY DEF Next, vars, given, host, link, board, Host, Send, SendFails, Serve,
         LoseRequest, LoseReply, Garble, Timeout, Overrun, Misread, Exhausted,
         Answered, OutOfReach
<1>5. CASE outcome' = outcome
  <2>1. /\ outcome = "retries" /\ mode = "application"
        /\ flash = IF task.leave THEN Before ELSE task.firmware
    BY <1>1, <1>3, <1>5 DEF FewFaultsOnlyCostTheLastAnswer
  <2> QED
    BY <1>1, <1>4, <1>5, <2>1
<1>6. CASE outcome' # outcome
  <2>1. CASE Exhausted
    <3>1. /\ outcome' = "retries" /\ step \notin {"refuse", "end"}
          /\ ~awaiting /\ attempts = MAX_ATTEMPTS
      BY <2>1 DEF Exhausted, Failures
    <3>2. mode # "bootloader"
      <4> SUFFICES ASSUME mode = "bootloader" PROVE FALSE
        OBVIOUS
      <4>1. Failed = MAX_ATTEMPTS
        BY <3>1 DEF Failed
      <4>2. /\ Astray \in Nat /\ Pending \in Nat
            /\ Failed + Astray + Surplus + Missing <= 2 * faults
        BY <1>3, <3>1, Counted DEF IInv, Patience
      <4>3. Surplus = Pending /\ Missing = 0
        BY <3>1 DEF Surplus, Missing
      <4> QED
        BY <1>1, <1>3, <4>1, <4>2, <4>3
    <3>3. mode = "application"
      BY <3>2 DEF IInv, TypeOK
    <3>4. step = "complete"
      BY <3>1, <3>3 DEF UInv, StartedLast
    <3> QED
      BY <1>1, <1>4, <3>1, <3>3, <3>4 DEF IInv, Verified, Goal
  <2>2. CASE Answered
    <3> DEFINE r == Head(replies)
    <3>1. /\ awaiting /\ replies # <<>> /\ Accepts(r)
          /\ \/ Connected(r) \/ Identified(r) \/ Written(r) \/ Ended(r)
             \/ ReadBack(r) \/ Completed(r)
      BY <2>2 DEF Answered
    <3>2. /\ r = replies[1] /\ r \in Reply /\ 1 \in 1..Len(replies)
      BY <3>1, HeadIn DEF IInv, TypeOK
    <3> HIDE DEF r
    <3>3. r.whole
      BY <1>1, <3>2 DEF UInv, Sound
    <3>4. outcome' # "short"
      <4>1. ~Completed(r)
        BY DEF Completed, End, Failures
      <4> QED
        BY <1>6, <3>1, <3>3, <4>1 DEF Connected, Identified, Written, Ended, ReadBack,
           End, Goto, Admit, WrongBlock, Resend, NextBlock, Verdict
    <3>5. outcome' # "address"
      <4> SUFFICES ASSUME outcome' = "address" PROVE FALSE
        OBVIOUS
      <4>1. /\ step \in {"write", "read"} /\ r.address # index
            /\ ~(tries + 1 < BLOCK_ATTEMPTS)
        BY <1>6, <3>1, <3>3 DEF Connected, Identified, Written, Ended, ReadBack,
           Completed, End, Goto, Admit, WrongBlock, Resend, NextBlock, Verdict
      <4>2. mode = "bootloader"
        BY <4>1 DEF IInv, TypeOK, UInv, StartedLast
      <4>3. /\ tries + Foreign <= faults /\ replies \in Seq(Reply)
            /\ requests \in Seq(Request)
        BY <1>3, <4>1, <4>2 DEF IInv, TypeOK, Patience
      <4>4. 1 \in Hits(replies, Others)
        BY <3>2, <4>1 DEF Hits, Others
      <4>5. \A i \in Hits(<<>>, Others) : i + 0 \in Hits(replies, Others) /\ i + 0 # 1
        BY DEF Hits
      <4>6. <<>> \in Seq(Reply) /\ 0 \in Nat
        OBVIOUS
      <4>7. Count(<<>>, Others) + 1 <= Count(replies, Others)
        BY <4>3, <4>4, <4>5, <4>6, CountLess
      <4>8. /\ Count(<<>>, Others) \in Nat /\ Count(replies, Others) \in Nat
            /\ Count(requests, OthersReq) \in Nat
        BY <4>3, <4>6, CountNat
      <4>9. Foreign >= 1 /\ Foreign \in Nat
        BY <4>7, <4>8 DEF Foreign
      <4> QED
        BY <1>1, <1>3, <4>1, <4>3, <4>9
    <3>6. outcome' # "checksum"
      <4> SUFFICES ASSUME outcome' = "checksum" PROVE FALSE
        OBVIOUS
      <4>1. /\ step = "read" /\ r.address = index /\ ~(index + 1 < Blocks)
            /\ [readback EXCEPT ![index] = r.block] # task.firmware
        BY <1>6, <3>1, <3>3 DEF Connected, Identified, Written, Ended, ReadBack,
           Completed, End, Goto, Admit, WrongBlock, Resend, NextBlock, Verdict
      <4> QED
        BY <1>1, <3>1, <3>2, <4>1, ReadBackMatches
    <3>7. outcome' # "retries"
      BY <1>6, <3>1 DEF Connected, Identified, Written, Ended, ReadBack,
         Completed, End, Goto, Admit, WrongBlock, Resend, NextBlock, Verdict
    <3> QED
      BY <3>4, <3>5, <3>6, <3>7 DEF Failures
  <2>3. ~OutOfReach
    BY DEF OutOfReach, End
  <2> QED
    BY <1>6, <2>1, <2>2, <2>3 DEF Next, vars, given, host, link, board, Host, Send,
       SendFails, Serve, LoseRequest, LoseReply, Garble, Timeout, Overrun, Misread
<1> QED
  BY <1>5, <1>6

\* Nothing failed when the session starts.
LEMMA InitPatience == Init => Patience /\ FewFaultsOnlyCostTheLastAnswer
<1> SUFFICES ASSUME Init PROVE Patience /\ FewFaultsOnlyCostTheLastAnswer
  OBVIOUS
<1>1. FewFaultsOnlyCostTheLastAnswer
  BY DEF Init, FewFaultsOnlyCostTheLastAnswer, Failures
<1>2. /\ requests = <<>> /\ replies = <<>> /\ ~awaiting /\ tries = 0
      /\ attempts = 0 /\ faults = 0 /\ <<>> \in Seq(Reply) /\ <<>> \in Seq(Request)
      /\ Len(<<>>) = 0
  BY DEF Init
<1>3. \A T : Count(<<>>, T) \in 0..0
  BY <1>2, CountBound
<1>4. \A T : Count(<<>>, T) = 0
  BY <1>3
<1>5. Astray = 0 /\ Foreign = 0 /\ Pending = 0
  BY <1>2, <1>4 DEF Astray, Foreign, Pending
<1>6. Surplus = 0 /\ Failed = 0 /\ Missing = 0
  BY <1>2, <1>5 DEF Surplus, Failed, Missing
<1>7. Patience
  BY <1>2, <1>5, <1>6 DEF Patience
<1> QED
  BY <1>1, <1>7

\* All of it, one step at a time: what a larger model that holds a session
\* needs (Bootloaders).
SessionInv == IInv /\ UInv /\ Patience /\ FewFaultsOnlyCostTheLastAnswer

\* It holds before the first request,
LEMMA SessionBegins == Init => SessionInv
  BY InitInv, InitUpload, InitPatience DEF SessionInv

\* and every step keeps it, however many requests are lost.
LEMMA SessionStep ==
  MaxFaults >= BLOCK_ATTEMPTS /\ MAX_ATTEMPTS + 1 >= 2 * BLOCK_ATTEMPTS =>
    (SessionInv /\ [Next]_vars => SessionInv')
<1> SUFFICES ASSUME MaxFaults >= BLOCK_ATTEMPTS, MAX_ATTEMPTS + 1 >= 2 * BLOCK_ATTEMPTS,
                    SessionInv, [Next]_vars
             PROVE  SessionInv'
  OBVIOUS
<1>1. IInv' /\ TypeOK'
  BY NextInv DEF SessionInv, IInv
<1>2. UInv'
  BY <1>1, UploadStep DEF SessionInv
<1>3. Patience'
  BY <1>1, PatienceStep DEF SessionInv
<1>4. FewFaultsOnlyCostTheLastAnswer'
  BY <1>1, FewStep DEF SessionInv
<1> QED
  BY <1>1, <1>2, <1>3, <1>4 DEF SessionInv

\* With fewer faults than BLOCK_ATTEMPTS an upload to a sound board goes
\* through, or fails to hear that it did: provided that MAX_ATTEMPTS outlasts
\* the exchanges those faults can spoil, two each, as the code's 5 does its 3.
\* (MaxFaults bounds the model, and has to leave room for the faults meant.)
THEOREM FewFaults ==
  ASSUME MaxFaults >= BLOCK_ATTEMPTS, MAX_ATTEMPTS + 1 >= 2 * BLOCK_ATTEMPTS
  PROVE  Spec => []FewFaultsOnlyCostTheLastAnswer
<1>1. SessionInv /\ [Next]_vars => SessionInv'
  BY SessionStep
<1>2. SessionInv => FewFaultsOnlyCostTheLastAnswer
  BY DEF SessionInv
<1> QED
  BY <1>1, <1>2, SessionBegins, PTL DEF Spec

-----------------------------------------------------------------------------
(* The contract. *)

Holding == CASE flash = Before -> "before"
             [] flash = task.firmware -> "image"
             [] OTHER -> "partial"
Told == CASE outcome \in Refusals -> "refused"
          [] outcome \in Failures -> "failed"
          [] OTHER -> outcome

\* The content a session aims at is told apart from what was there.
LEMMA OldIsNotFirmware == IInv => task.firmware # Before
<1> SUFFICES ASSUME IInv, task.firmware = Before PROVE FALSE
  OBVIOUS
<1>1. 0 \in Addresses
  BY Parameters DEF Addresses
<1>2. task.firmware[0] \in Contents /\ task.firmware[0] = Old
  BY <1>1 DEF IInv, TypeOK, Task, Before
<1> QED
  BY <1>2, Parameters

\* A session keeps its contract, for every link.
THEOREM SessionImplementsContract == Spec => ImplementsContract
<1>1. Init => Contract!Init
  <2> SUFFICES ASSUME Init PROVE Contract!Init
    OBVIOUS
  <2>1. flash = Before /\ mode = "bootloader" /\ outcome = "none"
    BY DEF Init
  <2>2. outcome \notin Refusals /\ outcome \notin Failures
    BY <2>1 DEF Refusals, Failures
  <2>3. (IF task.leave THEN "before" ELSE "image") \in {"before", "image"}
    OBVIOUS
  <2>4. Holding = "before"
    BY <2>1, InitInv, OldIsNotFirmware DEF Holding
  <2>5. (mode = "application") = FALSE
    BY <2>1
  <2>6. Told = "none"
    BY <2>1, <2>2 DEF Told
  <2> QED
    BY <2>3, <2>4, <2>5, <2>6 DEF Contract!Init, Holding, Told
<1>2. IInv /\ IInv' /\ [Next]_vars => [Contract!Next]_Contract!vars
  <2> SUFFICES ASSUME IInv, IInv', [Next]_vars
        PROVE  [Contract!Next]_Contract!vars
    OBVIOUS
  <2> USE DEF host, link, board, given
  <2>0. task.firmware # Before
    BY OldIsNotFirmware
  <2>1. CASE Serve
    <3>1. /\ UNCHANGED <<task, target, outcome>> /\ mode = "bootloader"
          /\ outcome # "success"
      BY <2>1 DEF Serve, IInv, Over
    <3>2. /\ requests \in Seq(Request) /\ requests # <<>>
          /\ Head(requests) = requests[1] /\ 1 \in 1..Len(requests)
      BY <2>1, HeadIn DEF Serve, IInv, TypeOK
    <3>3. CASE Head(requests).command = "Complete"
      <4>1. mode' = "application" /\ flash' = flash
        BY <2>1, <3>3 DEF Serve
      <4>2. flash \in {Before, task.firmware}
        BY <3>2, <3>3 DEF IInv, Launch, Holds
      <4> QED
        BY <2>0, <3>1, <4>1, <4>2 DEF Contract!Next, Contract!Start, Before
    <3>4. CASE Head(requests).command = "SendBlock"
      <4>1. /\ mode' = "bootloader" /\ ~task.leave /\ outcome \notin Refusals
        BY <2>1, <3>1, <3>2, <3>4
           DEF Serve, IInv, TouchedIsPermitted, Touched, MayWrite, Holds
      <4>2. CASE flash' = flash
        BY <3>1, <4>1, <4>2 DEF Contract!vars, Before
      <4>3. CASE flash' # flash
        <5>1. flash' # Before
          <6> DEFINE r == Head(requests)
          <6>1. PICK kept \in BOOLEAN :
                  flash' = [flash EXCEPT ![r.address] =
                              IF kept THEN r.block ELSE Spoilt]
            BY <2>1, <3>4 DEF Serve
          <6>2. r.address \in Addresses /\ r.block \in Contents
            <7>1. r \in Request
              BY <3>2, ElementOfSeq
            <7> QED
              BY <7>1 DEF Request
          <6>3. flash'[r.address] = IF kept THEN r.block ELSE Spoilt
            <7>1. flash \in [Addresses -> Cells]
              BY DEF IInv, TypeOK
            <7> HIDE DEF r
            <7> QED
              BY <6>1, <6>2, <7>1
          <6>4. flash'[r.address] # Old
            <7> HIDE DEF r
            <7> QED
              BY <6>2, <6>3, Parameters
          <6> QED
            <7> HIDE DEF r
            <7> QED
              BY <6>2, <6>4 DEF Before
        <5>2. outcome \in {"none"} \cup Failures
          BY <3>1, <4>1 DEF IInv, TypeOK
        <5> QED
          BY <3>1, <4>1, <5>1, <5>2
             DEF Contract!Next, Contract!Rewrite, Contract!Images, Before,
                 Failures, Refusals
      <4> QED
        BY <4>2, <4>3
    <3>5. CASE Head(requests).command \notin {"Complete", "SendBlock"}
      <4>1. mode' = mode /\ flash' = flash
        BY <2>1, <3>5 DEF Serve
      <4> QED
        BY <3>1, <4>1 DEF Contract!vars, Before
    <3> QED
      BY <3>3, <3>4, <3>5
  <2>2. CASE ~Serve
    <3>1. UNCHANGED <<task, flash, mode>>
      BY <2>2 DEF Next, Host, Send, Timeout, Overrun, Misread, Exhausted,
         Answered, OutOfReach, SendFails, LoseRequest, LoseReply, Garble, vars
    <3>2. CASE outcome' = outcome
      BY <3>1, <3>2 DEF Contract!vars, Before
    <3>3. CASE outcome' # outcome
      <4>1. outcome = "none"
        <5>1. Exhausted \/ Answered \/ OutOfReach
          BY <2>2, <3>3 DEF Next, Host, Send, Timeout, Overrun, Misread,
             SendFails, LoseRequest, LoseReply, Garble, vars
        <5>2. step # "end"
          BY <5>1 DEF Exhausted, Answered, OutOfReach, InReach, Connected,
             Identified, Written, Ended, ReadBack, Completed
        <5> QED
          BY <5>2 DEF IInv, Over
      <4>2. outcome' \in {"success"} \cup Refusals \cup Failures
        BY <3>3, <4>1 DEF IInv, TypeOK
      <4>3. outcome' = "success" => mode = "application" /\ flash = Goal
        BY <3>1 DEF IInv, Over, Goal, Before
      <4>4. outcome' \in Refusals => flash = Before
        BY <3>1 DEF IInv, TouchedIsPermitted, Touched, Before
      <4> QED
        BY <2>0, <3>1, <4>1, <4>2, <4>3, <4>4
           DEF Contract!Next, Contract!Report, Refusals, Failures, Goal, Before
    <3> QED
      BY <3>2, <3>3
  <2> QED
    BY <2>1, <2>2
<1> QED
  BY <1>1, <1>2, Invariant, PTL DEF Spec, ImplementsContract, Contract!Spec
=============================================================================

------------------------- MODULE AgentService_proofs -------------------------
(***************************************************************************)
(* Theorems about AgentService, for every set of printers and of           *)
(* command-line processes and every bound: updates exclude one another on  *)
(* the host, the recorded holder and the run log belong to a printer at    *)
(* work, a record is never replaced under a run that is finishing and has  *)
(* its run's newest messages, and a client knows a run before its events.  *)
(***************************************************************************)
EXTENDS AgentService, TLAPS

\* A request is past the check of the record only when no run is recorded as
\* running: this is what the lock alone does not give.
NoneRecorded == \A i \in Instances :
    conn[i] \in {"assess", "accept"} => record[i].state # "running"

\* The ranges of the variables that decide who may do what.
Payload == [run : Nat, seq : Nat, complete : BOOLEAN]
Threads ==
    /\ conn \in [Instances -> ConnLabels]
    /\ worker \in [Instances -> WorkerLabels]
    /\ cli \in [Clis -> BOOLEAN]
    /\ logged \in [Instances -> SUBSET Instances]
    /\ record \in [Instances -> [state : {"none", "running", "finished"},
                                 id : Nat, messages : Seq(Payload),
                                 result : {"none", "ok", "failed"}]]
    /\ \A i \in Instances : Len(record[i].messages) <= MessageCap
    /\ emitted \in [Instances -> Nat]
    /\ ended \in [Instances -> {"none", "ok", "failed"}]

IInv == /\ Threads /\ OneAtATime /\ HolderIsAtWork /\ LogBelongsToHolder
        /\ NoneRecorded

-----------------------------------------------------------------------------
\* push_capped keeps the newest messages in order, never more than the cap.
LEMMA PushCappedKeepsNewest ==
  ASSUME NEW S, NEW s \in Seq(S), NEW m \in S, Len(s) <= MessageCap,
         NEW t, t = PushCapped(s, m)
  PROVE  /\ t \in Seq(S)
         /\ Len(t) = IF Len(s) < MessageCap THEN Len(s) + 1 ELSE MessageCap
         /\ t[Len(t)] = m
         /\ \A k \in 1..(Len(t) - 1) : t[k] = s[k + (Len(s) + 1 - Len(t))]
<1>0. Len(s) \in Nat /\ MessageCap \in Nat \ {0}
  BY Parameters
<1>1. CASE Len(s) < MessageCap
  <2>1. t = Append(s, m)
    BY <1>0, <1>1 DEF PushCapped
  <2>2. t \in Seq(S)
    BY <2>1
  <2>3. Len(t) = Len(s) + 1
    BY <2>1
  <2>4. t[Len(t)] = m
    BY <2>1, <1>0
  <2>5. \A k \in 1..(Len(t) - 1) : t[k] = s[k]
    BY <2>1, <1>0
  <2>6. Len(s) + 1 - Len(t) = 0
    BY <2>3, <1>0
  <2>7. \A k \in 1..(Len(t) - 1) : t[k] = s[k + (Len(s) + 1 - Len(t))]
    BY <2>5, <2>6, <1>0, <2>3
  <2> QED
    BY <1>1, <2>2, <2>3, <2>4, <2>7
<1>2. CASE Len(s) = MessageCap
  <2>1. Tail(s) \in Seq(S) /\ Len(Tail(s)) = MessageCap - 1
    BY <1>2, <1>0
  <2>2. \A k \in 1..(MessageCap - 1) : Tail(s)[k] = s[k + 1]
    BY <1>2, <1>0
  <2> QED
    BY <1>2, <1>0, <2>1, <2>2 DEF PushCapped
<1>3. Len(s) < MessageCap \/ Len(s) = MessageCap
  BY <1>0
<1> QED
  BY <1>1, <1>2, <1>3, Zenon
USE DEF shared, budget, runState, hostState, ConnAt, WorkerAt

\* What an emitted message does to the record and to the count.
LEMMA Emitted ==
  ASSUME Threads, NEW i \in Instances, NEW c \in BOOLEAN, Emit(i, c)
  PROVE  /\ record' \in [Instances -> [state : {"none", "running", "finished"},
                                 id : Nat, messages : Seq(Payload),
                                 result : {"none", "ok", "failed"}]]
         /\ \A j \in Instances :
                /\ Len(record'[j].messages) <= MessageCap
                /\ record'[j].state = record[j].state
                /\ record'[j].id = record[j].id
         /\ emitted' \in [Instances -> Nat]
<1> DEFINE message ==
      [run |-> record[i].id, seq |-> emitted[i] + 1, complete |-> c]
           kept == PushCapped(record[i].messages, message)
<1>1. message \in Payload
  BY DEF Threads, Payload
<1>2. /\ record[i].messages \in Seq(Payload)
      /\ Len(record[i].messages) <= MessageCap
  BY DEF Threads
<1>3. record' = [record EXCEPT ![i].messages = kept]
      /\ emitted' = [emitted EXCEPT ![i] = @ + 1]
  BY DEF Emit
<1>4. kept \in Seq(Payload) /\ Len(kept) <= MessageCap
  <2> HIDE DEF message
  <2>1. Len(record[i].messages) \in Nat /\ MessageCap \in Nat
    BY <1>2, Parameters
  <2> QED
    BY <1>1, <1>2, <2>1, PushCappedKeepsNewest
<1> DEFINE written == [record[i] EXCEPT !.messages = kept]
<1>5. /\ written \in [state : {"none", "running", "finished"}, id : Nat,
                     messages : Seq(Payload), result : {"none", "ok", "failed"}]
      /\ written.messages = kept
      /\ written.state = record[i].state
      /\ written.id = record[i].id
  <2> HIDE DEF kept
  <2> QED
    BY <1>4 DEF Threads
<1>6. record' = [record EXCEPT ![i] = written]
  BY <1>3
<1> HIDE DEF written, kept
<1>7. \A j \in Instances : record'[j] = IF j = i THEN written ELSE record[j]
  BY <1>6 DEF Threads
<1>8. record' \in [Instances -> [state : {"none", "running", "finished"},
                               id : Nat, messages : Seq(Payload),
                               result : {"none", "ok", "failed"}]]
  BY <1>5, <1>6 DEF Threads
<1>9. emitted' \in [Instances -> Nat]
  BY <1>3 DEF Threads
<1>10. \A j \in Instances : Len(record'[j].messages) <= MessageCap
  BY <1>4, <1>5, <1>7 DEF Threads
<1> QED
  BY <1>5, <1>7, <1>8, <1>9, <1>10

\* The threads and the records keep their ranges.
LEMMA ThreadsStep == IInv /\ [Next]_vars => Threads'
<1> SUFFICES ASSUME IInv, [Next]_vars PROVE Threads'
  OBVIOUS
<1> USE Parameters DEF IInv, Threads, ConnLabels, WorkerLabels
<1>1. ASSUME NEW i \in Instances, Connect(i) PROVE Threads'
  BY <1>1 DEF Connect
<1>2. ASSUME NEW i \in Instances, Disconnect(i) PROVE Threads'
  BY <1>2 DEF Disconnect
<1>3. ASSUME NEW i \in Instances, Receive(i) PROVE Threads'
  BY <1>3 DEF Receive
<1>4. ASSUME NEW i \in Instances, Poll(i) PROVE Threads'
  BY <1>4 DEF Poll
<1>5. ASSUME NEW i \in Instances, TryLock(i) PROVE Threads'
  BY <1>5 DEF TryLock
<1>6. ASSUME NEW i \in Instances, Claim(i) PROVE Threads'
  BY <1>6 DEF Claim
<1>7. ASSUME NEW i \in Instances, CheckRunning(i) PROVE Threads'
  BY <1>7 DEF CheckRunning
<1>8. ASSUME NEW i \in Instances, Assess(i) PROVE Threads'
  BY <1>8 DEF Assess
<1>9. ASSUME NEW i \in Instances, Accept(i) PROVE Threads'
  BY <1>9 DEF Accept
<1>10. ASSUME NEW i \in Instances, Unclaim(i) PROVE Threads'
  BY <1>10 DEF Unclaim
<1>11. ASSUME NEW i \in Instances, Unlock(i) PROVE Threads'
  BY <1>11 DEF Unlock
<1>12. ASSUME NEW i \in Instances, Reply(i) PROVE Threads'
  BY <1>12 DEF Reply
<1>13. ASSUME NEW i \in Instances, SendEvent(i) PROVE Threads'
  BY <1>13 DEF SendEvent
<1>14. ASSUME NEW i \in Instances, Drained(i) PROVE Threads'
  BY <1>14 DEF Drained
<1>15. ASSUME NEW i \in Instances, Begin(i) PROVE Threads'
  BY <1>15, Emitted DEF Begin
<1>16. ASSUME NEW i \in Instances, StartLog(i) PROVE Threads'
  BY <1>16 DEF StartLog
<1>17. ASSUME NEW i \in Instances, Progress(i) PROVE Threads'
  BY <1>17, Emitted DEF Progress
<1>18. ASSUME NEW i \in Instances, EndRun(i) PROVE Threads'
  BY <1>18 DEF EndRun
<1>19. ASSUME NEW i \in Instances, StopLog(i) PROVE Threads'
  BY <1>19 DEF StopLog
<1>20. ASSUME NEW i \in Instances, ReleaseLock(i) PROVE Threads'
  BY <1>20 DEF ReleaseLock
<1>21. ASSUME NEW i \in Instances, DropHolder(i) PROVE Threads'
  BY <1>21 DEF DropHolder
<1>22. ASSUME NEW i \in Instances, LookAtKlipper(i) PROVE Threads'
  BY <1>22 DEF LookAtKlipper
<1>23. ASSUME NEW i \in Instances, Complete(i) PROVE Threads'
  BY <1>23, Emitted DEF Complete
<1>24. ASSUME NEW i \in Instances, FinishRecord(i) PROVE Threads'
  <2> DEFINE written == [record[i] EXCEPT !.state = "finished",
                                          !.result = ended[i]]
  <2>1. /\ written \in [state : {"none", "running", "finished"}, id : Nat,
                       messages : Seq(Payload),
                       result : {"none", "ok", "failed"}]
        /\ written.messages = record[i].messages
    BY <1>24
  <2>2. record' = [record EXCEPT ![i] = written]
    BY <1>24 DEF FinishRecord
  <2> HIDE DEF written
  <2>3. \A j \in Instances : record'[j] = IF j = i THEN written ELSE record[j]
    BY <1>24, <2>2
  <2>4. \A j \in Instances : Len(record'[j].messages) <= MessageCap
    BY <1>24, <2>1, <2>3
  <2>5. record' \in [Instances -> [state : {"none", "running", "finished"},
                                 id : Nat, messages : Seq(Payload),
                                 result : {"none", "ok", "failed"}]]
    BY <1>24, <2>1, <2>2
  <2> QED
    BY <1>24, <2>4, <2>5 DEF FinishRecord
<1>25. ASSUME NEW c \in Clis, CliStart(c) PROVE Threads'
  BY <1>25 DEF CliStart
<1>26. ASSUME NEW c \in Clis, CliMoves(c) PROVE Threads'
  BY <1>26 DEF CliMoves
<1>27. ASSUME NEW c \in Clis, CliEnd(c) PROVE Threads'
  BY <1>27 DEF CliEnd
<1>28. CASE UNCHANGED vars
  BY <1>28 DEF vars
<1>29. ASSUME NEW i \in Instances, Trace(i) PROVE Threads'
  BY <1>29 DEF Trace
<1> QED
  BY <1>1, <1>2, <1>3, <1>4, <1>5, <1>6, <1>7, <1>8, <1>9, <1>10, <1>11,
     <1>12, <1>13, <1>14, <1>15, <1>16, <1>17, <1>18, <1>19, <1>20, <1>21,
     <1>22, <1>23, <1>24, <1>25, <1>26, <1>27, <1>28, <1>29
     DEF Next, Answer, Execute

\* The lock passes from one owner to none, and from none to one.
LEMMA OneAtATimeStep == IInv /\ [Next]_vars => OneAtATime'
<1> SUFFICES ASSUME IInv, [Next]_vars PROVE OneAtATime'
  OBVIOUS
<1> USE Parameters
    DEF IInv, Threads, ConnLabels, WorkerLabels, OneAtATime, ConnHolds,
        WorkerHolds
<1>1. ASSUME NEW i \in Instances, Connect(i) PROVE OneAtATime'
  BY <1>1 DEF Connect
<1>2. ASSUME NEW i \in Instances, Disconnect(i) PROVE OneAtATime'
  BY <1>2 DEF Disconnect
<1>3. ASSUME NEW i \in Instances, Receive(i) PROVE OneAtATime'
  BY <1>3 DEF Receive
<1>4. ASSUME NEW i \in Instances, Poll(i) PROVE OneAtATime'
  BY <1>4 DEF Poll
<1>5. ASSUME NEW i \in Instances, TryLock(i) PROVE OneAtATime'
  BY <1>5 DEF TryLock
<1>6. ASSUME NEW i \in Instances, Claim(i) PROVE OneAtATime'
  BY <1>6 DEF Claim
<1>7. ASSUME NEW i \in Instances, CheckRunning(i) PROVE OneAtATime'
  BY <1>7 DEF CheckRunning
<1>8. ASSUME NEW i \in Instances, Assess(i) PROVE OneAtATime'
  BY <1>8 DEF Assess
<1>9. ASSUME NEW i \in Instances, Accept(i) PROVE OneAtATime'
  BY <1>9 DEF Accept
<1>10. ASSUME NEW i \in Instances, Unclaim(i) PROVE OneAtATime'
  BY <1>10 DEF Unclaim
<1>11. ASSUME NEW i \in Instances, Unlock(i) PROVE OneAtATime'
  BY <1>11 DEF Unlock
<1>12. ASSUME NEW i \in Instances, Reply(i) PROVE OneAtATime'
  <2>1. UNCHANGED <<lock, cli, worker>>
    BY <1>12 DEF Reply
  <2>2. \A j \in Instances : ConnHolds(j)' <=> ConnHolds(j)
    BY <1>12 DEF Reply
  <2> QED
    BY <2>1, <2>2
<1>13. ASSUME NEW i \in Instances, SendEvent(i) PROVE OneAtATime'
  BY <1>13 DEF SendEvent
<1>14. ASSUME NEW i \in Instances, Drained(i) PROVE OneAtATime'
  BY <1>14 DEF Drained
<1>15. ASSUME NEW i \in Instances, Begin(i) PROVE OneAtATime'
  BY <1>15 DEF Begin
<1>16. ASSUME NEW i \in Instances, StartLog(i) PROVE OneAtATime'
  BY <1>16 DEF StartLog
<1>17. ASSUME NEW i \in Instances, Progress(i) PROVE OneAtATime'
  BY <1>17 DEF Progress
<1>18. ASSUME NEW i \in Instances, EndRun(i) PROVE OneAtATime'
  BY <1>18 DEF EndRun
<1>19. ASSUME NEW i \in Instances, StopLog(i) PROVE OneAtATime'
  BY <1>19 DEF StopLog
<1>20. ASSUME NEW i \in Instances, ReleaseLock(i) PROVE OneAtATime'
  BY <1>20 DEF ReleaseLock
<1>21. ASSUME NEW i \in Instances, DropHolder(i) PROVE OneAtATime'
  BY <1>21 DEF DropHolder
<1>22. ASSUME NEW i \in Instances, LookAtKlipper(i) PROVE OneAtATime'
  BY <1>22 DEF LookAtKlipper
<1>23. ASSUME NEW i \in Instances, Complete(i) PROVE OneAtATime'
  BY <1>23 DEF Complete
<1>24. ASSUME NEW i \in Instances, FinishRecord(i) PROVE OneAtATime'
  BY <1>24 DEF FinishRecord
<1>25. ASSUME NEW c \in Clis, CliStart(c) PROVE OneAtATime'
  BY <1>25 DEF CliStart
<1>26. ASSUME NEW c \in Clis, CliMoves(c) PROVE OneAtATime'
  BY <1>26 DEF CliMoves
<1>27. ASSUME NEW c \in Clis, CliEnd(c) PROVE OneAtATime'
  BY <1>27 DEF CliEnd
<1>28. CASE UNCHANGED vars
  BY <1>28 DEF vars
<1>29. ASSUME NEW i \in Instances, Trace(i) PROVE OneAtATime'
  BY <1>29 DEF Trace
<1> QED
  BY <1>1, <1>2, <1>3, <1>4, <1>5, <1>6, <1>7, <1>8, <1>9, <1>10, <1>11,
     <1>12, <1>13, <1>14, <1>15, <1>16, <1>17, <1>18, <1>19, <1>20, <1>21,
     <1>22, <1>23, <1>24, <1>25, <1>26, <1>27, <1>28, <1>29
     DEF Next, Answer, Execute

\* The recorded holder is released before its printer is at rest.
LEMMA HolderStep == IInv /\ [Next]_vars => HolderIsAtWork'
<1> SUFFICES ASSUME IInv, [Next]_vars PROVE HolderIsAtWork'
  OBVIOUS
<1> USE Parameters DEF IInv, Threads, ConnLabels, WorkerLabels, HolderIsAtWork
<1>1. ASSUME NEW i \in Instances, Connect(i) PROVE HolderIsAtWork'
  BY <1>1 DEF Connect
<1>2. ASSUME NEW i \in Instances, Disconnect(i) PROVE HolderIsAtWork'
  BY <1>2 DEF Disconnect
<1>3. ASSUME NEW i \in Instances, Receive(i) PROVE HolderIsAtWork'
  BY <1>3 DEF Receive
<1>4. ASSUME NEW i \in Instances, Poll(i) PROVE HolderIsAtWork'
  BY <1>4 DEF Poll
<1>5. ASSUME NEW i \in Instances, TryLock(i) PROVE HolderIsAtWork'
  BY <1>5 DEF TryLock
<1>6. ASSUME NEW i \in Instances, Claim(i) PROVE HolderIsAtWork'
  BY <1>6 DEF Claim
<1>7. ASSUME NEW i \in Instances, CheckRunning(i) PROVE HolderIsAtWork'
  BY <1>7 DEF CheckRunning
<1>8. ASSUME NEW i \in Instances, Assess(i) PROVE HolderIsAtWork'
  BY <1>8 DEF Assess
<1>9. ASSUME NEW i \in Instances, Accept(i) PROVE HolderIsAtWork'
  BY <1>9 DEF Accept
<1>10. ASSUME NEW i \in Instances, Unclaim(i) PROVE HolderIsAtWork'
  BY <1>10 DEF Unclaim
<1>11. ASSUME NEW i \in Instances, Unlock(i) PROVE HolderIsAtWork'
  BY <1>11 DEF Unlock
<1>12. ASSUME NEW i \in Instances, Reply(i) PROVE HolderIsAtWork'
  BY <1>12 DEF Reply
<1>13. ASSUME NEW i \in Instances, SendEvent(i) PROVE HolderIsAtWork'
  BY <1>13 DEF SendEvent
<1>14. ASSUME NEW i \in Instances, Drained(i) PROVE HolderIsAtWork'
  BY <1>14 DEF Drained
<1>15. ASSUME NEW i \in Instances, Begin(i) PROVE HolderIsAtWork'
  BY <1>15 DEF Begin
<1>16. ASSUME NEW i \in Instances, StartLog(i) PROVE HolderIsAtWork'
  BY <1>16 DEF StartLog
<1>17. ASSUME NEW i \in Instances, Progress(i) PROVE HolderIsAtWork'
  BY <1>17 DEF Progress
<1>18. ASSUME NEW i \in Instances, EndRun(i) PROVE HolderIsAtWork'
  BY <1>18 DEF EndRun
<1>19. ASSUME NEW i \in Instances, StopLog(i) PROVE HolderIsAtWork'
  BY <1>19 DEF StopLog
<1>20. ASSUME NEW i \in Instances, ReleaseLock(i) PROVE HolderIsAtWork'
  BY <1>20 DEF ReleaseLock
<1>21. ASSUME NEW i \in Instances, DropHolder(i) PROVE HolderIsAtWork'
  BY <1>21 DEF DropHolder
<1>22. ASSUME NEW i \in Instances, LookAtKlipper(i) PROVE HolderIsAtWork'
  BY <1>22 DEF LookAtKlipper
<1>23. ASSUME NEW i \in Instances, Complete(i) PROVE HolderIsAtWork'
  BY <1>23 DEF Complete
<1>24. ASSUME NEW i \in Instances, FinishRecord(i) PROVE HolderIsAtWork'
  BY <1>24 DEF FinishRecord
<1>25. ASSUME NEW c \in Clis, CliStart(c) PROVE HolderIsAtWork'
  BY <1>25 DEF CliStart
<1>26. ASSUME NEW c \in Clis, CliMoves(c) PROVE HolderIsAtWork'
  BY <1>26 DEF CliMoves
<1>27. ASSUME NEW c \in Clis, CliEnd(c) PROVE HolderIsAtWork'
  BY <1>27 DEF CliEnd
<1>28. CASE UNCHANGED vars
  BY <1>28 DEF vars
<1>29. ASSUME NEW i \in Instances, Trace(i) PROVE HolderIsAtWork'
  BY <1>29 DEF Trace
<1> QED
  BY <1>1, <1>2, <1>3, <1>4, <1>5, <1>6, <1>7, <1>8, <1>9, <1>10, <1>11,
     <1>12, <1>13, <1>14, <1>15, <1>16, <1>17, <1>18, <1>19, <1>20, <1>21,
     <1>22, <1>23, <1>24, <1>25, <1>26, <1>27, <1>28, <1>29
     DEF Next, Answer, Execute

\* The run log is closed before the lock is released, and written under it.
LEMMA LogStep == IInv /\ [Next]_vars => LogBelongsToHolder'
<1> SUFFICES ASSUME IInv, [Next]_vars PROVE LogBelongsToHolder'
  OBVIOUS
<1> USE Parameters
    DEF IInv, Threads, ConnLabels, WorkerLabels, OneAtATime, ConnHolds,
        WorkerHolds, LogBelongsToHolder
<1>1. ASSUME NEW i \in Instances, Connect(i) PROVE LogBelongsToHolder'
  BY <1>1 DEF Connect
<1>2. ASSUME NEW i \in Instances, Disconnect(i) PROVE LogBelongsToHolder'
  BY <1>2 DEF Disconnect
<1>3. ASSUME NEW i \in Instances, Receive(i) PROVE LogBelongsToHolder'
  BY <1>3 DEF Receive
<1>4. ASSUME NEW i \in Instances, Poll(i) PROVE LogBelongsToHolder'
  BY <1>4 DEF Poll
<1>5. ASSUME NEW i \in Instances, TryLock(i) PROVE LogBelongsToHolder'
  BY <1>5 DEF TryLock
<1>6. ASSUME NEW i \in Instances, Claim(i) PROVE LogBelongsToHolder'
  BY <1>6 DEF Claim
<1>7. ASSUME NEW i \in Instances, CheckRunning(i) PROVE LogBelongsToHolder'
  BY <1>7 DEF CheckRunning
<1>8. ASSUME NEW i \in Instances, Assess(i) PROVE LogBelongsToHolder'
  BY <1>8 DEF Assess
<1>9. ASSUME NEW i \in Instances, Accept(i) PROVE LogBelongsToHolder'
  BY <1>9 DEF Accept
<1>10. ASSUME NEW i \in Instances, Unclaim(i) PROVE LogBelongsToHolder'
  BY <1>10 DEF Unclaim
<1>11. ASSUME NEW i \in Instances, Unlock(i) PROVE LogBelongsToHolder'
  BY <1>11 DEF Unlock
<1>12. ASSUME NEW i \in Instances, Reply(i) PROVE LogBelongsToHolder'
  BY <1>12 DEF Reply
<1>13. ASSUME NEW i \in Instances, SendEvent(i) PROVE LogBelongsToHolder'
  BY <1>13 DEF SendEvent
<1>14. ASSUME NEW i \in Instances, Drained(i) PROVE LogBelongsToHolder'
  BY <1>14 DEF Drained
<1>15. ASSUME NEW i \in Instances, Begin(i) PROVE LogBelongsToHolder'
  BY <1>15 DEF Begin
<1>16. ASSUME NEW i \in Instances, StartLog(i) PROVE LogBelongsToHolder'
  BY <1>16 DEF StartLog
<1>17. ASSUME NEW i \in Instances, Progress(i) PROVE LogBelongsToHolder'
  BY <1>17 DEF Progress
<1>18. ASSUME NEW i \in Instances, EndRun(i) PROVE LogBelongsToHolder'
  BY <1>18 DEF EndRun
<1>19. ASSUME NEW i \in Instances, StopLog(i) PROVE LogBelongsToHolder'
  BY <1>19 DEF StopLog
<1>20. ASSUME NEW i \in Instances, ReleaseLock(i) PROVE LogBelongsToHolder'
  BY <1>20 DEF ReleaseLock
<1>21. ASSUME NEW i \in Instances, DropHolder(i) PROVE LogBelongsToHolder'
  BY <1>21 DEF DropHolder
<1>22. ASSUME NEW i \in Instances, LookAtKlipper(i) PROVE LogBelongsToHolder'
  BY <1>22 DEF LookAtKlipper
<1>23. ASSUME NEW i \in Instances, Complete(i) PROVE LogBelongsToHolder'
  BY <1>23 DEF Complete
<1>24. ASSUME NEW i \in Instances, FinishRecord(i) PROVE LogBelongsToHolder'
  BY <1>24 DEF FinishRecord
<1>25. ASSUME NEW c \in Clis, CliStart(c) PROVE LogBelongsToHolder'
  BY <1>25 DEF CliStart
<1>26. ASSUME NEW c \in Clis, CliMoves(c) PROVE LogBelongsToHolder'
  BY <1>26 DEF CliMoves
<1>27. ASSUME NEW c \in Clis, CliEnd(c) PROVE LogBelongsToHolder'
  BY <1>27 DEF CliEnd
<1>28. CASE UNCHANGED vars
  BY <1>28 DEF vars
<1>29. ASSUME NEW i \in Instances, Trace(i) PROVE LogBelongsToHolder'
  BY <1>29 DEF Trace
<1> QED
  BY <1>1, <1>2, <1>3, <1>4, <1>5, <1>6, <1>7, <1>8, <1>9, <1>10, <1>11,
     <1>12, <1>13, <1>14, <1>15, <1>16, <1>17, <1>18, <1>19, <1>20, <1>21,
     <1>22, <1>23, <1>24, <1>25, <1>26, <1>27, <1>28, <1>29
     DEF Next, Answer, Execute

\* Only the connection thread that was past the check starts a run.
LEMMA NoneRecordedStep == IInv /\ [Next]_vars => NoneRecorded'
<1> SUFFICES ASSUME IInv, [Next]_vars PROVE NoneRecorded'
  OBVIOUS
<1> USE Parameters DEF IInv, Threads, ConnLabels, WorkerLabels, NoneRecorded
<1>1. ASSUME NEW i \in Instances, Connect(i) PROVE NoneRecorded'
  BY <1>1 DEF Connect
<1>2. ASSUME NEW i \in Instances, Disconnect(i) PROVE NoneRecorded'
  BY <1>2 DEF Disconnect
<1>3. ASSUME NEW i \in Instances, Receive(i) PROVE NoneRecorded'
  BY <1>3 DEF Receive
<1>4. ASSUME NEW i \in Instances, Poll(i) PROVE NoneRecorded'
  BY <1>4 DEF Poll
<1>5. ASSUME NEW i \in Instances, TryLock(i) PROVE NoneRecorded'
  BY <1>5 DEF TryLock
<1>6. ASSUME NEW i \in Instances, Claim(i) PROVE NoneRecorded'
  BY <1>6 DEF Claim
<1>7. ASSUME NEW i \in Instances, CheckRunning(i) PROVE NoneRecorded'
  BY <1>7 DEF CheckRunning
<1>8. ASSUME NEW i \in Instances, Assess(i) PROVE NoneRecorded'
  BY <1>8 DEF Assess
<1>9. ASSUME NEW i \in Instances, Accept(i) PROVE NoneRecorded'
  BY <1>9 DEF Accept
<1>10. ASSUME NEW i \in Instances, Unclaim(i) PROVE NoneRecorded'
  BY <1>10 DEF Unclaim
<1>11. ASSUME NEW i \in Instances, Unlock(i) PROVE NoneRecorded'
  BY <1>11 DEF Unlock
<1>12. ASSUME NEW i \in Instances, Reply(i) PROVE NoneRecorded'
  BY <1>12 DEF Reply
<1>13. ASSUME NEW i \in Instances, SendEvent(i) PROVE NoneRecorded'
  BY <1>13 DEF SendEvent
<1>14. ASSUME NEW i \in Instances, Drained(i) PROVE NoneRecorded'
  BY <1>14 DEF Drained
<1>15. ASSUME NEW i \in Instances, Begin(i) PROVE NoneRecorded'
  BY <1>15, Emitted DEF Begin
<1>16. ASSUME NEW i \in Instances, StartLog(i) PROVE NoneRecorded'
  BY <1>16 DEF StartLog
<1>17. ASSUME NEW i \in Instances, Progress(i) PROVE NoneRecorded'
  BY <1>17, Emitted DEF Progress
<1>18. ASSUME NEW i \in Instances, EndRun(i) PROVE NoneRecorded'
  BY <1>18 DEF EndRun
<1>19. ASSUME NEW i \in Instances, StopLog(i) PROVE NoneRecorded'
  BY <1>19 DEF StopLog
<1>20. ASSUME NEW i \in Instances, ReleaseLock(i) PROVE NoneRecorded'
  BY <1>20 DEF ReleaseLock
<1>21. ASSUME NEW i \in Instances, DropHolder(i) PROVE NoneRecorded'
  BY <1>21 DEF DropHolder
<1>22. ASSUME NEW i \in Instances, LookAtKlipper(i) PROVE NoneRecorded'
  BY <1>22 DEF LookAtKlipper
<1>23. ASSUME NEW i \in Instances, Complete(i) PROVE NoneRecorded'
  BY <1>23, Emitted DEF Complete
<1>24. ASSUME NEW i \in Instances, FinishRecord(i) PROVE NoneRecorded'
  BY <1>24 DEF FinishRecord
<1>25. ASSUME NEW c \in Clis, CliStart(c) PROVE NoneRecorded'
  BY <1>25 DEF CliStart
<1>26. ASSUME NEW c \in Clis, CliMoves(c) PROVE NoneRecorded'
  BY <1>26 DEF CliMoves
<1>27. ASSUME NEW c \in Clis, CliEnd(c) PROVE NoneRecorded'
  BY <1>27 DEF CliEnd
<1>28. CASE UNCHANGED vars
  BY <1>28 DEF vars
<1>29. ASSUME NEW i \in Instances, Trace(i) PROVE NoneRecorded'
  BY <1>29 DEF Trace
<1> QED
  BY <1>1, <1>2, <1>3, <1>4, <1>5, <1>6, <1>7, <1>8, <1>9, <1>10, <1>11,
     <1>12, <1>13, <1>14, <1>15, <1>16, <1>17, <1>18, <1>19, <1>20, <1>21,
     <1>22, <1>23, <1>24, <1>25, <1>26, <1>27, <1>28, <1>29
     DEF Next, Answer, Execute

\* The agent begins at rest.
LEMMA InitIInv == Init => IInv
<1> SUFFICES ASSUME Init PROVE IInv
  OBVIOUS
<1> USE Parameters DEF Init
<1>1. \A c \in Clis : ~cli[c]
  OBVIOUS
<1>2. Threads
  BY DEF Threads, ConnLabels, WorkerLabels, Payload
<1>3. OneAtATime /\ HolderIsAtWork /\ LogBelongsToHolder /\ NoneRecorded
  BY <1>1 DEF OneAtATime, ConnHolds, WorkerHolds, HolderIsAtWork,
     LogBelongsToHolder, NoneRecorded
<1> QED
  BY <1>2, <1>3 DEF IInv

\* IInv is an invariant of the specification.
THEOREM Inductive == Spec => []IInv
<1>1. IInv /\ [Next]_vars => IInv'
  BY ThreadsStep, OneAtATimeStep, HolderStep, LogStep, NoneRecordedStep DEF
     IInv
<1> QED
  BY <1>1, InitIInv, PTL DEF Spec

\* Updates run one at a time across the host: whoever validates or runs one
\* has the lock, and a lock that is held is held by somebody at work.
THEOREM UpdatesExclude == Spec => []OneAtATime
<1>1. IInv => OneAtATime
  BY DEF IInv
<1> QED
  BY <1>1, Inductive, PTL

\* A busy rejection never names a printer at rest.
THEOREM HolderWorks == Spec => []HolderIsAtWork
<1>1. IInv => HolderIsAtWork
  BY DEF IInv
<1> QED
  BY <1>1, Inductive, PTL

\* The run log that is open is that of the run under the lock, and the log of
\* a printer's run holds the lines of no other printer's run.
THEOREM LogOwned == Spec => []LogBelongsToHolder
<1>1. IInv => LogBelongsToHolder
  BY DEF IInv
<1> QED
  BY <1>1, Inductive, PTL

\* No request replaces the record of a run that is still finishing, although
\* the lock is free by then.
THEOREM RecordSurvives == Spec => RecordKept
<1>1. IInv /\ [Next]_vars => [\A i \in Instances :
          record[i].state = "running" => record'[i].id = record[i].id]_vars
  <2> SUFFICES ASSUME IInv, [Next]_vars, NEW j \in Instances,
                      record[j].state = "running"
               PROVE  record'[j].id = record[j].id
    OBVIOUS
  <2> USE DEF IInv, Threads, NoneRecorded
  <2>1. ASSUME NEW i \in Instances, Accept(i) PROVE record'[j].id = record[j].id
    BY <2>1 DEF Accept
  <2>2. ASSUME NEW i \in Instances, Begin(i) \/ Progress(i) \/ Complete(i)
        PROVE  record'[j].id = record[j].id
    BY <2>2, Emitted DEF Begin, Progress, Complete
  <2>3. ASSUME NEW i \in Instances, FinishRecord(i)
        PROVE  record'[j].id = record[j].id
    BY <2>3 DEF FinishRecord
  <2>4. CASE UNCHANGED record
    BY <2>4
  <2> QED
    BY <2>1, <2>2, <2>3, <2>4 DEF Next, Answer, Execute, vars, Connect,
       Disconnect, Receive, Poll, TryLock, Claim, CheckRunning, Assess,
       Unclaim, Unlock, Reply, SendEvent, Drained, StartLog, EndRun, StopLog,
       ReleaseLock, DropHolder, LookAtKlipper, CliStart, CliMoves, CliEnd, Trace
<1> QED
  BY <1>1, Inductive, PTL DEF Spec, RecordKept

-----------------------------------------------------------------------------
(* What is recorded, and what a client is sent. *)

\* The ranges of the variables that Threads leaves out.
Ranges ==
    /\ lock \in Instances \cup Clis \cup {Nobody}
    /\ holder \in Instances \cup {Nobody}
    /\ logging \in Instances \cup {Nobody}
    /\ channel \in [Instances -> Seq(Payload)]
    /\ told \in [Instances -> Nat]
    /\ leftStopped \in [Instances -> BOOLEAN]
    /\ active \in [Instances -> BOOLEAN]
    /\ cliRuns \in 0..MaxCliRuns
    /\ drops \in [Instances -> 0..MaxDrops]

\* How far a worker is tells what it has recorded: how many messages it can
\* have emitted, and whether the backend's result is in.
Course == \A i \in Instances :
    /\ record[i].id <= MaxRuns
    /\ (record[i].state = "running") <=> (worker[i] # "none")
    /\ worker[i] # "none" \/ emitted[i] # 0 => record[i].id >= 1
    /\ conn[i] = "accept" => record[i].id < MaxRuns
    /\ worker[i] = "begin" => emitted[i] = 0
    /\ worker[i] \notin {"none", "finish"} => emitted[i] <= MaxProgress + 1
    /\ emitted[i] <= MaxProgress + 2
    /\ worker[i] \in {"unlog", "unlock", "unclaim", "look", "complete", "finish"}
        => ended[i] # "none"

\* Only an accepted request whose reply is due has a run the client does not
\* know, and the channel holds messages of recorded runs only.
Acquainted == \A i \in Instances :
    /\ told[i] <= record[i].id
    /\ conn[i] # "accepted" => told[i] = record[i].id
    /\ \A k \in 1..Len(channel[i]) :
        channel[i][k].run \in 1..record[i].id
            /\ channel[i][k].seq \in 1..(MaxProgress + 2)

\* The recorded messages are the newest of the recorded run, and the complete
\* one is the last that its worker emits.
Faithful(i) ==
    LET messages == record[i].messages
        last == Len(messages)
    IN  /\ last = IF emitted[i] < MessageCap THEN emitted[i] ELSE MessageCap
        /\ \A k \in 1..last :
            /\ messages[k].run = record[i].id
            /\ messages[k].seq = emitted[i] - last + k
            /\ messages[k].complete =>
                k = last /\ worker[i] \in {"finish", "none"}
        /\ worker[i] = "finish" \/ record[i].state = "finished" =>
            last > 0 /\ messages[last].complete
        /\ record[i].state = "finished" => record[i].result # "none"

RInv == Ranges /\ Course /\ Acquainted /\ \A i \in Instances : Faithful(i)

\* An emitted message is recorded last, after the newest of the earlier ones;
\* a connection that is up gets it after what waits in its channel.
LEMMA EmittedLast ==
  ASSUME IInv, RInv, NEW i \in Instances, NEW c \in BOOLEAN, Emit(i, c),
         worker[i] \in {"begin", "run", "complete"},
         NEW newest, newest = record'[i].messages
  PROVE  /\ Len(newest) = IF emitted'[i] < MessageCap THEN emitted'[i]
                          ELSE MessageCap
         /\ Len(newest) > 0
         /\ \A k \in 1..Len(newest) :
              /\ newest[k].run = record[i].id
              /\ newest[k].seq = emitted'[i] - Len(newest) + k
              /\ k < Len(newest) => newest[k].complete = FALSE
         /\ newest[Len(newest)].complete = c
         /\ record'[i].result = record[i].result
         /\ emitted'[i] = emitted[i] + 1
         /\ \A j \in Instances \ {i} :
              record'[j] = record[j] /\ emitted'[j] = emitted[j]
<1> DEFINE message ==
      [run |-> record[i].id, seq |-> emitted[i] + 1, complete |-> c]
           old == record[i].messages
           kept == PushCapped(old, message)
           written == [record[i] EXCEPT !.messages = kept]
<1>1. message \in Payload
  BY DEF IInv, Threads, Payload
<1>2. /\ old \in Seq(Payload) /\ Len(old) <= MessageCap /\ Len(old) \in Nat
      /\ emitted[i] \in Nat /\ MessageCap \in Nat \ {0}
  BY Parameters DEF IInv, Threads
<1>3. /\ Len(kept) = IF Len(old) < MessageCap THEN Len(old) + 1 ELSE MessageCap
      /\ kept[Len(kept)] = message
      /\ \A k \in 1..(Len(kept) - 1) :
            kept[k] = old[k + (Len(old) + 1 - Len(kept))]
  <2> HIDE DEF message, old
  <2> QED
    BY <1>1, <1>2, PushCappedKeepsNewest
<1>4. record' = [record EXCEPT ![i] = written]
  BY DEF Emit, IInv, Threads
<1>5. emitted' = [emitted EXCEPT ![i] = emitted[i] + 1]
  BY DEF Emit
<1>6. /\ record'[i].messages = kept
      /\ record'[i].result = record[i].result
      /\ emitted'[i] = emitted[i] + 1
      /\ \A j \in Instances \ {i} :
            record'[j] = record[j] /\ emitted'[j] = emitted[j]
  <2> HIDE DEF kept
  <2> QED
    BY <1>4, <1>5 DEF IInv, Threads
<1>7. /\ Len(old) = IF emitted[i] < MessageCap THEN emitted[i] ELSE MessageCap
      /\ \A k \in 1..Len(old) :
            /\ old[k].run = record[i].id
            /\ old[k].seq = emitted[i] - Len(old) + k
            /\ old[k].complete = FALSE
  <2>1. \A k \in 1..Len(old) : old[k].complete \in BOOLEAN
    <3> HIDE DEF old
    <3>1. \A k \in 1..Len(old) : old[k] \in Payload
      BY <1>2
    <3> QED
      BY <3>1 DEF Payload
  <2>2. worker[i] \notin {"finish", "none"}
    OBVIOUS
  <2>3. Faithful(i)
    BY DEF RInv
  <2> QED
    BY <2>1, <2>2, <2>3 DEF Faithful
<1>8. message.run = record[i].id /\ message.seq = emitted[i] + 1
      /\ message.complete = c
  OBVIOUS
<1> HIDE DEF message, old, kept, written
<1>10. Len(kept) = IF emitted[i] + 1 < MessageCap THEN emitted[i] + 1
                   ELSE MessageCap
  BY <1>2, <1>3, <1>7
<1>11. ASSUME NEW k \in 1..Len(kept)
       PROVE  /\ kept[k].run = record[i].id
              /\ kept[k].seq = emitted'[i] - Len(kept) + k
              /\ k < Len(kept) => kept[k].complete = FALSE
  <2>0. Len(kept) \in Nat /\ k \in Nat /\ k >= 1
    BY <1>2, <1>3
  <2>1. CASE k = Len(kept)
    <3>1. emitted[i] + 1 = emitted'[i] - Len(kept) + k /\ ~(k < Len(kept))
      BY <2>0, <2>1, <1>2, <1>6
    <3> QED
      BY <2>1, <3>1, <1>3, <1>8, Zenon
  <2>2. CASE k < Len(kept)
    <3> DEFINE n == k + (Len(old) + 1 - Len(kept))
    <3>0. Len(kept) = IF Len(old) < MessageCap THEN Len(old) + 1 ELSE MessageCap
      BY <1>3
    <3>1. k \in 1..(Len(kept) - 1) /\ n \in 1..Len(old)
      BY <2>0, <2>2, <1>2, <3>0
    <3>2. kept[k] = old[n]
      BY <3>1, <1>3
    <3>3. /\ old[n].run = record[i].id
          /\ old[n].seq = emitted[i] - Len(old) + n
          /\ old[n].complete = FALSE
      BY <3>1, <1>7
    <3> HIDE DEF n
    <3>4. emitted[i] - Len(old) + n = emitted'[i] - Len(kept) + k
      BY <2>0, <1>2, <1>6 DEF n
    <3> QED
      BY <3>2, <3>3, <3>4
  <2>3. k = Len(kept) \/ k < Len(kept)
    BY <2>0
  <2> QED
    BY <2>1, <2>2, <2>3, Zenon
<1>12. Len(kept) > 0
  BY <1>2, <1>3
<1>13. kept[Len(kept)].complete = c
  BY <1>3, <1>8
<1>14. newest = kept
  BY <1>6
<1>15. Len(kept) = IF emitted'[i] < MessageCap THEN emitted'[i] ELSE MessageCap
  BY <1>6, <1>10
<1>16. /\ Len(newest) = IF emitted'[i] < MessageCap THEN emitted'[i]
                        ELSE MessageCap
       /\ Len(newest) > 0
       /\ newest[Len(newest)].complete = c
  BY <1>12, <1>13, <1>14, <1>15
<1>17. \A k \in 1..Len(newest) :
        /\ newest[k].run = record[i].id
        /\ newest[k].seq = emitted'[i] - Len(newest) + k
        /\ k < Len(newest) => newest[k].complete = FALSE
  BY <1>11, <1>14
<1> QED
  BY <1>6, <1>16, <1>17

\* What an emitted message does to the channel: it is put last, or there is
\* nobody to send it to.
LEMMA EmittedSent ==
  ASSUME IInv, RInv, NEW i \in Instances, NEW c \in BOOLEAN, Emit(i, c),
         worker[i] \in {"begin", "run", "complete"},
         emitted[i] <= MaxProgress + 1
  PROVE  /\ channel' \in [Instances -> Seq(Payload)]
         /\ \A j \in Instances : \A k \in 1..Len(channel'[j]) :
              channel'[j][k].run \in 1..record[j].id
                /\ channel'[j][k].seq \in 1..(MaxProgress + 2)
<1> DEFINE message ==
      [run |-> record[i].id, seq |-> emitted[i] + 1, complete |-> c]
           old == channel[i]
           sent == Append(old, message)
<1>1. /\ message \in Payload
      /\ message.run \in 1..record[i].id
      /\ message.seq \in 1..(MaxProgress + 2)
  <2>1. emitted[i] \in Nat /\ record[i].id \in Nat /\ MaxProgress \in Nat
    BY Parameters DEF IInv, Threads
  <2>2. record[i].id >= 1
    BY DEF RInv, Course
  <2> QED
    BY <2>1, <2>2 DEF Payload
<1>2. CASE conn[i] = "down"
  BY <1>2 DEF Emit, RInv, Ranges, Acquainted
<1>3. CASE conn[i] # "down"
  <2>1. channel' = [channel EXCEPT ![i] = sent]
    BY <1>3 DEF Emit
  <2>2. old \in Seq(Payload)
    BY DEF RInv, Ranges
  <2> HIDE DEF message, old
  <2>3. /\ sent \in Seq(Payload) /\ Len(sent) = Len(old) + 1
        /\ sent[Len(old) + 1] = message
        /\ \A k \in 1..Len(old) : sent[k] = old[k]
    BY <1>1, <2>2
  <2> HIDE DEF sent
  <2>4. \A k \in 1..Len(old) :
          old[k].run \in 1..record[i].id /\ old[k].seq \in 1..(MaxProgress + 2)
    BY DEF RInv, Acquainted, old
  <2>5. \A k \in 1..Len(sent) :
          sent[k].run \in 1..record[i].id /\ sent[k].seq \in 1..(MaxProgress + 2)
    <3> SUFFICES ASSUME NEW k \in 1..Len(sent)
                 PROVE  sent[k].run \in 1..record[i].id
                          /\ sent[k].seq \in 1..(MaxProgress + 2)
      OBVIOUS
    <3>1. Len(old) \in Nat
      BY <2>2
    <3>2. k \in 1..Len(old) \/ k = Len(old) + 1
      BY <2>3, <3>1
    <3> QED
      BY <1>1, <2>3, <2>4, <3>2
  <2>6. channel \in [Instances -> Seq(Payload)]
    BY DEF RInv, Ranges
  <2>7. channel' \in [Instances -> Seq(Payload)]
    BY <2>1, <2>3, <2>6
  <2>8. /\ channel'[i] = sent
        /\ \A j \in Instances : j # i => channel'[j] = channel[j]
    BY <2>1, <2>6
  <2>9. \A j \in Instances : j # i => \A k \in 1..Len(channel[j]) :
          channel[j][k].run \in 1..record[j].id
            /\ channel[j][k].seq \in 1..(MaxProgress + 2)
    BY DEF RInv, Acquainted
  <2> QED
    BY <2>5, <2>7, <2>8, <2>9
<1> QED
  BY <1>2, <1>3

\* A message the channel gives up leaves the others as they are.
LEMMA TailKeeps ==
  ASSUME NEW S, NEW s \in Seq(S), s # <<>>
  PROVE  /\ Tail(s) \in Seq(S)
         /\ \A k \in 1..Len(Tail(s)) : Tail(s)[k] = s[k + 1] /\ k + 1 \in 1..Len(s)
  OBVIOUS

\* The remaining variables keep their ranges.
LEMMA RangesStep == IInv /\ RInv /\ [Next]_vars => Ranges'
<1> SUFFICES ASSUME IInv, RInv, [Next]_vars PROVE Ranges'
  OBVIOUS
<1> USE Parameters DEF Ranges
<1>0. Ranges /\ record \in [Instances -> [state : {"none", "running", "finished"},
                              id : Nat, messages : Seq(Payload),
                              result : {"none", "ok", "failed"}]]
  BY DEF IInv, Threads, RInv
<1>1. ASSUME NEW i \in Instances, Connect(i) \/ Disconnect(i)
      PROVE  Ranges'
  <2>1. channel' = [channel EXCEPT ![i] = <<>>]
    BY <1>1 DEF Connect, Disconnect
  <2>2. channel' \in [Instances -> Seq(Payload)]
    BY <1>0, <2>1
  <2>3. told' \in [Instances -> Nat]
    BY <1>0, <1>1 DEF Connect, Disconnect
  <2>4. drops' \in [Instances -> 0..MaxDrops]
    <3>1. CASE Connect(i)
      BY <1>0, <3>1 DEF Connect
    <3>2. CASE Disconnect(i)
      <4>1. drops' = [drops EXCEPT ![i] = drops[i] + 1] /\ drops[i] < MaxDrops
        BY <3>2 DEF Disconnect
      <4>2. MaxDrops \in Nat /\ drops \in [Instances -> 0..MaxDrops]
        BY <1>0
      <4>3. drops[i] \in 0..MaxDrops
        BY <4>2
      <4>4. drops[i] + 1 \in 0..MaxDrops
        BY <4>1, <4>2, <4>3
      <4> QED
        BY <4>1, <4>2, <4>4
    <3> QED
      BY <1>1, <3>1, <3>2
  <2>5. UNCHANGED <<lock, holder, logging, leftStopped, active, cliRuns>>
    BY <1>1 DEF Connect, Disconnect
  <2> QED
    BY <1>0, <2>2, <2>3, <2>4, <2>5
<1>2. ASSUME NEW i \in Instances, SendEvent(i) PROVE Ranges'
  <2>1. channel[i] \in Seq(Payload) /\ channel[i] # <<>>
    BY <1>0, <1>2 DEF SendEvent
  <2>2. Tail(channel[i]) \in Seq(Payload)
    BY <2>1, TailKeeps
  <2>3. channel' = [channel EXCEPT ![i] = Tail(channel[i])]
    BY <1>2 DEF SendEvent
  <2>4. channel' \in [Instances -> Seq(Payload)]
    BY <1>0, <2>2, <2>3
  <2> QED
    BY <1>0, <1>2, <2>4 DEF SendEvent
<1>3. ASSUME NEW i \in Instances,
             Receive(i) \/ Poll(i) \/ Drained(i) \/ CheckRunning(i) \/ Assess(i)
             \/ Reply(i) \/ Accept(i)
      PROVE  Ranges'
  BY <1>0, <1>3 DEF Receive, Poll, Drained, CheckRunning, Assess, Reply, Accept
<1>4. ASSUME NEW i \in Instances,
             TryLock(i) \/ Claim(i) \/ Unclaim(i) \/ Unlock(i)
      PROVE  Ranges'
  BY <1>0, <1>4 DEF TryLock, Claim, Unclaim, Unlock
<1>5. ASSUME NEW i \in Instances, Begin(i) \/ Progress(i) \/ Complete(i)
      PROVE  Ranges'
  <2>1. emitted[i] <= MaxProgress + 1
    BY <1>5 DEF IInv, Threads, RInv, Course, Begin, Progress, Complete
  <2>2. channel' \in [Instances -> Seq(Payload)]
    BY <1>5, <2>1, EmittedSent DEF Begin, Progress, Complete
  <2> QED
    BY <1>0, <1>5, <2>2 DEF Begin, Progress, Complete
<1>6. ASSUME NEW i \in Instances,
             StartLog(i) \/ EndRun(i) \/ StopLog(i) \/ ReleaseLock(i)
             \/ DropHolder(i) \/ LookAtKlipper(i) \/ FinishRecord(i)
      PROVE  Ranges'
  BY <1>0, <1>6 DEF StartLog, EndRun, StopLog, ReleaseLock, DropHolder,
     LookAtKlipper, FinishRecord
<1>7. ASSUME NEW c \in Clis, CliStart(c) PROVE Ranges'
  BY <1>0, <1>7 DEF CliStart
<1>8. ASSUME NEW c \in Clis, CliMoves(c) PROVE Ranges'
  <2>1. active' \in [Instances -> BOOLEAN]
    BY <1>0, <1>8 DEF CliMoves
  <2>2. UNCHANGED <<lock, holder, logging, channel, told, leftStopped, cliRuns,
                    drops>>
    BY <1>8 DEF CliMoves
  <2> QED
    BY <1>0, <2>1, <2>2
<1>9. ASSUME NEW c \in Clis, CliEnd(c) PROVE Ranges'
  BY <1>0, <1>9 DEF CliEnd
<1>10. CASE UNCHANGED vars
  BY <1>0, <1>10 DEF vars
<1>11. ASSUME NEW i \in Instances, Trace(i) PROVE Ranges'
  BY <1>0, <1>11 DEF Trace
<1> QED
  BY <1>1, <1>2, <1>3, <1>4, <1>5, <1>6, <1>7, <1>8, <1>9, <1>10, <1>11
     DEF Next, Answer, Execute

\* How far the worker is keeps telling what it has recorded.
LEMMA CourseStep == IInv /\ RInv /\ [Next]_vars => Course'
<1> SUFFICES ASSUME IInv, RInv, [Next]_vars PROVE Course'
  OBVIOUS
<1> USE Parameters DEF Course
<1>0. /\ Course /\ Threads /\ NoneRecorded
      /\ MaxProgress \in Nat /\ MaxRuns \in Nat
  BY DEF IInv, RInv
<1> USE DEF Threads
<1>1. ASSUME NEW i \in Instances,
             Connect(i) \/ Disconnect(i) \/ Receive(i) \/ Poll(i) \/ SendEvent(i)
      PROVE  Course'
  BY <1>0, <1>1 DEF Connect, Disconnect, Receive, Poll, SendEvent
<1>2. ASSUME NEW i \in Instances, TryLock(i) \/ Claim(i) \/ Unclaim(i) \/ Unlock(i)
      PROVE  Course'
  BY <1>0, <1>2 DEF TryLock, Claim, Unclaim, Unlock
<1>3. ASSUME NEW i \in Instances,
             CheckRunning(i) \/ Assess(i) \/ Reply(i) \/ Drained(i)
      PROVE  Course'
  BY <1>0, <1>3 DEF CheckRunning, Assess, Reply, Drained
<1>4. ASSUME NEW i \in Instances, Accept(i) PROVE Course'
  BY <1>0, <1>4 DEF Accept, NoneRecorded
<1>5. ASSUME NEW i \in Instances, Begin(i) \/ Progress(i) \/ Complete(i)
      PROVE  Course'
  <2>1. /\ emitted' = [emitted EXCEPT ![i] = emitted[i] + 1]
        /\ \A j \in Instances :
              record'[j].state = record[j].state /\ record'[j].id = record[j].id
    BY <1>5, Emitted DEF Begin, Progress, Complete, Emit, IInv
  <2>2. UNCHANGED <<conn, ended>>
    BY <1>5 DEF Begin, Progress, Complete
  <2>3. \/ worker[i] = "begin" /\ worker' = [worker EXCEPT ![i] = "log"]
        \/ worker[i] = "run" /\ emitted[i] <= MaxProgress /\ worker' = worker
        \/ worker[i] = "complete" /\ worker' = [worker EXCEPT ![i] = "finish"]
    BY <1>5 DEF Begin, Progress, Complete
  <2> QED
    BY <1>0, <2>1, <2>2, <2>3
<1>6. ASSUME NEW i \in Instances,
             StartLog(i) \/ EndRun(i) \/ StopLog(i) \/ ReleaseLock(i)
             \/ DropHolder(i) \/ LookAtKlipper(i)
      PROVE  Course'
  BY <1>0, <1>6 DEF StartLog, EndRun, StopLog, ReleaseLock, DropHolder,
     LookAtKlipper
<1>7. ASSUME NEW i \in Instances, FinishRecord(i) PROVE Course'
  BY <1>0, <1>7 DEF FinishRecord
<1>8. ASSUME NEW c \in Clis, CliStart(c) \/ CliMoves(c) \/ CliEnd(c)
      PROVE  Course'
  BY <1>0, <1>8 DEF CliStart, CliMoves, CliEnd
<1>9. CASE UNCHANGED vars
  BY <1>0, <1>9 DEF vars
<1>10. ASSUME NEW i \in Instances, Trace(i) PROVE Course'
  BY <1>0, <1>10 DEF Trace
<1> QED
  BY <1>1, <1>2, <1>3, <1>4, <1>5, <1>6, <1>7, <1>8, <1>9, <1>10 DEF Next,
     Answer, Execute

\* The client gets to know the run it was given before its messages.
LEMMA AcquaintedStep == IInv /\ RInv /\ [Next]_vars => Acquainted'
<1> SUFFICES ASSUME IInv, RInv, [Next]_vars PROVE Acquainted'
  OBVIOUS
<1> USE Parameters DEF Acquainted
<1>0. /\ Acquainted /\ channel \in [Instances -> Seq(Payload)]
      /\ told \in [Instances -> Nat] /\ conn \in [Instances -> ConnLabels]
      /\ \A i \in Instances : record[i].id \in Nat
  BY DEF IInv, RInv, Threads, Ranges
<1>1. ASSUME NEW i \in Instances, Connect(i) \/ Disconnect(i)
      PROVE  Acquainted'
  <2>1. channel' = [channel EXCEPT ![i] = <<>>] /\ UNCHANGED record
    BY <1>1 DEF Connect, Disconnect
  <2>2. Len(channel'[i]) = 0
    BY <1>0, <2>1
  <2>3. \A j \in Instances \ {i} : channel'[j] = channel[j]
    BY <1>0, <2>1
  <2>4. \A j \in Instances : told'[j] = told[j] \/ told'[j] = record[j].id
    BY <1>0, <1>1 DEF Connect, Disconnect
  <2>5. \A j \in Instances :
          conn'[j] = conn[j] \/ (j = i /\ conn[i] # "accepted")
          \/ told'[j] = record[j].id
    BY <1>0, <1>1 DEF Connect, Disconnect
  <2> QED
    BY <1>0, <2>1, <2>2, <2>3, <2>4, <2>5
<1>2. ASSUME NEW i \in Instances, SendEvent(i) PROVE Acquainted'
  <2>1. channel[i] \in Seq(Payload) /\ channel[i] # <<>>
    BY <1>0, <1>2 DEF SendEvent
  <2>2. \A k \in 1..Len(Tail(channel[i])) :
          Tail(channel[i])[k] = channel[i][k + 1] /\ k + 1 \in 1..Len(channel[i])
    BY <2>1, TailKeeps
  <2>3. channel'[i] = Tail(channel[i])
    BY <1>0, <1>2 DEF SendEvent
  <2>4. \A j \in Instances \ {i} : channel'[j] = channel[j]
    BY <1>0, <1>2 DEF SendEvent
  <2>5. UNCHANGED <<record, told, conn>>
    BY <1>2 DEF SendEvent
  <2>6. \A k \in 1..Len(channel'[i]) :
          channel'[i][k].run \in 1..record[i].id
            /\ channel'[i][k].seq \in 1..(MaxProgress + 2)
    BY <1>0, <2>2, <2>3
  <2> QED
    BY <1>0, <2>4, <2>5, <2>6
<1>3. ASSUME NEW i \in Instances,
             Receive(i) \/ Poll(i) \/ Drained(i) \/ CheckRunning(i) \/ Assess(i)
             \/ TryLock(i) \/ Claim(i) \/ Unclaim(i) \/ Unlock(i)
      PROVE  Acquainted'
  <2>1. UNCHANGED <<record, told, channel>>
    BY <1>3 DEF Receive, Poll, Drained, CheckRunning, Assess, TryLock, Claim,
       Unclaim, Unlock
  <2>2. conn[i] # "accepted" /\ \A j \in Instances \ {i} : conn'[j] = conn[j]
    BY <1>0, <1>3 DEF Receive, Poll, Drained, CheckRunning, Assess, TryLock,
       Claim, Unclaim, Unlock
  <2> QED
    BY <1>0, <2>1, <2>2
<1>4. ASSUME NEW i \in Instances, Accept(i) PROVE Acquainted'
  <2>1. UNCHANGED <<told, channel>> /\ conn'[i] = "accepted"
    BY <1>0, <1>4 DEF Accept
  <2>2. \A j \in Instances \ {i} : conn'[j] = conn[j]
    BY <1>0, <1>4 DEF Accept
  <2>3. /\ record'[i].id = record[i].id + 1
        /\ \A j \in Instances \ {i} : record'[j] = record[j]
    BY <1>4 DEF Accept, IInv, Threads
  <2>4. ASSUME NEW j \in Instances
        PROVE  /\ told'[j] <= record'[j].id
               /\ conn'[j] # "accepted" => told'[j] = record'[j].id
               /\ \A r \in 1..record[j].id : r \in 1..record'[j].id
    <3>1. CASE j = i
      BY <1>0, <2>1, <2>3, <3>1
    <3>2. CASE j # i
      BY <1>0, <2>1, <2>2, <2>3, <3>2
    <3> QED
      BY <3>1, <3>2
  <2>5. \A j \in Instances : \A k \in 1..Len(channel'[j]) :
          channel'[j][k].run \in 1..record'[j].id
            /\ channel'[j][k].seq \in 1..(MaxProgress + 2)
    BY <1>0, <2>1, <2>4
  <2> QED
    BY <2>4, <2>5
<1>5. ASSUME NEW i \in Instances, Reply(i) PROVE Acquainted'
  <2>1. UNCHANGED <<record, channel>>
    BY <1>5 DEF Reply
  <2>2. \A j \in Instances :
          \/ told'[j] = record[j].id
          \/ told'[j] = told[j] /\ conn'[j] = conn[j]
          \/ told'[j] = told[j] /\ conn[j] = "refused"
    BY <1>0, <1>5 DEF Reply
  <2> QED
    BY <1>0, <2>1, <2>2
<1>6. ASSUME NEW i \in Instances, Begin(i) \/ Progress(i) \/ Complete(i)
      PROVE  Acquainted'
  <2>1. emitted[i] <= MaxProgress + 1
    BY <1>6 DEF IInv, Threads, RInv, Course, Begin, Progress, Complete
  <2>2. \A j \in Instances : \A k \in 1..Len(channel'[j]) :
          channel'[j][k].run \in 1..record[j].id
            /\ channel'[j][k].seq \in 1..(MaxProgress + 2)
    BY <1>6, <2>1, EmittedSent DEF Begin, Progress, Complete
  <2>3. \A j \in Instances : record'[j].id = record[j].id
    BY <1>6, Emitted DEF Begin, Progress, Complete, IInv
  <2>4. UNCHANGED <<told, conn>>
    BY <1>6 DEF Begin, Progress, Complete
  <2>5. \A j \in Instances :
          told'[j] <= record'[j].id
            /\ (conn'[j] # "accepted" => told'[j] = record'[j].id)
    BY <1>0, <2>3, <2>4
  <2>6. \A j \in Instances : \A k \in 1..Len(channel'[j]) :
          channel'[j][k].run \in 1..record'[j].id
            /\ channel'[j][k].seq \in 1..(MaxProgress + 2)
    BY <2>2, <2>3
  <2> QED
    BY <2>5, <2>6
<1>7. ASSUME NEW i \in Instances, FinishRecord(i) PROVE Acquainted'
  <2>1. \A j \in Instances : record'[j].id = record[j].id
    BY <1>7 DEF FinishRecord, IInv, Threads
  <2> QED
    BY <1>0, <1>7, <2>1 DEF FinishRecord
<1>8. CASE UNCHANGED <<record, told, channel, conn>>
  BY <1>0, <1>8
<1> QED
  BY <1>1, <1>2, <1>3, <1>4, <1>5, <1>6, <1>7, <1>8 DEF Next, Answer,
     Execute, vars, StartLog, EndRun, StopLog, ReleaseLock, DropHolder,
     LookAtKlipper, CliStart, CliMoves, CliEnd, Trace

\* The record stays the newest messages of its run, complete at the end.
LEMMA FaithfulStep ==
  IInv /\ RInv /\ [Next]_vars => \A j \in Instances : Faithful(j)'
<1> SUFFICES ASSUME IInv, RInv, [Next]_vars, NEW j \in Instances
             PROVE  Faithful(j)'
  OBVIOUS
<1> USE Parameters
<1>0. /\ Faithful(j) /\ Threads /\ worker \in [Instances -> WorkerLabels]
      /\ (record[j].state = "running") <=> (worker[j] # "none")
  BY DEF IInv, RInv, Course, Threads
<1>1. ASSUME NEW i \in Instances, Accept(i) PROVE Faithful(j)'
  <2>1. CASE j = i
    <3>1. record'[j] = [state |-> "running", id |-> record[j].id + 1,
                        messages |-> <<>>, result |-> "none"]
      BY <1>1, <2>1 DEF Accept, IInv, Threads
    <3>2. emitted'[j] = 0 /\ worker'[j] = "begin"
      BY <1>1, <2>1 DEF Accept, IInv, Threads
    <3>3. Len(record'[j].messages) = 0
      BY <3>1
    <3> QED
      BY <3>1, <3>2, <3>3 DEF Faithful
  <2>2. CASE j # i
    BY <1>0, <1>1, <2>2 DEF Accept, Faithful, Threads
  <2> QED
    BY <2>1, <2>2
<1>2. ASSUME NEW i \in Instances, NEW c \in BOOLEAN, Emit(i, c),
             worker[i] \in {"begin", "run", "complete"},
             \A l \in Instances \ {i} : worker'[l] = worker[l],
             worker'[i] = "finish" <=> c,
             worker'[i] # "none"
      PROVE  Faithful(j)'
  <2>1. CASE j = i
    <3> DEFINE newest == record'[i].messages
    <3>1. /\ Len(newest) = IF emitted'[i] < MessageCap THEN emitted'[i]
                           ELSE MessageCap
          /\ Len(newest) > 0
          /\ newest[Len(newest)].complete = c
      BY <1>2, EmittedLast
    <3>2. \A k \in 1..Len(newest) :
            /\ newest[k].run = record[i].id
            /\ newest[k].seq = emitted'[i] - Len(newest) + k
            /\ k < Len(newest) => newest[k].complete = FALSE
      BY <1>2, EmittedLast
    <3>3. record'[i].id = record[i].id /\ record'[i].state = record[i].state
      BY <1>2, Emitted DEF IInv
    <3>4. record[i].state = "running"
      BY <1>2 DEF RInv, Course
    <3>5. newest \in Seq(Payload)
      BY <1>2, Emitted DEF IInv
    <3> HIDE DEF newest
    <3>6. Len(newest) \in Nat
      BY <3>5
    <3>7. \A k \in 1..Len(newest) : newest[k].complete => k = Len(newest) /\ c
      <4> SUFFICES ASSUME NEW k \in 1..Len(newest), newest[k].complete
                   PROVE  k = Len(newest) /\ c
        OBVIOUS
      <4>1. ~(k < Len(newest))
        BY <3>2
      <4>2. k = Len(newest)
        BY <3>6, <4>1
      <4> QED
        BY <3>1, <4>2
    <3>8. /\ Len(newest) = IF emitted'[i] < MessageCap THEN emitted'[i]
                           ELSE MessageCap
          /\ \A k \in 1..Len(newest) :
              /\ newest[k].run = record'[i].id
              /\ newest[k].seq = emitted'[i] - Len(newest) + k
              /\ newest[k].complete =>
                  k = Len(newest) /\ worker'[i] \in {"finish", "none"}
      BY <1>2, <3>1, <3>2, <3>3, <3>7
    <3>9. worker'[i] = "finish" => newest[Len(newest)].complete
      BY <1>2, <3>1
    <3>10. Len(newest) > 0 /\ record'[i].state # "finished"
      BY <3>1, <3>3, <3>4
    <3> QED
      BY <2>1, <3>8, <3>9, <3>10 DEF Faithful, newest
  <2>2. CASE j # i
    <3>1. record'[j] = record[j] /\ emitted'[j] = emitted[j]
      BY <1>0, <1>2, <2>2 DEF Emit, Threads
    <3> QED
      BY <1>0, <1>2, <2>2, <3>1 DEF Faithful
  <2> QED
    BY <2>1, <2>2
<1>3. ASSUME NEW i \in Instances, Begin(i) \/ Progress(i) \/ Complete(i)
      PROVE  Faithful(j)'
  <2>1. CASE Begin(i) \/ Progress(i)
    <3>1. /\ Emit(i, FALSE) /\ worker[i] \in {"begin", "run", "complete"}
          /\ \A l \in Instances \ {i} : worker'[l] = worker[l]
          /\ worker'[i] # "finish" /\ worker'[i] # "none"
      BY <1>0, <2>1 DEF Begin, Progress
    <3> QED
      BY <1>2, <3>1
  <2>2. CASE Complete(i)
    <3>1. /\ Emit(i, TRUE) /\ worker[i] \in {"begin", "run", "complete"}
          /\ \A l \in Instances \ {i} : worker'[l] = worker[l]
          /\ worker'[i] = "finish"
      BY <1>0, <2>2 DEF Complete
    <3> QED
      BY <1>2, <3>1
  <2> QED
    BY <1>3, <2>1, <2>2
<1>4. ASSUME NEW i \in Instances, FinishRecord(i) PROVE Faithful(j)'
  <2>1. CASE j = i
    <3>1. /\ record'[j].messages = record[j].messages
          /\ record'[j].id = record[j].id
          /\ record'[j].result = ended[j]
      BY <1>4, <2>1 DEF FinishRecord, IInv, Threads
    <3>2. worker[j] = "finish" /\ worker'[j] = "none" /\ emitted' = emitted
      BY <1>0, <1>4, <2>1 DEF FinishRecord
    <3>3. ended[j] # "none"
      BY <3>2 DEF RInv, Course
    <3> QED
      BY <1>0, <3>1, <3>2, <3>3 DEF Faithful
  <2>2. CASE j # i
    <3>1. record'[j] = record[j] /\ emitted' = emitted /\ worker'[j] = worker[j]
      BY <1>0, <1>4, <2>2 DEF FinishRecord, Threads
    <3> QED
      BY <1>0, <3>1 DEF Faithful
  <2> QED
    BY <2>1, <2>2
<1>5. ASSUME UNCHANGED <<record, emitted>>,
             \/ worker'[j] = worker[j]
             \/ worker[j] # "finish" /\ worker'[j] \notin {"finish", "none"}
                /\ worker[j] # "none"
      PROVE  Faithful(j)'
  BY <1>0, <1>5 DEF Faithful
<1>6. ASSUME NEW i \in Instances,
             StartLog(i) \/ EndRun(i) \/ StopLog(i) \/ ReleaseLock(i)
             \/ DropHolder(i) \/ LookAtKlipper(i)
      PROVE  Faithful(j)'
  <2>1. UNCHANGED <<record, emitted>>
    BY <1>6 DEF StartLog, EndRun, StopLog, ReleaseLock, DropHolder,
       LookAtKlipper
  <2>2. \/ worker'[j] = worker[j]
        \/ worker[j] # "finish" /\ worker'[j] \notin {"finish", "none"}
           /\ worker[j] # "none"
    BY <1>0, <1>6 DEF StartLog, EndRun, StopLog, ReleaseLock, DropHolder,
       LookAtKlipper
  <2> QED
    BY <1>5, <2>1, <2>2
<1>7. CASE UNCHANGED <<record, emitted, worker>>
  BY <1>5, <1>7
<1> QED
  BY <1>1, <1>3, <1>4, <1>6, <1>7 DEF Next, Answer, Execute, vars, Connect,
     Disconnect, Receive, Poll, TryLock, Claim, CheckRunning, Assess, Unclaim,
     Unlock, Reply, SendEvent, Drained, CliStart, CliMoves, CliEnd, Trace

\* Nothing is recorded and nothing sent when the agent starts.
LEMMA InitRInv == Init => RInv
<1> SUFFICES ASSUME Init PROVE RInv
  OBVIOUS
<1> USE Parameters
<1>1. Ranges
  BY DEF Init, Ranges
<1>2. \A i \in Instances : Len(channel[i]) = 0 /\ Len(record[i].messages) = 0
  BY DEF Init
<1>3. Course /\ Acquainted
  BY <1>2 DEF Init, Course, Acquainted
<1>4. ASSUME NEW i \in Instances PROVE Faithful(i)
  <2>1. /\ Len(record[i].messages) = 0 /\ emitted[i] = 0
        /\ worker[i] = "none" /\ record[i].state = "none"
    BY <1>2 DEF Init
  <2>2. MessageCap > 0 /\ 1..0 = {}
    OBVIOUS
  <2> QED
    BY <2>1, <2>2 DEF Faithful
<1> QED
  BY <1>1, <1>3, <1>4 DEF RInv

\* What is recorded and sent is an invariant of the specification too.
THEOREM RecordInductive == Spec => []RInv
<1>1. IInv /\ RInv /\ [Next]_vars => RInv'
  <2> SUFFICES ASSUME IInv, RInv, [Next]_vars PROVE RInv'
    OBVIOUS
  <2>1. \A j \in Instances : Faithful(j)'
    BY FaithfulStep
  <2> QED
    BY <2>1, RangesStep, CourseStep, AcquaintedStep DEF RInv
<1> QED
  BY <1>1, InitRInv, Inductive, PTL DEF Spec

\* The record keeps the latest payloads of its own run in order, and the final
\* payload always.
THEOREM RecordFaithful == Spec => []RecordIsFaithful
<1>1. RInv => RecordIsFaithful
  BY DEF RInv, RecordIsFaithful, Faithful
<1> QED
  BY <1>1, RecordInductive, PTL

\* Every variable keeps the range it was given, the caps on messages and the
\* bounds included.
THEOREM TypeCorrect == Spec => []TypeOK
<1>1. IInv /\ RInv => TypeOK
  <2> SUFFICES ASSUME IInv, RInv PROVE TypeOK
    OBVIOUS
  <2> USE Parameters
  <2>1. \A i \in Instances : record[i].messages \in Seq(Message)
    <3> SUFFICES ASSUME NEW i \in Instances
                 PROVE  record[i].messages \in Seq(Message)
      OBVIOUS
    <3> DEFINE s == record[i].messages
    <3>1. s \in Seq(Payload) /\ emitted[i] \in Nat /\ record[i].id \in Nat
      BY DEF IInv, Threads
    <3>2. Len(s) \in Nat /\ MaxProgress \in Nat /\ MaxRuns \in Nat
          /\ MessageCap \in Nat
      BY <3>1
    <3>3. Faithful(i) /\ emitted[i] <= MaxProgress + 2 /\ record[i].id <= MaxRuns
          /\ (emitted[i] # 0 => record[i].id >= 1)
      BY DEF RInv, Course
    <3>4. Len(s) <= emitted[i]
      BY <3>1, <3>2, <3>3 DEF Faithful
    <3> HIDE DEF s
    <3>5. ASSUME NEW k \in 1..Len(s) PROVE s[k] \in Message
      <4>0. s[k] \in Payload
        BY <3>1
      <4>1. s[k].run = record[i].id /\ s[k].seq = emitted[i] - Len(s) + k
        BY <3>3 DEF Faithful, s
      <4>2. s[k].run \in 1..MaxRuns /\ s[k].seq \in 1..(MaxProgress + 2)
        BY <3>1, <3>2, <3>3, <3>4, <4>1
      <4> QED
        BY <4>0, <4>2 DEF Payload, Message
    <3>6. s \in Seq(Message)
      BY <3>1, <3>5
    <3> QED
      BY <3>6 DEF s
  <2>2. \A i \in Instances : record[i].id \in 0..MaxRuns
                           /\ emitted[i] \in 0..(MaxProgress + 2)
                           /\ told[i] \in 0..MaxRuns
    <3> SUFFICES ASSUME NEW i \in Instances
                 PROVE  /\ record[i].id \in 0..MaxRuns
                        /\ emitted[i] \in 0..(MaxProgress + 2)
                        /\ told[i] \in 0..MaxRuns
      OBVIOUS
    <3>1. record[i].id \in Nat /\ emitted[i] \in Nat /\ told[i] \in Nat
      BY DEF IInv, Threads, RInv, Ranges
    <3>2. /\ record[i].id <= MaxRuns /\ emitted[i] <= MaxProgress + 2
          /\ told[i] <= record[i].id
      BY DEF RInv, Course, Acquainted
    <3> QED
      BY <3>1, <3>2
  <2>3. record \in [Instances -> Record]
    <3>1. record \in [Instances -> [state : {"none", "running", "finished"},
                              id : Nat, messages : Seq(Payload),
                              result : {"none", "ok", "failed"}]]
      BY DEF IInv, Threads
    <3>2. \A i \in Instances : record[i] \in Record
      BY <2>1, <2>2, <3>1 DEF Record
    <3> QED
      BY <3>1, <3>2
  <2>4. /\ emitted \in [Instances -> 0..(MaxProgress + 2)]
        /\ told \in [Instances -> 0..MaxRuns]
    BY <2>2 DEF IInv, Threads, RInv, Ranges
  <2>5. \A i \in Instances : channel[i] \in Seq(Message)
    <3> SUFFICES ASSUME NEW i \in Instances
                 PROVE  channel[i] \in Seq(Message)
      OBVIOUS
    <3>1. channel[i] \in Seq(Payload)
      BY DEF RInv, Ranges
    <3>2. ASSUME NEW k \in 1..Len(channel[i]) PROVE channel[i][k] \in Message
      <4>1. channel[i][k] \in Payload
        BY <3>1
      <4>2. channel[i][k].run \in 1..record[i].id
              /\ channel[i][k].seq \in 1..(MaxProgress + 2)
        BY DEF RInv, Acquainted
      <4>3. channel[i][k].run \in 1..MaxRuns
        BY <2>2, <4>2
      <4> QED
        BY <4>1, <4>2, <4>3 DEF Payload, Message
    <3> QED
      BY <3>1, <3>2
  <2>6. channel \in [Instances -> Seq(Message)]
    BY <2>5 DEF RInv, Ranges
  <2> QED
    BY <2>3, <2>4, <2>6 DEF IInv, Threads, RInv, Ranges, TypeOK
<1> QED
  BY <1>1, Inductive, RecordInductive, PTL

\* A client that is sent an event of a run was sent that run's id before.
THEOREM ReplyFirst == Spec => ReplyBeforeEvents
<1>1. RInv /\ IInv => (\A i \in Instances :
        conn[i] = "drain" /\ conn'[i] = "drain" /\ channel[i] # <<>>
            /\ channel'[i] = Tail(channel[i])
        => Head(channel[i]).run <= told[i])
  <2> SUFFICES ASSUME RInv, IInv, NEW i \in Instances, conn[i] = "drain",
                      channel[i] # <<>>
               PROVE  Head(channel[i]).run <= told[i]
    OBVIOUS
  <2>1. channel[i] \in Seq(Payload) /\ record[i].id \in Nat
    BY DEF RInv, IInv, Ranges, Threads
  <2>2. Len(channel[i]) \in Nat /\ Len(channel[i]) > 0
        /\ Head(channel[i]) = channel[i][1]
    BY <2>1
  <2>3. channel[i][1].run \in 1..record[i].id
    BY <2>2 DEF RInv, Acquainted
  <2>4. told[i] = record[i].id
    BY DEF RInv, Acquainted
  <2> QED
    BY <2>1, <2>2, <2>3, <2>4
<1> QED
  BY <1>1, Inductive, RecordInductive, PTL DEF ReplyBeforeEvents
=============================================================================

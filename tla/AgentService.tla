--------------------------- MODULE AgentService ---------------------------
(***************************************************************************)
(* The Moonraker agent: several instances in one process (runtime.rs),     *)
(* each with a connection thread (connection.rs) that answers requests one *)
(* after another, and at most one worker thread that executes an accepted  *)
(* update (service.rs, system.rs).  They share the host-wide lock file     *)
(* (lock.rs) with command-line runs, and among themselves the name of the  *)
(* holder and the run log.                                                 *)
(*                                                                         *)
(* Each mutex-protected access is an action; what a thread keeps between   *)
(* two of them (a claimed lock, a holder guard) is in its program counter. *)
(* What a run does to its printer is UpdateRun's subject: here it ends     *)
(* well with Klipper started, or fails with Klipper in either state.       *)
(***************************************************************************)
EXTENDS Naturals, Sequences

CONSTANTS
    Instances,   \* the served printers
    Clis,        \* command-line processes that take the lock
    Nobody,      \* no holder
    MessageCap,  \* MESSAGE_CAP
    MaxRuns,     \* bound: runs accepted per instance
    MaxProgress, \* bound: progress messages of one run
    MaxCliRuns,  \* bound: command-line runs
    MaxDrops     \* bound: lost connections per instance

ASSUME Parameters ==
    /\ Instances \cap Clis = {}
    /\ Nobody \notin Instances \cup Clis
    /\ MessageCap \in Nat \ {0}
    /\ {MaxRuns, MaxProgress, MaxCliRuns, MaxDrops} \subseteq Nat

VARIABLES
    lock,       \* who holds the flock on LOCK_PATH
    holder,     \* LockHolders: the instance recorded as the holder
    logging,    \* whose file RunLogSink forwards to
    logged,     \* history: whose runs wrote to each printer's latest run log
    conn,       \* where each connection thread is
    worker,     \* where each worker thread is
    record,     \* ServiceState.run of each instance
    emitted,    \* history: messages emitted for the recorded run
    channel,    \* the mpsc channel from the worker to the connection
    told,       \* history: runs whose acceptance was sent or lost on the way
    ended,      \* what backend.run returned
    leftStopped,\* klipper_left_stopped as read by the worker
    active,     \* whether each printer's Klipper unit is active
    cli,        \* command-line processes at work
    cliRuns, drops  \* used budget of the bounds

shared == <<lock, holder, logging, logged>>
vars == <<shared, conn, worker, record, emitted, channel, told, ended,
          leftStopped, active, cli, cliRuns, drops>>

ConnLabels == {"down", "read", "try", "claim", "running", "assess", "accept",
               "unclaim", "unlock", "accepted", "refused", "drain"}
WorkerLabels == {"none", "begin", "log", "run", "unlog", "unlock", "unclaim",
                 "look", "complete", "finish"}

Message == [run : 1..MaxRuns, seq : 1..(MaxProgress + 2), complete : BOOLEAN]
Record == [state : {"none", "running", "finished"}, id : 0..MaxRuns,
           messages : Seq(Message), result : {"none", "ok", "failed"}]

TypeOK ==
    /\ lock \in Instances \cup Clis \cup {Nobody}
    /\ holder \in Instances \cup {Nobody}
    /\ logging \in Instances \cup {Nobody}
    /\ logged \in [Instances -> SUBSET Instances]
    /\ conn \in [Instances -> ConnLabels]
    /\ worker \in [Instances -> WorkerLabels]
    /\ record \in [Instances -> Record]
    /\ \A i \in Instances : Len(record[i].messages) <= MessageCap
    /\ emitted \in [Instances -> 0..(MaxProgress + 2)]
    /\ channel \in [Instances -> Seq(Message)]
    /\ told \in [Instances -> 0..MaxRuns]
    /\ ended \in [Instances -> {"none", "ok", "failed"}]
    /\ leftStopped \in [Instances -> BOOLEAN]
    /\ active \in [Instances -> BOOLEAN]
    /\ cli \in [Clis -> BOOLEAN]
    /\ cliRuns \in 0..MaxCliRuns
    /\ drops \in [Instances -> 0..MaxDrops]

ConnAt(i, from, to) == conn[i] = from /\ conn' = [conn EXCEPT ![i] = to]
WorkerAt(i, from, to) ==
    worker[i] = from /\ worker' = [worker EXCEPT ![i] = to]

budget == <<cliRuns, drops>>
runState == <<worker, record, emitted, ended, leftStopped>>
hostState == <<active, cli>>

-----------------------------------------------------------------------------
(* The connection thread. *)

\* serve: a new connection installs a fresh event channel.
Connect(i) ==
    /\ ConnAt(i, "down", "read")
    /\ channel' = [channel EXCEPT ![i] = <<>>]
    /\ UNCHANGED <<shared, runState, told, hostState, budget>>

\* A read, or the send of a reply or of an event, fails: serve returns, and
\* ClearOnDrop takes the sink away.  A run in progress is unaffected.
Disconnect(i) ==
    /\ conn[i] \in {"read", "accepted", "refused", "drain"}
    /\ drops[i] < MaxDrops
    /\ conn' = [conn EXCEPT ![i] = "down"]
    /\ channel' = [channel EXCEPT ![i] = <<>>]
    /\ told' = [told EXCEPT ![i] = record[i].id]
    /\ drops' = [drops EXCEPT ![i] = @ + 1]
    /\ UNCHANGED <<shared, runState, hostState, cliRuns>>

\* An update request arrives (status requests change nothing).
Receive(i) ==
    /\ ConnAt(i, "read", "try")
    /\ UNCHANGED <<shared, runState, channel, told, hostState, budget>>

\* Mutant: events are sent as soon as there are any.
PollEarly(i) ==
    /\ channel[i] # <<>>
    /\ conn[i] \in {"read", "accepted"}
    /\ conn' = [conn EXCEPT ![i] = "drain"]
    /\ UNCHANGED <<shared, runState, channel, told, hostState, budget>>

\* The read times out with events waiting.
Poll(i) ==
    /\ channel[i] # <<>>
    /\ ConnAt(i, "read", "drain")
    /\ UNCHANGED <<shared, runState, channel, told, hostState, budget>>

\* Mutant: the lock is waited for.
WaitForLock(i) ==
    /\ lock = Nobody
    /\ lock' = i
    /\ ConnAt(i, "try", "claim")
    /\ UNCHANGED <<holder, logging, logged, runState, channel, told, hostState,
                   budget>>

\* backend.try_lock: never waits.  A lock that is taken is refused as busy, a
\* lock file that cannot be opened as unavailable.
TryLock(i) ==
    /\ \/ /\ lock = Nobody
          /\ lock' = i
          /\ ConnAt(i, "try", "claim")
       \/ /\ ConnAt(i, "try", "refused")
          /\ UNCHANGED lock
    /\ UNCHANGED <<holder, logging, logged, runState, channel, told, hostState,
                   budget>>

\* holders.claim
Claim(i) ==
    /\ ConnAt(i, "claim", "running")
    /\ holder' = i
    /\ UNCHANGED <<lock, logging, logged, runState, channel, told, hostState,
                   budget>>

\* Mutant: the lock alone is taken to mean that no run is recorded.
TrustLock(i) ==
    /\ ConnAt(i, "running", "assess")
    /\ UNCHANGED <<shared, runState, channel, told, hostState, budget>>

\* "The update lock alone isn't enough": the record may still be Running.
CheckRunning(i) ==
    /\ ConnAt(i, "running",
              IF record[i].state = "running" THEN "unclaim" ELSE "assess")
    /\ UNCHANGED <<shared, runState, channel, told, hostState, budget>>

\* The snapshot, the blockers and the request: accepted or rejected whole.
Assess(i) ==
    /\ \/ ConnAt(i, "assess", "unclaim")
       \/ record[i].id < MaxRuns /\ ConnAt(i, "assess", "accept")
    /\ UNCHANGED <<shared, runState, channel, told, hostState, budget>>

\* The record is replaced and the worker takes over the lock and the guard.
Accept(i) ==
    /\ ConnAt(i, "accept", "accepted")
    /\ record' = [record EXCEPT ![i] =
            [state |-> "running", id |-> record[i].id + 1,
             messages |-> <<>>, result |-> "none"]]
    /\ emitted' = [emitted EXCEPT ![i] = 0]
    /\ worker' = [worker EXCEPT ![i] = "begin"]
    /\ UNCHANGED <<shared, channel, told, ended, leftStopped, hostState, budget>>

\* Mutant: a rejection leaves the recorded holder behind.
KeepHolder(i) ==
    /\ ConnAt(i, "unclaim", "unlock")
    /\ UNCHANGED <<shared, runState, channel, told, hostState, budget>>

\* A rejection drops the holder guard, then the lock.
Unclaim(i) ==
    /\ ConnAt(i, "unclaim", "unlock")
    /\ holder' = Nobody
    /\ UNCHANGED <<lock, logging, logged, runState, channel, told, hostState,
                   budget>>

\* Mutant: a rejection leaks the lock.
LeakLock(i) ==
    /\ ConnAt(i, "unlock", "refused")
    /\ UNCHANGED <<shared, runState, channel, told, hostState, budget>>

Unlock(i) ==
    /\ ConnAt(i, "unlock", "refused")
    /\ lock' = Nobody
    /\ UNCHANGED <<holder, logging, logged, runState, channel, told, hostState,
                   budget>>

\* The reply is sent before any event is.
Reply(i) ==
    /\ \/ /\ ConnAt(i, "accepted", "drain")
          /\ told' = [told EXCEPT ![i] = record[i].id]
       \/ ConnAt(i, "refused", "drain") /\ UNCHANGED told
    /\ UNCHANGED <<shared, runState, channel, hostState, budget>>

SendEvent(i) ==
    /\ conn[i] = "drain" /\ channel[i] # <<>>
    /\ channel' = [channel EXCEPT ![i] = Tail(@)]
    /\ UNCHANGED <<shared, conn, runState, told, hostState, budget>>

Drained(i) ==
    /\ channel[i] = <<>>
    /\ ConnAt(i, "drain", "read")
    /\ UNCHANGED <<shared, runState, channel, told, hostState, budget>>

-----------------------------------------------------------------------------
(* The worker thread: execute. *)

\* The worker has the lock it was given.
WorkerHolds(i) == worker[i] \in {"begin", "log", "run", "unlog", "unlock"}

\* Mutant: one message too many is kept.
PushCappedLate(messages, message) ==
    Append(IF Len(messages) > MessageCap THEN Tail(messages) ELSE messages,
           message)

\* Mutant: the newest message is the one that goes.
PushWhileRoom(messages, message) ==
    IF Len(messages) >= MessageCap THEN messages ELSE Append(messages, message)

\* push_capped: the oldest message makes room.
PushCapped(messages, message) ==
    Append(IF Len(messages) >= MessageCap THEN Tail(messages) ELSE messages,
           message)

\* emit: the record first, then the connection if there is one.
Emit(i, complete) ==
    LET message == [run |-> record[i].id, seq |-> emitted[i] + 1,
                    complete |-> complete]
    IN  /\ record' = [record EXCEPT ![i].messages = PushCapped(@, message)]
        /\ emitted' = [emitted EXCEPT ![i] = @ + 1]
        /\ channel' = IF conn[i] = "down" THEN channel
                      ELSE [channel EXCEPT ![i] = Append(@, message)]

\* "updating ...", emitted before the backend is called with the path of a
\* file of the run's own (run_log_path).
Begin(i) ==
    /\ WorkerAt(i, "begin", "log")
    /\ Emit(i, FALSE)
    /\ logged' = [logged EXCEPT ![i] = {}]
    /\ UNCHANGED <<lock, holder, logging, conn, told, ended, leftStopped,
                   hostState, budget>>

\* log_sink.start; a log that cannot be opened is only warned about.
StartLog(i) ==
    /\ WorkerAt(i, "log", "run")
    /\ logging' \in {i, logging}
    /\ UNCHANGED <<lock, holder, logged, conn, record, emitted, channel,
                   told, ended, leftStopped, hostState, budget>>

Progress(i) ==
    /\ worker[i] = "run" /\ emitted[i] <= MaxProgress
    /\ Emit(i, FALSE)
    /\ UNCHANGED <<shared, conn, worker, told, ended, leftStopped, hostState,
                   budget>>

\* RunLogWriter.write: what a run traces goes to the file that is open.  So
\* does what threads that run no update trace, which is not recorded here.
Trace(i) ==
    /\ WorkerHolds(i) /\ logging # Nobody
    /\ logged' = [logged EXCEPT ![logging] = @ \cup {i}]
    /\ UNCHANGED <<lock, holder, logging, conn, runState, channel, told,
                   hostState, budget>>

\* The run may stop Klipper and start it again while it lasts; a run that
\* succeeds has confirmed it active, a failed one leaves either.
EndRun(i) ==
    /\ WorkerAt(i, "run", "unlog")
    /\ \/ /\ ended' = [ended EXCEPT ![i] = "ok"]
          /\ active' = [active EXCEPT ![i] = TRUE]
       \/ /\ ended' = [ended EXCEPT ![i] = "failed"]
          /\ \E up \in BOOLEAN : active' = [active EXCEPT ![i] = up]
    /\ UNCHANGED <<shared, conn, record, emitted, channel, told, leftStopped,
                   cli, budget>>

\* Mutant: the run log stays open.
KeepLogging(i) ==
    /\ WorkerAt(i, "unlog", "unlock")
    /\ UNCHANGED <<shared, conn, record, emitted, channel, told, ended,
                   leftStopped, hostState, budget>>

StopLog(i) ==
    /\ WorkerAt(i, "unlog", "unlock")
    /\ logging' = Nobody
    /\ UNCHANGED <<lock, holder, logged, conn, record, emitted, channel,
                   told, ended, leftStopped, hostState, budget>>

\* backend.run returns: the lock it was given is dropped.
ReleaseLock(i) ==
    /\ WorkerAt(i, "unlock", "unclaim")
    /\ lock' = Nobody
    /\ UNCHANGED <<holder, logging, logged, conn, record, emitted, channel,
                   told, ended, leftStopped, hostState, budget>>

\* drop(holder)
DropHolder(i) ==
    /\ WorkerAt(i, "unclaim", "look")
    /\ holder' = Nobody
    /\ UNCHANGED <<lock, logging, logged, conn, record, emitted, channel,
                   told, ended, leftStopped, hostState, budget>>

\* klipper_active() == Some(false): a query that fails reads as not stopped.
LookAtKlipper(i) ==
    /\ WorkerAt(i, "look", "complete")
    /\ \E answered \in BOOLEAN :
        leftStopped' = [leftStopped EXCEPT ![i] = answered /\ ~active[i]]
    /\ UNCHANGED <<shared, conn, record, emitted, channel, told, ended,
                   hostState, budget>>

Complete(i) ==
    /\ WorkerAt(i, "complete", "finish")
    /\ Emit(i, TRUE)
    /\ UNCHANGED <<shared, conn, told, ended, leftStopped, hostState, budget>>

\* Mutant: a run is recorded as finished only for a connected client.
FinishForClient(i) ==
    /\ conn[i] # "down"
    /\ WorkerAt(i, "finish", "none")
    /\ record' = [record EXCEPT ![i].state = "finished",
                                ![i].result = ended[i]]
    /\ UNCHANGED <<shared, conn, emitted, channel, told, ended, leftStopped,
                   hostState, budget>>

FinishRecord(i) ==
    /\ WorkerAt(i, "finish", "none")
    /\ record' = [record EXCEPT ![i].state = "finished",
                                ![i].result = ended[i]]
    /\ UNCHANGED <<shared, conn, emitted, channel, told, ended, leftStopped,
                   hostState, budget>>

-----------------------------------------------------------------------------
(* Command-line runs: update, flash and reboot hold the lock to their end;  *)
(* the kernel releases it when the process dies.                            *)

CliStart(c) ==
    /\ lock = Nobody /\ cliRuns < MaxCliRuns
    /\ lock' = c
    /\ cli' = [cli EXCEPT ![c] = TRUE]
    /\ cliRuns' = cliRuns + 1
    /\ UNCHANGED <<holder, logging, logged, conn, runState, channel, told,
                   active, drops>>

\* The run stops or starts the Klipper unit of the printer it works on.
CliMoves(c) ==
    /\ cli[c]
    /\ \E i \in Instances : active' = [active EXCEPT ![i] = ~@]
    /\ UNCHANGED <<shared, conn, runState, channel, told, cli, budget>>

CliEnd(c) ==
    /\ cli[c]
    /\ cli' = [cli EXCEPT ![c] = FALSE]
    /\ lock' = Nobody
    /\ UNCHANGED <<holder, logging, logged, conn, runState, channel, told,
                   active, budget>>

-----------------------------------------------------------------------------
Init ==
    /\ lock = Nobody /\ holder = Nobody /\ logging = Nobody
    /\ logged = [i \in Instances |-> {}]
    /\ conn = [i \in Instances |-> "down"]
    /\ worker = [i \in Instances |-> "none"]
    /\ record = [i \in Instances |-> [state |-> "none", id |-> 0,
                                      messages |-> <<>>, result |-> "none"]]
    /\ emitted = [i \in Instances |-> 0]
    /\ channel = [i \in Instances |-> <<>>]
    /\ told = [i \in Instances |-> 0]
    /\ ended = [i \in Instances |-> "none"]
    /\ leftStopped = [i \in Instances |-> FALSE]
    /\ active = [i \in Instances |-> TRUE]
    /\ cli = [c \in Clis |-> FALSE]
    /\ cliRuns = 0
    /\ drops = [i \in Instances |-> 0]

Answer(i) ==
    \/ TryLock(i) \/ Claim(i) \/ CheckRunning(i) \/ Assess(i) \/ Accept(i)
    \/ Unclaim(i) \/ Unlock(i) \/ Reply(i) \/ SendEvent(i) \/ Drained(i)

Execute(i) ==
    \/ Begin(i) \/ StartLog(i) \/ Progress(i) \/ EndRun(i) \/ StopLog(i)
    \/ ReleaseLock(i) \/ DropHolder(i) \/ LookAtKlipper(i) \/ Complete(i)
    \/ FinishRecord(i)

Next ==
    \/ \E i \in Instances : \/ Connect(i) \/ Disconnect(i) \/ Receive(i)
                            \/ Poll(i) \/ Answer(i) \/ Execute(i) \/ Trace(i)
    \/ \E c \in Clis : CliStart(c) \/ CliMoves(c) \/ CliEnd(c)

\* Threads are scheduled; nothing makes a client ask, a connection break or
\* come back, or a command-line run end.
Spec == /\ Init /\ [][Next]_vars
        /\ \A i \in Instances : WF_vars(Answer(i)) /\ WF_vars(Execute(i))

-----------------------------------------------------------------------------
(* What the agent promises. *)

ConnHolds(i) ==
    conn[i] \in {"claim", "running", "assess", "accept", "unclaim", "unlock"}

\* "Updates run one at a time across the host": a thread or process that is
\* validating or running an update has the lock, an instance never in two
\* threads at once, and a lock that is held is held by somebody at work.
OneAtATime ==
    /\ \A i \in Instances :
        /\ (lock = i) <=> (ConnHolds(i) \/ WorkerHolds(i))
        /\ ~(ConnHolds(i) /\ WorkerHolds(i))
    /\ \A c \in Clis : (lock = c) <=> cli[c]

\* A recorded holder is a printer whose request is being validated or whose
\* run has not returned: a busy rejection never names a printer at rest.
HolderIsAtWork ==
    \A i \in Instances : holder = i =>
        \/ conn[i] \in {"running", "assess", "accept", "unclaim"}
        \/ worker[i] \in {"begin", "log", "run", "unlog", "unlock", "unclaim"}

\* The run log that is open is that of the run that holds the lock, so that
\* nothing is added to it once that run has returned, and what a run traces is
\* in its own log or in none.  It is not alone there: the sink also takes what
\* threads that run no update trace meanwhile.
LogBelongsToHolder ==
    \A i \in Instances :
        /\ logging = i => lock = i /\ worker[i] \in {"run", "unlog"}
        /\ logged[i] \subseteq {i}

\* The record keeps the latest payloads of its own run in order, "the final
\* payload is always kept", and a finished run has its result and ends with
\* its complete message.
RecordIsFaithful ==
    \A i \in Instances :
        LET messages == record[i].messages
            last == Len(messages)
        IN  /\ last = IF emitted[i] < MessageCap THEN emitted[i]
                      ELSE MessageCap
            /\ \A k \in 1..last :
                /\ messages[k].run = record[i].id
                /\ messages[k].seq = emitted[i] - last + k
                /\ messages[k].complete => k = last
            /\ record[i].state = "finished" =>
                last > 0 /\ messages[last].complete /\ record[i].result # "none"

\* No request overwrites the record of a run that is still finishing, although
\* the lock is free by then.
RecordKept ==
    [][\A i \in Instances : record[i].state = "running" =>
            record'[i].id = record[i].id]_vars

\* A client learns the run_id it was given before it sees an event of that
\* run, unless the connection was lost with the reply.
ReplyBeforeEvents ==
    [][\A i \in Instances :
        conn[i] = "drain" /\ conn'[i] = "drain" /\ channel[i] # <<>>
            /\ channel'[i] = Tail(channel[i])
        => Head(channel[i]).run <= told[i]]_vars

\* A request is answered (or its connection lost) whoever holds the lock.
RequestAnswered ==
    \A i \in Instances : conn[i] = "try" ~> conn[i] \in {"drain", "down"}

\* An accepted run is recorded as finished, connected client or not.
RunFinishes ==
    \A i \in Instances : record[i].state = "running" ~>
        record[i].state = "finished"

\* "When this agent is running it, the message names the printer": while an
\* instance runs an update, it is the recorded holder.
HolderNamed == \A i \in Instances : WorkerHolds(i) => holder = i

\* "klipper_left_stopped: true means the run deliberately did not restart
\* Klipper": a successful run, which did restart it, never reports that.
LeftStoppedIsTheRuns ==
    \A i \in Instances : worker[i] = "complete" /\ ended[i] = "ok" =>
        ~leftStopped[i]
=============================================================================

------------------------------ MODULE LockFile ------------------------------
(***************************************************************************)
(* The update lock (lock.rs): flock on /tmp/aldis.lock, a file any account *)
(* of the host may have to create and every other one must then open.      *)
(*                                                                         *)
(* A path names an inode and a lock belongs to an inode: a process that    *)
(* holds or is about to take the lock of an inode that was unlinked does   *)
(* not exclude one that created the next.  /tmp is sticky, so only the     *)
(* owner and root unlink or chmod the file, and fs.protected_regular       *)
(* refuses O_CREAT on another account's file even to root.                 *)
(***************************************************************************)
EXTENDS Naturals, FiniteSets

CONSTANTS
    Processes,  \* aldis commands and agents
    Accounts, Root,
    AccountOf,  \* the account a process runs as
    Strict,     \* processes whose umask takes read access from others
    Protected,  \* fs.protected_regular is set
    Inodes,     \* bound: files ever created at the path
    Nobody, NoFile,
    MaxCleans,  \* bound: cleanings of /tmp
    MaxKills    \* bound: processes killed

\* What an instance gives them.
Parameters ==
    /\ Root \in Accounts
    /\ AccountOf \in [Processes -> Accounts]
    /\ Strict \subseteq Processes
    /\ Protected \in BOOLEAN
    /\ Nobody \notin Processes \cup Accounts /\ NoFile \notin Inodes
    /\ MaxCleans \in Nat /\ MaxKills \in Nat

VARIABLES
    path,    \* the inode /tmp/aldis.lock names
    owner,   \* account of each inode, Nobody while it does not exist
    shared,  \* inodes that every account may read
    flock,   \* the process holding each inode's lock
    at,      \* where each process is in try_acquire, or holding the lock
    file,    \* the inode it opened
    settled, \* history: the path named a shared file since the attempt began
    answer,  \* what its last attempt returned
    cleans, kills \* used budget of the bounds

files == <<path, owner, shared, flock>>
vars == <<files, at, file, settled, answer, cleans, kills>>

Labels == {"idle", "open", "create", "chmod", "lock", "held"}

TypeOK ==
    /\ path \in Inodes \cup {NoFile}
    /\ owner \in [Inodes -> Accounts \cup {Nobody}]
    /\ shared \subseteq Inodes
    /\ flock \in [Inodes -> Processes \cup {Nobody}]
    /\ at \in [Processes -> Labels]
    /\ file \in [Processes -> Inodes \cup {NoFile}]
    /\ \A p \in Processes :
         file[p] = NoFile <=> at[p] \in {"idle", "open", "create"}
    /\ settled \subseteq Processes
    /\ answer \in [Processes -> {"none", "held", "busy", "io"}]
    /\ cleans \in 0..MaxCleans /\ kills \in 0..MaxKills

-----------------------------------------------------------------------------
(* What the kernel grants. *)

Privileged(p, i) == AccountOf[p] \in {Root, owner[i]}

MayRead(p, i) == Privileged(p, i) \/ i \in shared

\* O_CREAT of a file that somebody else created meanwhile.
MayCreateOver(p, i) ==
    IF Protected THEN AccountOf[p] = owner[i] ELSE Privileged(p, i)

-----------------------------------------------------------------------------
(* UpdateLock::try_acquire. *)

Goto(p, l) == at' = [at EXCEPT ![p] = l]

\* `file` is dropped on every way out but the one that returns the lock.
Give(p, result) ==
    /\ Goto(p, "idle")
    /\ answer' = [answer EXCEPT ![p] = result]
    /\ file' = [file EXCEPT ![p] = NoFile]

Begin(p) ==
    /\ at[p] = "idle"
    /\ Goto(p, "open")
    /\ answer' = [answer EXCEPT ![p] = "none"]
    /\ settled' = IF path \in shared THEN settled \cup {p} ELSE settled \ {p}
    /\ UNCHANGED <<files, file, cleans, kills>>

\* Mutant: opened with O_CREAT at once.
OpenOrCreate(p) ==
    /\ at[p] = "open" /\ Goto(p, "create")
    /\ UNCHANGED <<files, file, settled, answer, cleans, kills>>

\* OpenOptions::new().read(true).open(path)
Open(p) ==
    /\ at[p] = "open"
    /\ \/ path = NoFile /\ Goto(p, "create") /\ UNCHANGED <<file, answer>>
       \/ path # NoFile /\ MayRead(p, path) /\ Goto(p, "lock")
          /\ file' = [file EXCEPT ![p] = path] /\ UNCHANGED answer
       \/ path # NoFile /\ ~MayRead(p, path) /\ Give(p, "io")
    /\ UNCHANGED <<files, settled, cleans, kills>>

Unused == {i \in Inodes : owner[i] = Nobody}
NextInode == CHOOSE i \in Unused : TRUE

\* The same with create(true): a new file, with the umask applied, or the
\* one another process created since.
Create(p) ==
    /\ at[p] = "create"
    /\ \/ /\ path = NoFile /\ Unused # {}
          /\ path' = NextInode
          /\ owner' = [owner EXCEPT ![path'] = AccountOf[p]]
          /\ shared' = IF p \in Strict THEN shared ELSE shared \cup {path'}
          /\ file' = [file EXCEPT ![p] = path']
          /\ Goto(p, "chmod") /\ UNCHANGED answer
       \/ /\ path # NoFile /\ MayCreateOver(p, path)
          /\ file' = [file EXCEPT ![p] = path]
          /\ Goto(p, "chmod") /\ UNCHANGED <<path, owner, shared, answer>>
       \/ /\ path # NoFile /\ ~MayCreateOver(p, path) /\ Give(p, "io")
          /\ UNCHANGED <<path, owner, shared>>
    /\ UNCHANGED <<flock, settled, cleans, kills>>

\* set_permissions(0o644): only the file's owner or root gets here.
SetPermissions(p) ==
    /\ at[p] = "chmod"
    /\ shared' = shared \cup {file[p]}
    /\ Goto(p, "lock")
    /\ UNCHANGED <<path, owner, flock, file, settled, answer, cleans, kills>>

\* file.try_lock()
TryLock(p) ==
    /\ at[p] = "lock"
    /\ \/ /\ flock[file[p]] = Nobody
          /\ flock' = [flock EXCEPT ![file[p]] = p]
          /\ Goto(p, "held") /\ answer' = [answer EXCEPT ![p] = "held"]
          /\ UNCHANGED file
       \/ flock[file[p]] # Nobody /\ Give(p, "busy") /\ UNCHANGED flock
    /\ UNCHANGED <<path, owner, shared, settled, cleans, kills>>

Unlocked(p) == [i \in Inodes |-> IF flock[i] = p THEN Nobody ELSE flock[i]]

\* The UpdateLock is dropped.
Drop(p) ==
    /\ at[p] = "held"
    /\ flock' = Unlocked(p) /\ Goto(p, "idle")
    /\ file' = [file EXCEPT ![p] = NoFile]
    /\ UNCHANGED <<path, owner, shared, settled, answer, cleans, kills>>

-----------------------------------------------------------------------------
(* The rest of the host. *)

\* The kernel closes the files of a process that dies.
Kill(p) ==
    /\ at[p] # "idle" /\ kills < MaxKills
    /\ kills' = kills + 1
    /\ flock' = Unlocked(p) /\ Goto(p, "idle")
    /\ file' = [file EXCEPT ![p] = NoFile]
    /\ UNCHANGED <<path, owner, shared, settled, answer, cleans>>

\* A cleaner of /tmp, which need not spare a file that somebody has locked.
Clean ==
    /\ path # NoFile /\ cleans < MaxCleans
    /\ cleans' = cleans + 1
    /\ path' = NoFile
    /\ settled' = {}
    /\ UNCHANGED <<owner, shared, flock, at, file, answer, kills>>

Init ==
    /\ path = NoFile
    /\ owner = [i \in Inodes |-> Nobody]
    /\ shared = {}
    /\ flock = [i \in Inodes |-> Nobody]
    /\ at = [p \in Processes |-> "idle"]
    /\ file = [p \in Processes |-> NoFile]
    /\ settled = {}
    /\ answer = [p \in Processes |-> "none"]
    /\ cleans = 0 /\ kills = 0

Acquire(p) == Open(p) \/ Create(p) \/ SetPermissions(p) \/ TryLock(p)

Next ==
    \/ \E p \in Processes : Begin(p) \/ Acquire(p) \/ Drop(p) \/ Kill(p)
    \/ Clean

\* A process runs on once it asked for the lock; it may hold it for ever.
Spec == Init /\ [][Next]_vars /\ \A p \in Processes : WF_vars(Acquire(p))

-----------------------------------------------------------------------------
(* Properties. *)

Holders == {p \in Processes : at[p] = "held"}

\* The lock serializes what takes it: whatever is created in a race, refused,
\* killed or given up, flock on the file is the abstract lock, into which each
\* cleaning of /tmp lets at most one more process (lock.rs:1).
Contract == INSTANCE HostLock WITH holders <- Holders, room <- cleans + 1
ImplementsLock == Contract!Spec

\* An attempt that found a file everybody may read, and that nothing
\* unlinked meanwhile, is never refused for want of access: not by its mode
\* nor by fs.protected_regular.
SettledFileOpens ==
    \A p \in settled : answer[p] # "io"

\* Unless a process died while creating it, a lock file that nobody is still
\* creating can be opened by every account.
CreatedForAll ==
    \/ kills > 0 \/ path \in shared \cup {NoFile}
    \/ \E p \in Processes : at[p] = "chmod" /\ file[p] = path

\* Nobody waits for the lock: an attempt ends, held or refused, also while
\* another process keeps it for ever.
AttemptEnds ==
    \A p \in Processes : at[p] = "open" ~> at[p] \in {"held", "idle"}
=============================================================================

------------------------------ MODULE HDBLock ------------------------------
(***************************************************************************)
(* The HDB lock file protocol of unix.c, one system call per step, between *)
(* any number of processes that want the same device (several sercd that   *)
(* inetd started, or other programs that follow the same protocol).        *)
(*                                                                         *)
(* A process goes round: OpenPort calls HDBLockFile and, if that returns   *)
(* LockOk, opens the device; ClosePort closes the device and calls         *)
(* HDBUnlockFile, which calls HDBLockFile again to see whether the lock is *)
(* still its own, and then unlinks the file.  A process may crash between  *)
(* any two steps; its pid is not used again.                               *)
(***************************************************************************)
EXTENDS Naturals

CONSTANTS Proc,       \* the processes, which are their own pids
          Inode,      \* files that can exist at once
          NoFile,     \* no file: no lock file, or no open descriptor
          Empty,      \* the content of a file no pid has been written to yet
          MayCrash    \* the processes that may crash

ASSUME HDBAssumption ==
    /\ NoFile \notin Inode
    /\ Empty \notin Proc
    /\ MayCrash \subseteq Proc

VARIABLES
    lockfile,   \* the inode the lock file's name refers to, or NoFile
    content,    \* what each inode holds
    pc,         \* the next system call of each process
    op,         \* whether HDBLockFile was called to "lock" or to "unlock"
    FileDes,    \* the inode each process has open in HDBLockFile
    Pid,        \* the pid each process has read, until it has acted on it
    raced       \* a process has unlinked, as stale, another lock file than the
                \* one it had read (recorded for the properties)

vars == <<lockfile, content, pc, op, FileDes, Pid, raced>>

PCs == {"idle", "create", "open", "read", "check", "unlink", "write",
        "cleanup", "held", "remove", "dead"}

\* The steps at which a process is inside HDBLockFile.
InHDBLockFile == {"create", "open", "read", "check", "unlink", "write", "cleanup"}

Alive(q) == pc[q] # "dead"

Init ==
    /\ lockfile = NoFile
    /\ content = [i \in Inode |-> Empty]
    /\ pc = [p \in Proc |-> "idle"]
    /\ op = [p \in Proc |-> "lock"]
    /\ FileDes = [p \in Proc |-> NoFile]
    /\ Pid = [p \in Proc |-> Empty]
    /\ raced = FALSE

Goto(p, l) == pc' = [pc EXCEPT ![p] = l]

\* HDBLockFile returns LockOk.  OpenPort then opens the device; HDBUnlockFile
\* goes on to unlink the lock file.
ReturnLockOk(p) == Goto(p, IF op[p] = "lock" THEN "held" ELSE "remove")

\* HDBLockFile returns LockKo or Locked: OpenPort fails, HDBUnlockFile leaves
\* the file alone.
ReturnFailure(p) == Goto(p, "idle")

----------------------------------------------------------------------------

OpenPort(p) ==
    /\ pc[p] = "idle"
    /\ op' = [op EXCEPT ![p] = "lock"]
    /\ Goto(p, "create")
    /\ UNCHANGED <<lockfile, content, FileDes, Pid, raced>>

\* The device has been closed when HDBUnlockFile is called.
ClosePort(p) ==
    /\ pc[p] = "held"
    /\ op' = [op EXCEPT ![p] = "unlock"]
    /\ Goto(p, "create")
    /\ UNCHANGED <<lockfile, content, FileDes, Pid, raced>>

\* An inode can be reused once it has no name and nobody has it open.
Free(i) == i # lockfile /\ \A q \in Proc : FileDes[q] # i

\* The inode of the next file to be created; which free one it is makes no
\* difference.
NewInode == CHOOSE i \in Inode : Free(i)

\* open(LockFile, O_CREAT | O_WRONLY | O_EXCL) creates the file,
MutCreate(p) ==
    /\ pc[p] = "create"
    /\ \E i \in Inode :
          /\ Free(i) /\ i = NewInode
          /\ lockfile' = i
          /\ content' = [content EXCEPT ![i] = Empty]
          /\ FileDes' = [FileDes EXCEPT ![p] = i]
    /\ Goto(p, "write")
    /\ UNCHANGED <<op, Pid, raced>>
Create(p) ==
    /\ pc[p] = "create"
    /\ lockfile = NoFile
    /\ \E i \in Inode :
          /\ Free(i) /\ i = NewInode
          /\ lockfile' = i
          /\ content' = [content EXCEPT ![i] = Empty]
          /\ FileDes' = [FileDes EXCEPT ![p] = i]
    /\ Goto(p, "write")
    /\ UNCHANGED <<op, Pid, raced>>

\* or fails with EEXIST,
CreateExists(p) ==
    /\ pc[p] = "create"
    /\ lockfile # NoFile
    /\ Goto(p, "open")
    /\ UNCHANGED <<lockfile, content, op, FileDes, Pid, raced>>

\* or with another error ("Can't create lock file").
CreateFails(p) ==
    /\ pc[p] = "create"
    /\ ReturnFailure(p)
    /\ UNCHANGED <<lockfile, content, op, FileDes, Pid, raced>>

\* open(LockFile, O_RDONLY): if the file has gone since, HDBLockFile fails.
MutOpen(p) ==
    /\ pc[p] = "open"
    /\ FileDes' = [FileDes EXCEPT ![p] = lockfile]
    /\ Goto(p, IF lockfile = NoFile THEN "create" ELSE "read")
    /\ UNCHANGED <<lockfile, content, op, Pid, raced>>
Open(p) ==
    /\ pc[p] = "open"
    /\ FileDes' = [FileDes EXCEPT ![p] = lockfile]
    /\ IF lockfile = NoFile THEN ReturnFailure(p) ELSE Goto(p, "read")
    /\ UNCHANGED <<lockfile, content, op, Pid, raced>>

\* read and close: a file without a pid makes HDBLockFile fail.
Read(p) ==
    /\ pc[p] = "read"
    /\ FileDes' = [FileDes EXCEPT ![p] = NoFile]
    /\ Pid' = [Pid EXCEPT ![p] = content[FileDes[p]]]
    /\ IF content[FileDes[p]] = Empty THEN ReturnFailure(p) ELSE Goto(p, "check")
    /\ UNCHANGED <<lockfile, content, op, raced>>

\* Compare the pid with our own, then kill(Pid, 0).
MutCheckNoKill(p) ==
    /\ pc[p] = "check"
    /\ IF Pid[p] = p THEN ReturnLockOk(p) ELSE Goto(p, "unlink")
    /\ UNCHANGED <<lockfile, content, op, FileDes, Pid, raced>>
Check(p) ==
    /\ pc[p] = "check"
    /\ IF Pid[p] = p THEN ReturnLockOk(p)
       ELSE IF ~Alive(Pid[p]) THEN Goto(p, "unlink")
       ELSE ReturnFailure(p)
    /\ Pid' = [Pid EXCEPT ![p] = IF ~Alive(@) THEN @ ELSE Empty]
    /\ UNCHANGED <<lockfile, content, op, FileDes, raced>>

\* The lock file that p is about to unlink as stale is not the one whose pid it
\* found dead: another process has replaced it since.
UnlinkRace(p) == lockfile # NoFile /\ content[lockfile] # Pid[p]

\* Remove the lock file of a dead process and try again to create ours.
UnlinkStale(p) ==
    /\ pc[p] = "unlink"
    /\ lockfile' = NoFile
    /\ IF lockfile # NoFile THEN Goto(p, "create") ELSE ReturnFailure(p)
    /\ Pid' = [Pid EXCEPT ![p] = Empty]
    /\ raced' = (raced \/ UnlinkRace(p))
    /\ UNCHANGED <<content, op, FileDes>>

\* Write our pid into the file just created and close it.
Write(p) ==
    /\ pc[p] = "write"
    /\ content' = [content EXCEPT ![FileDes[p]] = p]
    /\ FileDes' = [FileDes EXCEPT ![p] = NoFile]
    /\ ReturnLockOk(p)
    /\ UNCHANGED <<lockfile, op, Pid, raced>>

\* The pid cannot be written: close the file,
WriteFails(p) ==
    /\ pc[p] = "write"
    /\ FileDes' = [FileDes EXCEPT ![p] = NoFile]
    /\ Goto(p, "cleanup")
    /\ UNCHANGED <<lockfile, content, op, Pid, raced>>

\* and unlink it.
Cleanup(p) ==
    /\ pc[p] = "cleanup"
    /\ lockfile' = NoFile
    /\ ReturnFailure(p)
    /\ UNCHANGED <<content, op, FileDes, Pid, raced>>

\* HDBUnlockFile unlinks the lock file.
Remove(p) ==
    /\ pc[p] = "remove"
    /\ lockfile' = NoFile
    /\ Goto(p, "idle")
    /\ UNCHANGED <<content, op, FileDes, Pid, raced>>

\* The process dies; the kernel closes its descriptors, the file stays.
Crash(p) ==
    /\ p \in MayCrash
    /\ Alive(p)
    /\ Goto(p, "dead")
    /\ FileDes' = [FileDes EXCEPT ![p] = NoFile]
    /\ Pid' = [Pid EXCEPT ![p] = Empty]
    /\ UNCHANGED <<lockfile, content, op, raced>>

HDBLockFile(p) ==
    \/ Create(p)
    \/ CreateExists(p)
    \/ CreateFails(p)
    \/ Open(p)
    \/ Read(p)
    \/ Check(p)
    \/ UnlinkStale(p)
    \/ Write(p)
    \/ WriteFails(p)
    \/ Cleanup(p)

\* Once all the processes have crashed nothing happens any more.
AllDead == (\A p \in Proc : ~Alive(p)) /\ UNCHANGED vars

Next ==
    \/ \E p \in Proc :
          \/ OpenPort(p)
          \/ HDBLockFile(p)
          \/ ClosePort(p)
          \/ Remove(p)
          \/ Crash(p)
    \/ AllDead

\* HDBLockFile and HDBUnlockFile keep running until they return.
Fairness == \A p \in Proc : WF_vars(HDBLockFile(p) \/ Remove(p))

Spec == Init /\ [][Next]_vars /\ Fairness

----------------------------------------------------------------------------
(* Properties.                                                             *)

\* Every process is at a step of the protocol, and files hold pids.
TypeOK ==
    /\ lockfile \in Inode \cup {NoFile}
    /\ content \in [Inode -> Proc \cup {Empty}]
    /\ pc \in [Proc -> PCs]
    /\ op \in [Proc -> {"lock", "unlock"}]
    /\ FileDes \in [Proc -> Inode \cup {NoFile}]
    /\ Pid \in [Proc -> Proc \cup {Empty}]
    /\ raced \in BOOLEAN

\* No two processes have the device open: the lock file is to "prevent
\* multiple instances of sercd from talking to the serial port at the same
\* time" (OpenPort, HDBLockFile).
MutualExclusion ==
    \A p, q \in Proc : pc[p] = "held" /\ pc[q] = "held" => p = q

\* However many processes there are, and wherever they crash, two of them have
\* the device open only after one has unlinked a lock that was not stale: the
\* check of a lock and its removal in HDBLockFile are the only hole.
ExclusionUnlessRaced == ~raced => MutualExclusion

\* A step leaves the lock files of the processes at "write" and "held" alone.
KeepsLocks ==
    \A p \in Proc : pc[p] \in {"write", "held"} /\ pc'[p] = pc[p] =>
        /\ lockfile' = lockfile
        /\ content'[lockfile] = content[lockfile]

\* The lock file of a process that is about to write its pid, or that has the
\* device open, stays in place whatever the other processes do: Create,
\* Cleanup and HDBUnlockFile never hit it, and the first step that does is the
\* unlinking, as stale, of a lock that has been replaced since it was read.
HeldLockKept == [][raced' \/ KeepsLocks]_vars

\* HDBLockFile returns: its loop goes round again only after it removed the
\* lock of a dead process.
HDBLockFileReturns ==
    \A p \in Proc : (pc[p] \in InHDBLockFile) ~> (pc[p] \notin InHDBLockFile)
=============================================================================

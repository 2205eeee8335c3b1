--------------------------- MODULE HDBLock_proofs ---------------------------
(***************************************************************************)
(* Mutual exclusion of the HDB lock for any number of processes, with      *)
(* crashes, until a process unlinks, as stale, a lock file other than the  *)
(* one it has read; and without that restriction if no process crashes.    *)
(***************************************************************************)
EXTENDS HDBLock, TLAPS

\* The process owns the lock: it has the device open, or is unlocking it.
Owner(p) ==
    \/ pc[p] \in {"held", "remove"}
    \/ op[p] = "unlock" /\ pc[p] \in {"create", "open", "read", "check"}

\* The process has created the lock file and not written its pid yet.
Writer(p) == pc[p] \in {"write", "cleanup"}

\* The lock file of an owner holds the owner's pid, and that is the pid the
\* owner finds when it is about to unlock.
OwnerInv ==
    \A p \in Proc : Owner(p) =>
        /\ lockfile # NoFile
        /\ content[lockfile] = p
        /\ pc[p] = "read" => FileDes[p] = lockfile
        /\ pc[p] = "check" => Pid[p] = p

\* The lock file of a writer is the empty file it has created to lock.
WriterInv ==
    \A p \in Proc : Writer(p) =>
        /\ op[p] = "lock"
        /\ lockfile # NoFile
        /\ content[lockfile] = Empty
        /\ pc[p] = "write" => FileDes[p] = lockfile

\* There is one writer at a time.
OneWriter == \A p, q \in Proc : Writer(p) /\ Writer(q) => p = q

\* A process reads from an open file.
ReadsOpenFile == \A p \in Proc : pc[p] = "read" => FileDes[p] # NoFile

\* A pid that is checked is a pid; a lock is removed as stale only when it is
\* wanted, and only if its pid is dead.
StaleInv ==
    \A p \in Proc :
        /\ pc[p] \in {"check", "unlink"} => Pid[p] # Empty
        /\ pc[p] = "unlink" => op[p] = "lock" /\ ~Alive(Pid[p])

\* A process that finds its own pid finds it in the lock file that exists.
SelfInv ==
    \A p \in Proc :
        /\ pc[p] = "read" /\ content[FileDes[p]] = p => FileDes[p] = lockfile
        /\ pc[p] = "check" /\ Pid[p] = p =>
              lockfile # NoFile /\ content[lockfile] = p

IInv == /\ TypeOK
        /\ ReadsOpenFile
        /\ SelfInv
        /\ OwnerInv
        /\ WriterInv
        /\ OneWriter
        /\ StaleInv

----------------------------------------------------------------------------
(* Types.                                                                  *)

USE HDBAssumption

LEMMA TypeInit == Init => TypeOK /\ ReadsOpenFile
<1> SUFFICES ASSUME Init PROVE TypeOK /\ ReadsOpenFile
  OBVIOUS
<1>1. raced \in BOOLEAN
  BY DEF Init
<1> QED
  BY <1>1 DEF Init, TypeOK, ReadsOpenFile, PCs

LEMMA TypeStep == TypeOK /\ ReadsOpenFile /\ [Next]_vars => TypeOK' /\ ReadsOpenFile'
<1> SUFFICES ASSUME TypeOK, ReadsOpenFile, [Next]_vars
             PROVE  TypeOK' /\ ReadsOpenFile'
  OBVIOUS
<1> USE DEF TypeOK, ReadsOpenFile, PCs, Goto, ReturnLockOk, ReturnFailure
<1>1. ASSUME NEW p \in Proc, OpenPort(p)  PROVE TypeOK' /\ ReadsOpenFile'
  BY <1>1 DEF OpenPort
<1>2. ASSUME NEW p \in Proc, ClosePort(p)  PROVE TypeOK' /\ ReadsOpenFile'
  BY <1>2 DEF ClosePort
<1>3. ASSUME NEW p \in Proc, HDBLockFile(p)  PROVE TypeOK' /\ ReadsOpenFile'
  <2>1. CASE Create(p)
    BY <2>1 DEF Create
  <2>2. CASE CreateExists(p)
    BY <2>2 DEF CreateExists
  <2>3. CASE CreateFails(p)
    BY <2>3 DEF CreateFails
  <2>4. CASE Open(p)
    BY <2>4 DEF Open
  <2>5. CASE Read(p)
    BY <2>5 DEF Read
  <2>6. CASE Check(p)
    BY <2>6 DEF Check
  <2>7. CASE UnlinkStale(p)
    BY <2>7 DEF UnlinkStale
  <2>8. CASE Write(p)
    BY <2>8 DEF Write
  <2>9. CASE WriteFails(p)
    BY <2>9 DEF WriteFails
  <2>10. CASE Cleanup(p)
    BY <2>10 DEF Cleanup
  <2> QED
    BY <1>3, <2>1, <2>2, <2>3, <2>4, <2>5, <2>6, <2>7, <2>8, <2>9, <2>10
       DEF HDBLockFile
<1>4. ASSUME NEW p \in Proc, Remove(p)  PROVE TypeOK' /\ ReadsOpenFile'
  BY <1>4 DEF Remove
<1>5. ASSUME NEW p \in Proc, Crash(p)  PROVE TypeOK' /\ ReadsOpenFile'
  BY <1>5 DEF Crash
<1>6. ASSUME UNCHANGED vars  PROVE TypeOK' /\ ReadsOpenFile'
  BY <1>6 DEF vars
<1> QED
  BY <1>1, <1>2, <1>3, <1>4, <1>5, <1>6 DEF Next, AllDead

\* HDBLock's state keeps its type in every behaviour: in particular the file
\* that HDBLockFile reads is one it has opened, and what it finds is a pid.
THEOREM TypeCorrect == Spec => []TypeOK
<1>1. Init /\ [][Next]_vars => [](TypeOK /\ ReadsOpenFile)
  BY TypeInit, TypeStep, PTL
<1> QED
  BY <1>1, PTL DEF Spec

----------------------------------------------------------------------------
(* Mutual exclusion.                                                       *)

LEMMA ExclusionInit == Init => IInv
  BY TypeInit DEF Init, IInv, OwnerInv, WriterInv, OneWriter, StaleInv, SelfInv,
     Owner, Writer

\* Each step preserves the invariant unless it is the unlinking of a lock
\* that has been replaced.
LEMMA ExclusionStep == IInv /\ [Next]_vars /\ ~raced' => IInv'
<1> SUFFICES ASSUME IInv, [Next]_vars, ~raced'
             PROVE  IInv'
  OBVIOUS
<1> DEFINE Goal == OwnerInv' /\ WriterInv' /\ OneWriter' /\ StaleInv' /\ SelfInv'
<1>0. TypeOK' /\ ReadsOpenFile'
  BY TypeStep DEF IInv
<1> USE DEF IInv, TypeOK, ReadsOpenFile, Goto, ReturnLockOk, ReturnFailure,
            OwnerInv, Owner, WriterInv, Writer, OneWriter, StaleInv, Alive, SelfInv
<1>1. ASSUME NEW p \in Proc, OpenPort(p)  PROVE Goal
  BY <1>1 DEF OpenPort
<1>2. ASSUME NEW p \in Proc, ClosePort(p)  PROVE Goal
  BY <1>2 DEF ClosePort
<1>3. ASSUME NEW p \in Proc, HDBLockFile(p)  PROVE Goal
  <2>1. CASE Create(p)
    <3>1. OwnerInv'
      BY <2>1 DEF Create, Free
    <3>2. WriterInv' /\ OneWriter'
      BY <2>1 DEF Create, Free
    <3>3. StaleInv'
      BY <2>1 DEF Create, Free
    <3>4. SelfInv'
      BY <2>1 DEF Create, Free
    <3> QED
      BY <3>1, <3>2, <3>3, <3>4
  <2>2. CASE CreateExists(p)
    <3>1. OwnerInv'
      BY <2>2 DEF CreateExists
    <3>2. WriterInv' /\ OneWriter'
      BY <2>2 DEF CreateExists
    <3>3. StaleInv'
      BY <2>2 DEF CreateExists
    <3>4. SelfInv'
      BY <2>2 DEF CreateExists
    <3> QED
      BY <3>1, <3>2, <3>3, <3>4
  <2>3. CASE CreateFails(p)
    <3>1. OwnerInv'
      BY <2>3 DEF CreateFails
    <3>2. WriterInv' /\ OneWriter'
      BY <2>3 DEF CreateFails
    <3>3. StaleInv'
      BY <2>3 DEF CreateFails
    <3>4. SelfInv'
      BY <2>3 DEF CreateFails
    <3> QED
      BY <3>1, <3>2, <3>3, <3>4
  <2>4. CASE Open(p)
    <3>1. OwnerInv'
      BY <2>4 DEF Open
    <3>2. WriterInv' /\ OneWriter'
      BY <2>4 DEF Open
    <3>3. StaleInv'
      BY <2>4 DEF Open
    <3>4. SelfInv'
      BY <2>4 DEF Open
    <3> QED
      BY <3>1, <3>2, <3>3, <3>4
  <2>5. CASE Read(p)
    <3>1. OwnerInv'
      BY <2>5 DEF Read
    <3>2. WriterInv' /\ OneWriter'
      BY <2>5 DEF Read
    <3>3. StaleInv'
      BY <2>5 DEF Read
    <3>4. SelfInv'
      BY <2>5 DEF Read
    <3> QED
      BY <3>1, <3>2, <3>3, <3>4
  <2>6. CASE Check(p)
    <3>1. OwnerInv'
      BY <2>6 DEF Check
    <3>2. WriterInv' /\ OneWriter'
      BY <2>6 DEF Check
    <3>3. StaleInv'
      BY <2>6 DEF Check
    <3>4. SelfInv'
      BY <2>6 DEF Check
    <3> QED
      BY <3>1, <3>2, <3>3, <3>4
  <2>7. CASE UnlinkStale(p)
    <3>0. ~UnlinkRace(p)
      BY <2>7, Zenon DEF UnlinkStale
    <3>1. OwnerInv'
      BY <2>7, <3>0 DEF UnlinkStale, UnlinkRace
    <3>2. WriterInv' /\ OneWriter'
      BY <2>7, <3>0 DEF UnlinkStale, UnlinkRace
    <3>3. StaleInv'
      BY <2>7, <3>0 DEF UnlinkStale, UnlinkRace
    <3>4. SelfInv'
      BY <2>7, <3>0 DEF UnlinkStale, UnlinkRace
    <3> QED
      BY <3>1, <3>2, <3>3, <3>4
  <2>8. CASE Write(p)
    <3>1. OwnerInv'
      BY <2>8 DEF Write
    <3>2. WriterInv' /\ OneWriter'
      BY <2>8 DEF Write
    <3>3. StaleInv'
      BY <2>8 DEF Write
    <3>4. SelfInv'
      BY <2>8 DEF Write
    <3> QED
      BY <3>1, <3>2, <3>3, <3>4
  <2>9. CASE WriteFails(p)
    <3>1. OwnerInv'
      BY <2>9 DEF WriteFails
    <3>2. WriterInv' /\ OneWriter'
      BY <2>9 DEF WriteFails
    <3>3. StaleInv'
      BY <2>9 DEF WriteFails
    <3>4. SelfInv'
      BY <2>9 DEF WriteFails
    <3> QED
      BY <3>1, <3>2, <3>3, <3>4
  <2>10. CASE Cleanup(p)
    <3>1. OwnerInv'
      BY <2>10 DEF Cleanup
    <3>2. WriterInv' /\ OneWriter'
      BY <2>10 DEF Cleanup
    <3>3. StaleInv'
      BY <2>10 DEF Cleanup
    <3>4. SelfInv'
      BY <2>10 DEF Cleanup
    <3> QED
      BY <3>1, <3>2, <3>3, <3>4
  <2> QED
    BY <1>3, <2>1, <2>2, <2>3, <2>4, <2>5, <2>6, <2>7, <2>8, <2>9, <2>10
       DEF HDBLockFile
<1>4. ASSUME NEW p \in Proc, Remove(p)  PROVE Goal
  BY <1>4 DEF Remove
<1>5. ASSUME NEW p \in Proc, Crash(p)  PROVE Goal
  BY <1>5 DEF Crash
<1>6. ASSUME UNCHANGED vars  PROVE Goal
  BY <1>6 DEF vars
<1> QED
  BY <1>0, <1>1, <1>2, <1>3, <1>4, <1>5, <1>6 DEF Next, AllDead

LEMMA ExclusionFromInv == IInv => MutualExclusion
  BY DEF IInv, OwnerInv, Owner, MutualExclusion

\* Up to the first such unlinking everything is in order.
UnracedInv == ~raced => IInv

LEMMA RacedStays == raced /\ [Next]_vars => raced'
  BY DEF Next, AllDead, HDBLockFile, OpenPort, ClosePort, Create, CreateExists,
     CreateFails, Open, Read, Check, UnlinkStale, Write, WriteFails, Cleanup,
     Remove, Crash, vars

LEMMA AlwaysUnracedInv == Spec => []UnracedInv
<1>1. Init => UnracedInv
  BY ExclusionInit DEF UnracedInv
<1>2. UnracedInv /\ [Next]_vars => UnracedInv'
  BY ExclusionStep, RacedStays DEF UnracedInv
<1> QED
  BY <1>1, <1>2, PTL DEF Spec

\* With any number of processes and any crashes, two processes have the
\* device open at once only after some process has unlinked, as stale, a
\* lock file other than the one it had read (HDBLockFile).
THEOREM ExclusionUnlessRace == Spec => []ExclusionUnlessRaced
<1>1. UnracedInv => ExclusionUnlessRaced
  BY ExclusionFromInv DEF UnracedInv, ExclusionUnlessRaced
<1> QED
  BY <1>1, AlwaysUnracedInv, PTL

\* A step other than such an unlinking leaves the locks in use alone.
LEMMA KeepsLocksStep == IInv /\ [Next]_vars => [raced' \/ KeepsLocks]_vars
<1> SUFFICES ASSUME IInv, ~raced', Next
             PROVE  KeepsLocks
  OBVIOUS
<1> USE DEF KeepsLocks, IInv, TypeOK, Goto, ReturnLockOk, ReturnFailure
<1>1. ASSUME NEW p \in Proc, Create(p)  PROVE KeepsLocks
  BY <1>1 DEF Create, OwnerInv, Owner, WriterInv, Writer
<1>2. ASSUME NEW p \in Proc, Write(p)  PROVE KeepsLocks
  BY <1>2 DEF Write, OwnerInv, Owner, WriterInv, Writer, OneWriter
<1>3. ASSUME NEW p \in Proc, UnlinkStale(p)  PROVE KeepsLocks
  BY <1>3 DEF UnlinkStale, UnlinkRace, OwnerInv, Owner, WriterInv, Writer,
     StaleInv, Alive
<1>4. ASSUME NEW p \in Proc, Cleanup(p)  PROVE KeepsLocks
  BY <1>4 DEF Cleanup, OwnerInv, Owner, WriterInv, Writer, OneWriter
<1>5. ASSUME NEW p \in Proc, Remove(p)  PROVE KeepsLocks
  BY <1>5 DEF Remove, OwnerInv, Owner, WriterInv, Writer
<1>6. ASSUME NEW p \in Proc,
             \/ OpenPort(p) \/ ClosePort(p) \/ Crash(p) \/ CreateExists(p)
             \/ CreateFails(p) \/ Open(p) \/ Read(p) \/ Check(p) \/ WriteFails(p)
      PROVE  KeepsLocks
  BY <1>6 DEF OpenPort, ClosePort, Crash, CreateExists, CreateFails, Open, Read,
     Check, WriteFails
<1>7. ASSUME AllDead  PROVE KeepsLocks
  BY <1>7 DEF AllDead, vars
<1> QED
  BY <1>1, <1>2, <1>3, <1>4, <1>5, <1>6, <1>7 DEF Next, HDBLockFile

\* Nobody removes or overwrites the lock file of a process that is writing its
\* pid or has the device open (Create, Cleanup, HDBUnlockFile), unless a
\* process has unlinked a lock that was replaced since it found it stale: that
\* unlinking is the first step to hit a lock in use.
THEOREM LockKeptUnlessRace == Spec => HeldLockKept
<1>1. UnracedInv /\ [Next]_vars => [raced' \/ KeepsLocks]_vars
  BY KeepsLocksStep, RacedStays DEF UnracedInv
<1> QED
  BY <1>1, AlwaysUnracedInv, PTL DEF Spec, HeldLockKept

----------------------------------------------------------------------------
(* Without crashes.                                                        *)

NoneDead == ~raced /\ \A p \in Proc : pc[p] \notin {"dead", "unlink"}

LEMMA NoneDeadStep ==
    ASSUME MayCrash = {}
    PROVE  IInv /\ NoneDead /\ [Next]_vars => NoneDead'
<1> SUFFICES ASSUME IInv, NoneDead, [Next]_vars
             PROVE  NoneDead'
  OBVIOUS
<1>1. ASSUME NEW p \in Proc, Check(p)  PROVE NoneDead'
  <2>1. Pid[p] \in Proc
    BY <1>1 DEF IInv, TypeOK, StaleInv, Check
  <2>2. Alive(Pid[p])
    BY <2>1 DEF NoneDead, Alive
  <2> QED
    BY <1>1, <2>2 DEF Check, NoneDead, IInv, TypeOK, Goto, ReturnLockOk, ReturnFailure
<1>2. ASSUME NEW p \in Proc,
             \/ OpenPort(p) \/ ClosePort(p) \/ Remove(p) \/ Create(p)
             \/ CreateExists(p) \/ CreateFails(p) \/ Open(p) \/ Read(p)
             \/ UnlinkStale(p) \/ Write(p) \/ WriteFails(p) \/ Cleanup(p)
      PROVE  NoneDead'
  BY <1>2 DEF NoneDead, IInv, TypeOK, Goto, ReturnLockOk, ReturnFailure, OpenPort,
     ClosePort, Remove, Create, CreateExists, CreateFails, Open, Read, UnlinkStale,
     Write, WriteFails, Cleanup
<1>3. ASSUME NEW p \in Proc, Crash(p)  PROVE NoneDead'
  BY <1>3 DEF Crash
<1>4. ASSUME UNCHANGED vars  PROVE NoneDead'
  BY <1>4 DEF vars, NoneDead
<1> QED
  BY <1>1, <1>2, <1>3, <1>4 DEF Next, AllDead, HDBLockFile

\* If no process crashes, the lock excludes without any proviso, for any
\* number of processes: no lock is ever taken for stale.
THEOREM ExclusionWithoutCrash ==
    ASSUME MayCrash = {}
    PROVE  Spec => []MutualExclusion
<1>1. Init => IInv /\ NoneDead
  BY ExclusionInit DEF Init, NoneDead
<1>2. NoneDead' => ~raced'
  BY DEF NoneDead
<1>3. IInv /\ NoneDead /\ [Next]_vars => (IInv /\ NoneDead)'
  BY <1>2, ExclusionStep, NoneDeadStep
<1>4. Init /\ [][Next]_vars => []IInv
  BY <1>1, <1>3, PTL
<1> QED
  BY <1>4, ExclusionFromInv, PTL DEF Spec
=============================================================================

----------------------------- MODULE WriterLock -----------------------------
(***************************************************************************)
(* The cross-process writer lock of one thread                             *)
(* (thread-store/src/local/writer_lock.rs).                                *)
(*                                                                         *)
(* A process owns the thread's rollout while it holds an flock on          *)
(* <thread id>.lock.  The lock file is unlinked when it is released, and a *)
(* process removes lock files left behind by dead ones before its first    *)
(* acquisition: an flock belongs to an inode, so a file that is unlinked   *)
(* at the wrong moment would let a second process lock another inode under *)
(* the same name.  A second lock, on .coordination.lock, which is never    *)
(* unlinked, covers acquisition and release.                               *)
(***************************************************************************)
EXTENDS Naturals

CONSTANTS Procs, NoProc, LockInodes, NoInode

ASSUME ProcsAssumption == NoProc \notin Procs
ASSUME InodesAssumption == NoInode \notin LockInodes

VARIABLES
    path,       \* the inode that <thread id>.lock names
    coord,      \* the process with the coordination lock
    lpc,        \* process -> where it stands in acquire or in Drop
    lfd,        \* process -> the inode it has open
    locked,     \* processes with an flock on the inode they have open
    cleaned     \* process -> cleanup_attempted

lockVars == <<path, coord, lpc, lfd, locked, cleaned>>

Coordinating == {"clean", "sweep", "open", "try", "close", "unlink"}

LockInit ==
    /\ path = NoInode /\ coord = NoProc
    /\ lpc = [p \in Procs |-> "idle"]
    /\ lfd = [p \in Procs |-> NoInode]
    /\ locked = {}
    /\ cleaned = [p \in Procs |-> FALSE]

(* Somebody has an flock on the inode.                                     *)
IsLocked(i) == \E q \in locked : lfd[q] = i

-----------------------------------------------------------------------------
(* acquire: lock_coordination waits for the coordination lock.             *)
LockCoordination(p) ==
    /\ lpc[p] = "idle" /\ coord = NoProc
    /\ coord' = p
    /\ lpc' = [lpc EXCEPT ![p] = IF cleaned[p] THEN "open" ELSE "clean"]
    /\ cleaned' = [cleaned EXCEPT ![p] = TRUE]
    /\ UNCHANGED <<path, lfd, locked>>

(* remove_stale_thread_locks: a lock file that nobody has locked is stale. *)
FindStale(p) ==
    /\ lpc[p] = "clean"
    /\ lpc' = [lpc EXCEPT ![p] = IF path # NoInode /\ ~IsLocked(path)
                                 THEN "sweep" ELSE "open"]
    /\ UNCHANGED <<path, coord, lfd, locked, cleaned>>

Sweep(p) ==
    /\ lpc[p] = "sweep"
    /\ path' = NoInode
    /\ lpc' = [lpc EXCEPT ![p] = "open"]
    /\ UNCHANGED <<coord, lfd, locked, cleaned>>

(* The file is opened, or created as an inode that is not in use.          *)
OpenLock(p) ==
    /\ lpc[p] = "open"
    /\ \E i \in LockInodes :
         /\ IF path # NoInode THEN i = path ELSE \A q \in Procs : lfd[q] # i
         /\ path' = i
         /\ lfd' = [lfd EXCEPT ![p] = i]
    /\ lpc' = [lpc EXCEPT ![p] = "try"]
    /\ UNCHANGED <<coord, locked, cleaned>>

TryLock(p) ==
    /\ lpc[p] = "try" /\ ~IsLocked(lfd[p])
    /\ locked' = locked \cup {p}
    /\ coord' = NoProc
    /\ lpc' = [lpc EXCEPT ![p] = "held"]
    /\ UNCHANGED <<path, lfd, cleaned>>

(* "already has an active writer": both files are closed.                  *)
Conflict(p) ==
    /\ lpc[p] = "try" /\ IsLocked(lfd[p])
    /\ coord' = NoProc
    /\ lfd' = [lfd EXCEPT ![p] = NoInode]
    /\ lpc' = [lpc EXCEPT ![p] = "idle"]
    /\ UNCHANGED <<path, locked, cleaned>>

(* Drop for WriterLockGuard: coordinate, close, unlink.                    *)
BeginDrop(p) ==
    /\ lpc[p] = "held" /\ coord = NoProc
    /\ coord' = p
    /\ lpc' = [lpc EXCEPT ![p] = "close"]
    /\ UNCHANGED <<path, lfd, locked, cleaned>>

(* Mutant of CloseLock: coordination ends before the file is unlinked.     *)
CloseLockEarly(p) ==
    /\ lpc[p] = "close"
    /\ coord' = NoProc
    /\ locked' = locked \ {p}
    /\ lfd' = [lfd EXCEPT ![p] = NoInode]
    /\ lpc' = [lpc EXCEPT ![p] = "unlink"]
    /\ UNCHANGED <<path, cleaned>>

CloseLock(p) ==
    /\ lpc[p] = "close"
    /\ locked' = locked \ {p}
    /\ lfd' = [lfd EXCEPT ![p] = NoInode]
    /\ lpc' = [lpc EXCEPT ![p] = "unlink"]
    /\ UNCHANGED <<path, coord, cleaned>>

Unlink(p) ==
    /\ lpc[p] = "unlink"
    /\ path' = NoInode
    /\ coord' = NoProc
    /\ lpc' = [lpc EXCEPT ![p] = "idle"]
    /\ UNCHANGED <<lfd, locked, cleaned>>

(* The coordination lock cannot be had (an I/O error): the file is closed  *)
(* and stays behind.                                                       *)
DropUncoordinated(p) ==
    /\ lpc[p] = "held"
    /\ locked' = locked \ {p}
    /\ lfd' = [lfd EXCEPT ![p] = NoInode]
    /\ lpc' = [lpc EXCEPT ![p] = "idle"]
    /\ UNCHANGED <<path, coord, cleaned>>

(* The process dies: the system closes its files; a new one takes its name.*)
Die(p) ==
    /\ coord' = IF coord = p THEN NoProc ELSE coord
    /\ locked' = locked \ {p}
    /\ lfd' = [lfd EXCEPT ![p] = NoInode]
    /\ lpc' = [lpc EXCEPT ![p] = "idle"]
    /\ cleaned' = [cleaned EXCEPT ![p] = FALSE]
    /\ UNCHANGED path

(* The steps of acquire; those of release come when the owner is done.     *)
AcquireStep(p) ==
    \/ LockCoordination(p) \/ FindStale(p) \/ Sweep(p) \/ OpenLock(p)
    \/ TryLock(p) \/ Conflict(p)
ReleaseStep(p) ==
    \/ BeginDrop(p) \/ CloseLock(p) \/ Unlink(p) \/ DropUncoordinated(p)

LockNext == \E p \in Procs : AcquireStep(p) \/ ReleaseStep(p) \/ Die(p)

LockSpec == LockInit /\ [][LockNext]_lockVars

-----------------------------------------------------------------------------
LockTypeOK ==
    /\ path \in LockInodes \cup {NoInode}
    /\ coord \in Procs \cup {NoProc}
    /\ lpc \in [Procs -> Coordinating \cup {"idle", "held"}]
    /\ lfd \in [Procs -> LockInodes \cup {NoInode}]
    /\ locked \subseteq Procs
    /\ cleaned \in [Procs -> BOOLEAN]

(***************************************************************************)
(* No two processes write the thread at once: at most one has its lock,    *)
(* however lock files are unlinked and recreated, and whenever a process   *)
(* dies (writer_lock_tests: "competing owners" are rejected).              *)
(***************************************************************************)
MutualExclusion == \A p, q \in locked : p = q

(***************************************************************************)
(* Why: whoever has the lock has it on the inode that the name leads to,   *)
(* so the next process opens the same one; and a process that is about to  *)
(* unlink the name has made sure that nobody has the lock.                 *)
(***************************************************************************)
HeldIsNamed ==
    /\ \A p \in Procs : p \in locked <=> lpc[p] \in {"held", "close"}
    /\ \A p \in locked : lfd[p] = path /\ path # NoInode
    /\ \A p \in Procs : lpc[p] = "try" => lfd[p] = path /\ path # NoInode
    /\ \A p \in Procs : lpc[p] \in {"sweep", "unlink"} => locked = {}
    /\ \A p \in Procs : lpc[p] \in Coordinating <=> coord = p
=============================================================================

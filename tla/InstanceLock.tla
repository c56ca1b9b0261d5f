---------------------------- MODULE InstanceLock ----------------------------
(***************************************************************************)
(* The start of main (src/main.c): one process per program name, by a lock *)
(* on a file in /tmp that also holds the process id.                       *)
(*                                                                         *)
(* The kernel's record locks are external: F_SETLK takes the lock or fails *)
(* at once, and the lock goes with its process, however that ends.  The    *)
(* file itself is never removed, and writing it succeeds (the code does    *)
(* not look at the results of ftruncate and write).  bin/go.sh restarts a  *)
(* program by killing every process of its name and starting a new one.    *)
(***************************************************************************)
EXTENDS Integers

CONSTANTS
    Procs,       \* processes
    Names,       \* names of executables
    NameOf,      \* the executable each process runs
    NoProc       \* neither a process nor its id

ASSUME LockAssumption == NameOf \in [Procs -> Names] /\ NoProc \notin Procs

VARIABLES
    pc,      \* where each process is in main
    holder,  \* the process that has the lock on the file of a name
    pidFile  \* the id written in the file of a name

lockVars == <<pc, holder, pidFile>>

LockInit ==
    /\ pc = [p \in Procs |-> "off"]
    /\ holder = [n \in Names |-> NoProc]
    /\ pidFile = [n \in Names |-> NoProc]

\* isInRunning: open with O_CREAT, or exit when that fails.
open(p) ==
    /\ pc[p] = "off"
    /\ pc' = [pc EXCEPT ![p] = "opened"]
    /\ UNCHANGED <<holder, pidFile>>

\* Variant of tryLockPidFile: a read lock, which others may share.
tryLockShared(p) ==
    /\ pc[p] = "opened"
    /\ pc' = [pc EXCEPT ![p] = "locked"]
    /\ holder' = [holder EXCEPT ![NameOf[p]] = p]
    /\ UNCHANGED pidFile

\* tryLockPidFile: the lock, or EAGAIN, which makes main exit.
tryLockPidFile(p) ==
    /\ pc[p] = "opened"
    /\ IF holder[NameOf[p]] = NoProc
       THEN /\ pc' = [pc EXCEPT ![p] = "locked"]
            /\ holder' = [holder EXCEPT ![NameOf[p]] = p]
       ELSE pc' = [pc EXCEPT ![p] = "exit"] /\ UNCHANGED holder
    /\ UNCHANGED pidFile

truncate(p) ==
    /\ pc[p] = "locked"
    /\ pc' = [pc EXCEPT ![p] = "truncated"]
    /\ pidFile' = [pidFile EXCEPT ![NameOf[p]] = NoProc]
    /\ UNCHANGED holder

writePid(p) ==
    /\ pc[p] = "truncated"
    /\ pc' = [pc EXCEPT ![p] = "running"]
    /\ pidFile' = [pidFile EXCEPT ![NameOf[p]] = p]
    /\ UNCHANGED holder

\* The process ends: exit, a crash, or killall -9.
ends(p) ==
    /\ pc[p] # "off"
    /\ pc' = [pc EXCEPT ![p] = "off"]
    /\ holder' = IF holder[NameOf[p]] = p THEN [holder EXCEPT ![NameOf[p]] = NoProc] ELSE holder
    /\ UNCHANGED pidFile

LockNext ==
    \E p \in Procs : open(p) \/ tryLockPidFile(p) \/ truncate(p) \/ writePid(p) \/ ends(p)

LockSpec == LockInit /\ [][LockNext]_lockVars

-----------------------------------------------------------------------------
(* Properties. *)

LockTypeOK ==
    /\ pc \in [Procs -> {"off", "opened", "exit", "locked", "truncated", "running"}]
    /\ holder \in [Names -> Procs \cup {NoProc}]
    /\ pidFile \in [Names -> Procs \cup {NoProc}]

Inside == {"locked", "truncated", "running"}

\* Never two instances of the same name get past the lock, whatever is started,
\* killed or crashes, and at whichever point.
OneInstance ==
    \A p, q \in Procs :
        (p # q /\ NameOf[p] = NameOf[q]) => ~(pc[p] \in Inside /\ pc[q] \in Inside)

\* While an instance runs, the file of its name holds its process id, although
\* earlier instances left theirs there and later ones open the same file.
PidFileNamesRunning == \A p \in Procs : pc[p] = "running" => pidFile[NameOf[p]] = p

=============================================================================

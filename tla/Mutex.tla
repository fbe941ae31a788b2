------------------------------- MODULE Mutex -------------------------------
(***************************************************************************)
(* What a lock promises its callers: one owner at a time, and, if fair,    *)
(* that a lock which is free and wanted is taken by somebody.  Who gets it *)
(* is not promised.                                                        *)
(***************************************************************************)
CONSTANTS Threads, NoThread

VARIABLES waiting,  (* threads inside lock()                               *)
          owner     (* the thread that owns the lock, or NoThread          *)

mutexVars == <<waiting, owner>>

MutexInit == waiting = {} /\ owner = NoThread

Request(t) ==
  /\ t # owner
  /\ waiting' = waiting \cup {t}
  /\ UNCHANGED owner

Acquire(t) ==
  /\ t \in waiting
  /\ owner = NoThread
  /\ waiting' = waiting \ {t}
  /\ owner' = t

TryAcquire(t) ==
  /\ t \notin waiting
  /\ owner = NoThread
  /\ owner' = t
  /\ UNCHANGED waiting

Release(t) ==
  /\ owner = t
  /\ owner' = NoThread
  /\ UNCHANGED waiting

MutexNext ==
  \E t \in Threads : Request(t) \/ Acquire(t) \/ TryAcquire(t) \/ Release(t)

MutexSpec == MutexInit /\ [][MutexNext]_mutexVars

FairMutexSpec ==
  MutexSpec /\ WF_mutexVars(\E t \in Threads : Acquire(t))

=============================================================================

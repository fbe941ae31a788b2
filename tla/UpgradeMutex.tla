---------------------------- MODULE UpgradeMutex ----------------------------
(***************************************************************************)
(* boost::upgrade_mutex as src/src/timing.cpp uses it: shared ownership,   *)
(* an upgrade ownership that coexists with sharers but with no second      *)
(* upgrader, and exclusive ownership reached only from upgrade ownership.  *)
(* Boost is not part of the repository; these operators state what the     *)
(* calls in timing.cpp rely on.                                            *)
(***************************************************************************)
EXTENDS Owners

VARIABLES sharers,   (* threads with shared ownership                      *)
          upgrader,  (* the thread with upgrade ownership, or NoThread     *)
          writer     (* the thread with exclusive ownership, or NoThread   *)

mutexVars == <<sharers, upgrader, writer>>

MutexTypeOK ==
  /\ sharers \subseteq Threads
  /\ upgrader \in Threads \cup {NoThread}
  /\ writer \in Threads \cup {NoThread}

MutexInit ==
  /\ sharers = {}
  /\ upgrader = NoThread
  /\ writer = NoThread

(* shared_lock construction and lock(): blocked by exclusive ownership     *)
(* only, so readers may still enter while an upgrader waits for them.      *)
LockShared(t) ==
  /\ writer = NoThread
  /\ sharers' = sharers \cup {t}
  /\ UNCHANGED <<upgrader, writer>>

UnlockShared(t) ==
  /\ sharers' = sharers \ {t}
  /\ UNCHANGED <<upgrader, writer>>

(* upgrade_lock(move(shared), try_to_lock) succeeds: the shared ownership  *)
(* is exchanged, in one step, for upgrade ownership.                       *)
TryUpgradeSucceeds(t) ==
  /\ upgrader = NoThread
  /\ writer = NoThread
  /\ sharers' = sharers \ {t}
  /\ upgrader' = t
  /\ UNCHANGED writer

(* ... and fails: the caller keeps its shared ownership.                   *)
TryUpgradeFails(t) ==
  /\ upgrader # NoThread \/ writer # NoThread
  /\ UNCHANGED mutexVars

(* unique_lock(move(upgrade)): waits until every sharer has left.          *)
LockExclusive(t) ==
  /\ sharers = {}
  /\ writer = NoThread
  /\ upgrader' = NoThread
  /\ writer' = t
  /\ UNCHANGED sharers

UnlockExclusive(t) ==
  /\ writer' = NoThread
  /\ UNCHANGED <<sharers, upgrader>>

UnlockUpgrade(t) ==
  /\ upgrader' = NoThread
  /\ UNCHANGED <<sharers, writer>>

=============================================================================

------------------------------ MODULE Spinlock ------------------------------
(***************************************************************************)
(* ing::spinlock (src/include/ing/spinlock.hpp): one atomic flag, and a    *)
(* lock() that waits in one of three ways, chosen by the feature macros of *)
(* the build.  One action is one atomic operation on the flag.  The flag   *)
(* is sequentially consistent here: every decision is taken on the result  *)
(* of test_and_set, whose acquire pairs with the release of clear.         *)
(***************************************************************************)
EXTENDS Owners

(* The ways of waiting that the feature macros choose from.                *)
Builds == {"wait", "test", "spin"}

VARIABLES
  build,  (* "wait": __cpp_lib_atomic_wait, "test": __cpp_lib_atomic_flag_test
             only, "spin": neither; the same throughout a behaviour        *)
  guard_, (* the flag                                                      *)
  place   (* where each thread is                                          *)

lockVars == <<build, guard_, place>>

(* Places inside lock(), outside the critical section.                     *)
LockPcs == {"try", "wait", "blocked", "test"}

(* Places a thread can be in, given the build.                             *)
PcsOf(b) ==
  {"out", "try", "held"} \cup
    CASE b = "wait" -> {"wait", "blocked", "notify"}
      [] b = "test" -> {"test"}
      [] b = "spin" -> {}

LockTypeOK ==
  /\ build \in Builds
  /\ guard_ \in BOOLEAN
  /\ place \in [Threads -> PcsOf(build)]

LockInit ==
  /\ build \in Builds
  /\ guard_ = FALSE
  /\ place = [t \in Threads |-> "out"]

MoveTo(t, from, to) ==
  /\ place[t] = from
  /\ place' = [place EXCEPT ![t] = to]

-----------------------------------------------------------------------------
(* Variants with a plausible bug, to show that the properties notice.      *)

(* The flag was seen clear, so the lock is taken for granted.              *)
Test_Enters(t) ==
  /\ MoveTo(t, "test", "held")
  /\ ~ guard_
  /\ UNCHANGED <<build, guard_>>

(* unlock() of a build without atomic wait.                                *)
Unlock_Silent(t) ==
  /\ MoveTo(t, "held", "out")
  /\ guard_' = FALSE
  /\ UNCHANGED build

(* A notification that finds several waiters wakes none.                   *)
NotifyOne_Nobody(t) ==
  /\ MoveTo(t, "notify", "out")
  /\ UNCHANGED <<build, guard_>>

-----------------------------------------------------------------------------
(* try_lock() by a user: one test_and_set, no waiting.                     *)
TryLock(t) ==
  /\ MoveTo(t, "out", IF guard_ THEN "out" ELSE "held")
  /\ guard_' = TRUE
  /\ UNCHANGED build

Lock(t) ==
  /\ MoveTo(t, "out", "try")
  /\ UNCHANGED <<build, guard_>>

(* while (!try_lock()): enter, or wait as the build can.                   *)
TestAndSet(t) ==
  /\ MoveTo(t, "try", IF ~ guard_ THEN "held"
                      ELSE IF build = "spin" THEN "try" ELSE build)
  /\ guard_' = TRUE
  /\ UNCHANGED build

(* guard_.wait(true): blocks if the flag is still set, in one step with    *)
(* the test; a thread that was woken tests again.                          *)
Wait(t) ==
  /\ MoveTo(t, "wait", IF guard_ THEN "blocked" ELSE "try")
  /\ UNCHANGED <<build, guard_>>

WakeUp(t) ==
  /\ MoveTo(t, "blocked", "wait")
  /\ UNCHANGED <<build, guard_>>

(* while (guard_.test());                                                  *)
Test(t) ==
  /\ MoveTo(t, "test", "try")
  /\ ~ guard_
  /\ UNCHANGED <<build, guard_>>

(* guard_.clear(): the lock is free before anybody is notified.            *)
Unlock(t) ==
  /\ MoveTo(t, "held", IF build = "wait" THEN "notify" ELSE "out")
  /\ guard_' = FALSE
  /\ UNCHANGED build

(* guard_.notify_one(): one blocked thread, if there is one.               *)
NotifyOne(t) ==
  /\ place[t] = "notify"
  /\ LET blocked == {u \in Threads : place[u] = "blocked"}
     IN \/ blocked = {} /\ place' = [place EXCEPT ![t] = "out"]
        \/ \E u \in blocked : place' = [place EXCEPT ![t] = "out", ![u] = "wait"]
  /\ UNCHANGED <<build, guard_>>

(* The steps a thread owes once it has called lock().                      *)
LockStep(t) ==
  TestAndSet(t) \/ Wait(t) \/ Test(t) \/ Unlock(t) \/ NotifyOne(t)

LockNext ==
  \E t \in Threads : Lock(t) \/ TryLock(t) \/ WakeUp(t) \/ LockStep(t)

LockSpec == LockInit /\ [][LockNext]_lockVars

(* Every thread that can run runs, and leaves the critical section: those  *)
(* of timing.cpp and threading.cpp are short and do not block.             *)
FairLockSpec == LockSpec /\ \A t \in Threads : WF_lockVars(LockStep(t))

-----------------------------------------------------------------------------
(* Two threads are never both between lock() and unlock()                  *)
(* (spinlock.hpp:21-44).                                                   *)
MutualExclusion ==
  \A t, u \in Threads : place[t] = "held" /\ place[u] = "held" => t = u

(* No lost wakeup: while the flag is clear and somebody sleeps in          *)
(* guard_.wait, some other thread is on its way to take the lock or to     *)
(* notify (spinlock.hpp:26-31 against 36-39).                              *)
NoStrandedWaiter ==
  ~ guard_ /\ (\E t \in Threads : place[t] = "blocked")
    => \E u \in Threads : place[u] \in {"notify", "wait", "try"}

owner == IF \E t \in Threads : place[t] = "held"
         THEN CHOOSE t \in Threads : place[t] = "held" ELSE NoThread

Lockable == INSTANCE Mutex
  WITH waiting <- {t \in Threads : place[t] \in LockPcs}, owner <- owner

(* The spinlock is a mutex in each of its builds: the flag and the waiting *)
(* are not visible to its users (spinlock.hpp:21-44).                      *)
ImplementsMutex == Lockable!MutexSpec

(* ... and a fair one as far as the lock is concerned: free and wanted, it *)
(* is taken, although the thread that notify_one wakes may lose the flag   *)
(* to another and sleep again (spinlock.hpp:26-39).                        *)
ImplementsFairMutex == Lockable!FairMutexSpec

=============================================================================

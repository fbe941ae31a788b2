---------------------------- MODULE TimerRegistry ----------------------------
(***************************************************************************)
(* The registry of timers in src/src/timing.cpp: the intrusive set         *)
(* "timers", the upgrade mutex and the condition variable that guard its   *)
(* structure, and the spinlock that guards the accumulators of an element. *)
(* A thread either records the elapsed times of a timer (the second half   *)
(* of timer::report(name, loc)) or prints the registry (the static         *)
(* timer::report(os, regex)).  One action is one step between two          *)
(* synchronisation operations of the code.                                 *)
(***************************************************************************)
EXTENDS UpgradeMutex, Integers, FiniteSetsExt

CONSTANTS Names,         (* keys of the set, ordered as std::string_view   *)
          End,           (* timers.end()                                   *)
          Features,      (* statistics printed for one clock               *)
          AllocMayFail,  (* may operator new throw std::bad_alloc?         *)
          MaxCalls       (* bound: calls made by one thread                *)

ASSUME RegistryAssumption ==
  /\ Names \subseteq Nat /\ Names # {}
  /\ End \notin Names
  /\ Features \in Nat \ {0}
  /\ AllocMayFail \in BOOLEAN
  /\ MaxCalls \in Nat

VARIABLES
  timers,   (* timers[n]: how many elements with key n are linked          *)
  samples,  (* samples[n][c]: samples in accumulator c of element n        *)
  guard,    (* guard[n]: the thread that holds the spinlock of element n   *)
  pc,       (* where each thread is                                        *)
  arg,      (* report(name): the name                                      *)
  found,    (* report(name): p # nullptr                                   *)
  ctx,      (* report(name): the set of keys insert_check positioned in    *)
  pattern,  (* report(os, regex): the names the regex matches              *)
  iter,     (* report(os, regex): the element visited, or End              *)
  cell,     (* report(os, regex): statistics printed for this element      *)
  version,  (* report(os, regex): samples behind the last one printed      *)
  calls,    (* calls made so far                                           *)
  before,   (* history: keys linked when the call began                    *)
  printed   (* history: names whose rows are printed in full               *)

registryVars == <<timers, samples, guard>>
recordVars == <<arg, found, ctx>>
printVars == <<pattern, iter, cell, version, printed>>
callVars == <<calls, before>>
vars == <<mutexVars, registryVars, pc, recordVars, printVars, callVars>>

Clocks == {"wall", "user", "system"}

(* The clock of the i-th statistic of an element: the rows are printed in  *)
(* the order wall, user, system, each with all its features.               *)
ClockOf(i) == IF i < Features THEN "wall"
              ELSE IF i < 2 * Features THEN "user" ELSE "system"

Linked == {n \in Names : timers[n] > 0}

(* The least key of S, or End: begin() and ++iter of the set.              *)
FirstOf(S) == IF S = {} THEN End ELSE Min(S)

RecordPcs == {"search", "check", "try", "alloc", "upgrade", "commit",
              "unlock", "notify", "wait", "waiting", "relock", "release",
              "failnotify", "failunlock", "guard", "wall", "user", "system",
              "unguard"}
PrintPcs == {"read", "test", "extract", "next"}

TypeOK ==
  /\ MutexTypeOK
  /\ timers \in [Names -> Nat]
  /\ samples \in [Names -> [Clocks -> Nat]]
  /\ guard \in [Names -> Threads \cup {NoThread}]
  /\ pc \in [Threads -> {"idle"} \cup RecordPcs \cup PrintPcs]
  /\ arg \in [Threads -> Names]
  /\ found \in [Threads -> BOOLEAN]
  /\ ctx \in [Threads -> SUBSET Names]
  /\ pattern \in [Threads -> SUBSET Names]
  /\ iter \in [Threads -> Names \cup {End}]
  /\ cell \in [Threads -> 0 .. 3 * Features]
  /\ version \in [Threads -> Nat]
  /\ calls \in [Threads -> 0 .. MaxCalls]
  /\ before \in [Threads -> SUBSET Names]
  /\ printed \in [Threads -> SUBSET Names]

Init ==
  /\ MutexInit
  /\ timers = [n \in Names |-> 0]
  /\ samples = [n \in Names |-> [c \in Clocks |-> 0]]
  /\ guard = [n \in Names |-> NoThread]
  /\ pc = [t \in Threads |-> "idle"]
  /\ arg = [t \in Threads |-> CHOOSE n \in Names : TRUE]
  /\ found = [t \in Threads |-> FALSE]
  /\ ctx = [t \in Threads |-> {}]
  /\ pattern = [t \in Threads |-> {}]
  /\ iter = [t \in Threads |-> End]
  /\ cell = [t \in Threads |-> 0]
  /\ version = [t \in Threads |-> 0]
  /\ calls = [t \in Threads |-> 0]
  /\ before = [t \in Threads |-> {}]
  /\ printed = [t \in Threads |-> {}]

Goto(t, from, to) ==
  /\ pc[t] = from
  /\ pc' = [pc EXCEPT ![t] = to]

-----------------------------------------------------------------------------
(* Variants with a plausible bug.  None of them is part of Spec: each      *)
(* takes the place of the action it is named after, to show that the       *)
(* properties below notice.                                                *)

(* Double-checked locking: the search runs without the shared lock.        *)
Search_Unlocked(t) ==
  /\ Goto(t, "search", "check")
  /\ UNCHANGED <<mutexVars, registryVars, recordVars, printVars, callVars>>

(* The element found is not remembered.                                    *)
InsertCheck_Forgets(t) ==
  /\ \/ /\ arg[t] \in Linked
        /\ Goto(t, "check", "release")
        /\ UNCHANGED ctx
     \/ /\ arg[t] \notin Linked
        /\ Goto(t, "check", "try")
        /\ ctx' = [ctx EXCEPT ![t] = Linked]
  /\ UNCHANGED <<mutexVars, registryVars, arg, found, printVars, callVars>>

(* Unlock shared, then lock exclusive: no atomic upgrade.                  *)
TryUpgrade_Gap(t) ==
  /\ Goto(t, "try", "upgrade")
  /\ UnlockShared(t)
  /\ UNCHANGED <<registryVars, recordVars, printVars, callVars>>

(* The loser gives its shared lock up before it waits.                     *)
TryUpgrade_LoserUnlocks(t) ==
  /\ \/ Goto(t, "try", "alloc") /\ TryUpgradeSucceeds(t)
     \/ /\ Goto(t, "try", "wait")
        /\ upgrader # NoThread \/ writer # NoThread
        /\ UnlockShared(t)
  /\ UNCHANGED <<registryVars, recordVars, printVars, callVars>>

(* notify_one in place of notify_all.                                      *)
NotifyAll_One(t) ==
  /\ pc[t] \in {"notify", "failnotify"}
  /\ LET next == IF pc[t] = "notify" THEN "guard" ELSE "failunlock"
         W == {u \in Threads : pc[u] = "waiting"}
     IN \/ W = {} /\ pc' = [pc EXCEPT ![t] = next]
        \/ \E u \in W : pc' = [pc EXCEPT ![t] = next, ![u] = "relock"]
  /\ UNCHANGED <<mutexVars, registryVars, recordVars, printVars, callVars>>

(* The exceptional exit keeps the upgrade ownership.                       *)
CreateUnlock_Leaks(t) ==
  /\ Goto(t, "failunlock", "idle")
  /\ UNCHANGED <<mutexVars, registryVars, recordVars, printVars, callVars>>

(* The accumulators are updated without waiting for the spinlock.          *)
GuardLock_Ignored(t) ==
  /\ Goto(t, "guard", "wall")
  /\ guard' = [guard EXCEPT ![arg[t]] = t]
  /\ UNCHANGED <<mutexVars, timers, samples, recordVars, printVars, callVars>>

(* One statistic too many.                                                 *)
Extract_OneMore(t) ==
  /\ pc[t] = "extract"
  /\ cell[t] <= 3 * Features
  /\ guard[iter[t]] = NoThread
  /\ version' = [version EXCEPT ![t] = samples[iter[t]][ClockOf(cell[t])]]
  /\ cell' = [cell EXCEPT ![t] = @ + 1]
  /\ UNCHANGED <<mutexVars, registryVars, pc, recordVars, pattern, iter,
                 printed, callVars>>

(* Statistics are extracted without the spinlock of the element.           *)
Extract_Unguarded(t) ==
  /\ pc[t] = "extract"
  /\ cell[t] < 3 * Features
  /\ version' = [version EXCEPT ![t] = samples[iter[t]][ClockOf(cell[t])]]
  /\ cell' = [cell EXCEPT ![t] = @ + 1]
  /\ UNCHANGED <<mutexVars, registryVars, pc, recordVars, pattern, iter,
                 printed, callVars>>

(* A skipped element is stepped over twice.                                *)
Advance_Twice(t) ==
  /\ Goto(t, "next", "test")
  /\ LockShared(t)
  /\ LET rest == {n \in Linked : n > iter[t]}
     IN iter' = [iter EXCEPT ![t] =
                   IF iter[t] \in pattern[t] THEN FirstOf(rest)
                   ELSE FirstOf(rest \ {FirstOf(rest)})]
  /\ UNCHANGED <<registryVars, recordVars, pattern, cell, version, printed,
                 callVars>>

(* The walk starts again at the first element it is not at.                *)
Advance_Restarts(t) ==
  /\ Goto(t, "next", "test")
  /\ LockShared(t)
  /\ iter' = [iter EXCEPT ![t] = FirstOf(Linked \ {iter[t]})]
  /\ UNCHANGED <<registryVars, recordVars, pattern, cell, version, printed,
                 callVars>>

-----------------------------------------------------------------------------
(* timer::report(name, loc): find or create the element, then sample it.   *)

Call(t, n) ==
  /\ Goto(t, "idle", "search")
  /\ calls[t] < MaxCalls
  /\ calls' = [calls EXCEPT ![t] = @ + 1]
  /\ before' = [before EXCEPT ![t] = Linked]
  /\ arg' = [arg EXCEPT ![t] = n]
  /\ found' = [found EXCEPT ![t] = FALSE]
  /\ UNCHANGED <<mutexVars, registryVars, ctx, printVars>>

Search(t) ==
  /\ Goto(t, "search", "check")
  /\ LockShared(t)
  /\ UNCHANGED <<registryVars, recordVars, printVars, callVars>>

(* insert_check: the element, or a position to insert it at.               *)
InsertCheck(t) ==
  /\ \/ /\ arg[t] \in Linked
        /\ Goto(t, "check", "release")
        /\ found' = [found EXCEPT ![t] = TRUE]
        /\ UNCHANGED ctx
     \/ /\ arg[t] \notin Linked
        /\ Goto(t, "check", "try")
        /\ ctx' = [ctx EXCEPT ![t] = Linked]
        /\ UNCHANGED found
  /\ UNCHANGED <<mutexVars, registryVars, arg, printVars, callVars>>

TryUpgrade(t) ==
  /\ \/ Goto(t, "try", "alloc") /\ TryUpgradeSucceeds(t)
     \/ Goto(t, "try", "wait") /\ TryUpgradeFails(t)
  /\ UNCHANGED <<registryVars, recordVars, printVars, callVars>>

NewElement(t) ==
  /\ Goto(t, "alloc", "upgrade")
  /\ found' = [found EXCEPT ![t] = TRUE]
  /\ UNCHANGED <<mutexVars, registryVars, arg, ctx, printVars, callVars>>

(* bad_alloc unwinds: notifier notifies, upgrade_lock unlocks, report      *)
(* throws.                                                                 *)
NewElementThrows(t) ==
  /\ AllocMayFail
  /\ Goto(t, "alloc", "failnotify")
  /\ UNCHANGED <<mutexVars, registryVars, recordVars, printVars, callVars>>

Insert(t) ==
  /\ Goto(t, "upgrade", "commit")
  /\ LockExclusive(t)
  /\ UNCHANGED <<registryVars, recordVars, printVars, callVars>>

InsertCommit(t) ==
  /\ Goto(t, "commit", "unlock")
  /\ timers' = [timers EXCEPT ![arg[t]] = @ + 1]
  /\ UNCHANGED <<mutexVars, samples, guard, recordVars, printVars, callVars>>

InsertUnlock(t) ==
  /\ Goto(t, "unlock", "notify")
  /\ UnlockExclusive(t)
  /\ UNCHANGED <<registryVars, recordVars, printVars, callVars>>

(* ~notifier: cv.notify_all(), on the normal and on the exceptional exit.  *)
NotifyAll(t) ==
  /\ pc[t] \in {"notify", "failnotify"}
  /\ pc' = [u \in Threads |->
              IF u = t
              THEN IF pc[t] = "notify" THEN "guard" ELSE "failunlock"
              ELSE IF pc[u] = "waiting" THEN "relock" ELSE pc[u]]
  /\ UNCHANGED <<mutexVars, registryVars, recordVars, printVars, callVars>>

CreateUnlock(t) ==
  /\ Goto(t, "failunlock", "idle")
  /\ UnlockUpgrade(t)
  /\ UNCHANGED <<registryVars, recordVars, printVars, callVars>>

(* cv.wait(search): the shared lock is released and the wait begins under  *)
(* the mutex of the condition variable, so no notification falls between.  *)
CvWait(t) ==
  /\ Goto(t, "wait", "waiting")
  /\ UnlockShared(t)
  /\ UNCHANGED <<registryVars, recordVars, printVars, callVars>>

SpuriousWakeup(t) ==
  /\ Goto(t, "waiting", "relock")
  /\ UNCHANGED <<mutexVars, registryVars, recordVars, printVars, callVars>>

(* cv.wait returns with the shared lock held; the break after it leaves    *)
(* the loop with p = nullptr.                                              *)
Relock(t) ==
  /\ Goto(t, "relock", "release")
  /\ LockShared(t)
  /\ UNCHANGED <<registryVars, recordVars, printVars, callVars>>

(* ~shared_lock; "if (p)": a call that found no element records nothing.   *)
SearchUnlock(t) ==
  /\ Goto(t, "release", IF found[t] THEN "guard" ELSE "idle")
  /\ UnlockShared(t)
  /\ UNCHANGED <<registryVars, recordVars, printVars, callVars>>

GuardLock(t) ==
  /\ Goto(t, "guard", "wall")
  /\ guard[arg[t]] = NoThread
  /\ guard' = [guard EXCEPT ![arg[t]] = t]
  /\ UNCHANGED <<mutexVars, timers, samples, recordVars, printVars, callVars>>

(* p->wall(...), p->user(...), p->system(...): three separate updates.     *)
Accumulate(t) ==
  /\ \/ Goto(t, "wall", "user")
     \/ Goto(t, "user", "system")
     \/ Goto(t, "system", "unguard")
  /\ samples' = [samples EXCEPT ![arg[t]][pc[t]] = @ + 1]
  /\ UNCHANGED <<mutexVars, timers, guard, recordVars, printVars, callVars>>

GuardUnlock(t) ==
  /\ Goto(t, "unguard", "idle")
  /\ guard' = [guard EXCEPT ![arg[t]] = NoThread]
  /\ UNCHANGED <<mutexVars, timers, samples, recordVars, printVars, callVars>>

-----------------------------------------------------------------------------
(* timer::report(os, regex): walk the set, unlocking it to print.          *)

(* The call; a pattern that is no regular expression throws out of it      *)
(* before there is a change or a lock, which is no step of the model.      *)
PrintAll(t, re) ==
  /\ Goto(t, "idle", "read")
  /\ calls[t] < MaxCalls
  /\ calls' = [calls EXCEPT ![t] = @ + 1]
  /\ before' = [before EXCEPT ![t] = Linked]
  /\ pattern' = [pattern EXCEPT ![t] = re]
  /\ printed' = [printed EXCEPT ![t] = {}]
  /\ UNCHANGED <<mutexVars, registryVars, recordVars, iter, cell, version>>

(* shared_lock search; iter = timers.begin().                              *)
Begin(t) ==
  /\ Goto(t, "read", "test")
  /\ LockShared(t)
  /\ iter' = [iter EXCEPT ![t] = FirstOf(Linked)]
  /\ UNCHANGED <<registryVars, recordVars, pattern, cell, version, printed,
                 callVars>>

(* iter # end(): unlock, then skip the element or print it.                *)
Visit(t) ==
  /\ iter[t] # End
  /\ Goto(t, "test", IF iter[t] \in pattern[t] THEN "extract" ELSE "next")
  /\ UnlockShared(t)
  /\ cell' = [cell EXCEPT ![t] = 0]
  /\ version' = [version EXCEPT ![t] = 0]
  /\ UNCHANGED <<registryVars, recordVars, pattern, iter, printed, callVars>>

(* One feature of one clock, extracted under the spinlock of the element   *)
(* and written after the spinlock is released.                             *)
Extract(t) ==
  /\ pc[t] = "extract"
  /\ cell[t] < 3 * Features
  /\ guard[iter[t]] = NoThread
  /\ version' = [version EXCEPT ![t] = samples[iter[t]][ClockOf(cell[t])]]
  /\ cell' = [cell EXCEPT ![t] = @ + 1]
  /\ UNCHANGED <<mutexVars, registryVars, pc, recordVars, pattern, iter,
                 printed, callVars>>

RowsDone(t) ==
  /\ Goto(t, "extract", "next")
  /\ cell[t] = 3 * Features
  /\ printed' = [printed EXCEPT ![t] = @ \cup {iter[t]}]
  /\ UNCHANGED <<mutexVars, registryVars, recordVars, pattern, iter, cell,
                 version, callVars>>

(* search.lock(), ++iter.                                                  *)
Advance(t) ==
  /\ Goto(t, "next", "test")
  /\ LockShared(t)
  /\ iter' = [iter EXCEPT ![t] = FirstOf({n \in Linked : n > iter[t]})]
  /\ UNCHANGED <<registryVars, recordVars, pattern, cell, version, printed,
                 callVars>>

PrintReturn(t) ==
  /\ iter[t] = End
  /\ Goto(t, "test", "idle")
  /\ UnlockShared(t)
  /\ UNCHANGED <<registryVars, recordVars, printVars, callVars>>

-----------------------------------------------------------------------------
Step(t) ==
  \/ Search(t) \/ InsertCheck(t) \/ TryUpgrade(t) \/ NewElement(t)
  \/ NewElementThrows(t) \/ Insert(t) \/ InsertCommit(t) \/ InsertUnlock(t)
  \/ NotifyAll(t) \/ CreateUnlock(t) \/ CvWait(t) \/ Relock(t)
  \/ SearchUnlock(t) \/ GuardLock(t) \/ Accumulate(t) \/ GuardUnlock(t)
  \/ Begin(t) \/ Visit(t) \/ Extract(t) \/ RowsDone(t) \/ Advance(t)
  \/ PrintReturn(t)

Next ==
  \E t \in Threads :
    \/ \E n \in Names : Call(t, n)
    \/ \E re \in SUBSET Names : PrintAll(t, re)
    \/ SpuriousWakeup(t)
    \/ Step(t)

Spec == Init /\ [][Next]_vars

(* The scheduler runs every thread that can run.  Nothing makes a thread   *)
(* call again or a wait end by itself.                                     *)
FairSpec == Spec /\ \A t \in Threads : WF_vars(Step(t))

-----------------------------------------------------------------------------
SharedPcs == {"check", "try", "wait", "release", "test"}
UpgradePcs == {"alloc", "upgrade", "failnotify", "failunlock"}
WriterPcs == {"commit", "unlock"}
GuardPcs == {"wall", "user", "system", "unguard"}

(* No key is linked twice: two threads that report the same new name never *)
(* both insert it, though neither holds the lock from the check to the     *)
(* commit in one mode (timing.cpp:180, 187, 204).                          *)
UniqueKeys == \A n \in Names : timers[n] <= 1

(* The position found by insert_check is still right when insert_commit    *)
(* uses it: nothing was linked in between, across the change from shared   *)
(* to upgrade to exclusive ownership (timing.cpp:180-204).                 *)
CommitDataFresh ==
  \A t \in Threads :
    pc[t] \in {"alloc", "upgrade", "commit"} => ctx[t] = Linked

(* A thread blocked in cv.wait has somebody to wake it: a thread that has  *)
(* upgraded and not notified yet (timing.cpp:193, 209).  It holds as long  *)
(* as no allocation fails, or at least no loser misses the notification of *)
(* one that does.                                                          *)
WaiterHasWaker ==
  \A t \in Threads :
    pc[t] = "waiting" =>
      \E u \in Threads : pc[u] \in {"alloc", "upgrade", "commit", "unlock",
                                    "notify", "failnotify"}

(* A sample enters the three accumulators of its element together: outside *)
(* the spinlock they have the same number of samples (timing.cpp:217).     *)
ClocksAgree ==
  \A n \in Names : guard[n] = NoThread =>
    \A c, d \in Clocks : samples[n][c] = samples[n][d]

(* A printed report contains every timer that matched and existed when it  *)
(* began, though the set is unlocked and grows while it prints, and no     *)
(* timer that does not match (timing.cpp:256-261).                         *)
ReportComplete ==
  \A t \in Threads :
    pc[t] = "test" /\ iter[t] = End =>
      before[t] \cap pattern[t] \subseteq printed[t]
      /\ printed[t] \subseteq pattern[t]

(* The walk goes forward only: no timer is printed twice or out of order,  *)
(* whatever is inserted while the set is unlocked (timing.cpp:256).        *)
ReportOrdered ==
  [][\A t \in Threads :
       pc[t] = "next" /\ iter'[t] # iter[t] /\ iter'[t] # End
         => iter'[t] > iter[t]]_vars

(* Within one element the statistics never go back in time, from one       *)
(* feature to the next and from the wall row to the user and system rows   *)
(* (timing.cpp:265-274 against 217-220).                                   *)
RowsNeverGoBack ==
  [][\A t \in Threads : cell'[t] > cell[t] => version'[t] >= version[t]]_vars

(* A call is pending from its first step until its last accumulator is     *)
(* updated or it gives up.                                                 *)
InCall == {t \in Threads : pc[t] \in RecordPcs \ {"unguard"}}

CallOf(t) ==
  [thread |-> t, name |-> arg[t], fresh |-> arg[t] \notin before[t]]

Board == INSTANCE TimerBoard
  WITH known <- Linked,
       count <- [n \in Names |-> samples[n]["system"]],
       pending <- {CallOf(t) : t \in InCall}

(* The registry implements TimerBoard: a call for a name that had an       *)
(* element when it began always records its sample, exactly once           *)
(* (timing.cpp:177-221).                                                   *)
ImplementsBoard == Board!BoardSpec

(* Every call of report returns, also the one that waits for another       *)
(* thread to create its timer (timing.cpp:209).                            *)
CallsReturn == \A t \in Threads : (pc[t] # "idle") ~> (pc[t] = "idle")

(* Unwinding releases what was taken: upgrade or exclusive ownership is    *)
(* held only by a thread that is still inside the block that owns it, also *)
(* when operator new throws there (timing.cpp:187-206).                    *)
OwnershipScoped ==
  \A t \in Threads :
    /\ upgrader = t <=> pc[t] \in UpgradePcs
    /\ writer = t <=> pc[t] \in WriterPcs
    /\ t \in sharers <=> pc[t] \in SharedPcs

=============================================================================
